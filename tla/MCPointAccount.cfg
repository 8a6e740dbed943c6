SPECIFICATION Spec
CONSTANTS
  w1 = w1
  w2 = w2
  None = None
  Writers = {w1, w2}
  Kinds <- AllKinds
  Amounts <- MCAmounts
  InitialPoints = 1
  MaxEntries = 3
SYMMETRY Symmetry
INVARIANTS TypeOK CleanLedgerChained LockedReadIsFresh BalanceIsOnRecord
