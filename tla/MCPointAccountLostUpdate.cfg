SPECIFICATION Spec
CONSTANTS
  w1 = w1
  w2 = w2
  None = None
  Writers = {w1, w2}
  Kinds <- SpendAndTouch
  Amounts <- MCAmounts
  InitialPoints = 1
  MaxEntries = 3
PROPERTIES EveryWriteMovesItsAmount
