SPECIFICATION Spec
CONSTANTS
  u1 = u1
  u2 = u2
  g1 = g1
  r1 = r1
  r2 = r2
  h1 = h1
  h2 = h2
  None = None
  Users = {u1}
  Gifticons = {g1}
  Redemptions = {r1, r2}
  Handlers = {h1, h2}
  Prices <- MCPrices
  InitialPoints = 3
  Overlap = FALSE
SYMMETRY Symmetry
INVARIANTS TypeOK LedgerChained RefundIsWhatWasPaid
PROPERTIES ImplementsContract
