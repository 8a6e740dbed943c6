SPECIFICATION Spec
CONSTANTS
  u1 = u1
  u2 = u2
  s1 = s1
  a1 = a1
  e1 = e1
  e2 = e2
  h1 = h1
  h2 = h2
  None = None
  Users <- MCTwoUsers
  Sites = {s1}
  Admins = {a1}
  ManagerOf <- OneManaged
  Exchanges = {e1, e2}
  Handlers = {h1, h2}
  Amounts <- MCOneAmount
  InitialPoints = 10000
  Overlap = FALSE
SYMMETRY Symmetry
INVARIANTS TypeOK LedgerChained RefundedIffUndone PointsConserved AnnouncesOwnDecision
PROPERTIES ImplementsContract
CHECK_DEADLOCK FALSE
