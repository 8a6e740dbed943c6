SPECIFICATION FairSpec
CONSTANTS
  u1 = u1
  u2 = u2
  s1 = s1
  a1 = a1
  e1 = e1
  e2 = e2
  h1 = h1
  h2 = h2
  None = None
  Users <- MCUsers
  Sites = {s1}
  Admins = {a1}
  ManagerOf <- NoManagers
  Exchanges = {e1}
  Handlers = {h1, h2}
  Amounts <- MCOneAmount
  InitialPoints = 15000
  Overlap = TRUE
INVARIANTS UndoneIsRefunded RefundFollowsSpend
PROPERTIES EveryHandlerReturns
CHECK_DEADLOCK FALSE
