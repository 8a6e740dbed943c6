\* A reset that nothing bounds, from a database with most migrations.
SPECIFICATION Spec
CONSTANTS
  First = 94
  Bottom = 0
  RunFrom = 95
  Runnable = {"CreateSiteBadgeRequests"}
PROPERTIES
  ResetRevertsAll
CHECK_DEADLOCK FALSE
