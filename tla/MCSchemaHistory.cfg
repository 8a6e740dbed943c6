\* Down to the twentieth migration; two files run by name late in the history.
SPECIFICATION Spec
CONSTANTS
  First = 20
  Bottom = 20
  RunFrom = 74
  Runnable = {"CreateSiteBadgeRequests", "AddDeletedAtToPostCategories"}
INVARIANTS
  TypeOK
  AtHeadServesTheCode
  DownRestoresTheVersion
  VersionsReachHead
\* A database that was emptied, or has a row no class is known for, is stuck.
CHECK_DEADLOCK FALSE
