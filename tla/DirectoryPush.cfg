SPECIFICATION FairSpec
CONSTANTS
  p1 = p1
  p2 = p2
  Pushes <- MCPushes
  Elements <- MCElements
  Ignored <- MCIgnored
  Volatile <- MCVolatile
  FDLimit = 2
  NULL = NULL
INVARIANTS
  TypeOK
  PushIsComplete
  DeletedIsRecreated
PROPERTIES
  PushReturns
CHECK_DEADLOCK FALSE
