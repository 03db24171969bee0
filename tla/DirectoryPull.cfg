SPECIFICATION FairSpec
CONSTANTS
  Callers <- MCCallers
  Workers <- MCWorkers
  Elements <- MCElements
  FDLimit = 2
  MaxPulls = 3
  MaxStops = 1
INVARIANTS
  TypeOK
  OneFiller
  IncompleteHasReason
  NullNeedsOverlap
PROPERTIES
  OutputIsKept
  ImplementsCacheDirectory
  PullReturns
CHECK_DEADLOCK FALSE
