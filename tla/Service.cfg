SPECIFICATION FairSpec
CONSTANTS
  c1 = c1
  c2 = c2
  k1 = k1
  k2 = k2
  Clients <- MCClients
  Tasks <- MCTasks
  NULL = NULL
INVARIANTS
  TablePointsToTasks
  WorkersAreSafe
  LeavesNothingBehind
PROPERTIES
  ImplementsLifetimes
  VanishedIsForgotten
  QuitEnds
CHECK_DEADLOCK FALSE
