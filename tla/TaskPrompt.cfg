SPECIFICATION FairSpec
CONSTANTS
  t1 = t1
  t2 = t2
  k1 = k1
  k2 = k2
  Threads <- MCThreads
  Tasks <- MCTasks
  MaxPrompts = 2
  MaxCommits = 2
  Main = Main
  NULL = NULL
INVARIANTS
  TypeOK
  NoLostWakeup
  PathsSuffice
PROPERTIES
  CommitReturns
  CancelReturns
  ImplementsPrompting
