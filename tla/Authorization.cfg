SPECIFICATION FairSpec
CONSTANTS
  i1 = i1
  i2 = i2
  i3 = i3
  Invocations <- MCInvocations
  MaxRounds = 3
  MaxSignals = 2
  NULL = NULL
INVARIANTS
  AnsweredOnce
  OwnVerdict
  VerdictIsComing
PROPERTIES
  PendingIsAnswered
CHECK_DEADLOCK FALSE
