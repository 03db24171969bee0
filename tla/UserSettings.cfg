SPECIFICATION Spec
CONSTANTS
  t1 = t1
  t2 = t2
  save = save
  forever = forever
  Threads <- MCThreads
  Keys <- MCKeys
  Forever <- MCForever
  NULL = NULL
INVARIANTS
  TypeOK
  ForgottenHasReason
PROPERTIES
  UnaskedWasRemembered
  
CHECK_DEADLOCK FALSE
