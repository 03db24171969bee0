SPECIFICATION Spec
CONSTANTS
  Callers <- MCCallers
  Workers <- MCWorkers
  Elements <- MCElements
  FDLimit = 2
  MaxPulls = 3
  MaxStops = 1
INVARIANT NullIsNeverCopiedTo
CHECK_DEADLOCK FALSE
