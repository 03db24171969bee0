SPECIFICATION Spec
CONSTANTS
  Runs = {r1, r2}
  Chain <- MCChain
  ExitCodes <- MCExitCodes
  MaxCommands = 1
  MaxPrompts = 1
  Overlap = TRUE
  NULL = NULL
INVARIANT SuccessIsEarned
PROPERTIES
  CancelStopsProgress
  ImplementsTaskApi
