SPECIFICATION LongCommandsSpec
CONSTANTS
  Runs = {r1, r2}
  Chain <- MCChain
  ExitCodes <- MCExitCodes
  MaxCommands = 1
  MaxPrompts = 0
  Overlap = FALSE
  NULL = NULL
PROPERTY CancelEndsCommands
