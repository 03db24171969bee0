SPECIFICATION FairSpec
CONSTANTS
  Runs = {r1, r2}
  Chain <- MCChain
  ExitCodes <- MCExitCodes
  MaxCommands = 2
  MaxPrompts = 1
  Overlap = FALSE
  NULL = NULL
INVARIANTS
  TypeOK
  RunStateOwnership
  OnlyStrayCancelsFault
  StatusTracksRun
PROPERTIES
  CancelAnswers
  OnlyPromptsBlock
