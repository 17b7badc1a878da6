SPECIFICATION Spec
CONSTANTS
  ResetPolls = 1
  ResetBmcrs <- AutoBmcr
  ResetAnars <- MCResetAnars
  Partners <- Hub
  Parts <- MCParts
  Forced <- OneForced
  BusErrors = FALSE
  LateErr = FALSE
INVARIANTS
  InitChecksModel
