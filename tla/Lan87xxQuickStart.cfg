SPECIFICATION QuickStart
CONSTANTS
  ResetPolls = 3
  ResetBmcrs <- MCResetBmcrs
  ResetAnars <- MCResetAnars
  Partners <- MCPartners
  Parts <- MCParts
  Forced <- OneForced
  BusErrors = FALSE
  LateErr = FALSE
PROPERTIES
  LoopEnds
CHECK_DEADLOCK FALSE
