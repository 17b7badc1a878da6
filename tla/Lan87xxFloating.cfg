SPECIFICATION Spec
CONSTANTS
  ResetPolls = 1
  ResetBmcrs <- AutoBmcr
  ResetAnars <- MCResetAnars
  Partners <- Hub
  Parts <- GoodPart
  Forced <- OneForced
  BusErrors = FALSE
  LateErr = FALSE
PROPERTIES
  FloatingBusIsUnsupported
