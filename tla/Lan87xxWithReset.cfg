SPECIFICATION WithResetLive
CONSTANTS
  ResetPolls = 2
  ResetBmcrs <- AutoBmcr
  ResetAnars <- MCResetAnars
  Partners <- MCPartners
  Parts <- GoodPart
  Forced <- OneForced
  BusErrors = TRUE
  LateErr = TRUE
PROPERTIES
  EverythingReturns
  PollNeverInvents
  ReinitRestoresModes
  WrapperImplementsPhyDriver
