SPECIFICATION Spec
CONSTANTS
  ResetPolls = 2
  ResetBmcrs <- MCResetBmcrs
  ResetAnars <- MCResetAnars
  Partners <- MCPartners
  Parts <- MCParts
  Forced <- MCForced
  BusErrors = TRUE
  LateErr = TRUE
INVARIANTS
  TypeOK
  RestartOnlyWhileNegotiating
PROPERTIES
  EveryStepCounts
  NegotiatedInFull
  ForcedModeIsReported
  LoopbackOffPreserves
  UpIsNegotiated
  FloatingBusIsDown
  InitLeavesNegotiating
  ImplementsPhyDriver
