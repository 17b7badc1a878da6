SPECIFICATION Spec
CONSTANTS
  None = None
  Lan8670 = Lan8670
  Lan8671 = Lan8671
  Chips <- MCChips
  U8Max = 3
  ResetPolls = 2
  ChipBtmr = 2
  ResetCtrl1 <- MCResetCtrl1
  Parts <- MCParts
  Configs <- MCConfigs
  LateErr = TRUE
INVARIANTS
  TypeOK
  CommittedImpliesReady
  RetryRestoresAgreement
  EnabledNodeHasOpportunity
PROPERTIES
  EnableIsLast
  PollIsTruthful
  StatusIsConsistent
  ImplementsPhyDriver
