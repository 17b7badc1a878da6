SPECIFICATION Spec
CONSTANTS
  None = None
  Lan8670 = Lan8670
  Lan8671 = Lan8671
  Chips <- MCChips
  U8Max = 3
  ResetPolls = 2
  ChipBtmr = 2
  ResetCtrl1 <- MCResetCtrl1
  Parts <- GoodParts
  Configs <- MCConfigs
  LateErr = FALSE
INVARIANTS
  ModeAgrees
PROPERTIES
  PollIsTruthful
  EveryStepCounts
