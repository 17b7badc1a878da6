SPECIFICATION Spec
CONSTANTS
  None = None
  ResetPolls = 1
  Parts <- MCParts
  Configs <- MCConfigs
  ResetWords <- MCResetWords
  LateErr = TRUE
INVARIANTS
  TypeOK
  WordsMatchConfig
PROPERTIES
  ImplementsDriver
  OtherBitsKept
