SPECIFICATION Spec
CONSTANTS
  Configs <- OneConfig
  MaxCalls = 2
INVARIANT NominalSettable
CHECK_DEADLOCK FALSE
