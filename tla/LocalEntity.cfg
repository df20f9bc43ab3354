SPECIFICATION Spec
CONSTANTS
  Configs <- AllConfigs
  MaxCalls = 2
INVARIANTS
  TypeOK
  OwnValues
  Measured
  LimitMeasured
  ConstraintsOfLast
PROPERTY AllOrNone
CHECK_DEADLOCK FALSE
