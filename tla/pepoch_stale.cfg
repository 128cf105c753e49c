CONSTANTS
  LOGGER_NUM = 2
  MaxEpoch = 3
SPECIFICATION Spec
INVARIANTS PepochIsDurable
CHECK_DEADLOCK FALSE
