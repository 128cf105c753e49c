CONSTANTS
  LOGGER_NUM = 3
  MaxEpoch = 3
SPECIFICATION Spec
INVARIANTS DurableBelowLoggers PepochNotAhead OpenedBeforeStored
PROPERTIES DurableMonotone
CHECK_DEADLOCK FALSE
