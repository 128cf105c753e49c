CONSTANTS
  MaxWorkers = 6
  MaxLoggers = 4
  MaxCpus = 11
  TUPLE_NUM = 6
SPECIFICATION Spec
INVARIANTS TableFilled WorkersPlaced
PROPERTIES Starts
CHECK_DEADLOCK FALSE
