CONSTANTS
  Workers = {w0}
  Leader = w0
  LOGGER_NUM = 1
  LoggerOf <- OneLogger
  BUFFER_NUM = 2
  LOG_BUFFER_SIZE = 3
  MAX_OPE = 2
  Sizes = {0, 1, 2}
  EPOCH_DIFF = 0
  MaxEpoch = 3
  MaxTxn <- Four
SPECIFICATION Spec
INVARIANTS TypeOK BufferOwned LoggedOnce SingleEpochBuffers NoOverflow
