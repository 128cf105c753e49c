CONSTANTS
  Workers = {w0, w1}
  Leader = w0
  LOGGER_NUM = 1
  LoggerOf <- OneLogger
  BUFFER_NUM = 2
  LOG_BUFFER_SIZE = 2
  MAX_OPE = 1
  Sizes = {0, 1}
  EPOCH_DIFF = 0
  MaxEpoch = 2
  MaxTxn <- One
SPECIFICATION Spec
INVARIANTS DurableComplete
