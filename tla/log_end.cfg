CONSTANTS
  Workers = {w0, w1}
  Leader = w0
  LOGGER_NUM = 1
  LoggerOf <- OneLogger
  BUFFER_NUM = 1
  LOG_BUFFER_SIZE = 1
  MAX_OPE = 1
  Sizes = {1}
  EPOCH_DIFF = 1
  MaxEpoch = 2
  MaxTxn <- One
SPECIFICATION FairSpec
PROPERTIES  ThreadsEnd
