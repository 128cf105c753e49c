CONSTANTS
  Workers = {w0, w1}
  Leader = w0
  NoWorker = none
  Keys = {1, 2}
  Procs <- DependentProcs
  MaxEpoch = 2
  MaxTxn = 2
  TIDMod = 8
  LOGGER_NUM = 2
  LoggerOf <- OwnLogger
SPECIFICATION DSpec
INVARIANTS    ReadsCommittedVersion LogHoldsTable
PROPERTIES WalContract TidMonotone WorkerTidMonotone
CHECK_DEADLOCK FALSE
