CONSTANTS
  Workers = {w0, w1}
  Leader = w0
  NoWorker = none
  Keys = {1, 2}
  Procs <- SkewProcs
  MaxEpoch = 2
  MaxTxn = 2
  TIDMod = 8
SPECIFICATION Spec
INVARIANTS Serializable VersionOrder EpochOrder
CHECK_DEADLOCK FALSE
