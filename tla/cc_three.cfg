CONSTANTS
  Workers = {w0, w1, w2}
  Leader = w0
  NoWorker = none
  Keys = {1, 2}
  Procs <- ShortProcs
  MaxEpoch = 3
  MaxTxn = 1
  TIDMod = 8
SPECIFICATION Spec
INVARIANTS Serializable
PROPERTIES CommitsInLiveEpoch ClockSpec
SYMMETRY WorkerSymmetry
CHECK_DEADLOCK FALSE
