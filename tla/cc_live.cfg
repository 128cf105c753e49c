CONSTANTS
  Workers = {w0, w1}
  Leader = w0
  NoWorker = none
  Keys = {1, 2}
  Procs <- UpdateProcs
  MaxEpoch = 2
  MaxTxn = 2
  TIDMod = 2
SPECIFICATION FairSpec
INVARIANTS TypeOK LockInv
PROPERTIES LocksReleased
CHECK_DEADLOCK FALSE
