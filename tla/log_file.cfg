CONSTANTS
  MaxCells = 6
  MaxBatch = 2
  MaxRecords = 2
  MaxRuns = 2
SPECIFICATION Spec
INVARIANTS SyncedReadable  NoGaps
