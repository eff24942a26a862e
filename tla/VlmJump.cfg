SPECIFICATION Spec
CONSTANTS
  Intervals = {0}
  BatchSizes = {3}
  QueueCapacity = 1
  MaxFrameBytes = 1
  MaxBatchBytes = 3
  Panics = FALSE
  MaxPts = 1
  MaxRuns = 1
  MaxInputs = 3
INVARIANTS
  BatchPtsOrdered
CHECK_DEADLOCK FALSE
