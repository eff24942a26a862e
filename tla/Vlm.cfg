SPECIFICATION LocalSpec
CONSTANTS
  Intervals = {0, 1}
  BatchSizes = {1, 2}
  QueueCapacity = 1
  MaxFrameBytes = 1
  MaxBatchBytes = 2
  Panics = TRUE
  MaxPts = 1
  MaxRuns = 2
  MaxInputs = 4
INVARIANTS
  Consistent
  GenerationsApart
  BatchBytesSuffice
PROPERTIES
  Progress
CHECK_DEADLOCK FALSE
