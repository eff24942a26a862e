SPECIFICATION FairSpec
CONSTANTS
  Threads = {t1}
  Pads = {p1, p2}
  Excluded = {p2}
  MaxSeries = 1
  CounterSize = 8
  MaxEmit = 8
  EmissionsFail = FALSE
  MaxPushes = 3
  MaxRemovals = 2
INVARIANTS
  FinalExportComplete
PROPERTIES
  CountedIsEmitted
CHECK_DEADLOCK FALSE
