SPECIFICATION Spec
CONSTANTS
  Threads = {t1, t2}
  Pads = {p1, p2}
  Excluded = {}
  MaxSeries = 1
  CounterSize = 4
  MaxEmit = 2
  EmissionsFail = TRUE
  MaxPushes = 4
  MaxRemovals = 1
INVARIANTS
  Consistent
  LinesAddUp
PROPERTIES
  FinalIsFinal
CHECK_DEADLOCK FALSE
