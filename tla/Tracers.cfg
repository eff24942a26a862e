SPECIFICATION FairSpec
CONSTANTS
  Clients = {c1, c2}
  ThreadMayDie = TRUE
  MaxWrites = 1
  Pads = {p1, p2, p3, p4}
  Twins = {p1, p2}
  Excluded = {p4}
  Pushers = {t1, t2}
  MaxSeries = 2
  MaxPushes = 3
  MaxChanges = 2
  MaxMoves = 2
  Queues = {q1, q2}
  Bins = {b, p}
  Root = p
  MaxEdits = 2
  MaxDirect = 2
  MaxGraphChanges = 3
  Setters = {s1, s2}
  Limits = {buffers, bytes, time}
  MaxSets = 3
  MaxSamples = 3
  Hooks = {h1, h2}
  Bounds = {0, 1, 3}
  MaxTime = 3
  MaxHooks = 4
  MaxLines = 1
  MaxEvents = 1
  MaxRefusals = 2
INVARIANTS
  ServerConsistent
  SeriesConsistent
  GaugesConsistent
  QueuesConsistent
  IntervalsConsistent
  WorkerConsistent
PROPERTIES
  LifecyclesEnd
  LabelsConverge
CHECK_DEADLOCK FALSE
