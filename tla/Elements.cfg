SPECIFICATION FairSpec
CONSTANTS
  Capacity = 2
  ClientFails = TRUE
  MaxRendered = 4
  ServerDenies = TRUE
  AttachFails = TRUE
  MaxReceived = 3
  MaxFlushes = 2
  Intervals = {0, 1}
  MaxPts = 1
  Reentrant = TRUE
  Panics = TRUE
  MaxRuns = 2
  MaxInputs = 3
  RawElements = {"raw"}
  TextElements = {"text"}
  MaxTurns = 2
  MaxResponseBytes = 3
  MaxChunk = 2
  MaxFrames = 2
INVARIANTS
  SinkHonest
  SrcHonest
  OcrsQuiet
  OcrsAccounted
  ConsoleConsistent
  ChatConsistent
PROPERTIES
  LifecyclesReturn
  WorkIsDone
CHECK_DEADLOCK FALSE
