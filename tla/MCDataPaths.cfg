SPECIFICATION Spec
CONSTANTS
  Bytes <- MCBytes
  Delimiters <- MCDelimiters
  RecordSizes = {1, 2}
  U32Max = 3
  MaxText = 5
  MaxChunk = 2
  MaxFlushes = 1
  Contracts <- MCContracts
  Rows <- MCRows
  TensorIds = {"out", ""}
  Blank = ""
  Maxima = {1, 2}
  ScoreThreshold = 3
  Overlap = 3
  Classes = {0, 1}
  NotFinite = 99
  Models <- MCModels
  Infos <- MCInfos
  Tensors <- MCTensors
  MaxTensors = 3
  Sizes = {1, 2}
  MaxFrames = 1
  Paddings <- MCPaddings
  Sides = {1, 2}
  RangeCounts = {1, 3}
  Names = {"a", "b"}
  Values = {1, 2}
  MaxHeaders = 2
  MaxFixed = 1
INVARIANTS
  FramingConsistent
  NanoDetConsistent
  InferenceConsistent
  MetaConsistent
CHECK_DEADLOCK FALSE
