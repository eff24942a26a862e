SPECIFICATION LocalSpec
CONSTANTS
  Capacity = 1
  MaxSeq = 1
  StartSeqNum = 1
  TailOffset = 1
  ServiceFails = TRUE
  AttachFails = TRUE
  MaxEpochs = 3
INVARIANTS
  Consistent
  DeliveredInOrder
PROPERTIES
  Progress
CHECK_DEADLOCK FALSE
