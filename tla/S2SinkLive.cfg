SPECIFICATION FairSpec
CONSTANTS
  Capacity = 1
  MaxUnacked = 1
  ServiceFails = TRUE
  TimersExpire = TRUE
  MaxRecords = 2
  MaxEos = 1
  MaxInterrupts = 1
PROPERTIES
  NothingHangs
