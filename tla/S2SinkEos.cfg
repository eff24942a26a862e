SPECIFICATION Spec
CONSTANTS
  Capacity = 1
  MaxUnacked = 2
  ServiceFails = FALSE
  TimersExpire = FALSE
  MaxRecords = 1
  MaxEos = 1
  MaxInterrupts = 1
INVARIANTS
  EosMeansAcked
