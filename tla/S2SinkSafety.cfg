SPECIFICATION Spec
CONSTANTS
  Capacity = 2
  MaxUnacked = 2
  ServiceFails = TRUE
  TimersExpire = TRUE
  MaxRecords = 3
  MaxEos = 2
  MaxInterrupts = 1
INVARIANTS
  TypeOK
  RecordsConserved
  CompleteMeansAcked
  StopOkMeansAcked
  SignalsArrive
PROPERTIES
  FailureIsFinal
  LogImplemented
