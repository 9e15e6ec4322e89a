SPECIFICATION Spec
CONSTANTS
  MaxRequests = 2
  MaxFaults = 1
  Nothing = Nothing
INVARIANTS
  WorkerClientTypeOK
  ProtocolAgreed
  EndedMeansAnswered
  ReadyIsTrue
PROPERTIES
  CallsEnd
  NoWorkerLeft
  ImplementsRequests
CHECK_DEADLOCK FALSE
