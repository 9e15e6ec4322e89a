SPECIFICATION Spec
CONSTANTS
  Passes = 3
  FirstOrder = "AB"
  MaxFaults = 1
  Nothing = Nothing
INVARIANTS
  BenchmarkTypeOK
  CompletedIsClean
  OneWorkerBusy
PROPERTIES
  RunEnds
  WorkersEnd
  ImplementsPairedPasses
CHECK_DEADLOCK FALSE
