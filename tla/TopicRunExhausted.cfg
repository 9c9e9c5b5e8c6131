SPECIFICATION Spec
CONSTANTS
  Ids = {r1}
  Clients = {c1}
  Workers = {w1}
  NoWorker = NoWorker
  NoId = NoId
  JobAttempts = 1
  MaxStalls = 0
  Resettable = {"failed"}
  AtomicReset = FALSE
  Faults <- NoFaults
CHECK_DEADLOCK FALSE
INVARIANT ExhaustedRunIsFailed
