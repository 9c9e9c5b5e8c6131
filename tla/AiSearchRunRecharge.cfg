SPECIFICATION Spec
CONSTANTS
  Ids = {r1}
  Clients = {c1}
  Workers = {w1}
  NoWorker = NoWorker
  NoId = NoId
  JobAttempts = 2
  MaxStalls = 0
  MaxSets = 2
  Resettable = {"failed", "canceled", "partial"}
  AtomicReset = TRUE
  Faults <- NoFaults
CHECK_DEADLOCK FALSE
INVARIANT RechargeOnlyIfPersistFailed
