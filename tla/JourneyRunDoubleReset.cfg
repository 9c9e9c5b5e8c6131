SPECIFICATION Spec
CONSTANTS
  Ids = {r1}
  Clients = {c1, c2}
  Workers = {w1}
  NoWorker = NoWorker
  NoId = NoId
  JobAttempts = 1
  MaxStalls = 0
  Resettable = {"failed", "canceled"}
  AtomicReset = FALSE
  Faults <- NoFaults
CHECK_DEADLOCK FALSE
INVARIANT DoubleResetIsBenign
