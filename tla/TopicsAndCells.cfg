SPECIFICATION SumSpec
CONSTANTS
  Ids = {r1}
  Clients = {c1}
  Workers = {w1, w2}
  TwoClients = {c1, c2}
  OneSlot = {w1}
  NoWorker = NoWorker
  NoId = NoId
  JobAttempts = 3
  MaxStalls = 1
  Resettable = {"failed", "canceled"}
  AtomicReset = FALSE
  Faults <- JourneyFaults
CHECK_DEADLOCK FALSE
INVARIANTS CompletedRunIsStored FailedWhenGivenUp
PROPERTY CommittedRunStays
PROPERTY EveryRunStarts
PROPERTY EveryRunEnds
PROPERTY EveryCellSettles
