SPECIFICATION Spec
CONSTANTS
  Ids = {i1, i2}
  Clients = {c1, c2}
  Workers = {w1}
  Hash = {h1}
  Rotated = Rotated
  NoId = NoId
  NoWorker = NoWorker
  IdempTtl = 1
  JobAttempts = 1
  MaxStalls = 0
  MaxTime = 0
  PromptRequests = FALSE
  Faults <- AddFaults
CHECK_DEADLOCK FALSE
INVARIANT CachedJobExists
