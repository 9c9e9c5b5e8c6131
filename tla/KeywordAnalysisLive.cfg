SPECIFICATION FairSpec
CONSTANTS
  Ids = {i1, i2}
  Clients = {c1}
  Workers = {w1}
  Hash = {h1}
  Rotated = Rotated
  NoId = NoId
  NoWorker = NoWorker
  IdempTtl = 1
  JobAttempts = 2
  MaxStalls = 1
  MaxTime = 0
  PromptRequests = TRUE
  Faults <- LiveFaults
CHECK_DEADLOCK FALSE
INVARIANT InFlightHasOwner
PROPERTY EventuallyTerminal
