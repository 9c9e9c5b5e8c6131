SPECIFICATION Spec
CONSTANTS
  Ids = {i1, i2, i3}
  Clients = {c1, c2}
  Workers = {w1, w2}
  Hash = {h1}
  Rotated = Rotated
  NoId = NoId
  NoWorker = NoWorker
  IdempTtl = 2
  JobAttempts = 2
  MaxStalls = 1
  MaxTime = 3
  PromptRequests = TRUE
  Faults <- RowFaults
CHECK_DEADLOCK FALSE
SYMMETRY Symmetry
CONSTRAINT Narrow
INVARIANT FastPathFresh
INVARIANT NoDuplicateInFlight
INVARIANT SnapshotMatchesStatus
INVARIANT NoPrematureFailure
INVARIANT ProgressHonest
PROPERTY RefinesLifecycle
