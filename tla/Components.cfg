SPECIFICATION SumSpec
CONSTANTS
  Ids = {r1}
  Clients = {c1, c2}
  Workers = {w1, w2}
  NoWorker = NoWorker
  NoId = NoId
  JobAttempts = 2
  MaxStalls = 1
  MaxSets = 2
  Resettable = {"failed", "canceled", "partial"}
  AtomicReset = TRUE
  Faults <- OwnedFaults
  Users = {"u"}
  Machine = "machine"
  Shared = "nobody"
  MaxLists = 1
  MaxMembers = 1
  SweepFits = TRUE
  Callers = {0, 1, 2}
  Offset <- MCOffset
  Second = 3
  Qps = 1
  BackoffBase = 1
  AdsMaxRetries = 1
  SlotTtlBuffer = 1
  MaxSkew = 1
  MaxLate = 1
  MaxTime = 10
  Lists = {"l1", "l2", "l3"}
  Existing = {"l1", "l2"}
  Names = {"n", "m"}
  Keys = {1}
  NoList = "no list"
  NoName = "no name"
  ListLimit = 2
  PageFaults = {"error", "offline"}
  MaxRequests = 3
CHECK_DEADLOCK FALSE
SYMMETRY Symmetry
INVARIANTS
  TypesOK DoneRunHasItsClusters DoneRunMatchesStores NoRechargeOfStored QueuedHasOwner
  TopicsAddUp OneSavesAtATime OrphansOnlyFromTheWindow
  LimitsHold OneSweep SnapshotsAreChanges SeriesTellsTheChecks
  EachItemIsSettledOnce CacheAnswersItsKey ExactAnswersTheSeeds
  FiguresAgreeWithAnswers AnswersHaveTheirOwnBrands
  InsightKeepsUp GatedAnswerIsLabelled WalkShowsEachRowOnce
  FooterNamesTheRows DashMeansNoStage PageTellsTheServer
PROPERTY CallsAreSpaced
