SPECIFICATION Spec
CONSTANTS
  Users = {u1}
  Callers = {u1}
  Machine = machine
  Shared = nobody
  Lists = {l1}
  Existing = {l1}
  Names = {"n"}
  Contexts = {"x"}
  Keys = {1}
  Values = {0, 1}
  NoVolume = 0
  Topics = {}
  Clients = {c1}
  Workers = {w1, w2}
  Operations = {"add", "remove", "refresh"}
  MaxLists = 1
  MaxMembers = 2
  MaxItems = 1
  BatchSize = 1
  LeaseTime = 1
  KeepSeries = FALSE
  SweepFits = TRUE
  Faults = {}
  MaxTime = 3
  MaxEvents = 4
CHECK_DEADLOCK FALSE
INVARIANT ReaddedStartsFresh
