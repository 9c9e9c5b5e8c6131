SPECIFICATION Spec
CONSTANTS
  Jobs = {j1}
  Page = j1
  MaxRuns = 2
  MaxRetained = 1
  Faults = {"lookupFails", "unavailable", "evictedPoll", "notReady", "deleteFails", "stalls"}
CHECK_DEADLOCK FALSE
INVARIANTS ShownResultIsTrue
PROPERTY ScreenCatchesUp
