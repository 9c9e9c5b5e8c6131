SPECIFICATION Spec
CONSTANTS
  Jobs = {j1}
  Page = j1
  MaxRuns = 2
  MaxRetained = 1
  Faults = {"lookupFails"}
CHECK_DEADLOCK FALSE
PROPERTY RetryStartsFresh
