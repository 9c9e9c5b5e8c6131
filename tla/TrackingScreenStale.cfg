SPECIFICATION ScreenSpec
CONSTANTS
  Lists = {l1, l2}
  Names = {n, m}
  Keys = {k}
  Existing = {l1, l2}
  NoList = NoList
  NoName = NoName
  ListLimit = 2
  PageFaults = {}
  MaxRequests = 4
CHECK_DEADLOCK FALSE
INVARIANTS TargetIsOfItsList
