SPECIFICATION GroupSpec
CONSTANTS
  N = 2
  MaxCalls = 5
  MaxFrame = 8192
  Sizes = {0, 100}
  MayExpire = TRUE
  MayClose = TRUE
  Retry = TRUE
  NumBarriers = 1
  DestBytes = 100
  OpenMayFail = TRUE
  ConnectMayFail = TRUE
  Fragile = {}
  Hurried = {}
INVARIANT SameBarrier
CHECK_DEADLOCK FALSE
