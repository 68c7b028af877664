SPECIFICATION FairGroupSpec
CONSTANTS
  N = 3
  MaxCalls = 5
  MaxFrame = 8192
  Sizes = {0, 100}
  MayExpire = TRUE
  MayClose = TRUE
  Retry = TRUE
  NumBarriers = 1
  DestBytes = 100
  OpenMayFail = TRUE
  ConnectMayFail = TRUE
  Fragile = {0, 2}
  Hurried = {1}
INVARIANTS
  SameBarrierUnspoilt
  TeardownIsJoint
  ReadyMeansAllOpened
PROPERTY
  EveryRankEnds
CHECK_DEADLOCK FALSE
