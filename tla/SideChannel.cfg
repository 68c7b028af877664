SPECIFICATION FairSpec
CONSTANTS
  N = 3
  MaxCalls = 2
  MaxFrame = 8192
  Sizes = {0, 4000, 8193}
  MayExpire = TRUE
  MayClose = TRUE
  Retry = FALSE
INVARIANTS
  TypeOK
  ResultsMatch
  NobodyLeavesEarly
  ResultsAgree
  StreamsInStep
PROPERTIES
  ImplementsAllGather
  EveryCallEnds
CHECK_DEADLOCK FALSE
