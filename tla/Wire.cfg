SPECIFICATION FairSpec
CONSTANTS
  Settings <- Tested
  Depth = 4
  Retry = FALSE
INVARIANTS
  SlotsExclusive
  DataIntact
  HealthySucceed
PROPERTY
  EveryOperationEnds
CHECK_DEADLOCK FALSE
