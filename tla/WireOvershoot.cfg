SPECIFICATION Spec
CONSTANTS
  Settings <- Pipelined
  Depth = 4
  Retry = FALSE
INVARIANT HealthySucceed
CHECK_DEADLOCK FALSE
