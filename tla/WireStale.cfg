SPECIFICATION Spec
CONSTANTS
  Settings <- Abandoned
  Depth = 4
  Retry = TRUE
INVARIANT DataIntact
CHECK_DEADLOCK FALSE
