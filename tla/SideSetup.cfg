SPECIFICATION FairSpec
CONSTANTS
  N = 3
  Strays = 1
  MayExpire = TRUE
INVARIANTS
  ReadyIsComplete
  ConnectedIsRegistered
PROPERTIES
  EveryoneConnects
  EveryHelloAnswered
CHECK_DEADLOCK FALSE
