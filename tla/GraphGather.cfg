SPECIFICATION FairSpec
CONSTANTS
  N = 4
  Configs <- FourRanks
  Rounds = 2
  Expiring <- Trees
INVARIANTS
  KnowledgeSpreads
  SlotFree
  GatherComplete
PROPERTY
  EveryRankGathers
CHECK_DEADLOCK FALSE
