SPECIFICATION Spec
CONSTANTS
  NaN = NaN
  NegZero = NegZero
  Unset = Unset
  Calls <- Tested
  Fallible = {1}
INVARIANTS
  ReductionsInOrder
  GatherInOrder
PROPERTIES
  EveryRankReturns
CHECK_DEADLOCK FALSE
