SPECIFICATION Spec
CONSTANTS
  a1 = a1
  a2 = a2
  b1 = b1
  shown = shown
  s1 = s1
  s2 = s2
  Commit = {a1, a2, b1}
  First = {a1}
  Taggable = {a1}
  Core <- TwoCores
  Edit = {shown}
  Visible = {shown}
  Slot = {s1, s2}
  MaxMerges = 3
  MaxRevision = 2
SYMMETRY Slots
INVARIANTS
  IdentityNamesOneCut
  MovesAccepted
PROPERTIES
  MergesFollowPolicy
CHECK_DEADLOCK FALSE
