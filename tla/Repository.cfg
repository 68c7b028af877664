SPECIFICATION Spec
CONSTANTS
  me = me
  other = other
  Proc = {me, other}
  user = me
  World <- Worlds
  MaxEdits = 2
INVARIANTS
  EveryDeclDecided
  NamesUnique
  TreeIsGenerated
  CacheFresh
  BindingsResolve
  ParsePredicts
