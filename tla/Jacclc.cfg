SPECIFICATION Spec
CONSTANTS
  g1 = g1
  g2 = g2
  t1 = t1
  t2 = t2
  a1 = a1
  h1 = h1
  good = good
  old = old
  f1 = f1
  f2 = f2
  Nil = Nil
  None = None
  Half = 3
  Goroutine = {g1, g2}
  Thread = {t1, t2}
  Addr = {a1}
  Handle = {h1}
  Field = {"coordinator", "rank", "ring", "size"}
  Path = {good, old}
  Symbol = {f1, f2}
  Exports <- TwoFiles
  Programs <- AllPrograms
SYMMETRY Symmetric
INVARIANTS
  CallsAreBound
  CacheIsTrue
  GroupIsTrue
  ErrorsAreOwn
  ClosedStaysOut
