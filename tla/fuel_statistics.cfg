SPECIFICATION Spec
CONSTANTS
  Pub = {p1, p2}
  NoPub = NoPub
  Reader = {r1}
  MaxStamp = 5
  PerDay = 2
  History = 1
  Chunks = 2
SYMMETRY Sym
INVARIANT PublishedIsWhole
INVARIANT NoOrphanPoints
INVARIANT HistoryWindow
INVARIANT ViewportIsWhole
PROPERTY PointerAdvances
CHECK_DEADLOCK FALSE
