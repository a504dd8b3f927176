SPECIFICATION Spec
CONSTANTS
  w1 = w1
  s1 = s1
  Worker = {w1}
  Scanner = {s1}
  NoWorker = NoWorker
  MaxRows = 2
  MaxTime = 2
  MaxPub = 1
  MaxFaults = 1
  PageSize = 1
  Runtime = 1
  Grace = 2
INVARIANT FenceIsHeld
PROPERTY ReclaimJustified
PROPERTY LiveSessionKept
PROPERTY ImplementsLedger
CHECK_DEADLOCK FALSE
