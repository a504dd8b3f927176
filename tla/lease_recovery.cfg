SPECIFICATION RecoverySpec
CONSTANTS
  w1 = w1
  w2 = w2
  s1 = s1
  Worker = {w1, w2}
  Scanner = {s1}
  NoWorker = NoWorker
  MaxRows = 2
  MaxTime = 0
  MaxPub = 0
  MaxFaults = 1
  PageSize = 1
  Runtime = 0
  Grace = 1
PROPERTY EventuallyClosed
CHECK_DEADLOCK FALSE
