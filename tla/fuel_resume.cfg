SPECIFICATION FairSpec
CONSTANTS
  Proc = {p1, p2}
  NoProc = NoProc
  Outside = Outside
  MaxTime = 5
  MaxFaults = 1
  Interval = 2
  Slack = 1
  Life = 2
  Unusable = {2}
  InProcess = TRUE
PROPERTY CheckpointDrains
CHECK_DEADLOCK FALSE
