SPECIFICATION Spec
CONSTANTS
  Proc = {p1, p2}
  NoProc = NoProc
  Outside = Outside
  MaxTime = 5
  MaxFaults = 3
  Interval = 3
  Slack = 1
  Life = 3
  Unusable = {2}
  InProcess = FALSE
PROPERTY SuccessClearsError
CHECK_DEADLOCK FALSE
