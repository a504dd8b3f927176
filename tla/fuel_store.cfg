SPECIFICATION Spec
CONSTANTS
  Proc = {p1, p2}
  NoProc = NoProc
  Outside = Outside
  MaxTime = 5
  MaxFaults = 2
  Interval = 3
  Slack = 1
  Life = 3
  Unusable = {2}
  InProcess = FALSE
SYMMETRY Sym
INVARIANT ReadModelAgrees
INVARIANT NoSnapshotLost
PROPERTY NoRegression
PROPERTY NoFalseFailure
PROPERTY BudgetKept
CHECK_DEADLOCK FALSE
