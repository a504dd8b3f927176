SPECIFICATION Spec
CONSTANTS
  Proc = {w1, w2}
  Id = {i1, i2}
  Job = {"rail"}
  DropFactor = 1
  DueAfter <- DueAfterSuccess
  MaxTime = 2
  MaxRuns = 3
SYMMETRY Symmetry
PROPERTY RailHeadForward
CHECK_DEADLOCK FALSE
