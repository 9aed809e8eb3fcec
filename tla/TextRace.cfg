SPECIFICATION Spec
CONSTANTS
  t1 = t1
  t2 = t2
  t3 = t3
  t4 = t4
  n1 = n1
  n2 = n2
  e1 = e1
  e2 = e2
  Turns = {t1, t2}
  Notes = {n1}
  Ends = {}
  Steers = {"urgent"}
  NoSteer = "none"
  CapTurns = 2
  MaxCalls = 1
  Pace = "replied"
SYMMETRY FrameSymmetry
PROPERTIES
  HistoryGrows
\* Every frame is delivered at most once: the run stops when all are handled.
CHECK_DEADLOCK FALSE
