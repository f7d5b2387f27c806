SPECIFICATION Spec
CONSTANTS
  Session = {y1, y2}
  LastTerm = 2
  Student = {ada, obi}
  Class = {jss1, jss2}
  Worker = {w1, w2}
  MaxRequests = 4
  MaxCrashes = 1
  None = None
INVARIANTS CalendarSound NobodyDropsOut
SYMMETRY Symmetry
CHECK_DEADLOCK FALSE
