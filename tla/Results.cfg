SPECIFICATION Spec
CONSTANTS
  maths = maths
  english = english
  Student = {1, 2, 3}
  Subject = {maths, english}
  Mark = {0, 2}
  Selection = {{3}}
  Start <- MCStart
  Worker = {w1, w2}
  MaxRequests = 2
  MaxCrashes = 1
SYMMETRY Symmetry
CHECK_DEADLOCK FALSE
INVARIANTS ApprovedIsVetted
PROPERTIES RanksRight ResultsRight ReadersTold
