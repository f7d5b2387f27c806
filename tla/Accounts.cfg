SPECIFICATION Spec
CONSTANTS
  Staff = {teacher}
  Pupil = {ada, obi}
  Parent = {mother, father}
  Worker = {w1, w2}
  MaxRequests = 3
  MaxCrashes = 1
  Nobody = Nobody
INVARIANTS SlipOpens GeneratedMustChange OnePrimary
SYMMETRY Symmetry
CHECK_DEADLOCK FALSE
