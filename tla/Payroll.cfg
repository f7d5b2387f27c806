SPECIFICATION Spec
CONSTANTS
  s1 = s1
  s2 = s2
  housing = housing
  pension = pension
  Staff = {s1, s2}
  Definition = {housing, pension}
  Deduction = {pension}
  Covers <- MCCovers
  Salary = {2}
  Amount = {1}
  Paid = {2}
  Period = {"June"}
  Reference = {a, b}
  Worker = {w1, w2}
  MaxRequests = 3
  MaxCrashes = 1
SYMMETRY Symmetry
CHECK_DEADLOCK FALSE
INVARIANTS SlipsAddUp SkippedIsSettled NeverOverpaid
PROPERTIES BulkSettles
