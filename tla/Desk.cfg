SPECIFICATION DeskSpec
CONSTANTS
  Pk = {p1, p2}
  Ref = {r1}
  NULL = NULL
  Amount = {1}
  Person = {student}
  Staff = {}
  Request = {q1}
  Admin = {a1, a2}
  MaxCrashes = 0
  MaxActs = 2
SYMMETRY Symmetry
VIEW DeskView
CHECK_DEADLOCK FALSE
INVARIANTS ReceiptOfSettledRow ConfirmedTransferHasReceipt
PROPERTIES CreditHasOrigin NeverReopened
