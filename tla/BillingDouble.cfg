SPECIFICATION Spec
CONSTANTS
  tuition = tuition
  books = books
  Category = {tuition, books}
  Compulsory = {tuition}
  Amount = {1}
  Price0 <- MCPrice0
  Cart <- MCCart
  Entered = {1}
  Pay = {p1, p2}
  Request = {q1, q2}
  MaxRequests = 2
  MaxCrashes = 0
INVARIANTS NeverDoubleBilled
CHECK_DEADLOCK FALSE
