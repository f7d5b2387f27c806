SPECIFICATION Spec
CONSTANTS
  tuition = tuition
  books = books
  Category = {tuition, books}
  Compulsory = {tuition}
  Amount = {1, 2}
  Price0 <- MCPrice0
  Cart <- MCCart
  Entered = {2}
  Pay = {p1, p2}
  Request = {q1, q2}
  MaxRequests = 2
  MaxCrashes = 1
SYMMETRY Symmetry
CHECK_DEADLOCK FALSE
INVARIANTS TotalsMatchLines BilledOnce  NoCircle
PROPERTIES RepricingRepairs
