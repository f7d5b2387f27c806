SPECIFICATION Spec
CONSTANTS
  ada = ada
  obi = obi
  jss = jss
  Class = {jss}
  Fee = {0, 2}
  Child = {ada, obi}
  Amount = {1}
  Sheet <- MCSheet
  SheetFee = 2
  Worker = {w1, w2}
  MaxRows = 4
  MaxRequests = 4
  MaxCrashes = 1
  NoClass = NoClass
  Inherit = Inherit
  Unread = Unread
  NoName = NoName
INVARIANTS SettledIsPaid RegisteredOnce ImportIdempotent
PROPERTIES CancelSticks
SYMMETRY Symmetry
CHECK_DEADLOCK FALSE
