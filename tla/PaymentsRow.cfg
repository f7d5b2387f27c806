\* One payment, two web requests beside the webhook: safety, refinement, liveness.
SPECIFICATION FairSpec
CONSTANTS
  Pk = {1}
  Ref = {r1}
  NULL = NULL
  Amount = {1, 2}
  Person = {student, guardian}
  Staff = {admin}
  Request = {poll, callback}
  MaxCrashes = 1
CHECK_DEADLOCK FALSE
INVARIANTS ReceiptPromised EveryoneTold SuccessLoggedIsCredited
PROPERTIES ImplementsLedger ChargeSettles
