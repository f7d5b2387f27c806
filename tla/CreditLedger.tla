---------------------------- MODULE CreditLedger ----------------------------
(***************************************************************************)
(* What the payment code owes a family that pays online: money taken by    *)
(* Paystack on a reference is credited at most once, in full, only after   *)
(* it was taken, and a credit is never withdrawn.  Module Payments is      *)
(* shown to implement this.                                                *)
(***************************************************************************)
EXTENDS Naturals

CONSTANTS Ref, Amount

VARIABLES
  charged,   \* what was taken from the payer on each reference, or 0
  credit     \* what the school's books credit for it, or 0

Init ==
  /\ charged = [r \in Ref |-> 0]
  /\ credit = [r \in Ref |-> 0]

Charge(r, amount) ==
  /\ charged[r] = 0
  /\ charged' = [charged EXCEPT ![r] = amount]
  /\ UNCHANGED credit

Credit(r) ==
  /\ charged[r] # 0
  /\ credit[r] = 0
  /\ credit' = [credit EXCEPT ![r] = charged[r]]
  /\ UNCHANGED charged

Next == \E r \in Ref : Credit(r) \/ \E amount \in Amount : Charge(r, amount)

Spec == Init /\ [][Next]_<<charged, credit>>
=============================================================================
