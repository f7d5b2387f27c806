----------------------------- MODULE MCBilling ------------------------------
(* Small carts and prices for TLC. *)
EXTENDS Billing, TLC

CONSTANTS tuition, books

MCPrice0 == [c \in {tuition, books} |-> 1]

Cartful(outstanding, extras, bundle, next) ==
  [outstanding |-> outstanding, bundle |-> bundle, next |-> next,
   extras |-> [c \in Category |-> IF c \in extras THEN 1 ELSE 0]]

\* The balance, an extra, everything, and an extra with next term's tuition.
MCCart == {Cartful(TRUE, {}, FALSE, {}), Cartful(FALSE, {books}, FALSE, {}),
           Cartful(FALSE, {}, TRUE, {tuition}),
           Cartful(TRUE, {books}, FALSE, {tuition})}

Symmetry == Permutations(Pay) \cup Permutations(Request)

=============================================================================
