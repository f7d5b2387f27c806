------------------------------ MODULE MCLessons -----------------------------
(* A small holiday programme for TLC: one child of the sheet has paid. *)
EXTENDS Lessons, TLC

CONSTANTS ada, obi, jss

MCSheet == <<[class |-> jss, child |-> ada, paid |-> 1],
             [class |-> jss, child |-> obi, paid |-> 0]>>

Symmetry == Permutations(Worker)

=============================================================================
