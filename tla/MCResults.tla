----------------------------- MODULE MCResults ------------------------------
(* A small class for TLC. *)
EXTENDS Results, TLC

CONSTANTS maths, english

Table(m, st) == [mark |-> m, status |-> st]
Everywhere(value) == [r \in Student \X Subject |-> value]

\* A class nobody moderated; one that is moderated, with a tie on top.
MCStart ==
  {Table([r \in Student \X Subject |-> IF r[1] = 3 THEN 0 ELSE 2],
         Everywhere(x)) : x \in {"PENDING", "APPROVED"}}

Symmetry == Permutations(Worker) \cup Permutations(Subject)

=============================================================================
