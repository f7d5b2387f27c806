----------------------------- MODULE MCPayroll ------------------------------
(* A small staff room for TLC. *)
EXTENDS Payroll, TLC

CONSTANTS s1, s2, housing, pension

\* Housing is for one member of staff, pension for everybody.
MCCovers == [d \in {housing, pension} |-> IF d = housing THEN {s1} ELSE {s1, s2}]

Symmetry == Permutations(Worker) \cup Permutations(Reference)

=============================================================================
