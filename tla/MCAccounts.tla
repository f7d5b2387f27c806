----------------------------- MODULE MCAccounts -----------------------------
(* A teacher, two students and two guardians for TLC.                        *)
EXTENDS Accounts, TLC

Symmetry == Permutations(Worker) \cup Permutations(Parent)

=============================================================================
