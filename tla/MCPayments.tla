----------------------------- MODULE MCPayments -----------------------------
\* Payments on small instances; the constants are given by the .cfg files.
EXTENDS Payments, TLC

\* Sound for safety only: no operator of the model distinguishes accounts or
\* workers, and CHOOSE is applied to sets with one element.
Symmetry == Permutations(Person) \cup Permutations(Request)
=============================================================================
