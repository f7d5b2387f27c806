---------------------------- MODULE MCEnrolment -----------------------------
(* Two sessions of two terms and two students for TLC.                       *)
EXTENDS Enrolment, TLC

Symmetry == Permutations(Worker) \cup Permutations(Student)
              \cup Permutations(Session) \cup Permutations(Class)

=============================================================================
