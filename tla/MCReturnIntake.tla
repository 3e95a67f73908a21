---------------------------- MODULE MCReturnIntake ----------------------------
(* ReturnIntake on a small instance: interchangeable submissions.          *)
EXTENDS ReturnIntake, TLC

Symmetry == Permutations(Submissions)
=============================================================================
