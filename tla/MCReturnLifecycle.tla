-------------------------- MODULE MCReturnLifecycle --------------------------
(* ReturnLifecycle on a small instance: interchangeable slots.             *)
EXTENDS ReturnLifecycle, TLC

Symmetry == Permutations(Requests) \cup Permutations(Trackers)
=============================================================================
