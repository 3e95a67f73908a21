-------------------------- MODULE MCRefundProcessing --------------------------
(* RefundProcessing on a small instance, with the division of a refund     *)
(* over small payments: interchangeable slots.                             *)
EXTENDS RefundSplit, TLC

Symmetry == Permutations(Attempts)
=============================================================================
