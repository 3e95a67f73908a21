------------------------------ MODULE MCPlanSync ------------------------------
(* PlanSync with interchangeable dashboard calls.                           *)
EXTENDS PlanSync, TLC

Symmetry == Permutations(Calls)
=============================================================================
