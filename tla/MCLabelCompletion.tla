-------------------------- MODULE MCLabelCompletion --------------------------
(* LabelCompletion on a small instance (liveness: no symmetry).            *)
EXTENDS LabelCompletion
=============================================================================
