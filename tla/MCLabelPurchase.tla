--------------------------- MODULE MCLabelPurchase ---------------------------
(* LabelPurchase on a small instance: interchangeable attempts.            *)
EXTENDS LabelPurchase, TLC

Symmetry == Permutations(Attempts)
=============================================================================
