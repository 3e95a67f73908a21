------------------------- MODULE MCPrivacyRequests -------------------------
(* PrivacyRequests on a small instance (liveness: no symmetry).            *)
EXTENDS PrivacyRequests
=============================================================================
