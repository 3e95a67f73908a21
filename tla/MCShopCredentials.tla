-------------------------- MODULE MCShopCredentials --------------------------
(* ShopCredentials for TLC.  The slots are interchangeable, but the run checks *)
(* a liveness property, so no symmetry is declared.                            *)
EXTENDS ShopCredentials
=============================================================================
