------------------------ MODULE MCShopConfiguration ------------------------
(* ShopConfiguration on a small instance.                                  *)
EXTENDS ShopConfiguration, TLC

MCLimit == [p \in {"FREE", "STARTER"} |-> IF p = "FREE" THEN 1 ELSE 3]

Symmetry == Permutations(Requests) \cup Permutations(Policies) \cup Permutations(Carriers)
=============================================================================
