--------------------------- MODULE MCPortalJourney ---------------------------
(* PortalJourney on a small instance: two items of one order, one of       *)
(* another, and policies that disagree about them.                         *)
EXTENDS PortalJourney, TLC

MCOrderOf == [i \in {"i1", "i2", "j"} |-> IF i = "j" THEN "B" ELSE "A"]
MCUnitsSold   == [i \in {"i1", "i2", "j"} |-> IF i = "i1" THEN 2 ELSE 1]

\* Nothing, or the second item.
MCBefore == {[i \in {"i1", "i2", "j"} |-> 0], [i \in {"i1", "i2", "j"} |-> IF i = "i2" THEN 1 ELSE 0]}

Says(open, resolutions, fee) == [open |-> open, resolutions |-> resolutions, fee |-> fee]

MCPolicies == {
  [rule |-> [i \in {"i1", "i2", "j"} |->
     CASE i = "i1" -> Says(TRUE, {"REFUND", "STORE_CREDIT"}, 1)
       [] i = "i2" -> Says(TRUE, {"REFUND"}, 2)
       [] OTHER    -> Says(TRUE, {"STORE_CREDIT"}, None)], default |-> 1],
  [rule |-> [i \in {"i1", "i2", "j"} |->
     CASE i = "i1" -> Says(TRUE, {"STORE_CREDIT"}, 3)
       [] i = "i2" -> Says(FALSE, {}, None)
       [] OTHER    -> Says(TRUE, {"STORE_CREDIT"}, None)], default |-> 0]}

Wrong(photos)  == [reason |-> "damaged", photos |-> photos]
Unliked(photos) == [reason |-> "changed_mind", photos |-> photos]

MCAnswers == [i \in {"i1", "i2", "j"} |-> IF i = "i1" THEN {Wrong(1)} ELSE {Unliked(1)}]

Symmetry == Permutations(Posts) \cup Permutations(Returns)
=============================================================================
