------------------------------ MODULE OneLabel ------------------------------
(***************************************************************************)
(* What LabelService promises about the label of one return, whoever asks  *)
(* for it and however often: postage is bought at most once, and once the  *)
(* bought label is on file with the return it stays on file.               *)
(***************************************************************************)
CONSTANT Purchases           \* the purchases that might be made

VARIABLES bought,            \* those that were
          filed              \* is the label saved with the return?

Init == bought = {} /\ filed = FALSE

Buy  == bought = {} /\ (\E p \in Purchases : bought' = {p}) /\ UNCHANGED filed

File == bought # {} /\ ~filed /\ filed' = TRUE /\ UNCHANGED bought

Spec == Init /\ [][Buy \/ File]_<<bought, filed>>
=============================================================================
