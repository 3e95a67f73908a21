---------------------------- MODULE MCWebhookInbox ----------------------------
(* WebhookInbox on a small instance: interchangeable deliveries.           *)
EXTENDS WebhookInbox, TLC

Symmetry == Permutations(Deliveries)
=============================================================================
