----------------------------- MODULE WebhookInbox -----------------------------
(***************************************************************************)
(* How ONE Shopify webhook event is taken in: the deduplication in         *)
(* routes/webhooks.js, runWebhook around the topic's handler, and the      *)
(* lease on the event's key in Redis (utils/idempotency.js).               *)
(*                                                                         *)
(* A slot is one HTTP delivery of the event at a time.  Shopify sends it   *)
(* again while it has no 2xx answer, gives up on an answer that is slow    *)
(* and so may have two deliveries under way, and sends it twice at times   *)
(* even after a 2xx.  Every Redis command is a step of its own.  What a    *)
(* handler does to the database is one write here, which it may or may not *)
(* have made when it fails.                                                *)
(***************************************************************************)
EXTENDS Naturals

CONSTANTS
  Deliveries,
  MaxFaults   \* bound: crashes, failures, lost answers and slow handlers

ASSUME BoundAssumption == MaxFaults \in Nat

VARIABLES
  pc,       \* where each delivery is
  key,      \* idem:shopify:<id> in Redis: none, processing or done
  applied,  \* times a handler made its writes
  acked,    \* has Shopify had a 2xx answer?
  blind,    \* was one of them given by a delivery that found no key to go by?
  faults

vars == <<pc, key, applied, acked, blind, faults>>

\* The steps a delivery takes after it has got the key (or past it).
Working == {"handle", "answer", "complete", "release"}
Steps   == {"idle", "claim", "status"} \cup Working

Init ==
  /\ pc = [d \in Deliveries |-> "idle"]
  /\ key = "none" /\ applied = 0 /\ acked = FALSE /\ blind = FALSE /\ faults = 0

Goto(d, step) == pc' = [pc EXCEPT ![d] = step]
Fault   == faults < MaxFaults /\ faults' = faults + 1
NoFault == UNCHANGED faults

-----------------------------------------------------------------------------
(* The deduplication.                                                      *)

\* A delivery with a valid signature.
Arrive(d) ==
  /\ pc[d] = "idle"
  /\ Goto(d, "claim")
  /\ UNCHANGED <<key, applied, acked, blind, faults>>

\* Mutant of Claim: SET without NX.
ClaimAlways(d) ==
  /\ pc[d] = "claim"
  /\ key' = "processing" /\ Goto(d, "handle")
  /\ UNCHANGED <<applied, acked, blind, faults>>

\* SET NX EX; when Redis cannot be asked the delivery is let through.
Claim(d) ==
  /\ pc[d] = "claim"
  /\ \/ key = "none" /\ key' = "processing" /\ Goto(d, "handle") /\ NoFault
     \/ key # "none" /\ UNCHANGED key /\ Goto(d, "status") /\ NoFault
     \/ UNCHANGED key /\ Goto(d, "handle") /\ Fault
  /\ UNCHANGED <<applied, acked, blind>>

\* Mutant of ReadStatus: a key that is held is a duplicate, whatever it says.
ReadNothing(d) ==
  /\ pc[d] = "status"
  /\ acked' = TRUE /\ Goto(d, "idle")
  /\ UNCHANGED <<key, applied, blind, faults>>

\* Still processing: 503.  Anything else, an absent key or a failed read of it
\* included, is a duplicate: 200.
ReadStatus(d) ==
  /\ pc[d] = "status"
  /\ \/ acked' = (acked \/ key # "processing") /\ blind' = (blind \/ key = "none") /\ NoFault
     \/ acked' = TRUE /\ blind' = TRUE /\ Fault
  /\ Goto(d, "idle")
  /\ UNCHANGED <<key, applied>>

-----------------------------------------------------------------------------
(* runWebhook.                                                             *)

\* The handler does its work; or throws, before or after its writes.
Handle(d) ==
  /\ pc[d] = "handle"
  /\ \/ applied' = applied + 1 /\ Goto(d, "answer") /\ NoFault
     \/ applied' \in {applied, applied + 1} /\ Goto(d, "release") /\ Fault
  /\ UNCHANGED <<key, acked, blind>>

\* 200; Shopify may have hung up, and then 'finish' may never fire.
Answer(d) ==
  /\ pc[d] = "answer"
  /\ \/ acked' = TRUE /\ Goto(d, "complete") /\ NoFault
     \/ UNCHANGED acked /\ (Goto(d, "complete") \/ Goto(d, "idle")) /\ Fault
  /\ UNCHANGED <<key, applied, blind>>

\* On 'finish', behind the answer: the key is kept as done, whoever holds it.
Complete(d) ==
  /\ pc[d] = "complete"
  /\ \/ key' = "done" /\ NoFault
     \/ UNCHANGED key /\ Fault
  /\ Goto(d, "idle")
  /\ UNCHANGED <<applied, acked, blind>>

\* Mutant of Release: the failure is recorded in the key.
ReleaseAsFailed(d) ==
  /\ pc[d] = "release"
  /\ key' = "failed" /\ Goto(d, "idle")
  /\ UNCHANGED <<applied, acked, blind, faults>>

\* The key is deleted, whoever holds it, and the answer is 500.
Release(d) ==
  /\ pc[d] = "release"
  /\ \/ key' = "none" /\ NoFault
     \/ UNCHANGED key /\ Fault
  /\ Goto(d, "idle")
  /\ UNCHANGED <<applied, acked, blind>>

Crash(d) ==
  /\ pc[d] # "idle"
  /\ Goto(d, "idle")
  /\ Fault
  /\ UNCHANGED <<key, applied, acked, blind>>

Held == \E d \in Deliveries : pc[d] \in Working

\* Mutant of Lapse: the claim has no end.
LapseNever == FALSE /\ UNCHANGED vars

\* LEASE_SECONDS pass on a claim; a handler that is still at it by then is a
\* fault.
Lapse ==
  /\ key = "processing"
  /\ key' = "none"
  /\ IF Held THEN Fault ELSE NoFault
  /\ UNCHANGED <<pc, applied, acked, blind>>

Serve(d) ==
  \/ Claim(d) \/ ReadStatus(d) \/ Handle(d) \/ Answer(d) \/ Complete(d) \/ Release(d)

Next ==
  \/ \E d \in Deliveries : Arrive(d) \/ Serve(d) \/ Crash(d)
  \/ Lapse

Spec == Init /\ [][Next]_vars

\* The server goes on with a request, Shopify goes on delivering what has not
\* been acknowledged, and a lease nobody works under ends sometime.
FairSpec ==
  /\ Spec
  /\ \A d \in Deliveries : WF_vars(Serve(d)) /\ WF_vars(~acked /\ Arrive(d))
  /\ WF_vars(~Held /\ Lapse)

-----------------------------------------------------------------------------
(* Properties.                                                             *)

\* Deliveries, key and counters keep their shape.
TypeOK ==
  /\ pc \in [Deliveries -> Steps]
  /\ key \in {"none", "processing", "done"}
  /\ applied \in Nat
  /\ acked \in BOOLEAN /\ blind \in BOOLEAN
  /\ faults \in 0..MaxFaults

\* A 2xx answer rests on work that was done, by the delivery itself or by the
\* one that left the key "done"; only an answer given without a key does not.
AckedIsApplied == acked /\ ~blind => applied > 0

\* Each further time an event is applied costs a failure, a crash, a lost
\* answer or a handler that outlasts its lease: deliveries that merely
\* overlap or repeat never apply it twice.
AppliedOnce == applied <= 1 + faults

\* "if the process died mid-way, the lease lapses and the retry is processed":
\* no failure leaves the event unacknowledged for good.
EventuallyAcked == <>acked

=============================================================================
