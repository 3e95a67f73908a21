---------------------------- MODULE ReturnLifecycle ----------------------------
(***************************************************************************)
(* The status of ONE return, from REQUESTED to PROCESSED or REJECTED: the  *)
(* merchant's routes (approve, reject, received, label, process, and their *)
(* bulk form), the handler of RETURN_APPROVED, the label recovery job and  *)
(* the parcel tracking job.                                                *)
(*                                                                         *)
(* Requests are slots that serve the merchant, one request after another;  *)
(* a request that approves goes on as the event handler it has started.    *)
(* Trackers are runs of the tracking job (one per server process).  All    *)
(* of them read the return first and write it some awaits later.  How a    *)
(* label is bought and a refund paid is LabelPurchase, LabelCompletion and *)
(* RefundProcessing; here each is one or two steps.                        *)
(***************************************************************************)
EXTENDS Naturals

CONSTANTS
  Requests, Trackers,
  MaxFaults       \* bound: crashes and failed writes in a behaviour

ASSUME ProcsAssumption == Requests \cap Trackers = {}
ASSUME BoundAssumption == MaxFaults \in Nat

VARIABLES
  pc,         \* where each slot is
  snap,       \* the status each slot has read
  answer,     \* what each slot knows of the tracking: as read, then as answered
  status,     \* Return.status
  label,      \* the ReturnLabel row: none, saved (follow-up unfinished), created
  approval,   \* the latest return.approved event: none, labelled or bare
  failure,    \* is label.failed on the timeline?
  parcel,     \* where the parcel is, as the carrier knows it
  tracking,   \* ReturnLabel.trackingStatus
  received,   \* RETURN_RECEIVED events emitted
  overwrote,  \* decisions written over a return that was no longer REQUESTED
  faults

row  == <<status, label, approval, failure, tracking>>
hist == <<received, overwrote>>
vars == <<pc, snap, answer, row, hist, parcel, faults>>

Procs == Requests \cup Trackers

Statuses == {"REQUESTED", "APPROVED", "LABEL_SENT", "IN_TRANSIT", "RECEIVED", "PROCESSED", "REJECTED"}
Scans    == {"none", "in_transit", "delivered"}

\* trackParcels.OPEN_STATUSES: the parcel is still expected.
OpenStatuses == {"LABEL_SENT", "IN_TRANSIT"}
Processable  == {"RECEIVED", "APPROVED", "LABEL_SENT", "IN_TRANSIT"}

Steps == {"idle", "approve", "approveBare", "reject", "log", "logBare", "buy", "complete", "fail",
          "retry", "retryComplete", "receiveCheck", "receive", "process", "pay",
          "ask", "write", "event", "move"}

Init ==
  /\ pc     = [p \in Procs |-> "idle"]
  /\ snap   = [p \in Procs |-> "REQUESTED"]
  /\ answer = [p \in Procs |-> "none"]
  /\ status = "REQUESTED" /\ label = "none" /\ approval = "none" /\ failure = FALSE
  /\ parcel = "none" /\ tracking = "none"
  /\ received = 0 /\ overwrote = 0 /\ faults = 0

Goto(p, step) == pc' = [pc EXCEPT ![p] = step]
\* The call ends; what it knew goes with it.
Return(p) ==
  /\ Goto(p, "idle")
  /\ snap'   = [snap EXCEPT ![p] = "REQUESTED"]
  /\ answer' = [answer EXCEPT ![p] = "none"]
Keep    == UNCHANGED <<snap, answer>>
Fault   == faults < MaxFaults /\ faults' = faults + 1
NoFault == UNCHANGED faults

-----------------------------------------------------------------------------
(* Approve and reject.                                                     *)

\* findFirst ... status REQUESTED, then the checks of approvalBlocker, which
\* ask Shopify (a reject checks nothing).
ReadRequested(r) ==
  /\ pc[r] = "idle"
  /\ status = "REQUESTED"
  /\ \E decision \in {"approve", "approveBare", "reject"} : Goto(r, decision)
  /\ Keep /\ UNCHANGED <<row, hist, parcel, faults>>

\* A test return, no returns address, no label source, no customer address,
\* no plan to bill: 409.
Block(r) ==
  /\ pc[r] \in {"approve", "approveBare"}
  /\ Return(r)
  /\ UNCHANGED <<row, hist, parcel, faults>>

\* Both writes are unconditional.
Overwrite == overwrote' = IF status = "REQUESTED" THEN overwrote ELSE overwrote + 1

Approve(r) ==
  /\ pc[r] \in {"approve", "approveBare"}
  /\ status' = "APPROVED"
  /\ Overwrite
  /\ Goto(r, IF pc[r] = "approve" THEN "log" ELSE "logBare")
  /\ Keep /\ UNCHANGED <<label, approval, failure, tracking, received, parcel, faults>>

Reject(r) ==
  /\ pc[r] = "reject"
  /\ status' = "REJECTED"
  /\ Overwrite
  /\ Return(r)
  /\ UNCHANGED <<label, approval, failure, tracking, received, parcel, faults>>

-----------------------------------------------------------------------------
(* onReturnApproved, and the label.                                        *)

\* The event carries withoutLabel; when it cannot be written the handler
\* stops there, label or not.
LogApproval(r) ==
  /\ pc[r] \in {"log", "logBare"}
  /\ \/ /\ approval' = IF pc[r] = "log" THEN "labelled" ELSE "bare"
        /\ IF pc[r] = "log" THEN Goto(r, "buy") /\ Keep ELSE Return(r)
        /\ NoFault
     \/ UNCHANGED approval /\ Return(r) /\ Fault
  /\ UNCHANGED <<status, label, failure, tracking, hist, parcel>>

\* PUT /:id/label reads the return; what follows is the same generateLabel.
RetryLabel(r) ==
  /\ pc[r] = "idle"
  /\ status \in {"APPROVED", "LABEL_SENT"}
  /\ Goto(r, "retry")
  /\ Keep /\ UNCHANGED <<row, hist, parcel, faults>>

\* generateLabel up to the saved label; it does not look at the status.  A
\* failure ends the merchant's retry, and goes on the timeline otherwise.
BuyLabel(r) ==
  /\ pc[r] \in {"buy", "retry"}
  /\ \/ /\ label' = IF label = "none" THEN "saved" ELSE label
        /\ Goto(r, IF pc[r] = "buy" THEN "complete" ELSE "retryComplete")
        /\ Keep
     \/ /\ label = "none" /\ UNCHANGED label
        /\ IF pc[r] = "buy" THEN Goto(r, "fail") /\ Keep ELSE Return(r)
  /\ UNCHANGED <<status, approval, failure, tracking, hist, parcel, faults>>

\* updateMany ... where status = 'APPROVED'.
AdvanceToLabelSent == status' = IF status = "APPROVED" THEN "LABEL_SENT" ELSE status

\* The follow-up steps: the status moves on first; the label is created
\* unless its email did not leave; or a write keeps failing.
CompleteLabel(r) ==
  /\ pc[r] \in {"complete", "retryComplete"}
  /\ \/ AdvanceToLabelSent /\ label' \in {label, "created"} /\ Return(r) /\ NoFault
     \/ /\ UNCHANGED <<status, label>>
        /\ IF pc[r] = "complete" THEN Goto(r, "fail") /\ Keep ELSE Return(r)
        /\ Fault
  /\ UNCHANGED <<approval, failure, tracking, hist, parcel>>

\* Mutant of RecordFailure: only the server log hears of it.
RecordNothing(r) ==
  /\ pc[r] = "fail"
  /\ Return(r)
  /\ UNCHANGED <<row, hist, parcel, faults>>

\* label.failed, so that the return does not silently stay approved.
RecordFailure(r) ==
  /\ pc[r] = "fail"
  /\ Return(r)
  /\ \/ failure' = TRUE /\ NoFault
     \/ UNCHANGED failure /\ Fault
  /\ UNCHANGED <<status, label, approval, tracking, hist, parcel>>

\* recoverUnfinishedLabels finishes a saved label of an open return.
RecoverLabel ==
  /\ label = "saved" /\ status \in {"APPROVED", "LABEL_SENT"}
  /\ AdvanceToLabelSent /\ label' = "created"
  /\ Keep /\ UNCHANGED <<pc, approval, failure, tracking, hist, parcel, faults>>

-----------------------------------------------------------------------------
(* Received and processed.                                                 *)

\* PUT /:id/received reads the return; APPROVED needs a second look.
ReadExpected(r) ==
  /\ pc[r] = "idle"
  /\ status \in OpenStatuses \cup {"APPROVED"}
  /\ snap' = [snap EXCEPT ![r] = status]
  /\ Goto(r, IF status = "APPROVED" THEN "receiveCheck" ELSE "receive")
  /\ UNCHANGED <<answer, row, hist, parcel, faults>>

\* approvedWithoutLabel: no label row, and the latest approval a bare one.
ApprovedWithoutLabel(r) ==
  /\ pc[r] = "receiveCheck"
  /\ IF label = "none" /\ approval = "bare" THEN Goto(r, "receive") /\ Keep ELSE Return(r)
  /\ UNCHANGED <<row, hist, parcel, faults>>

\* Mutant of MarkReceived: the write is not conditional on what was read.
MarkReceivedAlways(r) ==
  /\ pc[r] = "receive"
  /\ status' = "RECEIVED" /\ received' = received + 1
  /\ Return(r)
  /\ UNCHANGED <<label, approval, failure, tracking, overwrote, parcel, faults>>

\* Conditional on the status that was read; the loser answers 409.
MarkReceived(r) ==
  /\ pc[r] = "receive"
  /\ IF status = snap[r]
     THEN status' = "RECEIVED" /\ received' = received + 1
     ELSE UNCHANGED <<status, received>>
  /\ Return(r)
  /\ UNCHANGED <<label, approval, failure, tracking, overwrote, parcel, faults>>

ReadProcessable(r) ==
  /\ pc[r] = "idle"
  /\ status \in Processable
  /\ Goto(r, "process")
  /\ Keep /\ UNCHANGED <<row, hist, parcel, faults>>

\* processRefund reads and claims the return again: only PROCESSED stops it,
\* or an attempt that is at it already.
ClaimRefund(r) ==
  /\ pc[r] = "process"
  /\ IF status # "PROCESSED" /\ \A q \in Requests : pc[q] # "pay"
     THEN Goto(r, "pay") /\ Keep ELSE Return(r)
  /\ UNCHANGED <<row, hist, parcel, faults>>

\* The refund goes through and _persist writes unconditionally; or it fails.
Pay(r) ==
  /\ pc[r] = "pay"
  /\ status' \in {status, "PROCESSED"}
  /\ Return(r)
  /\ UNCHANGED <<label, approval, failure, tracking, hist, parcel, faults>>

-----------------------------------------------------------------------------
(* trackParcels and the carrier.                                           *)

\* The parcel travels once the customer has the label.
Travel ==
  /\ label # "none"
  /\ \/ parcel = "none" /\ parcel' \in {"in_transit", "delivered"}
     \/ parcel = "in_transit" /\ parcel' = "delivered"
  /\ Keep /\ UNCHANGED <<pc, row, hist, faults>>

\* A page of finished labels whose return is open; what was read stays in
\* hand until the carrier has answered for this one.
SelectLabel(t) ==
  /\ pc[t] = "idle"
  /\ label = "created" /\ status \in OpenStatuses
  /\ snap'   = [snap EXCEPT ![t] = status]
  /\ answer' = [answer EXCEPT ![t] = tracking]
  /\ Goto(t, "ask")
  /\ UNCHANGED <<row, hist, parcel, faults>>

\* The carrier answers: a new status or a new detail is acted on, anything
\* else ends the check, and so does a carrier that cannot be asked.
AskCarrier(t) ==
  /\ pc[t] = "ask"
  /\ \/ parcel # "none" /\ answer' = [answer EXCEPT ![t] = parcel] /\ Goto(t, "write") /\ UNCHANGED snap /\ NoFault
     \/ parcel \in {"none", answer[t]} /\ Return(t) /\ NoFault
     \/ Return(t) /\ Fault
  /\ UNCHANGED <<row, hist, parcel>>

\* The label row gets the answer before the timeline and the return do.
WriteTracking(t) ==
  /\ pc[t] = "write"
  /\ \/ tracking' = answer[t] /\ Goto(t, "event") /\ Keep /\ NoFault
     \/ UNCHANGED tracking /\ Return(t) /\ Fault
  /\ UNCHANGED <<status, label, approval, failure, hist, parcel>>

\* tracking.updated goes on the timeline; a failed write ends the check.
WriteEvent(t) ==
  /\ pc[t] = "event"
  /\ \/ Goto(t, "move") /\ Keep /\ NoFault
     \/ Return(t) /\ Fault
  /\ UNCHANGED <<row, hist, parcel>>

\* Mutant of MoveOn: trusts the status that was read with the label.
MoveOnSnapshot(t) ==
  /\ pc[t] = "move"
  /\ status' = (IF answer[t] = "delivered" THEN "RECEIVED" ELSE "IN_TRANSIT")
  /\ received' = (IF answer[t] = "delivered" THEN received + 1 ELSE received)
  /\ Return(t)
  /\ UNCHANGED <<label, approval, failure, tracking, overwrote, parcel, faults>>

\* Mutant of MoveOn: a delivery counts only after a scan.
MoveOnAfterScan(t) ==
  /\ pc[t] = "move"
  /\ CASE answer[t] = "in_transit" /\ status = "LABEL_SENT" -> status' = "IN_TRANSIT" /\ UNCHANGED received
       [] answer[t] = "delivered" /\ status = "IN_TRANSIT" -> status' = "RECEIVED" /\ received' = received + 1
       [] OTHER -> UNCHANGED <<status, received>>
  /\ Return(t)
  /\ UNCHANGED <<label, approval, failure, tracking, overwrote, parcel, faults>>

\* Move the return on, never backwards: conditional updates.
MoveOn(t) ==
  /\ pc[t] = "move"
  /\ CASE answer[t] = "in_transit" /\ snap[t] = "LABEL_SENT" /\ status = "LABEL_SENT" ->
            status' = "IN_TRANSIT" /\ UNCHANGED received
       [] answer[t] = "delivered" /\ status \in OpenStatuses ->
            status' = "RECEIVED" /\ received' = received + 1
       [] OTHER -> UNCHANGED <<status, received>>
  /\ Return(t)
  /\ UNCHANGED <<label, approval, failure, tracking, overwrote, parcel, faults>>

Crash(p) ==
  /\ pc[p] # "idle"
  /\ Return(p)
  /\ Fault
  /\ UNCHANGED <<row, hist, parcel>>

HandlerStep(r) == LogApproval(r) \/ BuyLabel(r) \/ CompleteLabel(r) \/ RecordFailure(r)

RequestStep(r) ==
  \/ ReadRequested(r) \/ Block(r) \/ Approve(r) \/ Reject(r) \/ RetryLabel(r)
  \/ ReadExpected(r) \/ ApprovedWithoutLabel(r) \/ MarkReceived(r)
  \/ ReadProcessable(r) \/ ClaimRefund(r) \/ Pay(r)

TrackStep(t) == SelectLabel(t) \/ AskCarrier(t) \/ WriteTracking(t) \/ WriteEvent(t) \/ MoveOn(t)

Next ==
  \/ \E r \in Requests : RequestStep(r) \/ HandlerStep(r)
  \/ \E t \in Trackers : TrackStep(t)
  \/ \E p \in Procs : Crash(p)
  \/ RecoverLabel \/ Travel

Spec == Init /\ [][Next]_vars

\* The handler and the jobs go on; nothing is assumed of the merchant, the
\* customer or the carrier's parcel.
FairSpec ==
  /\ Spec
  /\ \A r \in Requests : WF_vars(HandlerStep(r))
  /\ \A t \in Trackers : WF_vars(TrackStep(t))
  /\ WF_vars(RecoverLabel)

-----------------------------------------------------------------------------
(* Properties.                                                             *)

\* Slots, rows and counters keep their shape.
TypeOK ==
  /\ pc \in [Procs -> Steps]
  /\ snap \in [Procs -> Statuses]
  /\ answer \in [Procs -> Scans]
  /\ status \in Statuses
  /\ label \in {"none", "saved", "created"}
  /\ approval \in {"none", "labelled", "bare"}
  /\ failure \in BOOLEAN
  /\ parcel \in Scans /\ tracking \in Scans
  /\ received \in Nat /\ overwrote \in Nat
  /\ faults \in 0..MaxFaults

\* "Move the return on, never backwards": a parcel that is back, a refund or
\* a rejection is never undone by a label that finishes late or a tracking
\* answer acted on late, nor does a parcel in transit go back to LABEL_SENT.
NeverBackwards ==
  [][/\ status \in {"RECEIVED", "PROCESSED", "REJECTED"} => status' \notin OpenStatuses
     /\ status = "IN_TRANSIT" => status' # "LABEL_SENT"]_vars

\* The merchant's click and the tracking jobs, however they overlap, announce
\* a parcel's return once (customer email and timeline), unless a late
\* decision has reopened the return.
ReceivedOnce == received <= 1 + overwrote

\* An approval that was to buy a label ends with one or with label.failed on
\* the timeline, "instead of a return that silently stays Approved", unless
\* the process crashes or a write fails.
NotSilent ==
  approval = "labelled" ~> (label # "none" \/ failure \/ faults > 0)

\* A delivered parcel makes its return RECEIVED, unless the process crashes, a
\* write fails, or a late decision reopens the return.
DeliveredIsReceived ==
  (label = "created" /\ parcel = "delivered")
    ~> (status \notin OpenStatuses \/ faults > 0 \/ overwrote > 0)

=============================================================================
