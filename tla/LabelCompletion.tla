--------------------------- MODULE LabelCompletion ---------------------------
(***************************************************************************)
(* What follows a saved label of ONE return: LabelService._completeLabel   *)
(* (move the return on, charge the merchant, email the customer, mark the  *)
(* label 'created') and the retryLabelCharges job.                         *)
(*                                                                         *)
(* Attempts are slots that run _completeLabel over and over (approval,     *)
(* merchant click, recovery job); Retriers are slots that run the charge   *)
(* job.  Both meet in the return's ledger events, the Redis claims and     *)
(* Shopify's usage meter, whose idempotency key makes a second report of   *)
(* the same label a no-op.  Each attempt loads the shop once, so what it   *)
(* knows of the carrier may be older than the merchant's last change.      *)
(***************************************************************************)
EXTENDS Naturals

CONSTANTS
  Attempts, Retriers,
  Priced,        \* is the label real, with a known cost (the row's cost and labelUrl)?
  MaxAttempts,   \* MAX_ATTEMPTS of the charge job
  MaxFaults,     \* bound: faults of the environment in a behaviour
  MaxSwitches,   \* bound: changes of the shop's active carrier
  None           \* nobody holds the claim

ASSUME ProcsAssumption == None \notin Attempts \cup Retriers /\ Attempts \cap Retriers = {}
ASSUME BoundsAssumption == MaxAttempts \in Nat \ {0} /\ MaxFaults \in Nat /\ MaxSwitches \in Nat /\ Priced \in BOOLEAN

VARIABLES
  pc,        \* where each slot is
  seen,      \* did the ledger say emailed when the attempt read it?
  managed,   \* was the shop's carrier a managed one when the attempt loaded it?
  status,    \* the return: APPROVED, LABEL_SENT, or CLOSED by the merchant
  label,     \* the label row: saved or created
  ledger,    \* the label.* events of the return's timeline
  dueStale,  \* was label.charge_due written over STALE_DUE_MS ago?
  mailKey,   \* who holds the label-email claim
  retryKey,  \* who holds the label-charge-retry claim
  mails,     \* label emails that left
  billed,    \* has the meter counted this label?
  postage,   \* whose account paid for it: the platform's or the shop's own
  carrier,   \* the shop's active carrier now: managed, own or none
  switches,  \* how often the merchant changed it since the label was bought
  faults     \* faults so far

vars == <<pc, seen, managed, status, label, ledger, dueStale, mailKey, retryKey, mails, billed,
          postage, carrier, switches, faults>>

known == <<seen, managed>>
shop  == <<postage, carrier, switches>>

Procs == Attempts \cup Retriers

Steps == {"idle", "advance", "read", "charge", "report", "recordOk", "recordFail", "claim",
          "recheck", "send", "recordMail", "releaseSent", "releaseUnsent", "finish",
          "retryClaim", "retryReport", "retryOk", "retryFail", "retryRelease"}

\* What the timeline says of the label; failed counts label.charge_failed.
Ledger == [due : BOOLEAN, charged : BOOLEAN, failed : Nat, emailed : BOOLEAN]

EmptyLedger == [due |-> FALSE, charged |-> FALSE, failed |-> 0, emailed |-> FALSE]

Carriers == {"managed", "own", "none"}

\* The label has just been saved: its buyer is about to finish it, or crashed.
Init ==
  /\ postage \in {"platform", "own"}
  /\ carrier = IF postage = "platform" THEN "managed" ELSE "own"
  /\ switches = 0
  /\ \E buyer \in Attempts \cup {None} :
       /\ pc = [p \in Procs |-> IF p = buyer THEN "advance" ELSE "idle"]
       /\ managed = [p \in Procs |-> p = buyer /\ carrier = "managed"]
  /\ seen = [p \in Procs |-> FALSE]
  /\ status \in {"APPROVED", "LABEL_SENT", "CLOSED"}
  /\ label = "saved"
  /\ ledger = EmptyLedger
  /\ dueStale = FALSE
  /\ mailKey = None
  /\ retryKey = None
  /\ mails = 0
  /\ billed = FALSE
  /\ faults = 0

Goto(p, step) == pc' = [pc EXCEPT ![p] = step]
\* The call ends; what it knew goes with it.
Return(p) ==
  /\ Goto(p, "idle")
  /\ seen' = [seen EXCEPT ![p] = FALSE]
  /\ managed' = [managed EXCEPT ![p] = FALSE]
Fault   == faults < MaxFaults /\ faults' = faults + 1
NoFault == UNCHANGED faults

\* Mutant of AdvanceToLabelSent: an unconditional update.
AdvanceAlways == status' = "LABEL_SENT"

\* updateMany ... where status = 'APPROVED': never drags a return backwards.
AdvanceToLabelSent == status' = IF status = "APPROVED" THEN "LABEL_SENT" ELSE status

-----------------------------------------------------------------------------
(* _completeLabel.                                                         *)

\* generateLabel throws at once in a shop without a carrier.  It finds the
\* label: 'created' only moves the return on; 'saved' resumes the follow-up
\* steps, with the carrier the shop has by now.
Begin(a) ==
  /\ pc[a] = "idle"
  /\ carrier # "none"
  /\ \/ label = "created" /\ AdvanceToLabelSent /\ UNCHANGED <<pc, managed>>
     \/ /\ label = "saved" /\ Goto(a, "advance")
        /\ managed' = [managed EXCEPT ![a] = carrier = "managed"]
        /\ UNCHANGED status
  /\ UNCHANGED <<shop, seen, label, ledger, dueStale, mailKey, retryKey, mails, billed, faults>>

\* Move the return on; when all three tries of the write fail the call throws.
Advance(a) ==
  /\ pc[a] = "advance"
  /\ \/ AdvanceToLabelSent /\ Goto(a, "read") /\ UNCHANGED known /\ NoFault
     \/ Fault /\ Return(a) /\ UNCHANGED status
  /\ UNCHANGED <<shop, label, ledger, dueStale, mailKey, retryKey, mails, billed>>

\* _chargeDue goes by the carrier of the shop as this attempt loaded it.
ChargeDue(a) == managed[a] /\ Priced

\* Read the ledger once; a charge with an outcome, or a label that is not
\* billable, goes on to the email, and an emailed label to the last step.
\* Of what it read only `emailed` is used again.
ReadLedger(a) ==
  /\ pc[a] = "read"
  /\ seen' = [seen EXCEPT ![a] = ledger.emailed]
  /\ managed' = [managed EXCEPT ![a] = FALSE]
  /\ Goto(a, IF ~ledger.charged /\ ledger.failed = 0 /\ (ledger.due \/ ChargeDue(a))
             THEN IF ledger.due THEN "report" ELSE "charge"
             ELSE IF ledger.emailed THEN "finish" ELSE "claim")
  /\ UNCHANGED <<shop, status, label, ledger, dueStale, mailKey, retryKey, mails, billed, faults>>

\* Mutant of AnnounceCharge: Shopify is asked with nothing on the ledger.
AnnounceNothing(a) ==
  /\ pc[a] = "charge"
  /\ Goto(a, "report")
  /\ UNCHANGED <<shop, known, status, label, ledger, dueStale, mailKey, retryKey, mails, billed, faults>>

\* label.charge_due goes on the ledger before Shopify is asked.
AnnounceCharge(a) ==
  /\ pc[a] = "charge"
  /\ \/ ledger' = [ledger EXCEPT !.due = TRUE] /\ Goto(a, "report") /\ UNCHANGED known /\ NoFault
     \/ Fault /\ Return(a) /\ UNCHANGED ledger
  /\ UNCHANGED <<shop, status, label, dueStale, mailKey, retryKey, mails, billed>>

\* Shopify takes the usage event, refuses it, or takes it and the answer is
\* lost.  The idempotency key makes `billed` a flag, not a count.
Report(p, ok, failed) ==
  \/ billed' = TRUE /\ Goto(p, ok) /\ NoFault
  \/ UNCHANGED billed /\ Goto(p, failed) /\ NoFault
  \/ billed' = TRUE /\ Goto(p, failed) /\ Fault

ReportUsage(a) ==
  /\ pc[a] = "report"
  /\ Report(a, "recordOk", "recordFail")
  /\ UNCHANGED <<shop, known, status, label, ledger, dueStale, mailKey, retryKey, mails>>

\* The outcome goes on the ledger; a failed write is swallowed.
Outcome(ok) ==
  \/ ledger' = (IF ok THEN [ledger EXCEPT !.charged = TRUE] ELSE [ledger EXCEPT !.failed = @ + 1]) /\ NoFault
  \/ UNCHANGED ledger /\ Fault

RecordCharge(a) ==
  /\ pc[a] \in {"recordOk", "recordFail"}
  /\ Outcome(pc[a] = "recordOk")
  /\ Goto(a, IF seen[a] THEN "finish" ELSE "claim")
  /\ seen' = [seen EXCEPT ![a] = FALSE]
  /\ UNCHANGED <<shop, managed, status, label, dueStale, mailKey, retryKey, mails, billed>>

\* The right to send: a Redis SET NX.  The loser leaves the label 'saved';
\* when Redis cannot be asked, everyone is let through.
ClaimEmail(a) ==
  /\ pc[a] = "claim"
  /\ \/ mailKey = None /\ mailKey' = a /\ Goto(a, "recheck") /\ UNCHANGED known /\ NoFault
     \/ mailKey # None /\ Return(a) /\ UNCHANGED mailKey /\ NoFault
     \/ Fault /\ Goto(a, "recheck") /\ UNCHANGED <<known, mailKey>>
  /\ UNCHANGED <<shop, status, label, ledger, dueStale, retryKey, mails, billed>>

\* Mutant of Recheck: the claim's winner trusts the ledger it read before.
RecheckNothing(a) ==
  /\ pc[a] = "recheck"
  /\ Goto(a, "send")
  /\ UNCHANGED <<shop, known, status, label, ledger, dueStale, mailKey, retryKey, mails, billed, faults>>

\* Having won, look again for label.emailed before sending.
Recheck(a) ==
  /\ pc[a] = "recheck"
  /\ \/ Goto(a, IF ledger.emailed THEN "releaseSent" ELSE "send") /\ NoFault
     \/ Goto(a, "releaseUnsent") /\ Fault
  /\ UNCHANGED <<shop, known, status, label, ledger, dueStale, mailKey, retryKey, mails, billed>>

\* Send now: it leaves, it is refused, or it leaves and the answer is lost.
SendEmail(a) ==
  /\ pc[a] = "send"
  /\ \/ mails' = mails + 1 /\ Goto(a, "recordMail") /\ NoFault
     \/ UNCHANGED mails /\ Goto(a, "releaseUnsent") /\ Fault
     \/ mails' = mails + 1 /\ Goto(a, "releaseUnsent") /\ Fault
  /\ UNCHANGED <<shop, known, status, label, ledger, dueStale, mailKey, retryKey, billed>>

\* Write label.emailed; a failed write is logged and the attempt goes on.
RecordEmail(a) ==
  /\ pc[a] = "recordMail"
  /\ Goto(a, "releaseSent")
  /\ \/ ledger' = [ledger EXCEPT !.emailed = TRUE] /\ NoFault
     \/ UNCHANGED ledger /\ Fault
  /\ UNCHANGED <<shop, known, status, label, dueStale, mailKey, retryKey, mails, billed>>

\* finally: delete the claim key, whoever's it is by now.  An attempt that
\* did not get the email out returns with the label still 'saved'.
ReleaseEmail(a) ==
  /\ mailKey' = None
  /\ \/ pc[a] = "releaseSent" /\ Goto(a, "finish") /\ UNCHANGED known
     \/ pc[a] = "releaseUnsent" /\ Return(a)
  /\ UNCHANGED <<shop, status, label, ledger, dueStale, retryKey, mails, billed, faults>>

\* Mark the label created and emit LABEL_GENERATED, whose handler moves an
\* approved return on once more; when the write keeps failing, the call throws.
Finish(a) ==
  /\ pc[a] = "finish"
  /\ Return(a)
  /\ \/ label' = "created" /\ AdvanceToLabelSent /\ NoFault
     \/ Fault /\ UNCHANGED <<label, status>>
  /\ UNCHANGED <<shop, ledger, dueStale, mailKey, retryKey, mails, billed>>

-----------------------------------------------------------------------------
(* retryFailedLabelCharges, for this return.                               *)

\* Mutant of NeedsRetry: only failures on file count, not lost announcements.
NeedsRetryFailed(l) == ~l.charged /\ l.failed < MaxAttempts /\ l.failed > 0

\* Which ledgers the job selects: no label.charged, fewer failures than the
\* limit, and failed before or announced long enough ago.
NeedsRetry(l) == ~l.charged /\ l.failed < MaxAttempts /\ (l.failed > 0 \/ (l.due /\ dueStale))

\* The events are read before the claim is taken; what they said is not used again.
ScanCharges(r) ==
  /\ pc[r] = "idle"
  /\ NeedsRetry(ledger)
  /\ Goto(r, "retryClaim")
  /\ UNCHANGED <<shop, known, status, label, ledger, dueStale, mailKey, retryKey, mails, billed, faults>>

ClaimRetry(r) ==
  /\ pc[r] = "retryClaim"
  /\ \/ retryKey = None /\ retryKey' = r /\ Goto(r, "retryReport") /\ UNCHANGED known /\ NoFault
     \/ retryKey # None /\ Return(r) /\ UNCHANGED retryKey /\ NoFault
     \/ Fault /\ Goto(r, "retryReport") /\ UNCHANGED <<known, retryKey>>
  /\ UNCHANGED <<shop, status, label, ledger, dueStale, mailKey, mails, billed>>

RetryReport(r) ==
  /\ pc[r] = "retryReport"
  /\ Report(r, "retryOk", "retryFail")
  /\ UNCHANGED <<shop, known, status, label, ledger, dueStale, mailKey, retryKey, mails>>

RecordRetry(r) ==
  /\ pc[r] \in {"retryOk", "retryFail"}
  /\ Outcome(pc[r] = "retryOk")
  /\ Goto(r, "retryRelease")
  /\ UNCHANGED <<shop, known, status, label, dueStale, mailKey, retryKey, mails, billed>>

ReleaseRetry(r) ==
  /\ pc[r] = "retryRelease"
  /\ retryKey' = None
  /\ Return(r)
  /\ UNCHANGED <<shop, status, label, ledger, dueStale, mailKey, mails, billed, faults>>

-----------------------------------------------------------------------------
(* The environment.                                                        *)

Crash(p) ==
  /\ pc[p] # "idle"
  /\ Fault
  /\ Return(p)
  /\ UNCHANGED <<shop, status, label, ledger, dueStale, mailKey, retryKey, mails, billed>>

\* A claim's lease ends (EMAIL_CLAIM_SECONDS, CLAIM_TTL_SECONDS): a fault
\* only when its holder is still at work.
Mailing(p)  == p # None /\ pc[p] \in {"recheck", "send", "recordMail", "releaseSent", "releaseUnsent"}
Retrying(p) == p # None /\ pc[p] \in {"retryReport", "retryOk", "retryFail", "retryRelease"}

MailLeaseEnds ==
  /\ mailKey # None
  /\ mailKey' = None
  /\ IF Mailing(mailKey) THEN Fault ELSE NoFault
  /\ UNCHANGED <<shop, pc, known, status, label, ledger, dueStale, retryKey, mails, billed>>

RetryLeaseEnds ==
  /\ retryKey # None
  /\ retryKey' = None
  /\ IF Retrying(retryKey) THEN Fault ELSE NoFault
  /\ UNCHANGED <<shop, pc, known, status, label, ledger, dueStale, mailKey, mails, billed>>

DueGoesStale ==
  /\ ledger.due /\ ~dueStale
  /\ dueStale' = TRUE
  /\ UNCHANGED <<shop, pc, known, status, label, ledger, mailKey, retryKey, mails, billed, faults>>

\* The merchant rejects the return or processes the refund meanwhile.
MerchantCloses ==
  /\ status # "CLOSED"
  /\ status' = "CLOSED"
  /\ UNCHANGED <<shop, pc, known, label, ledger, dueStale, mailKey, retryKey, mails, billed, faults>>

\* The merchant connects another carrier, or disconnects the one there is.
SwitchCarrier ==
  /\ switches < MaxSwitches
  /\ switches' = switches + 1
  /\ carrier' \in Carriers \ {carrier}
  /\ UNCHANGED <<pc, known, status, label, ledger, dueStale, mailKey, retryKey, mails, billed, postage, faults>>

CompleteStep(a) ==
  \/ Advance(a) \/ ReadLedger(a) \/ AnnounceCharge(a) \/ ReportUsage(a) \/ RecordCharge(a)
  \/ ClaimEmail(a) \/ Recheck(a) \/ SendEmail(a) \/ RecordEmail(a) \/ ReleaseEmail(a) \/ Finish(a)

RetryStep(r) == ClaimRetry(r) \/ RetryReport(r) \/ RecordRetry(r) \/ ReleaseRetry(r)

Next ==
  \/ \E a \in Attempts : Begin(a) \/ CompleteStep(a)
  \/ \E r \in Retriers : ScanCharges(r) \/ RetryStep(r)
  \/ \E p \in Procs : Crash(p)
  \/ MailLeaseEnds \/ RetryLeaseEnds \/ DueGoesStale \/ MerchantCloses \/ SwitchCarrier

Spec == Init /\ [][Next]_vars

\* Mutant of Recoverable: returns already moved on are not picked up.
RecoverableApproved == label = "saved" /\ status = "APPROVED"

\* recoverUnfinishedLabels selects saved labels of open returns only.
Recoverable == label = "saved" /\ status # "CLOSED"

\* Code that runs goes on running; the recovery job (every 30 minutes) and
\* the charge job (every six hours) keep coming; leases run out and time
\* passes.  Nothing is assumed of crashes, failures or the merchant.
FairSpec ==
  /\ Spec
  /\ \A a \in Attempts : WF_vars(CompleteStep(a)) /\ WF_vars(Begin(a) /\ Recoverable)
  /\ \A r \in Retriers : WF_vars(RetryStep(r)) /\ WF_vars(ScanCharges(r))
  /\ WF_vars(DueGoesStale)
  /\ WF_vars(MailLeaseEnds /\ NoFault) /\ WF_vars(RetryLeaseEnds /\ NoFault)

-----------------------------------------------------------------------------
(* Properties.                                                             *)

\* Slots, ledger, claims and counters keep their shape.
TypeOK ==
  /\ pc \in [Procs -> Steps]
  /\ ledger \in Ledger /\ seen \in [Procs -> BOOLEAN] /\ managed \in [Procs -> BOOLEAN]
  /\ status \in {"APPROVED", "LABEL_SENT", "CLOSED"}
  /\ label \in {"saved", "created"}
  /\ mailKey \in Attempts \cup {None} /\ retryKey \in Retriers \cup {None}
  /\ mails \in Nat /\ faults \in 0..MaxFaults
  /\ dueStale \in BOOLEAN /\ billed \in BOOLEAN
  /\ postage \in {"platform", "own"} /\ carrier \in Carriers /\ switches \in 0..MaxSwitches

\* "a charge that never reached an outcome is still visible to the retry
\* worker": the meter never runs ahead of the label.charge_due entry.  And as
\* long as the shop keeps the carrier the label was bought with, the entry
\* says who paid: a finished label has it if its postage went through the
\* platform's account ("those get billed back to the merchant per-label"),
\* and no other label ever has ("bring-your-own carriers don't").  A shop that
\* switches in between has the charge decided by its new carrier.
ChargeAnnounced ==
  /\ billed => ledger.due
  /\ switches = 0 => /\ Priced /\ postage = "platform" /\ label = "created" => ledger.due
                     /\ ledger.due => postage = "platform"

\* The timeline says charged only of a label the meter counted.
ChargedIsBilled == ledger.charged => billed

\* The customer gets the label email twice only after a fault (crash, lost
\* answer, failed write, lost claim): without one, however many recoveries
\* run together, once.
MailsBounded == mails <= 1 + faults

\* A label is only called finished once its email has left and the return
\* has moved on.
FinishedIsEmailed == label = "created" => mails > 0 /\ status # "APPROVED"

\* A label that finishes late never reopens a return the merchant closed, nor
\* takes one back from LABEL_SENT to APPROVED.
NeverBackwards ==
  [][/\ status = "CLOSED" => status' = "CLOSED"
     /\ status = "LABEL_SENT" => status' # "APPROVED"]_vars

\* The recovery job eventually finishes every saved label of a return that
\* stays open, unless the shop is left without a carrier: then every attempt
\* throws before it looks at the label.
EventuallyFinished == <>(label = "created" \/ status = "CLOSED") \/ <>[](carrier = "none")

\* A charge that was announced is eventually taken, or given up on after
\* MAX_ATTEMPTS failures.
EventuallyCharged == ledger.due ~> (ledger.charged \/ ledger.failed >= MaxAttempts)

=============================================================================
