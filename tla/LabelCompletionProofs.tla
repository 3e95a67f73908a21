------------------------ MODULE LabelCompletionProofs ------------------------
(***************************************************************************)
(* Proofs about LabelCompletion, for any number of attempts and retriers,  *)
(* any limit and any number of faults: type correctness, the two billing   *)
(* invariants, that a finished label was emailed, that every further email *)
(* was paid for by a fault, and that the status never goes backwards.      *)
(***************************************************************************)
EXTENDS LabelCompletion, Integers, FiniteSets, FiniteSetTheorems, TLAPS

USE ProcsAssumption, BoundsAssumption DEF known, shop

AttemptStep(a) == Begin(a) \/ CompleteStep(a)
JobStep(r)     == ScanCharges(r) \/ RetryStep(r)
WorldStep      == MailLeaseEnds \/ RetryLeaseEnds \/ DueGoesStale \/ MerchantCloses \/ SwitchCarrier

\* Every step is one of these; the proofs below split on them.
LEMMA StepCases ==
  ASSUME [Next]_vars
  PROVE  \/ \E a \in Attempts : AttemptStep(a)
         \/ \E r \in Retriers : JobStep(r)
         \/ \E p \in Procs : Crash(p)
         \/ WorldStep
         \/ UNCHANGED vars
BY DEF Next, AttemptStep, JobStep, WorldStep

-----------------------------------------------------------------------------
(* Types.                                                                  *)

\* A slot that goes to one of the steps leaves pc well typed.
LEMMA GotoTyped ==
  ASSUME pc \in [Procs -> Steps], NEW p \in Procs, NEW step \in Steps, Goto(p, step)
  PROVE  pc' \in [Procs -> Steps]
BY DEF Goto

\* So does a call that ends, and the slot forgets what it knew.
LEMMA ReturnTyped ==
  ASSUME pc \in [Procs -> Steps], seen \in [Procs -> BOOLEAN], managed \in [Procs -> BOOLEAN], NEW p \in Procs, Return(p)
  PROVE  pc' \in [Procs -> Steps] /\ seen' \in [Procs -> BOOLEAN] /\ managed' \in [Procs -> BOOLEAN]
BY DEF Return, Goto, Steps

\* The count of faults stays within its bound.
LEMMA FaultTyped ==
  ASSUME faults \in 0..MaxFaults, Fault \/ NoFault
  PROVE  faults' \in 0..MaxFaults
BY DEF Fault, NoFault

\* Recording an outcome, or failing to, leaves a ledger.
LEMMA OutcomeTyped ==
  ASSUME ledger \in Ledger, NEW ok \in BOOLEAN, Outcome(ok)
  PROVE  ledger' \in Ledger
<1>1. [ledger EXCEPT !.charged = TRUE] \in Ledger
  BY DEF Ledger
<1>2. [ledger EXCEPT !.failed = @ + 1] \in Ledger
  BY DEF Ledger
<1> QED
  BY <1>1, <1>2 DEF Outcome

\* The slots, the ledger, the claims and the counters keep their types.
THEOREM TypeCorrect == Spec => []TypeOK
<1>1. Init => TypeOK
  <2> SUFFICES ASSUME Init PROVE TypeOK
    OBVIOUS
  <2>1. pc \in [Procs -> Steps] /\ seen \in [Procs -> BOOLEAN] /\ managed \in [Procs -> BOOLEAN] /\ ledger \in Ledger
    BY DEF Init, Steps, Ledger, EmptyLedger
  <2>2. faults \in 0..MaxFaults /\ mails \in Nat /\ switches \in 0..MaxSwitches /\ carrier \in Carriers
    BY DEF Init, Carriers
  <2> QED
    BY <2>1, <2>2 DEF Init, TypeOK
<1>2. ASSUME TypeOK, [Next]_vars PROVE TypeOK'
  <2> USE <1>2 DEF Procs
  <2>0. /\ pc \in [Procs -> Steps] /\ seen \in [Procs -> BOOLEAN] /\ managed \in [Procs -> BOOLEAN] /\ ledger \in Ledger
        /\ faults \in 0..MaxFaults
    BY DEF TypeOK
  <2>1. ASSUME NEW a \in Attempts, Begin(a) PROVE TypeOK'
    <3>1. pc' \in [Procs -> Steps] /\ seen' \in [Procs -> BOOLEAN] /\ managed' \in [Procs -> BOOLEAN]
      BY <2>0, <2>1, GotoTyped, ReturnTyped DEF Begin, AdvanceToLabelSent, Steps
    <3>2. faults' \in 0..MaxFaults
      BY <2>0, <2>1, FaultTyped DEF Begin, AdvanceToLabelSent, Fault, NoFault
    <3> QED
      BY <3>1, <3>2, <2>1 DEF Begin, AdvanceToLabelSent, TypeOK, Ledger, Carriers
  <2>2. ASSUME NEW a \in Attempts, Advance(a) PROVE TypeOK'
    <3>1. pc' \in [Procs -> Steps] /\ seen' \in [Procs -> BOOLEAN] /\ managed' \in [Procs -> BOOLEAN]
      BY <2>0, <2>2, GotoTyped, ReturnTyped DEF Advance, AdvanceToLabelSent, Steps
    <3>2. faults' \in 0..MaxFaults
      BY <2>0, <2>2, FaultTyped DEF Advance, AdvanceToLabelSent, Fault, NoFault
    <3> QED
      BY <3>1, <3>2, <2>2 DEF Advance, AdvanceToLabelSent, TypeOK, Ledger
  <2>3. ASSUME NEW a \in Attempts, ReadLedger(a) PROVE TypeOK'
    <3>1. pc' \in [Procs -> Steps] /\ seen' \in [Procs -> BOOLEAN] /\ managed' \in [Procs -> BOOLEAN]
      BY <2>0, <2>3, GotoTyped DEF ReadLedger, Steps, Ledger
    <3>2. faults' \in 0..MaxFaults
      BY <2>0, <2>3, FaultTyped DEF ReadLedger, Fault, NoFault
    <3> QED
      BY <3>1, <3>2, <2>3 DEF ReadLedger, TypeOK, Ledger
  <2>4. ASSUME NEW a \in Attempts, AnnounceCharge(a) PROVE TypeOK'
    <3>1. pc' \in [Procs -> Steps] /\ seen' \in [Procs -> BOOLEAN] /\ managed' \in [Procs -> BOOLEAN]
      BY <2>0, <2>4, GotoTyped, ReturnTyped DEF AnnounceCharge, Steps
    <3>2. faults' \in 0..MaxFaults
      BY <2>0, <2>4, FaultTyped DEF AnnounceCharge, Fault, NoFault
    <3> QED
      BY <3>1, <3>2, <2>4 DEF AnnounceCharge, TypeOK, Ledger
  <2>5. ASSUME NEW a \in Attempts, ReportUsage(a) PROVE TypeOK'
    <3>1. pc' \in [Procs -> Steps] /\ seen' \in [Procs -> BOOLEAN] /\ managed' \in [Procs -> BOOLEAN]
      BY <2>0, <2>5, GotoTyped, ReturnTyped DEF ReportUsage, Report, Steps
    <3>2. faults' \in 0..MaxFaults
      BY <2>0, <2>5, FaultTyped DEF ReportUsage, Report, Fault, NoFault
    <3>3. billed' \in BOOLEAN
      BY <2>5 DEF ReportUsage, Report, TypeOK
    <3>4. UNCHANGED <<status, label, ledger, dueStale, mailKey, retryKey, mails, postage, carrier, switches>>
      BY <2>5 DEF ReportUsage
    <3> QED
      BY <3>1, <3>2, <3>3, <3>4 DEF TypeOK
  <2>6. ASSUME NEW a \in Attempts, RecordCharge(a) PROVE TypeOK'
    <3>1. pc' \in [Procs -> Steps] /\ seen' \in [Procs -> BOOLEAN] /\ managed' \in [Procs -> BOOLEAN]
      BY <2>0, <2>6, GotoTyped, ReturnTyped DEF RecordCharge, Outcome, Steps
    <3>2. faults' \in 0..MaxFaults
      BY <2>0, <2>6, FaultTyped DEF RecordCharge, Outcome, Fault, NoFault
    <3>3. ledger' \in Ledger
      BY <2>0, <2>6, OutcomeTyped DEF RecordCharge
    <3> QED
      BY <3>1, <3>2, <3>3, <2>6 DEF RecordCharge, TypeOK
  <2>7. ASSUME NEW a \in Attempts, ClaimEmail(a) PROVE TypeOK'
    <3>1. pc' \in [Procs -> Steps] /\ seen' \in [Procs -> BOOLEAN] /\ managed' \in [Procs -> BOOLEAN]
      BY <2>0, <2>7, GotoTyped, ReturnTyped DEF ClaimEmail, Steps
    <3>2. faults' \in 0..MaxFaults
      BY <2>0, <2>7, FaultTyped DEF ClaimEmail, Fault, NoFault
    <3> QED
      BY <3>1, <3>2, <2>7 DEF ClaimEmail, TypeOK, Ledger
  <2>8. ASSUME NEW a \in Attempts, Recheck(a) PROVE TypeOK'
    <3>1. pc' \in [Procs -> Steps] /\ seen' \in [Procs -> BOOLEAN] /\ managed' \in [Procs -> BOOLEAN]
      BY <2>0, <2>8, GotoTyped, ReturnTyped DEF Recheck, Steps
    <3>2. faults' \in 0..MaxFaults
      BY <2>0, <2>8, FaultTyped DEF Recheck, Fault, NoFault
    <3> QED
      BY <3>1, <3>2, <2>8 DEF Recheck, TypeOK, Ledger
  <2>9. ASSUME NEW a \in Attempts, SendEmail(a) PROVE TypeOK'
    <3>1. pc' \in [Procs -> Steps] /\ seen' \in [Procs -> BOOLEAN] /\ managed' \in [Procs -> BOOLEAN]
      BY <2>0, <2>9, GotoTyped, ReturnTyped DEF SendEmail, Steps
    <3>2. faults' \in 0..MaxFaults
      BY <2>0, <2>9, FaultTyped DEF SendEmail, Fault, NoFault
    <3> QED
      BY <3>1, <3>2, <2>9 DEF SendEmail, TypeOK, Ledger
  <2>10. ASSUME NEW a \in Attempts, RecordEmail(a) PROVE TypeOK'
    <3>1. pc' \in [Procs -> Steps] /\ seen' \in [Procs -> BOOLEAN] /\ managed' \in [Procs -> BOOLEAN]
      BY <2>0, <2>10, GotoTyped, ReturnTyped DEF RecordEmail, Steps
    <3>2. faults' \in 0..MaxFaults
      BY <2>0, <2>10, FaultTyped DEF RecordEmail, Fault, NoFault
    <3> QED
      BY <3>1, <3>2, <2>10 DEF RecordEmail, TypeOK, Ledger
  <2>11. ASSUME NEW a \in Attempts, ReleaseEmail(a) PROVE TypeOK'
    <3>1. pc' \in [Procs -> Steps] /\ seen' \in [Procs -> BOOLEAN] /\ managed' \in [Procs -> BOOLEAN]
      BY <2>0, <2>11, GotoTyped, ReturnTyped DEF ReleaseEmail, Steps
    <3>2. faults' \in 0..MaxFaults
      BY <2>0, <2>11, FaultTyped DEF ReleaseEmail, Fault, NoFault
    <3> QED
      BY <3>1, <3>2, <2>11 DEF ReleaseEmail, TypeOK, Ledger
  <2>12. ASSUME NEW a \in Attempts, Finish(a) PROVE TypeOK'
    <3>1. pc' \in [Procs -> Steps] /\ seen' \in [Procs -> BOOLEAN] /\ managed' \in [Procs -> BOOLEAN]
      BY <2>0, <2>12, GotoTyped, ReturnTyped DEF Finish, AdvanceToLabelSent, Steps
    <3>2. faults' \in 0..MaxFaults
      BY <2>0, <2>12, FaultTyped DEF Finish, AdvanceToLabelSent, Fault, NoFault
    <3> QED
      BY <3>1, <3>2, <2>12 DEF Finish, AdvanceToLabelSent, TypeOK, Ledger
  <2>13. ASSUME NEW r \in Retriers, ScanCharges(r) PROVE TypeOK'
    <3>1. pc' \in [Procs -> Steps] /\ seen' \in [Procs -> BOOLEAN] /\ managed' \in [Procs -> BOOLEAN]
      BY <2>0, <2>13, GotoTyped, ReturnTyped DEF ScanCharges, Steps
    <3>2. faults' \in 0..MaxFaults
      BY <2>0, <2>13, FaultTyped DEF ScanCharges, Fault, NoFault
    <3> QED
      BY <3>1, <3>2, <2>13 DEF ScanCharges, TypeOK, Ledger
  <2>14. ASSUME NEW r \in Retriers, ClaimRetry(r) PROVE TypeOK'
    <3>1. pc' \in [Procs -> Steps] /\ seen' \in [Procs -> BOOLEAN] /\ managed' \in [Procs -> BOOLEAN]
      BY <2>0, <2>14, GotoTyped, ReturnTyped DEF ClaimRetry, Steps
    <3>2. faults' \in 0..MaxFaults
      BY <2>0, <2>14, FaultTyped DEF ClaimRetry, Fault, NoFault
    <3> QED
      BY <3>1, <3>2, <2>14 DEF ClaimRetry, TypeOK, Ledger
  <2>15. ASSUME NEW r \in Retriers, RetryReport(r) PROVE TypeOK'
    <3>1. pc' \in [Procs -> Steps] /\ seen' \in [Procs -> BOOLEAN] /\ managed' \in [Procs -> BOOLEAN]
      BY <2>0, <2>15, GotoTyped, ReturnTyped DEF RetryReport, Report, Steps
    <3>2. faults' \in 0..MaxFaults
      BY <2>0, <2>15, FaultTyped DEF RetryReport, Report, Fault, NoFault
    <3>3. billed' \in BOOLEAN
      BY <2>15 DEF RetryReport, Report, TypeOK
    <3>4. UNCHANGED <<status, label, ledger, dueStale, mailKey, retryKey, mails, postage, carrier, switches>>
      BY <2>15 DEF RetryReport
    <3> QED
      BY <3>1, <3>2, <3>3, <3>4 DEF TypeOK
  <2>16. ASSUME NEW r \in Retriers, RecordRetry(r) PROVE TypeOK'
    <3>1. pc' \in [Procs -> Steps] /\ seen' \in [Procs -> BOOLEAN] /\ managed' \in [Procs -> BOOLEAN]
      BY <2>0, <2>16, GotoTyped, ReturnTyped DEF RecordRetry, Outcome, Steps
    <3>2. faults' \in 0..MaxFaults
      BY <2>0, <2>16, FaultTyped DEF RecordRetry, Outcome, Fault, NoFault
    <3>3. ledger' \in Ledger
      BY <2>0, <2>16, OutcomeTyped DEF RecordRetry
    <3> QED
      BY <3>1, <3>2, <3>3, <2>16 DEF RecordRetry, TypeOK
  <2>17. ASSUME NEW r \in Retriers, ReleaseRetry(r) PROVE TypeOK'
    <3>1. pc' \in [Procs -> Steps] /\ seen' \in [Procs -> BOOLEAN] /\ managed' \in [Procs -> BOOLEAN]
      BY <2>0, <2>17, GotoTyped, ReturnTyped DEF ReleaseRetry, Steps
    <3>2. faults' \in 0..MaxFaults
      BY <2>0, <2>17, FaultTyped DEF ReleaseRetry, Fault, NoFault
    <3> QED
      BY <3>1, <3>2, <2>17 DEF ReleaseRetry, TypeOK, Ledger
  <2>18. ASSUME NEW p \in Procs, Crash(p) PROVE TypeOK'
    <3>1. pc' \in [Procs -> Steps] /\ seen' \in [Procs -> BOOLEAN] /\ managed' \in [Procs -> BOOLEAN]
      BY <2>0, <2>18, GotoTyped, ReturnTyped DEF Crash, Steps
    <3>2. faults' \in 0..MaxFaults
      BY <2>0, <2>18, FaultTyped DEF Crash, Fault, NoFault
    <3> QED
      BY <3>1, <3>2, <2>18 DEF Crash, TypeOK, Ledger
  <2>19. ASSUME WorldStep PROVE TypeOK'
    <3>1. faults' \in 0..MaxFaults
      BY <2>0, <2>19, FaultTyped DEF WorldStep, MailLeaseEnds, RetryLeaseEnds, DueGoesStale, MerchantCloses, SwitchCarrier, NoFault
    <3>2. CASE SwitchCarrier
      BY <3>1, <3>2 DEF SwitchCarrier, TypeOK
    <3>3. CASE MailLeaseEnds \/ RetryLeaseEnds \/ DueGoesStale \/ MerchantCloses
      BY <3>1, <3>3 DEF MailLeaseEnds, RetryLeaseEnds, DueGoesStale, MerchantCloses, TypeOK
    <3> QED
      BY <2>19, <3>2, <3>3 DEF WorldStep
  <2>20. CASE UNCHANGED vars
    BY <2>20 DEF vars, TypeOK
  <2> QED
    BY StepCases, <2>1, <2>2, <2>3, <2>4, <2>5, <2>6, <2>7, <2>8, <2>9, <2>10, <2>11,
       <2>12, <2>13, <2>14, <2>15, <2>16, <2>17, <2>18, <2>19, <2>20
       DEF AttemptStep, JobStep, CompleteStep, RetryStep
<1> QED
  BY <1>1, <1>2, PTL DEF Spec

-----------------------------------------------------------------------------
(* The inductive invariant: what holds at each step of the two procedures  *)
(* beyond what the checked invariants say of the ledger.                   *)

Charging == {"report", "recordOk", "recordFail", "retryClaim", "retryReport", "retryOk",
             "retryFail", "retryRelease"}
Mailed   == {"recordMail", "releaseSent", "finish"}
AfterCharge  == {"claim", "recheck", "send", "releaseUnsent"} \cup Mailed
AfterAdvance == {"read", "charge", "report", "recordOk", "recordFail"} \cup AfterCharge
BeforeCharge == {"advance", "read"}

\* The announcement comes first: an outcome on the ledger, a count at the
\* meter and every step from the report on have label.charge_due behind them.
DueInv ==
  /\ ledger.charged \/ ledger.failed > 0 \/ billed => ledger.due
  /\ \A p \in Procs : pc[p] \in Charging => ledger.due

\* Until the merchant switches, every attempt takes the shop for what it was
\* when the label was bought.
CarrierInv ==
  switches = 0 =>
    /\ carrier = IF postage = "platform" THEN "managed" ELSE "own"
    /\ \A p \in Procs : /\ managed[p] => postage = "platform"
                        /\ postage = "platform" /\ pc[p] \in BeforeCharge => managed[p]

\* So the charge is announced by whoever gets past it, and by nobody for a
\* label of the shop's own.
PayerInv ==
  switches = 0 =>
    /\ ledger.due => postage = "platform"
    /\ Priced /\ postage = "platform" /\ label = "created" => ledger.due
    /\ \A p \in Procs : Priced /\ postage = "platform" /\ pc[p] \in AfterCharge => ledger.due
    /\ \A p \in Procs : pc[p] = "charge" => postage = "platform"

\* Whoever is about to record a success has had it from the meter.
BilledInv ==
  /\ ledger.charged => billed
  /\ \A p \in Procs : pc[p] \in {"recordOk", "retryOk"} => billed

\* Whoever believes the email left is right, and whoever is past the first
\* step works on a return that has moved on.
MailInv ==
  /\ ledger.emailed => mails > 0
  /\ label = "created" => mails > 0 /\ status # "APPROVED"
  /\ \A p \in Procs : /\ seen[p] => mails > 0
                      /\ pc[p] \in Mailed => mails > 0
                      /\ pc[p] \in AfterAdvance => status # "APPROVED"

IInv == DueInv /\ CarrierInv /\ PayerInv /\ BilledInv /\ MailInv

\* An attempt that reads the ledger goes on to the charge just when the label
\* was the platform's, as long as the shop has not switched.
LEMMA ReadKeepsPayer ==
  ASSUME TypeOK, DueInv, CarrierInv, PayerInv, NEW a \in Attempts, ReadLedger(a)
  PROVE  PayerInv'
<1>1. CASE switches = 0
  <2>1. /\ managed[a] <=> postage = "platform"
        /\ ledger.charged \/ ledger.failed > 0 => ledger.due
        /\ ledger.due => postage = "platform"
        /\ Priced /\ postage = "platform" /\ label = "created" => ledger.due
    BY <1>1 DEF ReadLedger, DueInv, CarrierInv, PayerInv, Procs, BeforeCharge
  <2>2. ledger.failed # 0 => ledger.failed > 0
    BY DEF TypeOK, Ledger
  <2>3. /\ pc'[a] = "charge" => managed[a]
        /\ pc'[a] \in AfterCharge /\ Priced /\ managed[a] => ledger.due
    BY <2>1, <2>2 DEF ReadLedger, ChargeDue, Goto, TypeOK, Procs, AfterCharge, Mailed
  <2>4. \A p \in Procs \ {a} : pc'[p] = pc[p]
    BY DEF ReadLedger, Goto, TypeOK
  <2>5. /\ \A p \in Procs : Priced /\ postage = "platform" /\ pc'[p] \in AfterCharge => ledger.due
        /\ \A p \in Procs : pc'[p] = "charge" => postage = "platform"
    BY <1>1, <2>1, <2>3, <2>4 DEF PayerInv
  <2>6. ledger' = ledger /\ postage' = postage /\ label' = label
    BY DEF ReadLedger
  <2> QED BY <2>1, <2>5, <2>6 DEF PayerInv, Procs, AfterCharge, Mailed
<1>2. CASE switches # 0
  BY <1>2 DEF ReadLedger, PayerInv
<1> QED BY <1>1, <1>2

\* One step of an attempt keeps the invariant.
LEMMA AttemptKeeps ==
  ASSUME TypeOK, IInv, NEW a \in Attempts, AttemptStep(a)
  PROVE  IInv'
<1> USE DEF TypeOK, Ledger, EmptyLedger, Procs, Goto, Return, NoFault, Fault,
            IInv, Charging, AfterCharge, Mailed, AfterAdvance, BeforeCharge
<1>1. CASE Begin(a)
  <2>1. DueInv' /\ BilledInv'
    BY <1>1 DEF Begin, AdvanceToLabelSent, DueInv, BilledInv
  <2>2. CarrierInv'
    BY <1>1 DEF Begin, CarrierInv
  <2>3. PayerInv'
    BY <1>1 DEF Begin, PayerInv
  <2>4. MailInv'
    BY <1>1 DEF Begin, AdvanceToLabelSent, MailInv
  <2> QED BY <2>1, <2>2, <2>3, <2>4
<1>2. CASE Advance(a)
  BY <1>2 DEF Advance, AdvanceToLabelSent, DueInv, CarrierInv, PayerInv, BilledInv, MailInv
<1>3. CASE ReadLedger(a)
  <2>1. DueInv' /\ BilledInv' /\ CarrierInv'
    BY <1>3 DEF ReadLedger, DueInv, CarrierInv, BilledInv
  <2>3. PayerInv'
    BY <1>3, ReadKeepsPayer
  <2>2. MailInv'
    BY <1>3 DEF ReadLedger, MailInv
  <2> QED BY <2>1, <2>2, <2>3
<1>4. CASE AnnounceCharge(a)
  BY <1>4 DEF AnnounceCharge, DueInv, CarrierInv, PayerInv, BilledInv, MailInv
<1>5. CASE ReportUsage(a)
  BY <1>5 DEF ReportUsage, Report, DueInv, CarrierInv, PayerInv, BilledInv, MailInv
<1>6. CASE RecordCharge(a)
  <2>1. DueInv' /\ CarrierInv' /\ PayerInv'
    BY <1>6 DEF RecordCharge, Outcome, DueInv, CarrierInv, PayerInv
  <2>2. BilledInv'
    BY <1>6 DEF RecordCharge, Outcome, BilledInv
  <2>3. MailInv'
    BY <1>6 DEF RecordCharge, Outcome, MailInv
  <2> QED BY <2>1, <2>2, <2>3
<1>7. CASE ClaimEmail(a)
  BY <1>7 DEF ClaimEmail, DueInv, CarrierInv, PayerInv, BilledInv, MailInv
<1>8. CASE Recheck(a)
  BY <1>8 DEF Recheck, DueInv, CarrierInv, PayerInv, BilledInv, MailInv
<1>9. CASE SendEmail(a)
  BY <1>9 DEF SendEmail, DueInv, CarrierInv, PayerInv, BilledInv, MailInv
<1>10. CASE RecordEmail(a)
  BY <1>10 DEF RecordEmail, DueInv, CarrierInv, PayerInv, BilledInv, MailInv
<1>11. CASE ReleaseEmail(a)
  BY <1>11 DEF ReleaseEmail, DueInv, CarrierInv, PayerInv, BilledInv, MailInv
<1>12. CASE Finish(a)
  BY <1>12 DEF Finish, AdvanceToLabelSent, DueInv, CarrierInv, PayerInv, BilledInv, MailInv
<1> QED
  BY <1>1, <1>2, <1>3, <1>4, <1>5, <1>6, <1>7, <1>8, <1>9, <1>10, <1>11, <1>12
     DEF AttemptStep, CompleteStep

\* One step of the charge job keeps the invariant.
LEMMA JobKeeps ==
  ASSUME TypeOK, IInv, NEW r \in Retriers, JobStep(r)
  PROVE  IInv'
<1> USE DEF TypeOK, Ledger, EmptyLedger, Procs, Goto, Return, NoFault, Fault,
            IInv, Charging, AfterCharge, Mailed, AfterAdvance, BeforeCharge
<1>1. CASE ScanCharges(r)
  BY <1>1 DEF ScanCharges, NeedsRetry, DueInv, CarrierInv, PayerInv, BilledInv, MailInv
<1>2. CASE ClaimRetry(r)
  BY <1>2 DEF ClaimRetry, DueInv, CarrierInv, PayerInv, BilledInv, MailInv
<1>3. CASE RetryReport(r)
  BY <1>3 DEF RetryReport, Report, DueInv, CarrierInv, PayerInv, BilledInv, MailInv
<1>4. CASE RecordRetry(r)
  <2>1. DueInv' /\ CarrierInv' /\ PayerInv'
    BY <1>4 DEF RecordRetry, Outcome, DueInv, CarrierInv, PayerInv
  <2>2. BilledInv'
    BY <1>4 DEF RecordRetry, Outcome, BilledInv
  <2>3. MailInv'
    BY <1>4 DEF RecordRetry, Outcome, MailInv
  <2> QED BY <2>1, <2>2, <2>3
<1>5. CASE ReleaseRetry(r)
  BY <1>5 DEF ReleaseRetry, DueInv, CarrierInv, PayerInv, BilledInv, MailInv
<1> QED
  BY <1>1, <1>2, <1>3, <1>4, <1>5 DEF JobStep, RetryStep

\* The inductive invariant holds of every behaviour.
THEOREM Invariance == Spec => []IInv
<1>1. Init => IInv
  <2> SUFFICES ASSUME Init PROVE IInv
    OBVIOUS
  <2>1. PICK buyer \in Attempts \cup {None} :
          /\ pc = [p \in Procs |-> IF p = buyer THEN "advance" ELSE "idle"]
          /\ managed = [p \in Procs |-> p = buyer /\ carrier = "managed"]
    BY DEF Init
  <2>2. \A p \in Procs : /\ pc[p] \in {"advance", "idle"} /\ ~seen[p]
                         /\ managed[p] => carrier = "managed"
                         /\ pc[p] = "advance" /\ carrier = "managed" => managed[p]
    BY <2>1 DEF Init
  <2>3. DueInv /\ BilledInv /\ MailInv
    BY <2>2 DEF Init, EmptyLedger, DueInv, BilledInv, MailInv, Charging, Mailed, AfterAdvance, AfterCharge
  <2>4. CarrierInv
    BY <2>2 DEF Init, CarrierInv, BeforeCharge
  <2>5. PayerInv
    BY <2>2 DEF Init, EmptyLedger, PayerInv, AfterCharge, Mailed
  <2> QED BY <2>3, <2>4, <2>5 DEF IInv
<1>2. ASSUME TypeOK, IInv, [Next]_vars PROVE IInv'
  <2>1. ASSUME NEW p \in Procs, Crash(p) PROVE IInv'
    BY <1>2, <2>1 DEF Crash, Return, Goto, EmptyLedger, TypeOK, Ledger, IInv, DueInv, CarrierInv, PayerInv, BilledInv,
       MailInv, Charging, AfterCharge, Mailed, AfterAdvance, BeforeCharge
  <2>2. ASSUME WorldStep PROVE IInv'
    <3>1. CASE SwitchCarrier
      <4>1. switches' # 0
        BY <1>2, <3>1 DEF SwitchCarrier, TypeOK
      <4> QED
        BY <1>2, <3>1, <4>1 DEF SwitchCarrier, IInv, DueInv, CarrierInv, PayerInv, BilledInv, MailInv
    <3>2. CASE MailLeaseEnds \/ RetryLeaseEnds \/ DueGoesStale \/ MerchantCloses
      BY <1>2, <3>2 DEF MailLeaseEnds, RetryLeaseEnds, DueGoesStale, MerchantCloses,
         IInv, DueInv, CarrierInv, PayerInv, BilledInv, MailInv
    <3> QED BY <2>2, <3>1, <3>2 DEF WorldStep
  <2>3. CASE UNCHANGED vars
    BY <1>2, <2>3 DEF vars, IInv, DueInv, CarrierInv, PayerInv, BilledInv, MailInv
  <2> QED
    BY <1>2, StepCases, AttemptKeeps, JobKeeps, <2>1, <2>2, <2>3
<1> QED
  BY <1>1, <1>2, TypeCorrect, PTL DEF Spec

-----------------------------------------------------------------------------
(* The properties.                                                         *)

\* The meter never runs ahead of the label.charge_due entry, so no charge is
\* invisible to the retry job; and until the shop changes its carrier the entry
\* is there for every finished label the platform paid for, and for no other.
THEOREM ChargesAreAnnounced == Spec => []ChargeAnnounced
<1>1. IInv => ChargeAnnounced
  BY DEF IInv, DueInv, PayerInv, ChargeAnnounced
<1> QED BY <1>1, Invariance, PTL

\* The timeline never says charged of a label the meter did not count.
THEOREM ChargesAreBilled == Spec => []ChargedIsBilled
<1>1. IInv => ChargedIsBilled
  BY DEF IInv, BilledInv, ChargedIsBilled
<1> QED BY <1>1, Invariance, PTL

\* A label called finished has been emailed and its return has moved on.
THEOREM FinishedLabelsAreEmailed == Spec => []FinishedIsEmailed
<1>1. IInv => FinishedIsEmailed
  BY DEF IInv, MailInv, FinishedIsEmailed
<1> QED BY <1>1, Invariance, PTL

\* No step of the label's completion, however late, takes the return back.
THEOREM StatusMovesForward == Spec => NeverBackwards
<1> DEFINE Forward == /\ status = "CLOSED" => status' = "CLOSED"
                      /\ status = "LABEL_SENT" => status' # "APPROVED"
<1>1. ASSUME [Next]_vars PROVE [Forward]_vars
  <2>1. ASSUME NEW a \in Attempts, AttemptStep(a) PROVE Forward
    BY <2>1 DEF AttemptStep, CompleteStep, Begin, Advance, AdvanceToLabelSent, ReadLedger,
       AnnounceCharge, ReportUsage, RecordCharge, ClaimEmail, Recheck, SendEmail, RecordEmail,
       ReleaseEmail, Finish
  <2>2. ASSUME NEW r \in Retriers, JobStep(r) PROVE Forward
    BY <2>2 DEF JobStep, ScanCharges, RetryStep, ClaimRetry, RetryReport, RecordRetry, ReleaseRetry
  <2>3. ASSUME NEW p \in Procs, Crash(p) PROVE Forward
    BY <2>3 DEF Crash
  <2>4. ASSUME WorldStep PROVE Forward
    BY <2>4 DEF WorldStep, MailLeaseEnds, RetryLeaseEnds, DueGoesStale, MerchantCloses, SwitchCarrier
  <2> QED BY <1>1, StepCases, <2>1, <2>2, <2>3, <2>4
<1> QED BY <1>1, PTL DEF Spec, NeverBackwards

-----------------------------------------------------------------------------
(* How many emails leave.                                                  *)

At(X) == {p \in Procs : pc[p] \in X}

One(b) == IF b THEN 1 ELSE 0

\* A slot that moves changes what is counted at some steps by itself.
LEMMA MoveCounts ==
  ASSUME TypeOK, NEW p \in Procs, NEW step, Goto(p, step), NEW X, IsFiniteSet(At(X))
  PROVE  /\ IsFiniteSet(At(X)')
         /\ Cardinality(At(X)) \in Nat /\ Cardinality(At(X)') \in Nat
         /\ Cardinality(At(X)') = Cardinality(At(X)) + One(step \in X) - One(pc[p] \in X)
<1>1. pc'[p] = step /\ \A q \in Procs \ {p} : pc'[q] = pc[q]
  BY DEF Goto, TypeOK
<1>2. Cardinality(At(X)) \in Nat
  BY FS_CardinalityType
<1>3. p \in At(X) <=> pc[p] \in X
  BY DEF At
<1>4. CASE step \in X
  <2>1. At(X)' = At(X) \cup {p}
    BY <1>1, <1>4 DEF At
  <2>2. IsFiniteSet(At(X) \cup {p}) /\ Cardinality(At(X) \cup {p}) =
          IF p \in At(X) THEN Cardinality(At(X)) ELSE Cardinality(At(X)) + 1
    BY FS_AddElement
  <2>3. IsFiniteSet(At(X)') /\ Cardinality(At(X)') = IF pc[p] \in X THEN Cardinality(At(X)) ELSE Cardinality(At(X)) + 1
    BY <1>3, <2>1, <2>2
  <2> HIDE DEF At
  <2> QED BY <1>2, <1>4, <2>3 DEF One
<1>5. CASE step \notin X
  <2>1. At(X)' = At(X) \ {p}
    BY <1>1, <1>5 DEF At
  <2>2. IsFiniteSet(At(X) \ {p}) /\ Cardinality(At(X) \ {p}) =
          IF p \in At(X) THEN Cardinality(At(X)) - 1 ELSE Cardinality(At(X))
    BY FS_RemoveElement
  <2>3. IsFiniteSet(At(X)') /\ Cardinality(At(X)') = IF pc[p] \in X THEN Cardinality(At(X)) - 1 ELSE Cardinality(At(X))
    BY <1>3, <2>1, <2>2
  <2>4. Cardinality(At(X)') \in Nat
    BY <2>3, FS_CardinalityType
  <2> QED BY <1>2, <1>5, <2>3, <2>4 DEF One
<1> QED BY <1>4, <1>5

\* The steps of the claim's winner; those before the email is on the ledger
\* that may send one, or let in a slot that will.
MailSteps  == {"recheck", "send", "recordMail", "releaseSent", "releaseUnsent"}
RiskySteps == MailSteps \ {"recordMail"}

Risky   == At(RiskySteps)
Sending == At({"send"})

\* The claim is free, or will be without a fault.
Free == ~Mailing(mailKey)

\* Until label.emailed is on the ledger, every email beyond the first that has
\* left or may yet leave was paid for; from then on only those being sent may.
MailsInv ==
  /\ IsFiniteSet(Risky) /\ IsFiniteSet(Sending)
  /\ ~ledger.emailed => mails + Cardinality(Risky) + One(Free) <= 1 + faults
  /\ ledger.emailed => mails + Cardinality(Sending) <= 1 + faults

\* The facts about numbers that the cases share.
LEMMA MailNumbers ==
  ASSUME TypeOK, MailsInv
  PROVE  /\ mails \in Nat /\ faults \in Nat /\ Cardinality(Risky) \in Nat /\ Cardinality(Sending) \in Nat
         /\ Cardinality(Sending) <= Cardinality(Risky)
         /\ One(Free) \in 0..1 /\ One(Free') \in 0..1 /\ ((Free' => Free) => One(Free') <= One(Free))
         /\ (Free => One(Free) = 1) /\ (~Free' => One(Free') = 0)
<1>1. mails \in Nat /\ faults \in Nat /\ Cardinality(Risky) \in Nat /\ Cardinality(Sending) \in Nat
  BY FS_CardinalityType DEF TypeOK, MailsInv
<1>2. Sending \subseteq Risky
  BY DEF Sending, Risky, At, RiskySteps, MailSteps
<1>3. Cardinality(Sending) <= Cardinality(Risky)
  BY <1>2, FS_Subset DEF MailsInv
<1> QED BY <1>1, <1>3 DEF One

\* What a move counts, and whether it frees the claim.
LEMMA MailMoves ==
  ASSUME TypeOK, MailsInv, NEW p \in Procs, NEW step, Goto(p, step)
  PROVE  /\ IsFiniteSet(Risky') /\ IsFiniteSet(Sending')
         /\ Cardinality(Risky') \in Nat /\ Cardinality(Sending') \in Nat
         /\ Cardinality(Risky') = Cardinality(Risky) + One(step \in RiskySteps) - One(pc[p] \in RiskySteps)
         /\ Cardinality(Sending') = Cardinality(Sending) + One(step \in {"send"}) - One(pc[p] \in {"send"})
         /\ mailKey' = mailKey /\ (step \in MailSteps \/ pc[p] \notin MailSteps) => (Free' => Free)
<1>1. /\ IsFiniteSet(Risky') /\ Cardinality(Risky') \in Nat
      /\ Cardinality(Risky') = Cardinality(Risky) + One(step \in RiskySteps) - One(pc[p] \in RiskySteps)
  BY MoveCounts DEF Risky, MailsInv
<1>2. /\ IsFiniteSet(Sending') /\ Cardinality(Sending') \in Nat
      /\ Cardinality(Sending') = Cardinality(Sending) + One(step \in {"send"}) - One(pc[p] \in {"send"})
  BY MoveCounts DEF Sending, MailsInv
<1>3. mailKey' = mailKey /\ (step \in MailSteps \/ pc[p] \notin MailSteps) => (Free' => Free)
  BY DEF Free, Mailing, MailSteps, Goto, TypeOK
<1> QED BY <1>1, <1>2, <1>3

\* Where no slot is at the email, before or after, nothing changes.
LEMMA QuietKeeps ==
  ASSUME TypeOK, MailsInv, UNCHANGED <<mailKey, mails>>, ledger'.emailed = ledger.emailed,
         faults' = faults \/ faults' = faults + 1,
         \/ pc' = pc
         \/ \E p \in Procs, step \in Steps \ MailSteps : pc[p] \notin MailSteps /\ Goto(p, step)
  PROVE  MailsInv'
<1>1. CASE pc' = pc
  <2>1. Risky' = Risky /\ Sending' = Sending /\ Free' = Free
    BY <1>1 DEF Risky, Sending, At, Free, Mailing
  <2>2. One(Free') = One(Free)
    BY <2>1
  <2> QED BY <2>1, <2>2, MailNumbers DEF MailsInv
<1>2. ASSUME NEW p \in Procs, NEW step \in Steps \ MailSteps, pc[p] \notin MailSteps, Goto(p, step) PROVE MailsInv'
  <2>1. /\ Cardinality(Risky') = Cardinality(Risky) /\ Cardinality(Sending') = Cardinality(Sending)
        /\ IsFiniteSet(Risky') /\ IsFiniteSet(Sending') /\ (Free' => Free)
    <3>1. step \notin RiskySteps /\ pc[p] \notin RiskySteps /\ step \notin {"send"} /\ pc[p] \notin {"send"}
      BY <1>2 DEF RiskySteps, MailSteps
    <3> QED BY <1>2, <3>1, MailMoves, MailNumbers DEF One
  <2> QED BY <2>1, MailNumbers DEF MailsInv
<1> QED BY <1>1, <1>2

\* The steps of a completion.
LEMMA AttemptKeepsMails ==
  ASSUME TypeOK, MailsInv, NEW a \in Attempts, AttemptStep(a)
  PROVE  MailsInv'
<1> USE DEF NoFault, Fault, Return
<1>0. a \in Procs
  BY DEF Procs
<1> DEFINE N == Cardinality(Risky)
           NN == Cardinality(Risky')
           S == Cardinality(Sending)
           SS == Cardinality(Sending')
           F == One(Free)
           FF == One(Free')
<1>n. /\ mails \in Nat /\ faults \in Nat /\ N \in Nat /\ S \in Nat /\ S <= N
      /\ F \in 0..1 /\ FF \in 0..1 /\ ((Free' => Free) => FF <= F) /\ (Free => F = 1) /\ (~Free' => FF = 0)
  BY MailNumbers
<1>m. ASSUME NEW step, Goto(a, step)
      PROVE  /\ IsFiniteSet(Risky') /\ IsFiniteSet(Sending') /\ NN \in Nat /\ SS \in Nat
             /\ NN = N + One(step \in RiskySteps) - One(pc[a] \in RiskySteps)
             /\ SS = S + One(step \in {"send"}) - One(pc[a] \in {"send"})
             /\ mailKey' = mailKey /\ (step \in MailSteps \/ pc[a] \notin MailSteps) => (Free' => Free)
  BY <1>0, <1>m, MailMoves
<1>i. /\ ~ledger.emailed => mails + N + F <= 1 + faults
      /\ ledger.emailed => mails + S <= 1 + faults
  BY DEF MailsInv
<1>g. ASSUME IsFiniteSet(Risky'), IsFiniteSet(Sending'),
             ~ledger'.emailed => mails' + NN + FF <= 1 + faults',
             ledger'.emailed => mails' + SS <= 1 + faults'
      PROVE  MailsInv'
  BY <1>g DEF MailsInv
<1> HIDE DEF N, NN, S, SS, F, FF
<1>1. CASE Begin(a) \/ Advance(a) \/ ReadLedger(a) \/ AnnounceCharge(a) \/ ReportUsage(a) \/ RecordCharge(a) \/ Finish(a)
  <2>1. UNCHANGED <<mailKey, mails>> /\ (faults' = faults \/ faults' = faults + 1)
    BY <1>1 DEF Begin, Advance, ReadLedger, AnnounceCharge, ReportUsage, Report, RecordCharge, Outcome, Finish
  <2>2. ledger'.emailed = ledger.emailed
    BY <1>1 DEF Begin, Advance, ReadLedger, AnnounceCharge, ReportUsage, RecordCharge, Outcome, Finish, TypeOK, Ledger
  <2>3. \/ pc' = pc
        \/ \E step \in Steps \ MailSteps : pc[a] \notin MailSteps /\ Goto(a, step)
    BY <1>1 DEF Begin, Advance, ReadLedger, AnnounceCharge, ReportUsage, Report, RecordCharge, Finish, Steps, MailSteps
  <2> QED BY <1>0, <2>1, <2>2, <2>3, QuietKeeps
<1>2. CASE ClaimEmail(a)
  <2>0. pc[a] = "claim" /\ UNCHANGED <<ledger, mails>>
    BY <1>2 DEF ClaimEmail
  <2>1. CASE mailKey = None /\ mailKey' = a /\ Goto(a, "recheck") /\ faults' = faults
    <3>1. Free /\ ~Free'
      BY <1>0, <2>1 DEF Free, Mailing, Goto, TypeOK
    <3>2. IsFiniteSet(Risky') /\ IsFiniteSet(Sending') /\ NN = N + 1 /\ SS = S
      BY <1>n, <1>m, <2>0, <2>1 DEF One, RiskySteps, MailSteps
    <3> QED BY <1>n, <1>i, <1>g, <2>0, <2>1, <3>1, <3>2
  <2>2. CASE mailKey # None /\ Goto(a, "idle") /\ UNCHANGED mailKey /\ faults' = faults
    BY <1>0, <2>0, <2>2, QuietKeeps DEF Steps, MailSteps
  <2>3. CASE Goto(a, "recheck") /\ UNCHANGED mailKey /\ faults' = faults + 1
    <3>1. IsFiniteSet(Risky') /\ IsFiniteSet(Sending') /\ NN = N + 1 /\ SS = S /\ (Free' => Free)
      BY <1>n, <1>m, <2>0, <2>3 DEF One, RiskySteps, MailSteps
    <3> QED BY <1>n, <1>i, <1>g, <2>0, <2>3, <3>1
  <2> QED BY <1>2, <2>1, <2>2, <2>3 DEF ClaimEmail
<1>3. CASE Recheck(a)
  <2>0. /\ pc[a] = "recheck" /\ UNCHANGED <<ledger, mails, mailKey>>
        /\ \/ Goto(a, "releaseSent") /\ faults' = faults
           \/ ~ledger.emailed /\ Goto(a, "send") /\ faults' = faults
           \/ Goto(a, "releaseUnsent") /\ faults' = faults + 1
    BY <1>3 DEF Recheck
  <2>1. CASE Goto(a, "releaseSent") \/ Goto(a, "releaseUnsent")
    <3>1. IsFiniteSet(Risky') /\ IsFiniteSet(Sending') /\ NN = N /\ SS = S /\ (Free' => Free)
      BY <1>n, <1>m, <2>0, <2>1 DEF One, RiskySteps, MailSteps
    <3> QED BY <1>n, <1>i, <1>g, <2>0, <3>1
  <2>2. CASE ~ledger.emailed /\ Goto(a, "send")
    <3>1. IsFiniteSet(Risky') /\ IsFiniteSet(Sending') /\ NN = N /\ (Free' => Free)
      BY <1>n, <1>m, <2>0, <2>2 DEF One, RiskySteps, MailSteps
    <3> QED BY <1>n, <1>i, <1>g, <2>0, <2>2, <3>1
  <2> QED BY <2>0, <2>1, <2>2
<1>4. CASE SendEmail(a)
  <2>0. /\ pc[a] = "send" /\ UNCHANGED <<ledger, mailKey>>
        /\ \/ Goto(a, "recordMail") /\ mails' = mails + 1 /\ faults' = faults
           \/ Goto(a, "releaseUnsent") /\ (mails' = mails \/ mails' = mails + 1) /\ faults' = faults + 1
    BY <1>4 DEF SendEmail
  <2>1. CASE Goto(a, "recordMail") /\ mails' = mails + 1 /\ faults' = faults
    <3>1. IsFiniteSet(Risky') /\ IsFiniteSet(Sending') /\ NN = N - 1 /\ SS = S - 1 /\ (Free' => Free)
      BY <1>n, <1>m, <2>0, <2>1 DEF One, RiskySteps, MailSteps
    <3> QED BY <1>n, <1>i, <1>g, <2>0, <2>1, <3>1
  <2>2. CASE Goto(a, "releaseUnsent") /\ (mails' = mails \/ mails' = mails + 1) /\ faults' = faults + 1
    <3>1. IsFiniteSet(Risky') /\ IsFiniteSet(Sending') /\ NN = N /\ SS = S - 1 /\ (Free' => Free)
      BY <1>n, <1>m, <2>0, <2>2 DEF One, RiskySteps, MailSteps
    <3> QED BY <1>n, <1>i, <1>g, <2>0, <2>2, <3>1
  <2> QED BY <2>0, <2>1, <2>2
<1>5. CASE RecordEmail(a)
  <2>0. /\ pc[a] = "recordMail" /\ Goto(a, "releaseSent") /\ UNCHANGED <<mails, mailKey>>
        /\ \/ ledger'.emailed /\ faults' = faults
           \/ ledger' = ledger /\ faults' = faults + 1
    BY <1>5 DEF RecordEmail, TypeOK, Ledger
  <2>1. IsFiniteSet(Risky') /\ IsFiniteSet(Sending') /\ NN = N + 1 /\ SS = S /\ (Free' => Free)
    BY <1>n, <1>m, <2>0 DEF One, RiskySteps, MailSteps
  <2>2. CASE ledger'.emailed /\ faults' = faults
    <3>1. mails + S <= 1 + faults
      BY <1>n, <1>i
    <3> QED BY <1>g, <2>0, <2>1, <2>2, <3>1
  <2>3. CASE ledger' = ledger /\ faults' = faults + 1
    BY <1>n, <1>i, <1>g, <2>0, <2>1, <2>3
  <2> QED BY <2>0, <2>2, <2>3
<1>6. CASE ReleaseEmail(a)
  <2>0. /\ \/ pc[a] = "releaseSent" /\ Goto(a, "finish")
           \/ pc[a] = "releaseUnsent" /\ Goto(a, "idle")
        /\ UNCHANGED <<ledger, mails, faults>>
    BY <1>6 DEF ReleaseEmail
  <2>1. IsFiniteSet(Risky') /\ IsFiniteSet(Sending') /\ NN = N - 1 /\ SS = S
    BY <1>n, <1>m, <2>0 DEF One, RiskySteps, MailSteps
  <2> QED BY <1>n, <1>i, <1>g, <2>0, <2>1
<1> QED BY <1>1, <1>2, <1>3, <1>4, <1>5, <1>6 DEF AttemptStep, CompleteStep

\* The charge job does not touch the email.
LEMMA JobKeepsMails ==
  ASSUME TypeOK, MailsInv, NEW r \in Retriers, JobStep(r)
  PROVE  MailsInv'
<1>1. UNCHANGED <<mailKey, mails>> /\ (faults' = faults \/ faults' = faults + 1)
  BY DEF JobStep, RetryStep, ScanCharges, ClaimRetry, RetryReport, Report, RecordRetry, Outcome, ReleaseRetry,
     Fault, NoFault
<1>2. ledger'.emailed = ledger.emailed
  BY DEF JobStep, RetryStep, ScanCharges, ClaimRetry, RetryReport, RecordRetry, Outcome, ReleaseRetry, TypeOK, Ledger
<1>3. \E step \in Steps \ MailSteps : pc[r] \notin MailSteps /\ Goto(r, step)
  BY DEF JobStep, RetryStep, ScanCharges, ClaimRetry, RetryReport, Report, RecordRetry, ReleaseRetry, Return,
     Steps, MailSteps
<1> QED BY <1>1, <1>2, <1>3, QuietKeeps DEF Procs

\* A crash frees the claim or loses an email at the price of a fault, and so
\* does a lease that ends under its holder.
LEMMA WorldKeepsMails ==
  ASSUME TypeOK, MailsInv, WorldStep \/ (\E p \in Procs : Crash(p)) \/ UNCHANGED vars
  PROVE  MailsInv'
<1>1. ASSUME NEW p \in Procs, Crash(p) PROVE MailsInv'
  <2>1. Goto(p, "idle") /\ faults' = faults + 1 /\ UNCHANGED <<ledger, mails>>
    BY <1>1 DEF Crash, Return, Fault
  <2>2. /\ IsFiniteSet(Risky') /\ IsFiniteSet(Sending')
        /\ Cardinality(Risky') \in Nat /\ Cardinality(Risky') <= Cardinality(Risky)
        /\ Cardinality(Sending') \in Nat /\ Cardinality(Sending') <= Cardinality(Sending)
    BY <2>1, MailMoves, MailNumbers DEF One, RiskySteps, MailSteps
  <2> QED BY <2>1, <2>2, MailNumbers DEF MailsInv
<1>2. CASE MailLeaseEnds
  <2>1. Risky' = Risky /\ Sending' = Sending /\ UNCHANGED <<ledger, mails>>
    BY <1>2 DEF MailLeaseEnds, Risky, Sending, At
  <2>2. (Free /\ faults' = faults) \/ faults' = faults + 1
    BY <1>2 DEF MailLeaseEnds, Free, Fault, NoFault
  <2> QED BY <2>1, <2>2, MailNumbers DEF MailsInv
<1>3. CASE RetryLeaseEnds \/ DueGoesStale \/ MerchantCloses \/ SwitchCarrier \/ UNCHANGED vars
  <2>1. UNCHANGED <<pc, ledger, mailKey, mails>> /\ (faults' = faults \/ faults' = faults + 1)
    BY <1>3 DEF RetryLeaseEnds, DueGoesStale, MerchantCloses, SwitchCarrier, vars, Fault, NoFault
  <2> QED BY <2>1, QuietKeeps
<1> QED BY <1>1, <1>2, <1>3 DEF WorldStep

\* However many recoveries run together, each email beyond the first was paid
\* for by a fault.
THEOREM MailsAreBounded == Spec => []MailsBounded
<1>1. Init => MailsInv
  <2> SUFFICES ASSUME Init PROVE MailsInv
    OBVIOUS
  <2>1. Risky = {} /\ Sending = {} /\ Free /\ ~ledger.emailed /\ mails = 0 /\ faults = 0
    BY DEF Init, Risky, Sending, At, RiskySteps, MailSteps, Free, Mailing, EmptyLedger
  <2> QED BY <2>1, FS_EmptySet DEF MailsInv, One
<1>2. TypeOK /\ MailsInv /\ [Next]_vars => MailsInv'
  BY StepCases, AttemptKeepsMails, JobKeepsMails, WorldKeepsMails
<1>3. TypeOK /\ MailsInv => MailsBounded
  BY MailNumbers DEF MailsInv, MailsBounded
<1> QED BY <1>1, <1>2, <1>3, TypeCorrect, PTL DEF Spec

=============================================================================
