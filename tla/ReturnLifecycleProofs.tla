------------------------- MODULE ReturnLifecycleProofs -------------------------
(***************************************************************************)
(* Proofs about ReturnLifecycle, for any number of requests, tracking jobs *)
(* and faults.                                                             *)
(***************************************************************************)
EXTENDS ReturnLifecycle, TLAPS

\* Slots, rows and counters keep their shape.
THEOREM TypeCorrect == Spec => []TypeOK
<1>1. Init => TypeOK
  <2> SUFFICES ASSUME Init PROVE TypeOK
    OBVIOUS
  <2>1. failure \in BOOLEAN
    BY Zenon DEF Init
  <2>2. /\ pc \in [Procs -> Steps] /\ snap \in [Procs -> Statuses] /\ answer \in [Procs -> Scans]
        /\ status \in Statuses /\ label = "none" /\ approval = "none"
        /\ parcel \in Scans /\ tracking \in Scans
        /\ received \in Nat /\ overwrote \in Nat /\ faults \in 0..MaxFaults
    BY BoundAssumption DEF Init, Steps, Statuses, Scans
  <2> QED BY <2>1, <2>2 DEF TypeOK
<1>2. TypeOK /\ [Next]_vars => TypeOK'
  <2> SUFFICES ASSUME TypeOK, [Next]_vars PROVE TypeOK'
    OBVIOUS
  <2>0. Requests \subseteq Procs /\ Trackers \subseteq Procs
    BY DEF Procs
  <2> USE <2>0, BoundAssumption DEF TypeOK, Goto, Return, Keep, Fault, NoFault, row, hist
  <2>1. ASSUME NEW r \in Requests, ReadRequested(r) PROVE TypeOK'
    BY <2>1 DEF ReadRequested, Steps, Statuses, Scans
  <2>2. ASSUME NEW r \in Requests, Block(r) PROVE TypeOK'
    BY <2>2 DEF Block, Steps, Statuses, Scans
  <2>3. ASSUME NEW r \in Requests, Approve(r) PROVE TypeOK'
    BY <2>3 DEF Approve, Steps, Statuses, Scans, Overwrite
  <2>4. ASSUME NEW r \in Requests, Reject(r) PROVE TypeOK'
    BY <2>4 DEF Reject, Steps, Statuses, Scans, Overwrite
  <2>5. ASSUME NEW r \in Requests, RetryLabel(r) PROVE TypeOK'
    BY <2>5 DEF RetryLabel, Steps, Statuses, Scans
  <2>6. ASSUME NEW r \in Requests, ReadExpected(r) PROVE TypeOK'
    BY <2>6 DEF ReadExpected, Steps, Statuses, Scans, OpenStatuses
  <2>7. ASSUME NEW r \in Requests, ApprovedWithoutLabel(r) PROVE TypeOK'
    BY <2>7 DEF ApprovedWithoutLabel, Steps, Statuses, Scans
  <2>8. ASSUME NEW r \in Requests, MarkReceived(r) PROVE TypeOK'
    BY <2>8 DEF MarkReceived, Steps, Statuses, Scans
  <2>9. ASSUME NEW r \in Requests, ReadProcessable(r) PROVE TypeOK'
    BY <2>9 DEF ReadProcessable, Steps, Statuses, Scans
  <2>10. ASSUME NEW r \in Requests, ClaimRefund(r) PROVE TypeOK'
    BY <2>10 DEF ClaimRefund, Steps, Statuses, Scans
  <2>11. ASSUME NEW r \in Requests, Pay(r) PROVE TypeOK'
    BY <2>11 DEF Pay, Steps, Statuses, Scans
  <2>12. ASSUME NEW r \in Requests, LogApproval(r) PROVE TypeOK'
    BY <2>12 DEF LogApproval, Steps, Statuses, Scans
  <2>13. ASSUME NEW r \in Requests, BuyLabel(r) PROVE TypeOK'
    BY <2>13 DEF BuyLabel, Steps, Statuses, Scans
  <2>14. ASSUME NEW r \in Requests, CompleteLabel(r) PROVE TypeOK'
    BY <2>14 DEF CompleteLabel, Steps, Statuses, Scans, AdvanceToLabelSent
  <2>15. ASSUME NEW r \in Requests, RecordFailure(r) PROVE TypeOK'
    <3>1. failure' \in BOOLEAN
      BY <2>15, Zenon DEF RecordFailure
    <3>2. /\ pc' \in [Procs -> Steps] /\ snap' \in [Procs -> Statuses] /\ answer' \in [Procs -> Scans]
          /\ faults' \in 0..MaxFaults
          /\ UNCHANGED <<status, label, approval, tracking, hist, parcel>>
      BY <2>15 DEF RecordFailure, Steps, Statuses, Scans
    <3> QED BY <3>1, <3>2
  <2>16. ASSUME NEW t \in Trackers, SelectLabel(t) PROVE TypeOK'
    BY <2>16 DEF SelectLabel, Steps, Statuses, Scans, OpenStatuses
  <2>17. ASSUME NEW t \in Trackers, AskCarrier(t) PROVE TypeOK'
    BY <2>17 DEF AskCarrier, Steps, Statuses, Scans
  <2>18. ASSUME NEW t \in Trackers, WriteTracking(t) PROVE TypeOK'
    BY <2>18 DEF WriteTracking, Steps, Statuses, Scans
  <2>19. ASSUME NEW t \in Trackers, WriteEvent(t) PROVE TypeOK'
    BY <2>19 DEF WriteEvent, Steps, Statuses, Scans
  <2>20. ASSUME NEW t \in Trackers, MoveOn(t) PROVE TypeOK'
    BY <2>20 DEF MoveOn, Steps, Statuses, Scans, OpenStatuses
  <2>21. ASSUME NEW p \in Procs, Crash(p) PROVE TypeOK'
    BY <2>21 DEF Crash, Steps, Statuses, Scans
  <2>22. CASE RecoverLabel
    BY <2>22 DEF RecoverLabel, Steps, Statuses, Scans, AdvanceToLabelSent
  <2>23. CASE Travel
    BY <2>23 DEF Travel, Steps, Statuses, Scans
  <2>24. CASE UNCHANGED vars
    BY <2>24 DEF vars, row, hist
  <2> QED
    BY <2>1, <2>2, <2>3, <2>4, <2>5, <2>6, <2>7, <2>8, <2>9, <2>10, <2>11, <2>12,
       <2>13, <2>14, <2>15, <2>16, <2>17, <2>18, <2>19, <2>20, <2>21, <2>22, <2>23, <2>24
    DEF Next, RequestStep, HandlerStep, TrackStep
<1> QED BY <1>1, <1>2, PTL DEF Spec

-----------------------------------------------------------------------------
\* A parcel that is back, a refund or a rejection is never undone by a label
\* that finishes late or a tracking answer acted on late, nor does a parcel in
\* transit go back to LABEL_SENT: each such write names the status it moves on
\* from, so one step shows it.
THEOREM StatusNeverBackwards == Spec => NeverBackwards
<1> DEFINE Forward == /\ status \in {"RECEIVED", "PROCESSED", "REJECTED"} => status' \notin OpenStatuses
                      /\ status = "IN_TRANSIT" => status' # "LABEL_SENT"
<1>1. [Next]_vars => [Forward]_vars
  <2> SUFFICES ASSUME [Next]_vars PROVE [Forward]_vars
    OBVIOUS
  <2> USE DEF row, hist, OpenStatuses
  <2>1. ASSUME NEW r \in Requests, ReadRequested(r) PROVE Forward
    BY <2>1 DEF ReadRequested
  <2>2. ASSUME NEW r \in Requests, Block(r) PROVE Forward
    BY <2>2 DEF Block
  <2>3. ASSUME NEW r \in Requests, Approve(r) PROVE Forward
    BY <2>3 DEF Approve
  <2>4. ASSUME NEW r \in Requests, Reject(r) PROVE Forward
    BY <2>4 DEF Reject
  <2>5. ASSUME NEW r \in Requests, RetryLabel(r) PROVE Forward
    BY <2>5 DEF RetryLabel
  <2>6. ASSUME NEW r \in Requests, ReadExpected(r) PROVE Forward
    BY <2>6 DEF ReadExpected
  <2>7. ASSUME NEW r \in Requests, ApprovedWithoutLabel(r) PROVE Forward
    BY <2>7 DEF ApprovedWithoutLabel
  <2>8. ASSUME NEW r \in Requests, MarkReceived(r) PROVE Forward
    BY <2>8 DEF MarkReceived
  <2>9. ASSUME NEW r \in Requests, ReadProcessable(r) PROVE Forward
    BY <2>9 DEF ReadProcessable
  <2>10. ASSUME NEW r \in Requests, ClaimRefund(r) PROVE Forward
    BY <2>10 DEF ClaimRefund
  <2>11. ASSUME NEW r \in Requests, Pay(r) PROVE Forward
    BY <2>11 DEF Pay
  <2>12. ASSUME NEW r \in Requests, LogApproval(r) PROVE Forward
    BY <2>12 DEF LogApproval
  <2>13. ASSUME NEW r \in Requests, BuyLabel(r) PROVE Forward
    BY <2>13 DEF BuyLabel
  <2>14. ASSUME NEW r \in Requests, CompleteLabel(r) PROVE Forward
    BY <2>14 DEF CompleteLabel, AdvanceToLabelSent
  <2>15. ASSUME NEW r \in Requests, RecordFailure(r) PROVE Forward
    BY <2>15 DEF RecordFailure
  <2>16. ASSUME NEW t \in Trackers, SelectLabel(t) PROVE Forward
    BY <2>16 DEF SelectLabel
  <2>17. ASSUME NEW t \in Trackers, AskCarrier(t) PROVE Forward
    BY <2>17 DEF AskCarrier
  <2>18. ASSUME NEW t \in Trackers, WriteTracking(t) PROVE Forward
    BY <2>18 DEF WriteTracking
  <2>19. ASSUME NEW t \in Trackers, WriteEvent(t) PROVE Forward
    BY <2>19 DEF WriteEvent
  <2>20. ASSUME NEW t \in Trackers, MoveOn(t) PROVE Forward
    BY <2>20 DEF MoveOn
  <2>21. ASSUME NEW p \in Procs, Crash(p) PROVE Forward
    BY <2>21 DEF Crash
  <2>22. CASE RecoverLabel
    BY <2>22 DEF RecoverLabel, AdvanceToLabelSent
  <2>23. CASE Travel
    BY <2>23 DEF Travel
  <2>24. CASE UNCHANGED vars
    BY <2>24 DEF vars, row, hist
  <2> QED
    BY <2>1, <2>2, <2>3, <2>4, <2>5, <2>6, <2>7, <2>8, <2>9, <2>10, <2>11, <2>12,
       <2>13, <2>14, <2>15, <2>16, <2>17, <2>18, <2>19, <2>20, <2>21, <2>22, <2>23, <2>24
    DEF Next, RequestStep, HandlerStep, TrackStep
<1> QED BY <1>1, PTL DEF Spec, NeverBackwards

-----------------------------------------------------------------------------
\* While the return is still on its way, every announcement of its parcel is
\* matched by a decision that reopened it; and only a return that was on its
\* way when it was read is marked received.
ReceivedInv ==
  /\ received <= 1 + overwrote
  /\ status \in {"REQUESTED", "APPROVED", "LABEL_SENT", "IN_TRANSIT"} => received <= overwrote
  /\ \A r \in Procs : pc[r] \in {"receiveCheck", "receive"} => snap[r] \in OpenStatuses \cup {"APPROVED"}

\* The merchant's click and the tracking jobs announce a parcel's return once,
\* unless a late decision has reopened the return.
THEOREM ParcelReceivedOnce == Spec => []ReceivedOnce
<1>1. Init => ReceivedInv
  BY DEF Init, ReceivedInv, OpenStatuses
<1>2. TypeOK /\ ReceivedInv /\ [Next]_vars => ReceivedInv'
  <2> SUFFICES ASSUME TypeOK, ReceivedInv, [Next]_vars PROVE ReceivedInv'
    OBVIOUS
  <2>0. Requests \subseteq Procs /\ Trackers \subseteq Procs
    BY DEF Procs
  <2> USE <2>0 DEF TypeOK, ReceivedInv, Goto, Return, Keep, row, hist, OpenStatuses, Statuses
  <2>1. ASSUME NEW r \in Requests, ReadRequested(r) PROVE ReceivedInv'
    BY <2>1 DEF ReadRequested
  <2>2. ASSUME NEW r \in Requests, Block(r) PROVE ReceivedInv'
    BY <2>2 DEF Block
  <2>3. ASSUME NEW r \in Requests, Approve(r) PROVE ReceivedInv'
    BY <2>3 DEF Approve, Overwrite
  <2>4. ASSUME NEW r \in Requests, Reject(r) PROVE ReceivedInv'
    BY <2>4 DEF Reject, Overwrite
  <2>5. ASSUME NEW r \in Requests, RetryLabel(r) PROVE ReceivedInv'
    BY <2>5 DEF RetryLabel
  <2>6. ASSUME NEW r \in Requests, ReadExpected(r) PROVE ReceivedInv'
    BY <2>6 DEF ReadExpected
  <2>7. ASSUME NEW r \in Requests, ApprovedWithoutLabel(r) PROVE ReceivedInv'
    BY <2>7 DEF ApprovedWithoutLabel
  <2>8. ASSUME NEW r \in Requests, MarkReceived(r) PROVE ReceivedInv'
    BY <2>8 DEF MarkReceived
  <2>9. ASSUME NEW r \in Requests, ReadProcessable(r) PROVE ReceivedInv'
    BY <2>9 DEF ReadProcessable
  <2>10. ASSUME NEW r \in Requests, ClaimRefund(r) PROVE ReceivedInv'
    BY <2>10 DEF ClaimRefund
  <2>11. ASSUME NEW r \in Requests, Pay(r) PROVE ReceivedInv'
    BY <2>11 DEF Pay
  <2>12. ASSUME NEW r \in Requests, LogApproval(r) PROVE ReceivedInv'
    BY <2>12 DEF LogApproval
  <2>13. ASSUME NEW r \in Requests, BuyLabel(r) PROVE ReceivedInv'
    BY <2>13 DEF BuyLabel
  <2>14. ASSUME NEW r \in Requests, CompleteLabel(r) PROVE ReceivedInv'
    BY <2>14 DEF CompleteLabel, AdvanceToLabelSent
  <2>15. ASSUME NEW r \in Requests, RecordFailure(r) PROVE ReceivedInv'
    BY <2>15 DEF RecordFailure
  <2>16. ASSUME NEW t \in Trackers, SelectLabel(t) PROVE ReceivedInv'
    BY <2>16 DEF SelectLabel
  <2>17. ASSUME NEW t \in Trackers, AskCarrier(t) PROVE ReceivedInv'
    BY <2>17 DEF AskCarrier
  <2>18. ASSUME NEW t \in Trackers, WriteTracking(t) PROVE ReceivedInv'
    BY <2>18 DEF WriteTracking
  <2>19. ASSUME NEW t \in Trackers, WriteEvent(t) PROVE ReceivedInv'
    BY <2>19 DEF WriteEvent
  <2>20. ASSUME NEW t \in Trackers, MoveOn(t) PROVE ReceivedInv'
    BY <2>20 DEF MoveOn
  <2>21. ASSUME NEW p \in Procs, Crash(p) PROVE ReceivedInv'
    BY <2>21 DEF Crash
  <2>22. CASE RecoverLabel
    BY <2>22 DEF RecoverLabel, AdvanceToLabelSent
  <2>23. CASE Travel
    BY <2>23 DEF Travel
  <2>24. CASE UNCHANGED vars
    BY <2>24 DEF vars, row, hist
  <2> QED
    BY <2>1, <2>2, <2>3, <2>4, <2>5, <2>6, <2>7, <2>8, <2>9, <2>10, <2>11, <2>12,
       <2>13, <2>14, <2>15, <2>16, <2>17, <2>18, <2>19, <2>20, <2>21, <2>22, <2>23, <2>24
    DEF Next, RequestStep, HandlerStep, TrackStep
<1>3. ReceivedInv => ReceivedOnce
  BY DEF ReceivedInv, ReceivedOnce
<1> QED BY <1>1, <1>2, <1>3, TypeCorrect, PTL DEF Spec

=============================================================================
