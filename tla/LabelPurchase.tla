---------------------------- MODULE LabelPurchase ----------------------------
(***************************************************************************)
(* Buying the carrier label of ONE return: LabelService.generateLabel,     *)
(* _reconcilePurchase and _finishLabel, with Shippo's findLabel.           *)
(*                                                                         *)
(* Each element of Attempts is one call of generateLabel (approval         *)
(* handler, merchant's retry, queue worker or recovery job, in any server  *)
(* process).  Calls interleave at every await, and any of them may crash.  *)
(* The ReturnLabel row is the lock (returnId is unique); an attempt makes  *)
(* at most one row and sends at most one purchase, so both are named by    *)
(* the attempt.  What follows a saved label is module LabelCompletion.     *)
(***************************************************************************)
EXTENDS Naturals

CONSTANTS
  Attempts,      \* the calls of generateLabel for this return
  Carriers,      \* carriers the shop has active at one time or another
  Searchable,    \* those whose adapter has findLabel (Shippo)
  SlowAttempts,  \* may a live attempt outlast LOCK_STALE_MS?
  LateLanding,   \* may a purchase land after its caller has given up on it?
  None           \* no row, no attempt

ASSUME CarriersAssumption == Searchable \subseteq Carriers
ASSUME TimingAssumption   == SlowAttempts \in BOOLEAN /\ LateLanding \in BOOLEAN

VARIABLES
  pc,       \* where each attempt is in generateLabel
  carrier,  \* the adapter each attempt was built with
  target,   \* the row id each attempt works on (its maker's name)
  row,      \* the ReturnLabel row: None, or [maker, status, stale]
  tx        \* the purchase of each attempt, as the carrier has it

vars == <<pc, carrier, target, row, tx>>

\* "idle" before the call and "done" after it (returned, thrown or crashed).
Steps == {"idle", "reconcile", "evict", "take", "mark", "call", "wait",
          "askRefused", "askUnknown", "release", "save", "complete", "done"}

RowStatus == {"pending", "buying", "saved", "created"}

LockRow == [maker : Attempts, status : RowStatus, stale : BOOLEAN]

ASSUME NoneAssumption == None \notin Attempts \cup LockRow

\* "inflight": sent, not yet on the carrier's books.  "queued": accepted,
\* outcome open (QUEUED/WAITING).  "error"/"success": final.
TxState == {"none", "inflight", "queued", "error", "success"}

Init ==
  /\ pc      = [a \in Attempts |-> "idle"]
  /\ carrier \in [Attempts -> Carriers]
  /\ target  = [a \in Attempts |-> None]
  /\ row     = None
  /\ tx      = [a \in Attempts |-> "none"]

Goto(a, step) == pc' = [pc EXCEPT ![a] = step]

\* Is the row a still there under the id m?
Holds(m) == row # None /\ row.maker = m

-----------------------------------------------------------------------------
(* The call up to the purchase.                                            *)

\* Read the return with its label and act on the row's status and age.  No
\* label source, or no such return, ends the call here too.
Begin(a) ==
  /\ pc[a] = "idle"
  /\ \/ Goto(a, "done") /\ UNCHANGED target
     \/ row = None /\ Goto(a, "take") /\ UNCHANGED target
     \/ /\ row # None
        /\ target' = [target EXCEPT ![a] = row.maker]
        /\ \/ row.status = "created" /\ Goto(a, "done")
           \/ row.status = "saved"   /\ Goto(a, "complete")
           \/ row.status \in {"pending", "buying"} /\ ~row.stale /\ Goto(a, "done")
           \/ row.status = "pending" /\ row.stale /\ Goto(a, "evict")
           \/ row.status = "buying"  /\ row.stale /\ Goto(a, "reconcile")
  /\ UNCHANGED <<carrier, row, tx>>

\* What _reconcilePurchase can answer.  "unknown" (null) is always possible:
\* the adapter has no findLabel, the list call failed, a match is still
\* queued, or not every page could be read.  "failed" needs every matching
\* transaction ON THE CARRIER'S BOOKS to have ended in ERROR.
OnFile(a) == {tx[b] : b \in {c \in Attempts : carrier[c] = carrier[a]}}

\* Mutant of FindLabel: an ERROR on file is taken as a refusal although
\* another transaction of the return is still queued.
FindLabelHasty(a) ==
  {"unknown"} \cup
  {found \in {"found", "failed"} :
     /\ carrier[a] \in Searchable
     /\ IF found = "found" THEN "success" \in OnFile(a)
        ELSE "error" \in OnFile(a) /\ "success" \notin OnFile(a)}

FindLabel(a) ==
  {"unknown"} \cup
  {found \in {"found", "failed"} :
     /\ carrier[a] \in Searchable
     /\ IF found = "found" THEN "success" \in OnFile(a)
        ELSE "error" \in OnFile(a) /\ OnFile(a) \cap {"success", "queued"} = {}}

\* A stale 'buying' row may have bought postage: ask before buying again.
Reconcile(a) ==
  /\ pc[a] = "reconcile"
  /\ \E answer \in FindLabel(a) :
       Goto(a, CASE answer = "found"   -> "save"
                 [] answer = "failed"  -> "evict"
                 [] answer = "unknown" -> "done")
  /\ UNCHANGED <<carrier, target, row, tx>>

\* Mutant of Evict: delete by return, whichever row is there by now.
EvictByReturn(a) ==
  /\ pc[a] = "evict"
  /\ row' = None /\ Goto(a, "take")
  /\ UNCHANGED <<carrier, target, tx>>

\* Delete the row that was read, by id; it throws when that row is gone.
Evict(a) ==
  /\ pc[a] = "evict"
  /\ IF Holds(target[a])
     THEN row' = None /\ Goto(a, "take")
     ELSE UNCHANGED row /\ Goto(a, "done")
  /\ UNCHANGED <<carrier, target, tx>>

\* Create the lock row: the unique returnId lets one attempt through.  A
\* managed label that cannot be billed, a missing address or a failed write
\* ends the call before any row exists.
Take(a) ==
  /\ pc[a] = "take"
  /\ \/ /\ row = None
        /\ row'    = [maker |-> a, status |-> "pending", stale |-> FALSE]
        /\ target' = [target EXCEPT ![a] = a]
        /\ Goto(a, "mark")
     \/ Goto(a, "done") /\ UNCHANGED <<row, target>>
  /\ UNCHANGED <<carrier, tx>>

\* Mutant of MarkBuying: the carrier is called with the row still 'pending'.
MarkNothing(a) ==
  /\ pc[a] = "mark"
  /\ Goto(a, "call")
  /\ UNCHANGED <<carrier, target, row, tx>>

\* Say on the row that a purchase may happen; a failed write, or a row that
\* is gone, sends the attempt to the release in its catch block.
MarkBuying(a) ==
  /\ pc[a] = "mark"
  /\ \/ Holds(a) /\ row' = [row EXCEPT !.status = "buying"] /\ Goto(a, "call")
     \/ UNCHANGED row /\ Goto(a, "release")
  /\ UNCHANGED <<carrier, target, tx>>

-----------------------------------------------------------------------------
(* The purchase, and the carrier's side of it.                             *)

\* The carrier says no before the purchase (shipment refused, no rates,
\* 4xx: a definite error), or the request before it is lost (not definite).
FailBeforePurchase(a) ==
  /\ pc[a] = "call"
  /\ \E step \in {"askRefused", "askUnknown"} : Goto(a, step)
  /\ UNCHANGED <<carrier, target, row, tx>>

SendPurchase(a) ==
  /\ pc[a] = "call"
  /\ tx' = [tx EXCEPT ![a] = "inflight"]
  /\ Goto(a, "wait")
  /\ UNCHANGED <<carrier, target, row>>

\* The carrier books the purchase, at once or as a queued transaction.
CarrierBooks(a) ==
  /\ \/ tx[a] = "inflight" /\ \E s \in {"queued", "error", "success"} : tx' = [tx EXCEPT ![a] = s]
     \/ tx[a] = "queued"   /\ \E s \in {"error", "success"} : tx' = [tx EXCEPT ![a] = s]
  /\ UNCHANGED <<pc, carrier, target, row>>

\* The answer arrives: a label, a definite error, or still queued after the
\* last poll (not definite).
Answer(a) ==
  /\ pc[a] = "wait"
  /\ \/ tx[a] = "success" /\ Goto(a, "save")
     \/ tx[a] = "error"   /\ Goto(a, "askRefused")
     \/ tx[a] = "queued"  /\ Goto(a, "askUnknown")
  /\ UNCHANGED <<carrier, target, row, tx>>

\* Timeout, connection reset or 5xx: the attempt does not learn the outcome.
LoseAnswer(a) ==
  /\ pc[a] = "wait"
  /\ tx[a] = "inflight" => LateLanding
  /\ Goto(a, "askUnknown")
  /\ UNCHANGED <<carrier, target, row, tx>>

\* Mutant of AskCarrier: any carrier error that finds no label releases the lock.
AskCarrierHasty(a) ==
  /\ pc[a] \in {"askRefused", "askUnknown"}
  /\ \E answer \in FindLabel(a) : Goto(a, IF answer = "found" THEN "save" ELSE "release")
  /\ UNCHANGED <<carrier, target, row, tx>>

\* After any carrier error the carrier is asked first: a label it knows of
\* is used; a refusal (the error's or the carrier's) releases the lock; an
\* unknown outcome keeps the row 'buying' for a later reconciliation.
AskCarrier(a) ==
  /\ pc[a] \in {"askRefused", "askUnknown"}
  /\ \E answer \in FindLabel(a) :
       Goto(a, CASE answer = "found" -> "save"
                 [] answer = "failed" \/ (answer = "unknown" /\ pc[a] = "askRefused") -> "release"
                 [] OTHER -> "done")
  /\ UNCHANGED <<carrier, target, row, tx>>

-----------------------------------------------------------------------------
(* After the purchase.                                                     *)

\* Mutant of Release: the row is kept under a status of its own.
ReleaseAsFailed(a) ==
  /\ pc[a] = "release"
  /\ Goto(a, "done")
  /\ Holds(a) /\ row' = [row EXCEPT !.status = "failed"]
  /\ UNCHANGED <<carrier, target, tx>>

\* Nothing was bought: delete the lock row (a failed delete is only logged).
Release(a) ==
  /\ pc[a] = "release"
  /\ Goto(a, "done")
  /\ \/ Holds(a) /\ row' = None
     \/ UNCHANGED row
  /\ UNCHANGED <<carrier, target, tx>>

\* _finishLabel saves the bought label on the row; when the write keeps
\* failing, or the row is gone, the call throws and the row stays as it is.
SaveLabel(a) ==
  /\ pc[a] = "save"
  /\ \/ /\ Holds(target[a])
        /\ row' = [row EXCEPT !.status = "saved"]
        /\ Goto(a, "complete")
     \/ UNCHANGED row /\ Goto(a, "done")
  /\ UNCHANGED <<carrier, target, tx>>

\* _completeLabel, seen from the row: it ends 'created', or stays as it is.
CompleteLabel(a) ==
  /\ pc[a] = "complete"
  /\ Goto(a, "done")
  /\ \/ Holds(target[a]) /\ row' = [row EXCEPT !.status = "created"]
     \/ UNCHANGED row
  /\ UNCHANGED <<carrier, target, tx>>

\* The process dies: what it wrote stays, what it knew is lost.
Crash(a) ==
  /\ pc[a] \notin {"idle", "done"}
  /\ Goto(a, "done")
  /\ UNCHANGED <<carrier, target, row, tx>>

\* Ten minutes pass on the lock row (LOCK_STALE_MS).
GoStale ==
  /\ row # None
  /\ row.status \in {"pending", "buying"}
  /\ ~row.stale
  /\ pc[row.maker] # "done" => SlowAttempts
  /\ (\E a \in Attempts : tx[a] = "inflight") => LateLanding
  /\ row' = [row EXCEPT !.stale = TRUE]
  /\ UNCHANGED <<pc, carrier, target, tx>>

Next ==
  \/ GoStale
  \/ \E a \in Attempts :
       \/ Begin(a) \/ Reconcile(a) \/ Evict(a) \/ Take(a) \/ MarkBuying(a)
       \/ FailBeforePurchase(a) \/ SendPurchase(a) \/ CarrierBooks(a)
       \/ Answer(a) \/ LoseAnswer(a) \/ AskCarrier(a)
       \/ Release(a) \/ SaveLabel(a) \/ CompleteLabel(a) \/ Crash(a)

Spec == Init /\ [][Next]_vars

-----------------------------------------------------------------------------
(* Properties.                                                             *)

\* The state of the attempts, the row and the carrier's books has the shape
\* the code gives it; an attempt holds a row id only once it has read or
\* made a row.
TypeOK ==
  /\ pc \in [Attempts -> Steps]
  /\ carrier \in [Attempts -> Carriers]
  /\ target \in [Attempts -> Attempts \cup {None}]
  /\ row \in LockRow \cup {None}
  /\ tx \in [Attempts -> TxState]

\* A purchase that has not been refused for good.
Live == {"inflight", "queued", "success"}

\* "nothing is bought twice" (generateLabel's lock): over all attempts,
\* crashes and retries, at most one purchase is open or has succeeded.
OneLivePurchase ==
  \A a, b \in Attempts : tx[a] \in Live /\ tx[b] \in Live => a = b

\* "never a lost purchase that gets bought again": while a purchase is open
\* or has succeeded there is a row, and it says more than 'pending', so any
\* later attempt asks the carrier or finds the saved label.
PurchaseKeepsRow ==
  (\E a \in Attempts : tx[a] \in Live) => row # None /\ row.status # "pending"

OnFileStatus == {"saved", "created"}

\* A bought label, once saved, is never deleted or replaced by another row,
\* whatever stale snapshot an attempt acts on.
SavedForGood ==
  [][row # None /\ row.status \in OnFileStatus
       => row' # None /\ row'.status \in OnFileStatus /\ row'.maker = row.maker]_vars

\* generateLabel implements the promise of OneLabel.
Promise == INSTANCE OneLabel WITH
  Purchases <- Attempts,
  bought    <- {a \in Attempts : tx[a] = "success"},
  filed     <- row # None /\ row.status \in OnFileStatus

KeepsPromise == Promise!Spec

=============================================================================
