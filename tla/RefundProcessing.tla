--------------------------- MODULE RefundProcessing ---------------------------
(***************************************************************************)
(* Paying out ONE return: RefundService.processRefund, _processClaimed,    *)
(* _persist and the Shopify calls they make, with the draft order of       *)
(* ExchangeService.createExchange.                                         *)
(*                                                                         *)
(* Attempts are slots that run processRefund over and over (a click, a     *)
(* bulk action, the queue worker, in any server process).  The claim is    *)
(* Return.processedAt on an unprocessed row; it has no owner, goes stale   *)
(* after five minutes and anybody may then take it.  On Shopify's side a   *)
(* refund is found again by its note, and a repeated idempotency key       *)
(* returns the refund already made, for as long as Shopify remembers it.   *)
(*                                                                         *)
(* An order may have been paid in another currency than the shop's.        *)
(* Shopify is asked, and answers, in the customer's currency, and such an  *)
(* answer goes on file with its currency; a refund found by its note is    *)
(* read in the shop's currency and goes on file as a bare number.          *)
(***************************************************************************)
EXTENDS Naturals, Sequences

CONSTANTS
  Attempts,
  Kinds,         \* the resolutions to consider; "LOCAL" stands for no real order
  TotalValue,    \* what the customer paid for the returned items
  Rates,         \* what one unit of the customer's currency may be worth in the shop's
  Fee,           \* the return fee taken off a refund, in the shop's currency
  KeyLasts,      \* does Shopify remember the idempotency key while a call may use it?
  LateLanding,   \* may a refund land after its caller has given up on it?
  SlowAttempts,  \* may a live attempt outlast CLAIM_STALE_MS?
  MaxFaults      \* bound: faults of the environment in a behaviour

ASSUME MoneyAssumption  == TotalValue \in Nat /\ Fee \in Nat /\ Rates \subseteq Nat \ {0}
ASSUME KindsAssumption  == Kinds \subseteq {"REFUND", "STORE_CREDIT", "EXCHANGE", "LOCAL"}
ASSUME TimingAssumption == {KeyLasts, LateLanding, SlowAttempts} \subseteq BOOLEAN
ASSUME BoundAssumption  == MaxFaults \in Nat

VARIABLES
  pc,         \* where each slot is
  amt,        \* the amount each slot asked for, later the amount it will record
  got,        \* which of Shopify's refunds each slot is being answered with (0: none yet)
  kind,       \* the return's resolution
  rate,       \* the order's exchange rate: 1 in the shop's own currency
  status,     \* OPEN (some processable status) or PROCESSED
  claim,      \* processedAt of an open return: none, fresh or stale
  recorded,   \* refundAmount
  recordedIn, \* currency: the "shop"'s, or the "customer"'s
  attempted,  \* the amount of the latest refund.attempt event (0: none); only the
              \* event of a store credit is ever read, and kept here
  made,       \* what each refund that Shopify made for this return moved, oldest first
  known,      \* does Shopify know the key of the latest one?
  orphans,    \* amounts of requests still on their way, their callers gone
  drafts,     \* draft orders made for this return
  faults

shop == <<made, known, orphans, drafts>>
row  == <<kind, rate, status, recorded, recordedIn, attempted>>   \* all but the claim
db   == <<row, claim>>
vars == <<pc, amt, got, db, shop, faults>>

Steps == {"idle", "claim", "reconcile", "suggest", "announce", "send", "wait", "draft",
          "stamp", "record", "recordFound", "release"}

Amounts == 0..TotalValue   \* in the customer's currency

\* The items' value minus the fee, never below zero.
Owed(value) == IF value > Fee THEN value - Fee ELSE 0

Init ==
  /\ pc  = [a \in Attempts |-> "idle"]
  /\ amt = [a \in Attempts |-> 0]
  /\ got = [a \in Attempts |-> 0]
  /\ kind \in Kinds /\ rate \in Rates
  /\ status = "OPEN" /\ claim = "none"
  /\ recorded = 0 /\ recordedIn = "shop" /\ attempted = 0
  /\ made = <<>> /\ known = FALSE /\ orphans = {} /\ drafts = 0
  /\ faults = 0

Goto(a, step) == pc' = [pc EXCEPT ![a] = step]
Fault   == faults < MaxFaults /\ faults' = faults + 1
NoFault == UNCHANGED faults

\* The call throws, to release its claim, or ends; what it knew goes with it.
Leave(a, step) ==
  /\ Goto(a, step)
  /\ amt' = [amt EXCEPT ![a] = 0]
  /\ got' = [got EXCEPT ![a] = 0]

Throw(a)  == Leave(a, "release")
Return(a) == Leave(a, "idle")

-----------------------------------------------------------------------------
(* The claim.                                                              *)

\* Read the return; one that is processed already is refused.
Begin(a) ==
  /\ pc[a] = "idle"
  /\ status = "OPEN"
  /\ Goto(a, "claim")
  /\ UNCHANGED <<amt, got, db, shop, faults>>

\* Where an attempt that has the claim starts.
FirstStep == CASE kind = "LOCAL"    -> "recordFound"
               [] kind = "EXCHANGE" -> "draft"
               [] OTHER             -> "reconcile"

\* Mutant of Claim: a stale claim is not retaken.
ClaimOnlyFree(a) ==
  /\ pc[a] = "claim"
  /\ IF status = "OPEN" /\ claim = "none"
     THEN /\ claim' = "fresh"
          /\ Goto(a, FirstStep)
          /\ amt' = [amt EXCEPT ![a] = Owed(rate * TotalValue)]
          /\ UNCHANGED got
     ELSE Return(a) /\ UNCHANGED claim
  /\ UNCHANGED <<row, shop, faults>>

\* A conditional update: one attempt gets through, or one more after the
\* claim has gone stale.  What comes next depends on the resolution; a local
\* return or an exchange records the items' value in the shop's currency.
Claim(a) ==
  /\ pc[a] = "claim"
  /\ IF status = "OPEN" /\ claim # "fresh"
     THEN /\ claim' = "fresh"
          /\ Goto(a, FirstStep)
          /\ amt' = [amt EXCEPT ![a] = Owed(rate * TotalValue)]
          /\ UNCHANGED got
     ELSE Return(a) /\ UNCHANGED claim
  /\ UNCHANGED <<row, shop, faults>>

\* No token, a failed query, exchanges switched off, a failed event write:
\* the call throws before Shopify was asked to do anything.
Abort(a) ==
  /\ pc[a] \in {"reconcile", "suggest", "announce", "draft"}
  /\ Throw(a)
  /\ Fault
  /\ UNCHANGED <<db, shop>>

-----------------------------------------------------------------------------
(* A refund or a store credit.                                             *)

\* The amount reconciliation reports for a refund found at Shopify, read in the
\* shop's currency.  Store credit may not show in the refunded total: then the
\* latest refund.attempt stands in, a number of the customer's currency, and
\* without one the refund's own line items, whatever they are worth, minus the
\* fee.
FoundAmounts(moved) ==
  IF kind = "REFUND" THEN {rate * moved}
  ELSE ({rate * moved} \ {0})
         \cup (IF attempted > 0 THEN {attempted} ELSE {Owed(rate * lines) : lines \in Amounts})

\* Mutant of FindExisting: refunds are not looked for.
FindNothing(a) ==
  /\ pc[a] = "reconcile"
  /\ Goto(a, "suggest")
  /\ UNCHANGED <<amt, got, db, shop, faults>>

\* A refund of this return goes on file as it is: the first with its note, and
\* no other.  A money refund that moved nothing does not count as one.
FindExisting(a) ==
  /\ pc[a] = "reconcile"
  /\ IF made = <<>> \/ (kind = "REFUND" /\ made[1] = 0)
     THEN Goto(a, "suggest") /\ UNCHANGED amt
     ELSE /\ Goto(a, "recordFound")
          /\ \E x \in FoundAmounts(made[1]) : amt' = [amt EXCEPT ![a] = x]
  /\ UNCHANGED <<got, db, shop, faults>>

\* Shopify says what the items are worth now, in the customer's currency, and
\* how much the order can still refund: anything up to what was paid, for the
\* merchant may have refunded some of it.  The fee, a number of the shop's
\* currency, comes off the first; the second is a limit.
Suggest(a) ==
  /\ pc[a] = "suggest"
  /\ \E gross, limit \in Amounts :
       amt' = [amt EXCEPT ![a] = IF Owed(gross) < limit THEN Owed(gross) ELSE limit]
  /\ Goto(a, "announce")
  /\ UNCHANGED <<got, db, shop, faults>>

\* refund.attempt goes on the timeline before the call.
Announce(a) ==
  /\ pc[a] = "announce"
  /\ attempted' = IF kind = "STORE_CREDIT" THEN amt[a] ELSE attempted
  /\ Goto(a, "send")
  /\ UNCHANGED <<amt, got, kind, rate, status, claim, recorded, recordedIn, shop, faults>>

Send(a) ==
  /\ pc[a] = "send"
  /\ Goto(a, "wait")
  /\ UNCHANGED <<amt, got, db, shop, faults>>

\* Is a request of this attempt on its way?
Sent(a) == pc[a] = "wait" /\ got[a] = 0

\* No refundable payment, or userErrors: nothing happened at Shopify.
Refuse(a) ==
  /\ pc[a] \in {"send", "draft"} \/ Sent(a)
  /\ Throw(a)
  /\ UNCHANGED <<db, shop, faults>>

\* The key is the same for every attempt: a request that finds it in use is
\* answered with the refund already made.
Repeats == known

\* Shopify carries out a request for the amount x; nothing is assumed of its own
\* checks.  It may create a money refund and move nothing, which is rare enough
\* to count as a fault.
Execute(x) ==
  IF Repeats THEN UNCHANGED <<made, known, faults>>
  ELSE /\ known' = TRUE
       /\ \/ made' = Append(made, x) /\ NoFault
          \/ kind = "REFUND" /\ made' = Append(made, 0) /\ Fault

\* Is a refund on its way that an attempt has looked for already?
Asking == orphans # {} \/ \E a \in Attempts : pc[a] \in {"suggest", "announce", "send"} \/ Sent(a)

\* Shopify does not keep a key for good, but possibly for longer than any call.
KeyForgotten ==
  /\ known /\ known' = FALSE
  /\ KeyLasts => ~Asking
  /\ UNCHANGED <<pc, amt, got, db, made, orphans, drafts, faults>>

Land(a) ==
  /\ Sent(a)
  /\ Execute(amt[a])
  /\ got' = [got EXCEPT ![a] = Len(made')]
  /\ UNCHANGED <<pc, amt, db, orphans, drafts>>

LandOrphan ==
  /\ \E x \in orphans : Execute(x) /\ orphans' = orphans \ {x}
  /\ UNCHANGED <<pc, amt, got, db, drafts>>

\* Mutant of Answer: the amount asked for goes on file.
AnswerAsAsked(a) ==
  /\ pc[a] = "wait" /\ got[a] # 0
  /\ IF kind = "REFUND" /\ amt[a] > 0 /\ made[got[a]] = 0
     THEN Throw(a)
     ELSE Goto(a, "record") /\ UNCHANGED <<amt, got>>
  /\ UNCHANGED <<db, shop, faults>>

\* The answer: a money refund reports what Shopify moved, in the customer's
\* currency, and it is an error when that is nothing; a store credit reports the
\* amount that was asked.
Answer(a) ==
  /\ pc[a] = "wait" /\ got[a] # 0
  /\ LET moved == made[got[a]] IN
       IF kind = "REFUND" /\ amt[a] > 0 /\ moved = 0
       THEN Throw(a)
       ELSE /\ Goto(a, "record")
            /\ amt' = IF kind = "REFUND" THEN [amt EXCEPT ![a] = moved] ELSE amt
            /\ got' = [got EXCEPT ![a] = 0]
  /\ UNCHANGED <<db, shop, faults>>

\* Does a request that lost its caller still reach Shopify?
Orphaned(a) ==
  \/ UNCHANGED orphans
  \/ LateLanding /\ Sent(a) /\ orphans' = orphans \cup {amt[a]}

LoseAnswer(a) ==
  /\ pc[a] = "wait"
  /\ Orphaned(a)
  /\ Throw(a)
  /\ Fault
  /\ UNCHANGED <<db, made, known, drafts>>

-----------------------------------------------------------------------------
(* An exchange: draftOrderCreate has no idempotency key.                   *)

\* The draft is made; or it is made and the answer is lost.
Draft(a) ==
  /\ pc[a] = "draft"
  /\ drafts' = drafts + 1
  /\ \/ Goto(a, "stamp") /\ UNCHANGED <<amt, got>> /\ NoFault
     \/ Throw(a) /\ Fault
  /\ UNCHANGED <<db, made, known, orphans>>

\* The draft's id goes on the items; only then does the caller know.
Stamp(a) ==
  /\ pc[a] = "stamp"
  /\ \/ Goto(a, "record") /\ UNCHANGED <<amt, got>> /\ NoFault
     \/ Throw(a) /\ Fault
  /\ UNCHANGED <<db, shop>>

-----------------------------------------------------------------------------
(* The paperwork.                                                          *)

\* _persist: an unconditional write.  Only an answer of Shopify's comes with a
\* currency.  When the write fails after money moved, the claim is kept; after a
\* reconciliation or a local return it is released.
Record(a) ==
  /\ pc[a] \in {"record", "recordFound"}
  /\ \/ /\ status' = "PROCESSED" /\ recorded' = amt[a] /\ claim' = "fresh"
        /\ recordedIn' = IF pc[a] = "record" /\ kind # "EXCHANGE" THEN "customer" ELSE recordedIn
        /\ Return(a)
        /\ NoFault
     \/ /\ IF pc[a] = "record" THEN Return(a) ELSE Throw(a)
        /\ Fault
        /\ UNCHANGED <<status, recorded, recordedIn, claim>>
  /\ UNCHANGED <<kind, rate, attempted, shop>>

\* processedAt = null on an unprocessed return, whoever holds the claim; a
\* failed write is only logged.
Release(a) ==
  /\ pc[a] = "release"
  /\ \/ claim' = (IF status = "OPEN" THEN "none" ELSE claim) /\ NoFault
     \/ UNCHANGED claim /\ Fault
  /\ Return(a)
  /\ UNCHANGED <<row, shop>>

Crash(a) ==
  /\ pc[a] # "idle"
  /\ Orphaned(a)
  /\ Return(a)
  /\ Fault
  /\ UNCHANGED <<db, made, known, drafts>>

\* Five minutes pass on the claim (CLAIM_STALE_MS).
ClaimGoesStale ==
  /\ status = "OPEN" /\ claim = "fresh"
  /\ SlowAttempts \/ \A a \in Attempts : pc[a] \in {"idle", "claim"}
  /\ claim' = "stale"
  /\ UNCHANGED <<pc, amt, got, row, shop, faults>>

RefundStep(a) ==
  \/ Claim(a) \/ Abort(a) \/ FindExisting(a) \/ Suggest(a) \/ Announce(a) \/ Send(a)
  \/ Refuse(a) \/ Land(a) \/ Answer(a) \/ LoseAnswer(a) \/ Draft(a) \/ Stamp(a)
  \/ Record(a) \/ Release(a)

Next ==
  \/ \E a \in Attempts : Begin(a) \/ RefundStep(a) \/ Crash(a)
  \/ LandOrphan \/ KeyForgotten \/ ClaimGoesStale

Spec == Init /\ [][Next]_vars

\* Code that runs goes on running, time passes, and somebody keeps asking for
\* the refund: nothing in the system retries one by itself.
FairSpec ==
  /\ Spec
  /\ \A a \in Attempts : WF_vars(RefundStep(a)) /\ WF_vars(Begin(a))
  /\ WF_vars(ClaimGoesStale)

-----------------------------------------------------------------------------
(* Properties.                                                             *)

\* Slots, claim, amounts and Shopify's books keep their shape; Shopify is never
\* asked for more than the items were worth.
TypeOK ==
  /\ pc \in [Attempts -> Steps]
  /\ amt \in [Attempts -> Nat]
  /\ \A a \in Attempts : pc[a] \in {"announce", "send", "wait"} => amt[a] \in Amounts
  /\ got \in [Attempts -> Nat] /\ \A a \in Attempts : got[a] <= Len(made)
  /\ kind \in Kinds /\ rate \in Rates
  /\ status \in {"OPEN", "PROCESSED"} /\ claim \in {"none", "fresh", "stale"}
  /\ recorded \in Nat /\ recordedIn \in {"shop", "customer"} /\ attempted \in Amounts
  /\ made \in Seq(Amounts) /\ known \in BOOLEAN /\ orphans \subseteq Amounts
  /\ drafts \in Nat /\ faults \in 0..MaxFaults

\* "A retaken claim is still safe: ... a refund that already went through is
\* found, never repeated": at most one refund of the return moves money, though
\* Shopify forgets the key.  The exception is the code's own: it looks at the
\* first refund with the return's note, and when that one moved nothing, a later
\* one that did is not found.
MovedOnce ==
  \A i, j \in DOMAIN made :
    made[i] > 0 /\ made[j] > 0 => i = j \/ (kind = "REFUND" /\ made[1] = 0)

\* A return marked processed was paid out: Shopify has the refund, or the
\* draft order of the exchange.
ProcessedIsPaid ==
  status = "PROCESSED" =>
    /\ kind \in {"REFUND", "STORE_CREDIT"} => made # <<>>
    /\ kind = "EXCHANGE" => drafts > 0

\* What an amount is worth in the shop's currency.
Value(amount, currency) == IF currency = "customer" THEN rate * amount ELSE amount

\* "The amount Shopify actually refunded, not the amount we asked for": of a
\* processed money refund the record shows what a refund moved, in the currency
\* it names; or, if the order was paid in another currency than the shop's, the
\* shop's number under the customer's currency, when a call that reconciled was
\* overtaken by one that had Shopify's answer.
RecordedIsMoved ==
  status = "PROCESSED" /\ kind = "REFUND" =>
    \E i \in DOMAIN made :
      \/ Value(recorded, recordedIn) = rate * made[i]
      \/ rate # 1 /\ recordedIn = "customer" /\ recorded = rate * made[i]

\* What the customer got, in the shop's currency: the refunds made or, in an
\* exchange, a draft order, which moves no money however often it is made.
Payouts == IF kind = "EXCHANGE" THEN (IF drafts = 0 THEN <<>> ELSE <<0>>)
           ELSE [i \in DOMAIN made |-> rate * made[i]]

\* processRefund keeps the promise of OnePayout.
Promise == INSTANCE OnePayout WITH
  payments <- Payouts,
  foreign  <- rate # 1,
  filed    <- status = "PROCESSED",
  onFile   <- Value(recorded, recordedIn)

\* However attempts overlap, crash, repeat or land late, the return is paid
\* out once, then processed, and the record of a money refund shows what moved.
PaysOutOnce == Promise!Spec

\* If somebody keeps asking, money that moved ends up on file: the claim of a
\* crashed or failed attempt never blocks the paperwork for good.  (Money that
\* moved after a refund that moved none is not found, and may never be filed.)
EventuallyRecorded ==
  (made # <<>> /\ made[1] > 0) ~> status = "PROCESSED"
=============================================================================
