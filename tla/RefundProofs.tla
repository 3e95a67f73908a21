---------------------------- MODULE RefundProofs ----------------------------
(***************************************************************************)
(* Proofs about RefundProcessing, for any attempts, amounts, exchange      *)
(* rates, timing and number of faults: a processed return was paid out and *)
(* the record of a money refund shows what a refund moved; and, if the     *)
(* idempotency key outlasts the calls that use it, the money moves once.   *)
(* Up to three payments take exactly what is sent to them.                 *)
(***************************************************************************)
EXTENDS RefundSplit, TLAPS

USE MoneyAssumption, KindsAssumption, TimingAssumption, BoundAssumption

Money == {"REFUND", "STORE_CREDIT"}

-----------------------------------------------------------------------------
(* Types.                                                                  *)

\* What is owed for items worth no more than at the start is an amount.
LEMMA OwedIsAmount ==
  /\ \A x \in Amounts : Owed(x) \in Amounts
  /\ \A x \in Nat : Owed(x) \in Nat
BY DEF Owed, Amounts

\* Values in the shop's currency are numbers.
LEMMA RatesMultiply ==
  ASSUME rate \in Rates
  PROVE  /\ rate \in Nat \ {0}
         /\ \A x \in Nat : rate * x \in Nat
         /\ \A x \in Amounts : x \in Nat /\ rate * x \in Nat
BY DEF Amounts

\* A request is answered with the latest refund, or makes one more.
LEMMA ExecuteMakes ==
  ASSUME made \in Seq(Amounts), faults \in 0..MaxFaults, known \in BOOLEAN,
         NEW x \in Amounts, Execute(x)
  PROVE  /\ faults' \in 0..MaxFaults /\ known' = TRUE /\ made' \in Seq(Amounts)
         /\ \/ known /\ made' = made
            \/ ~known /\ \E y \in Amounts : made' = Append(made, y)
<1>1. CASE known
  BY <1>1 DEF Execute, Repeats
<1>2. CASE ~known
  <2>1. \E y \in Amounts : made' = Append(made, y)
    BY <1>2 DEF Execute, Repeats, Amounts
  <2>2. faults' \in 0..MaxFaults /\ known' = TRUE
    BY <1>2 DEF Execute, Repeats, NoFault, Fault
  <2> QED BY <1>2, <2>1, <2>2
<1> QED BY <1>1, <1>2

\* The slots' part of the type invariant.
SlotsTyped ==
  /\ pc \in [Attempts -> Steps] /\ amt \in [Attempts -> Nat]
  /\ \A a \in Attempts : pc[a] \in {"announce", "send", "wait"} => amt[a] \in Amounts
  /\ got \in [Attempts -> Nat]
  /\ \A a \in Attempts : got[a] <= Len(made)

\* A slot that moves on without touching its amounts keeps them well typed, if
\* it is not sending one it has not worked out.
LEMMA GotoTyped ==
  ASSUME SlotsTyped, NEW a \in Attempts, NEW step \in Steps, Goto(a, step), UNCHANGED <<amt, got, made>>,
         step \in {"announce", "send", "wait"} => pc[a] \in {"announce", "send", "wait"}
  PROVE  SlotsTyped'
BY DEF Goto, SlotsTyped

\* So does one that takes a new amount and is not sending it yet, ...
LEMMA TakesTyped ==
  ASSUME SlotsTyped, NEW a \in Attempts, NEW step \in Steps, Goto(a, step), UNCHANGED <<got, made>>,
         NEW x \in Nat, amt' = [amt EXCEPT ![a] = x],
         step \in {"announce", "send", "wait"} => x \in Amounts
  PROVE  SlotsTyped'
BY DEF Goto, SlotsTyped

\* ... and a call that throws or ends.
LEMMA LeaveTyped ==
  ASSUME SlotsTyped, NEW a \in Attempts, Throw(a) \/ Return(a), UNCHANGED made, Len(made) \in Nat
  PROVE  SlotsTyped'
<1>1. PICK step \in {"release", "idle"} : Leave(a, step)
  BY DEF Throw, Return
<1> QED BY <1>1 DEF Leave, Goto, SlotsTyped, Steps

\* The rest of the type invariant.
BooksTyped ==
  /\ kind \in Kinds /\ rate \in Rates
  /\ status \in {"OPEN", "PROCESSED"} /\ claim \in {"none", "fresh", "stale"}
  /\ recorded \in Nat /\ recordedIn \in {"shop", "customer"} /\ attempted \in Amounts
  /\ made \in Seq(Amounts) /\ known \in BOOLEAN /\ orphans \subseteq Amounts
  /\ drafts \in Nat /\ faults \in 0..MaxFaults

\* Slots, amounts, claim and Shopify's books keep their types.
THEOREM TypeCorrect == Spec => []TypeOK
<1>0. TypeOK <=> SlotsTyped /\ BooksTyped
  BY DEF TypeOK, SlotsTyped, BooksTyped
<1>1. Init => TypeOK
  <2>1. Init => SlotsTyped
    BY DEF Init, SlotsTyped, Steps
  <2>2. ASSUME Init PROVE BooksTyped
    <3>1. known \in BOOLEAN /\ orphans \subseteq Amounts
      BY <2>2 DEF Init
    <3>2. made \in Seq(Amounts) /\ attempted \in Amounts /\ faults \in 0..MaxFaults
      BY <2>2 DEF Init, Amounts
    <3> QED BY <2>2, <3>1, <3>2 DEF Init, BooksTyped
  <2> QED BY <1>0, <2>1, <2>2
<1>2. ASSUME SlotsTyped, BooksTyped, [Next]_vars PROVE SlotsTyped' /\ BooksTyped'
  <2> USE <1>2
  <2>0. /\ pc \in [Attempts -> Steps] /\ amt \in [Attempts -> Nat] /\ got \in [Attempts -> Nat]
        /\ made \in Seq(Amounts) /\ Len(made) \in Nat
        /\ faults \in 0..MaxFaults /\ orphans \subseteq Amounts /\ known \in BOOLEAN
        /\ kind \in Kinds /\ rate \in Rates /\ TotalValue \in Amounts
    BY DEF SlotsTyped, BooksTyped, Amounts
  <2>1. ASSUME NEW a \in Attempts, Begin(a) PROVE SlotsTyped' /\ BooksTyped'
    <3>1. SlotsTyped'
      BY <2>0, <2>1, GotoTyped DEF Begin, Steps, shop
    <3>2. BooksTyped'
      BY <2>0, <2>1 DEF Begin, BooksTyped, db, row, shop
    <3> QED BY <3>1, <3>2
  <2>2. ASSUME NEW a \in Attempts, Claim(a) PROVE SlotsTyped' /\ BooksTyped'
    <3>1. ASSUME status = "OPEN" /\ claim # "fresh" PROVE SlotsTyped'
      <4>1. Owed(rate * TotalValue) \in Nat
        BY <2>0, OwedIsAmount, RatesMultiply
      <4>2. FirstStep \in {"recordFound", "draft", "reconcile"}
        BY DEF FirstStep
      <4> QED BY <2>0, <2>2, <3>1, <4>1, <4>2, TakesTyped DEF Claim, Steps, shop
    <3>2. ASSUME ~(status = "OPEN" /\ claim # "fresh") PROVE SlotsTyped'
      BY <2>0, <2>2, <3>2, LeaveTyped DEF Claim, shop
    <3>3. BooksTyped'
      BY <2>0, <2>2 DEF Claim, BooksTyped, row, shop
    <3> QED BY <3>1, <3>2, <3>3
  <2>3. ASSUME NEW a \in Attempts, Abort(a) PROVE SlotsTyped' /\ BooksTyped'
    <3>1. SlotsTyped'
      BY <2>0, <2>3, LeaveTyped DEF Abort, shop
    <3>2. BooksTyped'
      BY <2>0, <2>3 DEF Abort, BooksTyped, db, row, shop, Fault, NoFault
    <3> QED BY <3>1, <3>2
  <2>4. ASSUME NEW a \in Attempts, FindExisting(a) PROVE SlotsTyped' /\ BooksTyped'
    <3>1. ASSUME made = <<>> \/ (kind = "REFUND" /\ made[1] = 0) PROVE SlotsTyped'
      BY <2>0, <2>4, <3>1, GotoTyped DEF FindExisting, Steps, shop
    <3>2. ASSUME ~(made = <<>> \/ (kind = "REFUND" /\ made[1] = 0)) PROVE SlotsTyped'
      <4>1. made[1] \in Amounts
        BY <2>0, <3>2
      <4>2. attempted \in Amounts
        BY DEF BooksTyped
      <4>3. FoundAmounts(made[1]) \subseteq Nat
        BY <2>0, <4>1, <4>2, RatesMultiply, OwedIsAmount DEF FoundAmounts
      <4> QED BY <2>0, <2>4, <3>2, <4>3, TakesTyped DEF FindExisting, Steps, shop
    <3>3. BooksTyped'
      BY <2>0, <2>4 DEF FindExisting, BooksTyped, db, row, shop
    <3> QED BY <3>1, <3>2, <3>3
  <2>5. ASSUME NEW a \in Attempts, Suggest(a) PROVE SlotsTyped' /\ BooksTyped'
    <3>1. PICK x \in Amounts : amt' = [amt EXCEPT ![a] = x]
      BY <2>5, OwedIsAmount DEF Suggest
    <3>2. x \in Nat
      BY DEF Amounts
    <3>3. SlotsTyped'
      BY <2>0, <2>5, <3>1, <3>2, TakesTyped DEF Suggest, Steps, shop
    <3>4. BooksTyped'
      BY <2>0, <2>5 DEF Suggest, BooksTyped, db, row, shop
    <3> QED BY <3>3, <3>4
  <2>6. ASSUME NEW a \in Attempts, Announce(a) PROVE SlotsTyped' /\ BooksTyped'
    <3>1. SlotsTyped'
      BY <2>0, <2>6, GotoTyped DEF Announce, Steps, shop
    <3>2. amt[a] \in Amounts
      BY <2>6 DEF Announce, SlotsTyped
    <3>3. BooksTyped'
      BY <2>0, <2>6, <3>2 DEF Announce, BooksTyped, shop
    <3> QED BY <3>1, <3>3
  <2>7. ASSUME NEW a \in Attempts, Send(a) PROVE SlotsTyped' /\ BooksTyped'
    <3>1. SlotsTyped'
      BY <2>0, <2>7, GotoTyped DEF Send, Steps, shop
    <3>2. BooksTyped'
      BY <2>0, <2>7 DEF Send, BooksTyped, db, row, shop
    <3> QED BY <3>1, <3>2
  <2>8. ASSUME NEW a \in Attempts, Refuse(a) PROVE SlotsTyped' /\ BooksTyped'
    <3>1. SlotsTyped'
      BY <2>0, <2>8, LeaveTyped DEF Refuse, shop
    <3>2. BooksTyped'
      BY <2>0, <2>8 DEF Refuse, BooksTyped, db, row, shop, Fault, NoFault
    <3> QED BY <3>1, <3>2
  <2>9. ASSUME NEW a \in Attempts, Land(a) PROVE SlotsTyped' /\ BooksTyped'
    <3>1. amt[a] \in Amounts /\ Execute(amt[a])
      BY <2>0, <2>9 DEF Land, Sent, SlotsTyped
    <3>2. /\ made' \in Seq(Amounts) /\ faults' \in 0..MaxFaults /\ known' = TRUE
          /\ made' = made \/ \E y \in Amounts : made' = Append(made, y)
      BY <2>0, <3>1, ExecuteMakes
    <3>3. Len(made') \in Nat /\ Len(made') >= Len(made)
      BY <2>0, <3>2
    <3>4. SlotsTyped'
      BY <2>0, <2>9, <3>3 DEF Land, SlotsTyped
    <3>5. BooksTyped'
      BY <2>0, <2>9, <3>2 DEF Land, BooksTyped, db, row
    <3> QED BY <3>4, <3>5
  <2>10. ASSUME NEW a \in Attempts, Answer(a) PROVE SlotsTyped' /\ BooksTyped'
    <3>1. got[a] \in 1..Len(made)
      BY <2>0, <2>10 DEF Answer, SlotsTyped
    <3>2. made[got[a]] \in Nat
      BY <2>0, <3>1 DEF Amounts
    <3>3. ASSUME kind = "REFUND" /\ amt[a] > 0 /\ made[got[a]] = 0 PROVE SlotsTyped'
      BY <2>0, <2>10, <3>3, LeaveTyped DEF Answer, shop
    <3>4. ASSUME ~(kind = "REFUND" /\ amt[a] > 0 /\ made[got[a]] = 0) PROVE SlotsTyped'
      <4>1. /\ pc' = [pc EXCEPT ![a] = "record"] /\ got' = [got EXCEPT ![a] = 0] /\ made' = made
            /\ amt' = [amt EXCEPT ![a] = made[got[a]]] \/ amt' = amt
        BY <2>10, <3>4 DEF Answer, Goto, shop
      <4>2. amt' \in [Attempts -> Nat] /\ pc' \in [Attempts -> Steps]
        BY <2>0, <3>2, <4>1 DEF Steps
      <4>3. \A b \in Attempts : pc'[b] \in {"announce", "send", "wait"} => amt'[b] = amt[b] /\ pc'[b] = pc[b]
        BY <2>0, <4>1
      <4> QED BY <2>0, <4>1, <4>2, <4>3 DEF SlotsTyped
    <3>5. BooksTyped'
      BY <2>0, <2>10 DEF Answer, BooksTyped, db, row, shop
    <3> QED BY <3>3, <3>4, <3>5
  <2>11. ASSUME NEW a \in Attempts, LoseAnswer(a) PROVE SlotsTyped' /\ BooksTyped'
    <3>1. SlotsTyped'
      BY <2>0, <2>11, LeaveTyped DEF LoseAnswer
    <3>2. orphans' \subseteq Amounts
      BY <2>0, <2>11 DEF LoseAnswer, Orphaned, Sent, SlotsTyped
    <3>3. BooksTyped'
      BY <2>0, <2>11, <3>2 DEF LoseAnswer, BooksTyped, db, row, Fault
    <3> QED BY <3>1, <3>3
  <2>12. ASSUME NEW a \in Attempts, Draft(a) PROVE SlotsTyped' /\ BooksTyped'
    <3>1. SlotsTyped'
      BY <2>0, <2>12, GotoTyped, LeaveTyped DEF Draft, Steps, shop
    <3>2. BooksTyped'
      BY <2>0, <2>12 DEF Draft, BooksTyped, db, row, shop, Fault, NoFault
    <3> QED BY <3>1, <3>2
  <2>13. ASSUME NEW a \in Attempts, Stamp(a) PROVE SlotsTyped' /\ BooksTyped'
    <3>1. SlotsTyped'
      BY <2>0, <2>13, GotoTyped, LeaveTyped DEF Stamp, Steps, shop
    <3>2. BooksTyped'
      BY <2>0, <2>13 DEF Stamp, BooksTyped, db, row, shop, Fault, NoFault
    <3> QED BY <3>1, <3>2
  <2>14. ASSUME NEW a \in Attempts, Record(a) PROVE SlotsTyped' /\ BooksTyped'
    <3>1. SlotsTyped'
      BY <2>0, <2>14, LeaveTyped DEF Record, shop
    <3>2. amt[a] \in Nat
      BY <2>0
    <3>3. BooksTyped'
      BY <2>0, <2>14, <3>2 DEF Record, BooksTyped, shop, Fault, NoFault
    <3> QED BY <3>1, <3>3
  <2>15. ASSUME NEW a \in Attempts, Release(a) PROVE SlotsTyped' /\ BooksTyped'
    <3>1. SlotsTyped'
      BY <2>0, <2>15, LeaveTyped DEF Release, shop
    <3>2. BooksTyped'
      BY <2>0, <2>15 DEF Release, BooksTyped, db, row, shop, Fault, NoFault
    <3> QED BY <3>1, <3>2
  <2>16. ASSUME NEW a \in Attempts, Crash(a) PROVE SlotsTyped' /\ BooksTyped'
    <3>1. SlotsTyped'
      BY <2>0, <2>16, LeaveTyped DEF Crash
    <3>2. orphans' \subseteq Amounts
      BY <2>0, <2>16 DEF Crash, Orphaned, Sent, SlotsTyped
    <3>3. BooksTyped'
      BY <2>0, <2>16, <3>2 DEF Crash, BooksTyped, db, row, Fault
    <3> QED BY <3>1, <3>3
  <2>17. ASSUME LandOrphan PROVE SlotsTyped' /\ BooksTyped'
    <3>1. PICK x \in orphans : Execute(x) /\ orphans' = orphans \ {x}
      BY <2>17 DEF LandOrphan
    <3>2. /\ made' \in Seq(Amounts) /\ faults' \in 0..MaxFaults /\ known' = TRUE
          /\ made' = made \/ \E y \in Amounts : made' = Append(made, y)
      BY <2>0, <3>1, ExecuteMakes
    <3>3. Len(made') \in Nat /\ Len(made') >= Len(made)
      BY <2>0, <3>2
    <3>4. SlotsTyped'
      BY <2>0, <2>17, <3>3 DEF LandOrphan, SlotsTyped
    <3>5. BooksTyped'
      BY <2>0, <2>17, <3>1, <3>2 DEF LandOrphan, BooksTyped, db, row
    <3> QED BY <3>4, <3>5
  <2>18. CASE KeyForgotten
    BY <2>18 DEF KeyForgotten, SlotsTyped, BooksTyped, db, row
  <2>19. CASE ClaimGoesStale
    BY <2>19 DEF ClaimGoesStale, SlotsTyped, BooksTyped, row, shop
  <2>20. CASE UNCHANGED vars
    BY <2>20 DEF vars, SlotsTyped, BooksTyped, db, row, shop
  <2> QED
    BY <2>1, <2>2, <2>3, <2>4, <2>5, <2>6, <2>7, <2>8, <2>9, <2>10, <2>11, <2>12, <2>13, <2>14, <2>15, <2>16, <2>17, <2>18, <2>19, <2>20 DEF Next, RefundStep
<1> QED
  BY <1>0, <1>1, <1>2, PTL DEF Spec

-----------------------------------------------------------------------------
(* The inductive invariant.                                                *)

\* Each path through _processClaimed belongs to its resolution; whoever is about
\* to mark the return processed knows that it was paid out, and has the amount
\* of a money refund from Shopify: found, in the shop's currency, or answered,
\* in the customer's.
SlotInv(a) ==
  /\ pc[a] \in {"reconcile", "suggest", "announce", "send", "wait"} => kind \in Money
  /\ pc[a] \in {"draft", "stamp"} => kind = "EXCHANGE"
  /\ pc[a] = "recordFound" => kind # "EXCHANGE"
  /\ pc[a] = "record" => kind # "LOCAL"
  /\ pc[a] \in {"record", "recordFound"} /\ kind \in Money => made # <<>>
  /\ pc[a] \in {"stamp", "record"} /\ kind = "EXCHANGE" => drafts > 0
  /\ pc[a] = "recordFound" /\ kind = "REFUND" => \E i \in DOMAIN made : amt[a] = rate * made[i]
  /\ pc[a] = "record" /\ kind = "REFUND" => \E i \in DOMAIN made : amt[a] = made[i]

SlotsInv == \A a \in Attempts : SlotInv(a)

\* The record of an open return is the one it was created with.
OpenInv == status = "OPEN" => recorded = 0 /\ recordedIn = "shop"

\* Only a refund or a store credit asks Shopify to refund anything.
MoneyInv == kind \in Money \/ (made = <<>> /\ orphans = {})

IInv == SlotsInv /\ OpenInv /\ MoneyInv /\ ProcessedIsPaid /\ RecordedIsMoved

\* Shopify's refunds and the drafts stay; resolution and rate never change.
LEMMA BooksGrow ==
  ASSUME TypeOK, [Next]_vars
  PROVE  /\ kind' = kind /\ rate' = rate /\ drafts \in Nat /\ drafts' \in Nat /\ drafts' >= drafts
         /\ made # <<>> => made' # <<>>
         /\ \A i \in DOMAIN made : i \in DOMAIN made' /\ made'[i] = made[i]
<1>0. /\ made \in Seq(Amounts) /\ faults \in 0..MaxFaults /\ known \in BOOLEAN /\ drafts \in Nat
      /\ orphans \subseteq Amounts
  BY DEF TypeOK
<1>1. ASSUME NEW x \in Amounts, Execute(x)
      PROVE  /\ made # <<>> => made' # <<>>
             /\ \A i \in DOMAIN made : i \in DOMAIN made' /\ made'[i] = made[i]
  <2>1. made' = made \/ \E y \in Amounts : made' = Append(made, y)
    BY <1>0, <1>1, ExecuteMakes
  <2> QED BY <1>0, <2>1
<1>2. ASSUME NEW a \in Attempts, Land(a)
      PROVE  /\ kind' = kind /\ rate' = rate /\ drafts' = drafts
             /\ made # <<>> => made' # <<>>
             /\ \A i \in DOMAIN made : i \in DOMAIN made' /\ made'[i] = made[i]
  <2>1. amt[a] \in Amounts /\ Execute(amt[a])
    BY <1>2 DEF Land, Sent, TypeOK
  <2>2. kind' = kind /\ rate' = rate /\ drafts' = drafts
    BY <1>2 DEF Land, db, row
  <2> QED BY <1>1, <2>1, <2>2
<1>3. ASSUME LandOrphan
      PROVE  /\ kind' = kind /\ rate' = rate /\ drafts' = drafts
             /\ made # <<>> => made' # <<>>
             /\ \A i \in DOMAIN made : i \in DOMAIN made' /\ made'[i] = made[i]
  <2>1. PICK x \in Amounts : Execute(x)
    BY <1>0, <1>3 DEF LandOrphan
  <2>2. kind' = kind /\ rate' = rate /\ drafts' = drafts
    BY <1>3 DEF LandOrphan, db, row
  <2> QED BY <1>1, <2>1, <2>2
<1>4. ASSUME NEW a \in Attempts,
             \/ Begin(a) \/ Claim(a) \/ Abort(a) \/ FindExisting(a) \/ Suggest(a) \/ Announce(a)
             \/ Send(a) \/ Refuse(a) \/ Answer(a) \/ LoseAnswer(a) \/ Draft(a) \/ Stamp(a)
             \/ Record(a) \/ Release(a) \/ Crash(a)
      PROVE  kind' = kind /\ rate' = rate /\ drafts' \in {drafts, drafts + 1} /\ made' = made
  BY <1>4 DEF Begin, Claim, Abort, FindExisting, Suggest, Announce, Send, Refuse, Answer,
     LoseAnswer, Draft, Stamp, Record, Release, Crash, db, row, shop
<1>5. CASE KeyForgotten \/ ClaimGoesStale \/ UNCHANGED vars
  BY <1>0, <1>5 DEF KeyForgotten, ClaimGoesStale, vars, db, row, shop
<1> QED
  BY <1>0, <1>2, <1>3, <1>4, <1>5 DEF Next, RefundStep

\* A slot that a step leaves alone keeps what it knows.
LEMMA OthersKeep ==
  ASSUME TypeOK, [Next]_vars, NEW b \in Attempts, SlotInv(b), pc'[b] = pc[b], amt'[b] = amt[b]
  PROVE  SlotInv(b)'
<1>1. /\ kind' = kind /\ rate' = rate /\ drafts \in Nat /\ drafts' \in Nat /\ drafts' >= drafts
      /\ made # <<>> => made' # <<>>
      /\ \A i \in DOMAIN made : i \in DOMAIN made' /\ made'[i] = made[i]
  BY BooksGrow
<1>2. pc[b] = "recordFound" /\ kind = "REFUND" => \E i \in DOMAIN made' : amt'[b] = rate * made'[i]
  <2> SUFFICES ASSUME pc[b] = "recordFound", kind = "REFUND"
               PROVE  \E i \in DOMAIN made' : amt'[b] = rate * made'[i]
    OBVIOUS
  <2>1. PICK i \in DOMAIN made : amt[b] = rate * made[i]
    BY DEF SlotInv
  <2> QED BY <1>1, <2>1
<1>3. pc[b] = "record" /\ kind = "REFUND" => \E i \in DOMAIN made' : amt'[b] = made'[i]
  <2> SUFFICES ASSUME pc[b] = "record", kind = "REFUND"
               PROVE  \E i \in DOMAIN made' : amt'[b] = made'[i]
    OBVIOUS
  <2>1. PICK i \in DOMAIN made : amt[b] = made[i]
    BY DEF SlotInv
  <2> QED BY <1>1, <2>1
<1> QED BY <1>1, <1>2, <1>3 DEF SlotInv

\* Marking a money refund processed puts on file what a refund moved; the wrong
\* currency stays beside it only if somebody else had filed it already.
LEMMA Filing ==
  ASSUME TypeOK, IInv, NEW a \in Attempts, Record(a), status' = "PROCESSED", recorded' = amt[a],
         recordedIn' = IF pc[a] = "record" /\ kind # "EXCHANGE" THEN "customer" ELSE recordedIn,
         kind = "REFUND"
  PROVE  /\ made' = made /\ rate' = rate /\ kind' = kind
         /\ \E i \in DOMAIN made :
              \/ Value(recorded, recordedIn)' = rate * made[i]
              \/ /\ rate # 1 /\ status = "PROCESSED"
                 /\ recordedIn' = "customer" /\ recorded' = rate * made[i]
<1>1. made' = made /\ rate' = rate /\ kind' = kind
  BY DEF Record, shop
<1>2. CASE pc[a] = "record"
  <2>1. PICK i \in DOMAIN made : amt[a] = made[i]
    BY <1>2 DEF IInv, SlotsInv, SlotInv
  <2>2. Value(recorded, recordedIn)' = rate * made[i]
    BY <1>1, <1>2, <2>1 DEF Value
  <2> QED BY <1>1, <2>2
<1>3. CASE pc[a] = "recordFound"
  <2>1. PICK i \in DOMAIN made : amt[a] = rate * made[i]
    BY <1>3 DEF IInv, SlotsInv, SlotInv
  <2>2. recorded' = rate * made[i] /\ recordedIn' = recordedIn /\ recordedIn \in {"shop", "customer"}
    BY <1>3, <2>1 DEF TypeOK
  <2>3. CASE recordedIn = "shop"
    BY <1>1, <2>2, <2>3 DEF Value
  <2>4. CASE recordedIn = "customer" /\ rate = 1
    <3>1. made[i] \in Nat
      BY DEF TypeOK, Amounts
    <3> QED BY <1>1, <2>2, <2>4, <3>1 DEF Value
  <2>5. CASE recordedIn = "customer" /\ rate # 1
    <3>1. status = "PROCESSED"
      BY <2>5 DEF IInv, OpenInv, TypeOK
    <3> QED BY <1>1, <2>2, <2>5, <3>1
  <2> QED BY <2>2, <2>3, <2>4, <2>5
<1> QED BY <1>2, <1>3 DEF Record

\* The inductive invariant holds of every behaviour.
THEOREM Invariance == Spec => []IInv
<1>1. Init => IInv
  BY DEF Init, IInv, SlotsInv, SlotInv, OpenInv, MoneyInv, ProcessedIsPaid, RecordedIsMoved
<1>2. ASSUME TypeOK, IInv, [Next]_vars PROVE IInv'
  <2> USE <1>2
  <2>0. /\ kind' = kind /\ rate' = rate /\ drafts' >= drafts /\ drafts \in Nat /\ drafts' \in Nat
        /\ made # <<>> => made' # <<>>
        /\ pc \in [Attempts -> Steps] /\ amt \in [Attempts -> Nat] /\ got \in [Attempts -> Nat]
        /\ kind \in {"REFUND", "STORE_CREDIT", "EXCHANGE", "LOCAL"}
    BY BooksGrow DEF TypeOK
  <2>1. ASSUME NEW a \in Attempts, SlotInv(a)', \A b \in Attempts \ {a} : pc'[b] = pc[b] /\ amt'[b] = amt[b]
        PROVE  SlotsInv'
    BY <2>1, OthersKeep DEF IInv, SlotsInv
  <2>2. ASSUME UNCHANGED <<status, recorded, recordedIn>>
        PROVE  OpenInv' /\ ProcessedIsPaid' /\ RecordedIsMoved'
    <3>1. OpenInv' /\ ProcessedIsPaid'
      BY <2>0, <2>2 DEF IInv, OpenInv, ProcessedIsPaid
    <3>2. ASSUME status = "PROCESSED", kind = "REFUND"
          PROVE  \E i \in DOMAIN made' :
                   \/ Value(recorded, recordedIn)' = rate' * made'[i]
                   \/ rate' # 1 /\ recordedIn' = "customer" /\ recorded' = rate' * made'[i]
      <4>1. PICK i \in DOMAIN made :
                   \/ Value(recorded, recordedIn) = rate * made[i]
                   \/ rate # 1 /\ recordedIn = "customer" /\ recorded = rate * made[i]
        BY <3>2 DEF IInv, RecordedIsMoved
      <4>2. i \in DOMAIN made' /\ made'[i] = made[i]
        BY BooksGrow
      <4> QED BY <2>0, <2>2, <4>1, <4>2 DEF Value
    <3> QED BY <2>0, <2>2, <3>1, <3>2 DEF RecordedIsMoved
  <2>3. ASSUME NEW a \in Attempts, Begin(a) PROVE IInv'
    <3>1. SlotInv(a)' /\ \A b \in Attempts \ {a} : pc'[b] = pc[b] /\ amt'[b] = amt[b]
      BY <2>0, <2>3 DEF Begin, Goto, IInv, SlotsInv, SlotInv
    <3>2. UNCHANGED <<status, recorded, recordedIn>>
      BY <2>3 DEF Begin, db, row
    <3>3. MoneyInv'
      BY <2>0, <2>3 DEF Begin, shop, IInv, MoneyInv
    <3> QED BY <2>1, <2>2, <3>1, <3>2, <3>3 DEF IInv
  <2>4. ASSUME NEW a \in Attempts, Claim(a) PROVE IInv'
    <3>1. SlotInv(a)' /\ \A b \in Attempts \ {a} : pc'[b] = pc[b] /\ amt'[b] = amt[b]
      BY <2>0, <2>4 DEF Claim, FirstStep, Return, Leave, Goto, Money, IInv, SlotsInv, SlotInv
    <3>2. UNCHANGED <<status, recorded, recordedIn>>
      BY <2>4 DEF Claim, db, row
    <3>3. MoneyInv'
      BY <2>0, <2>4 DEF Claim, shop, IInv, MoneyInv
    <3> QED BY <2>1, <2>2, <3>1, <3>2, <3>3 DEF IInv
  <2>5. ASSUME NEW a \in Attempts, Abort(a) PROVE IInv'
    <3>1. SlotInv(a)' /\ \A b \in Attempts \ {a} : pc'[b] = pc[b] /\ amt'[b] = amt[b]
      BY <2>0, <2>5 DEF Abort, Throw, Leave, Goto, IInv, SlotsInv, SlotInv
    <3>2. UNCHANGED <<status, recorded, recordedIn>>
      BY <2>5 DEF Abort, db, row
    <3>3. MoneyInv'
      BY <2>0, <2>5 DEF Abort, shop, IInv, MoneyInv
    <3> QED BY <2>1, <2>2, <3>1, <3>2, <3>3 DEF IInv
  <2>6. ASSUME NEW a \in Attempts, FindExisting(a) PROVE IInv'
    <3>0. kind \in Money /\ made' = made
      BY <2>6 DEF FindExisting, shop, IInv, SlotsInv, SlotInv
    <3>1. \A b \in Attempts \ {a} : pc'[b] = pc[b] /\ amt'[b] = amt[b]
      BY <2>0, <2>6 DEF FindExisting, Goto
    <3>4. SlotInv(a)'
      <4>1. CASE made = <<>> \/ (kind = "REFUND" /\ made[1] = 0)
        BY <2>0, <2>6, <3>0, <4>1 DEF FindExisting, Goto, SlotInv, Money
      <4>2. CASE ~(made = <<>> \/ (kind = "REFUND" /\ made[1] = 0))
        <5>1. 1 \in DOMAIN made
          BY <4>2 DEF TypeOK
        <5>2. pc'[a] = "recordFound" /\ amt'[a] \in FoundAmounts(made[1])
          BY <2>0, <2>6, <4>2 DEF FindExisting, Goto
        <5>3. kind = "REFUND" => amt'[a] = rate * made[1]
          BY <5>2 DEF FoundAmounts
        <5> QED BY <2>0, <3>0, <4>2, <5>1, <5>2, <5>3 DEF SlotInv, Money
      <4> QED BY <4>1, <4>2
    <3>2. UNCHANGED <<status, recorded, recordedIn>>
      BY <2>6 DEF FindExisting, db, row
    <3>3. MoneyInv'
      BY <2>0, <2>6 DEF FindExisting, shop, IInv, MoneyInv
    <3> QED BY <2>1, <2>2, <3>1, <3>2, <3>3, <3>4 DEF IInv
  <2>7. ASSUME NEW a \in Attempts, Suggest(a) PROVE IInv'
    <3>1. SlotInv(a)' /\ \A b \in Attempts \ {a} : pc'[b] = pc[b] /\ amt'[b] = amt[b]
      BY <2>0, <2>7 DEF Suggest, Goto, IInv, SlotsInv, SlotInv
    <3>2. UNCHANGED <<status, recorded, recordedIn>>
      BY <2>7 DEF Suggest, db, row
    <3>3. MoneyInv'
      BY <2>0, <2>7 DEF Suggest, shop, IInv, MoneyInv
    <3> QED BY <2>1, <2>2, <3>1, <3>2, <3>3 DEF IInv
  <2>8. ASSUME NEW a \in Attempts, Announce(a) PROVE IInv'
    <3>1. SlotInv(a)' /\ \A b \in Attempts \ {a} : pc'[b] = pc[b] /\ amt'[b] = amt[b]
      BY <2>0, <2>8 DEF Announce, Goto, IInv, SlotsInv, SlotInv
    <3>2. UNCHANGED <<status, recorded, recordedIn>>
      BY <2>8 DEF Announce
    <3>3. MoneyInv'
      BY <2>0, <2>8 DEF Announce, shop, IInv, MoneyInv
    <3> QED BY <2>1, <2>2, <3>1, <3>2, <3>3 DEF IInv
  <2>9. ASSUME NEW a \in Attempts, Send(a) PROVE IInv'
    <3>1. SlotInv(a)' /\ \A b \in Attempts \ {a} : pc'[b] = pc[b] /\ amt'[b] = amt[b]
      BY <2>0, <2>9 DEF Send, Goto, IInv, SlotsInv, SlotInv
    <3>2. UNCHANGED <<status, recorded, recordedIn>>
      BY <2>9 DEF Send, db, row
    <3>3. MoneyInv'
      BY <2>0, <2>9 DEF Send, shop, IInv, MoneyInv
    <3> QED BY <2>1, <2>2, <3>1, <3>2, <3>3 DEF IInv
  <2>10. ASSUME NEW a \in Attempts, Refuse(a) PROVE IInv'
    <3>1. SlotInv(a)' /\ \A b \in Attempts \ {a} : pc'[b] = pc[b] /\ amt'[b] = amt[b]
      BY <2>0, <2>10 DEF Refuse, Throw, Leave, Goto, IInv, SlotsInv, SlotInv
    <3>2. UNCHANGED <<status, recorded, recordedIn>>
      BY <2>10 DEF Refuse, db, row
    <3>3. MoneyInv'
      BY <2>0, <2>10 DEF Refuse, shop, IInv, MoneyInv
    <3> QED BY <2>1, <2>2, <3>1, <3>2, <3>3 DEF IInv
  <2>11. ASSUME NEW a \in Attempts, Land(a) PROVE IInv'
    <3>1. SlotInv(a)' /\ UNCHANGED <<pc, amt>>
      BY <2>11, OthersKeep DEF Land, IInv, SlotsInv
    <3>2. UNCHANGED <<status, recorded, recordedIn>>
      BY <2>11 DEF Land, db, row
    <3>3. MoneyInv'
      BY <2>0, <2>11 DEF Land, Sent, IInv, SlotsInv, SlotInv, MoneyInv
    <3> QED BY <2>1, <2>2, <3>1, <3>2, <3>3 DEF IInv
  <2>12. ASSUME NEW a \in Attempts, Answer(a) PROVE IInv'
    <3>0. got[a] \in DOMAIN made /\ made # <<>> /\ kind \in Money /\ made' = made
      BY <2>0, <2>12 DEF Answer, TypeOK, shop, IInv, SlotsInv, SlotInv
    <3>1. SlotInv(a)' /\ \A b \in Attempts \ {a} : pc'[b] = pc[b] /\ amt'[b] = amt[b]
      <4>1. CASE kind = "REFUND" /\ amt[a] > 0 /\ made[got[a]] = 0
        BY <2>0, <2>12, <4>1 DEF Answer, Throw, Leave, Goto, SlotInv
      <4>2. CASE ~(kind = "REFUND" /\ amt[a] > 0 /\ made[got[a]] = 0)
        <5>1. /\ pc' = [pc EXCEPT ![a] = "record"]
              /\ amt' = IF kind = "REFUND" THEN [amt EXCEPT ![a] = made[got[a]]] ELSE amt
          BY <2>12, <4>2 DEF Answer, Goto
        <5>2. pc'[a] = "record" /\ (kind = "REFUND" => amt'[a] = made'[got[a]])
          BY <2>0, <3>0, <5>1
        <5> QED BY <2>0, <3>0, <5>1, <5>2 DEF SlotInv, Money
      <4> QED BY <4>1, <4>2
    <3>2. UNCHANGED <<status, recorded, recordedIn>>
      BY <2>12 DEF Answer, db, row
    <3>3. MoneyInv'
      BY <2>0, <2>12 DEF Answer, shop, IInv, MoneyInv
    <3> QED BY <2>1, <2>2, <3>1, <3>2, <3>3 DEF IInv
  <2>13. ASSUME NEW a \in Attempts, LoseAnswer(a) PROVE IInv'
    <3>1. SlotInv(a)' /\ \A b \in Attempts \ {a} : pc'[b] = pc[b] /\ amt'[b] = amt[b]
      BY <2>0, <2>13 DEF LoseAnswer, Throw, Leave, Goto, SlotInv
    <3>2. UNCHANGED <<status, recorded, recordedIn>>
      BY <2>13 DEF LoseAnswer, db, row
    <3>3. MoneyInv'
      BY <2>0, <2>13 DEF LoseAnswer, Orphaned, Sent, IInv, SlotsInv, SlotInv, MoneyInv
    <3> QED BY <2>1, <2>2, <3>1, <3>2, <3>3 DEF IInv
  <2>14. ASSUME NEW a \in Attempts, Draft(a) PROVE IInv'
    <3>1. SlotInv(a)' /\ \A b \in Attempts \ {a} : pc'[b] = pc[b] /\ amt'[b] = amt[b]
      BY <2>0, <2>14 DEF Draft, Throw, Leave, Goto, IInv, SlotsInv, SlotInv
    <3>2. UNCHANGED <<status, recorded, recordedIn>>
      BY <2>14 DEF Draft, db, row
    <3>3. MoneyInv'
      BY <2>0, <2>14 DEF Draft, shop, IInv, MoneyInv
    <3> QED BY <2>1, <2>2, <3>1, <3>2, <3>3 DEF IInv
  <2>15. ASSUME NEW a \in Attempts, Stamp(a) PROVE IInv'
    <3>1. SlotInv(a)' /\ \A b \in Attempts \ {a} : pc'[b] = pc[b] /\ amt'[b] = amt[b]
      BY <2>0, <2>15 DEF Stamp, Throw, Leave, Goto, shop, Money, IInv, SlotsInv, SlotInv
    <3>2. UNCHANGED <<status, recorded, recordedIn>>
      BY <2>15 DEF Stamp, db, row
    <3>3. MoneyInv'
      BY <2>0, <2>15 DEF Stamp, shop, IInv, MoneyInv
    <3> QED BY <2>1, <2>2, <3>1, <3>2, <3>3 DEF IInv
  <2>16. ASSUME NEW a \in Attempts, Record(a) PROVE IInv'
    <3>1. SlotInv(a)' /\ \A b \in Attempts \ {a} : pc'[b] = pc[b] /\ amt'[b] = amt[b]
      BY <2>0, <2>16 DEF Record, Return, Throw, Leave, Goto, SlotInv
    <3>2. UNCHANGED <<made, orphans, drafts, kind, rate>>
      BY <2>16 DEF Record, shop
    <3>3. MoneyInv'
      BY <3>2 DEF IInv, MoneyInv
    <3>4. CASE UNCHANGED <<status, recorded, recordedIn>>
      BY <2>1, <2>2, <3>1, <3>3, <3>4 DEF IInv
    <3>5. CASE /\ status' = "PROCESSED" /\ recorded' = amt[a]
               /\ recordedIn' = IF pc[a] = "record" /\ kind # "EXCHANGE" THEN "customer" ELSE recordedIn
      <4>1. OpenInv'
        BY <3>5 DEF OpenInv
      <4>2. ProcessedIsPaid'
        BY <2>0, <2>16, <3>2 DEF Record, IInv, SlotsInv, SlotInv, ProcessedIsPaid, Money
      <4>3. RecordedIsMoved'
        <5>1. ASSUME kind = "REFUND"
              PROVE  \E i \in DOMAIN made :
                       \/ Value(recorded, recordedIn)' = rate * made[i]
                       \/ rate # 1 /\ recordedIn' = "customer" /\ recorded' = rate * made[i]
          BY <2>16, <3>5, <5>1, Filing
        <5> QED BY <3>2, <5>1 DEF RecordedIsMoved, Value
      <4> QED BY <2>1, <3>1, <3>3, <4>1, <4>2, <4>3 DEF IInv
    <3> QED BY <2>16, <3>4, <3>5 DEF Record
  <2>17. ASSUME NEW a \in Attempts, Release(a) PROVE IInv'
    <3>1. SlotInv(a)' /\ \A b \in Attempts \ {a} : pc'[b] = pc[b] /\ amt'[b] = amt[b]
      BY <2>0, <2>17 DEF Release, Return, Leave, Goto, IInv, SlotsInv, SlotInv
    <3>2. UNCHANGED <<status, recorded, recordedIn>>
      BY <2>17 DEF Release, db, row
    <3>3. MoneyInv'
      BY <2>0, <2>17 DEF Release, shop, IInv, MoneyInv
    <3> QED BY <2>1, <2>2, <3>1, <3>2, <3>3 DEF IInv
  <2>18. ASSUME NEW a \in Attempts, Crash(a) PROVE IInv'
    <3>1. SlotInv(a)' /\ \A b \in Attempts \ {a} : pc'[b] = pc[b] /\ amt'[b] = amt[b]
      BY <2>0, <2>18 DEF Crash, Return, Leave, Goto, SlotInv
    <3>2. UNCHANGED <<status, recorded, recordedIn>>
      BY <2>18 DEF Crash, db, row
    <3>3. MoneyInv'
      BY <2>0, <2>18 DEF Crash, Orphaned, Sent, IInv, SlotsInv, SlotInv, MoneyInv
    <3> QED BY <2>1, <2>2, <3>1, <3>2, <3>3 DEF IInv
  <2>19. CASE LandOrphan \/ KeyForgotten \/ ClaimGoesStale \/ UNCHANGED vars
    <3>1. UNCHANGED <<pc, amt, status, recorded, recordedIn>>
      BY <2>19 DEF LandOrphan, KeyForgotten, ClaimGoesStale, vars, db, row, shop
    <3>2. SlotsInv'
      BY <3>1, OthersKeep DEF IInv, SlotsInv
    <3>3. MoneyInv'
      <4>1. CASE LandOrphan
        BY <2>0, <4>1 DEF LandOrphan, IInv, MoneyInv
      <4>2. CASE KeyForgotten \/ ClaimGoesStale \/ UNCHANGED vars
        BY <2>0, <4>2 DEF KeyForgotten, ClaimGoesStale, vars, shop, IInv, MoneyInv
      <4> QED BY <2>19, <4>1, <4>2
    <3> QED BY <2>2, <3>1, <3>2, <3>3 DEF IInv
  <2> QED
    BY <2>3, <2>4, <2>5, <2>6, <2>7, <2>8, <2>9, <2>10, <2>11, <2>12, <2>13, <2>14, <2>15, <2>16, <2>17, <2>18, <2>19 DEF Next, RefundStep
<1> QED
  BY <1>1, <1>2, TypeCorrect, PTL DEF Spec

-----------------------------------------------------------------------------
(* The properties.                                                         *)

\* A return marked processed was paid out, whatever was lost, late or
\* repeated, even if the claim goes stale under a live attempt.
THEOREM ProcessedReturnsArePaid == Spec => []ProcessedIsPaid
<1>1. IInv => ProcessedIsPaid
  BY DEF IInv
<1> QED BY <1>1, Invariance, PTL

\* The record of a processed money refund shows what a refund of the return
\* moved, in the currency it names, whichever attempt did the paperwork, and
\* though Shopify forgets the key; only in another currency than the shop's may
\* it show the shop's number under the customer's currency.
THEOREM AmountOnFileIsMoved == Spec => []RecordedIsMoved
<1>1. IInv => RecordedIsMoved
  BY DEF IInv
<1> QED BY <1>1, Invariance, PTL

\* The first refund, the one that reconciliation finds, moved nothing.
Barren == kind = "REFUND" /\ made[1] = 0

\* A key is the key of a refund; and while an attempt is on its way to a refund
\* that it has looked for, there is none, or Shopify still knows its key, or it
\* is one that the attempt does not count.
KeyInv ==
  /\ known => made # <<>>
  /\ KeyLasts => /\ Len(made) > 1 => Barren
                 /\ Asking /\ ~known /\ made # <<>> => Barren

\* Nobody starts on the way to a refund who has found one.
LEMMA AskingStarts ==
  ASSUME TypeOK, Next, Asking'
  PROVE  Asking \/ made = <<>> \/ Barren
<1> DEFINE Asks(a) == pc[a] \in {"suggest", "announce", "send"} \/ Sent(a)
<1>0. pc \in [Attempts -> Steps] /\ got \in [Attempts -> Nat]
  BY DEF TypeOK
<1>1. CASE orphans' # {}
  <2>1. orphans # {} \/ \E a \in Attempts : Sent(a)
    BY <1>1 DEF Next, RefundStep, Begin, Claim, Abort, FindExisting, Suggest, Announce, Send, Refuse,
       Land, Answer, LoseAnswer, Draft, Stamp, Record, Release, Crash, Orphaned, LandOrphan,
       KeyForgotten, ClaimGoesStale, shop
  <2> QED BY <2>1 DEF Asking
<1>2. ASSUME NEW b \in Attempts, Asks(b)' PROVE Asks(b) \/ made = <<>> \/ Barren
  <2>1. ASSUME NEW a \in Attempts, b # a, Begin(a) \/ RefundStep(a) \/ Crash(a) PROVE Asks(b)
    <3>1. pc'[b] = pc[b] /\ got'[b] = got[b]
      BY <1>0, <2>1 DEF RefundStep, Begin, Claim, Abort, FindExisting, Suggest, Announce, Send, Refuse,
         Land, Answer, LoseAnswer, Draft, Stamp, Record, Release, Crash, Throw, Return, Leave, Goto
    <3> QED BY <1>2, <3>1 DEF Sent
  <2>2. CASE Begin(b) \/ Claim(b) \/ Abort(b) \/ Refuse(b) \/ Answer(b) \/ LoseAnswer(b) \/ Draft(b)
             \/ Stamp(b) \/ Record(b) \/ Release(b) \/ Crash(b)
    <3>1. pc'[b] \in {"idle", "claim", "release", "recordFound", "draft", "reconcile", "record", "stamp"}
      BY <1>0, <2>2 DEF Begin, Claim, FirstStep, Abort, Refuse, Answer, LoseAnswer, Draft, Stamp, Record,
         Release, Crash, Throw, Return, Leave, Goto
    <3> QED BY <1>2, <3>1 DEF Sent
  <2>3. CASE FindExisting(b)
    <3>1. CASE made = <<>> \/ (kind = "REFUND" /\ made[1] = 0)
      BY <3>1 DEF Barren
    <3>2. CASE ~(made = <<>> \/ (kind = "REFUND" /\ made[1] = 0))
      <4>1. pc'[b] = "recordFound"
        BY <1>0, <2>3, <3>2 DEF FindExisting, Goto
      <4> QED BY <1>2, <4>1 DEF Sent
    <3> QED BY <3>1, <3>2
  <2>4. CASE Suggest(b) \/ Announce(b) \/ Send(b) \/ Land(b)
    BY <2>4 DEF Suggest, Announce, Send, Land, Sent
  <2>5. CASE LandOrphan \/ KeyForgotten \/ ClaimGoesStale
    BY <1>2, <2>5 DEF LandOrphan, KeyForgotten, ClaimGoesStale, Sent
  <2> QED
    BY <2>1, <2>2, <2>3, <2>4, <2>5 DEF Next, RefundStep
<1> QED BY <1>1, <1>2 DEF Asking

\* A step leaves refunds and drafts alone, makes a refund where none counts, or
\* drafts an exchange.
LEMMA PaymentSteps ==
  ASSUME TypeOK, IInv, KeyInv, Next
  PROVE  \/ made' = made /\ drafts' = drafts
         \/ /\ ~known /\ known' = TRUE
            /\ kind \in Money /\ drafts' = drafts
            /\ \E y \in Amounts : made' = Append(made, y)
            /\ KeyLasts => made = <<>> \/ Barren
         \/ kind = "EXCHANGE" /\ made' = made /\ drafts' = drafts + 1
<1>0. /\ made \in Seq(Amounts) /\ faults \in 0..MaxFaults /\ known \in BOOLEAN /\ orphans \subseteq Amounts
  BY DEF TypeOK
<1>1. ASSUME NEW a \in Attempts, Land(a)
      PROVE  \/ made' = made /\ drafts' = drafts
             \/ /\ ~known /\ known' = TRUE
                /\ kind \in Money /\ drafts' = drafts
                /\ \E y \in Amounts : made' = Append(made, y)
                /\ KeyLasts => made = <<>> \/ Barren
  <2>1. Asking /\ kind \in Money /\ drafts' = drafts
    BY <1>1 DEF Land, Sent, Asking, IInv, SlotsInv, SlotInv
  <2>2. amt[a] \in Amounts /\ Execute(amt[a])
    BY <1>1 DEF Land, Sent, TypeOK
  <2>3. \/ known /\ made' = made
        \/ ~known /\ known' = TRUE /\ \E y \in Amounts : made' = Append(made, y)
    BY <1>0, <2>2, ExecuteMakes
  <2> QED BY <2>1, <2>3 DEF KeyInv
<1>2. ASSUME LandOrphan
      PROVE  \/ made' = made /\ drafts' = drafts
             \/ /\ ~known /\ known' = TRUE
                /\ kind \in Money /\ drafts' = drafts
                /\ \E y \in Amounts : made' = Append(made, y)
                /\ KeyLasts => made = <<>> \/ Barren
  <2>1. Asking /\ kind \in Money /\ drafts' = drafts
    BY <1>2 DEF LandOrphan, Asking, IInv, MoneyInv
  <2>2. PICK x \in Amounts : Execute(x)
    BY <1>0, <1>2 DEF LandOrphan
  <2>3. \/ known /\ made' = made
        \/ ~known /\ known' = TRUE /\ \E y \in Amounts : made' = Append(made, y)
    BY <1>0, <2>2, ExecuteMakes
  <2> QED BY <2>1, <2>3 DEF KeyInv
<1>3. ASSUME NEW a \in Attempts, Draft(a)
      PROVE  kind = "EXCHANGE" /\ made' = made /\ drafts' = drafts + 1
  BY <1>3 DEF Draft, IInv, SlotsInv, SlotInv
<1>4. ASSUME NEW a \in Attempts,
             \/ Begin(a) \/ Claim(a) \/ Abort(a) \/ FindExisting(a) \/ Suggest(a) \/ Announce(a)
             \/ Send(a) \/ Refuse(a) \/ Answer(a) \/ LoseAnswer(a) \/ Stamp(a)
             \/ Record(a) \/ Release(a) \/ Crash(a)
      PROVE  made' = made /\ drafts' = drafts
  BY <1>4 DEF Begin, Claim, Abort, FindExisting, Suggest, Announce, Send, Refuse, Answer,
     LoseAnswer, Stamp, Record, Release, Crash, shop
<1>5. CASE KeyForgotten \/ ClaimGoesStale
  BY <1>5 DEF KeyForgotten, ClaimGoesStale, shop
<1> QED
  BY <1>1, <1>2, <1>3, <1>4, <1>5 DEF Next, RefundStep

\* The key's invariant holds of every behaviour.
LEMMA KeyInvariance == Spec => []KeyInv
<1>1. Init => KeyInv
  BY DEF Init, KeyInv
<1>2. ASSUME TypeOK, IInv, KeyInv, [Next]_vars PROVE KeyInv'
  <2> USE <1>2
  <2>0. \/ kind' = kind /\ made \in Seq(Amounts) /\ known \in BOOLEAN /\ known' \in BOOLEAN
        \/ UNCHANGED vars
    BY BooksGrow DEF TypeOK, Next, RefundStep, Begin, Claim, Abort, FindExisting, Suggest, Announce, Send,
       Refuse, Land, Answer, LoseAnswer, Draft, Stamp, Record, Release, Crash, LandOrphan, KeyForgotten,
       ClaimGoesStale, Execute, shop
  <2>1. CASE Next /\ made' = made /\ known' = known
    <3>1. Barren' <=> Barren
      BY <2>1, BooksGrow DEF Barren
    <3>2. Asking' => Asking \/ made = <<>> \/ Barren
      BY <2>1, AskingStarts
    <3> QED BY <2>1, <3>1, <3>2 DEF KeyInv
  <2>2. CASE KeyForgotten
    <3>1. made' = made /\ known' = FALSE /\ (KeyLasts => ~Asking) /\ UNCHANGED <<pc, got, orphans, kind>>
      BY <2>2 DEF KeyForgotten, db, row
    <3>2. Asking' <=> Asking
      BY <3>1 DEF Asking, Sent
    <3>3. Barren' <=> Barren
      BY <3>1 DEF Barren
    <3> QED BY <3>1, <3>2, <3>3 DEF KeyInv
  <2>3. ASSUME ~known, known' = TRUE, kind' = kind, NEW y \in Amounts, made' = Append(made, y),
               KeyLasts => made = <<>> \/ Barren
        PROVE  KeyInv'
    <3>1. made \in Seq(Amounts) /\ made' # <<>>
      BY <2>3 DEF TypeOK
    <3>2. made = <<>> => Len(made') = 1
      BY <2>3, <3>1
    <3>3. made # <<>> => made'[1] = made[1]
      BY <2>3, <3>1
    <3> QED BY <2>3, <3>1, <3>2, <3>3 DEF KeyInv, Barren
  <2>4. ASSUME Next, ~KeyForgotten
        PROVE  (made' = made /\ known' = known) \/ (~known /\ known' = TRUE /\ made' # made)
    <3>1. ASSUME NEW x \in Amounts, Execute(x)
          PROVE  (made' = made /\ known' = known) \/ (~known /\ known' = TRUE /\ made' # made)
      <4>1. made \in Seq(Amounts) /\ faults \in 0..MaxFaults /\ known \in BOOLEAN
        BY DEF TypeOK
      <4>2. CASE known
        BY <3>1, <4>2 DEF Execute, Repeats
      <4>3. CASE ~known
        <5>1. known' = TRUE /\ \E y \in Amounts : made' = Append(made, y)
          BY <3>1, <4>1, <4>3, ExecuteMakes
        <5>2. Len(made') # Len(made)
          BY <4>1, <5>1
        <5> QED BY <4>3, <5>1, <5>2
      <4> QED BY <4>2, <4>3
    <3>2. ASSUME NEW a \in Attempts, Land(a)
          PROVE  \E x \in Amounts : Execute(x)
      BY <3>2 DEF Land, Sent, TypeOK
    <3>3. ASSUME LandOrphan
          PROVE  \E x \in Amounts : Execute(x)
      BY <3>3 DEF LandOrphan, TypeOK
    <3>4. ASSUME NEW a \in Attempts,
                 \/ Begin(a) \/ Claim(a) \/ Abort(a) \/ FindExisting(a) \/ Suggest(a) \/ Announce(a)
                 \/ Send(a) \/ Refuse(a) \/ Answer(a) \/ LoseAnswer(a) \/ Draft(a) \/ Stamp(a)
                 \/ Record(a) \/ Release(a) \/ Crash(a)
          PROVE  made' = made /\ known' = known
      BY <3>4 DEF Begin, Claim, Abort, FindExisting, Suggest, Announce, Send, Refuse, Answer,
         LoseAnswer, Draft, Stamp, Record, Release, Crash, shop
    <3>5. ASSUME ClaimGoesStale PROVE made' = made /\ known' = known
      BY <3>5 DEF ClaimGoesStale, shop
    <3> QED BY <2>4, <3>1, <3>2, <3>3, <3>4, <3>5 DEF Next, RefundStep
  <2>5. CASE UNCHANGED vars
    BY <2>5 DEF vars, db, row, shop, KeyInv, Asking, Sent, Barren
  <2>6. CASE Next /\ ~KeyForgotten /\ made' # made
    <3>1. ~known /\ known' = TRUE /\ (KeyLasts => made = <<>> \/ Barren)
          /\ \E y \in Amounts : made' = Append(made, y)
      BY <2>4, <2>6, PaymentSteps
    <3> QED BY <2>3, <3>1, BooksGrow
  <2> QED BY <2>1, <2>2, <2>4, <2>5, <2>6
<1> QED
  BY <1>1, <1>2, TypeCorrect, Invariance, PTL DEF Spec

\* With a key that outlasts the calls that use it, at most one refund moves
\* money, unless the first with the return's note moved none.
THEOREM MoneyMovesOnce ==
  ASSUME KeyLasts
  PROVE  Spec => []MovedOnce
<1>1. TypeOK /\ KeyInv => MovedOnce
  <2> SUFFICES ASSUME TypeOK, KeyInv, NEW i \in DOMAIN made, NEW j \in DOMAIN made
               PROVE  i = j \/ Barren
    BY DEF MovedOnce, Barren
  <2>1. Len(made) \in Nat /\ DOMAIN made = 1..Len(made)
    BY DEF TypeOK
  <2>2. Len(made) <= 1 \/ Barren
    BY <2>1, KeyLasts DEF KeyInv
  <2> QED BY <2>1, <2>2
<1> QED BY <1>1, TypeCorrect, KeyInvariance, PTL

-----------------------------------------------------------------------------
(* The promise of OnePayout.                                               *)

\* The record changes only when the return is marked processed, which is not
\* when anybody is paid.
LEMMA RecordSteps ==
  ASSUME Next
  PROVE  \/ UNCHANGED <<status, recorded, recordedIn>>
         \/ \E a \in Attempts :
              /\ Record(a) /\ UNCHANGED <<made, drafts>>
              /\ status' = "PROCESSED" /\ recorded' = amt[a]
              /\ recordedIn' = IF pc[a] = "record" /\ kind # "EXCHANGE" THEN "customer" ELSE recordedIn
<1>1. ASSUME NEW a \in Attempts, Record(a)
      PROVE  \/ UNCHANGED <<status, recorded, recordedIn>>
             \/ /\ UNCHANGED <<made, drafts>>
                /\ status' = "PROCESSED" /\ recorded' = amt[a]
                /\ recordedIn' = IF pc[a] = "record" /\ kind # "EXCHANGE" THEN "customer" ELSE recordedIn
  BY <1>1 DEF Record, shop
<1>2. ASSUME NEW a \in Attempts,
             \/ Begin(a) \/ Claim(a) \/ Abort(a) \/ FindExisting(a) \/ Suggest(a) \/ Announce(a)
             \/ Send(a) \/ Refuse(a) \/ Land(a) \/ Answer(a) \/ LoseAnswer(a) \/ Draft(a) \/ Stamp(a)
             \/ Release(a) \/ Crash(a)
      PROVE  UNCHANGED <<status, recorded, recordedIn>>
  BY <1>2 DEF Begin, Claim, Abort, FindExisting, Suggest, Announce, Send, Refuse, Land, Answer,
     LoseAnswer, Draft, Stamp, Release, Crash, db, row
<1>3. CASE LandOrphan \/ KeyForgotten \/ ClaimGoesStale
  BY <1>3 DEF LandOrphan, KeyForgotten, ClaimGoesStale, db, row
<1> QED BY <1>1, <1>2, <1>3 DEF Next, RefundStep

Foreign == rate # 1
Filed   == status = "PROCESSED"
OnFile  == Value(recorded, recordedIn)

\* processRefund implements OnePayout if the key outlasts the calls that use
\* it: paid once, then processed, with the amount of a payment on file.
THEOREM Refinement ==
  ASSUME KeyLasts
  PROVE  Spec => PaysOutOnce
<1>1. ASSUME Init PROVE Promise!Init
  <2>1. Payouts = <<>> /\ OnFile = 0 /\ Filed = FALSE
    BY <1>1 DEF Init, Payouts, OnFile, Filed, Value
  <2>2. Foreign \in BOOLEAN
    BY DEF Foreign
  <2> QED BY <1>1, <2>1, <2>2 DEF Init, Promise!Init, OnFile, Filed, Foreign
<1>2. ASSUME TypeOK, TypeOK', IInv, IInv', KeyInv, [Next]_vars
      PROVE  [Promise!Pay \/ Promise!File]_<<kind, Foreign, Payouts, Filed, OnFile>>
  <2> USE <1>2
  <2>0. /\ kind' = kind /\ rate' = rate /\ rate \in Rates
        /\ kind \in {"REFUND", "STORE_CREDIT", "EXCHANGE", "LOCAL"}
        /\ made \in Seq(Amounts) /\ made' \in Seq(Amounts) /\ drafts \in Nat
    BY BooksGrow DEF TypeOK
  <2>1. OnFile' \in Nat
    BY <2>0, RatesMultiply DEF TypeOK, OnFile, Value
  <2>2. CASE Next /\ made' = made /\ drafts' = drafts
    <3>1. Payouts' = Payouts
      BY <2>0, <2>2 DEF Payouts
    <3>2. CASE UNCHANGED <<status, recorded, recordedIn>>
      BY <2>0, <3>1, <3>2 DEF Foreign, Filed, OnFile, Value
    <3>3. ASSUME NEW a \in Attempts, Record(a), status' = "PROCESSED", recorded' = amt[a],
                 recordedIn' = IF pc[a] = "record" /\ kind # "EXCHANGE" THEN "customer" ELSE recordedIn
          PROVE  Promise!File
      <4>1. kind = "LOCAL" \/ Payouts # <<>>
        <5>1. /\ kind \in {"REFUND", "STORE_CREDIT"} => made # <<>>
              /\ kind = "EXCHANGE" => drafts > 0
          BY <2>0, <2>2, <3>3 DEF IInv, ProcessedIsPaid
        <5>2. CASE kind \in {"REFUND", "STORE_CREDIT"}
          <6>1. DOMAIN Payouts = DOMAIN made /\ 1 \in DOMAIN made
            BY <2>0, <5>1, <5>2 DEF Payouts
          <6> QED BY <6>1
        <5>3. CASE kind = "EXCHANGE"
          BY <2>0, <5>1, <5>3 DEF Payouts
        <5> QED BY <2>0, <5>2, <5>3
      <4>2. ASSUME kind = "REFUND", ~(Filed /\ Foreign)
            PROVE  \E i \in DOMAIN Payouts : OnFile' = Payouts[i]
        <5>1. PICK i \in DOMAIN made :
                \/ Value(recorded, recordedIn)' = rate * made[i]
                \/ /\ rate # 1 /\ status = "PROCESSED"
                   /\ recordedIn' = "customer" /\ recorded' = rate * made[i]
          BY <3>3, <4>2, Filing
        <5>2. Payouts = [k \in DOMAIN made |-> rate * made[k]]
          BY <4>2 DEF Payouts
        <5> QED BY <4>2, <5>1, <5>2 DEF Filed, Foreign, OnFile
      <4>3. Filed' = TRUE /\ UNCHANGED <<kind, Foreign, Payouts>>
        BY <2>0, <3>1, <3>3 DEF Filed, Foreign
      <4> QED BY <2>1, <4>1, <4>2, <4>3 DEF Promise!File, Filed, Foreign, OnFile
    <3> QED BY <2>2, <3>2, <3>3, RecordSteps
  <2>3. ASSUME UNCHANGED <<status, recorded, recordedIn>>,
               Payouts = <<>> \/ (kind = "REFUND" /\ Payouts[1] = 0),
               Payouts' \in Seq(Nat), Len(Payouts') = Len(Payouts) + 1,
               \A i \in DOMAIN Payouts : Payouts'[i] = Payouts[i]
        PROVE  Promise!Pay
    BY <2>0, <2>3 DEF Promise!Pay, Foreign, Filed, OnFile, Value
  <2>4. ASSUME Next, kind \in Money, NEW y \in Amounts, made' = Append(made, y), drafts' = drafts,
               made = <<>> \/ Barren
        PROVE  Promise!Pay
    <3>1. Len(made') = Len(made) + 1 /\ made' # made
      <4>1. Len(made') = Len(made) + 1 /\ Len(made) \in Nat
        BY <2>0, <2>4
      <4> QED BY <4>1
    <3>2. UNCHANGED <<status, recorded, recordedIn>>
      BY <2>4, <3>1, RecordSteps
    <3>3. /\ Payouts = [i \in DOMAIN made |-> rate * made[i]]
          /\ Payouts' = [i \in DOMAIN made' |-> rate * made'[i]]
      BY <2>0, <2>4 DEF Payouts, Money
    <3>4. /\ DOMAIN made = 1..Len(made) /\ DOMAIN made' = 1..(Len(made) + 1) /\ Len(made) \in Nat
          /\ \A i \in DOMAIN made : made'[i] = made[i]
      BY <2>0, <2>4
    <3>5. \A i \in DOMAIN made' : rate * made'[i] \in Nat
      BY <2>0, RatesMultiply
    <3>6. Payouts' \in Seq(Nat) /\ Len(Payouts') = Len(Payouts) + 1
      <4>1. Payouts' \in [1..(Len(made) + 1) -> Nat]
        BY <3>3, <3>4, <3>5
      <4>2. Payouts' \in Seq(Nat) /\ Len(Payouts') = Len(made) + 1
        BY <3>4, <4>1
      <4>3. Len(Payouts) = Len(made)
        BY <3>3, <3>4
      <4> QED BY <4>2, <4>3
    <3>7. \A i \in DOMAIN Payouts : Payouts'[i] = Payouts[i]
      BY <3>3, <3>4
    <3>8. Payouts = <<>> \/ (kind = "REFUND" /\ Payouts[1] = 0)
      <4>1. CASE made = <<>>
        BY <3>3, <4>1
      <4>2. CASE made # <<>> /\ kind = "REFUND" /\ made[1] = 0
        <5>1. 1 \in DOMAIN made /\ rate * 0 = 0
          BY <2>0, <4>2, RatesMultiply
        <5> QED BY <3>3, <4>2, <5>1
      <4> QED BY <2>4, <4>1, <4>2 DEF Barren
    <3> QED BY <2>3, <3>2, <3>6, <3>7, <3>8
  <2>5. ASSUME Next, kind = "EXCHANGE", made' = made, drafts' = drafts + 1
        PROVE  [Promise!Pay]_<<kind, Foreign, Payouts, Filed, OnFile>>
    <3>1. UNCHANGED <<status, recorded, recordedIn>>
      BY <2>0, <2>5, RecordSteps
    <3>2. CASE drafts = 0
      <4>1. Payouts = <<>> /\ Payouts' = <<0>>
        BY <2>0, <2>5, <3>2 DEF Payouts
      <4>2. Payouts' \in Seq(Nat) /\ Len(Payouts') = Len(Payouts) + 1
            /\ \A i \in DOMAIN Payouts : Payouts'[i] = Payouts[i]
        BY <4>1
      <4> QED BY <2>3, <3>1, <4>1, <4>2
    <3>3. CASE drafts > 0
      <4>1. Payouts' = Payouts
        BY <2>0, <2>5, <3>3 DEF Payouts
      <4> QED BY <2>0, <3>1, <4>1 DEF Foreign, Filed, OnFile, Value
    <3> QED BY <2>0, <3>2, <3>3
  <2>6. CASE UNCHANGED vars
    BY <2>6 DEF vars, db, row, shop, Payouts, Foreign, Filed, OnFile, Value
  <2>7. CASE Next
    BY <2>2, <2>4, <2>5, <2>7, PaymentSteps, KeyLasts
  <2> QED BY <2>6, <2>7
<1> QED
  BY <1>1, <1>2, TypeCorrect, Invariance, KeyInvariance, PTL
  DEF Spec, PaysOutOnce, Promise!Spec, Foreign, Filed, OnFile

-----------------------------------------------------------------------------
(* The division of a refund over the payments of the order.                *)

\* The smaller of two.
LEMMA MinOfTwo ==
  ASSUME NEW x \in Int, NEW y \in Int
  PROVE  Min({x, y}) = IF x <= y THEN x ELSE y
<1>1. \E z \in {x, y} : \A w \in {x, y} : z <= w
  OBVIOUS
<1>2. Min({x, y}) \in {x, y} /\ \A w \in {x, y} : Min({x, y}) <= w
  BY <1>1, Zenon DEF Min
<1> QED BY <1>2

\* One of two.
LEMMA MaxOfTwo ==
  ASSUME NEW x \in Int, NEW y \in Int
  PROVE  Max({x, y}) \in {x, y}
<1>1. \E z \in {x, y} : \A w \in {x, y} : z >= w
  OBVIOUS
<1> QED BY <1>1, Zenon DEF Max

\* The running sums of up to three amounts are what their name says.
LEMMA Summed ==
  ASSUME NEW n \in 0..3, NEW amounts \in [1..n -> Int], Len(amounts) = n
  PROVE  Total(amounts) = (IF n >= 1 THEN amounts[1] ELSE 0) + (IF n >= 2 THEN amounts[2] ELSE 0)
                            + (IF n = 3 THEN amounts[3] ELSE 0)
<1> DEFINE first  == IF n >= 1 THEN amounts[1] ELSE 0
           second == IF n >= 2 THEN amounts[2] ELSE 0
           third  == IF n = 3 THEN amounts[3] ELSE 0
           sums   == [i \in 0..n |-> IF i = 0 THEN 0 ELSE IF i = 1 THEN first
                                     ELSE IF i = 2 THEN first + second ELSE first + second + third]
           Step(g) == [i \in 0..n |-> IF i = 0 THEN 0 ELSE g[i - 1] + amounts[i]]
<1>1. first \in Int /\ second \in Int /\ third \in Int
  OBVIOUS
<1>2. sums = Step(sums)
  <2> SUFFICES ASSUME NEW i \in 0..n PROVE sums[i] = Step(sums)[i]
    OBVIOUS
  <2>1. CASE i = 0
    BY <2>1
  <2>2. CASE i = 1
    BY <2>2
  <2>3. CASE i = 2
    BY <2>3
  <2>4. CASE i = 3
    BY <2>4
  <2> QED BY <2>1, <2>2, <2>3, <2>4
<1>3. \E g : g = Step(g)
  BY <1>2
<1> DEFINE run == CHOOSE g : g = Step(g)
<1>4. run = Step(run)
  BY <1>3, Zenon
<1>5. RunningSums(amounts) = run
  BY Zenon DEF RunningSums
<1> HIDE DEF run
<1>6. run[0] = 0 /\ (n >= 1 => run[1] = run[0] + amounts[1])
      /\ (n >= 2 => run[2] = run[1] + amounts[2]) /\ (n = 3 => run[3] = run[2] + amounts[3])
  BY <1>4
<1> QED BY <1>5, <1>6 DEF Total

\* A share is the exact one, rounded to the nearest penny.
LEMMA ShareRounds ==
  ASSUME NEW a \in Nat, NEW p \in Nat, NEW t \in Nat \ {0}
  PROVE  /\ Share(a, p, t) \in Nat
         /\ 2 * t * Share(a, p, t) <= 2 * a * p + t
         /\ 2 * a * p + t < 2 * t * Share(a, p, t) + 2 * t
<1> DEFINE x == 2 * a * p + t
           d == 2 * t
<1>1. x \in Nat /\ d \in Nat /\ d > 0
  OBVIOUS
<1>2. Share(a, p, t) = x \div d
  BY DEF Share
<1> HIDE DEF x, d
<1>3. x \div d \in Nat /\ d * (x \div d) <= x /\ x < d * (x \div d) + d
  BY <1>1
<1> QED BY <1>1, <1>2, <1>3 DEF x, d

\* A share never gets near its payment's limit while the refund is covered, so
\* that the cap does nothing; and a refund of nothing has no shares.
LEMMA ShareWithinPayment ==
  ASSUME NEW a \in Nat, NEW p \in Nat, NEW t \in Nat \ {0}, a <= t
  PROVE  /\ Share(a, p, t) <= p
         /\ a = 0 => Share(a, p, t) = 0
<1> DEFINE q == Share(a, p, t)
<1>1. q \in Nat /\ 2 * t * q <= 2 * a * p + t
  BY ShareRounds
<1> HIDE DEF q
<1>2. a * p <= t * p /\ t * p \in Nat /\ a * p \in Nat /\ t * q \in Nat
  BY <1>1
<1>3. 2 * (t * q) <= 2 * (a * p) + t
  BY <1>1
<1>4. q <= p
  <2> SUFFICES ASSUME q >= p + 1 PROVE FALSE
    BY <1>1
  <2>1. t * q >= t * (p + 1)
    BY <1>1
  <2>2. t * (p + 1) = t * p + t
    OBVIOUS
  <2> QED BY <1>2, <1>3, <2>1, <2>2
<1>5. ASSUME a = 0 PROVE q = 0
  <2> SUFFICES ASSUME q >= 1 PROVE FALSE
    BY <1>1
  <2>1. t * q >= t
    BY <1>1
  <2> QED BY <1>2, <1>3, <1>5, <2>1
<1> QED BY <1>4, <1>5 DEF q

\* What up to two shares leave for the last payment is not negative, fits it,
\* and is within a penny of its own share.
LEMMA RestFits ==
  ASSUME NEW a \in Nat, NEW p1 \in Nat, NEW p2 \in Nat, NEW p3 \in Nat \ {0},
         NEW t, t = p1 + p2 + p3, a <= t,
         NEW rest, rest = a - (Share(a, p1, t) + Share(a, p2, t))
  PROVE  /\ rest \in 0..p3
         /\ rest * t - a * p3 <= t
         /\ a * p3 - rest * t <= t
<1> DEFINE q1 == Share(a, p1, t)
           q2 == Share(a, p2, t)
<1>0. t \in Nat \ {0}
  OBVIOUS
<1>1. /\ q1 \in Nat /\ 2 * t * q1 <= 2 * a * p1 + t /\ 2 * a * p1 + t < 2 * t * q1 + 2 * t
      /\ q2 \in Nat /\ 2 * t * q2 <= 2 * a * p2 + t /\ 2 * a * p2 + t < 2 * t * q2 + 2 * t
      /\ a = 0 => q1 = 0 /\ q2 = 0
  BY <1>0, ShareRounds, ShareWithinPayment
<1>2. rest = a - (q1 + q2)
  OBVIOUS
<1> HIDE DEF q1, q2
<1>3. /\ a * t = a * p1 + a * p2 + a * p3 /\ a * t = t * a
      /\ rest * t = t * a - t * q1 - t * q2
      /\ {a * p1, a * p2, a * p3, t * q1, t * q2, t * a} \subseteq Nat /\ rest \in Int
  BY <1>0, <1>1, <1>2
<1>4. /\ 2 * (t * q1) <= 2 * (a * p1) + t /\ 2 * (a * p1) < 2 * (t * q1) + t
      /\ 2 * (t * q2) <= 2 * (a * p2) + t /\ 2 * (a * p2) < 2 * (t * q2) + t
  BY <1>0, <1>1
<1>5. rest * t >= a * p3 - t /\ rest * t < a * p3 + t
  BY <1>0, <1>3, <1>4
<1>6. rest >= 0
  <2> SUFFICES ASSUME rest <= -1 PROVE FALSE
    BY <1>3
  <2>1. rest * t <= -t
    BY <1>0, <1>3
  <2>2. a * p3 = 0
    BY <1>0, <1>3, <1>5, <2>1
  <2>3. a = 0
    BY <2>2
  <2> QED BY <1>1, <1>2, <2>3
<1>7. rest <= p3
  <2> SUFFICES ASSUME rest >= p3 + 1 PROVE FALSE
    BY <1>3
  <2>1. rest * t >= (p3 + 1) * t
    BY <1>0, <1>3
  <2>2. (p3 + 1) * t = t * p3 + t /\ a * p3 <= t * p3
    BY <1>0
  <2>3. t * p3 \in Nat /\ rest * t \in Int
    BY <1>0, <1>3
  <2> QED BY <1>0, <1>3, <1>5, <2>1, <2>2, <2>3
<1> QED BY <1>0, <1>3, <1>5, <1>6, <1>7

\* Any refund that up to three payments can take is sent to the penny.
LEMMA SplitExact ==
  ASSUME NEW n \in 1..3, NEW paid \in [1..n -> Nat \ {0}], Len(paid) = n,
         NEW a \in Nat, a <= Total(paid)
  PROVE  Exact(a, paid)
<1> DEFINE t     == Total(paid)
           share == [i \in 1..n |-> Share(a, paid[i], t)]
           first == [i \in 1..(n - 1) |-> Capped(a, paid, i)]
           q1    == IF n >= 2 THEN share[1] ELSE 0
           q2    == IF n = 3 THEN share[2] ELSE 0
           rest  == a - (q1 + q2)
           parts == Split(a, paid)
<1>1. /\ t = (IF n >= 1 THEN paid[1] ELSE 0) + (IF n >= 2 THEN paid[2] ELSE 0) + (IF n = 3 THEN paid[3] ELSE 0)
      /\ t \in Nat \ {0}
  <2>1. paid \in [1..n -> Int] /\ n \in 0..3
    OBVIOUS
  <2>2. t = (IF n >= 1 THEN paid[1] ELSE 0) + (IF n >= 2 THEN paid[2] ELSE 0) + (IF n = 3 THEN paid[3] ELSE 0)
    BY <2>1, Summed
  <2> QED BY <2>2
<1>2. \A i \in 1..n : share[i] \in Nat /\ share[i] <= paid[i] /\ Capped(a, paid, i) = share[i]
  <2> SUFFICES ASSUME NEW i \in 1..n
               PROVE  share[i] \in Nat /\ share[i] <= paid[i] /\ Capped(a, paid, i) = share[i]
    OBVIOUS
  <2>1. Share(a, paid[i], t) \in Nat /\ Share(a, paid[i], t) <= paid[i] /\ paid[i] \in Nat
    BY <1>1, ShareRounds, ShareWithinPayment
  <2>2. Capped(a, paid, i) = Share(a, paid[i], t)
    BY <2>1, MinOfTwo DEF Capped
  <2> QED BY <2>1, <2>2
<1>3. first \in [1..(n - 1) -> Nat] /\ \A i \in 1..(n - 1) : first[i] = share[i]
  BY <1>2
<1>4. Total(first) = q1 + q2
  <2>1. n - 1 \in 0..3 /\ Len(first) = n - 1 /\ first \in [1..(n - 1) -> Int]
    BY <1>3
  <2>2. Total(first) = (IF n - 1 >= 1 THEN first[1] ELSE 0) + (IF n - 1 >= 2 THEN first[2] ELSE 0)
                         + (IF n - 1 = 3 THEN first[3] ELSE 0)
    BY <2>1, Summed
  <2>3. share[1] \in Nat /\ (n = 3 => share[2] \in Nat)
    BY <1>2
  <2> HIDE DEF first, share
  <2> QED BY <1>3, <2>2, <2>3
<1>5. rest \in 0..paid[n] /\ rest * t - a * paid[n] <= t /\ a * paid[n] - rest * t <= t
  <2> DEFINE p1 == IF n >= 2 THEN paid[1] ELSE 0
             p2 == IF n = 3 THEN paid[2] ELSE 0
  <2>1. p1 \in Nat /\ p2 \in Nat /\ paid[n] \in Nat \ {0} /\ t = p1 + p2 + paid[n]
    BY <1>1
  <2>2. Share(a, 0, t) = 0
    <3>1. a \in Nat /\ 0 \in Nat /\ t \in Nat \ {0} /\ a <= t
      BY <1>1
    <3> HIDE DEF t
    <3>2. Share(a, 0, t) \in Nat /\ Share(a, 0, t) <= 0
      BY <3>1, ShareRounds, ShareWithinPayment
    <3> QED BY <3>2
  <2>3. q1 = Share(a, p1, t) /\ q2 = Share(a, p2, t)
    BY <2>2
  <2>4. a <= t /\ rest = a - (Share(a, p1, t) + Share(a, p2, t))
    BY <2>3
  <2> HIDE DEF p1, p2, rest, t
  <2> QED BY <2>1, <2>4, RestFits
<1>6. parts = [i \in 1..n |-> IF i < n THEN share[i] ELSE rest]
  <2>1. Min({a - Total(first), paid[n]}) = rest
    <3>1. a - Total(first) = rest /\ rest \in Int /\ paid[n] \in Int /\ rest <= paid[n]
      BY <1>4, <1>5
    <3> HIDE DEF rest, first
    <3> QED BY <3>1, MinOfTwo
  <2>2. parts = [i \in 1..n |-> IF i < n THEN first[i] ELSE Min({a - Total(first), paid[n]})]
    BY DEF Split
  <2> HIDE DEF first, share, rest, parts
  <2>3. \A i \in 1..n : i < n => first[i] = share[i]
    BY <1>3
  <2> QED BY <2>1, <2>2, <2>3
<1>7. q1 \in Nat /\ q2 \in Nat /\ rest \in Int /\ rest = a - (q1 + q2)
  BY <1>2
<1>8. /\ \A i \in 1..n : i < n => parts[i] = share[i]
      /\ parts[n] = rest /\ parts \in [1..n -> Int] /\ Len(parts) = n
  <2> HIDE DEF parts, rest, share
  <2> QED BY <1>2, <1>6, <1>7
<1>9. Total(parts) = a
  <2>1. Total(parts) = (IF n >= 1 THEN parts[1] ELSE 0) + (IF n >= 2 THEN parts[2] ELSE 0)
                         + (IF n = 3 THEN parts[3] ELSE 0)
    <3>1. n \in 0..3
      OBVIOUS
    <3> HIDE DEF parts
    <3> QED BY <1>8, <3>1, Summed
  <2>2. (n >= 2 => parts[1] = q1) /\ (n = 3 => parts[2] = q2)
    <3> HIDE DEF parts, share
    <3> QED BY <1>8
  <2> HIDE DEF parts, share, rest
  <2> QED BY <1>7, <1>8, <2>1, <2>2
<1>10. ASSUME NEW i \in 1..n
       PROVE  /\ parts[i] \in 0..paid[i]
              /\ LET off == Max({parts[i] * t - a * paid[i], a * paid[i] - parts[i] * t})
                 IN  IF i < n THEN 2 * off <= t ELSE off <= t
  <2> DEFINE over  == parts[i] * t - a * paid[i]
             under == a * paid[i] - parts[i] * t
             off   == Max({over, under})
  <2>1. t \in Nat \ {0} /\ paid[i] \in Nat /\ parts[i] \in Int
    <3> HIDE DEF t, parts
    <3> QED BY <1>1, <1>8
  <2>2. parts[i] * t \in Int /\ a * paid[i] \in Int
    <3> HIDE DEF t, parts
    <3> QED BY <2>1
  <2>3. over \in Int /\ under \in Int
    <3> HIDE DEF t, parts
    <3> QED BY <2>2
  <2>4. off = over \/ off = under
    <3> HIDE DEF over, under
    <3> QED BY <2>3, MaxOfTwo
  <2>5. CASE i < n
    <3>1. parts[i] = Share(a, paid[i], t) /\ parts[i] \in Nat /\ parts[i] <= paid[i]
      <4> HIDE DEF parts, t
      <4> QED BY <1>2, <1>8, <2>5
    <3>2. /\ 2 * t * parts[i] <= 2 * a * paid[i] + t
          /\ 2 * a * paid[i] + t < 2 * t * parts[i] + 2 * t
      <4> HIDE DEF parts, t
      <4> QED BY <2>1, <3>1, ShareRounds
    <3>3. 2 * t * parts[i] = 2 * (parts[i] * t) /\ 2 * a * paid[i] = 2 * (a * paid[i])
      <4> HIDE DEF parts, t
      <4> QED BY <2>1
    <3>4. 2 * over <= t /\ 2 * under <= t
      <4> DEFINE x == parts[i] * t
                 y == a * paid[i]
      <4>1. 2 * x <= 2 * y + t /\ 2 * y + t < 2 * x + 2 * t /\ x \in Int /\ y \in Int
        <5> HIDE DEF parts, t
        <5> QED BY <2>2, <3>2, <3>3
      <4> HIDE DEF parts, t, x, y
      <4>2. 2 * (x - y) <= t /\ 2 * (y - x) <= t
        BY <2>1, <4>1
      <4> QED BY <4>2 DEF x, y
    <3>5. 2 * off <= t
      <4> HIDE DEF off, over, under
      <4> QED BY <2>4, <3>4
    <3> HIDE DEF parts, t
    <3> QED BY <2>1, <2>5, <3>1, <3>5
  <2>6. CASE ~(i < n)
    <3>1. i = n
      BY <2>6
    <3>2. parts[i] = rest /\ parts[i] \in 0..paid[i]
      <4> HIDE DEF parts, rest
      <4> QED BY <1>5, <1>8, <3>1
    <3>3. over <= t /\ under <= t
      <4> HIDE DEF parts, rest, t
      <4> QED BY <1>5, <1>8, <3>1
    <3>4. off <= t
      <4> HIDE DEF off, over, under
      <4> QED BY <2>4, <3>3
    <3> HIDE DEF parts, t
    <3> QED BY <2>6, <3>2, <3>4
  <2> QED BY <2>5, <2>6
<1> QED
  <2>1. DOMAIN paid = 1..n
    OBVIOUS
  <2> HIDE DEF parts, t
  <2> QED BY <1>9, <1>10, <2>1 DEF Exact, parts, t

\* Whatever an attempt is about to send, up to three payments take it to the
\* penny.  (For four it is false: 2 over <<1, 1, 1, 1>> sends 3.)
THEOREM SplitsAreExact ==
  ASSUME MaxPayments <= 3
  PROVE  Spec => []SplitIsExact
<1>1. ASSUME NEW amount \in Amounts, NEW paid \in Payments, amount <= Total(paid)
      PROVE  Exact(amount, paid)
  <2>1. PICK n \in 1..MaxPayments : paid \in [1..n -> 1..MaxPayment]
    BY DEF Payments
  <2>2. n \in 1..3 /\ paid \in [1..n -> Nat \ {0}] /\ Len(paid) = n /\ amount \in Nat
    BY <2>1, SplitAssumption DEF Amounts
  <2> QED BY <1>1, <2>2, SplitExact
<1>2. TypeOK => SplitIsExact
  <2> SUFFICES ASSUME TypeOK, NEW a \in Attempts, pc[a] = "send" PROVE amt[a] \in SentExactly
    BY DEF SplitIsExact
  <2>1. amt[a] \in Amounts
    BY DEF TypeOK
  <2> QED BY <1>1, <2>1 DEF SentExactly
<1> QED BY <1>2, TypeCorrect, PTL

=============================================================================
