---------------------------- MODULE PlanSyncProofs ----------------------------
(***************************************************************************)
(* Proofs about PlanSync, for any number of calls, of changes at Shopify,  *)
(* of repeated webhooks and of failures.                                   *)
(***************************************************************************)
EXTENDS PlanSync, FiniteSets, FiniteSetTheorems, TLAPS

\* A write of Shop.plan keeps the plan, the newest news and the flag in shape.
LEMMA WriteTyped ==
  ASSUME TypeOK, NEW p \in Plans, NEW n \in 0..MaxChanges, Write(p, n)
  PROVE  plan' \in Plans /\ latest' \in 0..MaxChanges /\ strayed' \in BOOLEAN
<1>1. plan' \in Plans /\ latest' \in 0..MaxChanges
  BY DEF Write, TypeOK
<1>2. strayed' \in BOOLEAN
  BY Zenon DEF Write, TypeOK
<1> QED BY <1>1, <1>2

\* A record of these parts is a notice.
LEMMA NoticeMade ==
  ASSUME NEW p \in Subscriptions, NEW b \in BOOLEAN, NEW n \in 1..MaxChanges
  PROVE  [plan |-> p, live |-> b, number |-> n] \in Notice
BY Zenon DEF Notice

\* The notice of an end is one, about a plan there was.
LEMMA EndedTyped ==
  ASSUME TypeOK, NEW n \in 1..MaxChanges
  PROVE  Ended(n) \subseteq Notice
<1>1. active \in Subscriptions /\ FALSE \in BOOLEAN
  BY DEF TypeOK
<1>2. [plan |-> active, live |-> FALSE, number |-> n] \in Notice
  BY <1>1, NoticeMade
<1> QED BY <1>2, Zenon DEF Ended

\* The flag of a wiped count stays one, whether a new cycle starts or not.
LEMMA CycleTyped ==
  ASSUME TypeOK, NEW b, NEW p, IF b THEN NewCycle(p) ELSE UNCHANGED cycle
  PROVE  wiped' \in BOOLEAN
<1>1. wiped \in BOOLEAN
  BY DEF TypeOK
<1>2. wiped' = (wiped \/ p = "FREE") \/ wiped' = wiped
  BY Zenon DEF NewCycle, cycle
<1> QED BY <1>1, <1>2, Zenon

\* The plan, Shopify's books, the calls and the counters keep their shape.
THEOREM TypeCorrect == Spec => []TypeOK
<1>1. Init => TypeOK
  <2> SUFFICES ASSUME Init PROVE TypeOK
    OBVIOUS
  <2>1. strayed \in BOOLEAN /\ declined \in BOOLEAN /\ wiped \in BOOLEAN
    BY Zenon DEF Init
  <2>2. notices \subseteq Notice
    BY Zenon DEF Init
  <2>3. /\ plan \in Plans /\ active \in Subscriptions
        /\ pc \in [Calls -> Steps] /\ answer \in [Calls -> Subscriptions]
    BY DEF Init, Plans, Subscriptions, Steps
  <2>4. /\ changes \in 0..MaxChanges /\ known \in [Calls -> 0..MaxChanges] /\ latest \in 0..MaxChanges
        /\ {resets, paid, previews, confirms} \subseteq Nat /\ faults \in 0..MaxFaults
    BY BoundsAssumption DEF Init
  <2> QED BY <2>1, <2>2, <2>3, <2>4 DEF TypeOK
<1>2. TypeOK /\ [Next]_vars => TypeOK'
  <2> SUFFICES ASSUME TypeOK, [Next]_vars PROVE TypeOK'
    OBVIOUS
  <2> USE BoundsAssumption DEF Goto, Fault, NoFault, shopify, cycle
  <2>0. \A n \in notices : n.plan \in Subscriptions /\ n.live \in BOOLEAN /\ n.number \in 0..MaxChanges
    BY DEF TypeOK, Notice
  <2>1. CASE ApprovePlan
    <3>1. PICK p \in Plans \ {active} :
             /\ active' = p
             /\ notices' = notices \cup Ended(changes + 1) \cup {[plan |-> p, live |-> TRUE, number |-> changes + 2]}
      BY <2>1 DEF ApprovePlan
    <3>2. changes + 1 \in 1..MaxChanges /\ changes + 2 \in 1..MaxChanges
      BY <2>1 DEF ApprovePlan, TypeOK
    <3>3. notices' \subseteq Notice
      <4>1. [plan |-> p, live |-> TRUE, number |-> changes + 2] \in Notice
        BY <3>2, NoticeMade DEF Subscriptions
      <4> QED BY <3>1, <3>2, <4>1, EndedTyped DEF TypeOK
    <3> QED BY <2>1, <3>1, <3>2, <3>3 DEF ApprovePlan, TypeOK, Subscriptions
  <2>2. CASE EndPlan
    <3>1. changes + 1 \in 1..MaxChanges
      BY <2>2 DEF EndPlan, TypeOK
    <3> QED BY <2>2, <3>1, EndedTyped DEF EndPlan, TypeOK, Subscriptions
  <2>3. CASE Uninstall
    <3>1. changes + 1 \in 1..MaxChanges
      BY <2>3 DEF Uninstall, TypeOK
    <3>2. notices' \subseteq Notice
      <4>1. [plan |-> "NONE", live |-> FALSE, number |-> changes + 1] \in Notice
        BY <3>1, NoticeMade DEF Subscriptions
      <4> QED BY <2>3, <3>1, <4>1, EndedTyped DEF Uninstall, TypeOK
    <3> QED BY <2>3, <3>1, <3>2 DEF Uninstall, TypeOK, Subscriptions
  <2>4. CASE DeclinePlan
    <3>1. changes + 1 \in 1..MaxChanges
      BY <2>4 DEF DeclinePlan, TypeOK
    <3>2. notices' \subseteq Notice
      <4>1. \A p \in Plans : [plan |-> p, live |-> FALSE, number |-> changes + 1] \in Notice
        BY <3>1, NoticeMade DEF Subscriptions
      <4> QED BY <2>4, <4>1 DEF DeclinePlan, TypeOK
    <3> QED BY <2>4, <3>1, <3>2 DEF DeclinePlan, TypeOK
  <2>5. CASE ApplySubscriptionStatus
    <3>1. PICK n \in notices :
             /\ n.plan # "NONE" /\ Write(IF n.live THEN n.plan ELSE "FREE", n.number)
             /\ IF n.live THEN NewCycle(n.plan) ELSE UNCHANGED cycle
             /\ notices' \subseteq notices /\ faults' \in 0..MaxFaults
      BY <2>5 DEF ApplySubscriptionStatus, TypeOK
    <3>2. (IF n.live THEN n.plan ELSE "FREE") \in Plans
      BY <2>0, <3>1 DEF Plans, Subscriptions
    <3>3. plan' \in Plans /\ latest' \in 0..MaxChanges /\ strayed' \in BOOLEAN
      BY <2>0, <3>1, <3>2, WriteTyped
    <3>4. UNCHANGED <<active, changes, paid, previews, declined, pc, answer, known, confirms>>
      BY <2>5 DEF ApplySubscriptionStatus
    <3>5. notices' \subseteq Notice /\ {resets', paid', previews', confirms'} \subseteq Nat /\ faults' \in 0..MaxFaults
      BY <3>1, <3>4 DEF TypeOK, NewCycle
    <3>6. wiped' \in BOOLEAN
      BY <3>1, CycleTyped
    <3> QED BY <3>3, <3>4, <3>5, <3>6 DEF TypeOK
  <2>6. CASE HandleAppUninstalled
    <3>1. PICK n \in notices :
             Write("FREE", n.number) /\ notices' \subseteq notices /\ faults' \in 0..MaxFaults
      BY <2>6 DEF HandleAppUninstalled, TypeOK
    <3>2. plan' \in Plans /\ latest' \in 0..MaxChanges /\ strayed' \in BOOLEAN
      BY <2>0, <3>1, WriteTyped DEF Plans
    <3>3. UNCHANGED <<active, changes, paid, previews, declined, pc, answer, known, resets, wiped, confirms>>
      BY <2>6 DEF HandleAppUninstalled
    <3> QED BY <3>1, <3>2, <3>3 DEF TypeOK
  <2>7. ASSUME NEW c \in Calls, AskShopify(c) PROVE TypeOK'
    BY <2>7 DEF AskShopify, TypeOK, Steps
  <2>8. ASSUME NEW c \in Calls, Confirm(c) PROVE TypeOK'
    <3>1. PlanOf(answer[c]) \in Plans /\ known[c] \in 0..MaxChanges
      BY DEF PlanOf, Plans, Subscriptions, TypeOK
    <3>2. plan' \in Plans /\ latest' \in 0..MaxChanges /\ strayed' \in BOOLEAN
      BY <2>8, <3>1, WriteTyped DEF Confirm
    <3>3. /\ UNCHANGED <<active, changes, paid, previews, declined, notices, answer, known, faults>>
          /\ pc' \in [Calls -> Steps] /\ {resets', paid', previews', confirms'} \subseteq Nat
      BY <2>8 DEF Confirm, TypeOK, Steps, NewCycle
    <3>4. wiped' \in BOOLEAN
      BY <2>8, CycleTyped DEF Confirm
    <3> QED BY <3>2, <3>3, <3>4 DEF TypeOK
  <2>9. ASSUME NEW c \in Calls, CancelSubscription(c) PROVE TypeOK'
    <3>1. CASE active = answer[c] /\ changes < MaxChanges
      <4>1. changes + 1 \in 1..MaxChanges
        BY <3>1 DEF TypeOK
      <4> QED BY <2>9, <3>1, <4>1, EndedTyped DEF CancelSubscription, TypeOK, Steps, Subscriptions
    <3>2. CASE ~(active = answer[c] /\ changes < MaxChanges)
      BY <2>9, <3>2 DEF CancelSubscription, TypeOK, Steps
    <3> QED BY <3>1, <3>2
  <2>10. ASSUME NEW c \in Calls, Downgrade(c) PROVE TypeOK'
    <3>1. plan' \in Plans /\ latest' \in 0..MaxChanges /\ strayed' \in BOOLEAN
      BY <2>10, WriteTyped DEF Downgrade, Plans, TypeOK
    <3>2. /\ UNCHANGED <<active, changes, paid, previews, declined, notices, answer, known, resets, wiped, confirms, faults>>
          /\ pc' \in [Calls -> Steps]
      BY <2>10 DEF Downgrade, TypeOK, Steps
    <3> QED BY <3>1, <3>2 DEF TypeOK
  <2>11. ASSUME NEW c \in Calls, Fail(c) PROVE TypeOK'
    BY <2>11 DEF Fail, TypeOK, Steps
  <2>12. CASE UNCHANGED vars
    BY <2>12 DEF vars, TypeOK
  <2> QED
    BY <2>1, <2>2, <2>3, <2>4, <2>5, <2>6, <2>7, <2>8, <2>9, <2>10, <2>11, <2>12 DEF Next
<1> QED BY <1>1, <1>2, PTL DEF Spec

-----------------------------------------------------------------------------
(* The plan is the one that is paid for.                                   *)

\* What a notice makes of Shop.plan.
News(n) == IF n.live THEN n.plan ELSE "FREE"

\* Nobody knows of a change that has not happened yet.
BooksInv ==
  /\ \A n \in notices : n.number <= changes /\ (n.plan = "NONE" => ~n.live)
  /\ \A c \in Calls : known[c] <= changes /\ (pc[c] = "cancel" => answer[c] # "NONE")
  /\ latest <= changes

\* Who knows of the last change would write the plan it left.
CarriedInv ==
  /\ \A n \in notices : n.number = changes => News(n) = PlanOf(active)
  /\ \A c \in Calls : known[c] = changes =>
       /\ pc[c] = "confirm" => PlanOf(answer[c]) = PlanOf(active)
       /\ pc[c] = "free" => active = "NONE"

\* The last change has been written, or its notice is still to come.
WrittenInv ==
  /\ latest = changes => plan = PlanOf(active)
  /\ latest < changes => \E n \in notices : n.number = changes

SyncInv == BooksInv /\ (~declined => CarriedInv /\ (~strayed => WrittenInv))

\* A write by somebody who knew of change n, and who would write the plan it
\* left if n is the last one, keeps the last change written or on its way.
LEMMA WriteKeeps ==
  ASSUME TypeOK, BooksInv, NEW p, NEW n \in 0..MaxChanges, n <= changes, Write(p, n),
         UNCHANGED <<changes, active>>,
         n = changes => p = PlanOf(active),
         n # changes => \A m \in notices : m.number = changes => m \in notices',
         ~strayed => WrittenInv
  PROVE  latest' <= changes /\ (~strayed' => WrittenInv')
<1>1. latest' <= changes
  BY DEF Write, BooksInv
<1>2. ASSUME ~strayed' PROVE WrittenInv'
  <2>0. ~strayed /\ ~(n < latest) /\ plan' = p
    BY <1>2, Zenon DEF Write
  <2>1. ~strayed /\ n >= latest /\ plan' = p
    BY <2>0 DEF TypeOK
  <2>2. latest' = n
    BY <2>1 DEF Write, TypeOK
  <2>3. ASSUME latest' = changes' PROVE plan' = PlanOf(active)'
    BY <2>1, <2>2, <2>3 DEF PlanOf
  <2>4. ASSUME latest' < changes' PROVE \E m \in notices' : m.number = changes'
    <3>1. n # changes /\ latest < changes
      BY <2>1, <2>2, <2>4 DEF TypeOK
    <3> QED BY <2>1, <3>1 DEF WrittenInv
  <2> QED BY <2>3, <2>4 DEF WrittenInv
<1> QED BY <1>1, <1>2

\* A change of Shopify's that is announced with the plan it leaves: everybody
\* else's knowledge is older, and the notice is on its way.
LEMMA ChangeKeeps ==
  ASSUME TypeOK, BooksInv, changes' \in Nat, changes' > changes,
         UNCHANGED <<plan, latest, strayed>>,
         \A n \in notices' : n.number <= changes' /\ (n.plan = "NONE" => ~n.live),
         \A n \in notices' : n.number = changes' => News(n) = PlanOf(active'),
         \E n \in notices' : n.number = changes',
         \A c \in Calls : pc'[c] = "cancel" => answer'[c] # "NONE",
         \A c \in Calls : known'[c] = known[c] \/ (pc'[c] = "free" /\ known'[c] <= changes' /\ active' = "NONE")
  PROVE  SyncInv'
<1>1. \A d \in Calls : known[d] \in Nat /\ known[d] <= changes
  BY DEF BooksInv, TypeOK
<1>2. changes \in Nat /\ latest \in Nat /\ latest <= changes
  BY DEF BooksInv, TypeOK
<1>3. BooksInv'
  BY <1>1, <1>2 DEF BooksInv
<1>4. CarriedInv'
  <2>1. \A d \in Calls : known'[d] = changes' => pc'[d] = "free" /\ active' = "NONE"
    BY <1>1, <1>2
  <2> QED BY <2>1 DEF CarriedInv, News, PlanOf
<1>5. WrittenInv'
  BY <1>2 DEF WrittenInv
<1> QED BY <1>3, <1>4, <1>5 DEF SyncInv

\* When everything Shopify had to say has been heard, the plan is the one the
\* merchant pays for, unless older news was written over newer or a charge was
\* declined.
THEOREM PlanIsPaidFor == Spec => []SyncedInOrder
<1>1. Init => SyncInv
  BY BoundsAssumption DEF Init, SyncInv, BooksInv, CarriedInv, WrittenInv, PlanOf
<1>2. TypeOK /\ SyncInv /\ [Next]_vars => SyncInv'
  <2> SUFFICES ASSUME TypeOK, SyncInv, [Next]_vars PROVE SyncInv'
    OBVIOUS
  <2> USE DEF Goto, Fault, NoFault, shopify
  <2>a. BooksInv /\ changes \in 0..MaxChanges
    BY DEF SyncInv, TypeOK
  <2>b. \A n \in notices : n.number <= changes /\ n.number \in 0..MaxChanges /\ (n.plan = "NONE" => ~n.live)
    BY <2>a DEF BooksInv, TypeOK, Notice
  <2>c. \A n \in notices : n.number # changes + 1 /\ n.number # changes + 2
    BY <2>a, <2>b
  <2>1. CASE ApprovePlan
    <3>1. PICK p \in Plans \ {active} :
             /\ active' = p
             /\ notices' = notices \cup Ended(changes + 1) \cup {[plan |-> p, live |-> TRUE, number |-> changes + 2]}
      BY <2>1 DEF ApprovePlan
    <3> DEFINE made == [plan |-> p, live |-> TRUE, number |-> changes + 2]
    <3>2. /\ changes' = changes + 2 /\ changes' \in Nat /\ changes' > changes
          /\ UNCHANGED <<plan, latest, strayed, pc, answer, known>>
      BY <2>1, <2>a DEF ApprovePlan
    <3>3. made \in notices' /\ made.number = changes' /\ News(made) = PlanOf(active')
      BY <3>1, <3>2 DEF News, PlanOf, Plans
    <3>4. \A n \in notices' : \/ n \in notices
                              \/ n.number = changes + 1 /\ ~n.live
                              \/ n = made
      BY <3>1 DEF Ended
    <3>5. \A n \in notices' : n.number <= changes' /\ (n.plan = "NONE" => ~n.live)
      BY <2>a, <2>b, <3>2, <3>4 DEF Plans
    <3>6. \A n \in notices' : n.number = changes' => News(n) = PlanOf(active')
      <4>1. \A n \in notices' : n.number = changes' => n = made
        BY <2>a, <2>c, <3>2, <3>4
      <4> QED BY <3>3, <4>1
    <3>7. \E n \in notices' : n.number = changes'
      BY <3>3
    <3>8. /\ \A c \in Calls : pc'[c] = "cancel" => answer'[c] # "NONE"
          /\ \A c \in Calls : known'[c] = known[c]
      BY <2>a, <3>2 DEF BooksInv
    <3>9. UNCHANGED <<plan, latest, strayed>> /\ changes' \in Nat /\ changes' > changes
      BY <3>2
    <3> QED BY <2>a, <3>5, <3>6, <3>7, <3>8, <3>9, ChangeKeeps
  <2>2. CASE EndPlan
    <3> DEFINE over == [plan |-> active, live |-> FALSE, number |-> changes + 1]
    <3>1. /\ changes' = changes + 1 /\ changes' \in Nat /\ changes' > changes /\ active' = "NONE"
          /\ UNCHANGED <<plan, latest, strayed, pc, answer, known>>
          /\ notices' = notices \cup {over}
      BY <2>2, <2>a DEF EndPlan, Ended
    <3>2. over \in notices' /\ over.number = changes' /\ News(over) = PlanOf(active')
      BY <3>1 DEF News, PlanOf
    <3>3. \A n \in notices' : n.number <= changes' /\ (n.plan = "NONE" => ~n.live)
      BY <2>a, <2>b, <3>1
    <3>4. \A n \in notices' : n.number = changes' => News(n) = PlanOf(active')
      BY <2>c, <3>1, <3>2
    <3>7. \E n \in notices' : n.number = changes'
      BY <3>2
    <3>8. /\ \A c \in Calls : pc'[c] = "cancel" => answer'[c] # "NONE"
          /\ \A c \in Calls : known'[c] = known[c]
      BY <2>a, <3>1 DEF BooksInv
    <3>9. UNCHANGED <<plan, latest, strayed>> /\ changes' \in Nat /\ changes' > changes
      BY <3>1
    <3> QED BY <2>a, <3>3, <3>4, <3>7, <3>8, <3>9, ChangeKeeps
  <2>3. CASE Uninstall
    <3> DEFINE gone == [plan |-> "NONE", live |-> FALSE, number |-> changes + 1]
    <3>1. /\ changes' = changes + 1 /\ changes' \in Nat /\ changes' > changes /\ active' = "NONE"
          /\ UNCHANGED <<plan, latest, strayed, pc, answer, known>>
          /\ gone \in notices'
          /\ \A n \in notices' : n \in notices \/ (n.number = changes + 1 /\ ~n.live)
      BY <2>3, <2>a DEF Uninstall, Ended
    <3>2. gone.number = changes' /\ News(gone) = PlanOf(active')
      BY <3>1 DEF News, PlanOf
    <3>3. \A n \in notices' : n.number <= changes' /\ (n.plan = "NONE" => ~n.live)
      BY <2>a, <2>b, <3>1
    <3>4. \A n \in notices' : n.number = changes' => News(n) = PlanOf(active')
      BY <2>c, <3>1 DEF News, PlanOf
    <3>7. \E n \in notices' : n.number = changes'
      BY <3>1, <3>2
    <3>8. /\ \A c \in Calls : pc'[c] = "cancel" => answer'[c] # "NONE"
          /\ \A c \in Calls : known'[c] = known[c]
      BY <2>a, <3>1 DEF BooksInv
    <3>9. UNCHANGED <<plan, latest, strayed>> /\ changes' \in Nat /\ changes' > changes
      BY <3>1
    <3> QED BY <2>a, <3>3, <3>4, <3>7, <3>8, <3>9, ChangeKeeps
  <2>4. CASE DeclinePlan
    <3>1. /\ changes' = changes + 1 /\ declined'
          /\ UNCHANGED <<latest, pc, answer, known>>
          /\ \A n \in notices' : n \in notices \/ (n.number = changes + 1 /\ ~n.live)
      BY <2>4 DEF DeclinePlan
    <3>2. BooksInv'
      BY <2>a, <2>b, <3>1 DEF BooksInv, TypeOK
    <3> QED BY <3>1, <3>2 DEF SyncInv
  <2>5. CASE ApplySubscriptionStatus
    <3>1. PICK n \in notices :
             /\ Write(News(n), n.number)
             /\ notices' = notices \ {n} \/ notices' = notices
      BY <2>5 DEF ApplySubscriptionStatus, News
    <3>2. UNCHANGED <<changes, active, declined, pc, answer, known>>
      BY <2>5 DEF ApplySubscriptionStatus
    <3>3. \A m \in notices : m.number = changes /\ n.number # changes => m \in notices'
      BY <3>1
    <3>4. latest' <= changes /\ (~declined /\ CarriedInv /\ (~strayed => WrittenInv) => (~strayed' => WrittenInv'))
      <4>1. ASSUME ~declined, CarriedInv, ~strayed => WrittenInv PROVE ~strayed' => WrittenInv'
        BY <2>a, <2>b, <3>1, <3>2, <3>3, <4>1, WriteKeeps DEF CarriedInv
      <4>2. latest' <= changes
        BY <2>a, <2>b, <3>1 DEF Write, BooksInv
      <4> QED BY <4>1, <4>2
    <3>5. BooksInv'
      BY <2>a, <3>1, <3>2, <3>4 DEF BooksInv
    <3>6. CarriedInv => CarriedInv'
      BY <3>1, <3>2 DEF CarriedInv, PlanOf, News
    <3> QED BY <3>2, <3>4, <3>5, <3>6 DEF SyncInv
  <2>6. CASE HandleAppUninstalled
    <3>1. PICK n \in notices :
             /\ n.plan = "NONE" /\ Write("FREE", n.number)
             /\ notices' = notices \ {n} \/ notices' = notices
      BY <2>6 DEF HandleAppUninstalled
    <3>2. UNCHANGED <<changes, active, declined, pc, answer, known>>
      BY <2>6 DEF HandleAppUninstalled
    <3>3. \A m \in notices : m.number = changes /\ n.number # changes => m \in notices'
      BY <3>1
    <3>4. News(n) = "FREE"
      BY <2>b, <3>1 DEF News
    <3>5. latest' <= changes /\ (~declined /\ CarriedInv /\ (~strayed => WrittenInv) => (~strayed' => WrittenInv'))
      <4>1. ASSUME ~declined, CarriedInv, ~strayed => WrittenInv PROVE ~strayed' => WrittenInv'
        BY <2>a, <2>b, <3>1, <3>2, <3>3, <3>4, <4>1, WriteKeeps DEF CarriedInv
      <4>2. latest' <= changes
        BY <2>a, <2>b, <3>1 DEF Write, BooksInv
      <4> QED BY <4>1, <4>2
    <3>6. BooksInv'
      BY <2>a, <3>1, <3>2, <3>5 DEF BooksInv
    <3>7. CarriedInv => CarriedInv'
      BY <3>1, <3>2 DEF CarriedInv, PlanOf, News
    <3> QED BY <3>2, <3>5, <3>6, <3>7 DEF SyncInv
  <2>7. ASSUME NEW c \in Calls, AskShopify(c) PROVE SyncInv'
    <3>1. /\ UNCHANGED <<plan, shopify, notices, latest, strayed>>
          /\ \A d \in Calls \ {c} : pc'[d] = pc[d] /\ answer'[d] = answer[d] /\ known'[d] = known[d]
          /\ answer'[c] = active /\ known'[c] = changes
          /\ pc'[c] \in {"confirm", "cancel", "free"}
          /\ pc'[c] = "cancel" => active # "NONE"
          /\ pc'[c] = "free" => active = "NONE"
      BY <2>7 DEF AskShopify, TypeOK
    <3>2. BooksInv'
      BY <2>a, <3>1 DEF BooksInv
    <3>3. CarriedInv => CarriedInv'
      BY <3>1 DEF CarriedInv, News, PlanOf
    <3>4. WrittenInv => WrittenInv'
      BY <3>1 DEF WrittenInv, PlanOf
    <3> QED BY <3>1, <3>2, <3>3, <3>4 DEF SyncInv
  <2>8. ASSUME NEW c \in Calls, Confirm(c) PROVE SyncInv'
    <3>1. /\ UNCHANGED <<changes, active, declined, notices, answer, known>>
          /\ pc[c] = "confirm" /\ Write(PlanOf(answer[c]), known[c])
          /\ pc'[c] = "done" /\ \A d \in Calls \ {c} : pc'[d] = pc[d]
      BY <2>8 DEF Confirm, TypeOK
    <3>2. known[c] \in 0..MaxChanges /\ known[c] <= changes
      BY <2>a DEF BooksInv, TypeOK
    <3>3. latest' <= changes
      BY <2>a, <3>1, <3>2 DEF Write, BooksInv
    <3>4. ASSUME ~declined, CarriedInv, ~strayed => WrittenInv PROVE ~strayed' => WrittenInv'
      BY <2>a, <3>1, <3>2, <3>4, WriteKeeps DEF CarriedInv
    <3>5. BooksInv'
      BY <2>a, <3>1, <3>3 DEF BooksInv
    <3>6. CarriedInv => CarriedInv'
      BY <3>1 DEF CarriedInv, News, PlanOf
    <3> QED BY <3>1, <3>4, <3>5, <3>6 DEF SyncInv
  <2>9. ASSUME NEW c \in Calls, CancelSubscription(c) PROVE SyncInv'
    <3>1. CASE active = answer[c] /\ changes < MaxChanges
      <4> DEFINE over == [plan |-> active, live |-> FALSE, number |-> changes + 1]
      <4>1. active # "NONE"
        BY <2>9, <2>a, <3>1 DEF CancelSubscription, BooksInv
      <4>2. /\ changes' = changes + 1 /\ changes' \in Nat /\ changes' > changes /\ active' = "NONE"
            /\ UNCHANGED <<plan, latest, strayed, answer>>
            /\ notices' = notices \cup {over}
            /\ pc'[c] = "free" /\ known'[c] = changes'
            /\ \A d \in Calls \ {c} : pc'[d] = pc[d] /\ known'[d] = known[d]
        BY <2>9, <2>a, <3>1, <4>1 DEF CancelSubscription, Ended, TypeOK
      <4>3. over \in notices' /\ over.number = changes' /\ News(over) = PlanOf(active')
        BY <4>2 DEF News, PlanOf
      <4>4. \A n \in notices' : n.number <= changes' /\ (n.plan = "NONE" => ~n.live)
        BY <2>a, <2>b, <4>2
      <4>5. \A n \in notices' : n.number = changes' => News(n) = PlanOf(active')
        BY <2>c, <4>2, <4>3
      <4>6. \A d \in Calls : pc'[d] = "cancel" => answer'[d] # "NONE"
        BY <2>a, <4>2 DEF BooksInv
      <4>7. \A d \in Calls : known'[d] = known[d] \/ (pc'[d] = "free" /\ known'[d] <= changes' /\ active' = "NONE")
        BY <4>2
      <4>8. \E n \in notices' : n.number = changes'
        BY <4>3
      <4>9. UNCHANGED <<plan, latest, strayed>> /\ changes' \in Nat /\ changes' > changes
        BY <4>2
      <4> QED BY <2>a, <4>4, <4>5, <4>6, <4>7, <4>8, <4>9, ChangeKeeps
    <3>2. CASE ~(active = answer[c] /\ changes < MaxChanges)
      <4>1. /\ UNCHANGED <<plan, active, changes, notices, answer, known, latest, strayed, declined>>
            /\ pc'[c] = "done" /\ \A d \in Calls \ {c} : pc'[d] = pc[d]
        BY <2>9, <3>2 DEF CancelSubscription, TypeOK
      <4>2. BooksInv'
        BY <2>a, <4>1 DEF BooksInv
      <4>3. (CarriedInv => CarriedInv') /\ (WrittenInv => WrittenInv')
        BY <4>1 DEF CarriedInv, WrittenInv, News, PlanOf
      <4> QED BY <4>1, <4>2, <4>3 DEF SyncInv
    <3> QED BY <3>1, <3>2
  <2>10. ASSUME NEW c \in Calls, Downgrade(c) PROVE SyncInv'
    <3>1. /\ UNCHANGED <<changes, active, declined, notices, answer, known>>
          /\ pc[c] = "free" /\ Write("FREE", known[c])
          /\ pc'[c] = "done" /\ \A d \in Calls \ {c} : pc'[d] = pc[d]
      BY <2>10 DEF Downgrade, TypeOK
    <3>2. known[c] \in 0..MaxChanges /\ known[c] <= changes
      BY <2>a DEF BooksInv, TypeOK
    <3>3. latest' <= changes
      BY <2>a, <3>1, <3>2 DEF Write, BooksInv
    <3>4. ASSUME ~declined, CarriedInv, ~strayed => WrittenInv PROVE ~strayed' => WrittenInv'
      <4>1. known[c] = changes => "FREE" = PlanOf(active)
        BY <3>1, <3>4 DEF CarriedInv, PlanOf
      <4> QED BY <2>a, <3>1, <3>2, <3>4, <4>1, WriteKeeps
    <3>5. BooksInv'
      BY <2>a, <3>1, <3>3 DEF BooksInv
    <3>6. CarriedInv => CarriedInv'
      BY <3>1 DEF CarriedInv, News, PlanOf
    <3> QED BY <3>1, <3>4, <3>5, <3>6 DEF SyncInv
  <2>11. ASSUME NEW c \in Calls, Fail(c) PROVE SyncInv'
    <3>1. /\ UNCHANGED <<plan, active, changes, notices, answer, known, latest, strayed, declined>>
          /\ pc'[c] = "done" /\ \A d \in Calls \ {c} : pc'[d] = pc[d]
      BY <2>11 DEF Fail, TypeOK
    <3>2. BooksInv'
      BY <2>a, <3>1 DEF BooksInv
    <3>3. (CarriedInv => CarriedInv') /\ (WrittenInv => WrittenInv')
      BY <3>1 DEF CarriedInv, WrittenInv, News, PlanOf
    <3> QED BY <3>1, <3>2, <3>3 DEF SyncInv
  <2>12. CASE UNCHANGED vars
    BY <2>12 DEF vars, SyncInv, BooksInv, CarriedInv, WrittenInv, News, PlanOf
  <2> QED
    BY <2>1, <2>2, <2>3, <2>4, <2>5, <2>6, <2>7, <2>8, <2>9, <2>10, <2>11, <2>12 DEF Next
<1>3. TypeOK /\ SyncInv => SyncedInOrder
  <2> SUFFICES ASSUME TypeOK, SyncInv, Quiet, ~strayed, ~declined PROVE plan = PlanOf(active)
    BY DEF SyncedInOrder
  <2>1. WrittenInv /\ latest <= changes /\ notices = {}
    BY DEF SyncInv, BooksInv, Quiet
  <2>2. latest = changes
    BY <2>1 DEF WrittenInv, TypeOK
  <2> QED BY <2>1, <2>2 DEF WrittenInv
<1> QED BY <1>1, <1>2, <1>3, TypeCorrect, PTL DEF Spec

-----------------------------------------------------------------------------
(* Resets of the monthly counter are earned.                               *)

\* The notices that will reset the counter when they are heard.
Live == {n \in notices : n.live}

\* Each has been paid for by the activation it is about.
EarnedInv == IsFiniteSet(notices) /\ resets + Cardinality(Live) <= paid + previews + confirms + faults

\* Notices that say a subscription is over reset nothing.
LEMMA DeadNotices ==
  ASSUME EarnedInv, UNCHANGED <<resets, paid, previews, confirms, faults>>, NEW S,
         notices' = notices \cup S, IsFiniteSet(S), \A n \in S : ~n.live
  PROVE  EarnedInv'
<1>1. IsFiniteSet(notices')
  BY FS_Union DEF EarnedInv
<1>2. Live' = Live
  BY DEF Live
<1> QED BY <1>1, <1>2 DEF EarnedInv

\* An end is announced by at most one notice.
LEMMA EndedDead ==
  ASSUME NEW n
  PROVE  IsFiniteSet(Ended(n)) /\ \A m \in Ended(n) : ~m.live
<1> DEFINE over == [plan |-> active, live |-> FALSE, number |-> n]
<1>1. IsFiniteSet({}) /\ IsFiniteSet({over})
  <2> HIDE DEF over
  <2> QED BY FS_EmptySet, FS_Singleton
<1>2. Ended(n) = {} \/ Ended(n) = {over}
  BY DEF Ended
<1>3. ~over.live
  OBVIOUS
<1> QED BY <1>1, <1>2, <1>3

\* While no free plan has been active at Shopify, nobody has heard of one, and
\* no new cycle has left the shop on FREE.
FreeInv ==
  previews = 0 => /\ active # "FREE" /\ ~wiped
                  /\ \A n \in notices : n.live => n.plan # "FREE"
                  /\ \A c \in Calls : answer[c] # "FREE"

\* Nothing makes a free plan known but its activation.
LEMMA OnlyPreviewsAreFree == Spec => []FreeInv
<1>1. Init => FreeInv
  BY Zenon DEF Init, FreeInv
<1>2. TypeOK /\ FreeInv /\ [Next]_vars => FreeInv'
  <2> SUFFICES ASSUME TypeOK, FreeInv, [Next]_vars, previews' = 0
               PROVE  /\ active' # "FREE" /\ ~wiped'
                      /\ \A n \in notices' : n.live => n.plan # "FREE"
                      /\ \A c \in Calls : answer'[c] # "FREE"
    BY DEF FreeInv
  <2> USE DEF shopify, cycle
  <2>1. CASE ApprovePlan
    <3>1. PICK p \in Plans \ {active} :
             /\ active' = p
             /\ notices' = notices \cup Ended(changes + 1) \cup {[plan |-> p, live |-> TRUE, number |-> changes + 2]}
             /\ IF p = "FREE" THEN previews' = previews + 1 ELSE previews' = previews
      BY <2>1 DEF ApprovePlan
    <3>2. p # "FREE" /\ previews = 0
      BY <3>1 DEF TypeOK
    <3>3. UNCHANGED <<wiped, answer>>
      BY <2>1 DEF ApprovePlan
    <3> QED BY <3>1, <3>2, <3>3, EndedDead DEF FreeInv
  <2>2. CASE EndPlan
    <3>1. /\ UNCHANGED <<previews, wiped, answer>> /\ active' = "NONE"
          /\ notices' = notices \cup Ended(changes + 1)
      BY <2>2 DEF EndPlan
    <3> QED BY <3>1, EndedDead DEF FreeInv
  <2>3. CASE Uninstall
    <3>1. /\ UNCHANGED <<previews, wiped, answer>> /\ active' = "NONE"
          /\ notices' = notices \cup Ended(changes + 1) \cup {[plan |-> "NONE", live |-> FALSE, number |-> changes + 1]}
      BY <2>3 DEF Uninstall
    <3> QED BY <3>1, EndedDead DEF FreeInv
  <2>4. CASE DeclinePlan
    <3>1. /\ UNCHANGED <<previews, active, wiped, answer>>
          /\ \E p \in Plans : notices' = notices \cup {[plan |-> p, live |-> FALSE, number |-> changes + 1]}
      BY <2>4 DEF DeclinePlan
    <3> QED BY <3>1 DEF FreeInv
  <2>5. CASE ApplySubscriptionStatus
    <3>1. UNCHANGED <<previews, active, answer>> /\ notices' \subseteq notices
      BY <2>5 DEF ApplySubscriptionStatus
    <3>2. PICK n \in notices : IF n.live THEN NewCycle(n.plan) ELSE UNCHANGED cycle
      BY <2>5 DEF ApplySubscriptionStatus
    <3>3. ~wiped /\ (n.live => n.plan # "FREE")
      BY <3>1 DEF FreeInv
    <3>4. ~wiped'
      BY <3>2, <3>3, Zenon DEF NewCycle
    <3> QED BY <3>1, <3>4 DEF FreeInv
  <2>6. CASE HandleAppUninstalled
    <3>1. UNCHANGED <<previews, active, wiped, answer>> /\ notices' \subseteq notices
      BY <2>6 DEF HandleAppUninstalled
    <3> QED BY <3>1 DEF FreeInv
  <2>7. ASSUME NEW c \in Calls, AskShopify(c)
        PROVE  /\ active' # "FREE" /\ ~wiped'
               /\ \A n \in notices' : n.live => n.plan # "FREE"
               /\ \A d \in Calls : answer'[d] # "FREE"
    <3>1. UNCHANGED <<previews, active, wiped, notices>>
      BY <2>7 DEF AskShopify
    <3>2. \A d \in Calls : answer'[d] = answer[d] \/ answer'[d] = active
      BY <2>7 DEF AskShopify, TypeOK
    <3> QED BY <3>1, <3>2 DEF FreeInv
  <2>8. ASSUME NEW c \in Calls, Confirm(c)
        PROVE  /\ active' # "FREE" /\ ~wiped'
               /\ \A n \in notices' : n.live => n.plan # "FREE"
               /\ \A d \in Calls : answer'[d] # "FREE"
    <3>1. UNCHANGED <<previews, active, notices, answer>>
      BY <2>8 DEF Confirm
    <3>2. ~wiped /\ answer[c] # "FREE"
      BY <3>1 DEF FreeInv
    <3>3. NewCycle(answer[c]) \/ UNCHANGED cycle
      BY <2>8 DEF Confirm
    <3>4. ~wiped'
      BY <3>2, <3>3, Zenon DEF NewCycle
    <3> QED BY <3>1, <3>4 DEF FreeInv
  <2>9. ASSUME NEW c \in Calls, CancelSubscription(c)
        PROVE  /\ active' # "FREE" /\ ~wiped'
               /\ \A n \in notices' : n.live => n.plan # "FREE"
               /\ \A d \in Calls : answer'[d] # "FREE"
    <3>1. /\ UNCHANGED <<previews, wiped, answer>> /\ active' \in {active, "NONE"}
          /\ notices' = notices \/ notices' = notices \cup Ended(changes + 1)
      BY <2>9 DEF CancelSubscription
    <3> QED BY <3>1, EndedDead DEF FreeInv
  <2>10. CASE \E c \in Calls : Downgrade(c) \/ Fail(c)
    <3>1. UNCHANGED <<previews, active, wiped, notices, answer>>
      BY <2>10 DEF Downgrade, Fail
    <3> QED BY <3>1 DEF FreeInv
  <2>11. CASE UNCHANGED vars
    BY <2>11 DEF vars, FreeInv
  <2> QED BY <2>1, <2>2, <2>3, <2>4, <2>5, <2>6, <2>7, <2>8, <2>9, <2>10, <2>11 DEF Next
<1> QED BY <1>1, <1>2, TypeCorrect, PTL DEF Spec

\* The usage counter is reset once per activation of a plan, the free one
\* included, but for confirm calls and repeated webhooks, and it is reset by a
\* change to FREE only if Shopify's free plan has been active.
THEOREM ResetsAreEarned == Spec => []ResetsEarned
<1>1. Init => EarnedInv
  <2> SUFFICES ASSUME Init PROVE EarnedInv
    OBVIOUS
  <2>1. notices = {} /\ Live = {}
    BY DEF Init, Live
  <2>2. IsFiniteSet(notices) /\ Cardinality(Live) = 0
    BY <2>1, FS_EmptySet
  <2> QED BY <2>2 DEF Init, EarnedInv
<1>2. TypeOK /\ EarnedInv /\ [Next]_vars => EarnedInv'
  <2> SUFFICES ASSUME TypeOK, EarnedInv, [Next]_vars PROVE EarnedInv'
    OBVIOUS
  <2> USE DEF Goto, Fault, NoFault, shopify, cycle
  <2>0. IsFiniteSet(Live) /\ Cardinality(Live) \in Nat /\ {resets, paid, previews, confirms, faults} \subseteq Nat
    <3>1. IsFiniteSet(Live)
      BY FS_Subset DEF EarnedInv, Live
    <3> QED BY <3>1, FS_CardinalityType, BoundsAssumption DEF TypeOK
  <2>1. CASE ApprovePlan
    <3>1. PICK p \in Plans \ {active} :
             notices' = notices \cup Ended(changes + 1) \cup {[plan |-> p, live |-> TRUE, number |-> changes + 2]}
      BY <2>1 DEF ApprovePlan
    <3> DEFINE made == [plan |-> p, live |-> TRUE, number |-> changes + 2]
    <3>2. IsFiniteSet(notices')
      BY <3>1, EndedDead, FS_Union, FS_Singleton DEF EarnedInv
    <3>3. Live' = Live \cup {made}
      BY <3>1, EndedDead DEF Live
    <3>4. Cardinality(Live') <= Cardinality(Live) + 1 /\ Cardinality(Live') \in Nat
      <4> HIDE DEF made
      <4>1. Cardinality(Live') \in {Cardinality(Live), Cardinality(Live) + 1}
        BY <2>0, <3>3, FS_AddElement, Zenon
      <4> QED BY <2>0, <4>1
    <3>5. /\ \/ paid' = paid + 1 /\ previews' = previews
             \/ previews' = previews + 1 /\ paid' = paid
          /\ UNCHANGED <<resets, confirms, faults>>
      BY <2>1 DEF ApprovePlan
    <3> QED BY <2>0, <3>2, <3>4, <3>5 DEF EarnedInv
  <2>2. CASE EndPlan
    BY <2>2, EndedDead, DeadNotices DEF EndPlan
  <2>3. CASE Uninstall
    <3> DEFINE gone == [plan |-> "NONE", live |-> FALSE, number |-> changes + 1]
               S    == Ended(changes + 1) \cup {gone}
    <3>1. IsFiniteSet(S) /\ \A n \in S : ~n.live
      <4>1. ~gone.live
        OBVIOUS
      <4>2. IsFiniteSet({gone})
        <5> HIDE DEF gone
        <5> QED BY FS_Singleton
      <4> HIDE DEF gone
      <4> QED BY <4>1, <4>2, EndedDead, FS_Union
    <3>2. notices' = notices \cup S /\ UNCHANGED <<resets, paid, previews, confirms, faults>>
      BY <2>3 DEF Uninstall
    <3> QED BY <3>1, <3>2, DeadNotices
  <2>4. CASE DeclinePlan
    <3>1. PICK p \in Plans : notices' = notices \cup {[plan |-> p, live |-> FALSE, number |-> changes + 1]}
      BY <2>4 DEF DeclinePlan
    <3> DEFINE refused == [plan |-> p, live |-> FALSE, number |-> changes + 1]
               S       == {refused}
    <3>2. IsFiniteSet(S) /\ \A n \in S : ~n.live
      <4>1. ~refused.live
        OBVIOUS
      <4> HIDE DEF refused
      <4> QED BY <4>1, FS_Singleton
    <3> QED BY <2>4, <3>1, <3>2, DeadNotices DEF DeclinePlan
  <2>5. CASE ApplySubscriptionStatus
    <3>1. PICK n \in notices :
             /\ resets' = IF n.live THEN resets + 1 ELSE resets
             /\ (notices' = notices \ {n} /\ faults' = faults) \/ (notices' = notices /\ faults' = faults + 1)
      BY <2>5 DEF ApplySubscriptionStatus, NewCycle
    <3>2. UNCHANGED <<paid, previews, confirms>>
      BY <2>5 DEF ApplySubscriptionStatus
    <3>3. CASE notices' = notices \ {n} /\ faults' = faults
      <4>1. IsFiniteSet(notices')
        BY <3>3, FS_Subset DEF EarnedInv
      <4>2. CASE n.live
        <5>1. Live' = Live \ {n} /\ n \in Live
          BY <3>3, <4>2 DEF Live
        <5>2. Cardinality(Live') = Cardinality(Live) - 1
          BY <2>0, <5>1, FS_RemoveElement
        <5> QED BY <2>0, <3>1, <3>2, <3>3, <4>1, <4>2, <5>2 DEF EarnedInv
      <4>3. CASE ~n.live
        <5>1. Live' = Live
          BY <3>3, <4>3 DEF Live
        <5> QED BY <3>1, <3>2, <3>3, <4>1, <4>3, <5>1 DEF EarnedInv
      <4> QED BY <4>2, <4>3
    <3>4. CASE notices' = notices /\ faults' = faults + 1
      <4>1. Live' = Live
        BY <3>4 DEF Live
      <4> QED BY <2>0, <3>1, <3>2, <3>4, <4>1 DEF EarnedInv
    <3> QED BY <3>1, <3>3, <3>4
  <2>6. CASE HandleAppUninstalled
    <3>1. /\ UNCHANGED <<resets, paid, previews, confirms>> /\ notices' \subseteq notices
          /\ faults' = faults \/ faults' = faults + 1
      BY <2>6 DEF HandleAppUninstalled
    <3>2. IsFiniteSet(notices') /\ Live' \subseteq Live
      BY <3>1, FS_Subset DEF EarnedInv, Live
    <3>3. Cardinality(Live') <= Cardinality(Live) /\ Cardinality(Live') \in Nat
      BY <2>0, <3>2, FS_Subset, FS_CardinalityType
    <3> QED BY <2>0, <3>1, <3>2, <3>3 DEF EarnedInv
  <2>7. ASSUME NEW c \in Calls, AskShopify(c) PROVE EarnedInv'
    BY <2>7 DEF AskShopify, EarnedInv, Live
  <2>8. ASSUME NEW c \in Calls, Confirm(c) PROVE EarnedInv'
    <3>1. /\ UNCHANGED <<notices, paid, previews, faults>>
          /\ \/ resets' = resets /\ confirms' = confirms
             \/ resets' = resets + 1 /\ confirms' = confirms + 1
      BY <2>8 DEF Confirm, NewCycle
    <3>2. Live' = Live
      BY <3>1 DEF Live
    <3> QED BY <2>0, <3>1, <3>2 DEF EarnedInv
  <2>9. ASSUME NEW c \in Calls, CancelSubscription(c) PROVE EarnedInv'
    <3>1. CASE active = answer[c] /\ changes < MaxChanges
      BY <2>9, <3>1, EndedDead, DeadNotices DEF CancelSubscription
    <3>2. CASE ~(active = answer[c] /\ changes < MaxChanges)
      BY <2>9, <3>2 DEF CancelSubscription, EarnedInv, Live
    <3> QED BY <3>1, <3>2
  <2>10. ASSUME NEW c \in Calls, Downgrade(c) PROVE EarnedInv'
    BY <2>10 DEF Downgrade, EarnedInv, Live
  <2>11. ASSUME NEW c \in Calls, Fail(c) PROVE EarnedInv'
    <3>1. UNCHANGED <<notices, resets, paid, previews, confirms>> /\ faults' = faults + 1
      BY <2>11 DEF Fail
    <3>2. Live' = Live
      BY <3>1 DEF Live
    <3> QED BY <2>0, <3>1, <3>2 DEF EarnedInv
  <2>12. CASE UNCHANGED vars
    BY <2>12 DEF vars, EarnedInv, Live
  <2> QED
    BY <2>1, <2>2, <2>3, <2>4, <2>5, <2>6, <2>7, <2>8, <2>9, <2>10, <2>11, <2>12 DEF Next
<1>3. TypeOK /\ EarnedInv /\ FreeInv => ResetsEarned
  <2> SUFFICES ASSUME TypeOK, EarnedInv, FreeInv PROVE ResetsEarned
    OBVIOUS
  <2>1. IsFiniteSet(Live)
    BY FS_Subset DEF EarnedInv, Live
  <2>2. Cardinality(Live) \in Nat
    BY <2>1, FS_CardinalityType
  <2>3. resets <= paid + previews + confirms + faults
    BY <2>2, BoundsAssumption DEF EarnedInv, TypeOK
  <2>4. wiped => previews > 0
    BY DEF FreeInv, TypeOK
  <2> QED BY <2>3, <2>4 DEF ResetsEarned
<1> QED BY <1>1, <1>2, <1>3, TypeCorrect, OnlyPreviewsAreFree, PTL DEF Spec

=============================================================================
