--------------------------- MODULE ReturnIntakeProofs ---------------------------
(***************************************************************************)
(* Proofs about ReturnIntake, for any number of submissions, units, slots  *)
(* of quota and cycles; and, in the second half, about PortalJourney, in   *)
(* which a journey of several items makes such a return: for any items,    *)
(* orders, policies, answers, submissions and returns.                     *)
(***************************************************************************)
EXTENDS ReturnIntake, PortalJourney, FiniteSetTheorems, WellFoundedInduction, TLAPS

\* Slots and counters keep their shape; the quota counter never passes the
\* limit, however many submissions went through the gate on old numbers.
THEOREM TypeCorrect == Spec => []TypeOK
<1>1. Init => TypeOK
  BY NumbersAssumption DEF Init, TypeOK, Steps, ShopRow
<1>2. TypeOK /\ [Next]_vars => TypeOK'
  <2> SUFFICES ASSUME TypeOK, [Next]_vars PROVE TypeOK'
    OBVIOUS
  <2> USE NumbersAssumption DEF TypeOK, Goto, slots, quota
  <2>1. ASSUME NEW s \in Submissions, LoadShop(s) PROVE TypeOK'
    <3>1. [count |-> count, ended |-> ended] \in ShopRow
      BY Zenon DEF ShopRow
    <3> QED BY <2>1, <3>1 DEF LoadShop, Steps
  <2>2. ASSUME NEW s \in Submissions, RollCycle(s) PROVE TypeOK'
    <3>1. /\ count' = 0 /\ ended' = FALSE /\ pc' = [pc EXCEPT ![s] = "ask"]
          /\ UNCHANGED <<qty, snap, refundable, cycles, refunded, staleUnits>>
      BY <2>2 DEF RollCycle
    <3>2. inCycle' \in Nat /\ lateRolls' \in Nat
      <4>1. CASE ended
        BY <2>2, <4>1 DEF RollCycle
      <4>2. CASE ~ended
        BY <2>2, <4>2 DEF RollCycle
      <4> QED BY <4>1, <4>2
    <3>3. ended' \in BOOLEAN
      BY <3>1, Zenon
    <3>4. count' \in 0..Limit /\ pc' \in [Submissions -> Steps]
      BY <3>1 DEF Steps
    <3> QED BY <3>1, <3>2, <3>3, <3>4
  <2>3. ASSUME NEW s \in Submissions, PassGate(s) PROVE TypeOK'
    BY <2>3 DEF PassGate, Steps
  <2>4. ASSUME NEW s \in Submissions, AskShopify(s) PROVE TypeOK'
    BY <2>4 DEF AskShopify, Steps
  <2>5. ASSUME NEW s \in Submissions, ReadClaims(s) PROVE TypeOK'
    BY <2>5 DEF ReadClaims, Steps
  <2>6. ASSUME NEW s \in Submissions, Create(s) PROVE TypeOK'
    <3>1. \/ pc' = [pc EXCEPT ![s] = "refused"] /\ UNCHANGED <<count, inCycle>>
          \/ pc' = [pc EXCEPT ![s] = "open"] /\ count < Limit /\ count' = count + 1 /\ inCycle' = inCycle + 1
      BY <2>6 DEF Create
    <3> QED BY <2>6, <3>1 DEF Create, Steps
  <2>7. ASSUME NEW s \in Submissions, Fail(s) PROVE TypeOK'
    BY <2>7 DEF Fail, Steps
  <2>8. ASSUME NEW s \in Submissions, Reject(s) PROVE TypeOK'
    BY <2>8 DEF Reject, Steps
  <2>9. ASSUME NEW s \in Submissions, Refund(s) PROVE TypeOK'
    BY <2>9 DEF Refund, Steps
  <2>10. ASSUME NEW s \in Submissions, Process(s) PROVE TypeOK'
    BY <2>10 DEF Process, Steps
  <2>11. CASE CycleEnds
    BY <2>11 DEF CycleEnds
  <2>12. CASE UNCHANGED vars
    BY <2>12 DEF vars
  <2> QED
    BY <2>1, <2>2, <2>3, <2>4, <2>5, <2>6, <2>7, <2>8, <2>9, <2>10, <2>11, <2>12 DEF Next
<1> QED BY <1>1, <1>2, PTL DEF Spec

-----------------------------------------------------------------------------
\* Every return of the cycle holds a slot of the quota, but for what a roll of
\* a cycle that had been rolled already wipes: at most a limit's worth each.
THEOREM SlotsAreCounted == Spec => []SlotsCounted
<1>1. Init => SlotsCounted
  BY NumbersAssumption DEF Init, SlotsCounted
<1>2. TypeOK /\ SlotsCounted /\ [Next]_vars => SlotsCounted'
  <2> SUFFICES ASSUME TypeOK, SlotsCounted, [Next]_vars PROVE SlotsCounted'
    OBVIOUS
  <2> USE DEF SlotsCounted, slots, quota
  <2>0. /\ Limit \in Nat /\ count \in Nat /\ count <= Limit
        /\ inCycle \in Nat /\ lateRolls \in Nat /\ Limit * lateRolls \in Nat
    BY NumbersAssumption DEF TypeOK
  <2>1. ASSUME NEW s \in Submissions, RollCycle(s) PROVE SlotsCounted'
    <3>1. CASE ended
      BY <2>0, <2>1, <3>1 DEF RollCycle
    <3>2. CASE ~ended
      <4>1. count' = 0 /\ inCycle' = inCycle /\ lateRolls' = lateRolls + 1
        BY <2>1, <3>2 DEF RollCycle
      <4>2. Limit * (lateRolls + 1) = Limit * lateRolls + Limit
        BY <2>0
      <4> QED BY <2>0, <4>1, <4>2
    <3> QED BY <3>1, <3>2
  <2>2. ASSUME NEW s \in Submissions, Create(s) PROVE SlotsCounted'
    <3>1. /\ lateRolls' = lateRolls
          /\ \/ UNCHANGED <<count, inCycle>>
             \/ count' = count + 1 /\ inCycle' = inCycle + 1
      BY <2>2 DEF Create
    <3> QED BY <2>0, <3>1
  <2>3. ASSUME NEW s \in Submissions,
               \/ LoadShop(s) \/ PassGate(s) \/ AskShopify(s) \/ ReadClaims(s)
               \/ Fail(s) \/ Reject(s) \/ Refund(s) \/ Process(s)
        PROVE  SlotsCounted'
    BY <2>3 DEF LoadShop, PassGate, AskShopify, ReadClaims, Fail, Reject, Refund, Process
  <2>4. CASE CycleEnds
    BY <2>4 DEF CycleEnds
  <2>5. CASE UNCHANGED vars
    BY <2>5 DEF vars
  <2> QED BY <2>1, <2>2, <2>3, <2>4, <2>5 DEF Next
<1> QED BY <1>1, <1>2, TypeCorrect, PTL DEF Spec

-----------------------------------------------------------------------------
(* Counting the units of the returns at a set of states.  Nothing bounds   *)
(* the submissions: that the units counted are finitely many is itself     *)
(* inductive, as a step adds those of one submission at most.              *)

UnitsOf(s) == {s} \X (1..qty[s])

Finite(states) == IsFiniteSet(UnitsIn(states))

\* The units of one submission are as many as it wants.
LEMMA UnitsOfOne ==
  ASSUME TypeOK, NEW s \in Submissions
  PROVE  IsFiniteSet(UnitsOf(s)) /\ Cardinality(UnitsOf(s)) = qty[s]
<1>1. qty[s] \in 1..Units /\ Units \in Nat
  BY NumbersAssumption DEF TypeOK
<1>2. qty[s] \in Nat /\ qty[s] >= 1
  BY <1>1
<1>3. IsFiniteSet(1..qty[s]) /\ Cardinality(1..qty[s]) = qty[s]
  BY <1>2, FS_Interval
<1>4. IsFiniteSet({s}) /\ Cardinality({s}) = 1
  BY FS_Singleton
<1>5. UnitsOf(s) = {s} \X (1..qty[s])
  BY DEF UnitsOf
<1>6. /\ IsFiniteSet({s} \X (1..qty[s]))
      /\ Cardinality({s} \X (1..qty[s])) = Cardinality({s}) * Cardinality(1..qty[s])
  <2> DEFINE T == 1..qty[s]
  <2>1. IsFiniteSet(T)
    BY <1>3
  <2> HIDE DEF T
  <2>2. IsFiniteSet({s} \X T) /\ Cardinality({s} \X T) = Cardinality({s}) * Cardinality(T)
    BY <2>1, <1>4, FS_Product, Zenon
  <2> QED BY <2>2 DEF T
<1> QED BY <1>2, <1>3, <1>4, <1>5, <1>6

\* A submission that comes to one of the states brings its units.
LEMMA UnitsJoin ==
  ASSUME TypeOK, NEW s \in Submissions, NEW step, NEW states,
         pc' = [pc EXCEPT ![s] = step], qty' = qty,
         pc[s] \notin states, step \in states, Finite(states)
  PROVE  Finite(states)' /\ UnitsAt(states)' = UnitsAt(states) + qty[s]
<1>1. UnitsIn(states)' = UnitsIn(states) \cup UnitsOf(s)
  <2>1. \A r \in Submissions : pc'[r] \in states <=> (pc[r] \in states \/ r = s)
    BY DEF TypeOK
  <2>2. UnitsOf(s) = {u \in Submissions \X (1..Units) : u[1] = s /\ u[2] <= qty[s]}
    BY NumbersAssumption DEF UnitsOf, TypeOK
  <2> QED BY <2>1, <2>2 DEF UnitsIn
<1>2. UnitsIn(states) \cap UnitsOf(s) = {}
  BY DEF UnitsIn, UnitsOf
<1>3. Cardinality(UnitsIn(states) \cap UnitsOf(s)) = 0
  BY <1>2, FS_EmptySet
<1>4. IsFiniteSet(UnitsOf(s)) /\ Cardinality(UnitsOf(s)) = qty[s]
  BY UnitsOfOne
<1>5. /\ IsFiniteSet(UnitsIn(states)')
      /\ Cardinality(UnitsIn(states)') = Cardinality(UnitsIn(states)) + qty[s] - 0
  BY <1>1, <1>3, <1>4, FS_Union DEF Finite
<1>6. Cardinality(UnitsIn(states)) \in Nat /\ qty[s] \in Nat
  BY <1>4, FS_CardinalityType DEF Finite
<1> QED BY <1>5, <1>6 DEF UnitsAt, Finite

\* A submission that leaves the states takes its units along.
LEMMA UnitsLeave ==
  ASSUME TypeOK, NEW s \in Submissions, NEW step, NEW states,
         pc' = [pc EXCEPT ![s] = step], qty' = qty,
         pc[s] \in states, step \notin states, Finite(states)
  PROVE  Finite(states)' /\ UnitsAt(states)' = UnitsAt(states) - qty[s]
<1>1. UnitsIn(states)' = UnitsIn(states) \ UnitsOf(s)
  <2>1. \A r \in Submissions : pc'[r] \in states <=> (pc[r] \in states /\ r # s)
    BY DEF TypeOK
  <2>2. UnitsOf(s) = {u \in Submissions \X (1..Units) : u[1] = s /\ u[2] <= qty[s]}
    BY NumbersAssumption DEF UnitsOf, TypeOK
  <2> QED BY <2>1, <2>2 DEF UnitsIn
<1>2. UnitsIn(states) \cap UnitsOf(s) = UnitsOf(s)
  BY NumbersAssumption DEF UnitsIn, UnitsOf, TypeOK
<1>3. Cardinality(UnitsOf(s)) = qty[s]
  BY UnitsOfOne
<1>4. /\ IsFiniteSet(UnitsIn(states)')
      /\ Cardinality(UnitsIn(states)') = Cardinality(UnitsIn(states)) - qty[s]
  BY <1>1, <1>2, <1>3, FS_Difference DEF Finite
<1> QED BY <1>4 DEF UnitsAt, Finite

\* A submission that stays within the states, or without, changes nothing.
LEMMA UnitsStay ==
  ASSUME TypeOK, NEW s \in Submissions, NEW step, NEW states,
         pc' = [pc EXCEPT ![s] = step], qty' = qty,
         pc[s] \in states <=> step \in states
  PROVE  UnitsIn(states)' = UnitsIn(states) /\ UnitsAt(states)' = UnitsAt(states)
<1>1. \A r \in Submissions : pc'[r] \in states <=> pc[r] \in states
  BY DEF TypeOK
<1>2. UnitsIn(states)' = UnitsIn(states)
  BY <1>1 DEF UnitsIn
<1> QED BY <1>2 DEF UnitsAt

-----------------------------------------------------------------------------
\* What open and paid returns claim is counted, and fits the order.
ClaimInv == Finite({"open", "paid"}) /\ ClaimedUnits <= Units

\* Only a return that is made claims units, and only if it finds room for them.
LEMMA ClaimsStep ==
  ASSUME TypeOK, Finite({"open", "paid"}), [Next]_vars
  PROVE  /\ Finite({"open", "paid"})'
         /\ ClaimedUnits \in Nat /\ ClaimedUnits' \in Nat
         /\ \/ ClaimedUnits' <= ClaimedUnits
            \/ \E s \in Submissions :
                 /\ Create(s) /\ pc'[s] = "open"
                 /\ ClaimedUnits' = ClaimedUnits + qty[s]
                 /\ ClaimedUnits' <= refundable[s]
<1> DEFINE states == {"open", "paid"}
<1>0. ClaimedUnits \in Nat
  BY FS_CardinalityType DEF Finite, ClaimedUnits, UnitsAt
<1>1. SUFFICES
        /\ Finite(states)'
        /\ \/ ClaimedUnits' <= ClaimedUnits
           \/ \E s \in Submissions :
                /\ Create(s) /\ pc'[s] = "open"
                /\ ClaimedUnits' = ClaimedUnits + qty[s]
                /\ ClaimedUnits' <= refundable[s]
  <2>1. Finite(states)' => ClaimedUnits' \in Nat
    BY FS_CardinalityType DEF Finite, ClaimedUnits, UnitsAt
  <2> QED BY <1>0, <2>1
<1>2. ASSUME NEW s \in Submissions, NEW step,
             pc' = [pc EXCEPT ![s] = step], qty' = qty, pc[s] \notin states, step \notin states
      PROVE  Finite(states)' /\ ClaimedUnits' <= ClaimedUnits
  <2>1. UnitsIn(states)' = UnitsIn(states) /\ UnitsAt(states)' = UnitsAt(states)
    BY <1>2, UnitsStay
  <2> QED BY <1>0, <2>1 DEF Finite, ClaimedUnits
<1>3. ASSUME NEW s \in Submissions, pc' = [pc EXCEPT ![s] = "paid"], qty' = qty, pc[s] \in states
      PROVE  Finite(states)' /\ ClaimedUnits' <= ClaimedUnits
  <2>1. UnitsIn(states)' = UnitsIn(states) /\ UnitsAt(states)' = UnitsAt(states)
    BY <1>3, UnitsStay
  <2> QED BY <1>0, <2>1 DEF Finite, ClaimedUnits
<1>4. ASSUME NEW s \in Submissions, NEW step,
             pc' = [pc EXCEPT ![s] = step], qty' = qty, pc[s] \in states, step \notin states
      PROVE  Finite(states)' /\ ClaimedUnits' <= ClaimedUnits
  <2>1. Finite(states)' /\ UnitsAt(states)' = UnitsAt(states) - qty[s]
    BY <1>4, UnitsLeave
  <2>2. qty[s] \in Nat
    BY NumbersAssumption DEF TypeOK
  <2> QED BY <1>0, <2>1, <2>2 DEF ClaimedUnits
<1>5. ASSUME NEW s \in Submissions, Create(s)
      PROVE  /\ Finite(states)'
             /\ \/ ClaimedUnits' <= ClaimedUnits
                \/ /\ Create(s) /\ pc'[s] = "open"
                   /\ ClaimedUnits' = ClaimedUnits + qty[s]
                   /\ ClaimedUnits' <= refundable[s]
  <2>1. CASE ClaimedUnits + qty[s] > refundable[s] \/ count >= Limit
    BY <1>2, <1>5, <2>1 DEF Create, Goto
  <2>2. CASE ~(ClaimedUnits + qty[s] > refundable[s] \/ count >= Limit)
    <3>1. /\ pc[s] = "create" /\ pc' = [pc EXCEPT ![s] = "open"] /\ qty' = qty
      BY <1>5, <2>2 DEF Create, Goto
    <3>2. Finite(states)' /\ UnitsAt(states)' = UnitsAt(states) + qty[s]
      BY <3>1, UnitsJoin
    <3>3. pc'[s] = "open"
      BY <3>1 DEF TypeOK
    <3>4. qty[s] \in Nat /\ refundable[s] \in Nat
      BY NumbersAssumption DEF TypeOK
    <3>5. ClaimedUnits' = ClaimedUnits + qty[s]
      BY <3>2 DEF ClaimedUnits
    <3> QED BY <1>0, <1>5, <2>2, <3>2, <3>3, <3>4, <3>5
  <2> QED BY <2>1, <2>2
<1>6. ASSUME NEW s \in Submissions,
             \/ LoadShop(s) \/ RollCycle(s) \/ PassGate(s) \/ AskShopify(s) \/ ReadClaims(s) \/ Fail(s)
      PROVE  Finite(states)' /\ ClaimedUnits' <= ClaimedUnits
  <2>1. CASE LoadShop(s)
    BY <1>2, <2>1 DEF LoadShop, Goto
  <2>2. CASE RollCycle(s)
    BY <1>2, <2>2 DEF RollCycle, Goto
  <2>3. CASE PassGate(s)
    <3>1. PICK step \in {"refused", "ask"} : pc' = [pc EXCEPT ![s] = step]
      BY <2>3, Zenon DEF PassGate, Goto
    <3>2. qty' = qty /\ pc[s] \notin states /\ step \notin states
      BY <2>3, <3>1 DEF PassGate
    <3> QED BY <1>2, <3>1, <3>2, Zenon
  <2>4. CASE AskShopify(s)
    BY <1>2, <2>4 DEF AskShopify, Goto
  <2>5. CASE ReadClaims(s)
    BY <1>2, <2>5 DEF ReadClaims, Goto
  <2>6. CASE Fail(s)
    BY <1>2, <2>6 DEF Fail, Goto
  <2> QED BY <1>6, <2>1, <2>2, <2>3, <2>4, <2>5, <2>6
<1>7. ASSUME NEW s \in Submissions, Reject(s) \/ Refund(s) \/ Process(s)
      PROVE  Finite(states)' /\ ClaimedUnits' <= ClaimedUnits
  <2>1. CASE Reject(s)
    BY <1>4, <2>1 DEF Reject, Goto
  <2>2. CASE Refund(s)
    BY <1>3, <2>2 DEF Refund, Goto
  <2>3. CASE Process(s)
    BY <1>4, <2>3 DEF Process, Goto
  <2> QED BY <1>7, <2>1, <2>2, <2>3
<1>8. CASE CycleEnds \/ UNCHANGED vars
  <2>1. UNCHANGED <<pc, qty>>
    BY <1>8 DEF CycleEnds, vars, slots
  <2>2. UnitsIn(states)' = UnitsIn(states)
    BY <2>1 DEF UnitsIn
  <2> QED BY <1>0, <2>2 DEF Finite, ClaimedUnits, UnitsAt
<1> QED BY <1>1, <1>5, <1>6, <1>7, <1>8 DEF Next

\* Open returns never claim more units than were sold: the check is repeated
\* under the order's lock, and Shopify never says that more can be refunded.
THEOREM ClaimsFitTheOrder == Spec => []ClaimsWithinOrder
<1>1. Init => ClaimInv
  <2> SUFFICES ASSUME Init PROVE ClaimInv
    OBVIOUS
  <2>1. UnitsIn({"open", "paid"}) = {}
    BY DEF Init, UnitsIn
  <2> QED BY <2>1, FS_EmptySet, NumbersAssumption DEF ClaimInv, Finite, ClaimedUnits, UnitsAt
<1>2. TypeOK /\ ClaimInv /\ [Next]_vars => ClaimInv'
  <2> SUFFICES ASSUME TypeOK, ClaimInv, [Next]_vars PROVE ClaimInv'
    OBVIOUS
  <2>1. Units \in Nat /\ \A s \in Submissions : refundable[s] \in Nat /\ refundable[s] <= Units
    BY NumbersAssumption DEF TypeOK
  <2>2. /\ Finite({"open", "paid"})' /\ ClaimedUnits \in Nat /\ ClaimedUnits' \in Nat
        /\ \/ ClaimedUnits' <= ClaimedUnits
           \/ \E s \in Submissions : ClaimedUnits' <= refundable[s]
    BY ClaimsStep DEF ClaimInv
  <2>3. ClaimedUnits' <= Units
    BY <2>1, <2>2 DEF ClaimInv
  <2> QED BY <2>2, <2>3 DEF ClaimInv
<1>3. ClaimInv => ClaimsWithinOrder
  BY DEF ClaimInv, ClaimsWithinOrder
<1> QED BY <1>1, <1>2, <1>3, TypeCorrect, PTL DEF Spec

-----------------------------------------------------------------------------
\* An answer of Shopify's is outdated by what was refunded since, at most.
AnswersKnown ==
  \A s \in Submissions : HoldsAnswer(s) => refundable[s] + refunded <= Units + staleUnits

PromiseInv == Finite({"open", "paid"}) /\ AnswersKnown /\ UnitsPromisedOnce

\* The units of open returns are among those of open and paid ones.
LEMMA OpenUnitsClaimed ==
  ASSUME Finite({"open", "paid"})
  PROVE  /\ Finite({"open"})
         /\ UnitsAt({"open"}) \in Nat /\ ClaimedUnits \in Nat
         /\ UnitsAt({"open"}) <= ClaimedUnits
<1>1. UnitsIn({"open"}) \in SUBSET UnitsIn({"open", "paid"})
  BY DEF UnitsIn
<1>2. IsFiniteSet(UnitsIn({"open"})) /\ UnitsAt({"open"}) <= ClaimedUnits
  BY <1>1, FS_Subset DEF Finite, UnitsAt, ClaimedUnits
<1>3. UnitsAt({"open"}) \in Nat /\ ClaimedUnits \in Nat
  BY <1>2, FS_CardinalityType DEF Finite, UnitsAt, ClaimedUnits
<1> QED BY <1>2, <1>3 DEF Finite

\* Nobody's answer is outdated unnoticed.
LEMMA AnswersStep ==
  ASSUME TypeOK, AnswersKnown, [Next]_vars
  PROVE  AnswersKnown'
<1> USE NumbersAssumption DEF TypeOK, AnswersKnown, HoldsAnswer, slots, quota
<1>1. ASSUME NEW s \in Submissions, AskShopify(s) PROVE AnswersKnown'
  BY <1>1 DEF AskShopify, Goto
<1>2. ASSUME NEW s \in Submissions, Refund(s) PROVE AnswersKnown'
  <2> SUFFICES ASSUME NEW t \in Submissions, HoldsAnswer(t)'
               PROVE  refundable'[t] + refunded' <= Units + staleUnits'
    OBVIOUS
  <2>1. HoldsAnswer(t) /\ refundable' = refundable /\ refunded' = refunded + qty[s]
    BY <1>2 DEF Refund, Goto
  <2>2. staleUnits' = staleUnits + qty[s]
    BY <1>2, <2>1 DEF Refund
  <2> QED BY <2>1, <2>2
<1>3. ASSUME NEW s \in Submissions,
             \/ LoadShop(s) \/ RollCycle(s) \/ PassGate(s) \/ ReadClaims(s)
             \/ Create(s) \/ Fail(s) \/ Reject(s) \/ Process(s)
      PROVE  AnswersKnown'
  <2>1. UNCHANGED <<refundable, refunded, staleUnits>>
    BY <1>3 DEF LoadShop, RollCycle, PassGate, ReadClaims, Create, Fail, Reject, Process
  <2>2. \A t \in Submissions : HoldsAnswer(t)' => HoldsAnswer(t)
    BY <1>3 DEF LoadShop, RollCycle, PassGate, ReadClaims, Create, Fail, Reject, Process, Goto
  <2> QED BY <2>1, <2>2
<1>4. CASE CycleEnds \/ UNCHANGED vars
  BY <1>4 DEF CycleEnds, vars
<1> QED BY <1>1, <1>2, <1>3, <1>4 DEF Next

\* A unit is promised back once, but for what is refunded under a submission
\* that holds Shopify's older answer.
THEOREM UnitsArePromisedOnce == Spec => []UnitsPromisedOnce
<1> USE NumbersAssumption
<1>1. Init => PromiseInv
  <2> SUFFICES ASSUME Init PROVE PromiseInv
    OBVIOUS
  <2>1. UnitsIn({"open", "paid"}) = {} /\ UnitsIn({"open"}) = {}
    BY DEF Init, UnitsIn
  <2>2. Finite({"open", "paid"}) /\ UnitsAt({"open"}) = 0
    BY <2>1, FS_EmptySet DEF Finite, UnitsAt
  <2> QED BY <2>2 DEF Init, PromiseInv, AnswersKnown, HoldsAnswer, UnitsPromisedOnce
<1>2. TypeOK /\ PromiseInv /\ [Next]_vars => PromiseInv'
  <2> SUFFICES ASSUME TypeOK, PromiseInv, [Next]_vars PROVE PromiseInv'
    OBVIOUS
  <2>1. Finite({"open", "paid"})'
    BY ClaimsStep DEF PromiseInv
  <2>2. AnswersKnown'
    BY AnswersStep DEF PromiseInv
  <2>3. /\ Finite({"open"})
        /\ UnitsAt({"open"}) \in Nat /\ ClaimedUnits \in Nat
        /\ UnitsAt({"open"}) <= ClaimedUnits
    BY OpenUnitsClaimed DEF PromiseInv
  <2>4. /\ Units \in Nat /\ refunded \in Nat /\ staleUnits \in Nat
        /\ \A s \in Submissions : qty[s] \in Nat /\ refundable[s] \in Nat
        /\ UnitsAt({"open"}) + refunded <= Units + staleUnits
    BY DEF TypeOK, PromiseInv, UnitsPromisedOnce
  <2> SUFFICES UnitsAt({"open"})' + refunded' <= Units + staleUnits'
    BY <2>1, <2>2 DEF PromiseInv, UnitsPromisedOnce
  <2>5. ASSUME NEW s \in Submissions, NEW step,
               pc' = [pc EXCEPT ![s] = step], qty' = qty, pc[s] # "open", step # "open",
               UNCHANGED <<refunded, staleUnits>>
        PROVE  UnitsAt({"open"})' + refunded' <= Units + staleUnits'
    <3>1. UnitsAt({"open"})' = UnitsAt({"open"})
      BY <2>5, UnitsStay
    <3> QED BY <2>4, <2>5, <3>1
  <2>6. ASSUME NEW s \in Submissions, Create(s)
        PROVE  UnitsAt({"open"})' + refunded' <= Units + staleUnits'
    <3>1. CASE ClaimedUnits + qty[s] > refundable[s] \/ count >= Limit
      BY <2>5, <2>6, <3>1 DEF Create, Goto
    <3>2. CASE ~(ClaimedUnits + qty[s] > refundable[s] \/ count >= Limit)
      <4>1. /\ pc[s] = "create" /\ pc' = [pc EXCEPT ![s] = "open"] /\ qty' = qty
            /\ UNCHANGED <<refunded, staleUnits>>
        BY <2>6, <3>2 DEF Create, Goto
      <4>2. UnitsAt({"open"})' = UnitsAt({"open"}) + qty[s]
        BY <2>3, <4>1, UnitsJoin
      <4>3. refundable[s] + refunded <= Units + staleUnits
        BY <4>1 DEF PromiseInv, AnswersKnown, HoldsAnswer
      <4> QED BY <2>3, <2>4, <3>2, <4>1, <4>2, <4>3
    <3> QED BY <3>1, <3>2
  <2>7. ASSUME NEW s \in Submissions, Reject(s)
        PROVE  UnitsAt({"open"})' + refunded' <= Units + staleUnits'
    <3>0. pc' = [pc EXCEPT ![s] = "rejected"] /\ qty' = qty /\ pc[s] \in {"open"}
      BY <2>7 DEF Reject, Goto
    <3>1. UnitsAt({"open"})' = UnitsAt({"open"}) - qty[s]
      BY <2>3, <3>0, "rejected" \notin {"open"}, UnitsLeave
    <3> QED BY <2>3, <2>4, <2>7, <3>1 DEF Reject
  <2>8. ASSUME NEW s \in Submissions, Refund(s)
        PROVE  UnitsAt({"open"})' + refunded' <= Units + staleUnits'
    <3>0. pc' = [pc EXCEPT ![s] = "paid"] /\ qty' = qty /\ pc[s] \in {"open"}
      BY <2>8 DEF Refund, Goto
    <3>1. UnitsAt({"open"})' = UnitsAt({"open"}) - qty[s]
      BY <2>3, <3>0, "paid" \notin {"open"}, UnitsLeave
    <3>2. refunded' = refunded + qty[s] /\ (staleUnits' = staleUnits + qty[s] \/ staleUnits' = staleUnits)
      BY <2>8 DEF Refund
    <3> QED BY <2>3, <2>4, <3>1, <3>2
  <2>9. ASSUME NEW s \in Submissions, RollCycle(s)
        PROVE  UnitsAt({"open"})' + refunded' <= Units + staleUnits'
    BY <2>5, <2>9 DEF RollCycle, Goto
  <2>10. ASSUME NEW s \in Submissions, LoadShop(s) \/ PassGate(s) \/ AskShopify(s)
         PROVE  UnitsAt({"open"})' + refunded' <= Units + staleUnits'
    BY <2>5, <2>10 DEF LoadShop, PassGate, AskShopify, Goto
  <2>11. ASSUME NEW s \in Submissions, ReadClaims(s) \/ Fail(s) \/ Process(s)
         PROVE  UnitsAt({"open"})' + refunded' <= Units + staleUnits'
    BY <2>5, <2>11 DEF ReadClaims, Fail, Process, Goto
  <2>12. CASE CycleEnds \/ UNCHANGED vars
    <3>1. UNCHANGED <<pc, qty, refunded, staleUnits>>
      BY <2>12 DEF CycleEnds, vars, slots
    <3>2. UnitsAt({"open"})' = UnitsAt({"open"})
      BY <3>1 DEF UnitsAt, UnitsIn
    <3> QED BY <2>4, <3>1, <3>2
  <2> QED BY <2>6, <2>7, <2>8, <2>9, <2>10, <2>11, <2>12 DEF Next
<1>3. PromiseInv => UnitsPromisedOnce
  BY DEF PromiseInv
<1> QED BY <1>1, <1>2, <1>3, TypeCorrect, PTL DEF Spec

-----------------------------------------------------------------------------
(* PortalJourney.  First, the largest of a finite set of numbers: a return *)
(* pays the highest fee of its items.                                      *)

\* A set of natural numbers that is not empty has a smallest one.
LEMMA SmallestOf ==
  ASSUME NEW T \in SUBSET Nat, T # {}
  PROVE  \E x \in T : \A y \in T : x <= y
<1>1. IsWellFoundedOn(OpToRel(<, Nat), Nat)
  BY NatLessThanWellFounded
<1>2. PICK x \in T : \A y \in T : <<y, x>> \notin OpToRel(<, Nat)
  BY <1>1, WFMin, Zenon
<1>3. ASSUME NEW y \in T PROVE x <= y
  <2>1. <<y, x>> \notin {p \in Nat \X Nat : p[1] < p[2]}
    BY <1>2 DEF OpToRel
  <2> QED BY <2>1
<1> QED BY <1>3

\* A finite set of natural numbers that is not empty has a largest one: the
\* smallest size at which that fails would be one more than a size at which it
\* holds.
LEMMA LargestOf ==
  ASSUME NEW S \in SUBSET Nat, IsFiniteSet(S), S # {}
  PROVE  \E x \in S : \A y \in S : x >= y
<1> DEFINE HasLargest(Z) == \E x \in Z : \A y \in Z : x >= y
           Failing == {n \in Nat : \E Z \in SUBSET Nat : Z # {} /\ IsFiniteSet(Z) /\ Cardinality(Z) = n /\ ~HasLargest(Z)}
<1> SUFFICES ASSUME ~HasLargest(S) PROVE FALSE
  OBVIOUS
<1>1. Cardinality(S) \in Failing
  BY FS_CardinalityType
<1>2. PICK n \in Failing : \A m \in Failing : n <= m
  <2>1. Failing \in SUBSET Nat /\ Failing # {}
    BY <1>1
  <2> HIDE DEF Failing
  <2> QED BY <2>1, SmallestOf
<1>3. PICK Z \in SUBSET Nat : Z # {} /\ IsFiniteSet(Z) /\ Cardinality(Z) = n /\ ~HasLargest(Z)
  BY <1>2
<1>4. PICK z \in Z : TRUE
  BY <1>3
<1> DEFINE Rest == Z \ {z}
<1>5. IsFiniteSet(Rest) /\ Cardinality(Rest) = n - 1 /\ n \in Nat /\ Cardinality(Rest) \in Nat
  BY <1>2, <1>3, <1>4, FS_RemoveElement, FS_CardinalityType
<1>6. Rest # {}
  <2>1. ASSUME Rest = {} PROVE Z = {z}
    BY <2>1, <1>4
  <2> QED BY <2>1, <1>3, <1>4
<1>7. HasLargest(Rest)
  <2>1. ASSUME ~HasLargest(Rest) PROVE n - 1 \in Failing
    BY <2>1, <1>3, <1>5, <1>6
  <2> HIDE DEF Failing, HasLargest
  <2> QED BY <2>1, <1>2, <1>5
<1>8. PICK x \in Rest : \A y \in Rest : x >= y
  BY <1>7
<1>9. HasLargest(Z)
  <2>1. \A y \in Z : y = z \/ y \in Rest
    OBVIOUS
  <2>2. x \in Nat /\ z \in Nat /\ x \in Z /\ z \in Z
    BY <1>3, <1>4, <1>8
  <2> HIDE DEF Rest
  <2>3. CASE x >= z
    <3>1. \A y \in Z : x >= y
      BY <2>1, <2>3, <1>8
    <3> QED BY <3>1, <2>2
  <2>4. CASE ~(x >= z)
    <3>1. \A y \in Rest : y \in Nat
      BY DEF Rest
    <3>2. \A y \in Z : z >= y
      BY <2>1, <2>2, <2>4, <1>8, <3>1
    <3> QED BY <3>2, <2>2
  <2> QED BY <2>3, <2>4
<1> QED BY <1>3, <1>9

\* The highest of finitely many fees is one of them and is below none.
LEMMA MaxOf ==
  ASSUME NEW S \in SUBSET Nat, IsFiniteSet(S), S # {}
  PROVE  Max(S) \in S /\ \A y \in S : Max(S) >= y
<1>1. \E x \in S : \A y \in S : x >= y
  BY LargestOf
<1> QED BY <1>1, Zenon DEF Max

-----------------------------------------------------------------------------
(* What the tab holds.                                                     *)

\* The shapes of an item of the journey, of a quote, of a journey and of a
\* submission.
Held     == [qty : Nat \ {0}, rule : Rule] \cup {None}
Quotes   == [fee : Nat, default : Nat]
Journeys == [order : Orders \cup {None}, eligible : [Items -> Held], selected : [Items -> Held],
             answers : [Items -> Answer \cup {None}], resolution : Resolutions \cup {None}]
Sendings == [stage : {"sent", "checking", "priced", "stored", "photos"}, sent : Journeys,
             quoted : Quotes \cup {None}, heard : {"page", "closure", "nobody"}, check : Check \cup {None},
             ret : Returns \cup {None}, todo : SUBSET Items, failed : BOOLEAN]

\* The tab and the server keep their shape; what is held of an item was never
\* less than one unit.
JourneyShape ==
  /\ page \in Pages /\ data \in Journeys /\ quote \in Quotes \cup {None}
  /\ posts \in [Posts -> Sendings \cup {None}]
  /\ shown \in [ret : Returns \cup {None}, warning : BOOLEAN]
  /\ returns \in [Returns -> Return \cup {None}]
  /\ left \in [Items -> Nat] /\ elsewhere \in [Items -> Nat]
  /\ policy \in Policies /\ events \in 0..MaxEvents

\* The reasons are given for everything that is chosen.
Answered(d) == \A i \in Chosen(d) : d.answers[i] # None
Heard(s)    == posts[s] # None /\ posts[s].heard = "page"

\* What is sent names an order, an item and a resolution, and all reasons once
\* the server has taken it up; and while the page waits for an answer it stays,
\* with the journey it has sent, and waits for no other.
TabInv ==
  /\ \A s \in Posts : posts[s] # None =>
       /\ ~Incomplete(posts[s].sent) /\ posts[s].todo \subseteq Chosen(posts[s].sent)
       /\ posts[s].stage # "sent" => Answered(posts[s].sent)
  /\ \A s \in Posts : Heard(s) => page = "confirm" /\ data = posts[s].sent
  /\ \A s, t \in Posts : Heard(s) /\ Heard(t) => s = t

\* Math.max(0, n).
LEMMA AtLeastZero ==
  ASSUME NEW n \in Int PROVE Max({0, n}) \in Nat /\ (Max({0, n}) = n \/ Max({0, n}) = 0)
<1>1. \E x \in {0, n} : \A y \in {0, n} : x >= y
  <2>1. CASE n >= 0
    BY <2>1
  <2>2. CASE ~(n >= 0)
    BY <2>2
  <2> QED BY <2>1, <2>2
<1>2. Max({0, n}) \in {0, n} /\ \A y \in {0, n} : Max({0, n}) >= y
  BY <1>1, Zenon DEF Max
<1> QED BY <1>2

\* What remains of an item is a number.
LEMMA RemainingTyped ==
  ASSUME JourneyShape, NEW i \in Items
  PROVE  Claimed(i) \in Nat /\ Remaining(i) \in Nat
<1> DEFINE Slots == Returns \X (1..UnitsSold[i])
<1>1. IsFiniteSet(Slots)
  <2>1. UnitsSold[i] \in Int
    BY ItemsAssumption
  <2>2. IsFiniteSet(1..UnitsSold[i])
    BY <2>1, FS_Interval
  <2> QED BY <2>2, BoundAssumption, FS_Product
<1>2. ClaimedUnitsOf(i) \subseteq Slots
  BY DEF ClaimedUnitsOf
<1>3. Cardinality(ClaimedUnitsOf(i)) \in Nat
  <2> HIDE DEF Slots
  <2> QED BY <1>1, <1>2, FS_Subset, FS_CardinalityType
<1>4. elsewhere[i] \in Nat /\ left[i] \in Nat
  BY DEF JourneyShape
<1>5. Claimed(i) \in Nat
  BY <1>3, <1>4 DEF Claimed
<1>6. left[i] - Claimed(i) \in Int
  BY <1>4, <1>5
<1> QED BY <1>5, <1>6, AtLeastZero DEF Remaining

\* What a lookup hands out is an item with at least one unit left, or nothing.
LEMMA OfferedHeld ==
  ASSUME JourneyShape, NEW i \in Items
  PROVE  Offered(i) \in Held
<1>1. policy.rule[i] \in Rule
  BY PolicyAssumption DEF JourneyShape
<1> QED BY <1>1, RemainingTyped DEF Offered, Held

\* What the items of a return would pay.
Fees(items, rule, answers, default) == {0} \cup {ItemFee(rule[i], answers[i], default) : i \in items}

\* The fee of a return is the highest of these.
LEMMA FeeTyped ==
  ASSUME NEW items \in SUBSET Items, NEW rule, NEW answers, NEW default \in Nat,
         \A i \in items : rule[i] \in Rule
  PROVE  /\ Fees(items, rule, answers, default) \in SUBSET Nat
         /\ ReturnFee(items, rule, answers, default) \in Fees(items, rule, answers, default)
         /\ \A fee \in Fees(items, rule, answers, default) : ReturnFee(items, rule, answers, default) >= fee
<1> DEFINE charged == {ItemFee(rule[i], answers[i], default) : i \in items}
           fees    == {0} \cup charged
<1>1. \A i \in items : ItemFee(rule[i], answers[i], default) \in Nat
  BY DEF ItemFee, Rule
<1>2. IsFiniteSet(items)
  BY ItemsAssumption, FS_Subset
<1>3. IsFiniteSet(charged)
  <2> DEFINE f == [i \in items |-> ItemFee(rule[i], answers[i], default)]
  <2>1. f \in Surjection(items, charged)
    BY DEF Surjection
  <2> QED BY <1>2, <2>1, FS_Surjection
<1>4. IsFiniteSet(fees)
  BY <1>3, FS_Singleton, FS_Union
<1>5. fees \in SUBSET Nat /\ fees # {}
  BY <1>1
<1>6. ReturnFee(items, rule, answers, default) = Max(fees)
  BY Zenon DEF ReturnFee
<1>8. Fees(items, rule, answers, default) = fees
  BY Zenon DEF Fees
<1> HIDE DEF fees
<1>7. Max(fees) \in fees /\ \A fee \in fees : Max(fees) >= fee
  BY <1>4, <1>5, MaxOf
<1> QED BY <1>5, <1>6, <1>7, <1>8

\* The return that is stored has a line for each item that passed validation.
LEMMA NewReturnTyped ==
  ASSUME NEW p \in Sendings, p.check \in Check, ~Incomplete(p.sent)
  PROVE  /\ NewReturn(p) \in Return
         /\ NewReturn(p).order = p.sent.order /\ NewReturn(p).resolution = p.sent.resolution
         /\ NewReturn(p).open
         /\ \A i \in Items : NewReturn(p).photos[i] = 0
         /\ \A i \in Validated(p) : NewReturn(p).qty[i] = p.sent.selected[i].qty
         /\ \A i \in Items \ Validated(p) : NewReturn(p).qty[i] = 0
         /\ NewReturn(p).fee = p.check.fee
         /\ Lines(NewReturn(p)) = Validated(p)
         /\ Validated(p) \subseteq Chosen(p.sent)
<1> DEFINE d == p.sent
<1>0. d \in Journeys /\ p.check.fee \in Nat
  BY DEF Sendings, Check
<1>1. \A i \in Chosen(d) : d.selected[i].qty \in Nat \ {0}
  BY <1>0 DEF Chosen, Journeys, Held
<1>2. Validated(p) \subseteq Chosen(d) /\ Chosen(d) \subseteq Items
  BY DEF Validated, Chosen
<1>4. d.order \in Orders /\ d.resolution \in Resolutions
  BY <1>0 DEF Incomplete, Journeys
<1> DEFINE units  == [i \in Items |-> IF i \in Validated(p) THEN d.selected[i].qty ELSE 0]
           photos == [i \in Items |-> 0]
           fee    == p.check.fee
<1>5. units \in [Items -> Nat] /\ photos \in [Items -> Nat]
  BY <1>1, <1>2
<1>6. \A i \in Items : /\ photos[i] = 0
                       /\ i \in Validated(p) => units[i] = d.selected[i].qty
                       /\ i \notin Validated(p) => units[i] = 0
  OBVIOUS
<1>7. NewReturn(p) = [open |-> TRUE, order |-> d.order, resolution |-> d.resolution,
                      qty |-> units, fee |-> fee, photos |-> photos]
  BY Zenon DEF NewReturn
<1> HIDE DEF units, photos, fee
<1>9. NewReturn(p) \in Return
  BY <1>0, <1>4, <1>5, <1>7 DEF Return, fee
<1>10. Lines(NewReturn(p)) = Validated(p)
  BY <1>1, <1>2, <1>6, <1>7 DEF Lines
<1> QED BY <1>2, <1>6, <1>7, <1>9, <1>10 DEF fee

\* Where the pages' edits lead.
LEMMA DataStep ==
  ASSUME JourneyShape, Journey
  PROVE  data' \in Journeys
<1>1. ASSUME NEW o \in Orders, LookupOrder(o) PROVE data' \in Journeys
  <2>1. [i \in Items |-> IF OrderOf[i] = o THEN Offered(i) ELSE None] \in [Items -> Held]
    BY OfferedHeld DEF Held
  <2> QED BY <1>1, <2>1 DEF LookupOrder, JourneyShape, Journeys
<1>2. ASSUME SelectItems PROVE data' \in Journeys
  <2>1. PICK chosen \in [Items -> {None} \cup {data.selected[i] : i \in Items} \cup {data.eligible[i] : i \in Items}] :
           data' = [data EXCEPT !.selected = chosen]
    BY <1>2 DEF SelectItems
  <2>2. chosen \in [Items -> Held]
    BY DEF JourneyShape, Journeys, Held
  <2> QED BY <2>1, <2>2 DEF JourneyShape, Journeys
<1>3. ASSUME GiveReasons PROVE data' \in Journeys
  BY <1>3 DEF GiveReasons, JourneyShape, Journeys
<1>4. ASSUME ChooseResolution PROVE data' \in Journeys
  <2>1. PICK res \in (AllowedThen(data) \cup {data.resolution}) \ {None} : data' = [data EXCEPT !.resolution = res]
    BY <1>4 DEF ChooseResolution
  <2>2. res \in Resolutions
    BY <2>1 DEF AllowedThen, JourneyShape, Journeys
  <2> QED BY <2>1, <2>2 DEF JourneyShape, Journeys
<1>5. EmptyData \in Journeys
  BY DEF EmptyData, Journeys, Held
<1>6. CASE Reload
  BY <1>5, <1>6 DEF Reload
<1>7. CASE GoToConfirm \/ RedirectIncomplete \/ Quote \/ Back
  <2>1. data' = data
    BY <1>7, ZenonT(30) DEF GoToConfirm, RedirectIncomplete, Quote, Back
  <2> QED BY <2>1 DEF JourneyShape
<1> QED BY <1>1, <1>2, <1>3, <1>4, <1>6, <1>7 DEF Journey

-----------------------------------------------------------------------------
(* What a step makes of a submission.                                      *)

Sending(d, q) == [stage |-> "sent", sent |-> d, quoted |-> q, heard |-> "page",
                  check |-> None, ret |-> None, todo |-> {}, failed |-> FALSE]

\* The submission that each of its own steps leaves behind.
TakenUp(p) ==
  [p EXCEPT !.stage = "checking", !.todo = {i \in Chosen(p.sent) : OrderOf[i] = p.sent.order},
            !.check = [refundable |-> left, remaining |-> [i \in Items |-> Remaining(i)],
                       rules |-> [i \in Items |-> None], inForce |-> {policy}, default |-> None, fee |-> 0]]
Judging(p, i) ==
  [p EXCEPT !.todo = p.todo \ {i}, !.check = [p.check EXCEPT !.rules = [p.check.rules EXCEPT ![i] = policy.rule[i]]]]
Pricing(p) ==
  [p EXCEPT !.stage = "priced",
            !.check = [p.check EXCEPT !.default = policy.default,
                                      !.fee = ReturnFee(Validated(p), p.check.rules, p.sent.answers, policy.default)]]
Storing(p, r) == [p EXCEPT !.stage = "stored", !.check = None, !.ret = r]
Photographing(p) == [p EXCEPT !.stage = "photos", !.todo = {i \in Chosen(p.sent) : p.sent.answers[i].photos > 0}]
Uploading(p, i, failed) == [p EXCEPT !.todo = p.todo \ {i}, !.failed = failed]
Noticing(p) == [p EXCEPT !.check = [p.check EXCEPT !.inForce = p.check.inForce \cup {policy'}]]

\* What an uploaded item makes of the returns.
Uploads(s, i, failed) == returns' \in {returns, Attach(s, i)} /\ (failed \/ returns' = Attach(s, i))

\* Everybody else's submissions stay as they are.
Alone(s) == \A t \in Posts \ {s} : posts'[t] = posts[t]

Waits(s)     == posts'[s] = posts[s] /\ (policy' = policy \/ posts[s].check = None)
Loses(s)     == (\E heard \in {"closure", "nobody"} : posts'[s] = [posts[s] EXCEPT !.heard = heard]) /\ policy' = policy
Notices(s)   == posts[s].check # None /\ posts'[s] = Noticing(posts[s]) /\ UNCHANGED <<page, data>>
TakesUp(s)   == LoadOrder(s) /\ posts'[s] = TakenUp(posts[s])
Judges(s)    == EvaluateItem(s) /\ \E i \in posts[s].todo : posts'[s] = Judging(posts[s], i)
Prices(s)    == PriceReturn(s) /\ posts'[s] = Pricing(posts[s])
Stores(s)    == CreateReturn(s) /\ \E r \in Returns : /\ returns[r] = None
                                                     /\ returns' = [returns EXCEPT ![r] = NewReturn(posts[s])]
                                                     /\ posts'[s] = Storing(posts[s], r)
Photographs(s) == Created(s) /\ posts'[s] = Photographing(posts[s])
Attaches(s)  == /\ UploadPhotos(s) /\ posts[s].stage = "photos"
                /\ \E i \in posts[s].todo, failed \in {posts[s].failed, TRUE} :
                     posts'[s] = Uploading(posts[s], i, failed) /\ Uploads(s, i, failed)

\* A submission under way after a step is a new one, or was under way before and
\* took one of its steps, or waited.
Begins(s)  == Submit(s) /\ posts'[s] = Sending(data, quote)
Goes(s)    == /\ posts[s] # None
              /\ \/ Waits(s) \/ Loses(s) \/ Notices(s)
                 \/ /\ TakesUp(s) \/ Judges(s) \/ Prices(s) \/ Stores(s) \/ Photographs(s) \/ Attaches(s)
                    /\ Alone(s)

\* The actions that leave the submissions alone.
LEMMA Bystanders ==
  ASSUME JourneyNext
  PROVE  \/ (\E s \in Posts : Submission(s)) \/ Back \/ Reload \/ OpenStatus \/ EditPolicy
         \/ posts' = posts /\ policy' = policy
<1>1. Journey => Back \/ Reload \/ (posts' = posts /\ policy' = policy)
  BY DEF Journey, LookupOrder, SelectItems, GiveReasons, ChooseResolution, GoToConfirm, RedirectIncomplete, Quote, server
<1>2. StatusPage => OpenStatus \/ (posts' = posts /\ policy' = policy)
  BY DEF StatusPage, TypeEmail, StatusAnswer, TryDifferentEmail, server
<1>3. RefundUnit \/ OtherTab \/ Decide => posts' = posts /\ policy' = policy
  BY DEF RefundUnit, OtherTab, Decide, tab
<1> QED BY <1>1, <1>2, <1>3 DEF JourneyNext

\* One upload: what is left to do, and whether one has failed.
LEMMA UploadEffect ==
  ASSUME JourneyShape, NEW s \in Posts, UploadPhotos(s)
  PROVE  /\ posts[s] # None /\ posts[s] \in Sendings /\ posts[s].stage = "photos"
         /\ Attaches(s) /\ Alone(s)
         /\ UNCHANGED <<page, data, quote, shown, status, left, elsewhere, policy, events>>
<1>1. posts[s] # None /\ posts[s] \in Sendings /\ posts[s].stage = "photos" /\ posts \in [Posts -> Sendings \cup {None}]
  BY DEF UploadPhotos, JourneyShape
<1>2. PICK i \in posts[s].todo :
         \/ /\ posts' = [posts EXCEPT ![s].todo = @ \ {i}]
            /\ returns' = Attach(s, i)
         \/ /\ posts' = [posts EXCEPT ![s].todo = @ \ {i}, ![s].failed = TRUE]
            /\ returns' \in FailedUpload(s, i)
  BY DEF UploadPhotos
<1>3. \E failed \in {posts[s].failed, TRUE} :
         posts' = [posts EXCEPT ![s] = Uploading(posts[s], i, failed)] /\ Uploads(s, i, failed)
  <2>1. CASE posts' = [posts EXCEPT ![s].todo = @ \ {i}] /\ returns' = Attach(s, i)
    <3>1. posts' = [posts EXCEPT ![s] = Uploading(posts[s], i, posts[s].failed)]
      BY <1>1, <2>1 DEF Sendings, Uploading
    <3> QED BY <2>1, <3>1 DEF Uploads
  <2>2. CASE /\ posts' = [posts EXCEPT ![s].todo = @ \ {i}, ![s].failed = TRUE]
             /\ returns' \in FailedUpload(s, i)
    <3>1. posts' = [posts EXCEPT ![s] = Uploading(posts[s], i, TRUE)]
      BY <1>1, <2>2 DEF Sendings, Uploading
    <3> QED BY <2>2, <3>1 DEF Uploads, FailedUpload
  <2> QED BY <1>2, <2>1, <2>2
<1>4. PICK failed \in {posts[s].failed, TRUE} :
         posts' = [posts EXCEPT ![s] = Uploading(posts[s], i, failed)] /\ Uploads(s, i, failed)
  BY <1>3
<1>5. posts'[s] = Uploading(posts[s], i, failed) /\ Alone(s)
  BY <1>1, <1>4 DEF Alone
<1>6. Attaches(s)
  BY <1>1, <1>4, <1>5 DEF Attaches
<1> QED BY <1>1, <1>5, <1>6 DEF UploadPhotos

\* A step of the submission's own.
LEMMA OwnStep ==
  ASSUME JourneyShape, NEW s \in Posts, Submission(s), posts'[s] # None
  PROVE  (Begins(s) \/ Goes(s)) /\ Alone(s)
<1>0. posts \in [Posts -> Sendings \cup {None}] /\ (posts[s] # None => posts[s] \in Sendings)
  BY DEF JourneyShape
<1>1. CASE Submit(s)
  BY <1>0, <1>1 DEF Submit, Begins, Sending, Alone
<1>2. CASE LoadOrder(s)
  <2>1. posts[s] # None /\ posts' = [posts EXCEPT ![s] = TakenUp(posts[s])]
    BY <1>0, <1>2 DEF LoadOrder, TakenUp, Sendings
  <2>2. posts'[s] = TakenUp(posts[s]) /\ Alone(s)
    BY <1>0, <2>1 DEF Alone
  <2> QED BY <1>2, <2>1, <2>2 DEF TakesUp, Goes
<1>3. CASE EvaluateItem(s)
  <2>1. posts[s] # None /\ posts[s] \in Sendings
    BY <1>0, <1>3 DEF EvaluateItem
  <2>2. PICK i \in posts[s].todo : posts' = [posts EXCEPT ![s].todo = @ \ {i}, ![s].check.rules[i] = policy.rule[i]]
    BY <1>3 DEF EvaluateItem
  <2>3. posts' = [posts EXCEPT ![s] = Judging(posts[s], i)]
    BY <1>0, <2>1, <2>2 DEF Judging, Sendings
  <2>4. posts'[s] = Judging(posts[s], i) /\ Alone(s)
    BY <1>0, <2>3 DEF Alone
  <2> QED BY <1>3, <2>1, <2>4 DEF Judges, Goes
<1>4. CASE PriceReturn(s)
  <2>1. posts[s] # None /\ posts[s] \in Sendings
    BY <1>0, <1>4 DEF PriceReturn
  <2> DEFINE fee == ReturnFee(Validated(posts[s]), posts[s].check.rules, posts[s].sent.answers, policy.default)
  <2>2. posts' = [posts EXCEPT ![s].stage = "priced", ![s].check.default = policy.default, ![s].check.fee = fee]
    BY <1>4 DEF PriceReturn
  <2>3. Pricing(posts[s]) = [posts[s] EXCEPT !.stage = "priced",
                               !.check = [posts[s].check EXCEPT !.default = policy.default, !.fee = fee]]
    BY DEF Pricing
  <2> HIDE DEF fee
  <2>4. posts' = [posts EXCEPT ![s] = Pricing(posts[s])]
    BY <1>0, <2>1, <2>2, <2>3 DEF Sendings
  <2>5. posts'[s] = Pricing(posts[s]) /\ Alone(s)
    BY <1>0, <2>4 DEF Alone
  <2> QED BY <1>4, <2>1, <2>5 DEF Prices, Goes
<1>5. CASE CreateReturn(s)
  <2>1. PICK r \in Returns :
           /\ returns[r] = None /\ returns' = [returns EXCEPT ![r] = NewReturn(posts[s])]
           /\ posts' = [posts EXCEPT ![s] = IF posts[s].heard = "nobody" THEN None
                                            ELSE [posts[s] EXCEPT !.stage = "stored", !.check = None, !.ret = r]]
    BY <1>5 DEF CreateReturn
  <2>2. posts'[s] = Storing(posts[s], r) /\ Alone(s)
    BY <1>0, <2>1 DEF Alone, Storing
  <2>3. Stores(s)
    BY <1>5, <2>1, <2>2 DEF Stores
  <2>4. posts[s] # None
    BY <1>5 DEF CreateReturn
  <2> QED BY <2>2, <2>3, <2>4 DEF Goes
<1>6. CASE Refuse(s) \/ Submitted(s)
  BY <1>0, <1>6 DEF Refuse, Submitted
<1>7. CASE LoseConnection(s)
  <2>1. posts[s] # None /\ posts'[s] = [posts[s] EXCEPT !.heard = "nobody"] /\ Alone(s) /\ policy' = policy
    BY <1>0, <1>7 DEF LoseConnection, Alone, server
  <2> QED BY <2>1 DEF Goes, Loses
<1>8. CASE Created(s)
  <2> DEFINE photographed == {i \in Chosen(posts[s].sent) : posts[s].sent.answers[i].photos > 0}
  <2>1. posts[s] # None /\ posts' = [posts EXCEPT ![s] = [posts[s] EXCEPT !.stage = "photos", !.todo = photographed]]
    BY <1>8 DEF Created
  <2>2. Photographing(posts[s]) = [posts[s] EXCEPT !.stage = "photos", !.todo = photographed]
    BY DEF Photographing
  <2> HIDE DEF photographed
  <2>3. posts'[s] = Photographing(posts[s]) /\ Alone(s)
    BY <1>0, <2>1, <2>2 DEF Alone
  <2> QED BY <1>8, <2>1, <2>3 DEF Photographs, Goes
<1>9. CASE UploadPhotos(s)
  BY <1>9, UploadEffect DEF Goes
<1> QED BY <1>1, <1>2, <1>3, <1>4, <1>5, <1>6, <1>7, <1>8, <1>9 DEF Submission

\* What a step leaves of a submission, whosever step it is.
LEMMA PostStep ==
  ASSUME JourneyShape, JourneyNext, NEW s \in Posts, posts'[s] # None
  PROVE  \/ Begins(s) /\ Alone(s)
         \/ Goes(s)
<1>0. posts \in [Posts -> Sendings \cup {None}]
  BY DEF JourneyShape
<1>1. ASSUME posts'[s] = posts[s], policy' = policy PROVE Goes(s)
  BY <1>1 DEF Goes, Waits
<1>2. ASSUME NEW q \in Posts, Submission(q) PROVE (Begins(s) /\ Alone(s)) \/ Goes(s)
  <2>1. CASE q = s
    BY <1>2, <2>1, OwnStep
  <2>2. CASE q # s
    <3>1. posts'[s] = posts[s] /\ policy' = policy
      <4>1. CASE Refuse(q) \/ Submitted(q) \/ LoseConnection(q)
        BY <1>0, <2>2, <4>1 DEF Refuse, Submitted, LoseConnection, server
      <4>2. CASE Submit(q)
        BY <1>0, <2>2, <4>2 DEF Submit, server
      <4>3. CASE LoadOrder(q) \/ PriceReturn(q)
        BY <1>0, <2>2, <4>3 DEF LoadOrder, PriceReturn, server
      <4>4. CASE EvaluateItem(q)
        BY <1>0, <2>2, <4>4 DEF EvaluateItem, server
      <4>5. CASE CreateReturn(q)
        BY <1>0, <2>2, <4>5 DEF CreateReturn
      <4>6. CASE Created(q)
        BY <1>0, <2>2, <4>6 DEF Created, server
      <4>7. CASE UploadPhotos(q)
        BY <2>2, <4>7, UploadEffect DEF Alone
      <4> QED BY <1>2, <4>1, <4>2, <4>3, <4>4, <4>5, <4>6, <4>7 DEF Submission
    <3> QED BY <1>1, <3>1
  <2> QED BY <2>1, <2>2
<1>3. CASE Back
  <2>1. policy' = policy /\ posts'[s] \in {posts[s], [posts[s] EXCEPT !.heard = "closure"]}
    BY <1>3 DEF Back, Unmounted, server
  <2>2. posts[s] # None
    BY <1>3 DEF Back, Unmounted
  <2> QED BY <1>1, <2>1, <2>2 DEF Goes, Loses
<1>4. CASE Reload \/ OpenStatus
  <2>1. policy' = policy /\ posts' = [t \in Posts |-> IF posts[t] # None /\ posts[t].stage \in AtServer
                                                   THEN [posts[t] EXCEPT !.heard = "nobody"] ELSE None]
    BY <1>4, Zenon DEF Reload, OpenStatus, server
  <2>2. posts[s] # None /\ posts'[s] = [posts[s] EXCEPT !.heard = "nobody"]
    BY <2>1
  <2> QED BY <2>1, <2>2 DEF Goes, Loses
<1>5. CASE EditPolicy
  <2>1. posts' = [t \in Posts |-> IF posts[t] # None /\ posts[t].check # None
                                 THEN [posts[t] EXCEPT !.check.inForce = @ \cup {policy'}] ELSE posts[t]]
    BY <1>5 DEF EditPolicy
  <2>2. CASE posts[s] # None /\ posts[s].check # None
    <3>1. posts[s] \in Sendings /\ posts'[s] = [posts[s] EXCEPT !.check.inForce = @ \cup {policy'}]
      BY <1>0, <2>1, <2>2
    <3>2. posts'[s] = Noticing(posts[s])
      BY <3>1 DEF Noticing, Sendings
    <3> QED BY <1>5, <2>2, <3>2 DEF Notices, Goes, EditPolicy
  <2>3. CASE ~(posts[s] # None /\ posts[s].check # None)
    <3>1. posts'[s] = posts[s] /\ posts[s] # None /\ posts[s].check = None
      BY <2>1, <2>3
    <3> QED BY <3>1 DEF Goes, Waits
  <2> QED BY <2>2, <2>3
<1>6. CASE posts' = posts /\ policy' = policy
  BY <1>1, <1>6
<1> QED BY <1>2, <1>3, <1>4, <1>5, <1>6, Bystanders

-----------------------------------------------------------------------------
(* What the server has read for a submission.                              *)

Judged(p, i) == \E q \in p.check.inForce : p.check.rules[i] = q.rule[i]

\* While the server is at it: every item is still to be judged, or was judged by
\* a policy that was in force since the request was read; the policy of now is
\* one of these.  Once it is priced, all are judged and acceptable, and the fee
\* is that of the rules they were judged by.
Reading(p, now) ==
  /\ p.stage \in {"checking", "priced"} => p.check \in Check /\ now \in p.check.inForce
  /\ p.stage = "checking" => \A i \in Chosen(p.sent) : i \in p.todo \/ OrderOf[i] # p.sent.order \/ Judged(p, i)
  /\ p.stage = "priced" =>
       /\ Acceptable(p) /\ \A i \in Chosen(p.sent) : Judged(p, i)
       /\ p.check.default \in Nat
       /\ p.check.fee = ReturnFee(Validated(p), p.check.rules, p.sent.answers, p.check.default)

CheckInv == \A s \in Posts : posts[s] # None => Reading(posts[s], policy)

\* An item was judged by a policy's rule.
LEMMA JudgedRule ==
  ASSUME NEW p, p.check \in Check, NEW i \in Items, Judged(p, i)
  PROVE  p.check.rules[i] \in Rule
<1>1. PICK q \in p.check.inForce : p.check.rules[i] = q.rule[i]
  BY DEF Judged
<1>2. q \in Policies
  BY DEF Check
<1> QED BY <1>1, <1>2, PolicyAssumption

\* When none is left to be judged and all are on the order, all are judged.
LEMMA AllJudged ==
  ASSUME NEW p, NEW now, Reading(p, now), p.stage = "checking", p.todo = {}, Acceptable(p)
  PROVE  /\ p.check \in Check
         /\ \A i \in Chosen(p.sent) : Judged(p, i) /\ p.check.rules[i] \in Rule
         /\ Validated(p) \in SUBSET Items /\ Validated(p) \subseteq Chosen(p.sent)
<1>1. p.check \in Check
  BY DEF Reading
<1>2. \A i \in Chosen(p.sent) : Judged(p, i)
  <2>1. \A i \in Chosen(p.sent) : OrderOf[i] = p.sent.order
    BY DEF Acceptable
  <2> QED BY <2>1 DEF Reading
<1>3. Chosen(p.sent) \in SUBSET Items /\ Validated(p) \subseteq Chosen(p.sent)
  BY DEF Chosen, Validated
<1> QED BY <1>1, <1>2, <1>3, JudgedRule

\* Each of these steps keeps a submission's shape, what was sent and what was
\* quoted, and nobody starts to listen to it.
LEMMA GoesTyped ==
  ASSUME JourneyShape, CheckInv, NEW s \in Posts, Goes(s), policy' \in Policies
  PROVE  /\ posts[s] # None /\ posts[s] \in Sendings /\ posts'[s] \in Sendings
         /\ posts'[s].sent = posts[s].sent /\ posts'[s].quoted = posts[s].quoted
         /\ posts'[s].heard \in {posts[s].heard, "closure", "nobody"}
<1> DEFINE p == posts[s]
           Typed == /\ posts'[s] \in Sendings /\ posts'[s].sent = p.sent /\ posts'[s].quoted = p.quoted
                    /\ posts'[s].heard \in {p.heard, "closure", "nobody"}
<1>0. /\ p # None /\ p \in Sendings /\ policy \in Policies /\ policy.default \in Nat
      /\ p.stage \in {"checking", "priced"} => p.check \in Check
  BY PolicyAssumption DEF JourneyShape, Goes, CheckInv, Reading
<1>1. ASSUME Waits(s) PROVE Typed
  BY <1>0, <1>1 DEF Waits
<1>2. ASSUME Loses(s) PROVE Typed
  BY <1>0, <1>2 DEF Loses, Sendings
<1>3. ASSUME Notices(s) PROVE Typed
  <2> DEFINE check == [p.check EXCEPT !.inForce = p.check.inForce \cup {policy'}]
  <2>1. p.check \in Check
    BY <1>0, <1>3 DEF Notices, Sendings
  <2>2. check \in Check
    BY <2>1 DEF Check
  <2>3. posts'[s] = [p EXCEPT !.check = check]
    BY <1>3 DEF Notices, Noticing
  <2> HIDE DEF check
  <2> QED BY <1>0, <2>2, <2>3 DEF Sendings
<1>4. ASSUME TakesUp(s) PROVE Typed
  <2> DEFINE check == [refundable |-> left, remaining |-> [i \in Items |-> Remaining(i)],
                       rules |-> [i \in Items |-> None], inForce |-> {policy}, default |-> None, fee |-> 0]
             todo  == {i \in Chosen(p.sent) : OrderOf[i] = p.sent.order}
  <2>1. check \in Check
    <3>1. [i \in Items |-> Remaining(i)] \in [Items -> Nat]
      BY RemainingTyped
    <3>2. left \in [Items -> Nat] /\ [i \in Items |-> None] \in [Items -> Rule \cup {None}] /\ {policy} \in SUBSET Policies
      BY <1>0 DEF JourneyShape
    <3> QED BY <3>1, <3>2 DEF Check
  <2>2. posts'[s] = [p EXCEPT !.stage = "checking", !.todo = todo, !.check = check]
    BY <1>4 DEF TakesUp, TakenUp
  <2>3. todo \in SUBSET Items
    BY DEF Chosen
  <2> HIDE DEF check, todo
  <2> QED BY <1>0, <2>1, <2>2, <2>3 DEF Sendings
<1>5. ASSUME Judges(s) PROVE Typed
  <2>1. PICK i \in p.todo : posts'[s] = Judging(p, i)
    BY <1>5 DEF Judges
  <2> DEFINE rules == [p.check.rules EXCEPT ![i] = policy.rule[i]]
             check == [p.check EXCEPT !.rules = rules]
  <2>2. i \in Items /\ p.todo \in SUBSET Items /\ p.check \in Check
    BY <1>0, <1>5 DEF Sendings, Judges, EvaluateItem
  <2>3. rules \in [Items -> Rule \cup {None}]
    BY <1>0, <2>2, PolicyAssumption DEF Check
  <2>4. posts'[s] = [p EXCEPT !.todo = p.todo \ {i}, !.check = check]
    BY <2>1 DEF Judging
  <2> HIDE DEF rules
  <2>5. check \in Check
    BY <2>2, <2>3 DEF Check
  <2> HIDE DEF check
  <2> QED BY <1>0, <2>2, <2>4, <2>5 DEF Sendings
<1>6. ASSUME Prices(s) PROVE Typed
  <2> DEFINE fee == ReturnFee(Validated(p), p.check.rules, p.sent.answers, policy.default)
             check == [p.check EXCEPT !.default = policy.default, !.fee = fee]
  <2>1. p.check \in Check
    BY <1>0, <1>6 DEF Prices, PriceReturn
  <2>2. fee \in Nat
    <3>1. p.stage = "checking" /\ p.todo = {} /\ Acceptable(p) /\ Reading(p, policy)
      BY <1>0, <1>6 DEF Prices, PriceReturn, CheckInv
    <3>2. Validated(p) \in SUBSET Items /\ \A i \in Validated(p) : p.check.rules[i] \in Rule
      BY <3>1, AllJudged
    <3> QED BY <1>0, <3>2, FeeTyped
  <2>3. posts'[s] = [p EXCEPT !.stage = "priced", !.check = check]
    BY <1>6 DEF Prices, Pricing
  <2> HIDE DEF fee
  <2>4. check \in Check
    BY <1>0, <2>1, <2>2 DEF Check
  <2> HIDE DEF check
  <2> QED BY <1>0, <2>3, <2>4 DEF Sendings
<1>7. ASSUME Stores(s) PROVE Typed
  BY <1>0, <1>7 DEF Stores, Storing, Sendings
<1>8. ASSUME Photographs(s) PROVE Typed
  <2> DEFINE photographed == {i \in Chosen(p.sent) : p.sent.answers[i].photos > 0}
  <2>1. posts'[s] = [p EXCEPT !.stage = "photos", !.todo = photographed]
    BY <1>8 DEF Photographs, Photographing
  <2>2. photographed \in SUBSET Items
    BY DEF Chosen
  <2> HIDE DEF photographed
  <2> QED BY <1>0, <2>1, <2>2 DEF Sendings
<1>9. ASSUME Attaches(s) PROVE Typed
  <2>1. PICK i \in p.todo, failed \in {p.failed, TRUE} : posts'[s] = [p EXCEPT !.todo = p.todo \ {i}, !.failed = failed]
    BY <1>9 DEF Attaches, Uploading
  <2>2. p.failed \in BOOLEAN /\ p.todo \in SUBSET Items
    BY <1>0 DEF Sendings
  <2>3. failed \in BOOLEAN
    BY <2>2, Zenon
  <2> QED BY <1>0, <2>1, <2>2, <2>3 DEF Sendings
<1>10. Typed
  <2> HIDE DEF Typed
  <2> QED BY <1>1, <1>2, <1>3, <1>4, <1>5, <1>6, <1>7, <1>8, <1>9 DEF Goes
<1> QED BY <1>0, <1>10

\* Submissions keep their shape.
LEMMA PostsStep ==
  ASSUME JourneyShape, CheckInv, JourneyNext, policy' \in Policies
  PROVE  posts' \in [Posts -> Sendings \cup {None}]
<1>0. posts \in [Posts -> Sendings \cup {None}] /\ data \in Journeys /\ quote \in Quotes \cup {None}
  BY DEF JourneyShape
<1>1. posts' = [s \in Posts |-> posts'[s]]
  <2>1. CASE Back \/ Reload \/ OpenStatus \/ EditPolicy
    BY <2>1 DEF Back, Unmounted, Reload, OpenStatus, EditPolicy
  <2>2. ASSUME NEW s \in Posts, Submission(s) PROVE posts' = [t \in Posts |-> posts'[t]]
    <3>1. CASE UploadPhotos(s)
      BY <1>0, <3>1 DEF UploadPhotos
    <3>2. CASE ~UploadPhotos(s)
      BY <1>0, <2>2, <3>2 DEF Submission, Submit, LoadOrder, EvaluateItem, PriceReturn, CreateReturn, Refuse,
                              LoseConnection, Created, Submitted
    <3> QED BY <3>1, <3>2
  <2>3. CASE posts' = posts
    BY <1>0, <2>3
  <2> QED BY <2>1, <2>2, <2>3, Bystanders
<1>2. ASSUME NEW s \in Posts, posts'[s] # None PROVE posts'[s] \in Sendings
  <2>1. CASE Begins(s)
    BY <1>0, <2>1 DEF Begins, Sending, Sendings
  <2>2. CASE Goes(s)
    BY <2>2, GoesTyped
  <2> QED BY <1>2, <2>1, <2>2, PostStep
<1> QED BY <1>1, <1>2

\* What was read stays, when the submission's journey, place and reading do.
LEMMA SameReading ==
  ASSUME NEW p, NEW q, NEW now, Reading(p, now), q.sent = p.sent, q.stage = p.stage, q.todo = p.todo,
         q.check = p.check
  PROVE  Reading(q, now)
<1>1. Validated(q) = Validated(p) /\ \A i : Judged(q, i) = Judged(p, i)
  BY DEF Validated, Judged
<1>2. Acceptable(q) = Acceptable(p)
  BY <1>1, Zenon DEF Acceptable
<1> QED BY <1>1, <1>2 DEF Reading

\* The server's reading of a submission is kept in every step.
LEMMA CheckStep ==
  ASSUME JourneyShape, CheckInv, JourneyNext, policy' \in Policies
  PROVE  CheckInv'
<1> SUFFICES ASSUME NEW s \in Posts, posts'[s] # None PROVE Reading(posts'[s], policy')
  BY DEF CheckInv
<1> DEFINE p == posts[s]
<1>1. CASE Begins(s)
  BY <1>1 DEF Begins, Sending, Reading
<1>2. ASSUME Goes(s) PROVE Reading(posts'[s], policy')
  <2>0. p # None /\ p \in Sendings /\ Reading(p, policy) /\ posts'[s].sent = p.sent /\ posts'[s] \in Sendings
    BY <1>2, GoesTyped DEF CheckInv
  <2>1. CASE Waits(s)
    <3>1. CASE policy' = policy
      BY <2>0, <2>1, <3>1 DEF Waits
    <3>2. CASE p.check = None
      <4>1. p.stage \notin {"checking", "priced"}
        BY <2>0, <3>2, NoneAssumption DEF Reading
      <4> QED BY <2>1, <4>1 DEF Waits, Reading
    <3> QED BY <2>1, <3>1, <3>2 DEF Waits
  <2>2. CASE Loses(s)
    <3>1. posts'[s].stage = p.stage /\ posts'[s].todo = p.todo /\ posts'[s].check = p.check /\ policy' = policy
      BY <2>0, <2>2 DEF Loses, Sendings
    <3> QED BY <2>0, <3>1, SameReading
  <2>3. CASE Notices(s)
    <3> DEFINE q == posts'[s]
    <3>1. p.check \in Check
      BY <2>0, <2>3 DEF Notices, Sendings
    <3>2. q.stage = p.stage /\ q.todo = p.todo /\ q.check = [p.check EXCEPT !.inForce = p.check.inForce \cup {policy'}]
      BY <2>0, <2>3 DEF Notices, Noticing, Sendings
    <3>3. /\ q.check \in Check /\ q.check.inForce = p.check.inForce \cup {policy'} /\ q.check.rules = p.check.rules
          /\ q.check.remaining = p.check.remaining /\ q.check.default = p.check.default /\ q.check.fee = p.check.fee
      BY <3>1, <3>2 DEF Check
    <3> HIDE DEF q
    <3>4. q.sent = p.sent
      BY <2>0 DEF q
    <3>5. Validated(q) = Validated(p) /\ (\A i : Judged(p, i) => Judged(q, i))
      BY <3>3, <3>4 DEF Validated, Judged
    <3>6. Acceptable(q) = Acceptable(p)
      BY <3>3, <3>4, <3>5, Zenon DEF Acceptable
    <3>7. Reading(q, policy')
      BY <2>0, <3>2, <3>3, <3>4, <3>5, <3>6 DEF Reading
    <3> QED BY <3>7 DEF q
  <2>4. CASE TakesUp(s)
    <3> DEFINE check == [refundable |-> left, remaining |-> [i \in Items |-> Remaining(i)],
                         rules |-> [i \in Items |-> None], inForce |-> {policy}, default |-> None, fee |-> 0]
               todo  == {i \in Chosen(p.sent) : OrderOf[i] = p.sent.order}
    <3>1. posts'[s] = [p EXCEPT !.stage = "checking", !.todo = todo, !.check = check] /\ policy' = policy
      BY <2>4 DEF TakesUp, TakenUp, LoadOrder, server
    <3>2. check.inForce = {policy}
      OBVIOUS
    <3>3. \A i \in Chosen(p.sent) : i \in todo \/ OrderOf[i] # p.sent.order
      OBVIOUS
    <3>4. check # None
      <4>1. check \in Check
        <5>1. [i \in Items |-> Remaining(i)] \in [Items -> Nat]
          BY RemainingTyped
        <5>2. left \in [Items -> Nat] /\ [i \in Items |-> None] \in [Items -> Rule \cup {None}] /\ {policy} \in SUBSET Policies
          BY DEF JourneyShape
        <5> QED BY <5>1, <5>2 DEF Check
      <4> QED BY <4>1, NoneAssumption
    <3> HIDE DEF check, todo
    <3>5. posts'[s].stage = "checking" /\ posts'[s].todo = todo /\ posts'[s].check = check
      BY <2>0, <3>1 DEF Sendings
    <3>6. posts'[s].check \in Check
      BY <2>0, <3>4, <3>5 DEF Sendings
    <3> QED BY <2>0, <3>1, <3>2, <3>3, <3>5, <3>6 DEF Reading
  <2>5. CASE Judges(s)
    <3> DEFINE q == posts'[s]
    <3>1. PICK j \in p.todo : posts'[s] = Judging(p, j)
      BY <2>5 DEF Judges
    <3>2. p.stage = "checking" /\ policy' = policy /\ p.check \in Check /\ policy \in p.check.inForce
      BY <2>0, <2>5 DEF Judges, EvaluateItem, server, Reading
    <3> DEFINE rules == [p.check.rules EXCEPT ![j] = policy.rule[j]]
    <3>3. q.stage = p.stage /\ q.todo = p.todo \ {j} /\ q.check = [p.check EXCEPT !.rules = rules]
      BY <2>0, <3>1 DEF Judging, Sendings
    <3>4. \A i \in Items : rules[i] = IF i = j THEN policy.rule[i] ELSE p.check.rules[i]
      BY <3>2 DEF Check
    <3> HIDE DEF rules
    <3>5. q.check.inForce = p.check.inForce /\ q.check.rules = rules
      BY <3>2, <3>3 DEF Check
    <3>6. q.check # None
      <4>1. rules \in [Items -> Rule \cup {None}]
        BY <2>0, <3>2, PolicyAssumption DEF Check, JourneyShape, rules
      <4> QED BY <3>2, <3>3, <4>1, NoneAssumption DEF Check
    <3>7. q.check \in Check
      BY <2>0, <3>6 DEF Sendings
    <3>8. \A i \in Items : i = j \/ Judged(p, i) => Judged(q, i)
      BY <3>2, <3>4, <3>5 DEF Judged
    <3>9. Chosen(p.sent) \subseteq Items
      BY DEF Chosen
    <3> HIDE DEF q
    <3>10. q.sent = p.sent
      BY <2>0 DEF q
    <3>11. Reading(q, policy')
      BY <2>0, <3>2, <3>3, <3>5, <3>7, <3>8, <3>9, <3>10 DEF Reading
    <3> QED BY <3>11 DEF q
  <2>6. CASE Prices(s)
    <3> DEFINE q   == posts'[s]
               fee == ReturnFee(Validated(p), p.check.rules, p.sent.answers, policy.default)
    <3>1. p.stage = "checking" /\ p.todo = {} /\ Acceptable(p) /\ policy' = policy /\ policy \in p.check.inForce
      BY <2>0, <2>6 DEF Prices, PriceReturn, server, Reading
    <3>2. p.check \in Check /\ (\A i \in Chosen(p.sent) : Judged(p, i))
      BY <2>0, <3>1, AllJudged
    <3>3. posts'[s] = [p EXCEPT !.stage = "priced", !.check = [p.check EXCEPT !.default = policy.default, !.fee = fee]]
      BY <2>6 DEF Prices, Pricing
    <3> HIDE DEF fee
    <3>4. q.stage = "priced" /\ q.check = [p.check EXCEPT !.default = policy.default, !.fee = fee]
      BY <2>0, <3>3 DEF Sendings
    <3>5. /\ q.check.inForce = p.check.inForce /\ q.check.rules = p.check.rules /\ q.check.remaining = p.check.remaining
          /\ q.check.default = policy.default /\ q.check.fee = fee
      BY <3>2, <3>4 DEF Check
    <3>6. policy.default \in Nat
      BY PolicyAssumption DEF JourneyShape
    <3>7. q.check # None
      <4>1. fee \in Nat
        <5>1. Validated(p) \in SUBSET Items /\ \A i \in Validated(p) : p.check.rules[i] \in Rule
          BY <2>0, <3>1, AllJudged
        <5> QED BY <3>6, <5>1, FeeTyped DEF fee
      <4>2. q.check \in Check
        <5> HIDE DEF q
        <5> QED BY <3>2, <3>4, <3>6, <4>1 DEF Check
      <4> QED BY <4>2, NoneAssumption
    <3>8. q.check \in Check
      BY <2>0, <3>7 DEF Sendings
    <3> HIDE DEF q
    <3>9. q.sent = p.sent
      BY <2>0 DEF q
    <3>10. Validated(q) = Validated(p) /\ \A i : Judged(q, i) = Judged(p, i)
      BY <3>5, <3>9 DEF Validated, Judged
    <3>11. Acceptable(q)
      BY <3>1, <3>5, <3>9, <3>10, Zenon DEF Acceptable
    <3>12. q.check.fee = ReturnFee(Validated(q), q.check.rules, q.sent.answers, q.check.default)
      BY <3>5, <3>9, <3>10, Zenon DEF fee
    <3>13. Reading(q, policy')
      BY <3>1, <3>2, <3>4, <3>5, <3>6, <3>8, <3>9, <3>10, <3>11, <3>12 DEF Reading, q
    <3> QED BY <3>13 DEF q
  <2>7. CASE Stores(s) \/ Photographs(s) \/ Attaches(s)
    <3>1. posts'[s].stage \in {"stored", "photos"}
      <4>1. CASE Stores(s)
        BY <2>0, <4>1 DEF Stores, Storing, Sendings
      <4>2. CASE Photographs(s)
        BY <2>0, <4>2 DEF Photographs, Photographing, Sendings
      <4>3. CASE Attaches(s)
        BY <2>0, <4>3 DEF Attaches, Uploading, Sendings
      <4> QED BY <2>7, <4>1, <4>2, <4>3
    <3> QED BY <3>1 DEF Reading
  <2> QED BY <1>2, <2>1, <2>2, <2>3, <2>4, <2>5, <2>6, <2>7 DEF Goes
<1> QED BY <1>1, <1>2, PostStep

-----------------------------------------------------------------------------
(* What is sent, and the page that waits for the answer.                   *)

\* What becomes of a submission in a step: it keeps the journey and the quote
\* it was sent with, and nobody starts to listen to it.
LEMMA SendingStep ==
  ASSUME JourneyShape, CheckInv, TabInv, JourneyNext, policy' \in Policies, NEW s \in Posts, posts'[s] # None
  PROVE  \/ /\ Submit(s) /\ Alone(s)
            /\ posts'[s].sent = data /\ posts'[s].quoted = quote /\ posts'[s].stage = "sent"
            /\ posts'[s].todo = {}
         \/ /\ posts[s] # None
            /\ posts'[s].sent = posts[s].sent /\ posts'[s].quoted = posts[s].quoted
            /\ posts'[s].heard \in {posts[s].heard, "closure", "nobody"}
            /\ posts'[s].todo \subseteq Chosen(posts[s].sent)
            /\ posts'[s].stage # "sent" => Answered(posts[s].sent)
<1> DEFINE p == posts[s]
<1>1. CASE Begins(s) /\ Alone(s)
  BY <1>1 DEF Begins, Sending
<1>2. ASSUME Goes(s)
      PROVE  posts'[s].todo \subseteq Chosen(p.sent) /\ (posts'[s].stage # "sent" => Answered(p.sent))
  <2>0. /\ p # None /\ p \in Sendings /\ p.todo \subseteq Chosen(p.sent)
        /\ p.stage # "sent" => Answered(p.sent)
    BY <1>2, GoesTyped DEF TabInv
  <2>1. CASE Waits(s)
    BY <2>0, <2>1 DEF Waits
  <2>2. CASE Loses(s)
    BY <2>0, <2>2 DEF Loses, Sendings
  <2>3. CASE Notices(s)
    BY <2>0, <2>3 DEF Notices, Noticing, Sendings
  <2>4. CASE TakesUp(s)
    <3> DEFINE todo == {i \in Chosen(p.sent) : OrderOf[i] = p.sent.order}
    <3>1. \E check : posts'[s] = [p EXCEPT !.stage = "checking", !.todo = todo, !.check = check]
      BY <2>4 DEF TakesUp, TakenUp
    <3>2. todo \subseteq Chosen(p.sent)
      OBVIOUS
    <3>3. Answered(p.sent)
      BY <2>4 DEF TakesUp, LoadOrder, Answered
    <3> HIDE DEF todo
    <3> QED BY <2>0, <3>1, <3>2, <3>3 DEF Sendings
  <2>5. CASE Judges(s)
    BY <2>0, <2>5 DEF Judges, EvaluateItem, Judging, Sendings
  <2>6. CASE Prices(s)
    <3>1. \E check : posts'[s] = [p EXCEPT !.stage = "priced", !.check = check]
      BY <2>6 DEF Prices, Pricing
    <3>2. p.stage = "checking"
      BY <2>6 DEF Prices, PriceReturn
    <3> QED BY <2>0, <3>1, <3>2 DEF Sendings
  <2>7. CASE Stores(s)
    <3>1. p.stage = "priced"
      BY <2>7 DEF Stores, CreateReturn
    <3> QED BY <2>0, <2>7, <3>1 DEF Stores, Storing, Sendings
  <2>8. CASE Photographs(s)
    <3> DEFINE photographed == {i \in Chosen(p.sent) : p.sent.answers[i].photos > 0}
    <3>1. posts'[s] = [p EXCEPT !.stage = "photos", !.todo = photographed] /\ p.stage = "stored"
      BY <2>8 DEF Photographs, Photographing, Created
    <3>2. photographed \subseteq Chosen(p.sent)
      OBVIOUS
    <3> HIDE DEF photographed
    <3> QED BY <2>0, <3>1, <3>2 DEF Sendings
  <2>9. CASE Attaches(s)
    BY <2>0, <2>9 DEF Attaches, Uploading, Sendings
  <2> QED BY <1>2, <2>1, <2>2, <2>3, <2>4, <2>5, <2>6, <2>7, <2>8, <2>9 DEF Goes
<1>3. CASE Goes(s)
  <2>1. /\ posts[s] # None /\ posts'[s].sent = posts[s].sent /\ posts'[s].quoted = posts[s].quoted
        /\ posts'[s].heard \in {posts[s].heard, "closure", "nobody"}
    BY <1>3, GoesTyped
  <2> QED BY <1>2, <1>3, <2>1
<1> QED BY <1>1, <1>3, PostStep

\* While somebody waits for a submission's answer on the page, the page and
\* the journey stay.
LEMMA WaitingStays ==
  ASSUME JourneyShape, TabInv, JourneyNext, NEW s \in Posts, Heard(s), Heard(s)'
  PROVE  page' = "confirm" /\ data' = data
<1>1. /\ posts \in [Posts -> Sendings \cup {None}] /\ posts[s] \in Sendings
      /\ posts[s] # None /\ posts[s].heard = "page" /\ posts'[s] # None /\ posts'[s].heard = "page"
      /\ page = "confirm" /\ data = posts[s].sent /\ ~Incomplete(data)
  BY DEF JourneyShape, TabInv, Heard
<1>2. ASSUME Back PROVE FALSE
  <2>1. posts'[s] = [posts[s] EXCEPT !.heard = "closure"]
    BY <1>1, <1>2 DEF Back, Unmounted
  <2> QED BY <1>1, <2>1 DEF Sendings
<1>3. ASSUME Reload PROVE FALSE
  <2>1. posts'[s] = [posts[s] EXCEPT !.heard = "nobody"]
    BY <1>1, <1>3 DEF Reload
  <2> QED BY <1>1, <2>1 DEF Sendings
<1>4. ASSUME NEW q \in Posts, Submission(q) PROVE page' = page /\ data' = data
  <2>1. CASE Submitted(q) /\ q = s
    <3>1. posts'[s] = None
      BY <1>1, <2>1 DEF Submitted
    <3> QED BY <1>1, <3>1
  <2>2. CASE Submitted(q) /\ q # s
    <3>1. posts[q] # None /\ posts[q].heard # "page"
      BY <1>1, <2>2 DEF Submitted, TabInv, Heard
    <3> QED BY <2>2, <3>1 DEF Submitted
  <2> QED BY <1>4, <2>1, <2>2 DEF Submission, Submit, LoadOrder, EvaluateItem, PriceReturn, CreateReturn, Refuse,
                                  LoseConnection, Created, UploadPhotos
<1>5. CASE Journey /\ ~Back /\ ~Reload
  BY <1>1, <1>5 DEF Journey, LookupOrder, SelectItems, GiveReasons, ChooseResolution, GoToConfirm,
                    RedirectIncomplete, Quote
<1>6. CASE StatusPage
  BY <1>1, <1>6 DEF StatusPage, OpenStatus, TypeEmail, StatusAnswer, TryDifferentEmail
<1>7. CASE EditPolicy \/ RefundUnit \/ OtherTab \/ Decide
  BY <1>1, <1>7 DEF EditPolicy, RefundUnit, OtherTab, Decide, tab
<1> QED BY <1>1, <1>2, <1>3, <1>4, <1>5, <1>6, <1>7 DEF JourneyNext

\* What the tab holds of its submissions is kept in every step.
LEMMA TabStep ==
  ASSUME JourneyShape, CheckInv, TabInv, JourneyNext, policy' \in Policies
  PROVE  TabInv'
<1>2. ASSUME NEW s \in Posts, posts'[s] # None
      PROVE  /\ ~Incomplete(posts'[s].sent) /\ posts'[s].todo \subseteq Chosen(posts'[s].sent)
             /\ posts'[s].stage # "sent" => Answered(posts'[s].sent)
  <2>1. CASE Submit(s) /\ posts'[s].sent = data /\ posts'[s].todo = {} /\ posts'[s].stage = "sent"
    BY <2>1 DEF Submit
  <2>2. CASE /\ posts[s] # None /\ posts'[s].sent = posts[s].sent /\ posts'[s].todo \subseteq Chosen(posts[s].sent)
             /\ posts'[s].stage # "sent" => Answered(posts[s].sent)
    BY <2>2 DEF TabInv
  <2> QED BY <1>2, <2>1, <2>2, SendingStep
<1>3. ASSUME NEW s \in Posts, Heard(s)'
      PROVE  \/ Submit(s) /\ Alone(s) /\ posts'[s].sent = data
             \/ Heard(s) /\ posts'[s].sent = posts[s].sent
  BY <1>3, SendingStep DEF Heard
<1>4. ASSUME NEW s \in Posts, Heard(s)' PROVE page' = "confirm" /\ data' = posts'[s].sent
  <2>1. CASE Submit(s) /\ posts'[s].sent = data
    BY <2>1 DEF Submit
  <2>2. CASE Heard(s) /\ posts'[s].sent = posts[s].sent
    <3>1. data = posts[s].sent
      BY <2>2 DEF TabInv
    <3> QED BY <1>4, <2>2, <3>1, WaitingStays
  <2> QED BY <1>3, <1>4, <2>1, <2>2
<1>5. ASSUME NEW s \in Posts, NEW t \in Posts, Heard(s)', Heard(t)' PROVE s = t
  <2> DEFINE Fresh(q) == Submit(q) /\ Alone(q)
  <2>0. posts'[s] # None /\ posts'[t] # None
    BY <1>5 DEF Heard
  <2>1. (Fresh(s) \/ Heard(s)) /\ (Fresh(t) \/ Heard(t))
    BY <1>3, <1>5
  <2>2. \A p, q \in Posts : Fresh(p) => ~Heard(q)
    BY DEF Submit, Loading, Heard
  <2>3. CASE Fresh(s) /\ Fresh(t)
    <3>1. posts[t] = None
      BY <2>3 DEF Submit
    <3> QED BY <2>0, <2>3, <3>1 DEF Alone
  <2>4. CASE Heard(s) /\ Heard(t)
    BY <2>4 DEF TabInv
  <2> QED BY <2>1, <2>2, <2>3, <2>4
<1> QED BY <1>2, <1>4, <1>5 DEF TabInv

-----------------------------------------------------------------------------
(* What is on file.                                                        *)

\* An upload changes the photos of one item of one return.
LEMMA AttachEffect ==
  ASSUME JourneyShape, NEW s \in Posts, posts[s] \in Sendings, NEW i \in Items,
         posts[s].ret \in Returns, returns[posts[s].ret] # None, posts[s].sent.answers[i] \in Answer
  PROVE  /\ Attach(s, i) \in [Returns -> Return \cup {None}]
         /\ \A r \in Returns \ {posts[s].ret} : Attach(s, i)[r] = returns[r]
         /\ LET old == returns[posts[s].ret]  new == Attach(s, i)[posts[s].ret]
            IN  /\ new # None /\ new.qty = old.qty /\ new.open = old.open
                /\ \A j \in Items \ {i} : new.photos[j] = old.photos[j]
                /\ old.qty[i] > 0 => new.photos[i] = posts[s].sent.answers[i].photos
<1> DEFINE r == posts[s].ret
           taken == posts[s].sent.answers[i].photos
<1>1. returns \in [Returns -> Return \cup {None}] /\ returns[r] \in Return
  BY DEF JourneyShape
<1>2. taken \in Nat
  BY DEF Answer, MaxPhotos
<1>3. CASE ~(returns[r].qty[i] > 0)
  <2>1. Attach(s, i) = returns
    BY <1>3 DEF Attach, Lines
  <2> QED BY <1>1, <1>3, <2>1
<1>4. CASE returns[r].qty[i] > 0
  <2> DEFINE photos == [returns[r].photos EXCEPT ![i] = taken]
             new    == [returns[r] EXCEPT !.photos = photos]
  <2>1. Attach(s, i) = [returns EXCEPT ![r] = new]
    BY <1>4 DEF Attach, Lines
  <2>2. photos \in [Items -> Nat] /\ photos[i] = taken /\ \A j \in Items \ {i} : photos[j] = returns[r].photos[j]
    BY <1>1, <1>2 DEF Return
  <2> HIDE DEF photos, taken, r
  <2>3. new \in Return /\ new.photos = photos /\ new.qty = returns[r].qty /\ new.open = returns[r].open
    BY <1>1, <2>2 DEF Return
  <2> HIDE DEF new
  <2>4. new # None
    BY <2>3, NoneAssumption
  <2>5. r \in Returns
    BY DEF r
  <2>6. Attach(s, i) \in [Returns -> Return \cup {None}] /\ Attach(s, i)[r] = new
        /\ \A q \in Returns \ {r} : Attach(s, i)[q] = returns[q]
    BY <1>1, <2>1, <2>3, <2>5
  <2> QED BY <2>2, <2>3, <2>4, <2>6 DEF r, taken
<1> QED BY <1>3, <1>4

Filed(s) == posts[s] # None /\ posts[s].stage \in {"stored", "photos"}

\* A submission that has made a return, and the confirmation, have a return
\* each that is on file and is nobody else's.
FiledInv ==
  /\ \A s \in Posts : Filed(s) =>
       /\ posts[s].ret \in Returns /\ returns[posts[s].ret] # None
       /\ Lines(returns[posts[s].ret]) \subseteq Chosen(posts[s].sent)
  /\ \A s, t \in Posts : Filed(s) /\ Filed(t) /\ posts[s].ret = posts[t].ret => s = t
  /\ page = "submitted" =>
       /\ shown.ret \in Returns /\ returns[shown.ret] # None
       /\ \A s \in Posts : Filed(s) => posts[s].ret # shown.ret

\* A return on file keeps its units; its photos change by an upload only.
LEMMA ReturnsStep ==
  ASSUME JourneyShape, CheckInv, TabInv, FiledInv, JourneyNext
  PROVE  /\ returns' \in [Returns -> Return \cup {None}]
         /\ \A r \in Returns : returns[r] # None => returns'[r] # None /\ returns'[r].qty = returns[r].qty
         /\ \A r \in Returns : \/ returns[r] = None \/ returns'[r].photos = returns[r].photos
                              \/ \E s \in Posts : UploadPhotos(s) /\ posts[s].ret = r
<1> DEFINE Kept == /\ returns' \in [Returns -> Return \cup {None}]
                   /\ \A r \in Returns : returns[r] # None => returns'[r] # None /\ returns'[r].qty = returns[r].qty
                   /\ \A r \in Returns : \/ returns[r] = None \/ returns'[r].photos = returns[r].photos
                                        \/ \E s \in Posts : UploadPhotos(s) /\ posts[s].ret = r
<1>0. returns \in [Returns -> Return \cup {None}] /\ None \notin Return
  BY NoneAssumption DEF JourneyShape
<1>1. ASSUME NEW s \in Posts, CreateReturn(s) PROVE Kept
  <2>1. PICK r \in Returns : returns[r] = None /\ returns' = [returns EXCEPT ![r] = NewReturn(posts[s])]
    BY <1>1 DEF CreateReturn
  <2>2. posts[s] \in Sendings /\ posts[s].check \in Check /\ ~Incomplete(posts[s].sent)
    BY <1>1 DEF CreateReturn, JourneyShape, TabInv, CheckInv, Reading
  <2>3. NewReturn(posts[s]) \in Return
    BY <2>2, NewReturnTyped
  <2> QED BY <1>0, <2>1, <2>3
<1>2. ASSUME NEW s \in Posts, UploadPhotos(s) PROVE Kept
  <2>1. PICK i \in posts[s].todo : returns' \in {returns, Attach(s, i)}
    BY <1>2, UploadEffect DEF Attaches, Uploads
  <2>2. posts[s] # None /\ posts[s] \in Sendings /\ posts[s].stage = "photos"
    BY <1>2, UploadEffect
  <2>3. i \in Items /\ posts[s].sent.answers[i] \in Answer
    <3>1. i \in Chosen(posts[s].sent) /\ Answered(posts[s].sent) /\ posts[s].sent \in Journeys
      BY <2>2 DEF TabInv, Sendings
    <3> QED BY <3>1 DEF Answered, Chosen, Journeys
  <2>4. posts[s].ret \in Returns /\ returns[posts[s].ret] # None
    BY <2>2 DEF FiledInv, Filed
  <2> DEFINE new == Attach(s, i)
  <2>5. /\ new \in [Returns -> Return \cup {None}]
        /\ \A r \in Returns \ {posts[s].ret} : new[r] = returns[r]
        /\ new[posts[s].ret] # None /\ new[posts[s].ret].qty = returns[posts[s].ret].qty
    BY <2>2, <2>3, <2>4, AttachEffect, Zenon
  <2> HIDE DEF new
  <2>6. CASE returns' = returns
    BY <1>0, <2>6
  <2>7. CASE returns' = new
    BY <1>0, <1>2, <2>5, <2>7
  <2> QED BY <2>1, <2>6, <2>7 DEF new
<1>3. ASSUME Decide PROVE Kept
  <2>1. CASE returns' = returns
    BY <1>0, <2>1
  <2>2. ASSUME NEW r \in Returns, returns[r] # None, returns' = [returns EXCEPT ![r].open = FALSE] PROVE Kept
    <3>1. returns' = [returns EXCEPT ![r] = [returns[r] EXCEPT !.open = FALSE]]
      BY <1>0, <2>2
    <3> DEFINE new == [returns[r] EXCEPT !.open = FALSE]
    <3>2. new \in Return /\ new.qty = returns[r].qty /\ new.photos = returns[r].photos
      BY <1>0, <2>2 DEF Return
    <3> HIDE DEF new
    <3> QED BY <1>0, <3>1, <3>2 DEF new
  <2> QED BY <1>3, <2>1, <2>2 DEF Decide
<1>4. ASSUME returns' = returns PROVE Kept
  BY <1>0, <1>4
<1>5. Journey \/ StatusPage => returns' = returns
  BY DEF Journey, LookupOrder, SelectItems, GiveReasons, ChooseResolution, GoToConfirm, RedirectIncomplete,
         Quote, Back, Reload, StatusPage, OpenStatus, TypeEmail, StatusAnswer, TryDifferentEmail, server
<1>6. EditPolicy \/ RefundUnit \/ OtherTab => returns' = returns
  BY SMTT(30) DEF EditPolicy, RefundUnit, OtherTab
<1>7. \A s \in Posts : Submission(s) /\ ~CreateReturn(s) /\ ~UploadPhotos(s) => returns' = returns
  BY DEF Submission, Submit, LoadOrder, EvaluateItem, PriceReturn, Refuse, LoseConnection, Created, Submitted, server
<1> HIDE DEF Kept
<1>8. Kept
  BY <1>1, <1>2, <1>3, <1>4, <1>5, <1>6, <1>7 DEF JourneyNext
<1> QED BY <1>8 DEF Kept

\* How a submission comes to have a return.
MadeBy(s) == /\ CreateReturn(s) /\ posts'[s].ret \in Returns /\ returns[posts'[s].ret] = None
             /\ returns' = [returns EXCEPT ![posts'[s].ret] = NewReturn(posts[s])]
             /\ posts'[s].sent = posts[s].sent /\ posts'[s].stage = "stored" /\ Alone(s)
KeptBy(s) == Filed(s) /\ posts'[s].ret = posts[s].ret /\ posts'[s].sent = posts[s].sent
Still(s)  == /\ posts'[s].stage = posts[s].stage /\ posts'[s].todo = posts[s].todo
             /\ posts'[s].failed = posts[s].failed

LEMMA FiledStep ==
  ASSUME JourneyShape, CheckInv, JourneyNext, policy' \in Policies, NEW s \in Posts, Filed(s)'
  PROVE  MadeBy(s) \/ (KeptBy(s) /\ (Still(s) \/ Photographs(s) \/ Attaches(s)))
<1> DEFINE p == posts[s]
<1>0. posts'[s] # None /\ posts'[s].stage \in {"stored", "photos"}
  BY DEF Filed
<1>1. CASE Begins(s)
  BY <1>0, <1>1 DEF Begins, Sending
<1>2. CASE Goes(s)
  <2>0. p # None /\ p \in Sendings /\ posts'[s].sent = p.sent
    BY <1>2, GoesTyped
  <2>1. CASE Waits(s)
    BY <1>0, <2>0, <2>1 DEF Waits, KeptBy, Still, Filed
  <2>2. CASE Loses(s)
    BY <1>0, <2>0, <2>2 DEF Loses, KeptBy, Still, Filed, Sendings
  <2>3. CASE Notices(s)
    BY <1>0, <2>0, <2>3 DEF Notices, Noticing, KeptBy, Still, Filed, Sendings
  <2>4. CASE TakesUp(s)
    BY <1>0, <2>0, <2>4 DEF TakesUp, TakenUp, Sendings
  <2>5. CASE Judges(s)
    <3>1. p.stage = "checking"
      BY <2>5 DEF Judges, EvaluateItem
    <3>2. posts'[s].stage = p.stage
      BY <2>0, <2>5 DEF Judges, Judging, Sendings
    <3> QED BY <1>0, <3>1, <3>2
  <2>6. CASE Prices(s)
    <3>1. posts'[s].stage = "priced"
      BY <2>0, <2>6 DEF Prices, Pricing, Sendings
    <3> QED BY <1>0, <3>1
  <2>7. CASE Stores(s) /\ Alone(s)
    <3>1. PICK r \in Returns : /\ returns[r] = None
                               /\ returns' = [returns EXCEPT ![r] = NewReturn(p)]
                               /\ posts'[s] = Storing(p, r)
      BY <2>7 DEF Stores
    <3>2. posts'[s].ret = r /\ posts'[s].stage = "stored"
      BY <2>0, <3>1 DEF Storing, Sendings
    <3>3. CreateReturn(s)
      BY <2>7 DEF Stores
    <3> QED BY <2>0, <2>7, <3>1, <3>2, <3>3 DEF MadeBy
  <2>8. CASE Photographs(s)
    <3>1. posts'[s].ret = p.ret
      BY <2>0, <2>8 DEF Photographs, Photographing, Sendings
    <3>2. Filed(s)
      BY <2>8 DEF Photographs, Created, Filed
    <3> QED BY <2>0, <2>8, <3>1, <3>2 DEF KeptBy
  <2>9. CASE Attaches(s)
    <3>1. posts'[s].ret = p.ret
      BY <2>0, <2>9 DEF Attaches, Uploading, Sendings
    <3>2. Filed(s)
      BY <2>0, <2>9 DEF Attaches, Filed
    <3> QED BY <2>0, <2>9, <3>1, <3>2 DEF KeptBy
  <2> QED BY <1>2, <2>1, <2>2, <2>3, <2>4, <2>5, <2>6, <2>7, <2>8, <2>9 DEF Goes
<1> QED BY <1>0, <1>1, <1>2, PostStep

\* How the confirmation comes to be shown, and that it stays.
LEMMA SubmittedStep ==
  ASSUME JourneyShape, TabInv, JourneyNext, page' = "submitted"
  PROVE  /\ data' = data
         /\ \/ page = "submitted" /\ shown' = shown
            \/ \E s \in Posts : /\ Submitted(s) /\ Heard(s) /\ shown'.ret = posts[s].ret
                                /\ shown'.warning = posts[s].failed
<1>1. ASSUME NEW s \in Posts, Submission(s)
      PROVE  /\ data' = data
             /\ (page = "submitted" /\ shown' = shown) \/
                (Submitted(s) /\ Heard(s) /\ shown'.ret = posts[s].ret /\ shown'.warning = posts[s].failed)
  <2>1. CASE Submitted(s)
    BY <2>1 DEF Submitted, Heard
  <2> QED BY <1>1, <2>1 DEF Submission, Submit, LoadOrder, EvaluateItem, PriceReturn, CreateReturn, Refuse, LoseConnection, Created, UploadPhotos
<1>2. CASE Journey
  BY <1>2 DEF Journey, LookupOrder, SelectItems, GiveReasons, ChooseResolution, GoToConfirm, RedirectIncomplete,
              Quote, Back, Reload, JourneyPages
<1>3. CASE StatusPage
  BY <1>3 DEF StatusPage, OpenStatus, TypeEmail, StatusAnswer, TryDifferentEmail
<1>4. CASE EditPolicy \/ RefundUnit \/ OtherTab \/ Decide
  BY <1>4 DEF EditPolicy, RefundUnit, OtherTab, Decide, tab
<1> QED BY <1>1, <1>2, <1>3, <1>4 DEF JourneyNext

\* Returns stay on file, each its own submission's.
LEMMA FiledKept ==
  ASSUME JourneyShape, CheckInv, TabInv, FiledInv, JourneyNext, policy' \in Policies
  PROVE  FiledInv'
<1> USE DEF MadeBy, KeptBy
<1>0. /\ posts \in [Posts -> Sendings \cup {None}] /\ returns \in [Returns -> Return \cup {None}]
      /\ None \notin Return
  BY NoneAssumption DEF JourneyShape
<1>1. \A s \in Posts : Filed(s)' => MadeBy(s) \/ KeptBy(s)
  BY FiledStep
<1>2. \A r \in Returns : returns[r] # None => returns'[r] # None /\ returns'[r].qty = returns[r].qty
  BY ReturnsStep
<1>3. ASSUME NEW s \in Posts, Filed(s)'
      PROVE  /\ posts'[s].ret \in Returns /\ returns'[posts'[s].ret] # None
             /\ Lines(returns'[posts'[s].ret]) \subseteq Chosen(posts'[s].sent)
  <2>1. CASE MadeBy(s)
    <3>1. posts[s] \in Sendings /\ posts[s].check \in Check /\ ~Incomplete(posts[s].sent)
      BY <1>0, <2>1 DEF MadeBy, CreateReturn, TabInv, CheckInv, Reading
    <3>2. returns'[posts'[s].ret] = NewReturn(posts[s])
      BY <1>0, <2>1
    <3>3. NewReturn(posts[s]) \in Return /\ Lines(NewReturn(posts[s])) = Validated(posts[s])
      BY <3>1, NewReturnTyped
    <3>4. Validated(posts[s]) \subseteq Chosen(posts[s].sent)
      BY DEF Validated
    <3> QED BY <1>0, <2>1, <3>2, <3>3, <3>4
  <2>2. CASE KeptBy(s)
    <3>1. /\ posts[s].ret \in Returns /\ returns[posts[s].ret] # None
          /\ Lines(returns[posts[s].ret]) \subseteq Chosen(posts[s].sent)
      BY <2>2 DEF FiledInv
    <3>2. Lines(returns'[posts[s].ret]) = Lines(returns[posts[s].ret])
      BY <1>2, <3>1 DEF Lines
    <3> QED BY <1>2, <2>2, <3>1, <3>2
  <2> QED BY <1>1, <1>3, <2>1, <2>2
<1>4. ASSUME NEW s \in Posts, NEW t \in Posts, Filed(s)', Filed(t)', posts'[s].ret = posts'[t].ret PROVE s = t
  <2>1. CASE MadeBy(s) /\ KeptBy(t)
    <3>1. returns[posts[t].ret] # None
      BY <2>1 DEF FiledInv
    <3> QED BY <1>4, <2>1, <3>1
  <2>2. CASE KeptBy(s) /\ MadeBy(t)
    <3>1. returns[posts[s].ret] # None
      BY <2>2 DEF FiledInv
    <3> QED BY <1>4, <2>2, <3>1
  <2>3. CASE KeptBy(s) /\ KeptBy(t)
    BY <1>4, <2>3 DEF FiledInv
  <2>4. CASE MadeBy(s) /\ MadeBy(t)
    <3>1. posts[t] # None /\ posts[t].stage = "priced"
      BY <2>4 DEF CreateReturn
    <3>2. s # t => posts'[t] = posts[t]
      BY <2>4 DEF Alone
    <3> QED BY <1>4, <3>1, <3>2 DEF Filed
  <2> QED BY <1>1, <1>4, <2>1, <2>2, <2>3, <2>4
<1>5. ASSUME page' = "submitted"
      PROVE  /\ shown'.ret \in Returns /\ returns'[shown'.ret] # None
             /\ \A s \in Posts : Filed(s)' => posts'[s].ret # shown'.ret
  <2>1. CASE page = "submitted" /\ shown' = shown
    <3>1. shown.ret \in Returns /\ returns[shown.ret] # None /\ \A s \in Posts : Filed(s) => posts[s].ret # shown.ret
      BY <2>1 DEF FiledInv
    <3> QED BY <1>1, <1>2, <2>1, <3>1
  <2>2. ASSUME NEW q \in Posts, Submitted(q), shown'.ret = posts[q].ret
        PROVE  /\ shown'.ret \in Returns /\ returns'[shown'.ret] # None
               /\ \A s \in Posts : Filed(s)' => posts'[s].ret # shown'.ret
    <3>1. Filed(q) /\ posts'[q] = None
      BY <1>0, <2>2 DEF Submitted, Filed
    <3>2. posts[q].ret \in Returns /\ returns[posts[q].ret] # None
      BY <3>1 DEF FiledInv
    <3>3. ASSUME NEW s \in Posts, Filed(s)' PROVE posts'[s].ret # posts[q].ret
      <4>1. s # q
        BY <3>1, <3>3 DEF Filed
      <4>2. CASE KeptBy(s)
        BY <3>1, <4>1, <4>2 DEF FiledInv
      <4>3. CASE MadeBy(s)
        BY <3>2, <4>3
      <4> QED BY <1>1, <3>3, <4>2, <4>3
    <3> QED BY <1>2, <2>2, <3>2, <3>3
  <2> QED BY <1>5, <2>1, <2>2, SubmittedStep
<1> QED BY <1>3, <1>4, <1>5 DEF FiledInv

-----------------------------------------------------------------------------
(* The photos.                                                             *)

\* A submission that no upload has failed for has on its return the photos of
\* every item that it is not still to upload.
ReportInv ==
  /\ \A s \in Posts : Filed(s) /\ posts[s].stage = "stored" =>
        \A i \in Items : returns[posts[s].ret].photos[i] = 0
  /\ \A s \in Posts : Filed(s) /\ posts[s].stage = "photos" /\ ~posts[s].failed =>
        \A i \in Lines(returns[posts[s].ret]) \ posts[s].todo :
           returns[posts[s].ret].photos[i] = posts[s].sent.answers[i].photos
  /\ PhotosReported

\* Every step keeps track of the photos that are on a return.
LEMMA ReportStep ==
  ASSUME JourneyShape, CheckInv, TabInv, FiledInv, ReportInv, JourneyNext, policy' \in Policies
  PROVE  ReportInv'
<1> USE DEF MadeBy, KeptBy, Still
<1> DEFINE Reported(s) ==
             /\ posts[s].stage = "stored" => \A i \in Items : returns[posts[s].ret].photos[i] = 0
             /\ posts[s].stage = "photos" /\ ~posts[s].failed =>
                  \A i \in Lines(returns[posts[s].ret]) \ posts[s].todo :
                     returns[posts[s].ret].photos[i] = posts[s].sent.answers[i].photos
<1>0. /\ posts \in [Posts -> Sendings \cup {None}] /\ returns \in [Returns -> Return \cup {None}]
      /\ None \notin Return
  BY NoneAssumption DEF JourneyShape
<1>1. \A s \in Posts : Filed(s)' => MadeBy(s) \/ (KeptBy(s) /\ (Still(s) \/ Photographs(s) \/ Attaches(s)))
  BY FiledStep
<1>2. \A r \in Returns : /\ returns[r] # None => returns'[r] # None /\ returns'[r].qty = returns[r].qty
                       /\ \/ returns[r] = None \/ returns'[r].photos = returns[r].photos
                          \/ \E s \in Posts : UploadPhotos(s) /\ posts[s].ret = r
  BY ReturnsStep, ZenonT(30)
<1>3. \A s \in Posts : UploadPhotos(s) => Filed(s)
  BY UploadEffect DEF Filed
<1>4. \A s \in Posts : Filed(s) => Reported(s)
  BY DEF ReportInv
<1>5. \A s \in Posts : Filed(s) => /\ posts[s].ret \in Returns /\ returns[posts[s].ret] # None
                                  /\ Lines(returns'[posts[s].ret]) = Lines(returns[posts[s].ret])
                                  /\ Lines(returns[posts[s].ret]) \subseteq Chosen(posts[s].sent)
  BY <1>2 DEF FiledInv, Lines
<1>6. ASSUME NEW s \in Posts, Filed(s), ~UploadPhotos(s) PROVE returns'[posts[s].ret].photos = returns[posts[s].ret].photos
  <2>1. \A q \in Posts : UploadPhotos(q) => posts[q].ret # posts[s].ret
    BY <1>3, <1>6 DEF FiledInv
  <2> QED BY <1>2, <1>5, <1>6, <2>1
<1>7. ASSUME NEW s \in Posts, Filed(s)', UploadPhotos(s) PROVE Reported(s)'
  <2>1. PICK i \in posts[s].todo, failed \in {posts[s].failed, TRUE} :
           posts'[s] = Uploading(posts[s], i, failed) /\ Uploads(s, i, failed)
    BY <1>7, UploadEffect DEF Attaches
  <2>2. posts[s] # None /\ posts[s] \in Sendings /\ posts[s].stage = "photos"
    BY <1>7, UploadEffect
  <2> DEFINE r   == posts[s].ret
             old == returns[r]
  <2>3. i \in Items /\ posts[s].sent.answers[i] \in Answer
    <3>1. i \in Chosen(posts[s].sent) /\ Answered(posts[s].sent) /\ posts[s].sent \in Journeys
      BY <2>2 DEF TabInv, Sendings
    <3> QED BY <3>1 DEF Answered, Chosen, Journeys
  <2>5. /\ posts'[s].stage = "photos" /\ posts'[s].ret = posts[s].ret /\ posts'[s].sent = posts[s].sent
        /\ posts'[s].todo = posts[s].todo \ {i} /\ posts'[s].failed = failed
    BY <2>1, <2>2 DEF Sendings, Uploading
  <2>6. SUFFICES ASSUME ~posts'[s].failed, NEW j \in Lines(returns'[r]) \ posts'[s].todo
                 PROVE  returns'[r].photos[j] = posts[s].sent.answers[j].photos
    BY <2>5
  <2>7. ~posts[s].failed /\ returns' = Attach(s, i)
    BY <2>1, <2>5, <2>6 DEF Uploads
  <2>8. r \in Returns /\ old # None /\ Lines(returns'[r]) = Lines(old)
    BY <1>3, <1>5, <1>7
  <2>9. /\ \A k \in Items \ {i} : returns'[r].photos[k] = old.photos[k]
        /\ old.qty[i] > 0 => returns'[r].photos[i] = posts[s].sent.answers[i].photos
    BY <2>2, <2>3, <2>7, <2>8, AttachEffect, Zenon
  <2>10. j \in Items /\ j \in Lines(old)
    BY <2>6, <2>8 DEF Lines
  <2>11. CASE j = i
    BY <2>9, <2>10, <2>11 DEF Lines
  <2>12. CASE j # i
    <3>1. j \notin posts[s].todo
      BY <2>5, <2>6, <2>12
    <3>2. old.photos[j] = posts[s].sent.answers[j].photos
      BY <1>3, <1>4, <1>7, <2>2, <2>7, <2>10, <3>1
    <3> QED BY <2>9, <2>10, <2>12, <3>2
  <2> QED BY <2>11, <2>12
<1>8. ASSUME NEW s \in Posts, Filed(s)', MadeBy(s) PROVE Reported(s)'
  <2>1. posts[s] \in Sendings /\ posts[s].check \in Check /\ ~Incomplete(posts[s].sent)
    BY <1>0, <1>8 DEF MadeBy, CreateReturn, TabInv, CheckInv, Reading
  <2>2. returns'[posts'[s].ret] = NewReturn(posts[s])
    BY <1>0, <1>8
  <2>3. \A i \in Items : NewReturn(posts[s]).photos[i] = 0
    BY <2>1, NewReturnTyped
  <2> QED BY <1>8, <2>2, <2>3
<1>9. ASSUME NEW s \in Posts, Filed(s)', KeptBy(s), Still(s), ~UploadPhotos(s) PROVE Reported(s)'
  <2>1. /\ returns'[posts'[s].ret].photos = returns[posts[s].ret].photos /\ Reported(s)
        /\ Lines(returns'[posts[s].ret]) = Lines(returns[posts[s].ret])
    BY <1>4, <1>5, <1>6, <1>9
  <2> QED BY <1>9, <2>1
<1>10. ASSUME NEW s \in Posts, Filed(s)', KeptBy(s), Photographs(s), ~UploadPhotos(s) PROVE Reported(s)'
  <2> DEFINE d == posts[s].sent
             photographed == {i \in Chosen(d) : d.answers[i].photos > 0}
  <2>1. /\ posts[s] # None /\ posts[s].stage = "stored"
        /\ posts'[s] = [posts[s] EXCEPT !.stage = "photos", !.todo = photographed]
    BY <1>10 DEF Photographs, Photographing, Created
  <2>2. posts[s] \in Sendings /\ d \in Journeys /\ Answered(d)
    BY <1>0, <2>1 DEF TabInv, Sendings
  <2>3. posts'[s].stage = "photos" /\ posts'[s].todo = photographed
    <3> HIDE DEF photographed
    <3> QED BY <1>0, <2>1, <2>2 DEF Sendings
  <2>4. \A i \in Items : returns'[posts[s].ret].photos[i] = 0
    BY <1>4, <1>6, <1>10, <2>1
  <2>5. ASSUME NEW i \in Chosen(d), i \notin photographed PROVE d.answers[i].photos = 0
    <3>1. d.answers[i] \in Answer
      BY <2>2 DEF Answered, Chosen, Journeys
    <3> QED BY <2>5, <3>1 DEF Answer, MaxPhotos
  <2>6. Lines(returns'[posts[s].ret]) \subseteq Chosen(d) /\ Chosen(d) \subseteq Items
    BY <1>5, <1>10 DEF Chosen
  <2> HIDE DEF photographed
  <2> QED BY <1>10, <2>3, <2>4, <2>5, <2>6
<1>11. ASSUME NEW s \in Posts, Filed(s)' PROVE Reported(s)'
  <2>1. Attaches(s) => UploadPhotos(s)
    BY DEF Attaches
  <2> HIDE DEF Reported, MadeBy, KeptBy, Still
  <2> QED BY <1>1, <1>7, <1>8, <1>9, <1>10, <1>11, <2>1
<1>12. ASSUME page' = "submitted", ~shown'.warning
       PROVE  \A i \in Lines(returns'[shown'.ret]) : returns'[shown'.ret].photos[i] = data'.answers[i].photos
  <2>0. data' = data
    BY <1>12, SubmittedStep
  <2>1. CASE page = "submitted" /\ shown' = shown
    <3>1. shown.ret \in Returns /\ returns[shown.ret] # None /\ \A s \in Posts : Filed(s) => posts[s].ret # shown.ret
      BY <2>1 DEF FiledInv
    <3>2. returns'[shown.ret].photos = returns[shown.ret].photos /\ returns'[shown.ret].qty = returns[shown.ret].qty
      BY <1>2, <1>3, <3>1
    <3>3. Lines(returns'[shown.ret]) = Lines(returns[shown.ret])
      BY <3>2 DEF Lines
    <3> QED BY <1>12, <2>0, <2>1, <3>2, <3>3 DEF ReportInv, PhotosReported
  <2>2. ASSUME NEW q \in Posts, Submitted(q), Heard(q), shown'.ret = posts[q].ret, shown'.warning = posts[q].failed
        PROVE  \A i \in Lines(returns'[shown'.ret]) : returns'[shown'.ret].photos[i] = data'.answers[i].photos
    <3>1. Filed(q) /\ posts[q].stage = "photos" /\ posts[q].todo = {} /\ data = posts[q].sent /\ returns' = returns
      BY <2>2 DEF Submitted, Filed, TabInv, server
    <3> QED BY <1>4, <1>12, <2>0, <2>2, <3>1
  <2> QED BY <1>12, <2>1, <2>2, SubmittedStep
<1> QED BY <1>11, <1>12 DEF ReportInv, PhotosReported

-----------------------------------------------------------------------------
(* The shape of the tab and the server.                                    *)

\* The fee that is quoted is a number.
LEMMA QuoteTyped ==
  ASSUME JourneyShape
  PROVE  policy.default \in Nat /\ ReturnFee(Chosen(data), RuleThen(data), data.answers, policy.default) \in Nat
<1>1. policy.default \in Nat
  BY PolicyAssumption DEF JourneyShape
<1>2. \A i \in Chosen(data) : RuleThen(data)[i] \in Rule
  BY DEF RuleThen, Chosen, JourneyShape, Journeys, Held
<1>3. Chosen(data) \in SUBSET Items
  BY DEF Chosen
<1> QED BY <1>1, <1>2, <1>3, FeeTyped

\* Pages, journey, quote and confirmation keep their shape.
LEMMA PagesStep ==
  ASSUME JourneyShape, TabInv, FiledInv, JourneyNext
  PROVE  /\ page' \in Pages /\ data' \in Journeys /\ quote' \in Quotes \cup {None}
         /\ shown' \in [ret : Returns \cup {None}, warning : BOOLEAN]
<1> DEFINE Confirmations == [ret : Returns \cup {None}, warning : BOOLEAN]
           Typed == page' \in Pages /\ data' \in Journeys /\ quote' \in Quotes \cup {None} /\ shown' \in Confirmations
<1>0. page \in Pages /\ data \in Journeys /\ quote \in Quotes \cup {None} /\ shown \in Confirmations
  BY DEF JourneyShape
<1>1. NothingShown \in Confirmations /\ EmptyData \in Journeys
  BY DEF NothingShown, EmptyData, Journeys, Held
<1>2. ASSUME Quote PROVE Typed
  <2> DEFINE fee == ReturnFee(Chosen(data), RuleThen(data), data.answers, policy.default)
  <2>1. quote' = [fee |-> fee, default |-> policy.default]
    BY <1>2 DEF Quote
  <2>2. fee \in Nat /\ policy.default \in Nat
    BY QuoteTyped
  <2> HIDE DEF fee
  <2>3. quote' \in Quotes
    BY <2>1, <2>2 DEF Quotes
  <2> QED BY <1>0, <1>2, <2>3 DEF Quote
<1>3. ASSUME Journey, ~Quote PROVE Typed
  <2>1. data' \in Journeys
    BY <1>3, DataStep
  <2>2. page' \in Pages
    <3>1. CASE Back \/ Reload
      BY <3>1 DEF Back, Reload, Pages
    <3>2. CASE ~Back /\ ~Reload
      BY <1>0, <1>3, <3>2 DEF Journey, LookupOrder, SelectItems, GiveReasons, ChooseResolution, GoToConfirm,
                              RedirectIncomplete, Pages, JourneyPages
    <3> QED BY <3>1, <3>2
  <2>3. quote' \in {quote, None} /\ shown' \in {shown, NothingShown}
    BY <1>3 DEF Journey, LookupOrder, SelectItems, GiveReasons, ChooseResolution, GoToConfirm,
                RedirectIncomplete, Back, Reload
  <2> HIDE DEF Confirmations
  <2> QED BY <1>0, <1>1, <2>1, <2>2, <2>3
<1>4. ASSUME NEW s \in Posts, Submitted(s) PROVE Typed
  <2>1. posts[s] \in Sendings
    BY <1>4 DEF Submitted, JourneyShape
  <2>2. shown' = shown \/ shown' = [ret |-> posts[s].ret, warning |-> posts[s].failed]
    BY <1>4 DEF Submitted
  <2>3. [ret |-> posts[s].ret, warning |-> posts[s].failed] \in Confirmations
    BY <2>1, Zenon DEF Sendings
  <2>4. shown' \in Confirmations
    <3> HIDE DEF Confirmations
    <3> QED BY <1>0, <2>2, <2>3
  <2> QED BY <1>0, <1>4, <2>4 DEF Submitted, Pages, JourneyPages
<1>5. ASSUME NEW s \in Posts, Submission(s), ~Submitted(s) PROVE Typed
  <2> HIDE DEF Confirmations
  <2> QED BY <1>0, <1>5 DEF Submission, Submit, LoadOrder, EvaluateItem, PriceReturn, CreateReturn, Refuse, LoseConnection, Created, UploadPhotos
<1>6. ASSUME StatusPage PROVE Typed
  <2> HIDE DEF Confirmations
  <2> QED BY <1>0, <1>1, <1>6 DEF StatusPage, OpenStatus, TypeEmail, StatusAnswer, TryDifferentEmail, Pages, JourneyPages
<1>7. ASSUME EditPolicy \/ RefundUnit \/ OtherTab \/ Decide PROVE Typed
  <2> HIDE DEF Confirmations
  <2> QED BY <1>0, <1>7 DEF EditPolicy, RefundUnit, OtherTab, Decide, tab
<1> HIDE DEF Typed
<1>8. Typed
  BY <1>2, <1>3, <1>4, <1>5, <1>6, <1>7 DEF JourneyNext
<1> QED BY <1>8 DEF Typed

\* So do Shopify's counts, the other tabs' claims and the policies.
LEMMA ServerStep ==
  ASSUME JourneyShape, JourneyNext
  PROVE  /\ left' \in [Items -> Nat] /\ elsewhere' \in [Items -> Nat]
         /\ policy' \in Policies /\ events' \in 0..MaxEvents
<1> DEFINE Typed == /\ left' \in [Items -> Nat] /\ elsewhere' \in [Items -> Nat]
                    /\ policy' \in Policies /\ events' \in 0..MaxEvents
<1>0. /\ left \in [Items -> Nat] /\ elsewhere \in [Items -> Nat] /\ policy \in Policies
      /\ events \in 0..MaxEvents /\ MaxEvents \in Nat /\ returns \in [Returns -> Return \cup {None}]
  BY BoundAssumption DEF JourneyShape
<1>1. Event => events' \in 0..MaxEvents
  BY <1>0 DEF Event
<1>2. ASSUME EditPolicy PROVE Typed
  BY <1>0, <1>1, <1>2 DEF EditPolicy
<1>3. ASSUME RefundUnit PROVE Typed
  <2>1. PICK i \in Items : left[i] > 0 /\ left' = [left EXCEPT ![i] = left[i] - 1]
    BY <1>0, <1>3 DEF RefundUnit
  <2>2. left[i] - 1 \in Nat
    BY <1>0, <2>1
  <2> QED BY <1>0, <1>1, <1>3, <2>1, <2>2 DEF RefundUnit
<1>4. ASSUME OtherTab PROVE Typed
  <2>1. PICK i \in Items : elsewhere' = [elsewhere EXCEPT ![i] = elsewhere[i] + Remaining(i)]
    BY <1>0, <1>4 DEF OtherTab
  <2>2. elsewhere[i] + Remaining(i) \in Nat
    <3>1. elsewhere[i] \in Nat /\ Remaining(i) \in Nat
      BY <1>0, RemainingTyped
    <3> QED BY <3>1
  <2> QED BY <1>0, <1>1, <1>4, <2>1, <2>2 DEF OtherTab
<1>5. ASSUME Decide PROVE Typed
  <2>1. ASSUME NEW r \in Returns, returns[r] # None
        PROVE  [i \in Items |-> Max({0, left[i] - returns[r].qty[i]})] \in [Items -> Nat]
    <3>1. ASSUME NEW i \in Items PROVE Max({0, left[i] - returns[r].qty[i]}) \in Nat
      <4>1. left[i] - returns[r].qty[i] \in Int
        BY <1>0, <2>1 DEF Return
      <4> QED BY <4>1, AtLeastZero
    <3> QED BY <3>1
  <2>2. left' \in [Items -> Nat]
    BY <1>0, <1>5, <2>1, ZenonT(30) DEF Decide
  <2>3. elsewhere' \in [Items -> Nat]
    BY <1>0, <1>5 DEF Decide
  <2> QED BY <1>0, <1>1, <1>5, <2>2, <2>3 DEF Decide
<1>6. CASE Journey \/ StatusPage
  BY <1>0, <1>6 DEF Journey, LookupOrder, SelectItems, GiveReasons, ChooseResolution, GoToConfirm, RedirectIncomplete,
         Quote, Back, Reload, StatusPage, OpenStatus, TypeEmail, StatusAnswer, TryDifferentEmail, server
<1>7. ASSUME NEW s \in Posts, Submission(s) PROVE Typed
  BY <1>0, <1>7 DEF Submission, Submit, LoadOrder, EvaluateItem, PriceReturn, CreateReturn, Refuse, LoseConnection, Created, UploadPhotos, Submitted, server
<1> QED BY <1>2, <1>3, <1>4, <1>5, <1>6, <1>7 DEF JourneyNext

\* Together: the shape of everything.
LEMMA JourneyShapeStep ==
  ASSUME JourneyShape, CheckInv, TabInv, FiledInv, JourneyNext
  PROVE  JourneyShape'
<1>1. posts' \in [Posts -> Sendings \cup {None}] /\ returns' \in [Returns -> Return \cup {None}]
  BY PostsStep, ReturnsStep, ServerStep
<1>2. /\ page' \in Pages /\ data' \in Journeys /\ quote' \in Quotes \cup {None}
      /\ shown' \in [ret : Returns \cup {None}, warning : BOOLEAN]
  BY PagesStep
<1>3. /\ left' \in [Items -> Nat] /\ elsewhere' \in [Items -> Nat]
      /\ policy' \in Policies /\ events' \in 0..MaxEvents
  BY ServerStep
<1> QED BY <1>1, <1>2, <1>3 DEF JourneyShape

-----------------------------------------------------------------------------
(* The fee.                                                                *)

\* The quote is the fee of this journey.
QuotedFor(q, d) ==
  q # None => ~Incomplete(d) /\ q.fee = ReturnFee(Chosen(d), RuleThen(d), d.answers, q.default)

\* A quote is the fee of the journey it is shown with, and it is shown, or sent,
\* with that journey only.
QuoteInv ==
  /\ quote # None => page \in {"confirm", "submitted"}
  /\ QuotedFor(quote, data)
  /\ \A s \in Posts : posts[s] # None => QuotedFor(posts[s].quoted, posts[s].sent)

\* Only Quote makes a quote, and no page edits the journey under it.
LEMMA QuoteStep ==
  ASSUME JourneyShape, CheckInv, TabInv, QuoteInv, JourneyNext, policy' \in Policies
  PROVE  QuoteInv'
<1> DEFINE Fits == (quote' # None => page' \in {"confirm", "submitted"}) /\ QuotedFor(quote', data')
<1>0. (quote # None => page \in {"confirm", "submitted"}) /\ QuotedFor(quote, data)
  BY DEF QuoteInv
<1>1. ASSUME quote' = None PROVE Fits
  BY <1>1 DEF QuotedFor
<1>2. ASSUME Quote PROVE Fits
  <2> DEFINE fee == ReturnFee(Chosen(data), RuleThen(data), data.answers, policy.default)
  <2>1. quote' = [fee |-> fee, default |-> policy.default] /\ ~Incomplete(data) /\ UNCHANGED <<page, data>> /\ page = "confirm"
    BY <1>2 DEF Quote
  <2>2. quote'.fee = ReturnFee(Chosen(data), RuleThen(data), data.answers, quote'.default)
    <3> HIDE DEF fee
    <3>1. quote'.fee = fee /\ quote'.default = policy.default
      BY <2>1
    <3> QED BY <3>1 DEF fee
  <2> HIDE DEF fee
  <2> QED BY <2>1, <2>2 DEF QuotedFor
<1>3. ASSUME UNCHANGED <<quote, data>>, page' = page \/ page' \in {"confirm", "submitted"} PROVE Fits
  BY <1>0, <1>3 DEF QuotedFor
<1>4. ASSUME Journey, ~Quote PROVE Fits
  <2>1. CASE Back \/ Reload
    BY <1>1, <2>1 DEF Back, Reload
  <2>2. CASE ~Back /\ ~Reload
    <3>1. quote' = None \/ (quote # None /\ page \notin {"confirm", "submitted"})
          \/ (page = "confirm" /\ Incomplete(data) /\ quote' = quote)
      BY <1>4, <2>2 DEF Journey, LookupOrder, SelectItems, GiveReasons, ChooseResolution, GoToConfirm,
                        RedirectIncomplete
    <3> QED BY <1>0, <1>1, <3>1 DEF QuotedFor
  <2> QED BY <2>1, <2>2
<1>5. ASSUME NEW s \in Posts, Submission(s) PROVE Fits
  <2>1. UNCHANGED <<quote, data>> /\ (page' = page \/ page' \in {"confirm", "submitted"})
    BY <1>5 DEF Submission, Submit, LoadOrder, EvaluateItem, PriceReturn, CreateReturn, Refuse, LoseConnection, Created, UploadPhotos, Submitted
  <2> QED BY <1>3, <2>1
<1>6. ASSUME StatusPage PROVE Fits
  <2>1. CASE OpenStatus
    BY <1>1, <2>1 DEF OpenStatus
  <2>2. CASE page = "status" /\ UNCHANGED <<quote, data>>
    <3>1. quote' = None
      BY <1>0, <2>2
    <3> QED BY <1>1, <3>1
  <2> QED BY <1>6, <2>1, <2>2 DEF StatusPage, TypeEmail, StatusAnswer, TryDifferentEmail
<1>7. ASSUME EditPolicy \/ RefundUnit \/ OtherTab \/ Decide PROVE Fits
  <2>1. UNCHANGED <<quote, data, page>>
    BY <1>7 DEF EditPolicy, RefundUnit, OtherTab, Decide, tab
  <2> QED BY <1>3, <2>1
<1>8. Fits
  <2> HIDE DEF Fits
  <2> QED BY <1>2, <1>4, <1>5, <1>6, <1>7 DEF JourneyNext
<1>9. ASSUME NEW s \in Posts, posts'[s] # None PROVE QuotedFor(posts'[s].quoted, posts'[s].sent)
  <2>1. CASE posts'[s].sent = data /\ posts'[s].quoted = quote
    BY <1>0, <2>1
  <2>2. CASE posts[s] # None /\ posts'[s].sent = posts[s].sent /\ posts'[s].quoted = posts[s].quoted
    BY <2>2 DEF QuoteInv
  <2> QED BY <1>9, <2>1, <2>2, SendingStep
<1> QED BY <1>8, <1>9 DEF QuoteInv

-----------------------------------------------------------------------------
(* The journey's theorems.                                                 *)

\* All of it holds before the first page.
LEMMA JourneyStarts ==
  ASSUME JourneyInit
  PROVE  JourneyShape /\ CheckInv /\ TabInv /\ FiledInv /\ ReportInv /\ QuoteInv
<1>1. EmptyData \in Journeys
  BY DEF EmptyData, Journeys, Held
<1>2. JourneyShape
  <2>1. left \in [Items -> Nat] /\ elsewhere \in [Items -> Nat] /\ 0 \in 0..MaxEvents
    BY ItemsAssumption, BoundAssumption DEF JourneyInit
  <2>2. shown \in [ret : Returns \cup {None}, warning : BOOLEAN]
    BY DEF JourneyInit, NothingShown
  <2> QED BY <1>1, <2>1, <2>2 DEF JourneyInit, JourneyShape, Pages, JourneyPages
<1>3. CheckInv /\ TabInv /\ FiledInv /\ ReportInv /\ QuoteInv
  BY DEF JourneyInit, CheckInv, TabInv, FiledInv, ReportInv, QuoteInv, Heard, Filed, PhotosReported, QuotedFor
<1> QED BY <1>2, <1>3

\* The inductive invariant of the journey.
JourneyInv == JourneyShape /\ CheckInv /\ TabInv /\ FiledInv /\ ReportInv /\ QuoteInv

\* Together these are inductive: each is kept given the ones before it.
THEOREM JourneyHolds == JourneySpec => []JourneyInv
<1>1. JourneyInit => JourneyInv
  BY JourneyStarts DEF JourneyInv
<1>2. JourneyInv /\ [JourneyNext]_journeyVars => JourneyInv'
  <2> SUFFICES ASSUME JourneyInv, [JourneyNext]_journeyVars PROVE JourneyInv'
    OBVIOUS
  <2>0. JourneyShape /\ CheckInv /\ TabInv /\ FiledInv /\ ReportInv /\ QuoteInv
    BY DEF JourneyInv
  <2>1. CASE JourneyNext
    <3>1. policy' \in Policies
      BY <2>0, <2>1, ServerStep
    <3> QED BY <2>0, <2>1, <3>1, JourneyShapeStep, CheckStep, TabStep, FiledKept, ReportStep, QuoteStep DEF JourneyInv
  <2>2. CASE UNCHANGED journeyVars
    <3>0. UNCHANGED <<page, data, quote, posts, shown, status, returns, left, elsewhere, policy, events>>
      BY <2>2 DEF journeyVars, tab, server
    <3>1. JourneyShape'
      BY <2>0, <3>0 DEF JourneyShape
    <3>2. CheckInv' /\ TabInv'
      BY <2>0, <3>0 DEF CheckInv, TabInv, Heard
    <3>3. FiledInv'
      BY <2>0, <3>0 DEF FiledInv, Filed
    <3>4. ReportInv'
      BY <2>0, <3>0 DEF ReportInv, Filed, PhotosReported
    <3>5. QuoteInv'
      BY <2>0, <3>0 DEF QuoteInv
    <3> QED BY <3>1, <3>2, <3>3, <3>4, <3>5 DEF JourneyInv
  <2> QED BY <2>1, <2>2
<1> QED BY <1>1, <1>2, PTL DEF JourneySpec

\* The tab and the server keep their shape, and only complete journeys are sent.
THEOREM JourneysComplete == JourneySpec => []JourneyTypeOK
<1>1. JourneyInv => JourneyTypeOK
  <2> SUFFICES ASSUME JourneyInv PROVE JourneyTypeOK
    OBVIOUS
  <2>0. JourneyShape /\ CheckInv /\ TabInv /\ FiledInv
    BY DEF JourneyInv
  <2>1. /\ page \in Pages /\ left \in [Items -> Nat] /\ policy \in Policies /\ events \in 0..MaxEvents
        /\ data.order \in Orders \cup {None} /\ data.resolution \in Resolutions \cup {None}
    BY <2>0 DEF JourneyShape, Journeys
  <2>2. ASSUME NEW i \in Items
        PROVE  {data.selected[i], data.eligible[i]} \subseteq Snapshots /\ data.answers[i] \in Answer \cup {None}
    BY <2>0 DEF JourneyShape, Journeys, Held, Snapshots
  <2>3. ASSUME NEW s \in Posts, posts[s] # None
        PROVE  /\ posts[s].sent.order # None /\ posts[s].sent.resolution # None /\ Chosen(posts[s].sent) # {}
               /\ posts[s].stage # "sent" => \A i \in Chosen(posts[s].sent) : posts[s].sent.answers[i] # None
               /\ posts[s].stage \in {"stored", "photos"} => returns[posts[s].ret] # None
    BY <2>0, <2>3 DEF TabInv, Incomplete, Answered, FiledInv, Filed
  <2>4. page = "submitted" => shown.ret # None
    BY <2>0, NoneAssumption DEF FiledInv
  <2> QED BY <2>1, <2>2, <2>3, <2>4 DEF JourneyTypeOK
<1> QED BY <1>1, JourneyHolds, PTL

\* A confirmation without a warning means that every photo is attached.
THEOREM PhotosAreReported == JourneySpec => []PhotosReported
<1>1. JourneyInv => PhotosReported
  BY DEF JourneyInv, ReportInv
<1> QED BY <1>1, JourneyHolds, PTL

\* Only a request that the server has priced makes a return.
LEMMA OnlyCreateMakes ==
  ASSUME JourneyInv, [JourneyNext]_journeyVars, NEW s \in Posts, NEW r \in Returns, MakesFrom(s, r)
  PROVE  /\ CreateReturn(s) /\ posts[s] # None /\ posts[s] \in Sendings /\ ~Incomplete(posts[s].sent)
         /\ posts[s].stage = "priced" /\ Answered(posts[s].sent) /\ Reading(posts[s], policy)
         /\ returns' = [returns EXCEPT ![r] = NewReturn(posts[s])] /\ returns'[r] = NewReturn(posts[s])
         /\ UNCHANGED <<left, elsewhere>>
<1>0. /\ JourneyShape /\ TabInv /\ CheckInv /\ posts \in [Posts -> Sendings \cup {None}]
      /\ returns \in [Returns -> Return \cup {None}]
      /\ returns[r] = None /\ returns'[r] # None /\ posts[s] # None /\ posts'[s] # posts[s]
  BY DEF JourneyInv, JourneyShape, Makes, MakesFrom
<1>1. ASSUME NEW q \in Posts, CreateReturn(q)
      PROVE  /\ q = s /\ posts[q].stage = "priced" /\ UNCHANGED <<left, elsewhere>>
             /\ returns' = [returns EXCEPT ![r] = NewReturn(posts[q])] /\ returns'[r] = NewReturn(posts[q])
  <2>1. PICK x \in Returns :
           /\ returns' = [returns EXCEPT ![x] = NewReturn(posts[q])]
           /\ posts' = [posts EXCEPT ![q] = IF posts[q].heard = "nobody" THEN None
                                            ELSE [posts[q] EXCEPT !.stage = "stored", !.check = None, !.ret = x]]
    BY <1>1 DEF CreateReturn
  <2>2. x = r
    BY <1>0, <2>1
  <2>3. q = s
    BY <1>0, <2>1
  <2> QED BY <1>0, <1>1, <2>1, <2>2, <2>3 DEF CreateReturn
<1>2. ASSUME NEW q \in Posts, UploadPhotos(q) PROVE FALSE
  <2>1. PICK i \in posts[q].todo : returns' \in {returns, Attach(q, i)}
    BY <1>0, <1>2, UploadEffect DEF Attaches, Uploads
  <2>2. posts[q] # None /\ posts[q].stage = "photos"
    BY <1>0, <1>2, UploadEffect
  <2>3. posts[q].ret # r
    BY <1>0, <2>2 DEF JourneyInv, FiledInv, Filed
  <2>4. Attach(q, i)[r] = returns[r]
    BY <1>0, <2>3 DEF Attach
  <2> QED BY <1>0, <2>1, <2>4
<1>3. ASSUME Decide PROVE FALSE
  BY <1>0, <1>3 DEF Decide
<1>4. ASSUME returns' = returns PROVE FALSE
  BY <1>0, <1>4, ZenonT(30)
<1>5. Journey \/ StatusPage => returns' = returns
  BY DEF Journey, LookupOrder, SelectItems, GiveReasons, ChooseResolution, GoToConfirm, RedirectIncomplete,
         Quote, Back, Reload, StatusPage, OpenStatus, TypeEmail, StatusAnswer, TryDifferentEmail, server
<1>6. EditPolicy \/ RefundUnit \/ OtherTab \/ UNCHANGED journeyVars => returns' = returns
  BY SMTT(30) DEF EditPolicy, RefundUnit, OtherTab, journeyVars, server
<1>7. \A q \in Posts : Submission(q) /\ ~CreateReturn(q) /\ ~UploadPhotos(q) => returns' = returns
  BY DEF Submission, Submit, LoadOrder, EvaluateItem, PriceReturn, Refuse, LoseConnection, Created, Submitted, server
<1>8. CreateReturn(s)
  BY <1>1, <1>2, <1>3, <1>4, <1>5, <1>6, <1>7 DEF JourneyNext
<1>9. posts[s] \in Sendings /\ ~Incomplete(posts[s].sent) /\ Answered(posts[s].sent) /\ Reading(posts[s], policy)
  BY <1>0, <1>1, <1>8 DEF TabInv, CheckInv
<1> QED BY <1>0, <1>1, <1>8, <1>9

\* A return that is made claims as many units of an item as its line says, and
\* no more.
LEMMA ClaimsOfNew ==
  ASSUME JourneyShape, NEW r \in Returns, NEW ret \in Return, NEW i \in Items,
         returns[r] = None, returns' = [returns EXCEPT ![r] = ret], elsewhere' = elsewhere
  PROVE  Claimed(i)' \in Int /\ Claimed(i)' <= Claimed(i) + ret.qty[i]
<1> DEFINE Slots == Returns \X (1..UnitsSold[i])
           Mine  == {r} \X (1..ret.qty[i])
<1>0. returns \in [Returns -> Return \cup {None}] /\ UnitsSold[i] \in Nat /\ ret.qty[i] \in Nat /\ elsewhere[i] \in Nat
  BY ItemsAssumption DEF JourneyShape, Return
<1>1. IsFiniteSet(Slots)
  <2>0. UnitsSold[i] \in Int
    BY <1>0
  <2>1. IsFiniteSet(1..UnitsSold[i])
    BY <2>0, FS_Interval
  <2> QED BY <2>1, BoundAssumption, FS_Product
<1>2. IsFiniteSet(Mine) /\ Cardinality(Mine) = ret.qty[i]
  <2>0. \A n \in Nat : IsFiniteSet(1..n) /\ Cardinality(1..n) = n
    <3> SUFFICES ASSUME NEW n \in Nat PROVE IsFiniteSet(1..n) /\ Cardinality(1..n) = n
      OBVIOUS
    <3>1. IsFiniteSet(1..n) /\ Cardinality(1..n) = IF 1 > n THEN 0 ELSE n - 1 + 1
      BY FS_Interval
    <3> QED BY <3>1
  <2>1. IsFiniteSet(1..ret.qty[i]) /\ Cardinality(1..ret.qty[i]) = ret.qty[i]
    BY <1>0, <2>0
  <2>2. IsFiniteSet({r}) /\ Cardinality({r}) = 1
    BY FS_Singleton
  <2>3. IsFiniteSet(Mine) /\ Cardinality(Mine) = Cardinality({r}) * Cardinality(1..ret.qty[i])
    BY <2>1, <2>2, FS_Product
  <2> HIDE DEF Mine
  <2> QED BY <1>0, <2>1, <2>2, <2>3
<1>3. ClaimedUnitsOf(i) \subseteq Slots
  BY DEF ClaimedUnitsOf
<1>4. ClaimedUnitsOf(i)' \subseteq ClaimedUnitsOf(i) \cup Mine
  <2> SUFFICES ASSUME NEW u \in ClaimedUnitsOf(i)' PROVE u \in ClaimedUnitsOf(i) \cup Mine
    OBVIOUS
  <2>1. /\ u \in Slots /\ returns'[u[1]] # None /\ returns'[u[1]].open /\ u[2] <= returns'[u[1]].qty[i]
    BY DEF ClaimedUnitsOf
  <2>2. CASE u[1] = r
    <3>1. u[2] \in 1..UnitsSold[i] /\ u[2] <= ret.qty[i] /\ u = <<u[1], u[2]>>
      BY <1>0, <2>1, <2>2
    <3>2. u[2] \in 1..ret.qty[i]
      BY <1>0, <3>1
    <3> QED BY <2>2, <3>1, <3>2
  <2>3. CASE u[1] # r
    <3>1. returns'[u[1]] = returns[u[1]]
      BY <1>0, <2>1, <2>3
    <3> QED BY <2>1, <3>1 DEF ClaimedUnitsOf
  <2> QED BY <2>2, <2>3
<1> DEFINE old == ClaimedUnitsOf(i)
           new == ClaimedUnitsOf(i)'
<1> HIDE DEF Slots, Mine, old, new
<1>5. IsFiniteSet(old) /\ Cardinality(old) \in Nat
  BY <1>1, <1>3, FS_Subset, FS_CardinalityType DEF old
<1>6. IsFiniteSet(old \cup Mine) /\ Cardinality(old \cup Mine) = Cardinality(old) + Cardinality(Mine) - Cardinality(old \cap Mine)
  BY <1>2, <1>5, FS_Union
<1>7. Cardinality(old \cap Mine) \in Nat
  <2>1. IsFiniteSet(old \cap Mine)
    BY <1>5, FS_Subset
  <2> QED BY <2>1, FS_CardinalityType
<1>8. IsFiniteSet(new) /\ Cardinality(new) <= Cardinality(old \cup Mine) /\ Cardinality(new) \in Nat
  <2>1. new \in SUBSET (old \cup Mine)
    BY <1>4 DEF old, new
  <2>2. IsFiniteSet(new) /\ Cardinality(new) <= Cardinality(old \cup Mine)
    BY <1>6, <2>1, FS_Subset
  <2> QED BY <2>2, FS_CardinalityType
<1>9. Cardinality(new) <= Cardinality(old) + ret.qty[i]
  BY <1>0, <1>2, <1>5, <1>6, <1>7, <1>8
<1>10. Claimed(i) = elsewhere[i] + Cardinality(old) /\ Claimed(i)' = elsewhere[i] + Cardinality(new)
  BY DEF Claimed, old, new
<1> QED BY <1>0, <1>5, <1>8, <1>9, <1>10

\* Nothing from the browser is trusted: a return is made of items of its order,
\* each judged by a policy in force since the request was read, and claims no
\* unit that Shopify cannot refund, unless one was refunded meanwhile.
THEOREM OnlyAllowedReturns == JourneySpec => ReturnsAllowed
<1> DEFINE Allowed(s, r) ==
             MakesFrom(s, r) =>
               /\ Lines(returns'[r]) # {}
               /\ \A i \in Lines(returns'[r]) :
                    /\ OrderOf[i] = returns'[r].order /\ posts[s].sent.answers[i] # None
                    /\ \E p \in posts[s].check.inForce : p.rule[i].open /\ returns'[r].resolution \in p.rule[i].resolutions
                    /\ Claimed(i)' <= left[i] \/ left[i] < posts[s].check.refundable[i]
<1>1. JourneyInv /\ [JourneyNext]_journeyVars => \A s \in Posts, r \in Returns : Allowed(s, r)
  <2> SUFFICES ASSUME JourneyInv, [JourneyNext]_journeyVars, NEW s \in Posts, NEW r \in Returns, MakesFrom(s, r)
               PROVE  Allowed(s, r)
    OBVIOUS
  <2> DEFINE p == posts[s]
             d == posts[s].sent
  <2>1. /\ CreateReturn(s) /\ p # None /\ p \in Sendings /\ ~Incomplete(d) /\ p.stage = "priced" /\ Answered(d)
        /\ Reading(p, policy) /\ returns' = [returns EXCEPT ![r] = NewReturn(p)] /\ returns'[r] = NewReturn(p)
        /\ UNCHANGED <<left, elsewhere>> /\ returns[r] = None /\ JourneyShape
    BY OnlyCreateMakes DEF MakesFrom, Makes, JourneyInv
  <2>2. p.check \in Check /\ Acceptable(p) /\ (\A i \in Chosen(d) : Judged(p, i))
    BY <2>1 DEF Reading
  <2>3. /\ NewReturn(p) \in Return /\ NewReturn(p).order = d.order /\ NewReturn(p).resolution = d.resolution
        /\ Lines(NewReturn(p)) = Validated(p) /\ Validated(p) \subseteq Chosen(d)
        /\ \A i \in Validated(p) : NewReturn(p).qty[i] = d.selected[i].qty
    BY <2>1, <2>2, NewReturnTyped
  <2>4. Validated(p) # {}
    BY <2>2, Zenon DEF Acceptable
  <2>5. ASSUME NEW i \in Validated(p)
        PROVE  /\ OrderOf[i] = d.order /\ d.answers[i] # None
               /\ \E q \in p.check.inForce : q.rule[i].open /\ d.resolution \in q.rule[i].resolutions
    <3>1. i \in Chosen(d)
      BY <2>3
    <3>2. OrderOf[i] = d.order /\ p.check.rules[i].open /\ d.resolution \in p.check.rules[i].resolutions
      BY <2>2, <3>1, Zenon DEF Acceptable
    <3>3. PICK q \in p.check.inForce : p.check.rules[i] = q.rule[i]
      BY <2>2, <3>1 DEF Judged
    <3>4. d.answers[i] # None
      BY <2>1, <3>1 DEF Answered
    <3> QED BY <3>2, <3>3, <3>4
  <2>6. ASSUME NEW i \in Validated(p), ~(left[i] < p.check.refundable[i]) PROVE Claimed(i)' <= left[i]
    <3>1. i \in Items /\ d.selected[i].qty \in Nat
      BY <2>1, <2>3 DEF Chosen, Sendings, Journeys, Held
    <3>2. Claimed(i) + d.selected[i].qty <= p.check.refundable[i]
      BY <2>1 DEF CreateReturn
    <3>3. Claimed(i)' \in Int /\ Claimed(i)' <= Claimed(i) + d.selected[i].qty
      <4>1. Claimed(i)' \in Int /\ Claimed(i)' <= Claimed(i) + NewReturn(p).qty[i]
        BY <2>1, <2>3, <3>1, ClaimsOfNew
      <4> QED BY <2>3, <4>1
    <3>4. Claimed(i) \in Nat /\ left[i] \in Nat /\ p.check.refundable[i] \in Nat
      BY <2>1, <2>2, <3>1, RemainingTyped DEF JourneyShape, Check
    <3> QED BY <2>6, <3>1, <3>2, <3>3, <3>4
  <2> QED BY <2>1, <2>3, <2>4, <2>5, <2>6
<1>2. JourneyInv /\ [JourneyNext]_journeyVars => [\A s \in Posts, r \in Returns : Allowed(s, r)]_journeyVars
  BY <1>1
<1>3. JourneySpec => [][\A s \in Posts, r \in Returns : Allowed(s, r)]_journeyVars
  <2> HIDE DEF Allowed
  <2> QED BY <1>2, JourneyHolds, PTL DEF JourneySpec
<1> QED BY <1>3 DEF ReturnsAllowed

\* A return costs more than the page showed only if a policy was edited, the
\* quote was not there, or the page hides it; and never more than the tables the
\* lookup returned make it, unless those were edited.
THEOREM FeesAreAsQuoted == JourneySpec => FeeAsQuoted
<1> DEFINE Fair(s, r) ==
             MakesFrom(s, r) =>
               LET p == posts[s]  fee == returns'[r].fee IN
               /\ fee > Shown(p) => \/ ~SameRules(p) \/ p.quoted = None \/ p.sent.resolution = "EXCHANGE"
                                    \/ p.quoted.default # p.check.default
               /\ SameRules(p) => /\ fee <= Due(p, p.check.default)
                                  /\ Lines(returns'[r]) = Chosen(p.sent) => fee = Due(p, p.check.default)
<1>1. JourneyInv /\ [JourneyNext]_journeyVars => \A s \in Posts, r \in Returns : Fair(s, r)
  <2> SUFFICES ASSUME JourneyInv, [JourneyNext]_journeyVars, NEW s \in Posts, NEW r \in Returns, MakesFrom(s, r)
               PROVE  Fair(s, r)
    OBVIOUS
  <2> DEFINE p       == posts[s]
             d       == posts[s].sent
             default == p.check.default
             asked   == Fees(Chosen(d), RuleThen(d), d.answers, default)
             charged == Fees(Validated(p), p.check.rules, d.answers, default)
             due     == ReturnFee(Chosen(d), RuleThen(d), d.answers, default)
             fee     == ReturnFee(Validated(p), p.check.rules, d.answers, default)
  <2>1. /\ p # None /\ p \in Sendings /\ ~Incomplete(d) /\ p.stage = "priced" /\ Reading(p, policy)
        /\ returns'[r] = NewReturn(p)
    BY OnlyCreateMakes
  <2>2. /\ p.check \in Check /\ (\A i \in Chosen(d) : Judged(p, i)) /\ default \in Nat /\ p.check.fee = fee
    BY <2>1 DEF Reading
  <2>3. returns'[r].fee = fee /\ Lines(returns'[r]) = Validated(p)
    BY <2>1, <2>2, NewReturnTyped
  <2>4. Validated(p) \subseteq Chosen(d) /\ Chosen(d) \in SUBSET Items /\ Validated(p) \in SUBSET Items
    BY DEF Validated, Chosen
  <2>5. SameRules(p) => \A i \in Validated(p) : RuleThen(d)[i] = p.check.rules[i]
    BY <2>4 DEF RuleThen, SameRules
  <2>6. /\ \A i \in Chosen(d) : RuleThen(d)[i] \in Rule
        /\ \A i \in Validated(p) : p.check.rules[i] \in Rule
    <3>1. \A i \in Chosen(d) : RuleThen(d)[i] \in Rule
      BY <2>1 DEF RuleThen, Chosen, Sendings, Journeys, Held
    <3> QED BY <2>2, <2>4, <3>1, JudgedRule
  <2>7. /\ asked \in SUBSET Nat /\ due \in asked /\ \A x \in asked : due >= x
        /\ charged \in SUBSET Nat /\ fee \in charged /\ \A x \in charged : fee >= x
    <3>1. asked \in SUBSET Nat /\ due \in asked /\ \A x \in asked : due >= x
      BY <2>2, <2>4, <2>6, FeeTyped
    <3>2. charged \in SUBSET Nat /\ fee \in charged /\ \A x \in charged : fee >= x
      BY <2>2, <2>4, <2>6, FeeTyped
    <3> QED BY <3>1, <3>2
  <2>8. SameRules(p) => charged \subseteq asked
    BY <2>4, <2>5 DEF Fees
  <2>9. SameRules(p) /\ Validated(p) = Chosen(d) => charged = asked
    BY <2>5 DEF Fees
  <2>10. Due(p, default) = due
    BY DEF Due
  <2>11. p.quoted # None /\ p.quoted.default = default => p.quoted.fee = due
    BY <2>1 DEF JourneyInv, QuoteInv, QuotedFor
  <2>12. Shown(p) = IF p.quoted = None \/ d.resolution = "EXCHANGE" THEN 0 ELSE p.quoted.fee
    BY DEF Shown
  <2> HIDE DEF asked, charged, due, fee
  <2>13. SameRules(p) => fee <= due /\ fee \in Nat /\ due \in Nat
    BY <2>7, <2>8
  <2>14. SameRules(p) /\ Validated(p) = Chosen(d) => fee = due
    <3>1. ASSUME charged = asked PROVE fee = due
      BY <2>7, <3>1
    <3> QED BY <2>9, <3>1
  <2>15. ~(fee > Shown(p)) \/ ~SameRules(p) \/ p.quoted = None \/ d.resolution = "EXCHANGE" \/ p.quoted.default # default
    BY <2>11, <2>12, <2>13
  <2> HIDE DEF d, default
  <2>16. SameRules(p) => /\ fee <= Due(p, default)
                         /\ Lines(returns'[r]) = Chosen(d) => fee = Due(p, default)
    BY <2>3, <2>10, <2>13, <2>14
  <2> QED BY <2>3, <2>15, <2>16 DEF d, default
<1>2. JourneyInv /\ [JourneyNext]_journeyVars => [\A s \in Posts, r \in Returns : Fair(s, r)]_journeyVars
  BY <1>1
<1>3. JourneySpec => [][\A s \in Posts, r \in Returns : Fair(s, r)]_journeyVars
  <2> HIDE DEF Fair
  <2> QED BY <1>2, JourneyHolds, PTL DEF JourneySpec
<1> QED BY <1>3 DEF FeeAsQuoted

================================================================================
