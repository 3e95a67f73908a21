----------------------------- MODULE ReturnIntake -----------------------------
(***************************************************************************)
(* Creating returns from the portal: planGate and rollCycle, then          *)
(* ReturnValidation.loadOrder / validateCreate, then the transaction of    *)
(* ReturnService.createReturn.  One shop on a plan with a monthly limit,   *)
(* one line item of Units units on one order.                              *)
(*                                                                         *)
(* A submission is one POST /returns; when it succeeds its slot goes on as *)
(* the return it has made, which the merchant rejects or processes.        *)
(* Between two steps of a submission, in any server process, the others    *)
(* and the merchant go on; only the transaction is atomic (one per order   *)
(* at a time, and the quota row is updated under its own condition).       *)
(***************************************************************************)
EXTENDS Naturals, FiniteSets

CONSTANTS
  Submissions,
  Units,       \* units of the line item that were sold
  Limit,       \* PLAN_LIMITS[plan].returnsPerMonth
  MaxCycles    \* bound: how often a 30-day cycle runs out in a behaviour

ASSUME NumbersAssumption == {Units, Limit} \subseteq Nat \ {0} /\ MaxCycles \in Nat

VARIABLES
  pc,          \* where each submission, later its return, is
  qty,         \* units each one wants
  snap,        \* the shop row each one was loaded with
  refundable,  \* Shopify's refundableQuantity as each one read it
  count,       \* Shop.returnCount
  ended,       \* has the cycle since billingCycleStart run out?
  refunded,    \* units refunded at Shopify
  cycles,      \* cycles that ran out so far
  inCycle,     \* returns made since the cycle was last rolled when it had to be
  lateRolls,   \* rolls, since then, of a cycle that had been rolled already
  staleUnits   \* units refunded while a submission held an older answer

slots == <<pc, qty, snap, refundable>>
quota == <<count, ended, cycles, inCycle, lateRolls>>
vars  == <<slots, quota, refunded, staleUnits>>

Steps == {"idle", "gate", "ask", "claims", "create", "refused", "open", "paid", "processed", "rejected"}

ShopRow == [count : 0..Limit, ended : BOOLEAN]

Init ==
  /\ pc = [s \in Submissions |-> "idle"]
  /\ qty \in [Submissions -> 1..Units]
  /\ snap = [s \in Submissions |-> [count |-> 0, ended |-> FALSE]]
  /\ refundable = [s \in Submissions |-> 0]
  /\ count = 0 /\ ended \in BOOLEAN
  /\ refunded = 0 /\ cycles = 0 /\ inCycle = 0 /\ lateRolls = 0 /\ staleUnits = 0

Goto(s, step) == pc' = [pc EXCEPT ![s] = step]

\* The units of the returns that are at one of these states: each return has
\* the first so many of 1..Units to itself, so counting them adds quantities up.
UnitsIn(states) == {u \in Submissions \X (1..Units) : pc[u[1]] \in states /\ u[2] <= qty[u[1]]}

UnitsAt(states) == Cardinality(UnitsIn(states))

\* CLAIMING_STATUSES; a paid return is not marked processed yet.
ClaimedUnits == UnitsAt({"open", "paid"})

-----------------------------------------------------------------------------
(* The gate.                                                               *)

\* loadShopFromBody.
LoadShop(s) ==
  /\ pc[s] = "idle"
  /\ snap' = [snap EXCEPT ![s] = [count |-> count, ended |-> ended]]
  /\ Goto(s, "gate")
  /\ UNCHANGED <<qty, refundable, quota, refunded, staleUnits>>

\* rollCycle, on the row that was loaded: an unconditional reset.
RollCycle(s) ==
  /\ pc[s] = "gate" /\ snap[s].ended
  /\ count' = 0 /\ ended' = FALSE
  /\ IF ended THEN inCycle' = 0 /\ lateRolls' = 0 ELSE lateRolls' = lateRolls + 1 /\ UNCHANGED inCycle
  /\ Goto(s, "ask")
  /\ UNCHANGED <<qty, snap, refundable, cycles, refunded, staleUnits>>

\* The fast path of planGate.
PassGate(s) ==
  /\ pc[s] = "gate" /\ ~snap[s].ended
  /\ Goto(s, IF snap[s].count >= Limit THEN "refused" ELSE "ask")
  /\ UNCHANGED <<qty, snap, refundable, quota, refunded, staleUnits>>

-----------------------------------------------------------------------------
(* Validation, and the return.                                             *)

\* Mutant of AskShopify: the quantity sold instead of what is refundable.
AskQuantity(s) ==
  /\ pc[s] = "ask"
  /\ refundable' = [refundable EXCEPT ![s] = Units]
  /\ Goto(s, "claims")
  /\ UNCHANGED <<qty, snap, quota, refunded, staleUnits>>

\* The order as Shopify has it.
AskShopify(s) ==
  /\ pc[s] = "ask"
  /\ refundable' = [refundable EXCEPT ![s] = Units - refunded]
  /\ Goto(s, "claims")
  /\ UNCHANGED <<qty, snap, quota, refunded, staleUnits>>

\* The open returns of the order; more than what remains, a wrong email or an
\* item that is not eligible is refused.
ReadClaims(s) ==
  /\ pc[s] = "claims"
  /\ \/ Goto(s, IF ClaimedUnits + qty[s] > refundable[s] THEN "refused" ELSE "create")
     \/ Goto(s, "refused")
  /\ UNCHANGED <<qty, snap, refundable, quota, refunded, staleUnits>>

\* Mutant of Create: the claims read before the lock are trusted.
CreateUnlocked(s) ==
  /\ pc[s] = "create"
  /\ IF count >= Limit
     THEN Goto(s, "refused") /\ UNCHANGED <<count, inCycle>>
     ELSE Goto(s, "open") /\ count' = count + 1 /\ inCycle' = inCycle + 1
  /\ UNCHANGED <<qty, snap, refundable, ended, cycles, lateRolls, refunded, staleUnits>>

\* createReturn's transaction: the units again, under the order's lock but
\* against the refundable quantity read before it; then a slot of the quota;
\* then the return.
Create(s) ==
  /\ pc[s] = "create"
  /\ IF ClaimedUnits + qty[s] > refundable[s] \/ count >= Limit
     THEN Goto(s, "refused") /\ UNCHANGED <<count, inCycle>>
     ELSE Goto(s, "open") /\ count' = count + 1 /\ inCycle' = inCycle + 1
  /\ UNCHANGED <<qty, snap, refundable, ended, cycles, lateRolls, refunded, staleUnits>>

\* A lost connection, a failed write, a crash: the transaction rolls back.
Fail(s) ==
  /\ pc[s] \in {"gate", "ask", "claims", "create"}
  /\ Goto(s, "refused")
  /\ UNCHANGED <<qty, snap, refundable, quota, refunded, staleUnits>>

-----------------------------------------------------------------------------
(* What becomes of the return.                                             *)

\* Mutant of Reject: a rejected return gives its slot back.
RejectWithSlot(s) ==
  /\ pc[s] = "open"
  /\ Goto(s, "rejected")
  /\ count' = IF count > 0 THEN count - 1 ELSE 0
  /\ UNCHANGED <<qty, snap, refundable, ended, cycles, inCycle, lateRolls, refunded, staleUnits>>

Reject(s) ==
  /\ pc[s] = "open"
  /\ Goto(s, "rejected")
  /\ UNCHANGED <<qty, snap, refundable, quota, refunded, staleUnits>>

\* Does a submission hold an answer of Shopify's that this refund outdates?
HoldsAnswer(s) == pc[s] \in {"claims", "create"}

\* refundCreate at Shopify, which refunds no unit twice.
Refund(s) ==
  /\ pc[s] = "open"
  /\ refunded + qty[s] <= Units
  /\ refunded' = refunded + qty[s]
  /\ staleUnits' = IF \E t \in Submissions : HoldsAnswer(t) THEN staleUnits + qty[s] ELSE staleUnits
  /\ Goto(s, "paid")
  /\ UNCHANGED <<qty, snap, refundable, quota>>

\* The return is marked processed once the money has moved.
Process(s) ==
  /\ pc[s] = "paid"
  /\ Goto(s, "processed")
  /\ UNCHANGED <<qty, snap, refundable, quota, refunded, staleUnits>>

\* Thirty days pass.
CycleEnds ==
  /\ ~ended /\ cycles < MaxCycles
  /\ ended' = TRUE /\ cycles' = cycles + 1
  /\ UNCHANGED <<slots, count, inCycle, lateRolls, refunded, staleUnits>>

Next ==
  \/ \E s \in Submissions :
       \/ LoadShop(s) \/ RollCycle(s) \/ PassGate(s) \/ AskShopify(s) \/ ReadClaims(s)
       \/ Create(s) \/ Fail(s) \/ Reject(s) \/ Refund(s) \/ Process(s)
  \/ CycleEnds

Spec == Init /\ [][Next]_vars

-----------------------------------------------------------------------------
(* Properties.                                                             *)

\* Slots and counters keep their shape; the quota counter stays within the
\* limit however many submissions arrive together.
TypeOK ==
  /\ pc \in [Submissions -> Steps]
  /\ qty \in [Submissions -> 1..Units]
  /\ snap \in [Submissions -> ShopRow]
  /\ refundable \in [Submissions -> 0..Units]
  /\ count \in 0..Limit /\ ended \in BOOLEAN
  /\ refunded \in 0..Units
  /\ cycles \in 0..MaxCycles
  /\ inCycle \in Nat /\ lateRolls \in Nat /\ staleUnits \in Nat

\* "two submissions for the same order are serialised, so the second sees the
\* first's claim on the units": open returns never claim more than was sold.
ClaimsWithinOrder == ClaimedUnits <= Units

\* A unit is promised back once: what open returns still claim and what was
\* refunded fit the order, except for units refunded while a submission held
\* Shopify's older answer.
UnitsPromisedOnce == UnitsAt({"open"}) + refunded <= Units + staleUnits

\* Every return of the cycle holds a slot of the quota; only a second roll of
\* the same cycle, by a submission loaded before the first, loses any.
SlotsCounted == inCycle <= count + Limit * lateRolls

=============================================================================
