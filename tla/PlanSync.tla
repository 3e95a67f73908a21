------------------------------- MODULE PlanSync -------------------------------
(***************************************************************************)
(* The plan of ONE shop: Shop.plan against the subscription Shopify has    *)
(* for it.  BillingService.applySubscriptionStatus behind the              *)
(* app_subscriptions/update webhook, the uninstall webhook, and the        *)
(* dashboard's POST /subscribe (to FREE) and POST /confirm.                *)
(*                                                                         *)
(* Shopify's changes are numbered; a webhook carries the number of its     *)
(* change, a call the number of the last change when it asked.  Webhooks   *)
(* arrive in any order, each until it is acknowledged (WebhookInbox).  The *)
(* code looks at one thing in a status: is it ACTIVE?                      *)
(***************************************************************************)
EXTENDS Naturals

CONSTANTS
  Calls,        \* dashboard requests, each made once at most
  MaxChanges,   \* bound: changes at Shopify in a behaviour
  MaxFaults     \* bound: lost acknowledgements and failed requests

ASSUME BoundsAssumption == {MaxChanges, MaxFaults} \subseteq Nat

VARIABLES
  plan,      \* Shop.plan
  active,    \* the plan of the ACTIVE subscription, "NONE" without one
  changes,   \* changes Shopify has made
  notices,   \* webhooks not acknowledged yet
  pc,        \* where each call is
  answer,    \* the subscription each call was told of
  known,     \* the number of the change behind each call's knowledge
  latest,    \* the newest number whose news has been written to Shop.plan
  strayed,   \* has older news been written over newer?
  declined,  \* has a merchant declined a charge that was proposed?
  resets,    \* times returnCount was set to 0
  wiped,     \* has such a reset left the shop on FREE?
  paid,      \* subscriptions to a paid plan that became active
  previews,  \* subscriptions to the free plan, "Preview" at Shopify, that did
  confirms,  \* confirm calls that found one
  faults

shopify == <<active, changes, paid, previews, declined>>
cycle   == <<resets, wiped>>
vars    == <<plan, shopify, notices, pc, answer, known, latest, strayed, cycle, confirms, faults>>

Plans == {"FREE", "STARTER", "GROWTH"}
Subscriptions == Plans \cup {"NONE"}

\* app_subscriptions/update of a plan, or app/uninstalled ("NONE").
Notice == [plan : Subscriptions, live : BOOLEAN, number : 1..MaxChanges]
Steps  == {"idle", "confirm", "cancel", "free", "done"}

Init ==
  /\ plan = "FREE" /\ active = "NONE" /\ changes = 0 /\ notices = {}
  /\ pc = [c \in Calls |-> "idle"]
  /\ answer = [c \in Calls |-> "NONE"]
  /\ known = [c \in Calls |-> 0]
  /\ latest = 0 /\ strayed = FALSE /\ declined = FALSE
  /\ resets = 0 /\ wiped = FALSE /\ paid = 0 /\ previews = 0 /\ confirms = 0 /\ faults = 0

\* What the shop's plan should be under a subscription.
PlanOf(subscription) == IF subscription = "NONE" THEN "FREE" ELSE subscription

Goto(c, step) == pc' = [pc EXCEPT ![c] = step]
Fault   == faults < MaxFaults /\ faults' = faults + 1
NoFault == UNCHANGED faults

\* An unconditional write of Shop.plan, on the strength of change number n.
Write(p, n) ==
  /\ plan' = p
  /\ strayed' = (strayed \/ n < latest)
  /\ latest' = IF n > latest THEN n ELSE latest

\* The write that puts the shop on plan p starts a new billing cycle, too.
NewCycle(p) == resets' = resets + 1 /\ wiped' = (wiped \/ p = "FREE")

-----------------------------------------------------------------------------
(* Shopify and the merchant.                                               *)

\* The notice that the current subscription, if any, is over.
Ended(n) == IF active = "NONE" THEN {} ELSE {[plan |-> active, live |-> FALSE, number |-> n]}

\* The merchant approves a plan, the free one included: the old subscription,
\* if any, is cancelled and the new one becomes active.
ApprovePlan ==
  /\ changes + 2 <= MaxChanges
  /\ \E p \in Plans \ {active} :
       /\ active' = p
       /\ notices' = notices \cup Ended(changes + 1) \cup {[plan |-> p, live |-> TRUE, number |-> changes + 2]}
       /\ IF p = "FREE" THEN previews' = previews + 1 /\ UNCHANGED paid
                        ELSE paid' = paid + 1 /\ UNCHANGED previews
  /\ changes' = changes + 2
  /\ UNCHANGED <<plan, pc, answer, known, latest, strayed, declined, cycle, confirms, faults>>

\* The subscription ends: cancelled at Shopify, or frozen.
EndPlan ==
  /\ active # "NONE" /\ changes < MaxChanges
  /\ active' = "NONE" /\ changes' = changes + 1
  /\ notices' = notices \cup Ended(changes + 1)
  /\ UNCHANGED <<plan, pc, answer, known, latest, strayed, declined, cycle, paid, previews, confirms, faults>>

\* Uninstalling the app ends the subscription too, with a webhook for each.
Uninstall ==
  /\ changes < MaxChanges
  /\ active' = "NONE" /\ changes' = changes + 1
  /\ notices' = notices \cup Ended(changes + 1) \cup {[plan |-> "NONE", live |-> FALSE, number |-> changes + 1]}
  /\ UNCHANGED <<plan, pc, answer, known, latest, strayed, declined, cycle, paid, previews, confirms, faults>>

\* A proposed charge is declined or expires; what is active stays active.
DeclinePlan ==
  /\ changes < MaxChanges
  /\ changes' = changes + 1 /\ declined' = TRUE
  /\ \E p \in Plans \ {active} : notices' = notices \cup {[plan |-> p, live |-> FALSE, number |-> changes + 1]}
  /\ UNCHANGED <<plan, active, pc, answer, known, latest, strayed, cycle, paid, previews, confirms, faults>>

-----------------------------------------------------------------------------
(* The webhooks.                                                           *)

\* Mutant of ApplySubscriptionStatus: only an ACTIVE status changes the plan.
ApplyActiveOnly ==
  /\ \E n \in notices :
       /\ n.plan # "NONE"
       /\ Write(IF n.live THEN n.plan ELSE plan, n.number)
       /\ IF n.live THEN NewCycle(n.plan) ELSE UNCHANGED cycle
       /\ notices' = notices \ {n}
  /\ UNCHANGED <<shopify, pc, answer, known, confirms, faults>>

\* Mutant of ApplySubscriptionStatus: every status starts a new cycle.
ApplyWithReset ==
  /\ \E n \in notices :
       /\ n.plan # "NONE"
       /\ Write(IF n.live THEN n.plan ELSE "FREE", n.number)
       /\ NewCycle(IF n.live THEN n.plan ELSE "FREE")
       /\ notices' = notices \ {n}
  /\ UNCHANGED <<shopify, pc, answer, known, confirms, faults>>

\* ACTIVE: the plan of that name and a new cycle; anything else: FREE.  When
\* the acknowledgement is lost the webhook comes again.
ApplySubscriptionStatus ==
  /\ \E n \in notices :
       /\ n.plan # "NONE"
       /\ Write(IF n.live THEN n.plan ELSE "FREE", n.number)
       /\ IF n.live THEN NewCycle(n.plan) ELSE UNCHANGED cycle
       /\ \/ notices' = notices \ {n} /\ NoFault
          \/ UNCHANGED notices /\ Fault
  /\ UNCHANGED <<shopify, pc, answer, known, confirms>>

\* app/uninstalled: FREE, and the cycle goes on.
HandleAppUninstalled ==
  /\ \E n \in notices :
       /\ n.plan = "NONE"
       /\ Write("FREE", n.number)
       /\ \/ notices' = notices \ {n} /\ NoFault
          \/ UNCHANGED notices /\ Fault
  /\ UNCHANGED <<shopify, pc, answer, known, cycle, confirms>>

-----------------------------------------------------------------------------
(* The dashboard.                                                          *)

\* getActiveSubscription, for a confirm or for a downgrade.
AskShopify(c) ==
  /\ pc[c] = "idle"
  /\ answer' = [answer EXCEPT ![c] = active]
  /\ known' = [known EXCEPT ![c] = changes]
  /\ \/ Goto(c, "confirm")
     \/ Goto(c, IF active = "NONE" THEN "free" ELSE "cancel")
  /\ UNCHANGED <<plan, shopify, notices, latest, strayed, cycle, confirms, faults>>

\* POST /confirm writes what Shopify said: with a subscription its plan and a
\* new cycle, without one FREE.
Confirm(c) ==
  /\ pc[c] = "confirm"
  /\ Write(PlanOf(answer[c]), known[c])
  /\ IF answer[c] = "NONE" THEN UNCHANGED <<cycle, confirms>>
     ELSE NewCycle(answer[c]) /\ confirms' = confirms + 1
  /\ Goto(c, "done")
  /\ UNCHANGED <<shopify, notices, answer, known, faults>>

\* The downgrade cancels the subscription it was told of; Shopify refuses
\* that for one that has ended meanwhile, and the call throws.
CancelSubscription(c) ==
  /\ pc[c] = "cancel"
  /\ IF active = answer[c] /\ changes < MaxChanges
     THEN /\ active' = "NONE" /\ changes' = changes + 1
          /\ notices' = notices \cup Ended(changes + 1)
          /\ known' = [known EXCEPT ![c] = changes + 1]
          /\ Goto(c, "free")
     ELSE Goto(c, "done") /\ UNCHANGED <<active, changes, notices, known>>
  /\ UNCHANGED <<plan, answer, latest, strayed, declined, cycle, paid, previews, confirms, faults>>

Downgrade(c) ==
  /\ pc[c] = "free"
  /\ Write("FREE", known[c])
  /\ Goto(c, "done")
  /\ UNCHANGED <<shopify, notices, answer, known, cycle, confirms, faults>>

\* Shopify or the database cannot be asked, or the process dies.
Fail(c) ==
  /\ pc[c] \in {"confirm", "cancel", "free"}
  /\ Goto(c, "done")
  /\ Fault
  /\ UNCHANGED <<plan, shopify, notices, answer, known, latest, strayed, cycle, confirms>>

Next ==
  \/ ApprovePlan \/ EndPlan \/ Uninstall \/ DeclinePlan
  \/ ApplySubscriptionStatus \/ HandleAppUninstalled
  \/ \E c \in Calls : AskShopify(c) \/ Confirm(c) \/ CancelSubscription(c) \/ Downgrade(c) \/ Fail(c)

Spec == Init /\ [][Next]_vars

-----------------------------------------------------------------------------
(* Properties.                                                             *)

\* The plan, Shopify's books, the calls and the counters keep their shape.
TypeOK ==
  /\ plan \in Plans /\ active \in Subscriptions
  /\ changes \in 0..MaxChanges /\ notices \subseteq Notice
  /\ pc \in [Calls -> Steps] /\ answer \in [Calls -> Subscriptions] /\ known \in [Calls -> 0..MaxChanges]
  /\ latest \in 0..MaxChanges /\ strayed \in BOOLEAN /\ declined \in BOOLEAN
  /\ {resets, paid, previews, confirms} \subseteq Nat /\ wiped \in BOOLEAN /\ faults \in 0..MaxFaults

\* Nothing is under way between Shopify and the app.
Quiet == notices = {} /\ \A c \in Calls : pc[c] \in {"idle", "done"}

\* When everything Shopify had to say has been heard, the plan is the one the
\* merchant pays for, unless older news was written over newer or a charge
\* was declined.
SyncedInOrder == Quiet /\ ~strayed /\ ~declined => plan = PlanOf(active)

\* "Only reset the usage counter when a paid plan activates - a downgrade
\* shouldn't wipe the merchant's current-cycle return count": what the code
\* keeps of it.  One reset for each activation, but the free plan's activations
\* count too, and confirm calls and repeated webhooks reset again; a downgrade
\* wipes the count only if the shop was on Shopify's free plan at some time, and
\* none that ends, freezes, declines or cancels a plan does.
ResetsEarned ==
  /\ resets <= paid + previews + confirms + faults
  /\ wiped => previews > 0

=============================================================================
