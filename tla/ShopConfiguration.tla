------------------------- MODULE ShopConfiguration -------------------------
(***************************************************************************)
(* What the merchant configures from the dashboard (web/merchant), and who *)
(* else writes it: the settings (routes/api/settings), the return policies *)
(* (routes/api/policies) and the carriers (routes/api/carriers).           *)
(*                                                                         *)
(* None of the handlers runs in a transaction: each reads, awaits, and     *)
(* writes what it read back with its change.  A dashboard page adds a      *)
(* snapshot of its own, as old as the page.  Webhooks write the settings   *)
(* too (handleOrdersFulfilled, handleAppUninstalled), and so does a label  *)
(* job that meters its label (BillingService.shopGid); every install makes *)
(* the first policy if there is none, and the plan, which limits the       *)
(* carriers, changes under all of them.                                    *)
(*                                                                         *)
(* A request is somebody's page with the call it makes, a webhook or a     *)
(* label job; each runs at most once.  raced is a history flag: somebody   *)
(* wrote what the request had read, between its read and its write.        *)
(***************************************************************************)
EXTENDS Integers, FiniteSets

CONSTANTS
  Requests,     \* bound: the requests of a behaviour
  Keys,         \* the settings a dashboard page edits: warehouse, branding, ...
  Orders,       \* the orders in settings.fulfillments
  Values,       \* what a dashboard setting may hold
  Policies,     \* rows for return policies
  Carriers,
  Credentials,
  Plans,
  Limit,        \* PLAN_LIMITS[plan].carriers
  None          \* undefined, no row

SystemKeys == Orders \cup {"uninstalledAt", "shopifyShopId"}
AllKeys    == Keys \cup SystemKeys
Set        == "set"        \* the value of a system key that is there

ASSUME KeysAssumption  == Keys \cap SystemKeys = {} /\ None \notin Values \cup {Set}
ASSUME RowsAssumption  == None \notin Credentials \cup Policies
ASSUME LimitAssumption == "FREE" \in Plans /\ Limit \in [Plans -> Nat]

VARIABLES
  settings,   \* Shop.settings
  plan,       \* Shop.plan
  policies,   \* the ReturnPolicy rows
  carriers,   \* the CarrierConfig rows
  job         \* the requests

vars == <<settings, plan, policies, carriers, job>>

Settings == [AllKeys -> Values \cup {Set, None}]
Policy   == [isDefault : BOOLEAN, isActive : BOOLEAN]
Config   == [isActive : BOOLEAN, creds : Credentials \cup {None}]

NoJob == [kind |-> "none", step |-> "none"]
Done  == [kind |-> "done", step |-> "done"]

\* A new shop: no settings, no policy, no carrier.
Init ==
  /\ settings = [k \in AllKeys |-> None] /\ plan \in Plans
  /\ policies = [p \in Policies |-> None]
  /\ carriers = [c \in Carriers |-> None]
  /\ job = [r \in Requests |-> NoJob]

SettingsKinds == {"save", "fulfilled", "uninstall", "shopId"}

\* The requests that have read what the kinds write, and not written yet.
Serving(r, kinds) == job[r].kind \in kinds /\ job[r].step = "serving"

Ended(r) == job[r].step # "done" /\ job'[r].step = "done"

\* r is over, and has written what the kinds read.
Finish(r, kinds) ==
  job' = [q \in Requests |-> IF q = r THEN Done
                             ELSE IF Serving(q, kinds) THEN [job[q] EXCEPT !.raced = TRUE]
                             ELSE job[q]]

\* An error, a 4xx, a crash: what was written stays, the rest is never done.
Fail(r) ==
  /\ job[r].step \notin {"none", "done"}
  /\ job' = [job EXCEPT ![r] = Done]
  /\ UNCHANGED <<settings, plan, policies, carriers>>

-----------------------------------------------------------------------------
(* The settings.                                                           *)

\* SettingsPage, or the setup guide, loads.
OpenSettings(r) ==
  /\ job[r] = NoJob
  /\ job' = [job EXCEPT ![r] = [kind |-> "save", step |-> "form", form |-> settings]]
  /\ UNCHANGED <<settings, plan, policies, carriers>>

EditedSettings(form) == {[form EXCEPT ![k] = v] : k \in Keys, v \in Values}

\* Save sends the whole snapshot with the edits, and the route reads what is
\* stored now.
SendSettings(r) ==
  /\ job[r].kind = "save" /\ job[r].step = "form"
  /\ \E data \in EditedSettings(job[r].form) :
       job' = [job EXCEPT ![r] = [kind |-> "save", step |-> "serving", raced |-> FALSE, read |-> settings,
                                  form |-> data]]
  /\ UNCHANGED <<settings, plan, policies, carriers>>

\* What was sent over what is stored.
Merged(r) == [k \in AllKeys |-> IF job[r].form[k] # None THEN job[r].form[k] ELSE job[r].read[k]]

\* Mutant of StoreSettings: what is stored is replaced, not merged into.
StoreSettingsWhole(r) ==
  /\ Serving(r, {"save"})
  /\ settings' = job[r].form
  /\ Finish(r, SettingsKinds)
  /\ UNCHANGED <<plan, policies, carriers>>

\* Merged, with the keys the app maintains itself as they were read.
StoreSettings(r) ==
  /\ Serving(r, {"save"})
  /\ settings' = [k \in AllKeys |-> IF k \in SystemKeys THEN job[r].read[k] ELSE Merged(r)[k]]
  /\ Finish(r, SettingsKinds)
  /\ UNCHANGED <<plan, policies, carriers>>

\* A webhook that writes one key of the settings, and reads them all first.
ReceiveWebhook(r) ==
  /\ job[r] = NoJob
  /\ \E k \in Orders \cup {"uninstalledAt"} :
       job' = [job EXCEPT ![r] = [kind |-> IF k \in Orders THEN "fulfilled" ELSE "uninstall", step |-> "serving",
                                  raced |-> FALSE, read |-> settings, key |-> k]]
  /\ UNCHANGED <<settings, plan, policies, carriers>>

HandleOrdersFulfilled(r) ==
  /\ Serving(r, {"fulfilled"})
  /\ settings' = [job[r].read EXCEPT ![job[r].key] = Set]
  /\ Finish(r, SettingsKinds)
  /\ UNCHANGED <<plan, policies, carriers>>

\* The merchant's configuration is kept, the plan is not.
HandleAppUninstalled(r) ==
  /\ Serving(r, {"uninstall"})
  /\ settings' = [job[r].read EXCEPT ![job[r].key] = Set]
  /\ plan' = "FREE"
  /\ Finish(r, SettingsKinds \cup {"carrier"})
  /\ UNCHANGED <<policies, carriers>>

\* A label job whose copy of the settings has no shop id has asked Shopify for
\* it, and reads them afresh: whatever they hold by now, its own copy may be as
\* old as the shop.
ReadForShopId(r) ==
  /\ job[r] = NoJob
  /\ job' = [job EXCEPT ![r] = [kind |-> "shopId", step |-> "serving", raced |-> FALSE, read |-> settings,
                                key |-> "shopifyShopId"]]
  /\ UNCHANGED <<settings, plan, policies, carriers>>

\* shopGid merges the id into what it read; if it cannot, it goes on without.
KeepShopId(r) ==
  /\ Serving(r, {"shopId"})
  /\ settings' = [job[r].read EXCEPT ![job[r].key] = Set]
  /\ Finish(r, SettingsKinds)
  /\ UNCHANGED <<plan, policies, carriers>>

-----------------------------------------------------------------------------
(* The policies.                                                           *)

Defaults == {p \in Policies : policies[p] # None /\ policies[p].isDefault}

\* PoliciesPage: a form for a new policy, or filled from the list as it was
\* loaded.
OpenPolicy(r) ==
  /\ job[r] = NoJob
  /\ \/ job' = [job EXCEPT ![r] = [kind |-> "policy", step |-> "form", id |-> None,
                                   form |-> [isDefault |-> FALSE, isActive |-> TRUE]]]
     \/ \E p \in Policies :
          /\ policies[p] # None
          /\ job' = [job EXCEPT ![r] = [kind |-> "policy", step |-> "form", id |-> p, form |-> policies[p]]]
  /\ UNCHANGED <<settings, plan, policies, carriers>>

\* Saved as it was opened, or with the switches turned.
EditedPolicies(form) == {form} \cup Policy

Undefault(p) == IF policies[p] = None THEN None ELSE [policies[p] EXCEPT !.isDefault = FALSE]

\* Mutant of SendPolicy: only a new policy clears the old default.
SendPolicyKeeping(r) ==
  /\ job[r].kind = "policy" /\ job[r].step = "form"
  /\ \E data \in EditedPolicies(job[r].form) :
       /\ job' = [job EXCEPT ![r] = [kind |-> "policy", step |-> "serving", raced |-> FALSE,
                                     id |-> job[r].id, form |-> data]]
       /\ policies' = [p \in Policies |-> IF data.isDefault /\ job[r].id = None THEN Undefault(p) ELSE policies[p]]
  /\ UNCHANGED <<settings, plan, carriers>>

\* The form is edited and sent: a policy that is to be the default first
\* takes that from every other one.  (A form that leaves the customer no
\* resolution is refused by page and route alike.)
SendPolicy(r) ==
  /\ job[r].kind = "policy" /\ job[r].step = "form"
  /\ \E data \in EditedPolicies(job[r].form) :
       /\ job' = [job EXCEPT ![r] = [kind |-> "policy", step |-> "serving", raced |-> FALSE,
                                     id |-> job[r].id, form |-> data]]
       /\ policies' = [p \in Policies |-> IF data.isDefault /\ p # job[r].id THEN Undefault(p) ELSE policies[p]]
  /\ UNCHANGED <<settings, plan, carriers>>

\* Then it is created or updated, in a statement of its own.
StorePolicy(r) ==
  /\ Serving(r, {"policy"})
  /\ \E p \in Policies :
       /\ IF job[r].id = None THEN policies[p] = None ELSE p = job[r].id
       /\ policies' = [policies EXCEPT ![p] = job[r].form]
  /\ Finish(r, {"policy", "install"})
  /\ UNCHANGED <<settings, plan, carriers>>

\* Every token exchange says that the shop was installed; the handler counts.
EnsureDefaultPolicy(r) ==
  /\ job[r] = NoJob
  /\ \A p \in Policies : policies[p] = None
  /\ job' = [job EXCEPT ![r] = [kind |-> "install", step |-> "serving", raced |-> FALSE, id |-> None,
                                form |-> [isDefault |-> TRUE, isActive |-> TRUE]]]
  /\ UNCHANGED <<settings, plan, policies, carriers>>

CreateDefaultPolicy(r) ==
  /\ Serving(r, {"install"})
  /\ \E p \in Policies : policies[p] = None /\ policies' = [policies EXCEPT ![p] = job[r].form]
  /\ Finish(r, {"policy", "install"})
  /\ UNCHANGED <<settings, plan, carriers>>

-----------------------------------------------------------------------------
(* The carriers.                                                           *)

Active(configs) == {c \in Carriers : configs[c] # None /\ configs[c].isActive}

\* CarrierConnectCard's form: a carrier, managed or the merchant's own, with
\* fresh credentials or with the field left blank, switched on or off.
CarrierForms == [carrier : Carriers, creds : Credentials \cup {None}, isActive : BOOLEAN]

\* It is sent, and the route reads the plan.
SaveCarrier(r) ==
  /\ job[r] = NoJob
  /\ \E form \in CarrierForms :
       job' = [job EXCEPT ![r] = [kind |-> "carrier", step |-> "serving", raced |-> FALSE, carrier |-> form.carrier,
                                  creds |-> form.creds, isActive |-> form.isActive,
                                  limit |-> Limit[plan], existing |-> None]]
  /\ UNCHANGED <<settings, plan, policies, carriers>>

ActiveAfter(r) == IF job[r].isActive THEN Active(carriers) \cup {job[r].carrier}
                                     ELSE Active(carriers) \ {job[r].carrier}

\* Mutant of CheckLimit: the carriers that are active already are counted.
CheckLimitBefore(r) ==
  /\ Serving(r, {"carrier"}) /\ job[r].existing = None
  /\ Cardinality(Active(carriers)) <= job[r].limit
  /\ job' = [job EXCEPT ![r].existing = carriers]
  /\ UNCHANGED <<settings, plan, policies, carriers>>

\* Then it reads the shop's carriers, and goes on if the change leaves no
\* more of them active than the plan allows.
CheckLimit(r) ==
  /\ Serving(r, {"carrier"}) /\ job[r].existing = None
  /\ Cardinality(ActiveAfter(r)) <= job[r].limit
  /\ job' = [job EXCEPT ![r].existing = carriers]
  /\ UNCHANGED <<settings, plan, policies, carriers>>

\* The credentials that are kept when none were sent: as they were read.
Prior(r) == LET c == job[r].carrier IN IF job[r].existing[c] = None THEN None ELSE job[r].existing[c].creds

\* Mutant of UpsertCarrier: no credentials sent, none stored.
UpsertCarrierBlank(r) ==
  /\ Serving(r, {"carrier"}) /\ job[r].existing # None
  /\ carriers' = [carriers EXCEPT ![job[r].carrier] = [isActive |-> job[r].isActive, creds |-> job[r].creds]]
  /\ Finish(r, {"carrier"})
  /\ UNCHANGED <<settings, plan, policies>>

UpsertCarrier(r) ==
  /\ Serving(r, {"carrier"}) /\ job[r].existing # None
  /\ carriers' = [carriers EXCEPT ![job[r].carrier] =
                    [isActive |-> job[r].isActive, creds |-> IF job[r].creds = None THEN Prior(r) ELSE job[r].creds]]
  /\ Finish(r, {"carrier"})
  /\ UNCHANGED <<settings, plan, policies>>

\* Disconnect, and managed labels turned off.
Disconnect(r) ==
  /\ job[r] = NoJob
  /\ \E c \in Carriers : carriers[c] # None /\ carriers' = [carriers EXCEPT ![c] = None]
  /\ Finish(r, {"carrier"})
  /\ UNCHANGED <<settings, plan, policies>>

\* An upgrade or a downgrade (PlanSync says when); carriers stay as they are.
ChangePlan(r) ==
  /\ job[r] = NoJob
  /\ plan' \in Plans \ {plan}
  /\ Finish(r, {"carrier"})
  /\ UNCHANGED <<settings, policies, carriers>>

Step(r) ==
  \/ Fail(r)
  \/ OpenSettings(r) \/ SendSettings(r) \/ StoreSettings(r)
  \/ ReceiveWebhook(r) \/ HandleOrdersFulfilled(r) \/ HandleAppUninstalled(r)
  \/ ReadForShopId(r) \/ KeepShopId(r)
  \/ OpenPolicy(r) \/ SendPolicy(r) \/ StorePolicy(r)
  \/ EnsureDefaultPolicy(r) \/ CreateDefaultPolicy(r)
  \/ SaveCarrier(r) \/ CheckLimit(r) \/ UpsertCarrier(r) \/ Disconnect(r) \/ ChangePlan(r)

Next == \E r \in Requests : Step(r)

Spec == Init /\ [][Next]_vars

-----------------------------------------------------------------------------
(* Properties.                                                             *)

\* What a request carries: a page's form, and what its handler has read.
Forms == [kind : {"save"}, step : {"form"}, form : Settings]
           \cup [kind : {"policy"}, step : {"form"}, id : Policies \cup {None}, form : Policy]
Saves == [kind : {"save"}, step : {"serving"}, raced : BOOLEAN, read : Settings, form : Settings]
Hooks == [kind : {"fulfilled", "uninstall", "shopId"}, step : {"serving"}, raced : BOOLEAN, read : Settings,
          key : SystemKeys]
Rows  == [kind : {"policy", "install"}, step : {"serving"}, raced : BOOLEAN, id : Policies \cup {None}, form : Policy]
Edits == [kind : {"carrier"}, step : {"serving"}, raced : BOOLEAN, carrier : Carriers, creds : Credentials \cup {None},
          isActive : BOOLEAN, limit : Nat, existing : [Carriers -> Config \cup {None}] \cup {None}]

Serves == Saves \cup Hooks \cup Rows \cup Edits
Jobs   == {NoJob, Done} \cup Forms \cup Serves

\* The rows and the requests keep their shape.
TypeOK ==
  /\ settings \in Settings /\ plan \in Plans
  /\ policies \in [Policies -> Policy \cup {None}]
  /\ carriers \in [Carriers -> Config \cup {None}]
  /\ job \in [Requests -> Jobs]

\* The request that ends in this step had been raced.
Raced == \E r \in Requests : Ended(r) /\ job[r].step = "serving" /\ job[r].raced

\* "A stale dashboard snapshot can't wipe keys written since the page loaded",
\* and what the app maintains itself is never lost to a save: however old the
\* page and however many saves and webhooks follow each other, a key that is
\* stored stays, unless two writers overlapped between read and write.
SavesWipeNothing ==
  [][\A k \in AllKeys : settings[k] # None /\ settings'[k] = None => Raced]_vars

\* "There can only be one default policy per shop": a second one appears only
\* when two requests overlapped between clearing the default and storing it.
OneDefault ==
  [][Cardinality(Defaults) <= 1 /\ Cardinality(Defaults') > 1 => Raced]_vars

\* The plan's carrier limit: a carrier is switched on only as long as the plan
\* of that moment allows it, unless the request was overtaken by another one or
\* by a change of plan.
WithinLimit ==
  [][Active(carriers') \ Active(carriers) # {} => Cardinality(Active(carriers')) <= Limit[plan] \/ Raced]_vars

\* "We keep whatever is already stored": credentials change only to ones that
\* the request brought, unless it was overtaken.
CredentialsKept ==
  [][\A c \in Carriers :
       carriers[c] # None /\ carriers'[c] # None /\ carriers'[c].creds # carriers[c].creds
       => Raced \/ \E r \in Requests : /\ Ended(r) /\ job[r].kind = "carrier"
                                       /\ job[r].creds # None /\ job[r].creds = carriers'[c].creds]_vars

=============================================================================
