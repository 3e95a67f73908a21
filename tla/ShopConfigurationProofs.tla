------------------------ MODULE ShopConfigurationProofs ------------------------
(***************************************************************************)
(* Proofs about the shop's own rows: ShopConfiguration, for any number of  *)
(* requests, settings, policies, carriers and plans, and ShopCredentials,  *)
(* for any number of calls, uninstalls and faults.                         *)
(***************************************************************************)
EXTENDS ShopConfiguration, ShopCredentials, FiniteSetTheorems, TLAPS

\* What is being served is of the shape its kind has.
LEMMA ServingShape ==
  ASSUME NEW j \in Jobs, j.step = "serving"
  PROVE  /\ j.kind = "save" => j \in Saves
         /\ j.kind \in {"fulfilled", "uninstall", "shopId"} => j \in Hooks
         /\ j.kind \in {"policy", "install"} => j \in Rows
         /\ j.kind = "carrier" => j \in Edits
         /\ j \in Serves
BY DEF Jobs, Serves, NoJob, Done, Forms, Saves, Hooks, Rows, Edits

\* Being overtaken changes the flag of a request and nothing else.
LEMMA OvertakenSave ==
  ASSUME NEW j \in Saves
  PROVE  LET k == [j EXCEPT !.raced = TRUE]
         IN  k \in Saves /\ k.kind = j.kind /\ k.step = j.step /\ k.raced /\ k.read = j.read /\ k.form = j.form
BY DEF Saves

LEMMA OvertakenHook ==
  ASSUME NEW j \in Hooks
  PROVE  LET k == [j EXCEPT !.raced = TRUE]
         IN  k \in Hooks /\ k.kind = j.kind /\ k.step = j.step /\ k.raced /\ k.read = j.read /\ k.key = j.key
BY DEF Hooks

LEMMA OvertakenRow ==
  ASSUME NEW j \in Rows
  PROVE  LET k == [j EXCEPT !.raced = TRUE]
         IN  k \in Rows /\ k.kind = j.kind /\ k.step = j.step /\ k.raced /\ k.id = j.id /\ k.form = j.form
BY DEF Rows

LEMMA OvertakenEdit ==
  ASSUME NEW j \in Edits
  PROVE  LET k == [j EXCEPT !.raced = TRUE]
         IN  /\ k \in Edits /\ k.kind = j.kind /\ k.step = j.step /\ k.raced
             /\ k.carrier = j.carrier /\ k.creds = j.creds /\ k.isActive = j.isActive
             /\ k.limit = j.limit /\ k.existing = j.existing
BY DEF Edits

\* Any of them.
LEMMA Overtaken ==
  ASSUME NEW j \in Serves
  PROVE  LET k == [j EXCEPT !.raced = TRUE]
         IN  k \in Serves /\ k.kind = j.kind /\ k.step = j.step /\ k.raced
BY OvertakenSave, OvertakenHook, OvertakenRow, OvertakenEdit DEF Serves

\* A write ends its request, overtakes those that had read what it wrote, and
\* leaves the others alone.
LEMMA FinishKeeps ==
  ASSUME job \in [Requests -> Jobs], NEW r \in Requests, NEW kinds, Finish(r, kinds)
  PROVE  /\ job' \in [Requests -> Jobs]
         /\ job'[r] = Done
         /\ \A q \in Requests \ {r} :
              IF Serving(q, kinds) THEN job'[q] = [job[q] EXCEPT !.raced = TRUE] /\ job'[q].raced
                                   ELSE job'[q] = job[q]
<1>1. \A q \in Requests : Serving(q, kinds) => [job[q] EXCEPT !.raced = TRUE] \in Jobs /\ [job[q] EXCEPT !.raced = TRUE].raced
  BY ServingShape, Overtaken DEF Serving, Jobs
<1>2. \A q \in Requests : job'[q] = IF q = r THEN Done
                                   ELSE IF Serving(q, kinds) THEN [job[q] EXCEPT !.raced = TRUE]
                                   ELSE job[q]
  BY DEF Finish
<1>3. \A q \in Requests : job'[q] \in Jobs
  BY <1>1, <1>2 DEF Jobs
<1>4. job' \in [Requests -> Jobs]
  BY <1>3 DEF Finish
<1> QED BY <1>1, <1>2, <1>4

\* The settings, the rows and the requests keep their shape.
THEOREM TypeCorrect == Spec => []TypeOK
<1>1. Init => TypeOK
  BY DEF Init, TypeOK, Settings, Jobs
<1>2. TypeOK /\ [Next]_vars => TypeOK'
  <2> SUFFICES ASSUME TypeOK, [Next]_vars PROVE TypeOK'
    OBVIOUS
  <2>0. /\ settings \in Settings /\ plan \in Plans /\ policies \in [Policies -> Policy \cup {None}]
        /\ carriers \in [Carriers -> Config \cup {None}] /\ job \in [Requests -> Jobs]
    BY DEF TypeOK
  <2>a. ASSUME NEW r \in Requests, NEW j \in Jobs, job' = [job EXCEPT ![r] = j] PROVE job' \in [Requests -> Jobs]
    BY <2>0, <2>a
  <2>b. FALSE \in BOOLEAN /\ TRUE \in BOOLEAN
    OBVIOUS
  <2>1. ASSUME NEW r \in Requests, Fail(r) PROVE TypeOK'
    BY <2>0, <2>1, <2>a DEF Fail, TypeOK, Jobs
  <2>2. ASSUME NEW r \in Requests, OpenSettings(r) PROVE TypeOK'
    <3>1. [kind |-> "save", step |-> "form", form |-> settings] \in Jobs
      BY <2>0 DEF Jobs, Forms
    <3> QED BY <2>0, <2>2, <2>a, <3>1 DEF OpenSettings, TypeOK
  <2>3. ASSUME NEW r \in Requests, SendSettings(r) PROVE TypeOK'
    <3>1. job[r].form \in Settings
      BY <2>0, <2>3 DEF SendSettings, Jobs, NoJob, Done, Forms, Serves, Saves, Hooks, Rows, Edits
    <3>2. EditedSettings(job[r].form) \subseteq Settings
      BY <3>1 DEF EditedSettings, Settings, AllKeys
    <3>3. \A data \in Settings : [kind |-> "save", step |-> "serving", raced |-> FALSE, read |-> settings,
                                 form |-> data] \in Jobs
      BY <2>0, <2>b DEF Jobs, Serves, Saves
    <3> QED BY <2>0, <2>3, <2>a, <3>2, <3>3 DEF SendSettings, TypeOK
  <2>4. ASSUME NEW r \in Requests, StoreSettings(r) PROVE TypeOK'
    <3>1. job[r] \in Saves
      BY <2>0, <2>4, ServingShape DEF StoreSettings, Serving
    <3>2. settings' \in Settings
      BY <2>4, <3>1 DEF StoreSettings, Merged, Saves, Settings
    <3> QED BY <2>0, <2>4, <3>2, FinishKeeps DEF StoreSettings, TypeOK
  <2>5. ASSUME NEW r \in Requests, ReceiveWebhook(r) PROVE TypeOK'
    <3>1. \A k \in Orders \cup {"uninstalledAt"} :
            [kind |-> IF k \in Orders THEN "fulfilled" ELSE "uninstall", step |-> "serving",
             raced |-> FALSE, read |-> settings, key |-> k] \in Jobs
      BY <2>0, <2>b DEF Jobs, Serves, Hooks, SystemKeys
    <3> QED BY <2>0, <2>5, <2>a, <3>1 DEF ReceiveWebhook, TypeOK
  <2>6. ASSUME NEW r \in Requests, HandleOrdersFulfilled(r) PROVE TypeOK'
    <3>1. job[r] \in Hooks
      BY <2>0, <2>6, ServingShape DEF HandleOrdersFulfilled, Serving
    <3>2. settings' \in Settings
      BY <2>6, <3>1 DEF HandleOrdersFulfilled, Hooks, Settings
    <3> QED BY <2>0, <2>6, <3>2, FinishKeeps DEF HandleOrdersFulfilled, TypeOK
  <2>7. ASSUME NEW r \in Requests, HandleAppUninstalled(r) PROVE TypeOK'
    <3>1. job[r] \in Hooks
      BY <2>0, <2>7, ServingShape DEF HandleAppUninstalled, Serving
    <3>2. settings' \in Settings
      BY <2>7, <3>1 DEF HandleAppUninstalled, Hooks, Settings
    <3> QED BY <2>0, <2>7, <3>2, FinishKeeps, LimitAssumption DEF HandleAppUninstalled, TypeOK
  <2>8. ASSUME NEW r \in Requests, OpenPolicy(r) PROVE TypeOK'
    <3>1. [kind |-> "policy", step |-> "form", id |-> None, form |-> [isDefault |-> FALSE, isActive |-> TRUE]] \in Jobs
      BY <2>b DEF Jobs, Forms, Policy
    <3>2. \A p \in Policies : policies[p] # None =>
            [kind |-> "policy", step |-> "form", id |-> p, form |-> policies[p]] \in Jobs
      BY <2>0 DEF Jobs, Forms
    <3> QED BY <2>0, <2>8, <2>a, <3>1, <3>2 DEF OpenPolicy, TypeOK
  <2>9. ASSUME NEW r \in Requests, SendPolicy(r) PROVE TypeOK'
    <3>1. job[r].form \in Policy /\ job[r].id \in Policies \cup {None}
      BY <2>0, <2>9 DEF SendPolicy, Jobs, NoJob, Done, Forms, Serves, Saves, Hooks, Rows, Edits
    <3>2. PICK data \in Policy :
            /\ job' = [job EXCEPT ![r] = [kind |-> "policy", step |-> "serving", raced |-> FALSE,
                                          id |-> job[r].id, form |-> data]]
            /\ policies' = [p \in Policies |-> IF data.isDefault /\ p # job[r].id THEN Undefault(p) ELSE policies[p]]
      BY <2>9, <3>1 DEF SendPolicy, EditedPolicies
    <3>3. [kind |-> "policy", step |-> "serving", raced |-> FALSE, id |-> job[r].id, form |-> data] \in Jobs
      BY <2>b, <3>1 DEF Jobs, Serves, Rows
    <3>4. \A p \in Policies : Undefault(p) \in Policy \cup {None}
      BY <2>0, <2>b DEF Undefault, Policy
    <3>5. policies' \in [Policies -> Policy \cup {None}]
      BY <2>0, <3>2, <3>4
    <3>6. job' \in [Requests -> Jobs]
      BY <2>a, <3>2, <3>3
    <3> QED BY <2>0, <2>9, <3>5, <3>6 DEF SendPolicy, TypeOK
  <2>10. ASSUME NEW r \in Requests, StorePolicy(r) PROVE TypeOK'
    <3>1. job[r] \in Rows
      BY <2>0, <2>10, ServingShape DEF StorePolicy, Serving
    <3>2. policies' \in [Policies -> Policy \cup {None}]
      BY <2>0, <2>10, <3>1 DEF StorePolicy, Rows
    <3> QED BY <2>0, <2>10, <3>2, FinishKeeps DEF StorePolicy, TypeOK
  <2>11. ASSUME NEW r \in Requests, EnsureDefaultPolicy(r) PROVE TypeOK'
    <3>1. [kind |-> "install", step |-> "serving", raced |-> FALSE, id |-> None,
           form |-> [isDefault |-> TRUE, isActive |-> TRUE]] \in Jobs
      BY <2>b DEF Jobs, Serves, Rows, Policy
    <3> QED BY <2>0, <2>11, <2>a, <3>1 DEF EnsureDefaultPolicy, TypeOK
  <2>12. ASSUME NEW r \in Requests, CreateDefaultPolicy(r) PROVE TypeOK'
    <3>1. job[r] \in Rows
      BY <2>0, <2>12, ServingShape DEF CreateDefaultPolicy, Serving
    <3>2. policies' \in [Policies -> Policy \cup {None}]
      BY <2>0, <2>12, <3>1 DEF CreateDefaultPolicy, Rows
    <3> QED BY <2>0, <2>12, <3>2, FinishKeeps DEF CreateDefaultPolicy, TypeOK
  <2>13. ASSUME NEW r \in Requests, SaveCarrier(r) PROVE TypeOK'
    <3>1. \A form \in CarrierForms :
            [kind |-> "carrier", step |-> "serving", raced |-> FALSE, carrier |-> form.carrier,
             creds |-> form.creds, isActive |-> form.isActive, limit |-> Limit[plan], existing |-> None] \in Jobs
      BY <2>0, <2>b, LimitAssumption DEF Jobs, Serves, Edits, CarrierForms
    <3> QED BY <2>0, <2>13, <2>a, <3>1 DEF SaveCarrier, TypeOK
  <2>14. ASSUME NEW r \in Requests, CheckLimit(r) PROVE TypeOK'
    <3>1. job[r] \in Edits
      BY <2>0, <2>14, ServingShape DEF CheckLimit, Serving
    <3>2. [job[r] EXCEPT !.existing = carriers] \in Jobs
      BY <2>0, <3>1 DEF Jobs, Serves, Edits
    <3> QED BY <2>0, <2>14, <2>a, <3>2 DEF CheckLimit, TypeOK
  <2>15. ASSUME NEW r \in Requests, UpsertCarrier(r) PROVE TypeOK'
    <3>1. job[r] \in Edits /\ job[r].existing # None
      BY <2>0, <2>15, ServingShape DEF UpsertCarrier, Serving
    <3>2. Prior(r) \in Credentials \cup {None}
      BY <3>1 DEF Prior, Edits, Config
    <3>3. [isActive |-> job[r].isActive, creds |-> IF job[r].creds = None THEN Prior(r) ELSE job[r].creds] \in Config
      BY <3>1, <3>2 DEF Edits, Config
    <3>4. carriers' \in [Carriers -> Config \cup {None}]
      BY <2>0, <2>15, <3>3 DEF UpsertCarrier
    <3> QED BY <2>0, <2>15, <3>4, FinishKeeps DEF UpsertCarrier, TypeOK
  <2>16. ASSUME NEW r \in Requests, Disconnect(r) PROVE TypeOK'
    <3>1. carriers' \in [Carriers -> Config \cup {None}]
      BY <2>0, <2>16 DEF Disconnect
    <3> QED BY <2>0, <2>16, <3>1, FinishKeeps DEF Disconnect, TypeOK
  <2>17. ASSUME NEW r \in Requests, ChangePlan(r) PROVE TypeOK'
    BY <2>0, <2>17, FinishKeeps DEF ChangePlan, TypeOK
  <2>18. ASSUME NEW r \in Requests, ReadForShopId(r) PROVE TypeOK'
    <3>1. [kind |-> "shopId", step |-> "serving", raced |-> FALSE, read |-> settings, key |-> "shopifyShopId"] \in Jobs
      BY <2>0, <2>b DEF Jobs, Serves, Hooks, SystemKeys
    <3> QED BY <2>0, <2>18, <2>a, <3>1 DEF ReadForShopId, TypeOK
  <2>19. ASSUME NEW r \in Requests, KeepShopId(r) PROVE TypeOK'
    <3>1. job[r] \in Hooks
      BY <2>0, <2>19, ServingShape DEF KeepShopId, Serving
    <3>2. settings' \in Settings
      BY <2>19, <3>1 DEF KeepShopId, Hooks, Settings
    <3> QED BY <2>0, <2>19, <3>2, FinishKeeps DEF KeepShopId, TypeOK
  <2>20. CASE UNCHANGED vars
    BY <2>20 DEF vars, TypeOK
  <2> QED
    BY <2>1, <2>2, <2>3, <2>4, <2>5, <2>6, <2>7, <2>8, <2>9, <2>10, <2>11, <2>12, <2>13,
       <2>14, <2>15, <2>16, <2>17, <2>18, <2>19, <2>20 DEF Next, Step
<1> QED BY <1>1, <1>2, PTL DEF Spec

-----------------------------------------------------------------------------
(* Who has not been overtaken.                                             *)

\* After a write, a request that is served and has not been raced is as it was,
\* and had not read what was written.
LEMMA FinishUnraced ==
  ASSUME job \in [Requests -> Jobs], NEW r \in Requests, NEW kinds, Finish(r, kinds),
         NEW q \in Requests, job'[q].step = "serving", ~job'[q].raced
  PROVE  q # r /\ job'[q] = job[q] /\ ~Serving(q, kinds)
<1>1. q # r
  BY FinishKeeps DEF Done
<1> QED BY <1>1, FinishKeeps

\* A step of one request leaves the others as they were, or overtakes them.
LEMMA OthersFresh ==
  ASSUME TypeOK, NEW r \in Requests, Step(r),
         NEW q \in Requests \ {r}, job'[q].step = "serving", ~job'[q].raced
  PROVE  job'[q] = job[q]
<1>0. job \in [Requests -> Jobs]
  BY DEF TypeOK
<1>1. ASSUME NEW j, job' = [job EXCEPT ![r] = j] PROVE job'[q] = job[q]
  BY <1>0, <1>1
<1>2. ASSUME NEW kinds, Finish(r, kinds) PROVE job'[q] = job[q]
  BY <1>0, <1>2, FinishUnraced
<1>3. CASE Fail(r) \/ OpenSettings(r) \/ SendSettings(r) \/ ReceiveWebhook(r) \/ ReadForShopId(r) \/ OpenPolicy(r)
           \/ SendPolicy(r) \/ EnsureDefaultPolicy(r) \/ SaveCarrier(r) \/ CheckLimit(r)
  BY <1>1, <1>3 DEF Fail, OpenSettings, SendSettings, ReceiveWebhook, ReadForShopId, OpenPolicy, SendPolicy,
                    EnsureDefaultPolicy, SaveCarrier, CheckLimit
<1>4. CASE StoreSettings(r) \/ HandleOrdersFulfilled(r) \/ KeepShopId(r) \/ HandleAppUninstalled(r) \/ StorePolicy(r)
           \/ CreateDefaultPolicy(r) \/ UpsertCarrier(r) \/ Disconnect(r) \/ ChangePlan(r)
  BY <1>2, <1>4 DEF StoreSettings, HandleOrdersFulfilled, KeepShopId, HandleAppUninstalled, StorePolicy,
                    CreateDefaultPolicy, UpsertCarrier, Disconnect, ChangePlan
<1> QED BY <1>3, <1>4 DEF Step

-----------------------------------------------------------------------------
(* The settings.                                                           *)

\* Unless it was overtaken, what a writer of the settings has read is stored.
SettingsFresh ==
  \A r \in Requests : Serving(r, SettingsKinds) /\ ~job[r].raced => job[r].read = settings

WritesSettings(r) == StoreSettings(r) \/ HandleOrdersFulfilled(r) \/ KeepShopId(r) \/ HandleAppUninstalled(r)

LEMMA SettingsStayFresh == TypeOK /\ SettingsFresh /\ [Next]_vars => SettingsFresh'
<1> SUFFICES ASSUME TypeOK, SettingsFresh, [Next]_vars PROVE SettingsFresh'
  OBVIOUS
<1>0. job \in [Requests -> Jobs]
  BY DEF TypeOK
<1>1. ASSUME NEW r \in Requests, Step(r) PROVE SettingsFresh'
  <2> SUFFICES ASSUME NEW q \in Requests, Serving(q, SettingsKinds)', ~job'[q].raced
               PROVE  job'[q].read = settings'
    BY DEF SettingsFresh
  <2>0. job'[q].step = "serving" /\ job'[q].kind \in SettingsKinds
    BY DEF Serving
  <2>1. CASE WritesSettings(r)
    <3>1. PICK kinds : Finish(r, kinds) /\ SettingsKinds \subseteq kinds
      BY <2>1 DEF WritesSettings, StoreSettings, HandleOrdersFulfilled, KeepShopId, HandleAppUninstalled
    <3>2. job'[q] = job[q] /\ ~Serving(q, kinds)
      BY <1>0, <2>0, <3>1, FinishUnraced
    <3> QED BY <2>0, <3>1, <3>2 DEF Serving
  <2>2. CASE ~WritesSettings(r)
    <3>1. settings' = settings
      BY <1>1, <2>2 DEF Step, WritesSettings, Fail, OpenSettings, SendSettings, ReceiveWebhook, ReadForShopId,
         OpenPolicy, SendPolicy, StorePolicy, EnsureDefaultPolicy, CreateDefaultPolicy, SaveCarrier, CheckLimit,
         UpsertCarrier, Disconnect, ChangePlan
    <3>2. CASE q # r
      <4>1. job'[q] = job[q]
        BY <1>1, <2>0, <3>2, OthersFresh
      <4> QED BY <2>0, <3>1, <4>1 DEF SettingsFresh, Serving
    <3>3. CASE q = r
      <4>1. CASE SendSettings(r) \/ ReceiveWebhook(r) \/ ReadForShopId(r)
        BY <1>0, <3>1, <3>3, <4>1 DEF SendSettings, ReceiveWebhook, ReadForShopId
      <4>2. CASE Fail(r) \/ OpenSettings(r) \/ OpenPolicy(r) \/ SendPolicy(r) \/ EnsureDefaultPolicy(r)
                \/ SaveCarrier(r)
        BY <1>0, <2>0, <3>3, <4>2 DEF Fail, Done, OpenSettings, OpenPolicy, SendPolicy, EnsureDefaultPolicy,
           SaveCarrier, SettingsKinds
      <4>3. CASE CheckLimit(r)
        <5>1. job[r] \in Edits
          BY <1>0, <4>3, ServingShape DEF CheckLimit, Serving
        <5> QED BY <1>0, <2>0, <3>3, <4>3, <5>1 DEF CheckLimit, Edits, SettingsKinds
      <4>4. CASE StorePolicy(r) \/ CreateDefaultPolicy(r) \/ UpsertCarrier(r) \/ Disconnect(r) \/ ChangePlan(r)
        BY <1>0, <2>0, <3>3, <4>4, FinishUnraced DEF StorePolicy, CreateDefaultPolicy, UpsertCarrier,
           Disconnect, ChangePlan
      <4> QED BY <1>1, <2>2, <4>1, <4>2, <4>3, <4>4 DEF Step, WritesSettings
    <3> QED BY <3>2, <3>3
  <2> QED BY <2>1, <2>2
<1>2. CASE UNCHANGED vars
  BY <1>2 DEF vars, SettingsFresh, Serving
<1> QED BY <1>1, <1>2 DEF Next

\* A stale dashboard page wipes nothing: every key that is stored survives every
\* save and webhook, unless two writers overlapped between read and write.
THEOREM NothingIsWiped == Spec => SavesWipeNothing
<1> DEFINE Kept == \A k \in AllKeys : settings[k] # None /\ settings'[k] = None => Raced
<1>1. Init => SettingsFresh
  BY DEF Init, SettingsFresh, Serving, NoJob
<1>2. TypeOK /\ SettingsFresh /\ [Next]_vars => [Kept]_vars
  <2> SUFFICES ASSUME TypeOK, SettingsFresh, [Next]_vars, UNCHANGED vars \/ ~Kept PROVE UNCHANGED vars
    BY DEF vars
  <2>0. job \in [Requests -> Jobs] /\ settings \in Settings
    BY DEF TypeOK
  <2>1. ASSUME NEW r \in Requests, WritesSettings(r) PROVE Kept
    <3>0. PICK kinds : Finish(r, kinds)
      BY <2>1 DEF WritesSettings, StoreSettings, HandleOrdersFulfilled, KeepShopId, HandleAppUninstalled
    <3>1. Serving(r, SettingsKinds) /\ Ended(r)
      BY <2>0, <2>1, <3>0, FinishKeeps DEF WritesSettings, StoreSettings, HandleOrdersFulfilled, KeepShopId,
         HandleAppUninstalled, Serving, SettingsKinds, Ended, Done
    <3>2. CASE job[r].raced
      BY <3>1, <3>2 DEF Raced, Serving
    <3>3. CASE ~job[r].raced
      <4>1. job[r].read = settings
        BY <3>1, <3>3 DEF SettingsFresh
      <4>2. ASSUME NEW k \in AllKeys, settings[k] # None PROVE settings'[k] # None
        <5>1. CASE StoreSettings(r)
          BY <4>1, <4>2, <5>1 DEF StoreSettings, Merged
        <5>2. CASE HandleOrdersFulfilled(r) \/ KeepShopId(r) \/ HandleAppUninstalled(r)
          BY <2>0, <4>1, <4>2, <5>2, KeysAssumption DEF HandleOrdersFulfilled, KeepShopId, HandleAppUninstalled,
             Settings
        <5> QED BY <2>1, <5>1, <5>2 DEF WritesSettings
      <4> QED BY <4>2
    <3> QED BY <3>2, <3>3
  <2>2. ASSUME NEW r \in Requests, Step(r), ~WritesSettings(r) PROVE Kept
    <3>1. settings' = settings
      BY <2>2 DEF Step, WritesSettings, Fail, OpenSettings, SendSettings, ReceiveWebhook, ReadForShopId, OpenPolicy,
         SendPolicy, StorePolicy, EnsureDefaultPolicy, CreateDefaultPolicy, SaveCarrier, CheckLimit,
         UpsertCarrier, Disconnect, ChangePlan
    <3> QED BY <3>1
  <2> QED BY <2>1, <2>2 DEF Next
<1> QED BY <1>1, <1>2, SettingsStayFresh, TypeCorrect, PTL DEF Spec, SavesWipeNothing

-----------------------------------------------------------------------------
(* The carriers.                                                           *)

\* Unless it was overtaken, a save of a carrier holds the plan's limit and, once
\* it has looked, the carriers as they are, which leave room for its change.
CarriersFresh ==
  \A r \in Requests : Serving(r, {"carrier"}) /\ ~job[r].raced =>
    /\ job[r].limit = Limit[plan]
    /\ job[r].existing # None => job[r].existing = carriers /\ Cardinality(ActiveAfter(r)) <= job[r].limit

WritesCarriers(r) == UpsertCarrier(r) \/ Disconnect(r) \/ ChangePlan(r) \/ HandleAppUninstalled(r)

LEMMA CarriersStayFresh == TypeOK /\ CarriersFresh /\ [Next]_vars => CarriersFresh'
<1> SUFFICES ASSUME TypeOK, CarriersFresh, [Next]_vars PROVE CarriersFresh'
  OBVIOUS
<1>0. job \in [Requests -> Jobs]
  BY DEF TypeOK
<1>1. ASSUME NEW r \in Requests, Step(r) PROVE CarriersFresh'
  <2> SUFFICES ASSUME NEW q \in Requests, Serving(q, {"carrier"})', ~job'[q].raced
               PROVE  /\ job'[q].limit = Limit[plan']
                      /\ job'[q].existing # None => /\ job'[q].existing = carriers'
                                                    /\ Cardinality(ActiveAfter(q)') <= job'[q].limit
    BY DEF CarriersFresh
  <2>0. job'[q].step = "serving" /\ job'[q].kind = "carrier"
    BY DEF Serving
  <2>1. CASE WritesCarriers(r)
    <3>1. PICK kinds : Finish(r, kinds) /\ "carrier" \in kinds
      BY <2>1 DEF WritesCarriers, UpsertCarrier, Disconnect, ChangePlan, HandleAppUninstalled
    <3>2. job'[q] = job[q] /\ ~Serving(q, kinds)
      BY <1>0, <2>0, <3>1, FinishUnraced
    <3> QED BY <2>0, <3>1, <3>2 DEF Serving
  <2>2. CASE ~WritesCarriers(r)
    <3>1. carriers' = carriers /\ plan' = plan
      BY <1>1, <2>2 DEF Step, WritesCarriers, Fail, OpenSettings, SendSettings, StoreSettings, ReceiveWebhook,
         ReadForShopId, HandleOrdersFulfilled, KeepShopId, OpenPolicy, SendPolicy, StorePolicy, EnsureDefaultPolicy,
         CreateDefaultPolicy, SaveCarrier, CheckLimit
    <3>2. ASSUME job'[q] = job[q] PROVE ActiveAfter(q)' = ActiveAfter(q)
      BY <3>1, <3>2 DEF ActiveAfter, Active
    <3>3. CASE q # r
      <4>1. job'[q] = job[q]
        BY <1>1, <2>0, <3>3, OthersFresh
      <4>2. Serving(q, {"carrier"}) /\ ~job[q].raced
        BY <2>0, <4>1 DEF Serving
      <4> QED BY <3>1, <3>2, <4>1, <4>2 DEF CarriersFresh
    <3>4. CASE q = r
      <4>1. CASE SaveCarrier(r)
        BY <1>0, <3>1, <3>4, <4>1 DEF SaveCarrier
      <4>2. CASE CheckLimit(r)
        <5>1. job[r] \in Edits /\ Serving(r, {"carrier"}) /\ Cardinality(ActiveAfter(r)) <= job[r].limit
          BY <1>0, <4>2, ServingShape DEF CheckLimit, Serving
        <5>2. job'[r] = [job[r] EXCEPT !.existing = carriers]
          BY <1>0, <4>2 DEF CheckLimit
        <5>3. /\ job'[r].existing = carriers /\ job'[r].limit = job[r].limit /\ job'[r].raced = job[r].raced
              /\ job'[r].carrier = job[r].carrier /\ job'[r].isActive = job[r].isActive
          BY <5>1, <5>2 DEF Edits
        <5>4. ActiveAfter(r)' = ActiveAfter(r)
          BY <3>1, <5>3 DEF ActiveAfter, Active
        <5>5. job[r].limit = Limit[plan]
          BY <3>4, <5>1, <5>3 DEF CarriersFresh
        <5> QED BY <3>1, <3>4, <5>1, <5>3, <5>4, <5>5
      <4>3. CASE Fail(r) \/ OpenSettings(r) \/ SendSettings(r) \/ ReceiveWebhook(r) \/ ReadForShopId(r)
                 \/ OpenPolicy(r) \/ SendPolicy(r) \/ EnsureDefaultPolicy(r)
        BY <1>0, <2>0, <3>4, <4>3 DEF Fail, Done, OpenSettings, SendSettings, ReceiveWebhook, ReadForShopId,
           OpenPolicy, SendPolicy, EnsureDefaultPolicy
      <4>4. CASE StoreSettings(r) \/ HandleOrdersFulfilled(r) \/ KeepShopId(r) \/ StorePolicy(r)
                 \/ CreateDefaultPolicy(r)
        BY <1>0, <2>0, <3>4, <4>4, FinishUnraced DEF StoreSettings, HandleOrdersFulfilled, KeepShopId, StorePolicy,
           CreateDefaultPolicy
      <4> QED BY <1>1, <2>2, <4>1, <4>2, <4>3, <4>4 DEF Step, WritesCarriers
    <3> QED BY <3>3, <3>4
  <2> QED BY <2>1, <2>2
<1>2. CASE UNCHANGED vars
  BY <1>2 DEF vars, CarriersFresh, Serving, ActiveAfter, Active
<1> QED BY <1>1, <1>2 DEF Next

LEMMA CarriersFreshAtFirst == Init => CarriersFresh
BY DEF Init, CarriersFresh, Serving, NoJob

\* What an upsert writes, and that it ends its request.
LEMMA UpsertWrites ==
  ASSUME TypeOK, CarriersFresh, NEW r \in Requests, UpsertCarrier(r)
  PROVE  /\ Serving(r, {"carrier"}) /\ job[r] \in Edits /\ Ended(r) /\ (job[r].raced => Raced)
         /\ ~job[r].raced => /\ job[r].existing = carriers /\ job[r].limit = Limit[plan]
                             /\ Cardinality(ActiveAfter(r)) <= job[r].limit
<1>0. job \in [Requests -> Jobs]
  BY DEF TypeOK
<1>1. Serving(r, {"carrier"}) /\ job[r].existing # None /\ Finish(r, {"carrier"})
  BY DEF UpsertCarrier
<1>2. job[r] \in Edits /\ Ended(r)
  BY <1>0, <1>1, ServingShape, FinishKeeps DEF Serving, Ended, Done
<1> QED BY <1>1, <1>2 DEF CarriersFresh, Raced, Serving

\* A carrier is switched on only as long as the plan of that moment allows it,
\* unless its request was overtaken by another or by a change of plan.
THEOREM PlanLimitHolds == Spec => WithinLimit
<1> DEFINE Allowed == Active(carriers') \ Active(carriers) # {} =>
                        Cardinality(Active(carriers')) <= Limit[plan] \/ Raced
<1>1. TypeOK /\ CarriersFresh /\ [Next]_vars => [Allowed]_vars
  <2> SUFFICES ASSUME TypeOK, CarriersFresh, [Next]_vars, UNCHANGED vars \/ ~Allowed PROVE UNCHANGED vars
    BY DEF vars
  <2>0. carriers \in [Carriers -> Config \cup {None}]
    BY DEF TypeOK
  <2>1. ASSUME NEW r \in Requests, UpsertCarrier(r) PROVE Allowed
    <3>1. CASE job[r].raced
      BY <2>1, <3>1, UpsertWrites
    <3>2. CASE ~job[r].raced
      <4> SUFFICES ASSUME Active(carriers') \ Active(carriers) # {}
                   PROVE  Cardinality(Active(carriers')) <= Limit[plan]
        OBVIOUS
      <4> DEFINE c == job[r].carrier
      <4>1. PICK d \in Active(carriers') : d \notin Active(carriers)
        OBVIOUS
      <4>2. /\ \A e \in Carriers \ {c} : carriers'[e] = carriers[e]
            /\ c \in Carriers => carriers'[c].isActive = job[r].isActive
        BY <2>0, <2>1 DEF UpsertCarrier
      <4>3. d = c /\ c \in Carriers /\ c \in Active(carriers')
        BY <4>1, <4>2 DEF Active
      <4>4. job[r].isActive
        BY <4>2, <4>3 DEF Active
      <4>5. Active(carriers') = Active(carriers) \cup {c}
        BY <4>2, <4>3 DEF Active
      <4>6. Active(carriers') = ActiveAfter(r)
        BY <4>4, <4>5 DEF ActiveAfter
      <4> QED BY <2>1, <3>2, <4>6, UpsertWrites
    <3> QED BY <3>1, <3>2
  <2>2. ASSUME NEW r \in Requests, Disconnect(r) PROVE Allowed
    BY <2>0, <2>2 DEF Disconnect, Active
  <2>3. ASSUME NEW r \in Requests, Step(r), ~UpsertCarrier(r), ~Disconnect(r) PROVE Allowed
    <3>1. carriers' = carriers
      BY <2>3 DEF Step, Fail, OpenSettings, SendSettings, StoreSettings, ReceiveWebhook, ReadForShopId,
         HandleOrdersFulfilled, KeepShopId, HandleAppUninstalled, OpenPolicy, SendPolicy, StorePolicy,
         EnsureDefaultPolicy, CreateDefaultPolicy, SaveCarrier, CheckLimit, ChangePlan
    <3> QED BY <3>1
  <2> QED BY <2>1, <2>2, <2>3 DEF Next
<1> QED BY <1>1, CarriersFreshAtFirst, CarriersStayFresh, TypeCorrect, PTL DEF Spec, WithinLimit

\* Stored credentials change only to ones that a request brought, unless it was
\* overtaken: a save that leaves the field blank keeps them.
THEOREM CredentialsAreKept == Spec => CredentialsKept
<1> DEFINE Kept == \A c \in Carriers :
                     carriers[c] # None /\ carriers'[c] # None /\ carriers'[c].creds # carriers[c].creds
                     => Raced \/ \E r \in Requests : /\ Ended(r) /\ job[r].kind = "carrier"
                                                     /\ job[r].creds # None /\ job[r].creds = carriers'[c].creds
<1>1. TypeOK /\ CarriersFresh /\ [Next]_vars => [Kept]_vars
  <2> SUFFICES ASSUME TypeOK, CarriersFresh, [Next]_vars, UNCHANGED vars \/ ~Kept PROVE UNCHANGED vars
    BY DEF vars
  <2>0. carriers \in [Carriers -> Config \cup {None}]
    BY DEF TypeOK
  <2>1. ASSUME NEW r \in Requests, UpsertCarrier(r) PROVE Kept
    <3> SUFFICES ASSUME NEW c \in Carriers, carriers[c] # None, carriers'[c].creds # carriers[c].creds, ~Raced
                 PROVE  Ended(r) /\ job[r].kind = "carrier" /\ job[r].creds # None /\ job[r].creds = carriers'[c].creds
      OBVIOUS
    <3>1. /\ Ended(r) /\ job[r].kind = "carrier" /\ job[r].existing = carriers
      BY <2>1, UpsertWrites DEF Serving
    <3>2. c = job[r].carrier
      BY <2>0, <2>1 DEF UpsertCarrier
    <3>3. carriers'[c].creds = IF job[r].creds = None THEN Prior(r) ELSE job[r].creds
      BY <2>0, <2>1, <3>2 DEF UpsertCarrier
    <3>4. Prior(r) = carriers[c].creds
      BY <3>1, <3>2 DEF Prior
    <3> QED BY <3>1, <3>3, <3>4
  <2>2. ASSUME NEW r \in Requests, Disconnect(r) PROVE Kept
    BY <2>0, <2>2 DEF Disconnect
  <2>3. ASSUME NEW r \in Requests, Step(r), ~UpsertCarrier(r), ~Disconnect(r) PROVE Kept
    <3>1. carriers' = carriers
      BY <2>3 DEF Step, Fail, OpenSettings, SendSettings, StoreSettings, ReceiveWebhook, ReadForShopId,
         HandleOrdersFulfilled, KeepShopId, HandleAppUninstalled, OpenPolicy, SendPolicy, StorePolicy,
         EnsureDefaultPolicy, CreateDefaultPolicy, SaveCarrier, CheckLimit, ChangePlan
    <3> QED BY <3>1
  <2> QED BY <2>1, <2>2, <2>3 DEF Next
<1> QED BY <1>1, CarriersFreshAtFirst, CarriersStayFresh, TypeCorrect, PTL DEF Spec, CredentialsKept

-----------------------------------------------------------------------------
(* The policies.                                                           *)

\* Unless it was overtaken, a save that makes its policy the default finds no
\* other default, and an install finds none at all.
PolicyFresh ==
  \A r \in Requests : Serving(r, {"policy", "install"}) /\ ~job[r].raced =>
    /\ job[r].kind = "policy" /\ job[r].form.isDefault => Defaults \subseteq {job[r].id}
    /\ job[r].kind = "install" => Defaults = {}

StoresPolicy(r) == StorePolicy(r) \/ CreateDefaultPolicy(r)

\* Sending a policy takes the default from others, and gives it to nobody.
LEMMA SendingClears ==
  ASSUME TypeOK, NEW r \in Requests, SendPolicy(r)
  PROVE  /\ Defaults' \subseteq Defaults
         /\ job'[r].kind = "policy" /\ job'[r].form.isDefault => Defaults' \subseteq {job'[r].id}
<1>0. job \in [Requests -> Jobs] /\ policies \in [Policies -> Policy \cup {None}]
  BY DEF TypeOK
<1>1. PICK data :
        /\ job' = [job EXCEPT ![r] = [kind |-> "policy", step |-> "serving", raced |-> FALSE,
                                      id |-> job[r].id, form |-> data]]
        /\ policies' = [p \in Policies |-> IF data.isDefault /\ p # job[r].id THEN Undefault(p) ELSE policies[p]]
  BY DEF SendPolicy
<1>2. \A p \in Policies : Undefault(p) # None => ~Undefault(p).isDefault
  BY <1>0 DEF Undefault, Policy
<1>3. job'[r].form = data /\ job'[r].id = job[r].id
  BY <1>0, <1>1
<1> QED BY <1>1, <1>2, <1>3 DEF Defaults

\* Every other step that stores no policy leaves them.
LEMMA PoliciesStay ==
  ASSUME NEW r \in Requests, Step(r), ~StoresPolicy(r), ~SendPolicy(r)
  PROVE  policies' = policies
BY DEF Step, StoresPolicy, Fail, OpenSettings, SendSettings, StoreSettings, ReceiveWebhook, ReadForShopId,
   HandleOrdersFulfilled, KeepShopId,
   HandleAppUninstalled, OpenPolicy, EnsureDefaultPolicy, SaveCarrier, CheckLimit, UpsertCarrier, Disconnect,
   ChangePlan

LEMMA PoliciesStayFresh == TypeOK /\ PolicyFresh /\ [Next]_vars => PolicyFresh'
<1> SUFFICES ASSUME TypeOK, PolicyFresh, [Next]_vars PROVE PolicyFresh'
  OBVIOUS
<1>0. job \in [Requests -> Jobs]
  BY DEF TypeOK
<1>1. ASSUME NEW r \in Requests, Step(r) PROVE PolicyFresh'
  <2> SUFFICES ASSUME NEW q \in Requests, Serving(q, {"policy", "install"})', ~job'[q].raced
               PROVE  /\ job'[q].kind = "policy" /\ job'[q].form.isDefault => Defaults' \subseteq {job'[q].id}
                      /\ job'[q].kind = "install" => Defaults' = {}
    BY DEF PolicyFresh
  <2>0. job'[q].step = "serving" /\ job'[q].kind \in {"policy", "install"}
    BY DEF Serving
  <2>1. CASE StoresPolicy(r)
    <3>1. Finish(r, {"policy", "install"})
      BY <2>1 DEF StoresPolicy, StorePolicy, CreateDefaultPolicy
    <3>2. job'[q] = job[q] /\ ~Serving(q, {"policy", "install"})
      BY <1>0, <2>0, <3>1, FinishUnraced
    <3> QED BY <2>0, <3>2 DEF Serving
  <2>2. CASE ~StoresPolicy(r)
    <3>1. Defaults' \subseteq Defaults
      BY <1>1, <2>2, SendingClears, PoliciesStay DEF Defaults
    <3>2. CASE q # r
      <4>1. job'[q] = job[q]
        BY <1>1, <2>0, <3>2, OthersFresh
      <4>2. Serving(q, {"policy", "install"}) /\ ~job[q].raced
        BY <2>0, <4>1 DEF Serving
      <4> QED BY <3>1, <4>1, <4>2 DEF PolicyFresh
    <3>3. CASE q = r
      <4>1. CASE SendPolicy(r)
        <5>1. job'[r].kind = "policy"
          BY <1>0, <4>1 DEF SendPolicy
        <5> QED BY <3>3, <4>1, <5>1, SendingClears
      <4>2. CASE EnsureDefaultPolicy(r)
        <5>1. Defaults = {} /\ job'[r].kind = "install"
          BY <1>0, <4>2 DEF EnsureDefaultPolicy, Defaults
        <5> QED BY <3>1, <3>3, <5>1
      <4>3. CASE Fail(r) \/ OpenSettings(r) \/ OpenPolicy(r) \/ SendSettings(r) \/ ReceiveWebhook(r)
                  \/ ReadForShopId(r) \/ SaveCarrier(r)
        BY <1>0, <2>0, <3>3, <4>3 DEF Fail, Done, OpenSettings, OpenPolicy, SendSettings, ReceiveWebhook,
           ReadForShopId, SaveCarrier
      <4>4. CASE CheckLimit(r)
        <5>1. job[r] \in Edits
          BY <1>0, <4>4, ServingShape DEF CheckLimit, Serving
        <5>2. job'[r].kind = "carrier"
          BY <1>0, <4>4, <5>1 DEF CheckLimit, Edits
        <5> QED BY <2>0, <3>3, <5>2
      <4>5. CASE StoreSettings(r) \/ HandleOrdersFulfilled(r) \/ KeepShopId(r) \/ HandleAppUninstalled(r)
                 \/ UpsertCarrier(r) \/ Disconnect(r) \/ ChangePlan(r)
        BY <1>0, <2>0, <3>3, <4>5, FinishUnraced DEF StoreSettings, HandleOrdersFulfilled, KeepShopId,
           HandleAppUninstalled, UpsertCarrier, Disconnect, ChangePlan
      <4> QED BY <1>1, <2>2, <4>1, <4>2, <4>3, <4>4, <4>5 DEF Step, StoresPolicy
    <3> QED BY <3>2, <3>3
  <2> QED BY <2>1, <2>2
<1>2. CASE UNCHANGED vars
  BY <1>2 DEF vars, PolicyFresh, Serving, Defaults
<1> QED BY <1>1, <1>2 DEF Next

\* What storing a policy adds to the defaults, and that it ends its request.
LEMMA StoringAdds ==
  ASSUME TypeOK, NEW r \in Requests, StoresPolicy(r)
  PROVE  /\ Serving(r, {"policy", "install"}) /\ Ended(r) /\ (job[r].raced => Raced)
         /\ \E p \in Policies : /\ job[r].kind = "policy" /\ job[r].id # None => p = job[r].id
                                /\ Defaults' \subseteq Defaults \cup {p}
                                /\ job[r].kind = "policy" /\ ~job[r].form.isDefault => Defaults' \subseteq Defaults
<1>0. job \in [Requests -> Jobs] /\ policies \in [Policies -> Policy \cup {None}]
  BY DEF TypeOK
<1>1. Serving(r, {"policy", "install"}) /\ Finish(r, {"policy", "install"})
  BY DEF StoresPolicy, StorePolicy, CreateDefaultPolicy, Serving
<1>2. Ended(r)
  BY <1>0, <1>1, FinishKeeps DEF Serving, Ended, Done
<1>3. PICK p \in Policies : /\ policies' = [policies EXCEPT ![p] = job[r].form]
                            /\ job[r].kind = "policy" /\ job[r].id # None => p = job[r].id
  BY DEF StoresPolicy, StorePolicy, CreateDefaultPolicy, Serving
<1>4. policies'[p] = job[r].form /\ \A q \in Policies \ {p} : policies'[q] = policies[q]
  BY <1>0, <1>3
<1>5. Defaults' \subseteq Defaults \cup {p}
  BY <1>4 DEF Defaults
<1>6. ~job[r].form.isDefault => Defaults' \subseteq Defaults
  BY <1>4 DEF Defaults
<1> QED BY <1>1, <1>2, <1>3, <1>5, <1>6 DEF Raced, Serving

\* However many policies there may be, finitely many are defaults.
FewDefaults == IsFiniteSet(Defaults)

LEMMA DefaultsStayFew == TypeOK /\ FewDefaults /\ [Next]_vars => FewDefaults'
<1> SUFFICES ASSUME TypeOK, IsFiniteSet(Defaults), [Next]_vars PROVE IsFiniteSet(Defaults')
  BY DEF FewDefaults
<1>1. ASSUME NEW r \in Requests, Step(r) PROVE IsFiniteSet(Defaults')
  <2>1. CASE StoresPolicy(r)
    <3>1. PICK p : Defaults' \subseteq Defaults \cup {p}
      BY <2>1, StoringAdds
    <3>2. IsFiniteSet(Defaults \cup {p})
      BY FS_AddElement
    <3> QED BY <3>1, <3>2, FS_Subset
  <2>2. CASE ~StoresPolicy(r)
    <3>1. Defaults' \subseteq Defaults
      BY <1>1, <2>2, SendingClears, PoliciesStay DEF Defaults
    <3> QED BY <3>1, FS_Subset
  <2> QED BY <2>1, <2>2
<1>2. CASE UNCHANGED vars
  BY <1>2 DEF vars, Defaults
<1> QED BY <1>1, <1>2 DEF Next

LEMMA PoliciesFreshAtFirst == Init => PolicyFresh /\ FewDefaults
<1>1. ASSUME Init PROVE PolicyFresh /\ Defaults = {}
  BY <1>1 DEF Init, PolicyFresh, Serving, NoJob, Defaults
<1> QED BY <1>1, FS_EmptySet DEF FewDefaults

\* A second default policy appears only when two requests overlapped between
\* clearing the default and storing it.
THEOREM DefaultStaysAlone == Spec => OneDefault
<1> DEFINE Alone == Cardinality(Defaults) <= 1 /\ Cardinality(Defaults') > 1 => Raced
<1>1. TypeOK /\ PolicyFresh /\ FewDefaults /\ [Next]_vars => [Alone]_vars
  <2> SUFFICES ASSUME TypeOK, PolicyFresh, IsFiniteSet(Defaults), [Next]_vars, UNCHANGED vars \/ ~Alone
               PROVE  UNCHANGED vars
    BY DEF vars, FewDefaults
  <2>0. ASSUME Defaults' \subseteq Defaults PROVE Alone
    <3>1. Cardinality(Defaults') <= Cardinality(Defaults) /\ Cardinality(Defaults) \in Nat /\ Cardinality(Defaults') \in Nat
      BY <2>0, FS_Subset, FS_CardinalityType
    <3> QED BY <3>1
  <2>1. ASSUME NEW r \in Requests, StoresPolicy(r) PROVE Alone
    <3>1. CASE job[r].raced
      BY <2>1, <3>1, StoringAdds
    <3>2. CASE ~job[r].raced
      <4>1. PICK p \in Policies : /\ job[r].kind = "policy" /\ job[r].id # None => p = job[r].id
                                  /\ Defaults' \subseteq Defaults \cup {p}
                                  /\ job[r].kind = "policy" /\ ~job[r].form.isDefault => Defaults' \subseteq Defaults
        BY <2>1, StoringAdds
      <4>2. Serving(r, {"policy", "install"})
        BY <2>1, StoringAdds
      <4>3. CASE job[r].kind = "policy" /\ ~job[r].form.isDefault
        BY <2>0, <4>1, <4>3
      <4>4. CASE ~(job[r].kind = "policy" /\ ~job[r].form.isDefault)
        <5>1. Defaults \subseteq {p}
          BY <3>2, <4>1, <4>2, <4>4, RowsAssumption DEF PolicyFresh, Serving, Defaults
        <5>2. Defaults' \subseteq {p}
          BY <4>1, <5>1
        <5>3. IsFiniteSet({p}) /\ Cardinality({p}) = 1
          BY FS_Singleton
        <5>4. Cardinality(Defaults') <= 1 /\ Cardinality(Defaults') \in Nat
          BY <5>2, <5>3, FS_Subset, FS_CardinalityType
        <5> QED BY <5>4
      <4> QED BY <4>3, <4>4
    <3> QED BY <3>1, <3>2
  <2>2. ASSUME NEW r \in Requests, Step(r), ~StoresPolicy(r) PROVE Alone
    BY <2>0, <2>2, SendingClears, PoliciesStay DEF Defaults
  <2> QED BY <2>1, <2>2 DEF Next
<1> QED BY <1>1, PoliciesFreshAtFirst, PoliciesStayFresh, DefaultsStayFew, TypeCorrect, PTL DEF Spec, OneDefault

-----------------------------------------------------------------------------
(* The credentials of the shop.  Until something fails or is revoked:      *)

Fresh(c)   == c # Absent /\ c.age = "fresh"
Expired(c) == c # Absent /\ c.age = "expired"

\* Between a new credential and the write that files it.
Issuing(s) == pc[s] \in {"upsert", "persist"}

\* A call that holds a credential it has read.
Reading(s) == pc[s] # "idle" /\ ~Issuing(s)

\* Whoever works on a promise is the one it is kept for, and holds what it is
\* about; nobody clears anything.
OwnerInv ==
  \A s \in Slots :
    /\ pc[s] \in {"exchange", "upsert"} => inFlight["exchange"] = s
    /\ pc[s] \in {"refresh", "persist"} => inFlight["refresh"] = s
    /\ pc[s] = "exchange" => NeedsReauth(held[s])
    /\ pc[s] = "refresh"  => held[s] # Absent /\ held[s].age \in {"expired", "lapsed"}
    /\ Issuing(s) => held[s] = NewCredential
    /\ pc[s] # "clear"

\* What a call has read and is not fresh is what is stored, or was until a
\* fresh one replaced it; time does not pass until everybody has caught up.
ReadInv ==
  /\ \A s \in Slots : Reading(s) => (Fresh(stored) \/ held[s] = stored)
  /\ \A s, t \in Slots :
       (Reading(s) /\ Reading(t) /\ ~Fresh(held[s]) /\ ~Fresh(held[t])) => held[s] = held[t]

\* While an exchange waits for its write nobody has read anything that could
\* be refreshed, and while a refresh does, nothing that would be exchanged.
IssuedInv ==
  \A t \in Slots :
    /\ pc[t] = "upsert" =>
         /\ Fresh(stored) \/ NeedsReauth(stored)
         /\ \A s \in Slots : Reading(s) => (Fresh(held[s]) \/ NeedsReauth(held[s]))
    /\ pc[t] = "persist" =>
         /\ Fresh(stored) \/ Expired(stored)
         /\ \A s \in Slots : Reading(s) => (Fresh(held[s]) \/ Expired(held[s]))

\* Unless a new one is on its way to the file, the newest is on file.
FiledInv == (\A s \in Slots : ~Issuing(s)) => (stored = Absent \/ stored.standing = "newest")

KeptInv == uninstalls = 0 /\ OwnerInv /\ ReadInv /\ IssuedInv /\ FiledInv

CalmInv == ~troubled => KeptInv

Held == Credential \cup {Absent}

Ages == {"fresh", "expired", "lapsed", "legacy"}

\* What happens to a credential leaves a credential, or the absence of one.
LEMMA StillHeld ==
  ASSUME NEW c \in Held
  PROVE  /\ Superseded(c) \in Held /\ Revoked(c) \in Held
         /\ \A from, to \in Ages : Aged(c, from, to) \in Held
         /\ NewCredential \in Held /\ NewCredential # Absent
BY AbsentAssumption DEF Held, Ages, Credential, Superseded, Revoked, Aged, NewCredential

\* Settling a promise moves its owner and those who wait, and nobody else.
LEMMA SettleTyped ==
  ASSUME TokenTypeOK, NEW kind \in {"exchange", "refresh"}, NEW s \in Slots,
         NEW step \in {"idle", "get"}, NEW c \in Held,
         Settle(kind, IF kind = "exchange" THEN "awaitExchange" ELSE "awaitRefresh", s, step, c)
  PROVE  /\ pc' \in [Slots -> Steps] /\ held' \in [Slots -> Held]
         /\ inFlight' \in [{"exchange", "refresh"} -> Slots \cup {Absent}]
         /\ \A q \in Slots : /\ pc'[q] = "awaitExchange" => inFlight'["exchange"] # Absent
                             /\ pc'[q] = "awaitRefresh" => inFlight'["refresh"] # Absent
BY DEF TokenTypeOK, Settle, Steps, Held

\* The parts of the type invariant that a step of a call can disturb.
Shaped ==
  /\ pc \in [Slots -> Steps]
  /\ held \in [Slots -> Held]
  /\ inFlight \in [{"exchange", "refresh"} -> Slots \cup {Absent}]
  /\ stored \in Held
  /\ \A s \in Slots :
       /\ pc[s] = "awaitExchange" => inFlight["exchange"] # Absent
       /\ pc[s] = "awaitRefresh"  => inFlight["refresh"] # Absent

Counted == notices \in 0..uninstalls /\ uninstalls \in 0..MaxUninstalls /\ faults \in 0..MaxFaults

Flagged == installed \in BOOLEAN /\ troubled \in BOOLEAN

\* Every step of a call keeps the shape.
LEMMA ShapedCall ==
  ASSUME TokenTypeOK, NEW s \in Slots, OpenApp(s) \/ Serve(s) \/ TokenStep(s)
  PROVE  Shaped'
<1> USE DEF TokenTypeOK, Shaped, Goto
<1>0. Shaped
  BY DEF Held
<1>1. CASE OpenApp(s) \/ Serve(s)
  BY <1>1 DEF OpenApp, Serve, Steps, Held
<1>2. CASE VerifyShopifySession(s)
  BY <1>2, AbsentAssumption DEF VerifyShopifySession, JoinOrStart, Steps, Held
<1>3. CASE ExchangeToken(s)
  <2>1. CASE Issue(s) /\ Goto(s, "upsert") /\ UNCHANGED inFlight
    <3>1. pc' \in [Slots -> Steps]
      BY <2>1 DEF Steps
    <3>2. held' \in [Slots -> Held] /\ stored' \in Held
      BY <1>0, <2>1, StillHeld DEF Issue
    <3>3. \A q \in Slots : /\ pc'[q] = "awaitExchange" => inFlight'["exchange"] # Absent
                           /\ pc'[q] = "awaitRefresh" => inFlight'["refresh"] # Absent
      BY <2>1
    <3> QED BY <1>0, <2>1, <3>1, <3>2, <3>3
  <2>2. CASE Settle("exchange", "awaitExchange", s, "idle", Absent) /\ stored' \in {stored, Superseded(stored)}
    <3>1. stored' \in Held
      BY <1>0, <2>2, StillHeld
    <3>2. Absent \in Held
      BY DEF Held
    <3> QED BY <2>2, <3>1, <3>2, SettleTyped
  <2> QED BY <1>3, <2>1, <2>2 DEF ExchangeToken
<1>4. CASE UpsertShop(s)
  <2>1. held[s] \in Held /\ Absent \in Held
    BY DEF Held
  <2>2. CASE stored' = held[s] /\ Settle("exchange", "awaitExchange", s, "get", held[s])
    BY <2>1, <2>2, SettleTyped
  <2>3. CASE UNCHANGED stored /\ Settle("exchange", "awaitExchange", s, "idle", Absent)
    BY <1>0, <2>1, <2>3, SettleTyped
  <2> QED BY <1>4, <2>2, <2>3 DEF UpsertShop
<1>5. CASE GetAccessToken(s)
  BY <1>5, AbsentAssumption DEF GetAccessToken, JoinOrStart, Return, Steps, Held
<1>6. CASE Refresh(s)
  <2>1. CASE Issue(s) /\ Goto(s, "persist") /\ UNCHANGED inFlight
    <3>1. pc' \in [Slots -> Steps]
      BY <2>1 DEF Steps
    <3>2. held' \in [Slots -> Held] /\ stored' \in Held
      BY <1>0, <2>1, StillHeld DEF Issue
    <3>3. \A q \in Slots : /\ pc'[q] = "awaitExchange" => inFlight'["exchange"] # Absent
                           /\ pc'[q] = "awaitRefresh" => inFlight'["refresh"] # Absent
      BY <2>1
    <3> QED BY <1>0, <2>1, <3>1, <3>2, <3>3
  <2>2. CASE Goto(s, "clear") /\ UNCHANGED <<held, inFlight>> /\ stored' \in {stored, Superseded(stored)}
    <3>1. stored' \in Held
      BY <1>0, <2>2, StillHeld
    <3>2. pc' \in [Slots -> Steps]
      BY <2>2 DEF Steps
    <3> QED BY <1>0, <2>2, <3>1, <3>2
  <2> QED BY <1>6, <2>1, <2>2 DEF Refresh
<1>7. CASE Persist(s)
  <2>1. held[s] \in Held /\ Absent \in Held
    BY DEF Held
  <2>2. CASE stored' = held[s] /\ Settle("refresh", "awaitRefresh", s, "idle", Absent)
    BY <2>1, <2>2, SettleTyped
  <2>3. CASE Goto(s, "clear") /\ UNCHANGED <<held, inFlight, stored>>
    BY <1>0, <2>3 DEF Steps
  <2> QED BY <1>7, <2>2, <2>3 DEF Persist
<1>8. CASE Clear(s)
  <2>1. Absent \in Held /\ stored' \in Held
    BY <1>8 DEF Held, Clear
  <2> QED BY <1>8, <2>1, SettleTyped DEF Clear
<1> QED BY <1>1, <1>2, <1>3, <1>4, <1>5, <1>6, <1>7, <1>8 DEF TokenStep

\* Calls, credentials, promises and counters keep their shape; whoever waits
\* for a promise waits for one that is under way.
THEOREM TokensTyped == TokenSpec => []TokenTypeOK
<1> USE BoundAssumption
<1>1. TokenInit => TokenTypeOK
  <2> SUFFICES ASSUME TokenInit PROVE TokenTypeOK
    OBVIOUS
  <2>1. installed \in BOOLEAN /\ troubled \in BOOLEAN
    BY Zenon DEF TokenInit
  <2> QED BY <2>1 DEF TokenInit, TokenTypeOK, Steps
<1>2. TokenTypeOK /\ [TokenNext]_tokenVars => TokenTypeOK'
  <2> SUFFICES ASSUME TokenTypeOK, [TokenNext]_tokenVars PROVE TokenTypeOK'
    OBVIOUS
  <2>0. Shaped /\ Counted /\ Flagged
    BY Zenon DEF TokenTypeOK, Shaped, Counted, Flagged, Held
  <2> SUFFICES Shaped' /\ Counted' /\ Flagged'
    <3>1. Shaped' /\ Counted' /\ Flagged' => TokenTypeOK'
      BY Zenon DEF TokenTypeOK, Shaped, Counted, Flagged, Held
    <3> QED BY <3>1
  <2>1. ASSUME NEW s \in Slots, OpenApp(s) \/ Serve(s) \/ TokenStep(s)
        PROVE  Shaped' /\ Counted' /\ Flagged'
    <3>1. UNCHANGED <<installed, notices, uninstalls>>
      BY <2>1 DEF OpenApp, Serve, TokenStep, VerifyShopifySession, ExchangeToken, UpsertShop,
                  GetAccessToken, Refresh, Persist, Clear
    <3>2. troubled' = troubled \/ troubled' = TRUE
      BY <2>1, Zenon DEF OpenApp, Serve, TokenStep, VerifyShopifySession, ExchangeToken, UpsertShop,
                  GetAccessToken, Refresh, Persist, Clear
    <3>3. faults' = faults \/ Fault
      BY <2>1, Zenon DEF OpenApp, Serve, TokenStep, VerifyShopifySession, ExchangeToken, UpsertShop,
                  GetAccessToken, Refresh, Persist, Clear, NoFault
    <3>4. Counted'
      BY <2>0, <3>1, <3>3 DEF Counted, Fault
    <3>5. Flagged'
      BY <2>0, <3>1, <3>2, Zenon DEF Flagged
    <3> QED BY <2>1, <3>4, <3>5, ShapedCall
  <2>2. CASE ClearOnUninstall
    <3>1. Shaped'
      BY <2>0, <2>2 DEF ClearOnUninstall, Shaped, Held
    <3>2. Counted'
      BY <2>0, <2>2 DEF ClearOnUninstall, Counted
    <3> QED BY <2>0, <2>2, <3>1, <3>2 DEF ClearOnUninstall, Flagged
  <2>3. CASE Uninstall
    <3>1. Shaped'
      BY <2>0, <2>3, StillHeld DEF Uninstall, Shaped
    <3>2. Counted'
      BY <2>0, <2>3 DEF Uninstall, Counted
    <3>3. Flagged'
      BY <2>3, Zenon DEF Uninstall, Flagged
    <3> QED BY <3>1, <3>2, <3>3
  <2>4. CASE Reinstall
    <3>1. Shaped' /\ Counted'
      BY <2>0, <2>4 DEF Reinstall, Shaped, Counted
    <3>2. Flagged'
      BY <2>0, <2>4, Zenon DEF Reinstall, Flagged
    <3> QED BY <3>1, <3>2
  <2>5. ASSUME NEW from \in Ages, NEW to \in Ages, Older(from, to)
        PROVE  Shaped' /\ Counted' /\ Flagged'
    <3>1. Shaped'
      BY <2>0, <2>5, StillHeld DEF Older, Shaped
    <3>2. Counted' /\ Flagged'
      BY <2>0, <2>5 DEF Older, Counted, Flagged
    <3> QED BY <3>1, <3>2
  <2>6. CASE HourPasses \/ RefreshTokenLapses
    BY <2>5, <2>6 DEF HourPasses, RefreshTokenLapses, Ages
  <2>7. CASE Crash
    <3>1. Shaped'
      BY <2>0, <2>7 DEF Crash, Shaped, Steps, Held
    <3>2. Counted'
      BY <2>0, <2>7 DEF Crash, Counted, Fault
    <3>3. Flagged'
      BY <2>0, <2>7, Zenon DEF Crash, Flagged
    <3> QED BY <3>1, <3>2, <3>3
  <2>8. CASE UNCHANGED tokenVars
    BY <2>0, <2>8 DEF tokenVars, Shaped, Counted, Flagged
  <2> QED BY <2>1, <2>2, <2>3, <2>4, <2>6, <2>7, <2>8, Zenon DEF TokenNext
<1> QED BY <1>1, <1>2, PTL DEF TokenSpec

\* Being superseded changes what Shopify thinks of a credential, not its age.
LEMMA SupersededAges ==
  ASSUME NEW c \in Held
  PROVE  /\ Fresh(Superseded(c)) <=> Fresh(c)
         /\ Expired(Superseded(c)) <=> Expired(c)
         /\ NeedsReauth(Superseded(c)) <=> NeedsReauth(c)
         /\ c # Absent => Superseded(c) # Absent /\ Superseded(c).age = c.age
BY AbsentAssumption DEF Held, Credential, Superseded, Fresh, Expired, NeedsReauth

\* What Shopify issues is fresh and the newest.
LEMMA NewIsFresh ==
  /\ NewCredential \in Held /\ NewCredential # Absent
  /\ Fresh(NewCredential) /\ NewCredential.standing = "newest"
BY AbsentAssumption DEF Held, Credential, Fresh, NewCredential

\* Needing a new consent and being refreshable exclude each other.
LEMMA AgesApart ==
  ASSUME NEW c \in Held
  PROVE  /\ Expired(c) => ~Fresh(c) /\ ~NeedsReauth(c)
         /\ NeedsReauth(c) => ~Fresh(c) /\ ~Expired(c)
BY DEF Held, Credential, Fresh, Expired, NeedsReauth

\* A call that reads the row holds what is stored.
LEMMA ReadKeeps ==
  ASSUME TokenTypeOK, KeptInv, NEW s \in Slots, OpenApp(s) \/ Serve(s)
  PROVE  KeptInv'
<1> USE DEF TokenTypeOK, Goto
<1>1. /\ pc[s] = "idle" /\ held' = [held EXCEPT ![s] = stored]
      /\ pc' = [pc EXCEPT ![s] = "auth"] \/ pc' = [pc EXCEPT ![s] = "get"]
      /\ UNCHANGED <<inFlight, stored, uninstalls>>
  BY DEF OpenApp, Serve
<1>2. OwnerInv'
  BY <1>1 DEF KeptInv, OwnerInv, Issuing
<1>3. \A q \in Slots : /\ q # s => pc'[q] = pc[q] /\ held'[q] = held[q]
                       /\ q # s => (Reading(q)' <=> Reading(q)) /\ (Issuing(q)' <=> Issuing(q))
  BY <1>1 DEF Reading, Issuing
<1>4. pc'[s] \in {"auth", "get"} /\ held'[s] = stored /\ ~Issuing(s) /\ ~Issuing(s)'
  BY <1>1 DEF Issuing
<1>5. ReadInv'
  BY <1>1, <1>3, <1>4 DEF KeptInv, ReadInv, Fresh
<1>6. IssuedInv'
  BY <1>1, <1>3, <1>4 DEF KeptInv, IssuedInv, Fresh, Expired, NeedsReauth
<1>7. FiledInv'
  BY <1>1, <1>3, <1>4 DEF KeptInv, FiledInv
<1> QED BY <1>1, <1>2, <1>5, <1>6, <1>7 DEF KeptInv

\* Steps that touch no credential: s goes on with what it holds, or joins or
\* starts a promise, or ends.
LEMMA MoveKeeps ==
  ASSUME TokenTypeOK, KeptInv, NEW s \in Slots, VerifyShopifySession(s) \/ GetAccessToken(s)
  PROVE  KeptInv'
<1> USE DEF TokenTypeOK, Goto
<1>1. /\ pc[s] \in {"auth", "get"} /\ UNCHANGED <<stored, uninstalls>>
      /\ \A q \in Slots : q # s => pc'[q] = pc[q] /\ held'[q] = held[q]
      /\ pc'[s] \in {"idle", "get", "awaitExchange", "awaitRefresh", "exchange", "refresh"}
      /\ pc'[s] # "idle" => held'[s] = held[s]
  BY DEF VerifyShopifySession, GetAccessToken, JoinOrStart, Return
<1>2. /\ pc'[s] = "exchange" => NeedsReauth(held[s]) /\ inFlight["exchange"] = Absent /\ inFlight' = [inFlight EXCEPT !["exchange"] = s]
      /\ pc'[s] = "refresh" => /\ held[s] # Absent /\ held[s].age \in {"expired", "lapsed"}
                               /\ inFlight["refresh"] = Absent /\ inFlight' = [inFlight EXCEPT !["refresh"] = s]
      /\ pc'[s] \notin {"exchange", "refresh"} => inFlight' = inFlight
  <2>1. CASE VerifyShopifySession(s)
    BY <2>1 DEF VerifyShopifySession, JoinOrStart
  <2>2. CASE GetAccessToken(s)
    <3>1. held[s] # Absent => held[s].age \in {"fresh", "expired", "lapsed", "legacy"}
      BY DEF Credential
    <3> QED BY <2>2, <3>1 DEF GetAccessToken, JoinOrStart, Return
  <2> QED BY <2>1, <2>2
<1>3. OwnerInv'
  BY <1>1, <1>2, AbsentAssumption DEF KeptInv, OwnerInv, Issuing, NeedsReauth
<1>4. \A q \in Slots : /\ Issuing(q)' <=> Issuing(q)
                       /\ Reading(q)' => Reading(q) /\ held'[q] = held[q]
  BY <1>1 DEF Issuing, Reading
<1>5. ReadInv'
  BY <1>1, <1>4 DEF KeptInv, ReadInv, Fresh
<1>6. \A q \in Slots : (pc'[q] = "upsert" => pc[q] = "upsert") /\ (pc'[q] = "persist" => pc[q] = "persist")
  BY <1>1
<1>7. IssuedInv'
  BY <1>1, <1>4, <1>6 DEF KeptInv, IssuedInv, Fresh, Expired, NeedsReauth
<1>8. FiledInv'
  BY <1>1, <1>4 DEF KeptInv, FiledInv
<1> QED BY <1>1, <1>3, <1>5, <1>7, <1>8 DEF KeptInv

\* A new credential: an exchange is for calls with nothing to refresh, a
\* refresh for calls with nothing to exchange, so that no other is on its way.
LEMMA IssueKeeps ==
  ASSUME TokenTypeOK, KeptInv, NEW s \in Slots, UNCHANGED <<inFlight, uninstalls>>, Issue(s),
         \/ pc[s] = "exchange" /\ pc' = [pc EXCEPT ![s] = "upsert"]
         \/ pc[s] = "refresh" /\ Expired(held[s]) /\ pc' = [pc EXCEPT ![s] = "persist"]
  PROVE  KeptInv'
<1> USE DEF TokenTypeOK
<1>0. stored \in Held /\ \A q \in Slots : held[q] \in Held
  BY DEF Held
<1>1. /\ held'[s] = NewCredential /\ stored' = Superseded(stored)
      /\ \A q \in Slots : q # s => pc'[q] = pc[q] /\ held'[q] = Superseded(held[q])
      /\ pc'[s] \in {"upsert", "persist"} /\ Reading(s) /\ ~Fresh(held[s])
  <2>1. ~Fresh(held[s])
    BY <1>0, AgesApart DEF KeptInv, OwnerInv
  <2> QED BY <2>1 DEF Issue, Reading, Issuing
<1>2. \A q \in Slots : ~Issuing(q)
  <2> SUFFICES ASSUME NEW q \in Slots, Issuing(q) PROVE FALSE
    OBVIOUS
  <2>1. CASE pc[s] = "exchange"
    <3>1. pc[q] = "persist" /\ NeedsReauth(held[s])
      BY <2>1 DEF KeptInv, OwnerInv, Issuing
    <3>2. Fresh(held[s]) \/ Expired(held[s])
      BY <1>1, <3>1 DEF KeptInv, IssuedInv
    <3> QED BY <1>0, <3>1, <3>2, AgesApart
  <2>2. CASE pc[s] = "refresh" /\ Expired(held[s])
    <3>1. pc[q] = "upsert"
      BY <2>2 DEF KeptInv, OwnerInv, Issuing
    <3>2. Fresh(held[s]) \/ NeedsReauth(held[s])
      BY <1>1, <3>1 DEF KeptInv, IssuedInv
    <3> QED BY <1>0, <2>2, <3>2, AgesApart
  <2> QED BY <2>1, <2>2
<1>3. \A q \in Slots : /\ Reading(q)' => q # s /\ Reading(q)
                       /\ q # s => ~Issuing(q)'
                       /\ q # s => (Fresh(held'[q]) <=> Fresh(held[q]))
  BY <1>0, <1>1, <1>2, SupersededAges DEF Reading, Issuing
<1>4. Fresh(stored') <=> Fresh(stored)
  BY <1>0, <1>1, SupersededAges
<1>5. OwnerInv'
  <2> SUFFICES ASSUME NEW q \in Slots
               PROVE  /\ pc'[q] \in {"exchange", "upsert"} => inFlight'["exchange"] = q
                      /\ pc'[q] \in {"refresh", "persist"} => inFlight'["refresh"] = q
                      /\ pc'[q] = "exchange" => NeedsReauth(held'[q])
                      /\ pc'[q] = "refresh"  => held'[q] # Absent /\ held'[q].age \in {"expired", "lapsed"}
                      /\ Issuing(q)' => held'[q] = NewCredential
                      /\ pc'[q] # "clear"
    BY DEF OwnerInv, NeedsReauth, Issuing
  <2>1. CASE q = s
    BY <1>1, <2>1 DEF KeptInv, OwnerInv
  <2>2. CASE q # s
    BY <1>0, <1>1, <1>3, <2>2, SupersededAges DEF KeptInv, OwnerInv
  <2> QED BY <2>1, <2>2
<1>6. ReadInv'
  <2>1. \A q \in Slots : Reading(q)' => (Fresh(stored') \/ held'[q] = stored')
    BY <1>1, <1>3, <1>4 DEF KeptInv, ReadInv
  <2>2. \A q, r \in Slots :
          (Reading(q)' /\ Reading(r)' /\ ~Fresh(held'[q]) /\ ~Fresh(held'[r])) => held'[q] = held'[r]
    BY <1>1, <1>3 DEF KeptInv, ReadInv
  <2> QED BY <2>1, <2>2 DEF ReadInv, Fresh
<1>7. IssuedInv'
  <2>1. Fresh(stored) \/ stored = held[s]
    BY <1>1 DEF KeptInv, ReadInv
  <2>2. \A q \in Slots : Reading(q) => (Fresh(held[q]) \/ held[q] = held[s])
    BY <1>1 DEF KeptInv, ReadInv
  <2>3. CASE pc[s] = "exchange" /\ pc' = [pc EXCEPT ![s] = "upsert"]
    <3>1. NeedsReauth(held[s])
      BY <2>3 DEF KeptInv, OwnerInv
    <3>2. \A t \in Slots : pc'[t] # "persist"
      BY <1>2, <2>3 DEF Issuing
    <3>3. Fresh(stored') \/ NeedsReauth(stored')
      BY <1>0, <1>1, <2>1, <3>1, SupersededAges
    <3>4. \A q \in Slots : Reading(q)' => (Fresh(held'[q]) \/ NeedsReauth(held'[q]))
      BY <1>0, <1>1, <1>3, <2>2, <3>1, SupersededAges
    <3> QED BY <3>2, <3>3, <3>4 DEF IssuedInv, Fresh, NeedsReauth
  <2>4. CASE Expired(held[s]) /\ pc[s] = "refresh" /\ pc' = [pc EXCEPT ![s] = "persist"]
    <3>2. \A t \in Slots : pc'[t] # "upsert"
      BY <1>2, <2>4 DEF Issuing
    <3>3. Fresh(stored') \/ Expired(stored')
      BY <1>0, <1>1, <2>1, <2>4, SupersededAges
    <3>4. \A q \in Slots : Reading(q)' => (Fresh(held'[q]) \/ Expired(held'[q]))
      BY <1>0, <1>1, <1>3, <2>2, <2>4, SupersededAges
    <3> QED BY <3>2, <3>3, <3>4 DEF IssuedInv, Fresh, Expired
  <2> QED BY <2>3, <2>4
<1>8. FiledInv'
  BY <1>1 DEF FiledInv, Issuing
<1> QED BY <1>5, <1>6, <1>7, <1>8 DEF KeptInv

\* What was issued is filed, and those who waited for it go on with it, or end.
LEMMA FileKeeps ==
  ASSUME TokenTypeOK, KeptInv, NEW s \in Slots, uninstalls' = uninstalls, stored' = held[s],
         \/ /\ pc[s] = "upsert"
            /\ Settle("exchange", "awaitExchange", s, "get", held[s])
         \/ /\ pc[s] = "persist"
            /\ Settle("refresh", "awaitRefresh", s, "idle", Absent)
  PROVE  KeptInv'
<1> USE DEF TokenTypeOK
<1>1. held[s] = NewCredential /\ Fresh(held[s]) /\ Fresh(stored') /\ stored'.standing = "newest"
  BY NewIsFresh DEF KeptInv, OwnerInv, Issuing
<1>2. \A q \in Slots :
        \/ /\ pc'[q] = pc[q] /\ held'[q] = held[q] /\ q # s
           /\ pc[q] # (IF pc[s] = "upsert" THEN "awaitExchange" ELSE "awaitRefresh")
        \/ pc'[q] = "get" /\ held'[q] = held[s]
        \/ pc'[q] = "idle" /\ held'[q] = Absent
  BY DEF Settle
<1>3. OwnerInv'
  <2>1. ASSUME NEW q \in Slots, pc'[q] = pc[q], held'[q] = held[q], q # s
        PROVE  /\ pc[q] \in {"exchange", "upsert"} => inFlight'["exchange"] = q
               /\ pc[q] \in {"refresh", "persist"} => inFlight'["refresh"] = q
    BY <2>1 DEF KeptInv, OwnerInv, Settle
  <2> QED BY <1>2, <2>1 DEF KeptInv, OwnerInv, Issuing, NeedsReauth
<1>4. \A q \in Slots : Reading(q)' => \/ Reading(q) /\ held'[q] = held[q]
                                      \/ held'[q] = held[s]
  BY <1>2 DEF Reading, Issuing
<1>5. ReadInv'
  <2>1. \A q, r \in Slots :
          (Reading(q)' /\ Reading(r)' /\ ~Fresh(held'[q]) /\ ~Fresh(held'[r])) => held'[q] = held'[r]
    BY <1>1, <1>4 DEF KeptInv, ReadInv
  <2> QED BY <1>1, <2>1 DEF ReadInv, Fresh
<1>6. IssuedInv'
  <2>1. \A q \in Slots : (pc'[q] = "upsert" => pc[q] = "upsert") /\ (pc'[q] = "persist" => pc[q] = "persist")
    BY <1>2
  <2>2. ASSUME NEW q \in Slots, pc'[q] = "upsert", NEW r \in Slots, Reading(r)'
        PROVE  Fresh(held'[r]) \/ NeedsReauth(held'[r])
    BY <1>1, <1>4, <2>1, <2>2 DEF KeptInv, IssuedInv
  <2>3. ASSUME NEW q \in Slots, pc'[q] = "persist", NEW r \in Slots, Reading(r)'
        PROVE  Fresh(held'[r]) \/ Expired(held'[r])
    BY <1>1, <1>4, <2>1, <2>3 DEF KeptInv, IssuedInv
  <2> QED BY <1>1, <2>2, <2>3 DEF IssuedInv, Fresh, Expired, NeedsReauth
<1>7. FiledInv'
  BY <1>1 DEF FiledInv
<1> QED BY <1>3, <1>5, <1>6, <1>7 DEF KeptInv

\* An exchange that Shopify refuses ends, with those who waited for it.
LEMMA RefusedKeeps ==
  ASSUME TokenTypeOK, KeptInv, NEW s \in Slots, UNCHANGED <<stored, uninstalls>>, pc[s] = "exchange",
         Settle("exchange", "awaitExchange", s, "idle", Absent)
  PROVE  KeptInv'
<1> USE DEF TokenTypeOK
<1>2. \A q \in Slots :
        \/ pc'[q] = pc[q] /\ held'[q] = held[q] /\ q # s
        \/ pc'[q] = "idle" /\ ~Issuing(q)
  BY DEF Settle, Issuing
<1>3. OwnerInv'
  <2>1. ASSUME NEW q \in Slots, pc'[q] = pc[q], held'[q] = held[q], q # s
        PROVE  /\ pc[q] \in {"exchange", "upsert"} => inFlight'["exchange"] = q
               /\ pc[q] \in {"refresh", "persist"} => inFlight'["refresh"] = q
    BY <2>1 DEF KeptInv, OwnerInv, Settle
  <2> QED BY <1>2, <2>1 DEF KeptInv, OwnerInv, Issuing, NeedsReauth
<1>4. \A q \in Slots : /\ Reading(q)' => Reading(q) /\ held'[q] = held[q]
                       /\ Issuing(q)' <=> Issuing(q)
  BY <1>2 DEF Reading, Issuing
<1>5. ReadInv'
  BY <1>4 DEF KeptInv, ReadInv, Fresh
<1>6. IssuedInv'
  <2>1. \A q \in Slots : (pc'[q] = "upsert" => pc[q] = "upsert") /\ (pc'[q] = "persist" => pc[q] = "persist")
    BY <1>2
  <2> QED BY <1>4, <2>1 DEF KeptInv, IssuedInv, Fresh, Expired, NeedsReauth
<1>7. FiledInv'
  BY <1>4 DEF KeptInv, FiledInv
<1> QED BY <1>3, <1>5, <1>6, <1>7 DEF KeptInv

\* Time passes when all calls hold what is stored.
LEMMA OlderKeeps ==
  ASSUME TokenTypeOK, KeptInv, NEW from \in Ages, NEW to \in Ages, Older(from, to)
  PROVE  KeptInv'
<1> USE DEF TokenTypeOK
<1>1. /\ \A s \in Slots : pc[s] = "idle" \/ held[s] = stored
      /\ stored' = Aged(stored, from, to) /\ \A s \in Slots : held'[s] = Aged(held[s], from, to)
      /\ UNCHANGED <<pc, inFlight, uninstalls>>
      /\ inFlight["exchange"] = Absent /\ inFlight["refresh"] = Absent
  BY DEF Older
<1>2. \A s \in Slots : pc[s] \notin {"exchange", "upsert", "refresh", "persist", "clear"}
  BY <1>1, AbsentAssumption DEF KeptInv, OwnerInv
<1>3. \A s \in Slots : ~Issuing(s)' /\ ~Issuing(s) /\ (Reading(s)' => held'[s] = stored')
  BY <1>1, <1>2 DEF Issuing, Reading
<1>4. OwnerInv' /\ IssuedInv'
  BY <1>1, <1>2, <1>3 DEF OwnerInv, IssuedInv
<1>5. ReadInv'
  BY <1>3 DEF ReadInv
<1>6. FiledInv'
  <2>1. stored = Absent \/ stored.standing = "newest"
    BY <1>3 DEF KeptInv, FiledInv
  <2>2. stored' = Absent \/ stored'.standing = "newest"
    BY <1>1, <2>1, AbsentAssumption DEF Aged, Credential
  <2> QED BY <2>2 DEF FiledInv
<1> QED BY <1>1, <1>4, <1>5, <1>6 DEF KeptInv

\* Two calls never refresh at once, nor a refresh and an exchange: as long as
\* nothing failed or was revoked, the newest credential is the one on file
\* whenever none is being fetched, in any order of any number of calls.
THEOREM NewestIsOnFile == TokenSpec => []NewestOnFile
<1>1. TokenInit => CalmInv
  <2> SUFFICES ASSUME TokenInit PROVE KeptInv
    BY DEF CalmInv
  <2>1. \A s \in Slots : ~Issuing(s) /\ ~Reading(s) /\ pc[s] = "idle"
    BY DEF TokenInit, Issuing, Reading
  <2>2. uninstalls = 0 /\ (stored = Absent \/ stored.standing = "newest")
    BY DEF TokenInit
  <2> QED BY <2>1, <2>2 DEF KeptInv, OwnerInv, ReadInv, IssuedInv, FiledInv
<1>2. TokenTypeOK /\ CalmInv /\ [TokenNext]_tokenVars => CalmInv'
  <2> SUFFICES ASSUME TokenTypeOK, CalmInv, [TokenNext]_tokenVars, ~troubled' PROVE KeptInv'
    BY DEF CalmInv
  <2>0. ~troubled => KeptInv
    BY DEF CalmInv
  <2>1. ASSUME NEW s \in Slots, OpenApp(s) \/ Serve(s) PROVE KeptInv'
    <3>1. ~troubled
      BY <2>1 DEF OpenApp, Serve
    <3> QED BY <2>0, <2>1, <3>1, ReadKeeps
  <2>2. ASSUME NEW s \in Slots, VerifyShopifySession(s) \/ GetAccessToken(s) PROVE KeptInv'
    <3>1. ~troubled
      BY <2>2 DEF VerifyShopifySession, GetAccessToken
    <3> QED BY <2>0, <2>2, <3>1, MoveKeeps
  <2>3. ASSUME NEW s \in Slots, ExchangeToken(s) PROVE KeptInv'
    <3>1. ~troubled /\ KeptInv
      <4>1. troubled' = troubled \/ troubled' = TRUE
        BY <2>3 DEF ExchangeToken
      <4>2. troubled = TRUE \/ troubled = FALSE
        BY DEF TokenTypeOK
      <4> QED BY <2>0, <4>1, <4>2
    <3>2. pc[s] = "exchange" /\ uninstalls' = uninstalls
      BY <2>3 DEF ExchangeToken
    <3>3. \/ Issue(s) /\ Goto(s, "upsert") /\ UNCHANGED inFlight
          \/ Settle("exchange", "awaitExchange", s, "idle", Absent) /\ UNCHANGED stored
      BY <2>3, Zenon DEF ExchangeToken
    <3> QED BY <3>1, <3>2, <3>3, IssueKeeps, RefusedKeeps DEF Goto
  <2>4. ASSUME NEW s \in Slots, UpsertShop(s) PROVE KeptInv'
    <3>1. ~troubled /\ KeptInv
      <4>1. troubled' = troubled \/ troubled' = TRUE
        BY <2>4 DEF UpsertShop
      <4>2. troubled = TRUE \/ troubled = FALSE
        BY DEF TokenTypeOK
      <4> QED BY <2>0, <4>1, <4>2
    <3>2. pc[s] = "upsert" /\ uninstalls' = uninstalls
      BY <2>4 DEF UpsertShop
    <3>3. stored' = held[s] /\ Settle("exchange", "awaitExchange", s, "get", held[s])
      BY <2>4, Zenon DEF UpsertShop
    <3> QED BY <3>1, <3>2, <3>3, FileKeeps
  <2>5. ASSUME NEW s \in Slots, Refresh(s) PROVE KeptInv'
    <3>1. ~troubled /\ KeptInv
      <4>1. troubled' = troubled \/ troubled' = TRUE
        BY <2>5 DEF Refresh
      <4>2. troubled = TRUE \/ troubled = FALSE
        BY DEF TokenTypeOK
      <4> QED BY <2>0, <4>1, <4>2
    <3>2. pc[s] = "refresh" /\ UNCHANGED <<inFlight, uninstalls>>
      BY <2>5 DEF Refresh
    <3>3. held[s].age # "lapsed" /\ Issue(s) /\ Goto(s, "persist")
      BY <2>5, Zenon DEF Refresh
    <3>4. Expired(held[s])
      BY <3>1, <3>2, <3>3 DEF KeptInv, OwnerInv, Expired
    <3> QED BY <3>1, <3>2, <3>3, <3>4, IssueKeeps DEF Goto
  <2>6. ASSUME NEW s \in Slots, Persist(s) PROVE KeptInv'
    <3>1. ~troubled /\ KeptInv
      <4>1. troubled' = troubled \/ troubled' = TRUE
        BY <2>6 DEF Persist
      <4>2. troubled = TRUE \/ troubled = FALSE
        BY DEF TokenTypeOK
      <4> QED BY <2>0, <4>1, <4>2
    <3>2. pc[s] = "persist" /\ uninstalls' = uninstalls
      BY <2>6 DEF Persist
    <3>3. stored' = held[s] /\ Settle("refresh", "awaitRefresh", s, "idle", Absent)
      BY <2>6, Zenon DEF Persist
    <3> QED BY <3>1, <3>2, <3>3, FileKeeps
  <2>7. ASSUME NEW s \in Slots, Clear(s) PROVE KeptInv'
    <3>1. ~troubled /\ pc[s] = "clear"
      BY <2>7 DEF Clear
    <3> QED BY <2>0, <3>1 DEF KeptInv, OwnerInv
  <2>8. CASE ClearOnUninstall
    <3>1. ~troubled /\ notices > 0
      BY <2>8 DEF ClearOnUninstall
    <3> QED BY <2>0, <3>1 DEF KeptInv, TokenTypeOK
  <2>9. CASE Uninstall \/ Crash
    BY <2>9, Zenon DEF Uninstall, Crash
  <2>10. CASE HourPasses \/ RefreshTokenLapses
    <3>1. ~troubled
      BY <2>10 DEF HourPasses, RefreshTokenLapses, Older
    <3> QED BY <2>0, <2>10, <3>1, OlderKeeps DEF HourPasses, RefreshTokenLapses, Ages
  <2>11. CASE Reinstall \/ UNCHANGED tokenVars
    <3>1. UNCHANGED <<pc, held, inFlight, stored, uninstalls, troubled>>
      BY <2>11 DEF Reinstall, tokenVars
    <3> QED BY <2>0, <3>1
        DEF KeptInv, OwnerInv, ReadInv, IssuedInv, FiledInv, Issuing, Reading, Fresh, Expired, NeedsReauth
  <2> QED
    BY <2>1, <2>2, <2>3, <2>4, <2>5, <2>6, <2>7, <2>8, <2>9, <2>10, <2>11, Zenon
    DEF TokenNext, TokenStep
<1>3. TokenTypeOK /\ CalmInv => NewestOnFile
  <2> SUFFICES ASSUME TokenTypeOK, CalmInv, ~troubled, \A kind \in DOMAIN inFlight : inFlight[kind] = Absent
               PROVE  stored = Absent \/ stored.standing = "newest"
    BY DEF NewestOnFile
  <2>1. KeptInv /\ inFlight["exchange"] = Absent /\ inFlight["refresh"] = Absent
    BY DEF CalmInv, TokenTypeOK
  <2>2. \A s \in Slots : ~Issuing(s)
    BY <2>1, AbsentAssumption DEF KeptInv, OwnerInv, Issuing
  <2> QED BY <2>1, <2>2 DEF KeptInv, FiledInv
<1> QED BY <1>1, <1>2, <1>3, TokensTyped, PTL DEF TokenSpec

=============================================================================
