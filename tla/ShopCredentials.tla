---------------------------- MODULE ShopCredentials ----------------------------
(***************************************************************************)
(* Shop.shopifyToken of ONE shop: ShopToken.getAccessToken refreshes it,   *)
(* installShopFromTokenExchange replaces it behind the auth middleware,    *)
(* and the uninstall webhook clears it.                                    *)
(*                                                                         *)
(* Slots are calls served by one server process, as the app is deployed:   *)
(* dashboard requests, customer requests and jobs, each of which reads the *)
(* shop row and uses it some awaits later.  A refresh and an exchange each *)
(* run as one promise, kept in inFlight; later callers wait for it.        *)
(*                                                                         *)
(* A credential is abstracted to how Shopify stands to it: the newest it   *)
(* has issued, superseded by a newer one, or revoked by an uninstall.      *)
(***************************************************************************)
EXTENDS Naturals

CONSTANTS
  Slots,
  Absent,          \* no credential, nobody
  MaxUninstalls,   \* bound: uninstalls in a behaviour
  MaxFaults        \* bound: crashes, failed calls and failed writes

VARIABLES
  pc,          \* where each slot is
  held,        \* the credential each slot has in hand: read, or just issued
  inFlight,    \* whose refresh, and whose exchange, is under way
  stored,      \* Shop.shopifyToken
  installed,   \* is the app installed, as Shopify sees it?
  notices,     \* app/uninstalled webhooks not handled yet
  uninstalls,
  troubled,    \* has a credential been revoked, or a refresh failed?
  faults

tokenVars == <<pc, held, inFlight, stored, installed, notices, uninstalls, troubled, faults>>

\* "legacy" tokens do not expire and cannot be refreshed; "expired" is within
\* five minutes of the hour or past it, "lapsed" past its ninety days.
Credential == [standing : {"newest", "superseded", "revoked"},
               age : {"fresh", "expired", "lapsed", "legacy"}]

ASSUME AbsentAssumption  == Absent \notin Slots \cup Credential
ASSUME BoundAssumption == {MaxUninstalls, MaxFaults} \subseteq Nat

Steps == {"idle", "auth", "get", "exchange", "upsert", "awaitExchange",
          "refresh", "persist", "clear", "awaitRefresh"}

TokenInit ==
  /\ pc = [s \in Slots |-> "idle"]
  /\ held = [s \in Slots |-> Absent]
  /\ inFlight = [kind \in {"exchange", "refresh"} |-> Absent]
  /\ stored \in {Absent} \cup {c \in Credential : c.standing = "newest"}
  /\ installed = TRUE
  /\ notices = 0 /\ uninstalls = 0 /\ troubled = FALSE /\ faults = 0

Fault   == faults < MaxFaults /\ faults' = faults + 1
NoFault == UNCHANGED faults

Goto(s, step) == pc' = [pc EXCEPT ![s] = step]
Return(s)     == Goto(s, "idle") /\ held' = [held EXCEPT ![s] = Absent]

\* The promise of s is settled: s and those who wait for it go on to a step
\* with the credential c.
Settle(kind, waiting, s, step, c) ==
  LET there == {s} \cup {q \in Slots : pc[q] = waiting} IN
  /\ pc'   = [q \in Slots |-> IF q \in there THEN step ELSE pc[q]]
  /\ held' = [q \in Slots |-> IF q \in there THEN c ELSE held[q]]
  /\ inFlight' = [inFlight EXCEPT ![kind] = Absent]

-----------------------------------------------------------------------------
(* Shopify.                                                                *)

NewCredential == [standing |-> "newest", age |-> "fresh"]

Superseded(c) == IF c # Absent /\ c.standing = "newest" THEN [c EXCEPT !.standing = "superseded"] ELSE c
Revoked(c)    == IF c # Absent THEN [c EXCEPT !.standing = "revoked"] ELSE c
Aged(c, from, to) == IF c # Absent /\ c.age = from THEN [c EXCEPT !.age = to] ELSE c

\* A new credential for s supersedes the one before it.
Issue(s) ==
  /\ held' = [q \in Slots |-> IF q = s THEN NewCredential ELSE Superseded(held[q])]
  /\ stored' = Superseded(stored)

Uninstall ==
  /\ installed /\ uninstalls < MaxUninstalls
  /\ installed' = FALSE /\ uninstalls' = uninstalls + 1 /\ notices' = notices + 1
  /\ stored' = Revoked(stored) /\ held' = [s \in Slots |-> Revoked(held[s])]
  /\ troubled' = TRUE
  /\ UNCHANGED <<pc, inFlight, faults>>

Reinstall ==
  /\ ~installed /\ installed' = TRUE
  /\ UNCHANGED <<pc, held, inFlight, stored, notices, uninstalls, troubled, faults>>

\* Time passes; no refresh or exchange takes an hour, and no call goes on for
\* an hour after the credential it read was replaced.
Older(from, to) ==
  /\ \A kind \in DOMAIN inFlight : inFlight[kind] = Absent
  /\ \A s \in Slots : pc[s] = "idle" \/ held[s] = stored
  /\ \E c \in {stored} \cup {held[s] : s \in Slots} : c # Absent /\ c.age = from
  /\ stored' = Aged(stored, from, to) /\ held' = [s \in Slots |-> Aged(held[s], from, to)]
  /\ UNCHANGED <<pc, inFlight, installed, notices, uninstalls, troubled, faults>>

HourPasses == Older("fresh", "expired")

\* Ninety days without a refresh.
RefreshTokenLapses == Older("expired", "lapsed")

-----------------------------------------------------------------------------
(* The auth middleware and the token exchange.                             *)

\* A dashboard request that will call Shopify, with a signed session token.
OpenApp(s) ==
  /\ pc[s] = "idle" /\ installed
  /\ held' = [held EXCEPT ![s] = stored]
  /\ Goto(s, "auth")
  /\ UNCHANGED <<inFlight, stored, installed, notices, uninstalls, troubled, faults>>

\* A customer's request or a job.
Serve(s) ==
  /\ pc[s] = "idle"
  /\ held' = [held EXCEPT ![s] = stored]
  /\ Goto(s, "get")
  /\ UNCHANGED <<inFlight, stored, installed, notices, uninstalls, troubled, faults>>

NeedsReauth(c) == c = Absent \/ c.age = "lapsed"

\* Wait for the promise under way, or start one.
JoinOrStart(kind, s, waiting, step) ==
  IF inFlight[kind] # Absent
  THEN Goto(s, waiting) /\ UNCHANGED inFlight
  ELSE Goto(s, step) /\ inFlight' = [inFlight EXCEPT ![kind] = s]

VerifyShopifySession(s) ==
  /\ pc[s] = "auth"
  /\ IF NeedsReauth(held[s])
     THEN JoinOrStart("exchange", s, "awaitExchange", "exchange")
     ELSE Goto(s, "get") /\ UNCHANGED inFlight
  /\ UNCHANGED <<held, stored, installed, notices, uninstalls, troubled, faults>>

\* Shopify exchanges the session token of an installed app; the query for the
\* shop's data may still fail behind it.
ExchangeToken(s) ==
  /\ pc[s] = "exchange"
  /\ \/ installed /\ Issue(s) /\ Goto(s, "upsert") /\ UNCHANGED <<inFlight, troubled>> /\ NoFault
     \/ ~installed /\ Settle("exchange", "awaitExchange", s, "idle", Absent) /\ UNCHANGED <<stored, troubled>> /\ NoFault
     \/ Settle("exchange", "awaitExchange", s, "idle", Absent) /\ stored' \in {stored, Superseded(stored)} /\ troubled' = TRUE /\ Fault
  /\ UNCHANGED <<installed, notices, uninstalls>>

\* The row is written; everybody who waited goes on with it.
UpsertShop(s) ==
  /\ pc[s] = "upsert"
  /\ \/ stored' = held[s] /\ Settle("exchange", "awaitExchange", s, "get", held[s]) /\ UNCHANGED troubled /\ NoFault
     \/ UNCHANGED stored /\ Settle("exchange", "awaitExchange", s, "idle", Absent) /\ troubled' = TRUE /\ Fault
  /\ UNCHANGED <<installed, notices, uninstalls>>

-----------------------------------------------------------------------------
(* getAccessToken.                                                         *)

\* Mutant of GetAccessToken: every caller refreshes for itself.
GetAccessTokenAlone(s) ==
  /\ pc[s] = "get"
  /\ IF held[s] = Absent \/ held[s].age \in {"fresh", "legacy"}
     THEN Return(s) /\ UNCHANGED inFlight
     ELSE Goto(s, "refresh") /\ inFlight' = [inFlight EXCEPT !["refresh"] = s] /\ UNCHANGED held
  /\ UNCHANGED <<stored, installed, notices, uninstalls, troubled, faults>>

\* Without a credential the call throws; a fresh or legacy one is used as it
\* is, whatever Shopify thinks of it by now.
GetAccessToken(s) ==
  /\ pc[s] = "get"
  /\ IF held[s] = Absent \/ held[s].age \in {"fresh", "legacy"}
     THEN Return(s) /\ UNCHANGED inFlight
     ELSE JoinOrStart("refresh", s, "awaitRefresh", "refresh") /\ UNCHANGED held
  /\ UNCHANGED <<stored, installed, notices, uninstalls, troubled, faults>>

\* Shopify honours the newest refresh token, may still honour a superseded
\* one, and refuses one that has lapsed or was revoked; or the answer is lost.
Refresh(s) ==
  /\ pc[s] = "refresh"
  /\ \/ /\ held[s].standing \in {"newest", "superseded"} /\ held[s].age # "lapsed"
        /\ Issue(s) /\ Goto(s, "persist") /\ UNCHANGED troubled /\ NoFault
     \/ /\ held[s].standing # "newest" \/ held[s].age = "lapsed"
        /\ Goto(s, "clear") /\ UNCHANGED <<held, stored>> /\ troubled' = TRUE /\ NoFault
     \/ Goto(s, "clear") /\ UNCHANGED held /\ stored' \in {stored, Superseded(stored)} /\ troubled' = TRUE /\ Fault
  /\ UNCHANGED <<inFlight, installed, notices, uninstalls>>

\* The new pair is written, unconditionally.
Persist(s) ==
  /\ pc[s] = "persist"
  /\ \/ stored' = held[s] /\ Settle("refresh", "awaitRefresh", s, "idle", Absent) /\ UNCHANGED troubled /\ NoFault
     \/ Goto(s, "clear") /\ UNCHANGED <<held, inFlight, stored>> /\ troubled' = TRUE /\ Fault
  /\ UNCHANGED <<installed, notices, uninstalls>>

\* Mutant of Clear: those who wait are not told of the failure.
ClearAlone(s) ==
  /\ pc[s] = "clear"
  /\ stored' = Absent /\ NoFault
  /\ Return(s) /\ inFlight' = [inFlight EXCEPT !["refresh"] = Absent]
  /\ UNCHANGED <<installed, notices, uninstalls, troubled>>

\* Any failure clears what is stored, whatever that is by now, so that the
\* next dashboard request exchanges; a failed write is swallowed.
Clear(s) ==
  /\ pc[s] = "clear"
  /\ \/ stored' = Absent /\ NoFault
     \/ UNCHANGED stored /\ Fault
  /\ Settle("refresh", "awaitRefresh", s, "idle", Absent)
  /\ UNCHANGED <<installed, notices, uninstalls, troubled>>

-----------------------------------------------------------------------------
\* Mutant of ClearOnUninstall: the settings keep a mark, the token stays.
HandleMarkOnly ==
  /\ notices > 0 /\ notices' = notices - 1
  /\ UNCHANGED <<pc, held, inFlight, stored, installed, uninstalls, troubled, faults>>

\* The webhook clears the token, of an app that may be installed again.
ClearOnUninstall ==
  /\ notices > 0 /\ notices' = notices - 1
  /\ stored' = Absent
  /\ UNCHANGED <<pc, held, inFlight, installed, uninstalls, troubled, faults>>

\* The process dies with everything it had under way.
Crash ==
  /\ \E s \in Slots : pc[s] # "idle"
  /\ pc' = [s \in Slots |-> "idle"] /\ held' = [s \in Slots |-> Absent]
  /\ inFlight' = [kind \in DOMAIN inFlight |-> Absent]
  /\ troubled' = TRUE
  /\ Fault
  /\ UNCHANGED <<stored, installed, notices, uninstalls>>

TokenStep(s) ==
  \/ VerifyShopifySession(s) \/ ExchangeToken(s) \/ UpsertShop(s)
  \/ GetAccessToken(s) \/ Refresh(s) \/ Persist(s) \/ Clear(s)

TokenNext ==
  \/ \E s \in Slots : OpenApp(s) \/ Serve(s) \/ TokenStep(s)
  \/ ClearOnUninstall \/ Uninstall \/ Reinstall
  \/ HourPasses \/ RefreshTokenLapses \/ Crash

TokenSpec == TokenInit /\ [][TokenNext]_tokenVars

\* Code that runs goes on running, webhooks are delivered until handled, time
\* passes, and the merchant opens a page that calls Shopify now and then.
FairTokenSpec ==
  /\ TokenSpec
  /\ \A s \in Slots : WF_tokenVars(TokenStep(s)) /\ SF_tokenVars(OpenApp(s))
  /\ WF_tokenVars(ClearOnUninstall) /\ SF_tokenVars(HourPasses)

-----------------------------------------------------------------------------
(* Properties.                                                             *)

\* Slots, credentials, promises and counters keep their shape; whoever waits
\* for a promise waits for one that is under way.
TokenTypeOK ==
  /\ pc \in [Slots -> Steps]
  /\ held \in [Slots -> Credential \cup {Absent}]
  /\ inFlight \in [{"exchange", "refresh"} -> Slots \cup {Absent}]
  /\ stored \in Credential \cup {Absent}
  /\ installed \in BOOLEAN /\ troubled \in BOOLEAN
  /\ notices \in 0..uninstalls /\ uninstalls \in 0..MaxUninstalls /\ faults \in 0..MaxFaults
  /\ \A s \in Slots :
       /\ pc[s] = "awaitExchange" => inFlight["exchange"] # Absent
       /\ pc[s] = "awaitRefresh"  => inFlight["refresh"] # Absent

\* A credential that works, or that a refresh will make work.
Usable(c) ==
  /\ c # Absent
  /\ \/ c.age = "legacy" /\ c.standing # "revoked"
     \/ c.age \in {"fresh", "expired"} /\ c.standing = "newest"

\* "One refresh per shop at a time": as long as nothing has failed or been
\* revoked, whenever no refresh or exchange is under way the credential on
\* file is the newest one Shopify has issued.
NewestOnFile ==
  (~troubled /\ \A kind \in DOMAIN inFlight : inFlight[kind] = Absent)
    => stored = Absent \/ stored.standing = "newest"

\* "Self-heal": whatever was lost, revoked or cleared, an installed shop whose
\* merchant opens the dashboard has a usable credential again and again.
Heals == []<>(~installed \/ Usable(stored))

=============================================================================
