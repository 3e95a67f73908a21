---------------------------- MODULE PortalJourney ----------------------------
(***************************************************************************)
(* A customer's return, from the order lookup to the confirmation: the     *)
(* portal's pages (web/portal) against the portal API (routes/api/portal). *)
(*                                                                         *)
(* App keeps the journey in memory and each page edits a copy of its part, *)
(* which Continue commits and Back drops: a visit to a page is therefore   *)
(* one action.  The journey outlives the order it was begun with: another  *)
(* lookup replaces the order and leaves the items, the answers and the     *)
(* resolution that were chosen before it.                                  *)
(*                                                                         *)
(* An item of the journey is the object the lookup returned: what was left *)
(* of the line and what its policy said, then.  Meanwhile the merchant     *)
(* edits policies, refunds units and decides returns, and the customer's   *)
(* other tabs make returns, also while a request is at the server, which   *)
(* reads the order, each item's policy and the fee one after the other.    *)
(* (That the order itself is read in two steps is ReturnIntake's part.)    *)
(***************************************************************************)
EXTENDS Integers, FiniteSets, FiniteSetsExt

CONSTANTS
  Items,       \* the line items of the customer's orders
  Orders,
  OrderOf,     \* the order of each item
  UnitsSold,   \* units of each item that were sold
  Before,      \* what open returns made before the journey may claim of each item
  Policies,    \* what the shop's policies may come to say of these items
  Answers,     \* what a customer may answer about each item: a reason and photos
  Posts,       \* bound: submissions under way at a time
  Returns,     \* bound: the returns a behaviour has room for
  None,        \* nothing chosen, null
  MaxEvents    \* bound: what the merchant and other tabs do in a behaviour

Resolutions == {"REFUND", "STORE_CREDIT", "EXCHANGE"}
Reasons     == {"changed_mind", "damaged"}    \* one charged and one free reason

Rule == [open : BOOLEAN, resolutions : SUBSET Resolutions, fee : Nat \cup {None}]

\* What PhotoUploader lets through: three photos an item, others are rejected
\* on the spot.
MaxPhotos == 3
Answer    == [reason : Reasons, photos : 0..MaxPhotos]

\* A return as it is stored: its units and its photos by item.
Return == [open : BOOLEAN, order : Orders, resolution : Resolutions, qty : [Items -> Nat],
           fee : Nat, photos : [Items -> Nat]]

\* What a request has read so far: Shopify's count, what remained, the rules its
\* items were judged by, the policies there were meanwhile, and the price.
Check == [refundable : [Items -> Nat], remaining : [Items -> Nat], rules : [Items -> Rule \cup {None}],
          inForce : SUBSET Policies, default : Nat \cup {None}, fee : Nat]

ASSUME ItemsAssumption  == /\ IsFiniteSet(Items) /\ OrderOf \in [Items -> Orders]
                           /\ UnitsSold \in [Items -> Nat \ {0}]
                           /\ \A b \in Before : b \in [Items -> Nat] /\ \A i \in Items : b[i] <= UnitsSold[i]
ASSUME PolicyAssumption == \A p \in Policies : p.rule \in [Items -> Rule] /\ p.default \in Nat
ASSUME AnswerAssumption == Answers \in [Items -> SUBSET Answer]
ASSUME NoneAssumption   == None \notin Nat \cup Orders \cup Returns \cup Resolutions \cup Return \cup Check
ASSUME BoundAssumption  == IsFiniteSet(Returns) /\ MaxEvents \in Nat

VARIABLES
  page,      \* the page of the portal the tab is on
  data,      \* App's returnData: the order, and what was chosen
  quote,     \* the fee ConfirmationPage shows, and the default policy's fee then
  posts,     \* handleSubmit calls under way
  shown,     \* the confirmation: which return, and was there a photo warning?
  status,    \* ReturnStatusPage's state
  returns,   \* the returns on file
  left,      \* Shopify's refundableQuantity
  elsewhere, \* units that open returns made elsewhere claim
  policy,    \* what the shop's active policies say now
  events

tab         == <<page, data, quote, posts, shown, status>>
server      == <<returns, left, elsewhere, policy, events>>
journeyVars == <<tab, server>>

JourneyPages == {"lookup", "select", "reason", "resolution", "dropoff", "confirm"}
Pages        == JourneyPages \cup {"submitted", "status", "broken"}

\* Where a submission is that the server has not answered yet.
AtServer == {"sent", "checking", "priced"}

EmptyData == [order |-> None, eligible |-> [i \in Items |-> None], selected |-> [i \in Items |-> None],
              answers |-> [i \in Items |-> None], resolution |-> None]

NothingShown == [ret |-> None, warning |-> FALSE]
NoStatus     == [id |-> None, email |-> None, loading |-> FALSE, error |-> FALSE, ret |-> None]

JourneyInit ==
  /\ page = "lookup" /\ data = EmptyData /\ quote = None
  /\ posts = [s \in Posts |-> None]
  /\ shown = NothingShown /\ status = NoStatus
  /\ returns = [r \in Returns |-> None]
  /\ left = UnitsSold /\ elsewhere \in Before
  /\ policy \in Policies
  /\ events = 0

Chosen(d) == {i \in Items : d.selected[i] # None}

\* Bound: the journey is edited while no submission is under way, and while
\* there is room for one more return.  (handleSubmit works on the journey it
\* was called with, and another tab's return is what OtherTab makes.)
Editing == (\A s \in Posts : posts[s] = None) /\ (\E r \in Returns : returns[r] = None)

-----------------------------------------------------------------------------
(* What the server knows of an item.                                       *)

\* Units that open returns claim: each return has the first so many of the
\* item's units to itself, so counting them adds the quantities up.
ClaimedUnitsOf(i) == {u \in Returns \X (1..UnitsSold[i]) :
                        /\ returns[u[1]] # None
                        /\ returns[u[1]].open /\ u[2] <= returns[u[1]].qty[i]}

Claimed(i) == elsewhere[i] + Cardinality(ClaimedUnitsOf(i))

\* loadOrder's remaining quantity.
Remaining(i) == Max({0, left[i] - Claimed(i)})

\* The object the lookup hands out for an eligible item, as of now.
Offered(i) == IF policy.rule[i].open /\ Remaining(i) > 0
              THEN [qty |-> Remaining(i), rule |-> policy.rule[i]] ELSE None

\* The fee of one item: its own policy's table, else the default's.  A faulty
\* item is never charged; one without a reason costs what a change of mind does.
ItemFee(rule, answer, default) ==
  IF answer # None /\ answer.reason = "damaged" THEN 0 ELSE IF rule.fee = None THEN default ELSE rule.fee

\* A return is one parcel and pays the highest fee of its items.
ReturnFee(items, rule, answers, default) ==
  Max({0} \cup {ItemFee(rule[i], answers[i], default) : i \in items})

-----------------------------------------------------------------------------
(* LookupPage and SelectItemsPage.                                         *)

\* A lookup that finds the order replaces the order and nothing else.
LookupOrder(o) ==
  /\ page = "lookup" /\ Editing
  /\ data' = [data EXCEPT !.order = o,
                          !.eligible = [i \in Items |-> IF OrderOf[i] = o THEN Offered(i) ELSE None]]
  /\ page' = "select"
  /\ UNCHANGED <<quote, posts, shown, status, server>>

CanSelect == data.order # None /\ \E i \in Items : data.eligible[i] # None

\* What the card of an item can be clicked to: kept, taken out or picked
\* afresh.  What was chosen from another lookup and is not listed any more has
\* no card, and stays chosen.
Toggled(i) == IF data.eligible[i] = None THEN {data.selected[i]}
                                         ELSE {None, data.selected[i], data.eligible[i]}

SelectItems ==
  /\ page = "select" /\ CanSelect /\ Editing
  /\ \E chosen \in [Items -> {None} \cup {data.selected[i] : i \in Items} \cup {data.eligible[i] : i \in Items}] :
       /\ \A i \in Items : chosen[i] \in Toggled(i)
       /\ \E i \in Items : chosen[i] # None
       /\ data' = [data EXCEPT !.selected = chosen]
  /\ page' = "reason"
  /\ UNCHANGED <<quote, posts, shown, status, server>>

-----------------------------------------------------------------------------
(* ReturnReasonPage, ResolutionPage and DropoffPage.                       *)

\* Every item in the journey gets a reason, or keeps the one it had; with no
\* items Continue is open.  The answers about other items are kept.
GiveReasons ==
  /\ page = "reason" /\ Editing
  /\ \E answers \in [Items -> Answer \cup {None}] :
       /\ \A i \in Items : answers[i] \in IF i \in Chosen(data) THEN Answers[i] ELSE {data.answers[i]}
       /\ data' = [data EXCEPT !.answers = answers]
  /\ page' = "resolution"
  /\ UNCHANGED <<quote, posts, shown, status, server>>

\* Offered: what every chosen item allowed when it was looked up.
AllowedThen(d) == {res \in Resolutions : \A i \in Chosen(d) : res \in d.selected[i].rule.resolutions}

\* The choice made before is kept even when it is not on offer any more.
ChooseResolution ==
  /\ page = "resolution" /\ Editing
  /\ \E res \in (AllowedThen(data) \cup {data.resolution}) \ {None} :
       data' = [data EXCEPT !.resolution = res]
  /\ page' = "dropoff"
  /\ UNCHANGED <<quote, posts, shown, status, server>>

GoToConfirm ==
  /\ page = "dropoff" /\ page' = "confirm" /\ quote' = None
  /\ UNCHANGED <<data, posts, shown, status, server>>

-----------------------------------------------------------------------------
(* ConfirmationPage.                                                       *)

\* Mutant of Incomplete: the page does not notice that the journey is lost.
NeverIncomplete(d) == FALSE

Incomplete(d) == d.order = None \/ Chosen(d) = {} \/ d.resolution = None

RedirectIncomplete ==
  /\ page = "confirm" /\ Incomplete(data)
  /\ page' = "lookup"
  /\ UNCHANGED <<data, quote, posts, shown, status, server>>

RuleThen(d) == [i \in Items |-> IF i \in Chosen(d) THEN d.selected[i].rule ELSE None]

\* Mutant of Quote: the fee of one of the items.
QuoteOne ==
  /\ page = "confirm" /\ ~Incomplete(data) /\ quote = None
  /\ quote' \in {[fee |-> ItemFee(data.selected[i].rule, data.answers[i], policy.default), default |-> policy.default] :
                  i \in Chosen(data)}
  /\ UNCHANGED <<page, data, posts, shown, status, server>>

\* The fee of the journey's items by the tables the lookup returned, and by
\* the default policy there is now.  A quote that fails shows nothing.
Quote ==
  /\ page = "confirm" /\ ~Incomplete(data) /\ quote = None
  /\ quote' = [fee |-> ReturnFee(Chosen(data), RuleThen(data), data.answers, policy.default),
               default |-> policy.default]
  /\ UNCHANGED <<page, data, posts, shown, status, server>>

Loading == \E s \in Posts : posts[s] # None /\ posts[s].heard = "page"

\* handleSubmit; the page hears of it as long as it stays mounted.
Submit(s) ==
  /\ page = "confirm" /\ ~Incomplete(data) /\ ~Loading
  /\ posts[s] = None
  /\ posts' = [posts EXCEPT ![s] = [stage |-> "sent", sent |-> data, quoted |-> quote, heard |-> "page",
                                    check |-> None, ret |-> None, todo |-> {}, failed |-> FALSE]]
  /\ UNCHANGED <<page, data, quote, shown, status, server>>

\* A page left and its answer not heard: handleSubmit goes on.
Unmounted == [s \in Posts |-> IF posts[s] # None /\ posts[s].heard = "page"
                              THEN [posts[s] EXCEPT !.heard = "closure"] ELSE posts[s]]

\* The Back buttons of the pages push a page, and the browser's Back and Forward
\* move between all that were: a tab begun with the drop-off's address can be
\* led anywhere, whatever has been chosen by then.  What is in memory stays.
Back ==
  /\ page \in JourneyPages \cup {"submitted"}
  /\ page' \in JourneyPages \ {page}
  /\ quote' = None /\ shown' = NothingShown
  /\ posts' = Unmounted
  /\ UNCHANGED <<data, status, server>>

\* A reload, or an address typed by hand: the journey in memory is gone, and
\* so is everybody who waits for an answer.
Reload ==
  /\ page' \in JourneyPages
  /\ data' = EmptyData /\ quote' = None /\ shown' = NothingShown /\ status' = NoStatus
  /\ posts' = [s \in Posts |-> IF posts[s] # None /\ posts[s].stage \in AtServer
                               THEN [posts[s] EXCEPT !.heard = "nobody"] ELSE None]
  /\ UNCHANGED server

-----------------------------------------------------------------------------
(* POST /returns.                                                          *)

\* Every item needs a reason; then Shopify's count of the order's units and the
\* claims of open returns are read.
LoadOrder(s) ==
  /\ posts[s] # None /\ posts[s].stage = "sent"
  /\ \A i \in Chosen(posts[s].sent) : posts[s].sent.answers[i] # None
  /\ posts' = [posts EXCEPT ![s].stage = "checking",
       ![s].todo = {i \in Chosen(posts[s].sent) : OrderOf[i] = posts[s].sent.order},
       ![s].check = [refundable |-> left, remaining |-> [i \in Items |-> Remaining(i)],
                     rules |-> [i \in Items |-> None], inForce |-> {policy}, default |-> None, fee |-> 0]]
  /\ UNCHANGED <<page, data, quote, shown, status, server>>

\* evaluateEligibility, of one item after the other, by the policies of then.
EvaluateItem(s) ==
  /\ posts[s] # None /\ posts[s].stage = "checking"
  /\ \E i \in posts[s].todo :
       posts' = [posts EXCEPT ![s].todo = @ \ {i}, ![s].check.rules[i] = policy.rule[i]]
  /\ UNCHANGED <<page, data, quote, shown, status, server>>

\* The items of a submission of which something was left.
Validated(p) == {i \in Chosen(p.sent) : p.check.remaining[i] > 0}

\* Mutant of Acceptable: the resolution is taken from the page.
AcceptableAnyResolution(p) ==
  /\ \A i \in Chosen(p.sent) :
       /\ OrderOf[i] = p.sent.order
       /\ p.check.rules[i].open
       /\ i \in Validated(p) => p.sent.selected[i].qty <= p.check.remaining[i]
  /\ Validated(p) # {}

\* The rest of validateCreate: every item is on the order and eligible, no more
\* units than remain, for a resolution its policy allows; an item with nothing
\* left is passed over, as long as another one remains.
Acceptable(p) ==
  /\ \A i \in Chosen(p.sent) :
       /\ OrderOf[i] = p.sent.order
       /\ p.check.rules[i].open
       /\ i \in Validated(p) => /\ p.sent.selected[i].qty <= p.check.remaining[i]
                                /\ p.sent.resolution \in p.check.rules[i].resolutions
  /\ Validated(p) # {}

\* quoteFee, by the rules the items were judged by and the default of now.
PriceReturn(s) ==
  /\ posts[s] # None /\ posts[s].stage = "checking" /\ posts[s].todo = {}
  /\ Acceptable(posts[s])
  /\ posts' = [posts EXCEPT ![s].stage = "priced", ![s].check.default = policy.default,
       ![s].check.fee = ReturnFee(Validated(posts[s]), posts[s].check.rules, posts[s].sent.answers, policy.default)]
  /\ UNCHANGED <<page, data, quote, shown, status, server>>

\* The return as it is stored.
NewReturn(p) ==
  [open |-> TRUE, order |-> p.sent.order, resolution |-> p.sent.resolution,
   qty |-> [i \in Items |-> IF i \in Validated(p) THEN p.sent.selected[i].qty ELSE 0],
   fee |-> p.check.fee,
   photos |-> [i \in Items |-> 0]]

Lines(ret) == {i \in Items : ret.qty[i] > 0}

\* The transaction: under the order's lock the claims are read again, and must
\* leave room in Shopify's count as it was read for the validation.
CreateReturn(s) ==
  /\ posts[s] # None /\ posts[s].stage = "priced"
  /\ \A i \in Validated(posts[s]) : Claimed(i) + posts[s].sent.selected[i].qty <= posts[s].check.refundable[i]
  /\ \E r \in Returns :
       /\ returns[r] = None
       /\ returns' = [returns EXCEPT ![r] = NewReturn(posts[s])]
       /\ posts' = [posts EXCEPT ![s] = IF posts[s].heard = "nobody" THEN None
                                        ELSE [posts[s] EXCEPT !.stage = "stored", !.check = None, !.ret = r]]
  /\ UNCHANGED <<page, data, quote, shown, status, left, elsewhere, policy, events>>

\* A 4xx, the quota, the rate limit, a 500 before the commit, or a request
\* that never arrived: the page shows an error and Submit is open again.
Refuse(s) ==
  /\ posts[s] # None /\ posts[s].stage \in AtServer
  /\ posts' = [posts EXCEPT ![s] = None]
  /\ UNCHANGED <<page, data, quote, shown, status, server>>

\* The connection breaks: the page shows an error, the request may go on.
LoseConnection(s) ==
  /\ posts[s] # None /\ posts[s].heard # "nobody" /\ posts[s].stage \in AtServer \cup {"stored"}
  /\ posts' = [posts EXCEPT ![s] = IF posts[s].stage = "stored" THEN None
                                   ELSE [posts[s] EXCEPT !.heard = "nobody"]]
  /\ UNCHANGED <<page, data, quote, shown, status, server>>

\* 201: the photos are next, of every item of the journey that has any.
Created(s) ==
  /\ posts[s] # None /\ posts[s].stage = "stored"
  /\ LET d == posts[s].sent IN
     posts' = [posts EXCEPT ![s] = [posts[s] EXCEPT !.stage = "photos",
                 !.todo = {i \in Chosen(d) : d.answers[i].photos > 0}]]
  /\ UNCHANGED <<page, data, quote, shown, status, server>>

-----------------------------------------------------------------------------
(* The photos.                                                             *)

\* The photos of an item are stored and pushed onto the return's row for it;
\* an item the server passed over has no row, and its photos are on none.
Attach(s, i) ==
  LET r == posts[s].ret  d == posts[s].sent IN
  IF i \in Lines(returns[r])
  THEN [returns EXCEPT ![r].photos[i] = d.answers[i].photos] ELSE returns

\* A request that fails: a file that is refused or not stored, or an answer
\* that is lost after the row was written.
FailedUpload(s, i) == {returns, Attach(s, i)}

\* Mutant of UploadPhotos: a failed upload is not remembered.
UploadPhotosSilently(s) ==
  /\ posts[s] # None /\ posts[s].stage = "photos"
  /\ \E i \in posts[s].todo :
       /\ posts' = [posts EXCEPT ![s].todo = @ \ {i}]
       /\ returns' \in FailedUpload(s, i)
  /\ UNCHANGED <<page, data, quote, shown, status, left, elsewhere, policy, events>>

\* One request per item, one after the other.  One that fails is remembered
\* for the warning.
UploadPhotos(s) ==
  /\ posts[s] # None /\ posts[s].stage = "photos"
  /\ \E i \in posts[s].todo :
       \/ /\ posts' = [posts EXCEPT ![s].todo = @ \ {i}]
          /\ returns' = Attach(s, i)
       \/ /\ posts' = [posts EXCEPT ![s].todo = @ \ {i}, ![s].failed = TRUE]
          /\ returns' \in FailedUpload(s, i)
  /\ UNCHANGED <<page, data, quote, shown, status, left, elsewhere, policy, events>>

\* The confirmation, if the page is still there to show it.
Submitted(s) ==
  /\ posts[s] # None /\ posts[s].stage = "photos" /\ posts[s].todo = {}
  /\ IF posts[s].heard = "page"
     THEN page' = "submitted" /\ shown' = [ret |-> posts[s].ret, warning |-> posts[s].failed]
     ELSE UNCHANGED <<page, shown>>
  /\ posts' = [posts EXCEPT ![s] = None]
  /\ UNCHANGED <<data, quote, status, server>>

-----------------------------------------------------------------------------
(* ReturnStatusPage, a page load of its own.                               *)

Emails == {"own", "other"}

\* From a link, with the customer's email in it or without; on any page, it
\* is what a reload is.
OpenStatus ==
  /\ page = "lookup"
  /\ \E r \in Returns, email \in {"own", None} :
       status' = [NoStatus EXCEPT !.id = r, !.email = email, !.loading = email # None]
  /\ page' = "status" /\ data' = EmptyData /\ quote' = None /\ shown' = NothingShown
  /\ posts' = [s \in Posts |-> IF posts[s] # None /\ posts[s].stage \in AtServer
                               THEN [posts[s] EXCEPT !.heard = "nobody"] ELSE None]
  /\ UNCHANGED server

\* The form is submitted and the page renders before its effect asks for the
\* return: with no return, no error and not loading it reads a field of null.
TypeEmail ==
  /\ page = "status" /\ status.email = None
  /\ \E email \in Emails :
       IF ~status.loading /\ ~status.error /\ status.ret = None
       THEN page' = "broken" /\ status' = [status EXCEPT !.email = email]
       ELSE UNCHANGED page /\ status' = [status EXCEPT !.email = email, !.loading = TRUE, !.error = FALSE]
  /\ UNCHANGED <<data, quote, posts, shown, server>>

\* loadCustomerReturn: the return, to the email it was made under.
StatusAnswer ==
  /\ page = "status" /\ status.loading
  /\ \/ /\ status.email = "own" /\ returns[status.id] # None
        /\ status' = [status EXCEPT !.loading = FALSE, !.ret = status.id]
     \/ status' = [status EXCEPT !.loading = FALSE, !.error = TRUE]
  /\ UNCHANGED <<page, data, quote, posts, shown, server>>

TryDifferentEmail ==
  /\ page = "status" /\ status.error /\ status.email # None
  /\ status' = [status EXCEPT !.email = None, !.ret = None]
  /\ UNCHANGED <<page, data, quote, posts, shown, server>>

-----------------------------------------------------------------------------
(* Everybody else.                                                         *)

Event == events < MaxEvents /\ events' = events + 1

\* (What has been in force since a request was read is for ReturnsAllowed.)
EditPolicy ==
  /\ policy' \in Policies \ {policy} /\ Event
  /\ posts' = [s \in Posts |-> IF posts[s] # None /\ posts[s].check # None
                               THEN [posts[s] EXCEPT !.check.inForce = @ \cup {policy'}] ELSE posts[s]]
  /\ UNCHANGED <<page, data, quote, shown, status, returns, left, elsewhere>>

\* A unit is refunded from the Shopify admin.
RefundUnit ==
  /\ \E i \in Items : left[i] > 0 /\ left' = [left EXCEPT ![i] = @ - 1]
  /\ Event
  /\ UNCHANGED <<tab, returns, elsewhere, policy>>

\* The customer returns what is left of an item from another tab.
OtherTab ==
  /\ \E i \in Items : Offered(i) # None /\ elsewhere' = [elsewhere EXCEPT ![i] = @ + Remaining(i)]
  /\ Event
  /\ UNCHANGED <<tab, returns, left, policy>>

\* The merchant rejects a return, or refunds it: its units are out of
\* Shopify's count before they leave the claims.  Returns made elsewhere are
\* rejected.
Decide ==
  /\ \/ \E r \in Returns :
          /\ returns[r] # None /\ returns[r].open
          /\ returns' = [returns EXCEPT ![r].open = FALSE]
          /\ left' \in {left, [i \in Items |-> Max({0, left[i] - returns[r].qty[i]})]}
          /\ UNCHANGED elsewhere
     \/ /\ \E i \in Items : elsewhere[i] > 0 /\ elsewhere' = [elsewhere EXCEPT ![i] = 0]
        /\ UNCHANGED <<returns, left>>
  /\ Event
  /\ UNCHANGED <<tab, policy>>

Journey ==
  \/ \E o \in Orders : LookupOrder(o)
  \/ SelectItems \/ GiveReasons \/ ChooseResolution \/ GoToConfirm
  \/ RedirectIncomplete \/ Quote \/ Back \/ Reload

Submission(s) ==
  \/ Submit(s) \/ LoadOrder(s) \/ EvaluateItem(s) \/ PriceReturn(s) \/ CreateReturn(s)
  \/ Refuse(s) \/ LoseConnection(s)
  \/ Created(s) \/ UploadPhotos(s) \/ Submitted(s)

StatusPage == OpenStatus \/ TypeEmail \/ StatusAnswer \/ TryDifferentEmail

JourneyNext ==
  \/ Journey \/ (\E s \in Posts : Submission(s)) \/ StatusPage
  \/ EditPolicy \/ RefundUnit \/ OtherTab \/ Decide

JourneySpec == JourneyInit /\ [][JourneyNext]_journeyVars

-----------------------------------------------------------------------------
(* Properties.                                                             *)

Snapshots == [qty : Nat, rule : Rule] \cup {None}

\* The tab and the server keep their shape.  What is submitted names an order,
\* an item and a resolution; it may lack the reason of an item that was added
\* after the reasons were given, but what the server takes up has them all.
JourneyTypeOK ==
  /\ page \in Pages
  /\ data.order \in Orders \cup {None} /\ data.resolution \in Resolutions \cup {None}
  /\ \A i \in Items : /\ {data.selected[i], data.eligible[i]} \subseteq Snapshots
                      /\ data.answers[i] \in Answer \cup {None}
  /\ left \in [Items -> Nat] /\ policy \in Policies /\ events \in 0..MaxEvents
  /\ \A s \in Posts : posts[s] # None =>
       /\ posts[s].sent.order # None /\ posts[s].sent.resolution # None /\ Chosen(posts[s].sent) # {}
       /\ posts[s].stage # "sent" => \A i \in Chosen(posts[s].sent) : posts[s].sent.answers[i] # None
       /\ posts[s].stage \in {"stored", "photos"} => returns[posts[s].ret] # None
  /\ page = "submitted" => shown.ret # None

\* A return is made in this step; by the submission s.
Makes(r)        == returns[r] = None /\ returns'[r] # None
MakesFrom(s, r) == Makes(r) /\ posts[s] # None /\ posts'[s] # posts[s]

\* "Nothing from the browser is trusted": whatever the tab still held from
\* another order, another lookup or an older policy, a return is made of items
\* of one order only, for each of which a reason was given and its resolution
\* was allowed by a policy in force since the request was read (the one there
\* is, if none was edited meanwhile); and it claims no unit that Shopify
\* can no longer refund, unless one was refunded meanwhile.
ReturnsAllowed ==
  [][\A s \in Posts, r \in Returns : MakesFrom(s, r) =>
       /\ Lines(returns'[r]) # {}
       /\ \A i \in Lines(returns'[r]) :
            /\ OrderOf[i] = returns'[r].order /\ posts[s].sent.answers[i] # None
            /\ \E p \in posts[s].check.inForce : p.rule[i].open /\ returns'[r].resolution \in p.rule[i].resolutions
            /\ Claimed(i)' <= left[i] \/ left[i] < posts[s].check.refundable[i]]_journeyVars

\* What a quote for the submitted journey shows under this default, whether or
\* not it is answered in time.
Due(p, default) == ReturnFee(Chosen(p.sent), RuleThen(p.sent), p.sent.answers, default)

\* The items were judged by the rules the lookup returned.
SameRules(p) == \A i \in Validated(p) : p.check.rules[i] = p.sent.selected[i].rule

\* The page shows a fee once it is quoted, and never for an exchange.
Shown(p) == IF p.quoted = None \/ p.sent.resolution = "EXCHANGE" THEN 0 ELSE p.quoted.fee

\* "Show the fee before the customer commits": what the code keeps of it.  A
\* return costs more than the page showed when Submit was pressed only if a
\* policy was edited since, or Submit was pressed before the quote was there (or
\* after it had failed), or the page hides the fee of an exchange; even then it
\* is no more than the tables the lookup returned make it, unless those were
\* edited.  Where nothing was passed over it is that fee to the penny.
FeeAsQuoted ==
  [][\A s \in Posts, r \in Returns : MakesFrom(s, r) =>
       LET p == posts[s]  fee == returns'[r].fee IN
       /\ fee > Shown(p) => \/ ~SameRules(p) \/ p.quoted = None \/ p.sent.resolution = "EXCHANGE"
                            \/ p.quoted.default # p.check.default
       /\ SameRules(p) => /\ fee <= Due(p, p.check.default)
                          /\ Lines(returns'[r]) = Chosen(p.sent) => fee = Due(p, p.check.default)]_journeyVars

\* A confirmation without a warning means that every photo the customer chose
\* for an item of the return is attached to it.
PhotosReported ==
  (page = "submitted" /\ ~shown.warning) =>
    \A i \in Lines(returns[shown.ret]) : returns[shown.ret].photos[i] = data.answers[i].photos

\* ReturnStatusPage: "the email on the return must be supplied (from the email
\* link, or typed in below)".  Typing it in never breaks the page (asked by a
\* violation run).
NeverBroken == page # "broken"

=============================================================================
