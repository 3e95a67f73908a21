# ReturnFlow: TLA+ verification project

ReturnFlow is a Shopify app for customer returns. Customers file a return in a
portal, merchants approve it, the app buys a carrier label, follows the parcel,
refunds the order and charges the merchant for the label. This directory holds
TLA+ models of the parts of `app/` where several callers, a database, Redis and
outside services meet, the TLC runs that check them, and TLAPS proofs of the
properties that matter most.

Contents: 1 the system, 2 the plan, 3 modules and code, 4 runs, 5 fairness,
6 proofs, 7 disagreements, 8 what is only model-checked, 9 what is not modelled.

## 1. The system

One Node process (Express, `Procfile`, `railway.json`) serves the dashboard, the
portal, the webhooks and the jobs. State is in Postgres (Prisma), leases and
queues in Redis, and money, parcels and plans live with Shopify and the carrier.
Nothing but single statements and the transaction of `createReturn` is atomic:
a handler reads a row, awaits an outside service, and writes later. Deploys
overlap two processes for a while, so models of database and Redis protocols
allow callers anywhere; only what is kept in a process's memory (the promise maps
of the credentials) assumes one process.

| Component | State it keeps | Operations | Talks to |
|---|---|---|---|
| Label purchase (`LabelService.generateLabel`) | the `ReturnLabel` row, which is the lock (`pending`, `buying`, `saved`, `created`) | take, mark, buy, reconcile, release, save | carrier adapter; called by the approval handler, a click, a worker and the recovery job |
| Label completion and charging (`_completeLabel`, `_chargeLabel`, `retryLabelCharges`) | `label.*` events of the return's timeline, Redis claims | move the return on, report usage, email, finish; retry failed charges | Shopify's usage meter, Resend |
| Label recovery (`recoverLabels`) | none of its own | pick unfinished labels and call the label service | database |
| Refunds (`RefundService`, `ExchangeService`) | `processedAt` as a claim, `refundAmount`, `refund.attempt` events | claim, reconcile, refund or credit or draft order, record | Shopify orders and refunds |
| Return lifecycle (`routes/api/returns`, `onReturnApproved`, `trackParcels`) | `Return.status`, timeline, `trackingStatus` | approve, reject, received, label, process; handler; tracking job | labels, refunds, carrier |
| Return intake (`planGating`, `ReturnValidation`, `ReturnService`, `POST /returns`) | `returnCount`, `billingCycleStart`, returns of an order | gate, roll the cycle, ask Shopify, read claims, create | Shopify orders |
| Customer portal (`web/portal`, `routes/api/portal`) | the journey in the tab's memory | look up, select, give reasons, choose a resolution, quote, submit, upload photos; the status page | return intake, policies, storage |
| Webhook inbox (`routes/webhooks`, `utils/idempotency`) | `idem:` keys in Redis | claim, look up, handle, complete, release | Shopify's delivery |
| Webhook handlers and privacy requests (`routes/webhooks`, `StorageService`) | settings, plan, personal data | order notes, redaction of a customer or a shop, exports | storage, email |
| Shop credentials (`ShopToken`, `shopInstall`, `middleware/auth`) | `Shop.shopifyToken`, promises in flight | refresh, exchange, clear | Shopify OAuth |
| Plans and subscriptions (`BillingService`, `routes/api/billing`) | `Shop.plan`, the billing cycle | apply a status, confirm, downgrade | Shopify billing |
| Policies, settings, carriers (`routes/api/{policies,settings,carriers}`, the dashboard pages that send them) | `Shop.settings`, `ReturnPolicy` and `CarrierConfig` rows | save a page's snapshot, clear and set the default, check the plan's limit and upsert | webhooks and installs write the same rows |
| Notifications | a BullMQ queue | render and send emails | Resend |
| Analytics, other carriers, infrastructure, other pages | none that matters here | reads, rendering, wiring | |

Components interact by direct calls, by the in-process event bus
(`RETURN_APPROVED` starts the handler that buys the label), by rows both read and
write, and by jobs that rescan the database. Nobody enqueues `GENERATE_LABEL` or
`PROCESS_REFUND` today, so their workers are one more caller of the same service;
`INSPECTING` and `CANCELLED` are never set by the app.

What is hard, and what makes each component correct:

- *Labels.* A crash between the carrier's purchase and the write that saves it,
  an answer that is lost, a stale lock row judged by somebody else. Correct: postage
  is bought once, a purchase is never forgotten, a saved label is never lost, and
  customer and merchant each hear of and pay for it once.
- *Refunds.* A claim without an owner that goes stale under its holder, a refund
  that lands after its caller gave up, a key that Shopify forgets, two currencies.
  Correct: money moves once, the amount on file is the amount moved, and money that
  moved ends up on file.
- *Lifecycle.* Writes on the strength of a status read earlier, by a merchant, a
  handler and a job at once. Correct: nothing that is over is reopened, the
  customer hears once of a parcel, no approval and no delivery is swallowed.
- *Intake.* Check-then-act on the quota and on the order's units. Correct: no unit
  is promised twice, no return escapes the counter.
- *Webhooks.* Overlapping, repeated and failing deliveries. Correct: acknowledged
  only when done, done in the end, and not twice.
- *Credentials.* Concurrent refreshes, an uninstall in the middle of one. Correct:
  the newest pair is the one on file, and a shop always recovers.
- *Plans.* Webhooks out of order against the dashboard's own questions. Correct:
  the plan is the one the merchant pays for, and quota resets are earned.
- *Portal.* A journey that outlives the order, the policies and the quantities it
  was begun with, a browser that goes back anywhere in it, a submission that outlives
  its page, and a server that checks it in steps. Correct: what is stored is allowed,
  costs no more than was shown, and lost photos are owned up to.
- *Privacy.* An erasure in several steps that fails or dies between them, against
  people who had read the data before. Correct: what it found is gone when Shopify is
  answered, and Shopify is answered in the end.
- *Configuration.* Read, await, write back, from pages as old as you like. Correct:
  nothing stored is wiped, one default policy, the plan's carrier limit, credentials
  kept.

Every hazard is listed at its line in `PROJECT.json` with the properties that
would catch it.

## 2. The plan

Order: the parts that move money first, then what carries them, then what feeds them.

1. `OneLabel`, `LabelPurchase` (refines it), `LabelPurchaseProofs`: done.
2. `LabelCompletion`, `LabelCompletionProofs`: done.
3. `OnePayout`, `RefundProcessing` (refines it), `RefundSplit`, `RefundProofs`: done.
4. `ReturnLifecycle`, `ReturnLifecycleProofs`: done.
5. `ReturnIntake`, `PortalJourney`, `ReturnIntakeProofs` (about both): done.
6. `WebhookInbox`, `PrivacyRequests`, `WebhookInboxProofs` (about both): done.
7. `PlanSync`, `PlanSyncProofs`: done.
8. `ShopConfiguration`, `ShopCredentials`, `ShopConfigurationProofs` (about both): done.
9. Left: what the theorems still assume of the carrier and of Shopify (`Trusted`,
   `KeyLasts`) as runs of their own; the operators of `ReturnPolicy` selection and of
   the adapters' address and weight conversions.

Where one proof module is about two models, the second names its behaviour after its
subject (`JourneySpec`, `ErasureSpec`, `TokenSpec`), so that both can be extended at once.

The composition is by abstraction: `ReturnLifecycle` treats a label's purchase and
completion and a refund as one or two steps each, with exactly the effects on the
shared rows that `LabelPurchase`, `LabelCompletion` and `RefundProcessing` show in
detail. One model of all of them would be out of TLC's reach and say nothing more.

## 3. Modules and code

Every module models one return, one event or one shop: the code shares no state
between two of them other than the counters of `ReturnIntake`. Each `pc` value is
a point between two awaits of the code; everything between two awaits is one
action. `PROJECT.json` maps each definition to its lines.

**OneLabel** is the abstract promise: at most one purchase, and then it is filed.

**LabelPurchase** (`LabelService.js`, `ShippoAdapter.js`). `Attempts` are calls of
`generateLabel`, `row` is the `ReturnLabel` row with its maker, status and
staleness, `tx` the carrier's view of each attempt's purchase. `Begin` acts on the
row that was read, `Reconcile` asks `findLabel` about a stale `buying` row, `Evict`
deletes by the id that was read, `Take` creates a row (unique), `MarkBuying`,
`SendPurchase`, `Answer` and `LoseAnswer` are the purchase, `AskCarrier` and
`Release` its error path, `SaveLabel` and `CompleteLabel` the end. `CarrierBooks`
is the carrier, `Crash` the process, `GoStale` the lock's age. `Searchable` are the
carriers with `findLabel` (Shippo); Royal Mail and ShipEngine are carriers without.

**LabelCompletion** (`LabelService._completeLabel` to `_recordCharge`,
`BillingService.reportLabelUsage`, `retryLabelCharges.js`, the query of
`recoverLabels.js`). `ledger` is what the timeline says, `seen` what each slot last
read of it, `mailKey` and `retryKey` the Redis claims with their holders, `billed`
Shopify's meter. The meter is a flag because a repeated idempotency key is a no-op.
`postage` is whose account paid for the label; `carrier` is the shop's active carrier
now, `managed` what each slot saw of it when it loaded the shop, and `ChargeDue` decides
by the latter. `SwitchCarrier` is the merchant connecting another one or none. `Priced`
says whether the row has a cost and a PDF.

**OnePayout** is the abstract promise of a refund: paid at most once (a refund that
moved nothing may be made again), processed only after that, and of a money refund the
record shows what was paid. Filing again may spoil the amount of an order in another
currency.

**RefundProcessing** (`RefundService.js`, `ExchangeService.js`). `claim` is
`processedAt` on an open return (it has no owner), `attempted` the `refund.attempt`
event, `made` what each refund that Shopify made moved, oldest first, `known` whether
Shopify still knows the key of the latest (`KeyForgotten`), `orphans` requests whose
callers are gone. Shopify is asked and answers in the customer's currency, a refund
found by its note is read in the shop's (`FoundAmounts`); `rate` is between the two,
and `recordedIn` the currency on file, which only an answer sets (`Record`). `Suggest`
takes the fee, a number of the shop's currency, off Shopify's gross as it is, never below
zero nor above what Shopify will still refund. A draft order has no idempotency key; exchanges are off
(`config/features.js`), so nothing is claimed of duplicate drafts.

**RefundSplit** extends it with `_allocate`: `Split` divides an amount over the
payments Shopify suggests, each share rounded to the penny and capped, the last one
taking the rest; sums are the last of the running sums (`Total`). `Exact` is the reference it is compared with, `SentExactly` the
amounts that every set of up to `MaxPayments` payments carries exactly. The property
ties the two together: what any reachable attempt is about to send is among them.

**ReturnLifecycle** (`routes/api/returns.js`, `onReturnApproved.js`,
`trackParcels.js`, `recoverLabels.js`). `Requests` serve the merchant and go on as
the handler, `Trackers` are tracking runs; `snap` and `answer` are what each has
read. `overwrote` counts decisions (approve, reject: unconditional writes) written
over a return that had moved on: such a write reopens the return by design of the
route, and the properties except it rather than deny it.

**ReturnIntake** (`portal.js`, `planGating.js`, `ReturnValidation.js`,
`ReturnService.js`). `snap` is the shop row each submission was loaded with,
`refundable` Shopify's answer, `Create` the whole transaction (advisory lock,
re-check, conditional increment). `inCycle` counts returns since the cycle was last
rolled rightly, `lateRolls` rolls of a cycle rolled already, `staleUnits` the units
refunded under a submission that held an older answer. Quantities are added up by
counting: each return has the first so many of the units to itself (`UnitsIn`, and
`ClaimedUnitsOf` in `PortalJourney`), so that a sum is the size of a set.

**PortalJourney** (`web/portal/src`, `routes/api/portal.js`, `utils/fees.js`). `page`
and `data` are the tab: the journey App keeps, whose pages edit a copy and commit it on
Continue, so a visit to a page is one action. `posts` are calls of `handleSubmit`
with the journey they were called with, and who still listens (`page`, a `closure`
after the page was left, `nobody` after a reload). An item of the journey is what the
lookup returned then; `policy`, `left` and `elsewhere` are what is true now. `Back` is
every page's Back button and the browser's Back and Forward: the buttons push pages, so a
tab's history can lead from any page of the journey to any other, with all that was chosen
since. POST /returns is `LoadOrder` (Shopify's count and the open claims), one `EvaluateItem`
per item, `PriceReturn` and the transaction `CreateReturn`; `check` is what they have
read, and `inForce` the policies there have been meanwhile. `Acceptable` and `NewReturn`
are the server's checks and what it stores, `UploadPhotos` the photo requests after it, `OpenStatus` to `TryDifferentEmail` the status page.

**PrivacyRequests** (`webhooks.js`, `StorageService.js`). `Deliver` reads which returns
a redaction is about, `DeleteFiles` and `StorageFails` go through their files one
return at a time, `Redact` is the transaction and the answer. `Begin`, `PutFile` and
`Write` are an upload, the label email and the data request, which read a return
first and write to it later. `excuse` says why something of an erased return may be
there still: a writer that had read it before, a second page of files, a storage error
that shop/redact passes over.

**ShopConfiguration** (`settings.js`, `policies.js`, `carriers.js`, `onShopInstalled.js`,
the settings writes of `webhooks.js`, `SettingsPage`, `PoliciesPage`,
`CarrierConnectCard`). A request is a page's form with the call it makes, or a webhook,
or an install, or a label job that keeps the shop's id (`BillingService.shopGid`). It
reads at `SendSettings`, `ReceiveWebhook`, `ReadForShopId`, `SaveCarrier`, `CheckLimit`
and `EnsureDefaultPolicy`, and writes at `StoreSettings`, `KeepShopId` and the like.
`SendPolicy` is the statement that clears the default, `StorePolicy` the one that sets it. `raced` notes that somebody wrote what a
request had read before it wrote back.

**WebhookInbox** (`webhooks.js`, `idempotency.js`). One action per Redis command;
`key` is the lease, which has no owner. `blind` notes a 2xx given by a delivery that
found no key to go by.

**ShopCredentials** (`ShopToken.js`, `shopInstall.js`, `middleware/auth.js`,
`handleAppUninstalled`). A credential is what Shopify thinks of it (newest,
superseded, revoked) and its age; `held` is the row a call has read, used some awaits
later; `inFlight` are the two promise maps. Shopify may or may not still honour a
superseded refresh token. Time does not pass while a refresh or an exchange is under
way, nor over a call whose row has been replaced meanwhile: no call takes an hour.

**PlanSync** (`BillingService.js`, `routes/api/billing.js`,
`handleSubscriptionUpdate`, the plan of `handleAppUninstalled`). Shopify's changes
(approvals, ends, uninstalls, declined charges) are numbered and webhooks carry their number, which the code never looks at:
`latest` and `strayed` note when older news is written over newer. `paid` and `previews`
count activations, of paid plans and of the free one ("Preview" at Shopify), `resets` the
times the quota's counter was wiped, and `wiped` notes that the shop was left on FREE with
it. `declined` notes
a proposed charge that was declined, which the code answers with FREE, whatever
else is active.

The `MC*` modules add symmetry where a run checks safety only.

## 4. Runs

| Run | Checks | Bounds and why they suffice |
|---|---|---|
| `label_purchase` | `OneLivePurchase`, `PurchaseKeepsRow`, `SavedForGood`, refinement `KeepsPromise` | Four calls: one that dies having bought, one that judges its row, one that replaces it, one more. One searchable carrier, nothing slow or late. |
| `label_completion` | `ChargeAnnounced`, `MailsBounded`, `NeverBackwards`, `EventuallyFinished`, `EventuallyCharged` | Two completions race each other and a charge run, each slot serving any number of calls; `MaxAttempts` = 2, so that the limit is reached; one fault; one change of carrier, so that every attempt may have seen the one or the other. |
| `refund` | `SplitIsExact`, `MovedOnce`, `EventuallyRecorded`, refinement `PaysOutOnce` | Two slots, every resolution, items worth 4 and a fee of 1, the shop's currency and one worth twice as much, slow attempts, late landings, two faults, a key that is forgotten as soon as no call can use it; up to three payments of 1 to 6, every proportion that two or three small numbers have. |
| `return_lifecycle` | `NeverBackwards`, `ReceivedOnce`, `NotSilent`, `DeliveredIsReceived` | Two requests race each other, the handler and one tracking run; one fault. |
| `return_intake` | `ClaimsWithinOrder`, `UnitsPromisedOnce`, `SlotsCounted` | Three submissions for two units and two slots of quota: one too many of each; one cycle runs out. |
| `webhook` | `AckedIsApplied`, `AppliedOnce`, `EventuallyAcked` | Three overlapping deliveries, two faults. |
| `plan_sync` | `SyncedInOrder`, `ResetsEarned` | Two dashboard calls, four changes at Shopify (an upgrade is two), one fault. |
| `credentials` | `NewestOnFile`, `Heals` | Three calls (one refreshes, two wait or come late), one uninstall and reinstall, one fault. |
| `portal_journey` | `PhotosReported`, `ReturnsAllowed`, `FeeAsQuoted` | Two items of one order with different policies and one of another order, so that a journey can mix them; one of two units; two policies that disagree; something claimed before, or nothing; one event behind the tab's back, at any step of the tab or the server. |
| `shop_configuration` | `SavesWipeNothing`, `OneDefault`, `WithinLimit`, `CredentialsKept` | Four requests, so that three can run one after the other while a page of before them is still open; one dashboard key and two of the app's, two policies, two carriers, and a plan that allows one. |
| `privacy` | `Erased`, `EventuallyErased` | Two returns, two deliveries at a time, a writer that can begin twice, a page of one file, two faults (one to break an erasure, one to break its retry). |
| `status_broken` | violates `NeverBroken` | see 7 |

`label_purchase`, `webhook`, `credentials` (`TokenTypeOK`) and `portal_journey`
(`JourneyTypeOK`) also check the type invariant; the others' is proved (section 6), that of
`PrivacyRequests` as `Shape` in its proofs. Faults (crashes, failed writes, lost answers,
failed calls) are counted against `MaxFaults` (`MaxFailures` in `PrivacyRequests`), so that a
counterexample is short and the state space finite; the other bounds are `MaxChanges`,
`MaxCycles`, `MaxUninstalls`, `MaxEvents`, `MaxSwitches`, `MaxWrites`, `PageSize` (the storage's,
lowered from 1000), `MaxPayments`, `MaxPayment` and `MaxAttempts` (the code's own,
lowered). In `label_purchase`, `return_intake`, `shop_configuration` and `portal_journey`
failures are not counted: every call may fail or stop at every step.
`CHECK_DEADLOCK FALSE` is set because calls end, counted events run out and the
system may then have nothing to do.

Each checked property has a mutant in `PROJECT.json`: a plausible bug in a mapped
definition (a dropped condition, a write in the wrong place) under which TLC finds
the property violated. The mutants sit next to the actions they change and are
used by no specification.

## 5. Fairness

Weak fairness is per slot and only on code that has started: a call that is at a
step takes the next one. On top of it:

- `LabelCompletion`: the recovery job (every 30 minutes) and the charge job (every
  six hours) keep coming (`startLabelRecovery` and the charge job's timers), leases in
  Redis end, and time passes.
- `RefundProcessing`: somebody keeps asking. Nothing in the system retries a refund
  by itself, so `EventuallyRecorded` says that asking again is enough.
- `ReturnLifecycle`: the handler, the recovery job and the tracking job go on.
- `WebhookInbox`: Shopify delivers again what it has no 2xx for, and a lease nobody
  works under ends.
- `ShopCredentials`: webhooks are handled, hours pass, and the merchant opens a page
  that calls Shopify now and then. `SF` is used for the last two because both are
  switched off while the app is uninstalled or calls are under way.
- `PrivacyRequests`: Shopify delivers again until it is answered, a handler runs to its
  end, and the lease of one that died lapses. Writers owe nothing.

`RefundSplit`, `PlanSync`, `ReturnIntake`, `PortalJourney` and `ShopConfiguration` add no
fairness of their own: what is claimed of the last four is safety only.
Nothing is assumed of crashes, failures, parcels, or what merchants decide.

## 6. Proofs

All are for every number of callers, amount, fault budget and timing, unless said.

- `LabelPurchaseProofs`: `TypeCorrect` for any timing; `LabelSavedForGood`,
  `PurchasedOnce`, `PurchaseRemembered` and `Refinement` (every step of
  `LabelPurchase` is a step or a stutter of `OneLabel`) under `Trusted`: no attempt
  outlasts the lock, and either no adapter can search, or the shop keeps one carrier
  and a purchase is on its books by the time its caller gives up. The invariants alone
  are not inductive: whether a purchase may be open depends on where its buyer is, and
  a row may be deleted only because of what the deleter once read. `IInv` adds
  `HolderInv` (a holder's row is there, fresh and its own, and nobody else has bought),
  `StaleInv` (who judged a row stale judged a dead maker's row, and while the row is
  there the judgement stays right) and `SavedInv` (what is saved was bought). One
  lemma per action.
- `LabelCompletionProofs`: `TypeCorrect`, `ChargesAreAnnounced`, `ChargesAreBilled`,
  `FinishedLabelsAreEmailed`, `StatusMovesForward`. `IInv` says what each step knows:
  `DueInv` (past the charge the entry is in the ledger, and what a slot has seen is
  there), `BilledInv` (who is to record a success has seen the meter take it),
  `MailInv` (past the email an email has left and the return has moved on). Who pays is
  settled only while the shop keeps its carrier: `CarrierInv` (every attempt has seen the
  carrier the label was bought with) and `PayerInv` (past the charge the entry is there
  exactly if the platform paid); `ReadKeepsPayer` is the step where the two meet.
  `MailsAreBounded` is a count: until `label.emailed` is in the ledger, the emails that
  left, the slots that may yet send one or let another in, and a free claim are at most
  one more than the faults (`MailsInv`); after that only those being sent still count.
- `RefundProofs`: `TypeCorrect`, `ProcessedReturnsArePaid` and `AmountOnFileIsMoved`
  from the steps that lead to the record (`SlotsInv` says what each slot holds there and
  in which currency), with nothing assumed of the key. `MoneyMovesOnce` assumes
  `KeyLasts`: Shopify remembers the idempotency key for as long as a call is on its way
  that looked for a refund before there was one, and may forget it after that. Slow
  attempts and late landings are allowed. The key alone does not give the theorem, for
  later attempts meet no key: `KeyInv` says that while anybody is on the way from
  reconciliation to the refund, either none is made, or its key is known, or it is one
  that reconciliation does not count (`Barren`: the first with the note, and it moved
  nothing), and `AskingStarts` that nobody who has found a refund sets out. Under the
  same hypothesis `Refinement` shows that every step is a step or a stutter
  of `OnePayout`; it also needs `MoneyInv` (nothing is asked of Shopify for an exchange
  or a local return, so no late request can pay one). `SplitsAreExact` is about `_allocate`,
  for payments of any amount but at most three of them, which is where it is true (section
  7): a share is rounded to the nearest penny and never exceeds its payment while the
  refund is covered (`ShareRounds`, `ShareWithinPayment`), and what up to two shares leave
  is not negative, fits the last payment and is within a penny of its share (`RestFits`).
- `ReturnLifecycleProofs`: `TypeCorrect`, `StatusNeverBackwards` (every write of an
  open status carries its own condition) and `ParcelReceivedOnce` (each announcement is
  paid for by an open return or by an overwriting decision).
- `WebhookInboxProofs`: `TypeCorrect`, `AppliedStays` and `AcknowledgedIsApplied`
  (the key is `done`, and a delivery past its handler, only of applied work);
  `EventAppliedOnce` by counting: applications, deliveries at the handler or about to
  release the key, and a free key are at most one more than the faults (`OnceInv`).
  On `PrivacyRequests`: `ErasedStaysErased`. `DeletedInv` says how far an attempt has come:
  of the returns whose turn is over no file is left, or there is an excuse. `WriterInv` says
  that whoever began on a return after its erasure found nothing personal to write; what the
  others write is an excuse of their return. Excuses never go away (`ExcusesStay`).
- `ReturnIntakeProofs`, on `ReturnIntake`: `TypeCorrect`, and `SlotsAreCounted`, which is
  inductive on types alone: the conditional increment is what keeps `count` within the
  limit, and a second roll costs at most a limit's worth. `ClaimsFitTheOrder` and
  `UnitsArePromisedOnce` add quantities up: `UnitsJoin`, `UnitsLeave` and `UnitsStay` say
  how the counted set changes when one return changes its state (that the set is finite is
  part of the invariant). `ClaimInv` bounds the claims by the units sold, because what
  Shopify answered is never more; `PromiseInv` bounds them with what was refunded, which
  needs `AnswersKnown`: an answer held now is at most what is left now plus what was
  refunded since, and that is in `staleUnits`.
- `ReturnIntakeProofs`, on `PortalJourney`: `JourneysComplete`, `PhotosAreReported`,
  `OnlyAllowedReturns`, `FeesAreAsQuoted`. The four rest on `JourneyInv`. `TabInv`: what
  is sent names an order, an item and a resolution, with every reason once the server has
  taken it up, and while a page waits for an answer it stays, with the journey it has sent,
  and waits for no other. `CheckInv`: every item of a submission at the server is still to
  be judged, or was judged by a policy in force since the request was read, and once it is
  priced it is `Acceptable` and its fee is that of those rules. So `OnlyAllowedReturns`
  follows though policies change between the server's reads; `ClaimsOfNew` adds the new
  return to the claims of its items. `FiledInv`: every submission that made
  a return, and the confirmation, has one on file that is nobody else's; without it another
  submission could change the photos under a confirmation. `ReportInv`: the photos that are not
  still to be uploaded are attached, unless an upload has failed. `QuoteInv`: a quote is the
  fee of the journey it stands by. `PostStep`, `SendingStep` and `FiledStep` do the
  interleaving once: what any step can do to a submission, and to one that has its return;
  `OnlyCreateMakes` names the step that makes one. A fee is the
  highest of a finite set, and that there is one (`LargestOf`) is proved by descent: the
  smallest size at which a set had no largest element would be one too large.
- `PlanSyncProofs`: `TypeCorrect`, `PlanIsPaidFor` and `ResetsAreEarned`. The first needs
  `SyncInv`: nobody knows of a change that has not happened (`BooksInv`), whoever knows
  of the last one would write the plan it left (`CarriedInv`), and the last change has
  been written or its notice is still to come (`WrittenInv`). The second needs
  `EarnedInv`, which counts the activations still under way as well, and `FreeInv`: while
  Shopify's free plan has never been active nobody has heard of one (`OnlyPreviewsAreFree`).
- `ShopConfigurationProofs`: `TypeCorrect`, `NothingIsWiped`, `DefaultStaysAlone`,
  `PlanLimitHolds`, `CredentialsAreKept`. Each action property needs to know what a
  request that was not overtaken holds: `SettingsFresh`, `PolicyFresh` and
  `CarriersFresh` say that what it read is what is stored (and that there is no other
  default, or that the limit still has room). `OthersFresh` does the interleaving once
  for all three: a step leaves every other request as it was, or overtakes it.
  On `ShopCredentials`: `TokensTyped` and `NewestIsOnFile`. That the newest credential is on
  file when nothing is under way needs to know more while something is. `OwnerInv`: a
  promise in flight has one caller that works for it. `ReadInv`: what a call read and is not
  fresh is what is stored, or was until a fresh one replaced it. `IssuedInv`: while an
  exchange waits for its write nobody has read anything that could be refreshed, and while
  a refresh does, nothing that would be exchanged, so what was issued is not superseded.
  `FiledInv`: unless a new one is on its way to the file, the newest is on file. All of it
  holds until one of the named troubles has happened (`CalmInv`).

`ChargesAreBilled`, `FinishedLabelsAreEmailed`, `AmountOnFileIsMoved` and
`ProcessedReturnsArePaid` state invariants (`ChargedIsBilled`, `FinishedIsEmailed`,
`RecordedIsMoved`, `ProcessedIsPaid`) that no run repeats, and the
same goes for `TypeCorrect` of the modules whose runs leave `TypeOK` out.

The constants' assumptions are named in their modules and evaluated by TLC in the
runs; `Trusted` and `KeyLasts` are hypotheses of the theorems that need them and hold
in the runs' instances.

## 7. Disagreements

One run shows the code doing what its comments say it does not:

- `status_broken`: the status page opened without an email asks for it. Submitting the
  form sets `email`, and React renders once more before the effect starts the request:
  no return, no error, not loading, and `ret.id` of null. The portal has no error
  boundary and goes blank.

Seen while modelling, and excepted in the properties or assumed away by a named
constant rather than given a run:

- "bring-your-own carriers don't" pay per label (`LabelService.js:99`): the charge goes by
  the carrier of the moment, so that a switch between the save and the charge loses or
  adds it (`ChargeAnnounced` with `switches`). A label reconciled without a rate has no
  cost and is never billed (`ShippoAdapter.js:296`), and a shop left without a carrier
  never finishes a saved one, for every attempt throws first (`EventuallyFinished`);
- the return fee is a number of the shop's currency and is taken off a gross in the
  customer's (`RefundService.js:133`). A refund found by its note is read in the shop's
  currency and filed without one (`RefundService.js:218`, `244-249`): right by itself, but
  filed over an answer of Shopify's it leaves the shop's number under the customer's
  currency, and a store credit that is taken from its `refund.attempt` leaves the
  customer's number under the shop's (`RecordedIsMoved`, `OnePayout!File`);
- "a refund that already went through is found" (`RefundService.js:51-53`): only the first
  with the return's note is. When that one moved nothing, a later one that did is never
  found, may be repeated once Shopify has forgotten the key, and may never be filed
  (`MovedOnce`, `EventuallyRecorded`);
- "only reset the usage counter when a paid plan activates" (`BillingService.js:145-146`):
  the activation of Shopify's free plan wipes the count as well, of a shop that
  was just downgraded to it (`wiped`);
- "Show the fee ... before the customer commits" (`ConfirmationPage.jsx:45`): Submit is live
  while the quote is pending and after it has failed, and for an exchange no fee is shown
  (`FeeAsQuoted`). The browser's Back lets a tab submit an item without a reason, which
  the server refuses (`ReturnValidation.js:195`); and the server reads the policies item
  by item, so that an edit in between holds for some items and not for others;
- "a merchant saving their address meanwhile must not lose it" (`BillingService.js:208-209`):
  a label job reads the settings afresh and writes them back whole in a second statement,
  so that a save between the two is lost (`raced`);
- the label row takes the delivery before the return is moved (`trackParcels.js:93`); a
  stop in between leaves the return open until somebody else marks it received;
- two requests that both loaded an expired cycle roll it one after the other, and the
  second wipes the slot the first has taken (`planGating.js:15`, `lateRolls`);
- subscription webhooks are applied as they arrive (`BillingService.js:139`, `strayed`);
  an ACTIVE heard after the CANCELLED that followed it leaves a plan on;
- `_allocate` with four or more payments can send more than the refund: 2 over payments
  of 1, 1, 1, 1 sends 3 (`RefundSplit`);
- an item that was passed over as "Already returned" has no row on the return, so its photos
  end up on none, without a warning (`PhotosReported` is about the items of the return);
- shop/redact passes over storage errors and deletes the rows that named the files; only
  the first page of a return's files is listed; a return made while a redaction is
  under way is not erased (`excuse`, `asked`);
- the settings page and orders/fulfilled write back the settings they read, so that one
  of two overlapping writes is lost, although a comment says a stale snapshot cannot
  wipe what was written since (`raced`);
- a policy form opened before the default moved sends its old `isDefault` back and takes
  it again; a crash between clearing and creating leaves no default; two installs
  that both count none create two defaults;
- after a downgrade a carrier above the limit cannot even be switched off (403), only
  disconnected (`CheckLimit` refuses whatever leaves too many active);
- a purchase that lands after `findLabel` has called it failed (`LateLanding`), an
  attempt that outlasts the lock (`SlowAttempts`), and a change of carrier while a
  purchase is open each let postage be bought twice;
- `label.emailed` is written after the email, so a failure there sends it again
  (`MailsBounded` counts it);
- the charge job counts attempts before it takes its claim and can overrun the limit by
  one, harmless because the meter knows the key;
- a refund that moved nothing asks for zero when retried and is accepted, and a store
  credit records the amount asked for (`RecordedIsMoved` is about money refunds);
- a webhook refused its claim looks the key up by a second command, and a key released
  in between reads as a finished duplicate (`blind`);
- any failure of a refresh clears the stored token, though only an "unrecoverable" one
  is said to; the shop then waits for the merchant's next visit (`Heals`);
- declining a proposed charge drops a shop with another active plan to FREE (`declined`).

## 8. Only model-checked

Liveness under fairness (`EventuallyFinished`, `EventuallyCharged`,
`EventuallyRecorded`, `NotSilent`, `DeliveredIsReceived`, `EventuallyAcked`, `Heals`,
`EventuallyErased`) is outside the prover's reach. Every safety property of the passing
runs is proved; three groups of theorems (`PurchasedOnce` with its companions, that is
`PurchaseRemembered`, `LabelSavedForGood` and the refinement; `MoneyMovesOnce` with its
refinement; `SplitsAreExact`) under a hypothesis that the code does not guarantee by
itself, named with them above. `NeverBroken` is false.

## 9. Not modelled

- Data: labels, addresses, names, email texts; the contents of draft orders.
- Limits that only postpone: the recovery job's back-off and look-back window, batch
  sizes, how long parcels are tracked, the 24 hours a `done` key is kept.
- Webhooks without an event id or with a body that is not JSON: they bypass the inbox.
  shop/update, and the text of the data-request email.
- The legacy OAuth redirect, which managed installation never runs.
- Plan names the code does not know (`planKeyFromName` maps what it knows), and the upgrade
  half of POST /subscribe, which only proposes a charge to Shopify.
- Two server processes for the credentials: the promise maps are per process.
- In `ReturnIntake`, the billing writers of `returnCount` (`BillingService.js:147`,
  `billing.js:178`): a new plan's cycle starts from zero there, in `PlanSync`.
- In the portal: branding, the map of drop-off points and its search, the demo.
- In the dashboard: validation of formats, carrier test calls, the test return;
  `ReturnDetailPage`, `ReturnsListPage`, `AnalyticsPage` and the other pages that show what
  a request returned and send one request per click. The requests they send are actions
  of `ReturnLifecycle`.
- Other carriers' request formats: they occur as carriers that cannot be searched.
- Notifications other than the label's: sent and forgotten, with retries that are the
  queue library's.
- Analytics (reads only), rate limits, logging, encryption, wiring, email templates.
