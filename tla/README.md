# Bzaro in TLA+

Bzaro is a multi-tenant B2B marketplace: sellers keep a catalogue and a small
website, buyers post requirements or contact a seller, and the platform sells
the sellers plans, lead credits and add-ons. It is a Next.js application over
one Postgres database (Prisma, READ COMMITTED), with a separate worker process
for leads, cron jobs, and Razorpay, Shiprocket and WhatsApp outside.

This directory models the parts where that combination is hard to get right:
requests, webhooks, jobs and workers that read a row, leave the database, and
write later. Source paths below are relative to the repository; services are
in `src/server/services/`.

## 1. The system

| Part | State it keeps | Operations | Talks to |
| --- | --- | --- | --- |
| **Lead inbox** `lead-inbox.service.ts` | `Lead.status`, `expiresAt`, `LeadFlag` | view, accept, close, flag, outcome | credits (an accept debits in the same transaction) |
| **Credits** `credit.service.ts` | `CreditLedger` (append only), `Seller.creditBalance` | debit, refund a flag, adjust, monthly grant, top-up after a plan change | inbox, plans, packs, cron |
| **Requirements** `requirement.service.ts`, `buyer-account.service.ts` | `Requirement`, its DIRECT lead | create, close | fan-out reads them later |
| **Fan-out and matching** `fanout`, `matching`, `lib/leads/*` | `fanoutStatus`, `fanoutAttempts`, `Lead`, `leadsReceived` | claim, dedupe, match, write leads, retry, nightly recount, expiry sweep | worker, delivery outbox |
| **Delivery** `delivery.service.ts`, `lib/notify` | `LeadDelivery` status, attempts, lease (`updatedAt`) | claim a batch, notify, record | WhatsApp provider |
| **Worker** `src/server/worker/index.ts` | none but its claims | two drain loops and a sweep; may run several times | fan-out, delivery |
| **Cart, checkout, orders** `cart`, `order` | `Cart`, `Order`, `DemandAlert` | add, check out (Razorpay or COD), confirm, finalise | buyer's browser, Razorpay, the order webhook |
| **Shipping** `shipping.service.ts` | `Order.shippingStatus`, `shiprocketOrderId`, `awb` | claim, book, label, release | Shiprocket; called by the seller and by the end of a payment |
| **Plans and subscriptions** `billing`, `plan` | `Subscription`, `Payment`, `InvoiceCounter`, `Seller.webPresence` | checkout, activate, charge, past due, end, change by an administrator, nightly sweep | Razorpay, billing webhook, credits |
| **Purchases, coupons** `billing`, `coupon` | `Purchase`, `CouponRedemption`, `SellerFeature` | add-on, pack and plan-pass checkout, fulfil once | Razorpay, credits, subscriptions |
| **Plan refunds** `refund.service.ts` | `RefundRequest`, `Payment.refundedMinor` | request, reject, approve, gateway failure | Razorpay, subscriptions |
| **One-time codes** `lib/otp` | `OtpChallenge`, `EmailOtp` | issue, verify, consume | mail and SMS |
| **Sign-in** `lib/auth`, `auth`, `handoff` | `User` lock and tokens, signed sessions | sign in, lock out, revalidate, hand over to a store | every page |
| **Seller lifecycle** `seller`, `onboarding`, `admin`, `publish`, `catalog` | `Seller.status`, moderation of content, counters | register, verify, suspend, publish, release waiting content | indexability, caches |
| **Import and photos** `import`, `gallery`, `actions/import-photos.ts` | `ImportJob`, `ProductImage`, `GalleryItem` | claim, chunked write, attach | media store |
| **Rest** search, taxonomy, SEO, blog, media, mail, cache, rate limits, rendering | mostly read models and text | — | — |

`PROJECT.json` lists each of them with what is modelled and why the rest is not.

What is hard, and where it bites:

- *Reads before writes.* Almost every handler reads a row by one query and
  writes it by id in another. Conditional `updateMany` claims are used in some
  places (accept, order payment, refund approval) and not in others (flag
  refunds, subscription status).
- *Work outside the transaction.* Gateway calls, tier recomputation, top-ups
  and cart clearing follow a commit and can be lost or overtaken.
- *At-least-once delivery.* Both webhook routes record the event first; only
  the billing route forgets it again when its handler throws.
- *Claims held without a lock.* The fan-out claim has no lease; the delivery
  claim has one shorter than its batch may take.
- *Windows and allowances.* Deduplication by days, quotas by IST week and day,
  monthly ledger slots, grace periods.

What makes each part correct is stated by its properties (section 4). The list
of hazards in `PROJECT.json` gives the line of each and the property over it.

## 2. Modules

| Module | Models | Code it stands for |
| --- | --- | --- |
| `LeadAccount` | what the credit system promises a seller, without requests or ledger | abstract |
| `LeadCredits` | inbox, ledger, flags, grants, top-ups, recount of `leadsAccepted`; implements `LeadAccount` | `lead-inbox`, `credit`, parts of `plan`, `fanout`, `admin-leads` |
| `LeadFanout` | requirements, workers, matching, leads, recount of `leadsReceived` | `requirement`, `fanout`, `matching`, `lib/leads/quota`, `scoring`, worker |
| `LeadDelivery` | outbox, lease, provider | `delivery`, `lib/notify`, worker |
| `StoreOrders` | cart, order, payment, webhook, shipping | `cart`, `order`, `shipping`, order webhook |
| `Subscriptions` | plans of one seller, events, charges, invoice numbers, tier | `billing`, `plan`, billing webhook |
| `PlanPricing` | quotes, GST, discounts, Razorpay's immutable plans, invoices | `lib/billing/gst`, `coupon`, `billing`, plan and settings actions |
| `Purchases` | packs, features, plan passes, coupons, invoice counter | `billing`, `coupon`, billing webhook |
| `PlanRefunds` | refund requests, approval, Razorpay's refund and its late failure | `refund`, billing webhook |
| `OneTimeCodes` | codes for phones and mailboxes, single-use links | `lib/otp`, `lib/tokens`, their callers |
| `Catalogue` | products, photographs, bulk import, verification, moderation | `catalog`, `publish`, `import`, `import-photos`, `admin` |
| `Indexability` | rules, stored verdict, everyone who recomputes it, tenant cache | `index-eligibility`, `indexability`, `resolve`, the writers |
| `LeadFanout_proofs`, `StoreOrders_proofs`, `Purchases_proofs`, `PlanRefunds_proofs`, `OneTimeCodes_proofs` | theorems about the module of that name | — |
| `Leads_proofs` | theorems about `LeadCredits`, its refinement of `LeadAccount`, and `LeadDelivery` | — |
| `Plans_proofs` | theorems about `Subscriptions` and `PlanPricing` | — |
| `Content_proofs` | theorems about `Catalogue` and `Indexability` | — |
| `MC…` | constants and symmetry of the TLC instances | — |

`LeadDelivery`, `PlanPricing` and `Indexability` call their specifications
`DeliverySpec`, `PricingSpec` and `SearchSpec`, and so on, because a proof
module extends them together with another component.

They share a reading of the code:

- **A step is a transaction or a query.** A request keeps in `req` (`worker`,
  `checkout`, `act`) what it has read. A transaction whose first write locks a
  row is one step from that write on; its earlier reads are steps of their own.
- **Guards are the code's**: early returns, `where` clauses, unique indexes
  (`P2002` is a refused or rolled-back step), CHECK constraints (in `TypeOK`).
- **A process dies by stopping.** Where nothing follows from its death a
  request may simply stay where it is for ever (`LeadCredits`); where a bound
  or an excuse needs it, a fault is counted (`crashes`, `lostAcks`, `faults`,
  `throws`, `deaths`, `used.rare`).
- **Histories** (`replaced`, `crowded`, `overlapped`, `torn`, `late`,
  `missed`, `crossed`, `before`, `effects`, `guesses`, `writes`, …) record what happened, are read by
  properties only, and guard nothing.
- **Data is what the properties tell apart**: no texts or addresses; prices only
  in `PlanPricing`; the score of a seller is any order; expiry is a set of
  rows past it; a signature is valid exactly for what the gateway did.

How state and actions correspond:

- `LeadCredits`: `status`, `flag`, `balance`, `ledger`, `accepted` are columns;
  `plan` is the plan of the live subscription; `period` is the `periodKey` of
  the month. `acceptRead`/`acceptCommit`/`acceptRefused` are `acceptLead` up to
  and from its claim; `refundRead`/`refundCommit` split `refundForFlag` at its
  unlocked read; `topUpSum`/`topUpSlot`/`topUpWrite`/`topUpConflict` are the
  queries of `topUpCreditsForPlanChange`; `grantList`/`grantOne` the cron job.
- `LeadFanout`: one action per query of `processRequirement`
  (`readRequirement`, `findDuplicate`, `findMatchedSellers`, `writeLeads`,
  `markFanout`) between `claimNextRequirement` and `failRequirement`. `day` is
  the IST calendar, `DaysPerWeek` shortens its week.
- `LeadDelivery`: `deliveryStatus` is the outbox row's column; `leased` is "updatedAt less than a minute ago",
  `LeaseExpires` is that minute; the batch and the row in hand are the worker's.
- `StoreOrders`: `captured`, `due` and `bookings` are what Razorpay and
  Shiprocket know; `events` is the `WebhookEvent` table; `req` is one server
  action or webhook delivery, stepping through `markPaid`, `finaliseOrder`,
  `createShipmentForOrder` call by call.
- `Subscriptions`: `gateway`, `charges` and the `due` events are Razorpay;
  `sub`, `invoice`, `nextInvoice`, `presence` are rows. `switchPlan` is the
  commit of an activation and of `changeSellerPlan`, which write what an
  earlier read found; `stopOld` and the two recompute steps follow outside.
  `Nightly` is the recompute-web-presence job, an actor of its own beside the
  handlers: it sweeps, reads the plan and writes the tier in steps that a
  handler's cross.
- `PlanPricing`: a `checkout` goes through the queries of `startPlanCheckout`
  and `ensureGatewayPlan` (`readPlan`, `quotePlan`, `createGatewayPlan`,
  `storeGatewayPlan`, `createGatewaySubscription`); `savePlan` and
  `updateBillingSettings` may happen between any two of them. `Round` is
  `Math.round` on the fractions the code computes, exactly, in integers.
- `Purchases`: `fulfillPurchase` is split in `fulfillClaim`, which waits for the
  rows it locks (a claimed purchase, the invoice counter) and reads the live
  plans, and `fulfillCommit`; a transaction that throws has done nothing.
- `PlanRefunds`: an approval is `approveRefund` (the claim),
  `refundGatewayPayment`, `recordRefund` and `stopAutopay`; `putBack` and
  `markFailed` are its error branches; `notice` is Razorpay's `refund.failed`.
  The other writers of the subscription run against it: a charge
  (`recordSubscriptionCharge`), a failed renewal (`receivePastDue` reads,
  `markSubscriptionPastDue` writes by id), an ended autopay (`receiveEnd`,
  `endGatewaySubscription`) and the nightly expiry. `ByHand` are payments
  without a `gatewayPaymentId`, which `refundByHand` books without a call.
- `OneTimeCodes`: `issue`, `deleteOlder`, `createRow`, `send` make a row;
  `verifyCode` or `verifyLink` read it, `countMiss` and `consume` are the
  conditional updates, `effect` what the caller does with a success;
  `guesses` counts the guesses a code was compared with, before either update.
- `Catalogue`: `createWrite`/`updateWrite` are the commit of a save whose reads
  (`createProduct`, `updateProduct`, `updateSignals`) are earlier steps; the
  import is `upload`, `commitImport`, `claimImport`, `importSignals`, and per
  chunk `importRead` and `importWrite` or `importRollback`, then
  `finishImport` and `discardBatch`; `verifySeller` and
  `releasePendingContent` are one administrator's action with two commits.
- `Indexability`: `getIndexEligibilityRules`, `readSeller`,
  `readCount`, `storeVerdict` are the queries of `recomputeIndexability`; each
  writer of the seller starts it or forgets to, as in the code, and is named by
  its server action (`verifySellerAction`; `releaseContent` is
  `releasePendingContent`); `readTenant` and `cacheTenant` are a visitor's
  request that fills the cache. `missed` names every reason for which the flag
  may be wrong with nobody about to store another; `crossed` are the
  recomputes that something changed under.

## 3. Runs, bounds, fairness

With two workers the longest run takes about three minutes.

| Run | States | Instance | What it asks |
| --- | --- | --- | --- |
| `account` | 381 k | 1 seller, 1 MARKET lead, 2 plans, 4 requests, 2 months | everything about credits, and the refinement of `LeadAccount` |
| `fanout` | 439 k | 1 worker, 2 requirements of the same wish, 2 sellers, 4 days in weeks of 3, 2 attempts | dedupe window and its edge, quotas across midnight and the week's end, retries, liveness |
| `two_workers` | 275 k | 2 workers, 2 requirements (one from a seller's page), 1 crash, 1 lost acknowledgement | claims, counters under retries |
| `delivery` | 345 k | 1 worker, 4 rows (panel, two WhatsApp, one unreachable), batch 2, 2 attempts, 1 fault | sends, retries, liveness |
| `orders` | 41 k | 1 order, 2 requests, 1 fault | browser against webhook against seller, liveness |
| `plans_live` | 287 k | an autopay plan and one by hand, 1 handler and the nightly job, 1 fault | failed charges, grace, sweep, a recompute across a change of plan, liveness |
| `pricing` | 791 k | 2 checkouts of one plan, odd prices, 2 rates, a third off | price and rate changed between any two queries |
| `purchases` | 170 k | 2 passes with one coupon, an autopay, 2 requests, 1 fault | fulfilment once, coupon limits, one live pass, liveness |
| `refunds` | 529 k | an autopay charge and a payment by hand, 2 refund requests, 2 requests, 1 fault | approval against charge, failed renewal, end and failure, liveness |
| `codes` | 5.0 M | 2 codes and a link, 2 requests, 2 attempts, 3 ticks, 1 death | guesses, resends and expiry |
| `catalogue` | 2.7 M | 2 products, a limit of 1, a photograph each, 2 requests, 2 forms, 2 administrator's actions, 1 upload, 1 rare event | saves, import and administrator at once |
| `search` | 1.06 M | 1 handler and the nightly job, 1 content fact, 3 changes | missed hooks and stale caches, liveness |

Why these bounds suffice. The races in this code are between *two* actors over
*one* row, with one failure; each instance has at least the two actors, the
row, and a third party where one matters (four requests in `account`: two
accepts or two administrators, an adjustment and the recount). In `plans_live`
the two are a handler (of a webhook, the browser or an administrator) and the
nightly job, so that every change of plan can fall between the job's read and
its write of the tier, and the job's sweep between a handler's; two handlers
beside the job are in `upgrade` below. In `search` the second actor is the
nightly job too, and `two_handlers` below has two handlers beside it. Sellers do not interact in `LeadCredits` except through the grant
job's list, so one is enough, and the theorems cover any number. A requirement needs a second of the same
fingerprint, inside and outside the window; four days with weeks of three and
a window of one day put a day, a week's end and both sides of the window in
one behaviour. Two attempts reach "the last one fails", for fan-out as for
codes; three ticks with a life of one reach an expired code and one past its
cooldown. A product limit of one with two codes gives a row that is over the
limit. The prices of `pricing` are odd paise, for which rounding bites.

A bound that caps the environment is named (`MaxDay`, `MaxClaims`,
`MaxCharges`, `MaxCycles`, `MaxFaults`, `MaxClock`, `MaxForms`, `MaxRare`, `MaxChanges`,
`Troubled`, `AutopaySellers`, …). `MaxClaims` leaves room for the attempts and
the fault together and never stops a row that fairness should serve.
`Troubled` keeps failed charges and revoked mandates to the rows a run is
about. One chunk holds a whole file, and one import runs at a time.

Symmetry is used over requests and over interchangeable rows, in runs without
liveness only.

Deadlock is not checked: requests run once, calendars, clocks and charges are
bounded, and the system is at rest when nobody asks anything of it.

Fairness is weak for what the code drives: the step a request or worker is at
(its process runs unless it dies, and dying is an action of its own), the
passing of the lease's minute, the expiry of a cached page, and the nightly jobs
(the sweep of passes, the recompute of verdicts, the billing job: each is an
actor of its own that cron starts every night, and its guard stays true until
it runs), and the delivery of `refund.failed`. It is strong for a webhook
delivery that a free handler can take, because Razorpay repeats it until it is
answered.
Nothing makes a buyer, a seller, a visitor's first request or an administrator
act. The liveness properties excuse the failures the code does not recover
from, and name them: `CapturedIsFinalised`, `ChargesAreInvoiced`,
`ReplacedIsStopped` and `ApprovedIsDecided` any failure; `PaidIsFulfilled` a
death, or a redelivery answered as a duplicate while the first handler could
still fail. `EventuallyDecided` of `LeadFanout` holds with thrown queries but
no death of a worker; `EventuallyDecided` of `LeadDelivery` with both;
`TierCatchesUp` and `PagesComeRight` with every failure of their models.

### Further instances

Configurations beside the listed runs, for `tlc -config X.cfg M`. These pass:

| Configuration | States | What it adds |
| --- | --- | --- |
| `MCStoreOrders_two_orders` | 2.2 M | two orders from one cart; `ClaimsAreReleased`, `ShippedIsFinal` |
| `MCSubscriptions_upgrade` | 5.7 M | a monthly and a yearly plan by autopay, two handlers beside the nightly job; `InvoicesAreSequential` |
| `MCPurchases_free` | 89 k | a pass a coupon makes free, a feature; `InvoicesHaveNoGaps`, `PassGetsItsTier` |
| `MCPlanRefunds_others` | 297 k | two autopay charges, no fault; `OnlyApprovedIsRefunded`, `RefundedIsBacked`, `RefundStopsAutopay`, `FailureIsSeen` |
| `MCOneTimeCodes_links` | 1.0 M | two links; `CooldownKeepsApart` |
| `MCCatalogue_others` | 930 k | one product, 3 administrator's actions; `UnverifiedEditsAreReviewed`, `ApprovedShowsItsPhotos`, `RunningIsWorkedOn`, `DeletedFreesItsCode` |
| `MCIndexability_two_handlers` | 1.76 M | two handlers beside the nightly job |

These state what a doc, a comment or a name in the repository says and the code
does not do. TLC refutes each; a configuration with several stops at the first
it meets, so keep one at a time (`CouponLimit`, `OneOpenCode` and
`GuessesWithinLimit` are to be added to the configuration named).

| Configuration | Property | What TLC shows |
| --- | --- | --- |
| `MCLeadCredits_refuted` | `OneRefundPerFlag` | "Idempotent per flag": `refundForFlag` reads the flag without a lock; two administrators both return the credit |
| | `OutcomeAfterReveal` | a viewed MARKET lead nobody paid for is marked WON (`lead-inbox.service.ts:378`) |
| | `OutcomeKeepsReveal` | marking a paid lead CONTACTED hides its number (`lib/leads/projection.ts:91` against LEADS.md:95) |
| | `AcceptedIsCharged` | the recount lowers `leadsAccepted` for leads that moved on |
| | `GrantsWithinPlan` | the monthly grant commits between the two reads of a top-up |
| | `UpgradeIsUsable` | the second upgrade of a month finds its ledger slot taken |
| `MCLeadFanout_refuted` | `DuplicatesAreSkipped` | two workers fan out the same wish; with one worker (run `fanout`) it holds |
| | `QuotaRespected` | two workers use the last place of a week; with one it holds |
| | `AtMostMaxSellers` | a second pass after a lost acknowledgement picks other sellers |
| | `FilledCostsNothing` | a requirement closed during matching is fanned out and paid for |
| | `ReceivedIsCounted` | the recount overwrites a lead written after it counted; without a recount it holds and is proved |
| `MCLeadFanout_stuck` | `EventuallyDecided` | a worker dies and its requirement is RUNNING for ever |
| `MCLeadDelivery_refuted` | `AttemptsAreLimited` | a row whose processing throws has no limit |
| | `NeverTheSameRow` | the lease ends while its batch is still worked on |
| `MCStoreOrders_refuted` | `BookedOnce` | the claim before Shiprocket leaves its own condition true, so "two concurrent 'Ship now' presses" (`shipping.service.ts:90`) both book the order |
| | `CapturedIsConfirmed` | the order webhook keeps its dedupe row when the handler fails, so the retry of "the reliable half of payment confirmation" is answered as a duplicate; the billing webhook drops the row |
| `MCSubscriptions_two_live` | `OneLivePlan` | a charge event of a replaced plan that arrives later writes ACTIVE over CANCELED ("Plan switches … end the old one") |
| `MCPurchases_free` | `CouponLimit` | two checkouts pass a limit that is read at their start and counted at payment |
| `MCPlanRefunds_refuted` | `RefundDropsThePlan` | "cancels the subscription and drops the seller to Free" (`refund.service.ts:14-15`): a charge that was made before the refund and is reported after it makes the plan ACTIVE again |
| | `RefundedPlanEnds` | with every payment given back: the handler of a failed renewal reads ACTIVE, the refund writes CANCELED, the handler writes PAST_DUE by id and the plan lives on through its grace (`billing.service.ts:613-633`) |
| | `OneRequestPerPayment` | two requests read the same refundable payment and no unique index stands behind the `P2002` branch |
| `MCOneTimeCodes_mailbox` | `OneOpenCode` | two codes issued at once each delete what they see ("rather than leaving two live ones") |
| | `GuessesWithinLimit` | "two parallel guesses cannot both pass as the third" (`challenge.ts:20-23`): both read the counter below its limit and are compared, and only then the guarded increment refuses one; a right guess is not asked for the counter again |
| `MCIndexability_suspended` | `ListedChangesAreRecomputed` | "Recompute after: … suspension" (`indexability.service.ts:27-28`): `suspendSeller` (`admin.service.ts:262-290`) recomputes nothing |
| | `NeverPermanentlyWrong` | the nightly job skips suspended and rejected sellers, whose stored flag stays as it was; their pages are gone by their status (`PagesComeRight`) |

## 4. Properties

- **Credits.** `RevealedIsPaid`: a MARKET number is shown only for a charged
  lead. `ChargedOnce`. `RefundsAreEarned`: refund rows and REFUNDED flags
  coincide and follow a charge. `LedgerExplainsBalance`: the cached balance is
  the running sum. `OneGrantPerPeriod`. `ImplementsAccount`: all of it together
  is an account that is debited once per lead, credited only for bought leads,
  and granted once per kind and month.
- **Fan-out.** `OneWorkerPerRequirement`, `DuplicatesAreSkipped`,
  `QuotaRespected`, `ReceivedIsCounted`, `EventuallyDecided`.
- **Delivery.** `ExtraSendsAreFaults`: each message beyond the first is
  explained by a fault. `EventuallyDecided`.
- **Orders.** `PaidIsCaptured`, `AlertedOnce`, `NothingShipsUnpaid`,
  `CapturedIsFinalised`.
- **Plans.** `LiveIsAuthorised`, `ChargesAreInvoiced`, `ReplacedIsStopped`;
  `TierCatchesUp`: the tier agrees with a live plan again and again, also when
  the job and a handler recompute at once and the one that read first writes
  last.
- **Prices.** `ChargedAsQuoted`: every cycle charges what was quoted, whatever
  was changed, kept and reused meanwhile. `InvoiceMatchesQuote`: taking the tax
  out of the charge gives back the quoted base to the paisa.
- **Purchases.** `RedeemedIsPaid`, `PassStartsOnce`, `OnePaidPassLive` (the
  invoice counter is what makes it so), `LimitsHoldOneAtATime`,
  `PaidIsFulfilled`.
- **Refunds.** `LivePlanIsPaidFor`: a plan that is live, in grace too, has a
  payment nobody refunded. A late charge may revive it, being such a payment;
  the one exception is the failed renewal whose handler read the plan live
  before the last refund was booked. `OneRequestUnlessOverlapped`,
  `ApprovedIsDecided`.
- **Codes.** `GuessesAreBounded`: how far parallel guesses and dying processes
  can stretch the limit: one guess for each further request at once and for
  each death before the count, and no order of them more. `OneEffectPerCode`,
  `ReplacedIsNotAccepted`.
- **Catalogue.** `VerifiedIsReleased`: nothing of a verified seller waits for
  review, save what a save that overlapped the verification wrote.
  `RejectionStands`: an edit never undoes a rejection it could have read.
  `RowsWrittenOnce`, `FinishedJobTellsWhatLanded`.
- **Search.** `NothingIsForgotten`: the stored verdict is what the seller
  deserves, or somebody is about to store it, or one of six named gaps
  occurred since a verdict was last stored: a suspension or a rejection (which
  recompute nothing), a verified phone or new rules (which recompute nobody),
  the death of who owed it, or a change between the last storer's reads and
  its write. `PagesComeRight`: in the end visitors are served it.

Each is broken by a mutant, an operator beside the definition it changes the
way a plausible slip would (a dropped guard, an off-by-one, a missing call).

## 5. Proofs

Every invariant and action property that a run or a further instance passes is
a theorem here, with the refinement. Each holds for every value of the constants that satisfies the
module's named assumptions (`LeadsAssumption`, `CreditsAssumption`,
`FanoutAssumption`, `NoLeadAssumption`, `DeliveryAssumption`,
`OrderAssumption`, `SubscriptionAssumption`, `PricingAssumption`,
`PurchaseAssumption`, `RefundAssumption`, `CodeAssumption`,
`CatalogueAssumption`, `IndexabilityAssumption`): finite sets of rows, bounds
that are numbers, null values that are no row, packs that are positive, rates
from 0 to 28 percent, a plan pass bought with a coupon, and an inventory of
facts of which the counted ones are no profile facts.

**Credits** (`Leads_proofs`): `TypeCorrect`, `NoFreeReveal`,
`NoDoubleCharge`, `NoUnearnedRefund`, `BalanceIsExplained`,
`GrantsAreIdempotent`, `SettledStays`. `TypeOK` is inductive by itself once
`Request` says what a request has read (a top-up about to write owes a
positive amount, a grant list holds positive amounts). Every step then falls
into one of two lemmas:

- `LedgerMove`: each step leaves the ledgers alone or appends one row to one
  seller's ledger with `balanceAfter = balance + delta`, and a row with a
  period only into a free slot (`StepIsLedgerMove`). The chain (`ChainStep`)
  and the slots (`GrantStepOnce`) follow from that alone, without looking at
  a single action.
- For leads, a step is a `QuietStep` (no row about any lead, no flag becomes
  REFUNDED, no lead becomes revealed or open again), an accept, or a refund.
  `LeadSafety`, the conjunction of `RevealedIsPaid`, `ChargedOnce` and
  `RefundsAreEarned`, is inductive relative to `TypeOK`: an accept may charge
  because `ChargedOnce` says that an open lead has no charge; a refund has its
  charge because it looks for it in the same transaction. None of the three is
  inductive without the others.

**Refinement** (`Leads_proofs`): `AccountIsImplemented`, that
`LeadCredits` implements `LeadAccount` under the mapping of bought leads,
shown numbers and given slots to the ledger and the statuses. It needs one
more invariant, `RequestsBacked`: what a top-up or the monthly job is about to
give is within some plan's allowance.

**Delivery** (`Leads_proofs`): `DeliveryTypes` and `SentIsSent` for any
number of workers, by `OkWasAccepted`: a result "ok" in a hand follows a
message. `ExtraSendsAreExplained` and `DecisionsStand` are about one worker
process (`OneWorker`), where every row of the batch in hand is still PENDING
(`HeldArePending`) and a row still to be decided was sent no more often than
things went wrong (`SendsAreFaults`).

**Fan-out** (`LeadFanout_proofs`): `FanoutTypes`, `NeverShared`,
`ReceivedFollows`. `Claims`: a worker alone has its requirement, which is
neither absent nor PENDING. `Tries`: a row that may be claimed has an attempt
left, hence no row is claimed more than `FANOUT_MAX_ATTEMPTS` times.
`Counted`, with `NoneYet` (an absent requirement has no lead), makes the
counter follow the leads where no recount runs. Two fan-outs of one
requirement are covered: `RowForIsNew` counts what `skipDuplicates` inserts.

`DuplicatesSkipped` and `QuotasHold` are about one worker, as the two checks
read before they write; TLC refutes both for two (section 3).

- *Duplicates.* Here the window is at least a day and no acknowledgement is
  lost: with a window of nothing nothing is skipped, and a requirement whose
  leads are written and which is still RUNNING is not seen by `findDuplicate`.
  `Marked`: who was matched is DONE and stays so. `StillNew`: what
  `findDuplicate` did not find is still not there when the leads are written,
  although days pass and buyers ask for more in between.
- *Quotas.* `Kept` is the limit, for every span of days. `Room`: a ranked
  seller still has room for a lead written now. Midnight between the count and
  the write only moves the span to a day nothing was written on yet, because
  no lead is from tomorrow (`Past`). Cardinalities are compared by subset and
  by adding one element, never by induction.

**Orders** (`StoreOrders_proofs`): `OrderTypes`, `OnlyCapturedIsPaid`,
`AlertsGoOutOnce`, `OnlyPaidIsShipped`, `ClaimsReleased`, `ShippedStays`. None
is inductive: money is captured
only for an order whose gateway id is stored, and while a checkout asks for it
no other does (`OneBegins`, `MoneyFollowsGateway`); the alerts wait for one
request, after which nobody passes the claim (`OneAlerts`); a request that
ships found the order paid or COD and it stays so (`ShippersMay`). The last
two take one more invariant, `ShipInv`: a label follows a booking
(`BookedFirst`), and so a late claim or release of another request, which asks
for an order without a booking, leaves a shipped order alone; and a claim that
finds the row PROCESSING takes over what a release has not put back yet.

**Plans** (`Plans_proofs`): `SubscriptionTypes`, `LivePlansAuthorised`,
`NumbersAreSequential`. `LiveIsAuthorised` is a matter of where a request has
its knowledge from: a row that is or was live is authorised (`Rows`), an event
that was sent tells the truth (`Told`), and a request about to activate,
charge or switch holds such an event or a signature (`Asked`). The other
requests cannot spoil that, because nothing of it is ever taken back
(`Lasting`): neither an authorisation nor a charge nor a sent event. The
numbers are an invariant of their own: the invoices are numbered from one
without a gap, and no charge has two.

**Prices** (`Plans_proofs`): `ChargesTheQuote`, `RoundingLosesNothing`,
`TaxIsHonest`. The arithmetic first: `Round` is pinned down by two
inequalities, and for rates up to 28 the rounded tax moves the base by less
than half a paisa (`BaseOfTotal`). The state needs `PlansCharge`: what is kept
beside a Razorpay plan, in a row or in a checkout that read it, is what that
plan charges.

**Purchases** (`Purchases_proofs`): `PurchaseTypes`, `PassesStartOnce`,
`OnePaidPass`, `InvoiceNumbers`, `RedemptionFollowsPayment`,
`LimitsOneAtATime`. The invariant `Steady` is about what a transaction that is
open may rely on: a checkout has the row it is about to write to itself
(`Lone`), what is being fulfilled is paid and the row it claimed is still
CREATED (`Follows`), no two open transactions have the same purchase or both
the invoice counter (`Locks`), and so the live passes that a paid pass is
about to end are still all there are (`Covers`). `OnePaidPass` is then the
commit that ends everything `Covers` names: the counter, which is there for
gapless numbers, is also what keeps two passes from starting together.
`LimitsOneAtATime` adds `Room`: a checkout that is the only open one with its
coupon has room for it, in the coupon's limit and in the seller's.

**Refunds** (`PlanRefunds_proofs`): `RefundTypes`, `OnlyApprovals`,
`BookedIsBacked`, `LivePlansArePaid`, `OneRequest`, from one invariant: the
life of a request's row (`Rows`), the approval that holds it alone until the
money is booked (`Holders`), the two halves of a request (`Asks`), and that a
payment has a row exactly when it was recorded. `LivePlansArePaid` adds
`PlanBacked`: a handler about to write PAST_DUE read the plan live, so the plan
is still paid for, or the refund that took its last payment noticed the handler
(`crossed`).

**Codes** (`OneTimeCodes_proofs`): `CodeTypes`, `GuessesAreLimited`,
`CodesWorkOnce`, `ReplacedAreRefused`, `CooldownIsKept`. `GuessesAreLimited`
has an invariant of its own, `Counted`: while a code may still be guessed, it
was compared with no more guesses than its row has counted, requests still hold
and processes took with them; the last of them to pass the read leaves the
bound. A row that is being
made is absent and one request's (`OneAsks`), so it never starts with an
effect; a request past `consume` holds a row that is no longer open, alone
(`OneHolds`). For what a newer code replaces, `before[j]` is what was there
when j was asked for: the request that is about to create j deletes with it
everything of `before[j]` that is still open (`Closing`), so once j exists
nothing of it is open (`Replaced`); and the cooldown of those that were open
was over when j was asked for (`Cooling`).

**Catalogue** (`Content_proofs`): `CatalogueTypes`, `VerifiedReleased`,
`RowsOnce`, `JobTells`, `RejectionsStand`, `PhotosAreShown`, `CodesComeBack`,
`RunningIsAttended`, `EditsAreReviewed`. `VerifiedIsReleased` is inductive
with the types and `Present` (what a request holds the id of is a live row,
or the request is known to be too late). Nearly every step is `Calm`: no row is lost, nothing new waits
for review, nobody forgets that a release is owed (`CalmKeeps`); the few that
are not, the saves, the import's chunks and the verification with its release,
are taken one by one. `RejectionStands` falls out of the same case analysis as
a statement about each step (`Stands`). The import has an invariant of its
own, `JobRight`: one request has the claimed job (`OneJob`), and what it has
counted is what it wrote, while every row it could import is written, counted
as failed or still to be tried (`Uploaded`). A step that is not the import's
is `JobQuiet` and keeps that; `RunningIsAttended` is its `JobGoesOn`.

`PhotosAreShown` takes `Matching`: the photographs go with the product's status
(`Shown`), except while an administrator who moderates has written the product
and not yet the photographs (`HalfDone`), or where two writers crossed; and no
step of another request takes that from a product (`Tended`).
The attempt to prove it showed that the property left out a way to cross: an
import reads a product as APPROVED, an administrator rejects the product and
its photographs, the import's write puts PENDING over REJECTED, and a
verification then approves the product and leaves its photographs rejected. The
model now notes this crossing (`torn` in `importWrite`) as it did that of a
save, and `MCCatalogue_others` allows the three administrator's actions it
takes. `EditsAreReviewed` needs that an import only works on rows of its file
that it may write (`Ticked`); `CodesComeBack` is one more statement about each
step, that a deleted row gets its code back from a late edit only.

**Search** (`Content_proofs`): `SearchTypes`, `VerdictIsKept`.
`Evaluation` first: the code's verdict on a seller is what the rules and the
seller deserve. `ReadsRight`, an invariant, says that a recompute nothing
changed under has read what still holds, so what it is about to store is that
(`UncrossedIsRight`).
`NothingIsForgotten` is then inductive with the types. A step either leaves
stored verdict and deserts alone, and then whoever owes a recompute still does
(`DebtStays`); or it is a writer that goes on to recompute, opens one
of the named gaps, or leaves it to the nightly job.

Only model-checked:

- all liveness properties, `EventuallyDecided` (fan-out and delivery),
  `CapturedIsFinalised`, `ChargesAreInvoiced`, `TierCatchesUp`,
  `ReplacedIsStopped`, `PaidIsFulfilled`, `ApprovedIsDecided`,
  `PagesComeRight`, and of the further instances `PassGetsItsTier`,
  `RefundStopsAutopay` and `FailureIsSeen`: the prover has no rule for `ENABLED`, which fairness is
  made of;
- what a sum over data comes to: induction over data is out of the provers'
  reach here, so no closed form of `MapThenSumSet` in `PeriodGrants` is
  proved, and `LedgerExplainsBalance` is stated row by row for that reason.

What is left to do, in order: one model that composes the fan-out of a
requirement with the delivery of its leads; services and the gallery beside
products; the billing administration.

## 6. Reading notes

Small things met while modelling, where words and code differ or the code's
answer is worth knowing:

- `readPrice` says that it rejects "1250/-"; it strips the suffix.
- `getCart` does not select the moderation status and keeps the stale snapshot
  of a product whose price is asked for.
- A change of the GST rate moves the base on later invoices of a running
  mandate, whose amount Razorpay keeps; `InvoiceMatchesQuote` says so by asking
  for the rate of the quote, and `TaxIsOfItsBase` still holds.
- The discount recorded when an autopay plan is activated is computed from the
  price at that moment, not from the quote.
- `revalidateTag(tag, "max")` is modelled as `revalidate.ts` describes it, as a
  purge after which the next request reads the database.
- Suspending a seller leaves the stored verdict alone, although the comment of
  `indexability.service.ts` lists suspension; the pages go by their status.
- A refunded plan may come back: by a charge that is reported late, and by a
  failed renewal whose handler crosses the refund.
- A code takes a guess more for each guess that is compared at the same time.
- An import that read a product as approved and writes after an administrator
  rejected it puts it back to PENDING and leaves its photographs rejected; a
  later verification of the seller approves the product without them.

## 7. Not modelled, and why

- *Enquiries, buyer identity and account, seller registration and profile,
  billing administration, store integrations, the blog's forms*: each write is
  one statement on one row, without a second actor that the row's guard does
  not already stop. What they start is modelled where it lands: the DIRECT
  lead of an enquiry in `LeadCredits`, the verdict after a profile edit in
  `Indexability`.
- *Marketplace and discovery, taxonomy, sitemaps and metadata, pages and
  components*: read models and rendering. They are most of the repository's
  lines and hold no state.
- *Rate limits* live in Redis, *sessions* are signed tokens of Auth.js,
  *images* are encoded and kept by a media store: external. The lockout counter is one guarded
  statement.
- *Mail and WhatsApp*: text; their delivery protocol is `LeadDelivery`.
- *Database access*: only reads are retried (`db-retry.ts`), which is why a
  lost acknowledgement of a write is a step of the models.

Inside modelled parts: cart totals and `repriceCart`; the last test result of
an integration; audit rows; plan passes in `Subscriptions` (they are in
`Purchases`) and credits topped up there (they are in `LeadCredits`);
fractional GST rates and coupons on autopay plans beyond their price;
TRIALING, which no code writes; in `Catalogue` services, the gallery, slugs,
category guards, the ARCHIVED and FLAGGED values, and the reading of
spreadsheet cells (`SUSPENDED` stands for REJECTED sellers too: both may still
edit and neither is approved); in `Indexability` custom domains and retired
slugs (`SUSPENDED` stands for BANNED too).
