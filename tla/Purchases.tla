-------------------------------- MODULE Purchases --------------------------------
(***************************************************************************)
(* What a seller buys once: lead packs, store features and plan passes, with *)
(* or without a coupon (billing.service.ts, coupon.service.ts and the        *)
(* razorpay-billing webhook).                                               *)
(*                                                                         *)
(* A checkout reads what the seller may buy, inserts the Purchase, asks      *)
(* Razorpay for an order and stores its id.  The payment comes back through  *)
(* the browser and through two webhook events, each of which fulfils the     *)
(* purchase in one transaction.  The transaction is modelled by what others  *)
(* can notice of it: the rows it locks when it reads, and everything it      *)
(* wrote when it commits.  The credits of a lead pack are in LeadCredits.    *)
(***************************************************************************)
EXTENDS Integers, FiniteSets

CONSTANTS
    Sellers,
    Purchases,    \* rows a seller may come to insert
    SellerOf,
    KindOf,       \* "LEAD_PACK", "FEATURE" or "PLAN_PASS"
    Total,        \* totalMinor, what the coupon leaves to be paid
    CouponOf,     \* the coupon typed in, or NoCoupon
    Coupons,
    NoCoupon,
    MaxRedemptions,
    PerSellerLimit,
    NewSellersOnly,
    AutopaySellers, \* bound: those who may also buy a plan by autopay
    EventKinds,   \* "order.paid" and "payment.captured", which are handled alike
    Requests,     \* actions and route handlers that run at once
    MaxFaults     \* bound on failed transactions and dead processes together

MinTotal == 100   \* Razorpay takes no order below one rupee

ASSUME PurchaseAssumption ==
    /\ IsFiniteSet(Purchases) /\ IsFiniteSet(Sellers) /\ Sellers \cap Purchases = {}
    /\ SellerOf \in [Purchases -> Sellers]
    /\ KindOf \in [Purchases -> {"LEAD_PACK", "FEATURE", "PLAN_PASS"}]
    /\ Total \in [Purchases -> Nat]
    /\ NoCoupon \notin Coupons /\ CouponOf \in [Purchases -> Coupons \cup {NoCoupon}]
    /\ \A p \in Purchases : KindOf[p] = "PLAN_PASS" => CouponOf[p] # NoCoupon
    /\ MaxRedemptions \in [Coupons -> Nat] /\ PerSellerLimit \in [Coupons -> Nat]
    /\ NewSellersOnly \subseteq Coupons
    /\ AutopaySellers \subseteq Sellers /\ MaxFaults \in Nat

VARIABLES
    row,          \* Purchase: its status, and whether gatewayOrderId is stored
    order,        \* Razorpay: the order of a purchase
    event,        \* its events: unsent, repeated until answered, recorded
    invoice,      \* Purchase.invoiceNumber, 0 without one
    nextInvoice,  \* InvoiceCounter.next
    redeemed,     \* CouponRedemption, by purchase
    features,     \* sellers with a SellerFeature row
    sub,          \* Subscription rows: the autopay of a seller, the pass of a purchase
    autopay,      \* Razorpay: the autopay of a seller
    presence,     \* sellers whose webPresence is that of a paid plan
    req,          \* the requests in progress
    crowded,      \* history: coupons two open checkouts used at the same time
    throws, deaths

effects == <<invoice, nextInvoice, redeemed, features, sub>>
faults == <<throws, deaths>>
vars == <<row, order, event, effects, autopay, presence, req, crowded, faults>>

Statuses == {"absent", "CREATED", "PAID", "FAILED"}
Events == EventKinds \X Purchases
NoEvent == <<"none">>
Passes == {p \in Purchases : KindOf[p] = "PLAN_PASS"}
SubRows == Sellers \cup Passes
Steps == {"create", "fulfil", "commit", "stopOld", "tier"}
Idle == [next |-> "idle"]
Request == {Idle} \cup
    [next : Steps, purchase : Purchases, event : Events \cup {NoEvent}, old : SUBSET SubRows]

Init ==
    /\ row = [p \in Purchases |-> [status |-> "absent", order |-> FALSE]]
    /\ order = [p \in Purchases |-> "none"]
    /\ event = [e \in Events |-> "unsent"]
    /\ invoice = [p \in Purchases |-> 0]
    /\ nextInvoice = 1
    /\ redeemed = {}
    /\ features = {}
    /\ sub = [x \in SubRows |-> "none"]
    /\ autopay = [s \in Sellers |-> "none"]
    /\ presence = {}
    /\ req = [r \in Requests |-> Idle]
    /\ crowded = {}
    /\ throws = 0 /\ deaths = 0

Owner(x) == IF x \in Sellers THEN x ELSE SellerOf[x]
LiveOf(s) == {x \in SubRows : Owner(x) = s /\ sub[x] = "ACTIVE"}
Paid(p) == row[p].status = "PAID"
HasPaidBefore(s) == \E p \in Purchases : SellerOf[p] = s /\ Paid(p) /\ Total[p] > 0

At(r, step) == req[r].next = step
Go(r, step) == req' = [req EXCEPT ![r].next = step]
Finish(r) == req' = [req EXCEPT ![r] = Idle]
Begin(r, step, p, e) ==
    /\ At(r, "idle")
    /\ req' = [req EXCEPT ![r] = [next |-> step, purchase |-> p, event |-> e, old |-> {}]]

\* A checkout is open from its first read until it is paid or over.
Open(p) ==
    \/ row[p].status = "CREATED"
    \/ \E r \in Requests : ~At(r, "idle") /\ req[r].purchase = p /\ row[p].status = "absent"

-----------------------------------------------------------------------------
(* Checkout.                                                                *)

Redeemed(c) == {q \in redeemed : CouponOf[q] = c}
RedeemedBy(c, s) == {q \in Redeemed(c) : SellerOf[q] = s}

\* Mutant: the last redemption is counted as still free.
CouponUsable_OneMore(c, s) ==
    /\ Cardinality(Redeemed(c)) <= MaxRedemptions[c]
    /\ Cardinality(RedeemedBy(c, s)) < PerSellerLimit[c]
    /\ c \in NewSellersOnly => ~HasPaidBefore(s)

\* checkCouponUsable; redemptionCount moves with the redemptions.
CouponUsable(c, s) ==
    /\ Cardinality(Redeemed(c)) < MaxRedemptions[c]
    /\ Cardinality(RedeemedBy(c, s)) < PerSellerLimit[c]
    /\ c \in NewSellersOnly => ~HasPaidBefore(s)

\* getAddonOffers, and the rule that a pass is used from the Free plan.
Offered(p) ==
    LET s == SellerOf[p] IN
    \/ KindOf[p] = "LEAD_PACK"  \* free plan, or no credits left
    \/ KindOf[p] = "FEATURE" /\ LiveOf(s) # {} /\ s \notin features
    \/ KindOf[p] = "PLAN_PASS" /\ LiveOf(s) = {}

\* startAddonCheckout and startPassCheckout up to beginPurchase: reads only.
startCheckout(r, p) ==
    LET c == CouponOf[p] IN
    /\ row[p].status = "absent" /\ ~Open(p)
    /\ Offered(p)
    /\ c # NoCoupon => CouponUsable(c, SellerOf[p])
    /\ Begin(r, "create", p, NoEvent)
    /\ crowded' = IF c # NoCoupon /\ \E q \in Purchases : CouponOf[q] = c /\ Open(q)
                  THEN crowded \cup {c} ELSE crowded
    /\ UNCHANGED <<row, order, event, effects, autopay, presence, faults>>

Created(p, status, stored) ==
    row' = [row EXCEPT ![p] = [status |-> status, order |-> stored]]

\* Razorpay's order and the update that stores its id, or the FAILED that marks
\* a refusal or an amount too small.  Nobody reads the row in between.
OrderOrFail(r, p) ==
    /\ \/ /\ Total[p] >= MinTotal
          /\ order' = [order EXCEPT ![p] = "open"]
          /\ Created(p, "CREATED", TRUE)
       \/ UNCHANGED order /\ Created(p, "FAILED", FALSE)
    /\ Finish(r)

\* Nothing to pay: the same request goes on to fulfil it.
FreeOfCharge(r, p) ==
    /\ Created(p, "CREATED", FALSE)
    /\ Go(r, "fulfil")
    /\ UNCHANGED order

\* Mutant: the coupon is used up when the checkout starts.
beginPurchase_Redeems(r) ==
    LET p == req[r].purchase IN
    /\ At(r, "create")
    /\ IF Total[p] = 0 THEN FreeOfCharge(r, p) ELSE OrderOrFail(r, p)
    /\ redeemed' = IF CouponOf[p] = NoCoupon THEN redeemed ELSE redeemed \cup {p}
    /\ UNCHANGED <<event, invoice, nextInvoice, features, sub, autopay, presence, crowded, faults>>

beginPurchase(r) ==
    LET p == req[r].purchase IN
    /\ At(r, "create")
    /\ IF Total[p] = 0 THEN FreeOfCharge(r, p) ELSE OrderOrFail(r, p)
    /\ UNCHANGED <<event, effects, autopay, presence, crowded, faults>>

-----------------------------------------------------------------------------
(* Razorpay and the ways its answer comes back.                             *)

payOrder(p) ==
    /\ order[p] = "open" /\ row[p].order
    /\ order' = [order EXCEPT ![p] = "paid"]
    /\ event' = [e \in Events |-> IF e[2] = p THEN "due" ELSE event[e]]
    /\ UNCHANGED <<row, effects, autopay, presence, req, crowded, faults>>

\* Only a payment gives the browser a signature that verifies.
confirmAddonCheckout(r, p) ==
    /\ order[p] = "paid" /\ row[p].order
    /\ Begin(r, "fulfil", p, NoEvent)
    /\ UNCHANGED <<row, order, event, effects, autopay, presence, crowded, faults>>

\* The event is recorded before it is handled; fulfillPurchaseByOrder finds the
\* purchase by the stored id.
receiveWebhook(r, e) ==
    /\ event[e] = "due"
    /\ event' = [event EXCEPT ![e] = "recorded"]
    /\ row[e[2]].order /\ Begin(r, "fulfil", e[2], e)
    /\ UNCHANGED <<row, order, effects, autopay, presence, crowded, faults>>

\* A repeat that comes while the first is handled is answered as a duplicate.
duplicateWebhook(e) ==
    /\ event[e] = "recorded" /\ \E r \in Requests : req[r] # Idle /\ req[r].event = e
    /\ event' = [event EXCEPT ![e] = "answered"]
    /\ UNCHANGED <<row, order, effects, autopay, presence, req, crowded, faults>>

-----------------------------------------------------------------------------
(* fulfillPurchase.                                                         *)

InTransaction(p) == \E q \in Requests : At(q, "commit") /\ req[q].purchase = p
CounterLocked == \E q \in Requests : At(q, "commit") /\ Total[req[q].purchase] > 0
LiveForPass(p) == IF p \in Passes THEN LiveOf(SellerOf[p]) ELSE {}

\* Mutant: the claim takes a purchase of any status.
fulfillClaim_Unguarded(r) ==
    LET p == req[r].purchase IN
    /\ At(r, "fulfil")
    /\ ~InTransaction(p)
    /\ Total[p] > 0 => ~CounterLocked
    /\ req' = [req EXCEPT ![r].next = "commit", ![r].old = LiveForPass(p)]
    /\ UNCHANGED <<row, order, event, effects, autopay, presence, crowded, faults>>

\* Mutant: the live plans are read before the invoice number is taken.
fulfillClaim_ReadsFirst(r) ==
    LET p == req[r].purchase IN
    /\ At(r, "fulfil")
    /\ ~InTransaction(p)
    /\ row[p].status \in {"CREATED", "FAILED"}
    /\ req' = [req EXCEPT ![r].next = "commit", ![r].old = LiveForPass(p)]
    /\ UNCHANGED <<row, order, event, effects, autopay, presence, crowded, faults>>

\* The guarded updateMany waits for whoever holds the row, the invoice counter
\* for whoever holds the counter; a pass reads the live plans after both.
fulfillClaim(r) ==
    LET p == req[r].purchase IN
    /\ At(r, "fulfil")
    /\ ~InTransaction(p)
    /\ row[p].status \in {"CREATED", "FAILED"}
    /\ Total[p] > 0 => ~CounterLocked
    /\ req' = [req EXCEPT ![r].next = "commit", ![r].old = LiveForPass(p)]
    /\ UNCHANGED <<row, order, event, effects, autopay, presence, crowded, faults>>

\* The purchase was claimed before: zero rows.
fulfillNothing(r) ==
    LET p == req[r].purchase IN
    /\ At(r, "fulfil")
    /\ ~InTransaction(p) /\ row[p].status \notin {"CREATED", "FAILED"}
    /\ Finish(r)
    /\ UNCHANGED <<row, order, event, effects, autopay, presence, crowded, faults>>

\* The plans found live are cancelled by id, the pass starts.
SwitchToPass(p, old) ==
    IF p \in Passes
    THEN sub' = [x \in SubRows |-> IF x = p THEN "ACTIVE" ELSE IF x \in old THEN "CANCELED" ELSE sub[x]]
    ELSE UNCHANGED sub

\* No tax invoice for a free purchase.
TakeInvoice(p) ==
    IF Total[p] > 0
    THEN /\ invoice' = [invoice EXCEPT ![p] = nextInvoice]
         /\ nextInvoice' = nextInvoice + 1
    ELSE UNCHANGED <<invoice, nextInvoice>>

\* recordRedemption; the unique purchase id makes it idempotent.
RecordRedemption(p) ==
    redeemed' = IF CouponOf[p] = NoCoupon THEN redeemed ELSE redeemed \cup {p}

fulfillCommit(r) ==
    LET p == req[r].purchase
        s == SellerOf[p]
    IN
    /\ At(r, "commit")
    /\ row' = [row EXCEPT ![p].status = "PAID"]
    /\ TakeInvoice(p)
    /\ features' = IF KindOf[p] = "FEATURE" THEN features \cup {s} ELSE features
    /\ SwitchToPass(p, req[r].old)
    /\ RecordRedemption(p)
    /\ IF p \notin Passes THEN Finish(r)
       ELSE Go(r, IF req[r].old \cap Sellers = {} THEN "tier" ELSE "stopOld")
    /\ UNCHANGED <<order, event, autopay, presence, crowded, faults>>

\* cancelGatewaySubscription: whatever Razorpay answers is not looked at.
stopOld(r) ==
    /\ At(r, "stopOld")
    /\ \E stopped \in {req[r].old \cap Sellers, {}} :
          autopay' = [s \in Sellers |-> IF s \in stopped THEN "stopped" ELSE autopay[s]]
    /\ Go(r, "tier")
    /\ UNCHANGED <<row, order, event, effects, presence, crowded, faults>>

Recompute(s) == presence' = IF LiveOf(s) = {} THEN presence \ {s} ELSE presence \cup {s}

\* recomputeWebPresence, whose two steps are in Subscriptions; the credits of
\* the pass (topUpCreditsForPlanChange) are in LeadCredits.
recomputeTier(r) ==
    /\ At(r, "tier")
    /\ Recompute(SellerOf[req[r].purchase])
    /\ Finish(r)
    /\ UNCHANGED <<row, order, event, effects, autopay, crowded, faults>>

-----------------------------------------------------------------------------
(* The rest of the seller's plans.                                          *)

\* activateGatewaySubscription, in more steps in Subscriptions.  Bound: only
\* while a pass is on its way, the one time its order with a pass matters.
activateAutopay(s) ==
    /\ sub[s] = "none" /\ s \in AutopaySellers
    /\ \E p \in Passes : SellerOf[p] = s /\ Open(p)
    /\ sub' = [x \in SubRows |-> IF x = s THEN "ACTIVE" ELSE IF x \in LiveOf(s) THEN "CANCELED" ELSE sub[x]]
    /\ autopay' = [autopay EXCEPT ![s] = "running"]
    /\ presence' = presence \cup {s}
    /\ UNCHANGED <<row, order, event, invoice, nextInvoice, redeemed, features, req, crowded, faults>>

\* currentPeriodEnd has passed: liveSubscriptionWhere no longer finds the pass,
\* and expireLapsedSubscriptions will write what that comes to.
passEnds(p) ==
    /\ sub[p] = "ACTIVE"
    /\ sub' = [sub EXCEPT ![p] = "EXPIRED"]
    /\ UNCHANGED <<row, order, event, invoice, nextInvoice, redeemed, features, autopay,
                   presence, req, crowded, faults>>

\* recomputeAllWebPresence, for one seller.
nightly(s) ==
    /\ Recompute(s)
    /\ UNCHANGED <<row, order, event, effects, autopay, req, crowded, faults>>

-----------------------------------------------------------------------------
(* Failures.                                                                *)

\* Mutant: the dedupe row stays.
Forget_Keeps(e) == UNCHANGED event

Forget(e) == event' = [f \in Events |-> IF f = e /\ event[f] = "recorded" THEN "due" ELSE event[f]]

\* The transaction fails: nothing of it stays, and Razorpay repeats the event.
fulfillThrows(r) ==
    /\ throws + deaths < MaxFaults /\ throws' = throws + 1
    /\ req[r].next \in {"fulfil", "commit"}
    /\ Forget(req[r].event)
    /\ Finish(r)
    /\ UNCHANGED <<row, order, effects, autopay, presence, crowded, deaths>>

\* The process dies: the repeat of a recorded event is a duplicate.
processDies(r) ==
    /\ throws + deaths < MaxFaults /\ deaths' = deaths + 1
    /\ ~At(r, "idle")
    /\ Finish(r)
    /\ UNCHANGED <<row, order, event, effects, autopay, presence, crowded, throws>>

-----------------------------------------------------------------------------
RequestStep(r) ==
    \/ beginPurchase(r)
    \/ fulfillClaim(r) \/ fulfillNothing(r) \/ fulfillCommit(r)
    \/ stopOld(r) \/ recomputeTier(r)

Next ==
    \/ \E p \in Purchases : payOrder(p)
    \/ \E p \in Passes : passEnds(p)
    \/ \E s \in Sellers : activateAutopay(s) \/ nightly(s)
    \/ \E e \in Events : duplicateWebhook(e)
    \/ \E r \in Requests :
          \/ \E p \in Purchases : startCheckout(r, p) \/ confirmAddonCheckout(r, p)
          \/ \E e \in Events : receiveWebhook(r, e)
          \/ RequestStep(r) \/ fulfillThrows(r) \/ processDies(r)

Spec == Init /\ [][Next]_vars

\* Requests that run come to an end, Razorpay repeats its events, and the sweep
\* runs every night.  Nobody has to buy or to come back from the payment page.
FairSpec ==
    /\ Spec
    /\ \A r \in Requests : WF_vars(RequestStep(r))
    /\ \A e \in Events : SF_vars(\E r \in Requests : receiveWebhook(r, e))
    /\ \A s \in Sellers : WF_vars(nightly(s))

-----------------------------------------------------------------------------
(* Properties.                                                              *)

\* The columns' types, and the state a request can be in.
TypeOK ==
    /\ row \in [Purchases -> [status : Statuses, order : BOOLEAN]]
    /\ order \in [Purchases -> {"none", "open", "paid"}]
    /\ event \in [Events -> {"unsent", "due", "recorded", "answered"}]
    /\ invoice \in [Purchases -> Nat]
    /\ nextInvoice \in Nat \ {0}
    /\ redeemed \subseteq Purchases
    /\ features \subseteq Sellers
    /\ sub \in [SubRows -> {"none", "ACTIVE", "CANCELED", "EXPIRED"}]
    /\ autopay \in [Sellers -> {"none", "running", "stopped"}]
    /\ presence \subseteq Sellers
    /\ req \in [Requests -> Request]
    /\ crowded \subseteq Coupons
    /\ throws \in 0 .. MaxFaults /\ deaths \in 0 .. MaxFaults

\* "Never at checkout start" (coupon.service.ts): a coupon is used up by exactly
\* the purchases whose payment is confirmed, and what must be paid is PAID only
\* after Razorpay has the money, whichever of browser and webhooks comes first.
RedeemedIsPaid ==
    /\ redeemed = {p \in Purchases : Paid(p) /\ CouponOf[p] # NoCoupon}
    /\ \A p \in Purchases : Paid(p) /\ Total[p] > 0 => order[p] = "paid"

\* "CREATED -> PAID and apply the effect, once" (fulfillPurchase): a pass that
\* ended or was replaced never starts again, however late the browser or an
\* event of its payment comes back.
PassStartsOnce ==
    [][\A p \in Passes : sub[p] \in {"CANCELED", "EXPIRED"} => sub'[p] # "ACTIVE"]_vars

\* "Every charge gets a sequential GST invoice number" (D41), "no tax invoice for
\* a free purchase": the paid purchases carry the numbers 1, 2, ... without a gap,
\* although a number is taken in transactions that may be rolled back.
InvoicesHaveNoGaps ==
    /\ {p \in Purchases : invoice[p] # 0} = {p \in Purchases : Paid(p) /\ Total[p] > 0}
    /\ {invoice[p] : p \in Purchases} \ {0} = 1 .. nextInvoice - 1
    /\ \A p, q \in Purchases : invoice[p] = invoice[q] /\ invoice[p] # 0 => p = q

\* A coupon's limits are read at the start of a checkout and not again when the
\* redemption is written.  They hold for checkouts that come one after another;
\* only checkouts that were open at the same time can pass them.
LimitsHoldOneAtATime ==
    \A c \in Coupons \ crowded :
        /\ Cardinality(Redeemed(c)) <= MaxRedemptions[c]
        /\ \A s \in Sellers : Cardinality(RedeemedBy(c, s)) <= PerSellerLimit[c]

\* "Plan switches start the new plan immediately and end the old one" (D41): of
\* two passes that were paid for, never both are live.  The invoice counter, which
\* a transaction takes before it reads the live plans, is what makes it so.
OnePaidPassLive ==
    \A p, q \in Passes :
        p # q /\ SellerOf[p] = SellerOf[q] /\ Total[p] > 0 /\ Total[q] > 0
        => sub[p] # "ACTIVE" \/ sub[q] # "ACTIVE"

\* A FAILED or abandoned purchase that is paid in the end is still applied, and a
\* handler that throws is called again: paid money becomes PAID unless a process
\* died with the event, or each of its events was answered as a duplicate while
\* the handler it repeats could still fail.
PaidIsFulfilled ==
    \A p \in Purchases :
        order[p] = "paid" ~> \/ Paid(p) \/ deaths > 0
                            \/ \A k \in EventKinds : event[<<k, p>>] = "answered"

\* The tier follows a pass that was granted, also when the process died before it
\* was recomputed.
PassGetsItsTier ==
    \A p \in Passes : sub[p] = "ACTIVE" ~> SellerOf[p] \in presence \/ sub[p] # "ACTIVE"

\* "maxRedemptions: total redemptions allowed" (schema.prisma).
CouponLimit == \A c \in Coupons : Cardinality(Redeemed(c)) <= MaxRedemptions[c]
================================================================================
