------------------------------- MODULE PlanPricing -------------------------------
(***************************************************************************)
(* What an autopay plan costs (gst.ts, coupon.ts, billing.service.ts): the   *)
(* quote a seller agrees to, the Razorpay plan that charges it every cycle,  *)
(* and the invoice that splits each charge into its base and GST again.      *)
(*                                                                         *)
(* Prices are paise without GST.  The administrator may change the price and *)
(* the rate at any moment: between two queries of a checkout, and between    *)
(* two charges of a mandate.  Razorpay's plans are immutable, so the last    *)
(* one made for an interval is kept beside its amount and used again only    *)
(* for that amount.  Who may check out and what a charge does to the plan is *)
(* in Subscriptions.                                                        *)
(***************************************************************************)
EXTENDS Integers

CONSTANTS
    Checkouts,      \* calls of startPlanCheckout, and the mandates they end in
    Intervals,      \* MONTHLY and YEARLY
    Prices,         \* what savePlanAction may set, in paise; zero is not offered
    Rates,          \* what updateBillingSettingsAction may set, in percent
    Coupons,        \* discounts: kind and what they take off
    NoCoupon,
    PlanIds,        \* ids Razorpay gives its plans
    NoPlan,
    MaxCycles       \* bound on the charges of a mandate

\* The form keeps prices whole paise and the rate between 0 and 28; percentages
\* of coupons are 1 to 100.
ASSUME PricingAssumption ==
    /\ Prices \subseteq Nat /\ Rates \subseteq 0 .. 28
    /\ Coupons \subseteq [kind : {"PERCENT_OFF", "FLAT_OFF"}, off : Nat]
    /\ NoCoupon \notin Coupons /\ NoPlan \notin PlanIds
    /\ MaxCycles \in Nat

VARIABLES
    price,          \* Plan.priceMinor and yearlyPriceMinor
    rate,           \* BillingSettings.gstRatePercent
    stored,         \* Plan.gatewayPlanIdMonthly and -Yearly: "id@amount"
    gatewayPlan,    \* Razorpay: what each plan charges
    checkout,       \* a checkout, then its subscription
    payments        \* Payment rows: [of, nth, rate, amount, base]

pricingVars == <<price, rate, stored, gatewayPlan, checkout, payments>>

-----------------------------------------------------------------------------
(* gst.ts and coupon.ts.                                                     *)

\* Math.round(a / n) for a, n >= 0.
Round(a, n) == (2 * a + n) \div (2 * n)
Smaller(a, b) == IF a < b THEN a ELSE b

withGst(base, r) == [base |-> base, tax |-> Round(base * r, 100), rate |-> r]
Total(quote) == quote.base + quote.tax

\* Mutant: rounded down.
BaseOf_Floor(amount, r) == (100 * amount) \div (100 + r)

\* recordSubscriptionCharge and splitInclusive take the tax out of an amount again.
BaseOf(amount, r) == Round(100 * amount, 100 + r)

\* discountFor, never more than the price.
discountFor(k, base) ==
    IF k.kind = "PERCENT_OFF" THEN Smaller(base, Round(base * k.off, 100)) ELSE Smaller(base, k.off)

-----------------------------------------------------------------------------
Unmade == -1
NotStored == [id |-> NoPlan, amount |-> 0]
Quotes == [base : Nat, tax : Nat, rate : Rates]
NoQuote == [next |-> "idle"]
Reading == [next : {"settings"}, interval : Intervals, coupon : Coupons \cup {NoCoupon},
            base : Nat, kept : [id : PlanIds \cup {NoPlan}, amount : Nat]]
Quoted == [next : {"plan", "store", "subscribe", "running"}, interval : Intervals,
           coupon : Coupons \cup {NoCoupon}, discount : Nat, quote : Quotes,
           kept : [id : PlanIds \cup {NoPlan}, amount : Nat], plan : PlanIds \cup {NoPlan}]

PricingInit ==
    /\ price \in [Intervals -> Prices]
    /\ rate \in Rates
    /\ stored = [i \in Intervals |-> NotStored]
    /\ gatewayPlan = [g \in PlanIds |-> Unmade]
    /\ checkout = [c \in Checkouts |-> NoQuote]
    /\ payments = {}

AtStep(c, step) == checkout[c].next = step
Running(c) == AtStep(c, "running")

-----------------------------------------------------------------------------
(* The administrator.                                                        *)

savePlan(i, p) ==
    /\ price' = [price EXCEPT ![i] = p]
    /\ UNCHANGED <<rate, stored, gatewayPlan, checkout, payments>>

updateBillingSettings(r) ==
    /\ rate' = r
    /\ UNCHANGED <<price, stored, gatewayPlan, checkout, payments>>

-----------------------------------------------------------------------------
(* startPlanCheckout.                                                        *)

\* The plan's row, with the id that was kept in it.
readPlan(c, i, k) ==
    /\ AtStep(c, "idle")
    /\ price[i] > 0
    /\ checkout' = [checkout EXCEPT ![c] =
                       [next |-> "settings", interval |-> i, coupon |-> k, base |-> price[i],
                        kept |-> stored[i]]]
    /\ UNCHANGED <<price, rate, stored, gatewayPlan, payments>>

Discount(c) ==
    IF checkout[c].coupon = NoCoupon THEN 0 ELSE discountFor(checkout[c].coupon, checkout[c].base)

\* The settings' row and the coupon's.  A coupon that takes nothing off does not
\* apply, and below a rupee nothing can be charged.
quotePlan(c) ==
    /\ AtStep(c, "settings")
    /\ LET d == Discount(c)
           quote == withGst(checkout[c].base - d, rate)
       IN checkout' = [checkout EXCEPT ![c] =
             IF @.coupon # NoCoupon /\ (d = 0 \/ Total(quote) < 100) THEN NoQuote
             ELSE [next |-> "plan", interval |-> @.interval, coupon |-> @.coupon, discount |-> d,
                   quote |-> quote, kept |-> @.kept, plan |-> NoPlan]]
    /\ UNCHANGED <<price, rate, stored, gatewayPlan, payments>>

\* Mutant: the kept id is used whatever it charges.
ensureGatewayPlan_AnyAmount(c) ==
    /\ AtStep(c, "plan")
    /\ checkout[c].coupon = NoCoupon /\ checkout[c].kept.id # NoPlan
    /\ checkout' = [checkout EXCEPT ![c].next = "subscribe", ![c].plan = checkout[c].kept.id]
    /\ UNCHANGED <<price, rate, stored, gatewayPlan, payments>>

\* ensureGatewayPlan: the kept id, if it charges this amount.
ensureGatewayPlan(c) ==
    /\ AtStep(c, "plan")
    /\ checkout[c].coupon = NoCoupon
    /\ checkout[c].kept.id # NoPlan /\ checkout[c].kept.amount = Total(checkout[c].quote)
    /\ checkout' = [checkout EXCEPT ![c].next = "subscribe", ![c].plan = checkout[c].kept.id]
    /\ UNCHANGED <<price, rate, stored, gatewayPlan, payments>>

\* A plan of its own for this amount; a discounted one is not kept.
createGatewayPlan(c, g) ==
    /\ AtStep(c, "plan") /\ gatewayPlan[g] = Unmade
    /\ LET k == checkout[c].kept
       IN checkout[c].coupon # NoCoupon \/ k.id = NoPlan \/ k.amount # Total(checkout[c].quote)
    /\ gatewayPlan' = [gatewayPlan EXCEPT ![g] = Total(checkout[c].quote)]
    /\ checkout' = [checkout EXCEPT ![c].plan = g,
                       ![c].next = IF checkout[c].coupon = NoCoupon THEN "store" ELSE "subscribe"]
    /\ UNCHANGED <<price, rate, stored, payments>>

storeGatewayPlan(c) ==
    /\ AtStep(c, "store")
    /\ stored' = [stored EXCEPT ![checkout[c].interval] =
                     [id |-> checkout[c].plan, amount |-> Total(checkout[c].quote)]]
    /\ checkout' = [checkout EXCEPT ![c].next = "subscribe"]
    /\ UNCHANGED <<price, rate, gatewayPlan, payments>>

\* The subscription is made on the plan and the seller authorises it.
createGatewaySubscription(c) ==
    /\ AtStep(c, "subscribe")
    /\ checkout' = [checkout EXCEPT ![c].next = "running"]
    /\ UNCHANGED <<price, rate, stored, gatewayPlan, payments>>

\* Razorpay refuses a call, the process dies or the seller walks away.
abandonCheckout(c) ==
    /\ ~AtStep(c, "idle") /\ ~Running(c)
    /\ checkout' = [checkout EXCEPT ![c] = NoQuote]
    /\ UNCHANGED <<price, rate, stored, gatewayPlan, payments>>

\* recordSubscriptionCharge of the n-th cycle, in whatever order the events come;
\* it reads the settings of the day.
recordSubscriptionCharge(c, n) ==
    /\ Running(c)
    /\ \A p \in payments : ~(p.of = c /\ p.nth = n)
    /\ LET amount == gatewayPlan[checkout[c].plan]
       IN payments' = payments \cup
             {[of |-> c, nth |-> n, rate |-> rate, amount |-> amount, base |-> BaseOf(amount, rate)]}
    /\ UNCHANGED <<price, rate, stored, gatewayPlan, checkout>>

PricingNext ==
    \/ \E i \in Intervals, p \in Prices : savePlan(i, p)
    \/ \E r \in Rates : updateBillingSettings(r)
    \/ \E c \in Checkouts :
          \/ \E i \in Intervals, k \in Coupons \cup {NoCoupon} : readPlan(c, i, k)
          \/ quotePlan(c) \/ ensureGatewayPlan(c)
          \/ \E g \in PlanIds : createGatewayPlan(c, g)
          \/ storeGatewayPlan(c) \/ createGatewaySubscription(c) \/ abandonCheckout(c)
          \/ \E n \in 1 .. MaxCycles : recordSubscriptionCharge(c, n)

PricingSpec == PricingInit /\ [][PricingNext]_pricingVars

-----------------------------------------------------------------------------
(* Properties.                                                               *)

\* The columns' types and the steps of a checkout.
PricingTypeOK ==
    /\ price \in [Intervals -> Nat]
    /\ rate \in Rates
    /\ stored \in [Intervals -> [id : PlanIds \cup {NoPlan}, amount : Nat]]
    /\ gatewayPlan \in [PlanIds -> Nat \cup {Unmade}]
    /\ checkout \in [Checkouts -> {NoQuote} \cup Reading \cup Quoted]
    /\ payments \subseteq [of : Checkouts, nth : Nat, rate : Rates, amount : Nat, base : Nat]

\* "A price or GST change creates a fresh gateway plan instead of charging the old
\* amount" (ensureGatewayPlan): whatever was changed and kept meanwhile, every
\* cycle of a mandate charges what its seller was quoted.
ChargedAsQuoted ==
    \A p \in payments : p.amount = Total(checkout[p.of].quote)

\* The invoice of a charge names the price before GST that was quoted, to the
\* paisa, and so the same tax: rounding twice loses nothing, as long as the rate
\* is the one of the quote.
InvoiceMatchesQuote ==
    \A p \in payments :
        p.rate = checkout[p.of].quote.rate =>
            p.base = checkout[p.of].quote.base /\ p.amount - p.base = checkout[p.of].quote.tax

\* On every invoice, at whatever rate, the tax is rate percent of the base to
\* within less than a paisa.
TaxIsOfItsBase ==
    \A p \in payments :
        LET tax == p.amount - p.base
        IN -100 < 100 * tax - p.rate * p.base /\ 100 * tax - p.rate * p.base < 100
================================================================================
