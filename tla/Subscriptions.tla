------------------------------ MODULE Subscriptions ------------------------------
(***************************************************************************)
(* The plan subscriptions of one seller: checkout, activation, charges,      *)
(* lapse, an administrator's change of plan and the tier they add up to      *)
(* (billing.service.ts, plan.service.ts, the razorpay-billing webhook).      *)
(*                                                                         *)
(* Razorpay reports what happens to a subscription in events that may come   *)
(* late, out of order and more than once.  Every handler reads the row       *)
(* first and writes it by id later, and what follows a change of plan (the   *)
(* call that stops the old autopay, the tier) is outside the transaction.    *)
(***************************************************************************)
EXTENDS Integers, FiniteSets

CONSTANTS
    Subs,        \* Subscription rows
    ByHand,      \* those an administrator creates; the others go through Razorpay
    Yearly,      \* those billed by the year
    Plans,       \* paid plans
    PlanOf,      \* the plan of a row
    Rank,        \* Plan.sortOrder
    Free,        \* the tier of a seller without a live subscription
    Requests,    \* route handlers, server actions and the nightly job at once
    Nightly,     \* the one of them that is the recompute-web-presence job
    Troubled,    \* bound: rows whose charges may fail or whose mandate may end
    MaxCharges,  \* bound on the charges of one subscription
    MaxFaults    \* bound on dead processes, thrown queries and failed calls

ASSUME SubscriptionAssumption ==
    /\ IsFiniteSet(Subs) /\ Subs # {} /\ ByHand \subseteq Subs /\ Yearly \subseteq Subs
    /\ Troubled \subseteq Subs \ ByHand
    /\ PlanOf \in [Subs -> Plans] /\ Rank \in [Plans -> Int] /\ Free \notin Plans
    /\ Nightly \in Requests /\ MaxCharges \in Nat /\ MaxFaults \in Nat

VARIABLES
    sub,          \* the rows' status and gracePeriodEndsAt
    gateway,      \* Razorpay: the state of each subscription there
    charges,      \* Razorpay: charges it has made
    event,        \* its events: unsent, repeated until answered, recorded
    invoice,      \* Payment.invoiceNumber of each charge, 0 without a row
    nextInvoice,  \* InvoiceCounter.next of the year
    presence,     \* Seller.webPresence, named by the plan that gives it
    replaced,     \* rows another plan has taken the place of
    req,          \* the requests in progress
    faults        \* failures so far

rows == <<sub, invoice, nextInvoice, presence, replaced>>
outside == <<gateway, charges>>
vars == <<rows, outside, event, req, faults>>

Statuses == {"absent", "INCOMPLETE", "ACTIVE", "PAST_DUE", "CANCELED", "EXPIRED"}
Charge == (Subs \ ByHand) \X (1 .. MaxCharges)
Events == [kind : {"activated", "pending", "ended"}, sub : Subs \ ByHand]
     \cup [kind : {"charged"}, sub : Subs \ ByHand, n : 1 .. MaxCharges]
NoEvent == [kind |-> "none"]

Idle == [next |-> "idle"]
Steps == {"activate", "switch", "stopOld", "charge", "pastDue", "end", "recompute", "tier"}
Tiers == Plans \cup {Free}
Seen == {"none", "running", "over"}
Request == {Idle} \cup
    [next : Steps, sub : Subs, event : Events \cup {NoEvent},
     old : SUBSET Subs,  \* the rows a switch found live
     seen : Seen,        \* gracePeriodEndsAt when it was read
     tier : Tiers]       \* the plan recomputeWebPresence read

Init ==
    /\ sub = [s \in Subs |-> [status |-> "absent", grace |-> "none"]]
    /\ gateway = [s \in Subs |-> "none"]
    /\ charges = [s \in Subs |-> 0]
    /\ event = [e \in Events |-> "unsent"]
    /\ invoice = [c \in Charge |-> 0]
    /\ nextInvoice = 1
    /\ presence = Free
    /\ replaced = {}
    /\ req = [r \in Requests |-> Idle]
    /\ faults = 0

\* liveSubscriptionWhere, without the plan passes.
LiveStatus(row) == row.status = "ACTIVE" \/ (row.status = "PAST_DUE" /\ row.grace = "running")
Live == {s \in Subs : LiveStatus(sub[s])}

\* getActivePlan takes the one with the latest period end.
ActivePlans == IF Live = {} THEN {Free} ELSE {PlanOf[s] : s \in Live}

At(r, step) == req[r].next = step
Working(r) == ~At(r, "idle")
Begin(r, step, s, e, old, seen) ==
    /\ At(r, "idle")
    /\ req' = [req EXCEPT ![r] = [next |-> step, sub |-> s, event |-> e, old |-> old,
                                  seen |-> seen, tier |-> Free]]
Go(r, step) ==
    req' = [req EXCEPT ![r] = [@ EXCEPT !.next = step, !.old = {}, !.seen = "none", !.tier = Free]]
Finish(r) == req' = [req EXCEPT ![r] = Idle]
SetStatus(s, status) == sub' = [sub EXCEPT ![s].status = status]

-----------------------------------------------------------------------------
(* Razorpay.                                                                *)

Emit(es) == event' = [e \in Events |-> IF e \in es /\ event[e] = "unsent" THEN "due" ELSE event[e]]
Happening(kind, s) == [kind |-> kind, sub |-> s]

\* The seller authorises the mandate in the browser.
authorise(s) ==
    /\ gateway[s] = "created"
    /\ gateway' = [gateway EXCEPT ![s] = "running"]
    /\ UNCHANGED <<rows, charges, event, req, faults>>

chargeCycle(s) ==
    /\ gateway[s] = "running" /\ charges[s] < MaxCharges
    /\ charges' = [charges EXCEPT ![s] = @ + 1]
    /\ Emit({Happening("activated", s), [kind |-> "charged", sub |-> s, n |-> charges[s] + 1]})
    /\ UNCHANGED <<rows, gateway, req, faults>>

failCycle(s) ==
    /\ s \in Troubled /\ gateway[s] = "running" /\ charges[s] > 0
    /\ event[Happening("pending", s)] = "unsent"
    /\ Emit({Happening("pending", s)})
    /\ UNCHANGED <<rows, outside, req, faults>>

\* The last cycle is over, or the mandate was revoked.
endCycle(s) ==
    /\ gateway[s] = "ending" \/ (s \in Troubled /\ gateway[s] = "running")
    /\ gateway' = [gateway EXCEPT ![s] = "ended"]
    /\ Emit({Happening("ended", s)})
    /\ UNCHANGED <<rows, charges, req, faults>>

-----------------------------------------------------------------------------
(* The seller's and the administrator's actions.                            *)

\* startPlanCheckout: what a running paid period leaves open.
MayBuy(cur, s) ==
    \/ PlanOf[s] = PlanOf[cur] /\ cur \notin Yearly /\ s \in Yearly /\ gateway[cur] # "ending"
    \/ /\ PlanOf[s] # PlanOf[cur] /\ Rank[PlanOf[s]] >= Rank[PlanOf[cur]]
       /\ cur \in Yearly => s \in Yearly

\* The row is written first; it expires at once when Razorpay refuses.
startPlanCheckout(s) ==
    /\ s \notin ByHand /\ sub[s].status = "absent"
    /\ Live = {} \/ \E cur \in Live : cur \in ByHand \/ MayBuy(cur, s)
    /\ \/ SetStatus(s, "INCOMPLETE") /\ gateway' = [gateway EXCEPT ![s] = "created"]
       \/ SetStatus(s, "EXPIRED") /\ UNCHANGED gateway
    /\ UNCHANGED <<invoice, nextInvoice, presence, replaced, charges, event, req, faults>>

\* Mutant: the browser is believed without a signature.
confirmPlanCheckout_Unsigned(r, s) ==
    /\ sub[s].status = "INCOMPLETE"
    /\ Begin(r, "switch", s, NoEvent, Live, "none")
    /\ UNCHANGED <<rows, outside, event, faults>>

\* The browser has a valid signature once the mandate was authorised.  Unless
\* the row is INCOMPLETE, activateGatewaySubscription changes nothing for it.
confirmPlanCheckout(r, s) ==
    /\ gateway[s] \notin {"none", "created"}
    /\ sub[s].status = "INCOMPLETE"
    /\ Begin(r, "switch", s, NoEvent, Live, "none")
    /\ UNCHANGED <<rows, outside, event, faults>>

\* The plan stays to the end of the period that was paid for.
cancelPlanAtPeriodEnd(s) ==
    /\ s \in Live \cap Troubled /\ gateway[s] = "running"
    /\ gateway' = [gateway EXCEPT ![s] = "ending"]
    /\ UNCHANGED <<rows, charges, event, req, faults>>

\* The transaction's reads; nothing changes when the seller has that plan.
changeSellerPlan(r, s) ==
    /\ s \in ByHand /\ sub[s].status = "absent"
    /\ \/ Live = {} /\ Begin(r, "switch", s, NoEvent, {}, "none")
       \/ \E cur \in Live :
             PlanOf[cur] # PlanOf[s] /\ Begin(r, "switch", s, NoEvent, {cur}, "none")
    /\ UNCHANGED <<rows, outside, event, faults>>

-----------------------------------------------------------------------------
(* The webhook.                                                             *)

\* What the handler of an event starts with, after its first read of the row.
Handle(r, e) ==
    LET s == e.sub
        row == sub[s]
    IN
    \/ e.kind = "activated" /\ row.status = "INCOMPLETE" /\ Begin(r, "switch", s, e, Live, "none")
    \/ e.kind = "charged" /\ row.status = "INCOMPLETE" /\ Begin(r, "activate", s, e, {}, "none")
    \/ e.kind = "charged" /\ row.status # "INCOMPLETE" /\ Begin(r, "charge", s, e, {}, "none")
    \/ e.kind = "pending" /\ row.status \in {"ACTIVE", "PAST_DUE"}
       /\ Begin(r, "pastDue", s, e, {}, row.grace)
    \/ e.kind = "ended" /\ row.status \notin {"CANCELED", "EXPIRED"}
       /\ Begin(r, "end", s, e, {}, "none")

Ignored(e) ==
    LET status == sub[e.sub].status IN
    \/ e.kind = "activated" /\ status # "INCOMPLETE"
    \/ e.kind = "pending" /\ status \notin {"ACTIVE", "PAST_DUE"}
    \/ e.kind = "ended" /\ status \in {"CANCELED", "EXPIRED"}

\* The event is recorded, then handled.  An event that comes while it is being
\* handled is a duplicate: it is answered, and Razorpay does not repeat it.
receiveWebhook(r, e) ==
    /\ event[e] = "due"
    /\ event' = [event EXCEPT ![e] = "recorded"]
    /\ Handle(r, e) \/ (Ignored(e) /\ At(r, "idle") /\ UNCHANGED req)
    /\ UNCHANGED <<rows, outside, faults>>

duplicateWebhook(e) ==
    /\ event[e] = "recorded" /\ \E r \in Requests : Working(r) /\ req[r].event = e
    /\ event' = [event EXCEPT ![e] = "answered"]
    /\ UNCHANGED <<rows, outside, req, faults>>

\* A charge activates first: the reads of that transaction.
activateRead(r) ==
    LET s == req[r].sub IN
    /\ At(r, "activate")
    /\ \/ /\ sub[s].status = "INCOMPLETE"
          /\ req' = [req EXCEPT ![r].next = "switch", ![r].old = Live]
       \/ sub[s].status # "INCOMPLETE" /\ Go(r, "charge")
    /\ UNCHANGED <<rows, outside, event, faults>>

\* Mutant: the old plan is left as it is.
switchPlan_KeepsOld(r) ==
    LET s == req[r].sub IN
    /\ At(r, "switch")
    /\ sub' = [sub EXCEPT ![s] = [status |-> "ACTIVE", grace |-> "none"]]
    /\ replaced' = replaced \cup req[r].old
    /\ Go(r, "recompute")
    /\ UNCHANGED <<invoice, nextInvoice, presence, outside, event, faults>>

\* Its writes, and those of changeSellerPlan: what was found live is cancelled
\* by id and the new row is ACTIVE.
switchPlan(r) ==
    LET s == req[r].sub IN
    /\ At(r, "switch")
    /\ sub' = [t \in Subs |->
                 IF t = s THEN [status |-> "ACTIVE", grace |-> "none"]
                 ELSE IF t \in req[r].old THEN [sub[t] EXCEPT !.status = "CANCELED"]
                 ELSE sub[t]]
    /\ replaced' = replaced \cup req[r].old
    /\ IF req[r].old = {} THEN Go(r, "recompute") ELSE req' = [req EXCEPT ![r].next = "stopOld"]
    /\ UNCHANGED <<invoice, nextInvoice, presence, outside, event, faults>>

\* cancelGatewaySubscription of the old plans: the answer is not looked at.
Stop(r, ids) ==
    /\ gateway' = [t \in Subs |-> IF t \in ids \ ByHand THEN "ended" ELSE gateway[t]]
    /\ Emit({Happening("ended", t) : t \in ids \ ByHand})
    /\ Go(r, "recompute")
    /\ UNCHANGED <<rows, charges>>

stopOld(r) == At(r, "stopOld") /\ Stop(r, req[r].old) /\ UNCHANGED faults

\* Payment, invoice number and status in one transaction, which the unique
\* payment id rolls back when the charge has its row.  The status is written
\* whatever it was.
recordCharge(r) ==
    LET s == req[r].sub
        c == <<s, req[r].event.n>>
    IN
    /\ At(r, "charge")
    /\ \/ /\ invoice[c] = 0
          /\ invoice' = [invoice EXCEPT ![c] = nextInvoice]
          /\ nextInvoice' = nextInvoice + 1
          /\ sub' = [sub EXCEPT ![s] = [status |-> "ACTIVE", grace |-> "none"]]
          /\ Go(r, "recompute")
       \/ invoice[c] # 0 /\ Finish(r) /\ UNCHANGED <<sub, invoice, nextInvoice>>
    /\ UNCHANGED <<presence, replaced, outside, event, faults>>

\* A grace period that was running is kept, to the minute it was read with.
markPastDue(r) ==
    LET s == req[r].sub IN
    /\ At(r, "pastDue")
    /\ \E grace \in IF req[r].seen = "none" THEN {"running"}
                    ELSE IF sub[s].grace = "none" THEN {"running", "over"}
                    ELSE {sub[s].grace} :
          sub' = [sub EXCEPT ![s] = [status |-> "PAST_DUE", grace |-> grace]]
    /\ Go(r, "recompute")
    /\ UNCHANGED <<invoice, nextInvoice, presence, replaced, outside, event, faults>>

\* CANCELED stands for EXPIRED too: the code asks for neither alone.
endGatewaySubscription(r) ==
    /\ At(r, "end")
    /\ SetStatus(req[r].sub, "CANCELED")
    /\ Go(r, "recompute")
    /\ UNCHANGED <<invoice, nextInvoice, presence, replaced, outside, event, faults>>

-----------------------------------------------------------------------------
(* The tier.                                                                *)

\* Mutant: a charge that activated is taken to be recorded.
AfterTier_NoCharge(r) == Finish(r)

\* After an activation that a charge asked for comes the charge itself.
AfterTier(r) ==
    LET e == req[r].event IN
    IF e.kind = "charged" /\ invoice[<<e.sub, e.n>>] = 0 THEN Go(r, "charge") ELSE Finish(r)

\* recomputeWebPresence reads the seller and its plan, and stops when they agree.
recomputeRead(r) ==
    /\ At(r, "recompute")
    /\ \E tier \in ActivePlans :
          IF tier = presence THEN AfterTier(r)
          ELSE req' = [req EXCEPT ![r].next = "tier", ![r].tier = tier]
    /\ UNCHANGED <<rows, outside, event, faults>>

recomputeWebPresence(r) ==
    /\ At(r, "tier")
    /\ presence' = req[r].tier
    /\ AfterTier(r)
    /\ UNCHANGED <<sub, invoice, nextInvoice, replaced, outside, event, faults>>

GraceEnds(s) ==
    /\ sub[s].grace = "running"
    /\ sub' = [sub EXCEPT ![s].grace = "over"]
    /\ UNCHANGED <<invoice, nextInvoice, presence, replaced, outside, event, req, faults>>

\* expireLapsedSubscriptions; a checkout may have been open for a day.
Expired(row) == row.status = "INCOMPLETE" \/ (row.status = "PAST_DUE" /\ row.grace = "over")

\* Mutant: the sweep leaves the tier to the next request.
nightly_OnlyExpires(r) ==
    /\ At(r, "idle")
    /\ sub' = [s \in Subs |-> IF Expired(sub[s]) THEN [sub[s] EXCEPT !.status = "EXPIRED"] ELSE sub[s]]
    /\ UNCHANGED <<invoice, nextInvoice, presence, replaced, outside, event, req, faults>>

nightly(r) ==
    /\ \E old \in SUBSET {s \in Subs : sub[s].status = "INCOMPLETE"} :
          sub' = [s \in Subs |-> IF Expired(sub[s]) /\ (sub[s].status = "PAST_DUE" \/ s \in old)
                                 THEN [sub[s] EXCEPT !.status = "EXPIRED"] ELSE sub[s]]
    /\ Begin(r, "recompute", CHOOSE s \in Subs : TRUE, NoEvent, {}, "none")
    /\ UNCHANGED <<invoice, nextInvoice, presence, replaced, outside, event, faults>>

-----------------------------------------------------------------------------
(* Failures.                                                                *)

Fault == faults < MaxFaults /\ faults' = faults + 1

\* A query throws: the event is forgotten and Razorpay repeats it.
handlerThrows(r) ==
    LET e == req[r].event IN
    /\ Fault /\ Working(r)
    /\ event' = [f \in Events |-> IF f = e /\ event[e] = "recorded" THEN "due" ELSE event[f]]
    /\ Finish(r)
    /\ UNCHANGED <<rows, outside>>

\* The process dies: the event stays recorded and its repeat is a duplicate.
processDies(r) ==
    /\ Fault /\ Working(r)
    /\ Finish(r)
    /\ UNCHANGED <<rows, outside, event>>

\* The process dies between the insert of the row and the answer of Razorpay.
checkoutDies(s) ==
    /\ Fault /\ s \notin ByHand /\ sub[s].status = "absent" /\ Live = {}
    /\ SetStatus(s, "INCOMPLETE")
    /\ UNCHANGED <<invoice, nextInvoice, presence, replaced, outside, event, req>>

\* Razorpay does not carry out one of the cancellations.
stopOldFails(r) ==
    /\ Fault /\ At(r, "stopOld")
    /\ \E t \in req[r].old \ ByHand : Stop(r, req[r].old \ {t})

-----------------------------------------------------------------------------
RequestStep(r) ==
    \/ activateRead(r) \/ switchPlan(r) \/ stopOld(r) \/ recordCharge(r)
    \/ markPastDue(r) \/ endGatewaySubscription(r)
    \/ recomputeRead(r) \/ recomputeWebPresence(r)

Next ==
    \/ \E s \in Subs \ ByHand :
          authorise(s) \/ chargeCycle(s) \/ failCycle(s) \/ endCycle(s)
    \/ \E s \in Subs : startPlanCheckout(s) \/ cancelPlanAtPeriodEnd(s) \/ GraceEnds(s) \/ checkoutDies(s)
    \/ \E e \in Events : duplicateWebhook(e)
    \/ \E r \in Requests \ {Nightly} :
          \/ \E s \in Subs \ ByHand : confirmPlanCheckout(r, s)
          \/ \E s \in Subs : changeSellerPlan(r, s)
          \/ \E e \in Events : receiveWebhook(r, e)
    \/ nightly(Nightly)
    \/ \E r \in Requests :
          RequestStep(r) \/ handlerThrows(r) \/ processDies(r) \/ stopOldFails(r)

Spec == Init /\ [][Next]_vars

\* Requests that run are not abandoned, Razorpay repeats an event until it is
\* answered, and the nightly job runs every night.
FairSpec ==
    /\ Spec
    /\ \A r \in Requests : WF_vars(RequestStep(r))
    /\ \A e \in Events : SF_vars(\E r \in Requests \ {Nightly} : receiveWebhook(r, e))
    /\ WF_vars(nightly(Nightly))

-----------------------------------------------------------------------------
(* Properties.                                                              *)

\* The columns' types, and the state a request can be in.
TypeOK ==
    /\ sub \in [Subs -> [status : Statuses, grace : Seen]]
    /\ gateway \in [Subs -> {"none", "created", "running", "ending", "ended"}]
    /\ charges \in [Subs -> 0 .. MaxCharges]
    /\ event \in [Events -> {"unsent", "due", "recorded", "answered"}]
    /\ invoice \in [Charge -> Nat]
    /\ nextInvoice \in Nat \ {0}
    /\ presence \in Tiers
    /\ replaced \subseteq Subs
    /\ req \in [Requests -> Request]
    /\ faults \in 0 .. MaxFaults

\* "Only a verified Checkout signature or a signed webhook activates it" (D41):
\* a plan bought through Razorpay is live only if its mandate was authorised.
LiveIsAuthorised == \A s \in Live \ ByHand : gateway[s] \notin {"none", "created"}

\* "Every charge gets a sequential GST invoice number" (D41): the numbers given
\* out are exactly those below the counter, each once, and only for charges
\* Razorpay made, whatever duplicates and retries arrive.
InvoicesAreSequential ==
    /\ {invoice[c] : c \in Charge} \ {0} = 1 .. nextInvoice - 1
    /\ \A c, d \in Charge : invoice[c] = invoice[d] /\ invoice[c] # 0 => c = d
    /\ \A c \in Charge : invoice[c] # 0 => c[2] <= charges[c[1]]

\* The webhook route drops its dedupe row when a handler throws so that the
\* retry is processed: a charge gets its invoice unless a process failed.
ChargesAreInvoiced ==
    \A c \in Charge : charges[c[1]] >= c[2] ~> invoice[c] # 0 \/ faults > 0

\* "Swept nightly so a subscription that lapses without a request touching it
\* still downgrades": the tier agrees with a live plan again and again, also when
\* the job and a handler recompute at once and the one that read first writes last.
TierCatchesUp == []<>(presence \in ActivePlans)

\* "A plan the seller was paying for by autopay must stop charging"
\* (changeSellerPlan), as far as it goes: a plan another one replaced is stopped
\* at Razorpay unless a call or a process fails.
ReplacedIsStopped ==
    \A s \in Subs \ ByHand : s \in replaced ~> gateway[s] = "ended" \/ faults > 0

\* "Plan switches start the new plan immediately and end the old one" (D41).
OneLivePlan == Cardinality(Live) <= 1
================================================================================
