------------------------------ MODULE Plans_proofs ------------------------------
(***************************************************************************)
(* The plans of a seller, for any number of rows, requests and charges       *)
(* (Subscriptions), and any prices, rates and coupons (PlanPricing).         *)
(*                                                                         *)
(* Subscriptions.  A live row was authorised because what a request is about *)
(* to write is founded in what it was begun with: a signature, an            *)
(* administrator, or an event, which Razorpay sends only of mandates that    *)
(* were authorised and of charges it made (Founded, Told).  No step takes    *)
(* that ground away again (Lasting), so it does not matter how long the      *)
(* request waits, in which order the events come, or what the rows have      *)
(* become.  Moved lists the ways a request can go; the invariant is proved   *)
(* from it and never from the requests' records.                             *)
(*                                                                         *)
(* PlanPricing.  Arithmetic first: Round is pinned down by two inequalities  *)
(* (RoundBounds) and by them alone (RoundIs), which is what makes BaseOf     *)
(* undo withGst.  The state needs one strengthening of the properties: what  *)
(* is kept beside a Razorpay plan, in the plan's row and in the checkouts    *)
(* that have read it, is what that plan charges (PlansCharge).               *)
(***************************************************************************)
EXTENDS Subscriptions, PlanPricing, TLAPS

-----------------------------------------------------------------------------
(* What a step does to a request.                                           *)

Busy == [next : Steps, sub : Subs, event : Events \cup {NoEvent}, old : SUBSET Subs,
         seen : Seen, tier : Tiers]

LEMMA RequestForms ==
    /\ Request = {Idle} \cup Busy
    /\ Idle.next = "idle" /\ "idle" \notin Steps
    /\ \A x \in Request : x.next # "idle" => x \in Busy
    /\ \A x \in Busy : x.next # "idle"
  BY DEF Request, Busy, Idle, Steps

LEMMA EventForms ==
    /\ \A e \in Events : /\ e # NoEvent /\ e.sub \in Subs /\ e.sub \notin ByHand
                         /\ e.kind \in {"activated", "pending", "ended", "charged"}
                         /\ e.kind = "charged" => e.n \in 1 .. MaxCharges
    /\ NoEvent.kind = "none"
  BY DEF Events, NoEvent

LEMMA FinishForm ==
    ASSUME TypeOK, NEW r \in Requests, Finish(r)
    PROVE  /\ req' \in [Requests -> Request] /\ req'[r] = Idle
           /\ \A q \in Requests : q # r => req'[q] = req[q]
  BY RequestForms DEF TypeOK, Finish

LEMMA BeginForm ==
    ASSUME TypeOK, NEW r \in Requests, NEW step \in Steps, NEW s \in Subs,
           NEW e \in Events \cup {NoEvent}, NEW old \in SUBSET Subs, NEW seen \in Seen,
           Begin(r, step, s, e, old, seen)
    PROVE  /\ req' \in [Requests -> Request] /\ req'[r] \in Busy /\ At(r, "idle")
           /\ req'[r].next = step /\ req'[r].sub = s /\ req'[r].event = e /\ req'[r].old = old
           /\ \A q \in Requests : q # r => req'[q] = req[q]
<1>1. [next |-> step, sub |-> s, event |-> e, old |-> old, seen |-> seen, tier |-> Free] \in Busy
  BY DEF Busy, Tiers
<1> QED
  BY <1>1, RequestForms DEF TypeOK, Begin

LEMMA GoForm ==
    ASSUME TypeOK, NEW r \in Requests, ~At(r, "idle"), NEW step \in Steps, Go(r, step)
    PROVE  /\ req' \in [Requests -> Request] /\ req'[r] \in Busy
           /\ req'[r].next = step /\ req'[r].sub = req[r].sub
           /\ req'[r].event = req[r].event /\ req'[r].old = {}
           /\ \A q \in Requests : q # r => req'[q] = req[q]
<1> DEFINE new == [req[r] EXCEPT !.next = step, !.old = {}, !.seen = "none", !.tier = Free]
<1>1. req[r] \in Busy
  BY RequestForms DEF TypeOK, At
<1>2. /\ new \in Busy /\ new.next = step /\ new.sub = req[r].sub
      /\ new.event = req[r].event /\ new.old = {}
  BY <1>1 DEF Busy, Seen, Tiers
<1>3. req' = [req EXCEPT ![r] = new]
  BY DEF Go, TypeOK
<1> QED
  BY <1>2, <1>3, RequestForms DEF TypeOK

LEMMA BusyParts ==
    ASSUME TypeOK, NEW r \in Requests, req[r].next # "idle"
    PROVE  /\ req[r] \in Busy /\ req[r].sub \in Subs /\ req[r].old \in SUBSET Subs
           /\ req[r].event \in Events \cup {NoEvent} /\ req[r].tier \in Tiers /\ ~At(r, "idle")
  BY RequestForms DEF TypeOK, Busy, At

LEMMA LiveTypes ==
    /\ Live \in SUBSET Subs /\ ActivePlans \subseteq Tiers
    /\ TypeOK => \A s \in Live : sub[s].status # "absent"
  BY SubscriptionAssumption DEF Live, ActivePlans, Tiers, LiveStatus

World ==
    \/ \E s \in Subs \ ByHand : authorise(s) \/ chargeCycle(s) \/ failCycle(s) \/ endCycle(s)
    \/ \E s \in Subs : startPlanCheckout(s) \/ cancelPlanAtPeriodEnd(s) \/ GraceEnds(s) \/ checkoutDies(s)
    \/ \E e \in Events : duplicateWebhook(e)
RequestMove(r) ==
    \/ \E s \in Subs \ ByHand : confirmPlanCheckout(r, s)
    \/ \E s \in Subs : changeSellerPlan(r, s)
    \/ \E e \in Events : receiveWebhook(r, e)
    \/ nightly(r)
    \/ RequestStep(r) \/ handlerThrows(r) \/ processDies(r) \/ stopOldFails(r)

LEMMA NextIs == Next => World \/ \E r \in Requests : RequestMove(r)
  BY SubscriptionAssumption DEF Next, World, RequestMove

Authorised(s) == s \in ByHand \/ gateway[s] \notin {"none", "created"}

\* The ways a request goes.
Rests(r) == req'[r] = req[r]
Ends(r) == req'[r] = Idle
Starts(r) ==
    /\ At(r, "idle") /\ req'[r].event = NoEvent /\ req'[r].old \subseteq Live
    /\ \/ req'[r].next = "switch" /\ Authorised(req'[r].sub)
       \/ req'[r].next = "recompute"
Hears(r) ==
    \E e \in Events :
        /\ At(r, "idle") /\ event[e] = "due" /\ event'[e] = "recorded"
        /\ req'[r].event = e /\ req'[r].sub = e.sub /\ req'[r].old \subseteq Live
        /\ \/ req'[r].next \in {"switch", "pastDue", "end"}
           \/ req'[r].next \in {"activate", "charge"} /\ e.kind = "charged"
GoesOn(r) ==
    /\ ~At(r, "idle")
    /\ req'[r].event = req[r].event /\ req'[r].sub = req[r].sub
    /\ \/ req'[r].old \subseteq Live /\ req'[r].next = "switch" /\ At(r, "activate")
       \/ req'[r].old = {} /\ req'[r].next = "charge" /\ req[r].event.kind = "charged"
       \/ req'[r].old = {} /\ req'[r].next = "charge" /\ At(r, "activate")
       \/ req'[r].old \subseteq req[r].old /\ req'[r].next \in {"stopOld", "recompute", "tier"}
Moved(r) ==
    /\ req' \in [Requests -> Request]
    /\ Rests(r) \/ Ends(r) \/ Starts(r) \/ Hears(r) \/ GoesOn(r)
    /\ \A q \in Requests : q # r => req'[q] = req[q]

LEMMA StepNames ==
    /\ Steps = {"activate", "switch", "stopOld", "charge", "pastDue", "end", "recompute", "tier"}
    /\ Seen = {"none", "running", "over"}
  BY DEF Steps, Seen

LEMMA EndMoves == ASSUME TypeOK, NEW r \in Requests, Finish(r) PROVE Moved(r)
  BY FinishForm DEF Moved, Ends

LEMMA GoMoves ==
    ASSUME TypeOK, NEW r \in Requests, ~At(r, "idle"), NEW step \in Steps, Go(r, step),
           \/ step \in {"stopOld", "recompute", "tier"}
           \/ step = "charge" /\ (At(r, "activate") \/ req[r].event.kind = "charged")
    PROVE  Moved(r)
  BY GoForm DEF Moved, GoesOn

\* The three steps that note something in the request.
LEMMA NoteMoves ==
    ASSUME TypeOK, NEW r \in Requests, ~At(r, "idle"), NEW step \in Steps,
           NEW old \in SUBSET Subs, NEW tier \in Tiers,
           req' = [req EXCEPT ![r] = [req[r] EXCEPT !.next = step, !.old = old, !.tier = tier]],
           \/ step = "switch" /\ At(r, "activate") /\ old \subseteq Live
           \/ step \in {"stopOld", "recompute", "tier"} /\ old \subseteq req[r].old
    PROVE  Moved(r)
<1>1. /\ req' \in [Requests -> Request]
      /\ req'[r].next = step /\ req'[r].sub = req[r].sub
      /\ req'[r].event = req[r].event /\ req'[r].old = old
      /\ \A q \in Requests : q # r => req'[q] = req[q]
  <2> DEFINE new == [req[r] EXCEPT !.next = step, !.old = old, !.tier = tier]
  <2>1. req[r] \in Busy
    BY RequestForms DEF TypeOK, At
  <2>2. /\ new \in Busy /\ new.next = step /\ new.sub = req[r].sub
        /\ new.event = req[r].event /\ new.old = old
    BY <2>1 DEF Busy
  <2>3. req' = [req EXCEPT ![r] = new]
    OBVIOUS
  <2> HIDE DEF new
  <2> QED
    BY <2>2, <2>3, RequestForms DEF TypeOK
<1> QED  BY <1>1 DEF Moved, GoesOn

LEMMA AfterTierMoves ==
    ASSUME TypeOK, NEW r \in Requests, ~At(r, "idle"), AfterTier(r)
    PROVE  Moved(r)
  BY EndMoves, GoMoves, StepNames DEF AfterTier

LEMMA ConfirmMoves ==
    ASSUME TypeOK, NEW r \in Requests, NEW s \in Subs \ ByHand, confirmPlanCheckout(r, s)
    PROVE  Moved(r)
<1>1. Begin(r, "switch", s, NoEvent, Live, "none") /\ gateway[s] \notin {"none", "created"}
  BY DEF confirmPlanCheckout
<1> QED  BY <1>1, BeginForm, LiveTypes, StepNames DEF Moved, Starts, Authorised

LEMMA ChangeMoves ==
    ASSUME TypeOK, NEW r \in Requests, NEW s \in Subs, changeSellerPlan(r, s)
    PROVE  Moved(r)
<1>1. PICK old \in SUBSET Live : s \in ByHand /\ Begin(r, "switch", s, NoEvent, old, "none")
  BY DEF changeSellerPlan
<1>2. old \in SUBSET Subs  BY LiveTypes
<1> QED  BY <1>1, <1>2, BeginForm, StepNames DEF Moved, Starts, Authorised

LEMMA NightlyMoves ==
    ASSUME TypeOK, NEW r \in Requests, nightly(r)
    PROVE  Moved(r)
<1>1. PICK s \in Subs : Begin(r, "recompute", s, NoEvent, {}, "none")
  BY SubscriptionAssumption DEF nightly
<1> QED  BY <1>1, BeginForm, StepNames DEF Moved, Starts

LEMMA HearMoves ==
    ASSUME TypeOK, NEW r \in Requests, NEW e \in Events, receiveWebhook(r, e)
    PROVE  Moved(r)
<1>1. event[e] = "due" /\ event'[e] = "recorded"
  BY DEF receiveWebhook, TypeOK
<1>2. CASE UNCHANGED req
  BY <1>2 DEF Moved, Rests, TypeOK
<1>3. CASE Handle(r, e)
  <2>1. sub[e.sub].grace \in Seen /\ e.sub \in Subs
    BY EventForms DEF TypeOK
  <2>2. PICK step \in Steps, old \in {Live, {}}, seen \in Seen :
            /\ Begin(r, step, e.sub, e, old, seen)
            /\ \/ step \in {"switch", "pastDue", "end"}
               \/ step \in {"activate", "charge"} /\ e.kind = "charged"
    BY <1>3, <2>1, StepNames DEF Handle
  <2>3. old \in SUBSET Subs /\ old \subseteq Live  BY LiveTypes
  <2>4. /\ req' \in [Requests -> Request] /\ At(r, "idle")
        /\ req'[r].next = step /\ req'[r].sub = e.sub /\ req'[r].event = e /\ req'[r].old = old
        /\ \A q \in Requests : q # r => req'[q] = req[q]
    BY <2>1, <2>2, <2>3, BeginForm
  <2> QED  BY <1>1, <2>2, <2>3, <2>4 DEF Moved, Hears
<1> QED  BY <1>2, <1>3 DEF receiveWebhook

LEMMA StepMoves ==
    ASSUME TypeOK, NEW r \in Requests, RequestStep(r)
    PROVE  Moved(r)
<1>0. ~At(r, "idle")
  BY DEF RequestStep, activateRead, switchPlan, stopOld, recordCharge, markPastDue,
         endGatewaySubscription, recomputeRead, recomputeWebPresence, At
<1>1. /\ req[r] \in Busy /\ req[r].old \in SUBSET Subs /\ req[r].tier \in Tiers
  BY <1>0, BusyParts DEF At
<1>2. CASE activateRead(r)
  <2>1. CASE req' = [req EXCEPT ![r].next = "switch", ![r].old = Live]
    <3>1. req' = [req EXCEPT ![r] = [req[r] EXCEPT !.next = "switch", !.old = Live, !.tier = req[r].tier]]
      BY <1>1, <2>1 DEF TypeOK, Busy
    <3>2. Live \in SUBSET Subs /\ At(r, "activate")  BY <1>2, LiveTypes DEF activateRead
    <3> QED  BY <1>0, <1>1, <3>1, <3>2, NoteMoves, StepNames
  <2>2. CASE Go(r, "charge")
    BY <1>0, <1>2, <2>2, GoMoves, StepNames DEF activateRead
  <2> QED  BY <1>2, <2>1, <2>2 DEF activateRead
<1>3. CASE switchPlan(r)
  <2>1. CASE Go(r, "recompute")
    BY <1>0, <2>1, GoMoves, StepNames
  <2>2. CASE req' = [req EXCEPT ![r].next = "stopOld"]
    <3>1. req' = [req EXCEPT ![r] = [req[r] EXCEPT !.next = "stopOld", !.old = req[r].old, !.tier = req[r].tier]]
      BY <1>1, <2>2 DEF TypeOK, Busy
    <3> QED  BY <1>0, <1>1, <3>1, NoteMoves, StepNames
  <2> QED  BY <1>3, <2>1, <2>2 DEF switchPlan
<1>4. CASE stopOld(r)
  BY <1>0, <1>4, GoMoves, StepNames DEF stopOld, Stop
<1>5. CASE recordCharge(r)
  BY <1>0, <1>5, EndMoves, GoMoves, StepNames DEF recordCharge
<1>6. CASE markPastDue(r) \/ endGatewaySubscription(r)
  BY <1>0, <1>6, GoMoves, StepNames DEF markPastDue, endGatewaySubscription
<1>7. CASE recomputeRead(r)
  <2>1. PICK tier \in ActivePlans :
            \/ AfterTier(r)
            \/ req' = [req EXCEPT ![r].next = "tier", ![r].tier = tier]
    BY <1>7 DEF recomputeRead
  <2>2. CASE AfterTier(r)  BY <1>0, <2>2, AfterTierMoves
  <2>3. CASE req' = [req EXCEPT ![r].next = "tier", ![r].tier = tier]
    <3>1. req' = [req EXCEPT ![r] = [req[r] EXCEPT !.next = "tier", !.old = req[r].old, !.tier = tier]]
      BY <1>1, <2>3 DEF TypeOK, Busy
    <3>2. tier \in Tiers  BY LiveTypes
    <3> QED  BY <1>0, <1>1, <3>1, <3>2, NoteMoves, StepNames
  <2> QED  BY <2>1, <2>2, <2>3
<1>8. CASE recomputeWebPresence(r)
  BY <1>0, <1>8, AfterTierMoves DEF recomputeWebPresence
<1> QED  BY <1>2, <1>3, <1>4, <1>5, <1>6, <1>7, <1>8 DEF RequestStep

LEMMA Moves ==
    ASSUME TypeOK, NEW r \in Requests, RequestMove(r)
    PROVE  Moved(r)
<1>1. CASE handlerThrows(r) \/ processDies(r)
  BY <1>1, EndMoves DEF handlerThrows, processDies
<1>2. CASE stopOldFails(r)
  <2>1. ~At(r, "idle") /\ Go(r, "recompute")
    BY <1>2 DEF stopOldFails, Stop, At
  <2> QED  BY <2>1, GoMoves, StepNames
<1> QED
  BY <1>1, <1>2, ConfirmMoves, ChangeMoves, HearMoves, NightlyMoves, StepMoves DEF RequestMove

-----------------------------------------------------------------------------
(* The invariant.                                                           *)

\* A plan that is or was live was authorised, and a row comes before its mandate.
Rows ==
    \A s \in Subs :
        /\ sub[s].status \in {"ACTIVE", "PAST_DUE"} => Authorised(s)
        /\ sub[s].status = "absent" => gateway[s] = "none"

\* Razorpay tells of mandates that were authorised and of charges it made.
Told ==
    \A e \in Events : event[e] # "unsent" =>
        Authorised(e.sub) /\ (e.kind = "charged" => e.n <= charges[e.sub])

\* What a request is about to do is founded in the event or the signature it has.
Founded(r) ==
    /\ req[r].event # NoEvent => event[req[r].event] # "unsent" /\ req[r].sub = req[r].event.sub
    /\ req[r].next \in {"activate", "charge", "pastDue", "end"} => req[r].event # NoEvent
    /\ req[r].next \in {"activate", "charge"} => req[r].event.kind = "charged"
    /\ req[r].next = "switch" => Authorised(req[r].sub)
    /\ \A t \in req[r].old : sub[t].status # "absent"
Asked == \A r \in Requests : ~At(r, "idle") => Founded(r)

Steady == TypeOK /\ Rows /\ Told /\ Asked

\* What no step takes back.
Lasting ==
    /\ \A s \in Subs : /\ Authorised(s) => Authorised(s)'
                       /\ charges[s] <= charges'[s]
                       /\ sub[s].status # "absent" => sub'[s].status # "absent"
    /\ \A e \in Events : event[e] # "unsent" => event'[e] # "unsent"

Typed ==
    /\ sub \in [Subs -> [status : Statuses, grace : Seen]]
    /\ gateway \in [Subs -> {"none", "created", "running", "ending", "ended"}]
    /\ charges \in [Subs -> 0 .. MaxCharges]
    /\ event \in [Events -> {"unsent", "due", "recorded", "answered"}]
    /\ invoice \in [Charge -> Nat] /\ nextInvoice \in Nat \ {0}
    /\ presence \in Tiers /\ replaced \subseteq Subs /\ faults \in 0 .. MaxFaults

Keeps == Typed' /\ Rows' /\ Told' /\ Lasting

LEMMA EmitForm ==
    ASSUME TypeOK, NEW es, Emit(es)
    PROVE  /\ event' \in [Events -> {"unsent", "due", "recorded", "answered"}]
           /\ \A e \in Events : /\ event[e] # "unsent" => event'[e] # "unsent"
                                /\ event'[e] # "unsent" => event[e] # "unsent" \/ e \in es
  BY DEF Emit, TypeOK

LEMMA HappeningForm ==
    \A kind, s : Happening(kind, s).kind = kind /\ Happening(kind, s).sub = s
  BY DEF Happening

\* Razorpay moves.
LEMMA GatewayKeeps ==
    ASSUME Steady, NEW s \in Subs \ ByHand,
           authorise(s) \/ chargeCycle(s) \/ failCycle(s) \/ endCycle(s)
    PROVE  Keeps
<1>1. CASE authorise(s)
  BY <1>1 DEF authorise, rows, Steady, TypeOK, Typed, Rows, Told, Keeps, Lasting, Authorised
<1>2. CASE chargeCycle(s)
  <2> DEFINE es == {Happening("activated", s), [kind |-> "charged", sub |-> s, n |-> charges[s] + 1]}
  <2>1. /\ gateway[s] = "running" /\ charges[s] < MaxCharges
        /\ charges' = [charges EXCEPT ![s] = @ + 1] /\ Emit(es)
        /\ UNCHANGED <<sub, invoice, nextInvoice, presence, replaced, gateway, faults>>
    BY <1>2 DEF chargeCycle, rows
  <2>2. \A e \in es : e.sub = s /\ (e.kind = "charged" => e.n = charges[s] + 1)
    BY HappeningForm DEF Happening
  <2> HIDE DEF es
  <2>3. /\ charges' \in [Subs -> 0 .. MaxCharges] /\ charges'[s] = charges[s] + 1
        /\ \A t \in Subs : charges[t] <= charges'[t] /\ charges[t] \in Nat /\ charges'[t] \in Nat
    BY <2>1, SubscriptionAssumption DEF Steady, TypeOK
  <2>4. /\ event' \in [Events -> {"unsent", "due", "recorded", "answered"}]
        /\ \A e \in Events : /\ event[e] # "unsent" => event'[e] # "unsent"
                             /\ event'[e] # "unsent" => event[e] # "unsent" \/ e \in es
    BY <2>1, EmitForm DEF Steady
  <2>5. Told'
    <3> SUFFICES ASSUME NEW e \in Events, event'[e] # "unsent"
                 PROVE  Authorised(e.sub)' /\ (e.kind = "charged" => e.n <= charges'[e.sub])
      BY DEF Told
    <3>1. CASE event[e] # "unsent"
      <4>1. Authorised(e.sub) /\ (e.kind = "charged" => e.n <= charges[e.sub])
        BY <3>1 DEF Steady, Told
      <4>2. e.sub \in Subs /\ (e.kind = "charged" => e.n \in Nat)
        BY EventForms
      <4> QED  BY <2>1, <2>3, <4>1, <4>2 DEF Authorised
    <3>2. CASE e \in es
      BY <2>1, <2>2, <2>3, <3>2 DEF Authorised
    <3> QED  BY <2>4, <3>1, <3>2
  <2> QED  BY <2>1, <2>3, <2>4, <2>5 DEF Steady, TypeOK, Typed, Rows, Keeps, Lasting, Authorised
<1>3. CASE failCycle(s) \/ endCycle(s)
  <2>1. PICK kind : Emit({Happening(kind, s)}) /\ kind \in {"pending", "ended"}
    BY <1>3 DEF failCycle, endCycle
  <2>2. /\ gateway[s] \in {"running", "ending"}
        /\ gateway' = gateway \/ gateway' = [gateway EXCEPT ![s] = "ended"]
        /\ UNCHANGED <<sub, invoice, nextInvoice, presence, replaced, charges, faults>>
    BY <1>3 DEF failCycle, endCycle, rows, outside
  <2>3. \A e \in {Happening(kind, s)} : e.sub = s /\ e.kind # "charged"
    BY <2>1, HappeningForm
  <2>4. /\ event' \in [Events -> {"unsent", "due", "recorded", "answered"}]
        /\ \A e \in Events : /\ event[e] # "unsent" => event'[e] # "unsent"
                             /\ event'[e] # "unsent" => event[e] # "unsent" \/ e \in {Happening(kind, s)}
    BY <2>1, EmitForm DEF Steady
  <2>5. /\ gateway' \in [Subs -> {"none", "created", "running", "ending", "ended"}]
        /\ gateway'[s] \in {"running", "ending", "ended"}
        /\ \A t \in Subs : t # s => gateway'[t] = gateway[t]
    BY <2>2 DEF Steady, TypeOK
  <2>6. Told'
    BY <2>2, <2>3, <2>4, <2>5, EventForms DEF Steady, Told, Authorised
  <2> QED  BY <2>2, <2>4, <2>5, <2>6 DEF Steady, TypeOK, Typed, Rows, Keeps, Lasting, Authorised
<1> QED  BY <1>1, <1>2, <1>3

\* The seller, the clock and what dies in between.
LEMMA SellerKeeps ==
    ASSUME Steady, NEW s \in Subs,
           startPlanCheckout(s) \/ cancelPlanAtPeriodEnd(s) \/ GraceEnds(s) \/ checkoutDies(s)
    PROVE  Keeps
<1>0. s \in ByHand \/ gateway[s] = "none" \/ sub[s].status # "absent"
  BY DEF Steady, Rows
<1>1. CASE startPlanCheckout(s)
  <2>1. /\ s \notin ByHand /\ gateway[s] = "none"
        /\ \E status \in {"INCOMPLETE", "EXPIRED"} : sub' = [sub EXCEPT ![s].status = status]
        /\ gateway' = gateway \/ gateway' = [gateway EXCEPT ![s] = "created"]
        /\ UNCHANGED <<invoice, nextInvoice, presence, replaced, charges, event, faults>>
    BY <1>0, <1>1 DEF startPlanCheckout, SetStatus
  <2>2. /\ sub' \in [Subs -> [status : Statuses, grace : Seen]]
        /\ sub'[s].status \in {"INCOMPLETE", "EXPIRED"}
        /\ \A t \in Subs : t # s => sub'[t] = sub[t]
    BY <2>1 DEF Steady, TypeOK, Statuses
  <2>3. /\ gateway' \in [Subs -> {"none", "created", "running", "ending", "ended"}]
        /\ \A t \in Subs : Authorised(t) => Authorised(t)'
        /\ \A t \in Subs : t # s => gateway'[t] = gateway[t]
    BY <2>1 DEF Steady, TypeOK, Authorised
  <2>4. Rows' /\ Told'
    BY <2>1, <2>2, <2>3, EventForms DEF Steady, Rows, Told, Authorised
  <2> QED  BY <2>1, <2>2, <2>3, <2>4, SubscriptionAssumption DEF Steady, TypeOK, Typed, Keeps, Lasting
<1>2. CASE cancelPlanAtPeriodEnd(s)
  <2>1. /\ gateway[s] = "running" /\ gateway' = [gateway EXCEPT ![s] = "ending"]
        /\ sub[s].status \in {"ACTIVE", "PAST_DUE"}
        /\ UNCHANGED <<sub, invoice, nextInvoice, presence, replaced, charges, event, faults>>
    BY <1>2 DEF cancelPlanAtPeriodEnd, rows, Live, LiveStatus
  <2> QED
    BY <2>1, SubscriptionAssumption, EventForms
       DEF Steady, TypeOK, Typed, Rows, Told, Keeps, Lasting, Authorised
<1>3. CASE GraceEnds(s) \/ checkoutDies(s)
  <2>1. /\ \/ sub' = [sub EXCEPT ![s].grace = "over"]
           \/ sub' = [sub EXCEPT ![s].status = "INCOMPLETE"]
        /\ UNCHANGED <<invoice, nextInvoice, presence, replaced, gateway, charges, event>>
        /\ faults' = faults \/ (faults < MaxFaults /\ faults' = faults + 1)
    BY <1>3 DEF GraceEnds, checkoutDies, SetStatus, Fault, outside
  <2>2. /\ sub' \in [Subs -> [status : Statuses, grace : Seen]]
        /\ sub'[s].status \in {sub[s].status, "INCOMPLETE"}
        /\ \A t \in Subs : t # s => sub'[t] = sub[t]
    BY <2>1 DEF Steady, TypeOK, Statuses, Seen
  <2>3. faults' \in 0 .. MaxFaults
    BY <2>1, SubscriptionAssumption DEF Steady, TypeOK
  <2>4. Rows' /\ Told'
    BY <2>1, <2>2 DEF Steady, Rows, Told, Authorised
  <2> QED
    BY <2>1, <2>2, <2>3, <2>4, SubscriptionAssumption DEF Steady, TypeOK, Typed, Keeps, Lasting, Authorised
<1> QED  BY <1>1, <1>2, <1>3

\* The rows change and Razorpay does not.
LEMMA RowsKeep ==
    ASSUME Steady, UNCHANGED <<gateway, charges>>,
           event' \in [Events -> {"unsent", "due", "recorded", "answered"}],
           \A e \in Events : event'[e] = "unsent" <=> event[e] = "unsent",
           sub' \in [Subs -> [status : Statuses, grace : Seen]],
           \A t \in Subs : \/ sub'[t].status = sub[t].status
                           \/ sub'[t].status \in {"CANCELED", "EXPIRED"}
                           \/ sub'[t].status \in {"ACTIVE", "PAST_DUE"} /\ Authorised(t)
    PROVE  Rows' /\ Told' /\ Lasting
<1>1. \A t \in Subs : Authorised(t)' <=> Authorised(t)
  BY DEF Authorised
<1>2. Rows'
  BY <1>1 DEF Steady, Rows
<1>3. Told'
  BY <1>1, EventForms DEF Steady, Told
<1>4. Lasting
  BY <1>1 DEF Steady, TypeOK, Lasting
<1> QED  BY <1>2, <1>3, <1>4

\* A request begins.
LEMMA BeginKeeps ==
    ASSUME Steady, NEW r \in Requests,
           \/ \E s \in Subs \ ByHand : confirmPlanCheckout(r, s)
           \/ \E s \in Subs : changeSellerPlan(r, s)
           \/ \E e \in Events : receiveWebhook(r, e)
           \/ nightly(r)
    PROVE  Keeps
<1>1. CASE \/ \E s \in Subs \ ByHand : confirmPlanCheckout(r, s)
           \/ \E s \in Subs : changeSellerPlan(r, s)
  <2>1. UNCHANGED <<rows, outside, event, faults>>
    BY <1>1 DEF confirmPlanCheckout, changeSellerPlan
  <2> QED  BY <2>1, RowsKeep DEF rows, outside, Steady, TypeOK, Typed, Keeps
<1>2. CASE \E e \in Events : receiveWebhook(r, e)
  <2>1. PICK e \in Events : /\ event[e] = "due" /\ event' = [event EXCEPT ![e] = "recorded"]
                            /\ UNCHANGED <<rows, outside, faults>>
    BY <1>2 DEF receiveWebhook
  <2>2. /\ event' \in [Events -> {"unsent", "due", "recorded", "answered"}]
        /\ \A f \in Events : event'[f] = "unsent" <=> event[f] = "unsent"
    BY <2>1 DEF Steady, TypeOK
  <2> QED  BY <2>1, <2>2, RowsKeep DEF rows, outside, Steady, TypeOK, Typed, Keeps
<1>3. CASE nightly(r)
  <2>1. PICK gone \in SUBSET Subs :
            /\ sub' = [s \in Subs |-> IF s \in gone THEN [sub[s] EXCEPT !.status = "EXPIRED"] ELSE sub[s]]
            /\ UNCHANGED <<invoice, nextInvoice, presence, replaced, outside, event, faults>>
    <3>1. PICK old \in SUBSET {s \in Subs : sub[s].status = "INCOMPLETE"} :
              sub' = [s \in Subs |-> IF Expired(sub[s]) /\ (sub[s].status = "PAST_DUE" \/ s \in old)
                                     THEN [sub[s] EXCEPT !.status = "EXPIRED"] ELSE sub[s]]
      BY <1>3 DEF nightly
    <3> DEFINE gone == {s \in Subs : Expired(sub[s]) /\ (sub[s].status = "PAST_DUE" \/ s \in old)}
    <3>2. /\ gone \in SUBSET Subs
          /\ sub' = [s \in Subs |-> IF s \in gone THEN [sub[s] EXCEPT !.status = "EXPIRED"] ELSE sub[s]]
      BY <3>1
    <3> QED  BY <1>3, <3>2 DEF nightly
  <2>2. /\ sub' \in [Subs -> [status : Statuses, grace : Seen]]
        /\ \A t \in Subs : sub'[t].status = sub[t].status \/ sub'[t].status = "EXPIRED"
    BY <2>1 DEF Steady, TypeOK, Statuses
  <2> QED  BY <2>1, <2>2, RowsKeep DEF outside, Steady, TypeOK, Typed, Keeps
<1> QED  BY <1>1, <1>2, <1>3

\* The steps that write no row.
LEMMA QuietKeeps ==
    ASSUME Steady, NEW r \in Requests,
           \/ activateRead(r) \/ recomputeRead(r) \/ recomputeWebPresence(r)
           \/ handlerThrows(r) \/ processDies(r)
           \/ \E e \in Events : duplicateWebhook(e)
    PROVE  Keeps
<1>1. CASE activateRead(r) \/ recomputeRead(r)
  <2>1. UNCHANGED <<rows, outside, event, faults>>
    BY <1>1 DEF activateRead, recomputeRead
  <2> QED  BY <2>1, RowsKeep DEF rows, outside, Steady, TypeOK, Typed, Keeps
<1>2. CASE recomputeWebPresence(r)
  <2>1. /\ presence' = req[r].tier /\ At(r, "tier")
        /\ UNCHANGED <<sub, invoice, nextInvoice, replaced, outside, event, faults>>
    BY <1>2 DEF recomputeWebPresence
  <2>2. presence' \in Tiers
    BY <2>1, BusyParts DEF At, Steady
  <2> QED  BY <2>1, <2>2, RowsKeep DEF outside, Steady, TypeOK, Typed, Keeps
<1>3. CASE handlerThrows(r) \/ processDies(r)
  <2>1. /\ faults < MaxFaults /\ faults' = faults + 1 /\ UNCHANGED <<rows, outside>>
        /\ \/ event' = event
           \/ event' = [f \in Events |-> IF f = req[r].event /\ event[req[r].event] = "recorded"
                                         THEN "due" ELSE event[f]]
    BY <1>3 DEF handlerThrows, processDies, Fault
  <2>2. /\ event' \in [Events -> {"unsent", "due", "recorded", "answered"}]
        /\ \A f \in Events : event'[f] = "unsent" <=> event[f] = "unsent"
        /\ faults' \in 0 .. MaxFaults
    BY <2>1, SubscriptionAssumption DEF Steady, TypeOK
  <2> QED  BY <2>1, <2>2, RowsKeep DEF rows, outside, Steady, TypeOK, Typed, Keeps
<1>4. CASE \E e \in Events : duplicateWebhook(e)
  <2>1. PICK e \in Events : /\ event[e] = "recorded" /\ event' = [event EXCEPT ![e] = "answered"]
                            /\ UNCHANGED <<rows, outside, faults>>
    BY <1>4 DEF duplicateWebhook
  <2>2. /\ event' \in [Events -> {"unsent", "due", "recorded", "answered"}]
        /\ \A f \in Events : event'[f] = "unsent" <=> event[f] = "unsent"
    BY <2>1 DEF Steady, TypeOK
  <2> QED  BY <2>1, <2>2, RowsKeep DEF rows, outside, Steady, TypeOK, Typed, Keeps
<1> QED  BY <1>1, <1>2, <1>3, <1>4

\* What is known of the request that is about to write.
LEMMA Writer ==
    ASSUME Steady, NEW r \in Requests, ~At(r, "idle")
    PROVE  /\ req[r].sub \in Subs /\ req[r].old \in SUBSET Subs
           /\ \A t \in req[r].old : sub[t].status # "absent"
           /\ At(r, "switch") => Authorised(req[r].sub)
           /\ req[r].next \in {"activate", "charge", "pastDue", "end"} =>
                 /\ req[r].event \in Events /\ req[r].event # NoEvent
                 /\ req[r].sub = req[r].event.sub /\ Authorised(req[r].sub)
           /\ At(r, "charge") => /\ <<req[r].sub, req[r].event.n>> \in Charge
                                 /\ req[r].event.n <= charges[req[r].sub]
<1>1. /\ req[r].sub \in Subs /\ req[r].old \in SUBSET Subs
      /\ req[r].event \in Events \cup {NoEvent} /\ Founded(r)
  BY BusyParts DEF Steady, Asked, At
<1>2. ASSUME req[r].next \in {"activate", "charge", "pastDue", "end"}
      PROVE  /\ req[r].event \in Events /\ req[r].event # NoEvent
             /\ req[r].sub = req[r].event.sub /\ Authorised(req[r].sub)
  BY <1>1, <1>2 DEF Founded, Steady, Told
<1>3. ASSUME At(r, "charge")
      PROVE  /\ <<req[r].sub, req[r].event.n>> \in Charge /\ req[r].event.n <= charges[req[r].sub]
  <2>1. req[r].event \in Events /\ req[r].event.kind = "charged" /\ event[req[r].event] # "unsent"
    BY <1>1, <1>2, <1>3 DEF Founded, At
  <2> QED  BY <1>2, <1>3, <2>1, EventForms DEF Charge, Steady, Told, At
<1> QED  BY <1>1, <1>2, <1>3 DEF Founded, At

LEMMA WriteKeeps ==
    ASSUME Steady, NEW r \in Requests,
           switchPlan(r) \/ recordCharge(r) \/ markPastDue(r) \/ endGatewaySubscription(r)
    PROVE  Keeps
<1>0. ~At(r, "idle")
  BY DEF switchPlan, recordCharge, markPastDue, endGatewaySubscription, At
<1>1. CASE switchPlan(r)
  <2>1. /\ At(r, "switch")
        /\ sub' = [t \in Subs |->
                     IF t = req[r].sub THEN [status |-> "ACTIVE", grace |-> "none"]
                     ELSE IF t \in req[r].old THEN [sub[t] EXCEPT !.status = "CANCELED"]
                     ELSE sub[t]]
        /\ replaced' = replaced \cup req[r].old
        /\ UNCHANGED <<invoice, nextInvoice, presence, outside, event, faults>>
    BY <1>1 DEF switchPlan
  <2>2. Authorised(req[r].sub) /\ req[r].old \in SUBSET Subs
    BY <1>0, <2>1, Writer
  <2>3. /\ sub' \in [Subs -> [status : Statuses, grace : Seen]]
        /\ \A t \in Subs : \/ sub'[t].status = sub[t].status \/ sub'[t].status = "CANCELED"
                           \/ sub'[t].status = "ACTIVE" /\ t = req[r].sub
    BY <2>1 DEF Steady, TypeOK, Statuses, Seen
  <2> QED  BY <2>1, <2>2, <2>3, RowsKeep DEF outside, Steady, TypeOK, Typed, Keeps
<1>2. CASE recordCharge(r)
  <2> DEFINE s == req[r].sub
             c == <<s, req[r].event.n>>
  <2>1. /\ At(r, "charge")
        /\ \/ /\ invoice' = [invoice EXCEPT ![c] = nextInvoice] /\ nextInvoice' = nextInvoice + 1
              /\ sub' = [sub EXCEPT ![s] = [status |-> "ACTIVE", grace |-> "none"]]
           \/ UNCHANGED <<sub, invoice, nextInvoice>>
        /\ UNCHANGED <<presence, replaced, outside, event, faults>>
    BY <1>2 DEF recordCharge
  <2>2. Authorised(s) /\ s \in Subs /\ c \in Charge
    BY <1>0, <2>1, Writer DEF At
  <2> HIDE DEF s, c
  <2>3. invoice' \in [Charge -> Nat] /\ nextInvoice' \in Nat \ {0}
    BY <2>1, <2>2 DEF Steady, TypeOK
  <2>4. /\ sub' \in [Subs -> [status : Statuses, grace : Seen]]
        /\ \A t \in Subs : \/ sub'[t].status = sub[t].status
                           \/ sub'[t].status = "ACTIVE" /\ Authorised(t)
    <3> DEFINE row == [status |-> "ACTIVE", grace |-> "none"]
    <3>1. row \in [status : Statuses, grace : Seen] /\ row.status = "ACTIVE"
      BY DEF Statuses, Seen
    <3>2. sub' = sub \/ sub' = [sub EXCEPT ![s] = row]
      BY <2>1
    <3> HIDE DEF row
    <3> QED  BY <2>2, <3>1, <3>2 DEF Steady, TypeOK
  <2> QED  BY <2>1, <2>3, <2>4, RowsKeep DEF outside, Steady, TypeOK, Typed, Keeps
<1>3. CASE markPastDue(r)
  <2>1. /\ At(r, "pastDue")
        /\ UNCHANGED <<invoice, nextInvoice, presence, replaced, outside, event, faults>>
    BY <1>3 DEF markPastDue
  <2>2. Authorised(req[r].sub) /\ req[r].sub \in Subs
    BY <1>0, <2>1, Writer DEF At
  <2>3. PICK grace \in Seen :
            sub' = [sub EXCEPT ![req[r].sub] = [status |-> "PAST_DUE", grace |-> grace]]
    BY <1>3, <2>2, StepNames DEF markPastDue, Steady, TypeOK
  <2>4. /\ sub' \in [Subs -> [status : Statuses, grace : Seen]]
        /\ \A t \in Subs : \/ sub'[t].status = sub[t].status
                           \/ sub'[t].status = "PAST_DUE" /\ Authorised(t)
    BY <2>2, <2>3 DEF Steady, TypeOK, Statuses
  <2> QED  BY <2>1, <2>4, RowsKeep DEF outside, Steady, TypeOK, Typed, Keeps
<1>4. CASE endGatewaySubscription(r)
  <2>1. /\ sub' = [sub EXCEPT ![req[r].sub].status = "CANCELED"]
        /\ UNCHANGED <<invoice, nextInvoice, presence, replaced, outside, event, faults>>
    BY <1>4 DEF endGatewaySubscription, SetStatus
  <2>2. /\ sub' \in [Subs -> [status : Statuses, grace : Seen]]
        /\ \A t \in Subs : sub'[t].status = sub[t].status \/ sub'[t].status \in {"CANCELED", "EXPIRED"}
    <3>1. "CANCELED" \in Statuses /\ req[r].sub \in Subs
      BY <1>0, Writer DEF Statuses
    <3> QED  BY <2>1, <3>1 DEF Steady, TypeOK
  <2> QED  BY <2>1, <2>2, RowsKeep DEF outside, Steady, TypeOK, Typed, Keeps
<1> QED  BY <1>1, <1>2, <1>3, <1>4

\* The old plans are stopped at Razorpay, or some of them.
LEMMA StopKeeps ==
    ASSUME Steady, NEW r \in Requests, stopOld(r) \/ stopOldFails(r)
    PROVE  Keeps
<1>1. ~At(r, "idle")
  BY DEF stopOld, stopOldFails, At
<1>2. PICK ids \in SUBSET req[r].old :
          /\ gateway' = [t \in Subs |-> IF t \in ids \ ByHand THEN "ended" ELSE gateway[t]]
          /\ Emit({Happening("ended", t) : t \in ids \ ByHand})
          /\ UNCHANGED <<rows, charges>>
          /\ faults' = faults \/ (faults < MaxFaults /\ faults' = faults + 1)
  <2>1. CASE stopOld(r)  BY <2>1 DEF stopOld, Stop
  <2>2. CASE stopOldFails(r)
    <3>1. PICK t \in req[r].old \ ByHand : Stop(r, req[r].old \ {t})
      BY <2>2 DEF stopOldFails
    <3> QED  BY <2>2, <3>1 DEF stopOldFails, Stop, Fault
  <2> QED  BY <2>1, <2>2
<1>3. /\ gateway' \in [Subs -> {"none", "created", "running", "ending", "ended"}]
      /\ \A t \in Subs : gateway'[t] = gateway[t] \/ (t \in ids /\ gateway'[t] = "ended")
      /\ \A t \in ids \ ByHand : t \in Subs => gateway'[t] = "ended"
  BY <1>2 DEF Steady, TypeOK
<1>4. \A e \in {Happening("ended", t) : t \in ids \ ByHand} : e.sub \in ids \ ByHand /\ e.kind = "ended"
  BY HappeningForm
<1>5. /\ event' \in [Events -> {"unsent", "due", "recorded", "answered"}]
      /\ \A e \in Events : /\ event[e] # "unsent" => event'[e] # "unsent"
                           /\ event'[e] # "unsent" =>
                                 event[e] # "unsent" \/ e \in {Happening("ended", t) : t \in ids \ ByHand}
  BY <1>2, EmitForm DEF Steady
<1>6. \A t \in Subs : Authorised(t) => Authorised(t)'
  BY <1>3 DEF Authorised
<1>7. \A t \in ids : sub[t].status # "absent"
  BY <1>1, Writer
<1>8. Rows'
  BY <1>2, <1>3, <1>6, <1>7 DEF rows, Steady, Rows
<1>9. Told'
  <2> SUFFICES ASSUME NEW e \in Events, event'[e] # "unsent"
               PROVE  Authorised(e.sub)' /\ (e.kind = "charged" => e.n <= charges'[e.sub])
    BY DEF Told
  <2>1. CASE event[e] # "unsent"
    BY <1>2, <1>6, <2>1, EventForms DEF Steady, Told
  <2>2. CASE e \in {Happening("ended", t) : t \in ids \ ByHand}
    BY <1>3, <1>4, <2>2, EventForms DEF Authorised
  <2> QED  BY <1>5, <2>1, <2>2
<1>10. Typed'
  BY <1>2, <1>3, <1>5, SubscriptionAssumption DEF rows, Steady, TypeOK, Typed
<1> QED  BY <1>2, <1>5, <1>6, <1>8, <1>9, <1>10 DEF rows, Steady, TypeOK, Keeps, Lasting

LEMMA StepKeeps ==
    ASSUME Steady, World \/ \E r \in Requests : RequestMove(r)
    PROVE  Keeps
<1>1. CASE \E e \in Events : duplicateWebhook(e)
  <2>1. PICK e \in Events : duplicateWebhook(e)  BY <1>1
  <2>2. \E r \in Requests : TRUE  BY <2>1 DEF duplicateWebhook
  <2> QED  BY <1>1, <2>2, QuietKeeps
<1>2. CASE World
  BY <1>1, <1>2, GatewayKeeps, SellerKeeps DEF World
<1>3. CASE \E r \in Requests : RequestMove(r)
  <2>1. PICK r \in Requests : RequestMove(r)  BY <1>3
  <2> QED  BY <2>1, BeginKeeps, QuietKeeps, WriteKeeps, StopKeeps DEF RequestMove, RequestStep
<1> QED  BY <1>2, <1>3

\* The requests: the one that moved, and the others with what is lasting.
LEMMA OthersAsked ==
    ASSUME Steady, Keeps, NEW q \in Requests, ~At(q, "idle"), req'[q] = req[q]
    PROVE  Founded(q)'
<1>1. Founded(q) /\ req[q].sub \in Subs /\ req[q].event \in Events \cup {NoEvent} /\ req[q].old \in SUBSET Subs
  BY BusyParts DEF Steady, Asked, At
<1> QED  BY <1>1 DEF Keeps, Lasting, Founded

LEMMA MoverAsked ==
    ASSUME Steady, Keeps, NEW r \in Requests, Moved(r)
    PROVE  ~At(r, "idle")' => Founded(r)'
<1>0. \A t \in Live : t \in Subs /\ sub'[t].status # "absent"
  BY LiveTypes DEF Steady, Keeps, Lasting
<1>1. CASE Rests(r)
  BY <1>1, OthersAsked DEF Rests, At
<1>2. CASE Ends(r)
  BY <1>2, RequestForms DEF Ends, At
<1>3. CASE Starts(r)
  <2>1. req'[r] \in Request  BY DEF Moved
  <2>2. req'[r].next # "idle" => req'[r].sub \in Subs
    BY <2>1, RequestForms DEF Busy
  <2> QED  BY <1>0, <1>3, <2>2 DEF Starts, Founded, Keeps, Lasting
<1>4. CASE Hears(r)
  <2>1. PICK e \in Events :
            /\ event[e] = "due" /\ event'[e] = "recorded"
            /\ req'[r].event = e /\ req'[r].sub = e.sub /\ req'[r].old \subseteq Live
            /\ \/ req'[r].next \in {"switch", "pastDue", "end"}
               \/ req'[r].next \in {"activate", "charge"} /\ e.kind = "charged"
    BY <1>4 DEF Hears
  <2>2. Authorised(e.sub)' /\ e # NoEvent
    BY <2>1, EventForms DEF Keeps, Told
  <2> QED  BY <1>0, <2>1, <2>2 DEF Founded, Authorised
<1>5. CASE GoesOn(r)
  <2>1. /\ ~At(r, "idle") /\ Founded(r) /\ req[r].sub \in Subs /\ req[r].old \in SUBSET Subs
        /\ req[r].event \in Events \cup {NoEvent}
        /\ req'[r].event = req[r].event /\ req'[r].sub = req[r].sub
    BY <1>5, BusyParts DEF GoesOn, Steady, Asked, At
  <2>2. /\ req[r].event # NoEvent => event'[req[r].event] # "unsent" /\ req[r].sub = req[r].event.sub
        /\ \A t \in req[r].old : sub'[t].status # "absent"
        /\ At(r, "activate") => req[r].event # NoEvent /\ Authorised(req[r].sub)'
                                /\ req[r].event.kind = "charged"
    BY <2>1, Writer DEF Founded, Keeps, Lasting, At
  <2>3. req[r].event.kind = "charged" => req[r].event # NoEvent
    BY EventForms
  <2> QED  BY <1>0, <1>5, <2>1, <2>2, <2>3 DEF GoesOn, Founded, Authorised
<1> QED  BY <1>1, <1>2, <1>3, <1>4, <1>5 DEF Moved

LEMMA WorldRests == World => UNCHANGED req
  BY DEF World, authorise, chargeCycle, failCycle, endCycle, startPlanCheckout,
         cancelPlanAtPeriodEnd, GraceEnds, checkoutDies, duplicateWebhook

LEMMA SteadyNext ==
    ASSUME Steady, Next
    PROVE  Steady'
<1>1. Keeps
  BY NextIs, StepKeeps
<1>2. req' \in [Requests -> Request] /\ Asked'
  <2>1. CASE World
    <3>1. req' = req  BY <2>1, WorldRests
    <3> QED  BY <1>1, <3>1, OthersAsked DEF Steady, TypeOK, Asked, At
  <2>2. CASE \E r \in Requests : RequestMove(r)
    <3>1. PICK r \in Requests : RequestMove(r)  BY <2>2
    <3>2. Moved(r)  BY <3>1, Moves DEF Steady
    <3>3. ~At(r, "idle")' => Founded(r)'  BY <1>1, <3>2, MoverAsked
    <3>4. \A q \in Requests : q # r => (~At(q, "idle")' => Founded(q)')
      BY <1>1, <3>2, OthersAsked DEF Moved, At
    <3> QED  BY <3>2, <3>3, <3>4 DEF Moved, Asked, At
  <2> QED  BY NextIs, <2>1, <2>2
<1> QED  BY <1>1, <1>2 DEF Keeps, Typed, Steady, TypeOK

LEMMA SteadyFirst == Init => Steady
<1> SUFFICES ASSUME Init PROVE Steady
  OBVIOUS
<1>1. TypeOK
  BY RequestForms, SubscriptionAssumption DEF Init, TypeOK, Statuses, Seen, Tiers
<1>2. Rows /\ Told /\ Asked
  BY RequestForms, EventForms DEF Init, Rows, Told, Asked, At
<1> QED  BY <1>1, <1>2 DEF Steady

LEMMA SteadyStutters == Steady /\ UNCHANGED vars => Steady'
  BY DEF vars, rows, outside, Steady, TypeOK, Rows, Told, Asked, Founded, Authorised, At

THEOREM Steadiness == Spec => []Steady
<1>1. Steady /\ [Next]_vars => Steady'
  BY SteadyNext, SteadyStutters
<1> QED  BY SteadyFirst, <1>1, PTL DEF Spec

\* The columns keep their types and a request goes only through its states.
THEOREM SubscriptionTypes == Spec => []TypeOK
<1>1. Steady => TypeOK
  BY DEF Steady
<1> QED  BY Steadiness, <1>1, PTL

\* A plan bought through Razorpay is live only if its mandate was authorised,
\* whatever order the events and the browser's confirmation come in.
THEOREM LivePlansAuthorised == Spec => []LiveIsAuthorised
<1>1. Steady => LiveIsAuthorised
  BY DEF Steady, Rows, Authorised, LiveIsAuthorised, Live, LiveStatus
<1> QED  BY Steadiness, <1>1, PTL

-----------------------------------------------------------------------------
(* Invoice numbers.                                                         *)

LEMMA OnlyChargesNumber ==
    ASSUME Steady, Next
    PROVE  \/ UNCHANGED <<invoice, nextInvoice>> 
           \/ \E r \in Requests : recordCharge(r)
<1>1. World => UNCHANGED <<invoice, nextInvoice>>
  BY DEF World, authorise, chargeCycle, failCycle, endCycle, startPlanCheckout,
         cancelPlanAtPeriodEnd, GraceEnds, checkoutDies, duplicateWebhook, rows
<1>2. ASSUME NEW r \in Requests, RequestMove(r), ~recordCharge(r)
      PROVE  UNCHANGED <<invoice, nextInvoice>>
  BY <1>2 DEF RequestMove, RequestStep, confirmPlanCheckout, changeSellerPlan, receiveWebhook,
         nightly, handlerThrows, processDies, stopOldFails, activateRead, switchPlan, stopOld, Stop,
         markPastDue, endGatewaySubscription, recomputeRead, recomputeWebPresence, rows
<1> QED  BY NextIs, <1>1, <1>2

LEMMA NumbersNext ==
    ASSUME Steady, InvoicesAreSequential, Next
    PROVE  InvoicesAreSequential'
<1>1. \A s \in Subs : charges[s] <= charges'[s] /\ charges[s] \in Nat /\ charges'[s] \in Nat
  <2>1. Keeps  BY NextIs, StepKeeps
  <2> QED  BY <2>1, SubscriptionAssumption DEF Keeps, Lasting, Typed, Steady, TypeOK
<1>2. \A c \in Charge : c[1] \in Subs /\ c[2] \in Nat
  BY DEF Charge
<1>3. CASE UNCHANGED <<invoice, nextInvoice>>
  BY <1>1, <1>2, <1>3 DEF InvoicesAreSequential
<1>4. CASE \E r \in Requests : recordCharge(r)
  <2>1. PICK r \in Requests : recordCharge(r)  BY <1>4
  <2> DEFINE c == <<req[r].sub, req[r].event.n>>
  <2>2. c \in Charge /\ c[2] <= charges[c[1]]
    BY <2>1, Writer DEF recordCharge, At
  <2>3. CASE UNCHANGED <<invoice, nextInvoice>>
    BY <1>3, <2>3
  <2>4. CASE /\ invoice[c] = 0 /\ invoice' = [invoice EXCEPT ![c] = nextInvoice]
             /\ nextInvoice' = nextInvoice + 1
    <3> HIDE DEF c
    <3>1. /\ invoice \in [Charge -> Nat] /\ nextInvoice \in Nat \ {0}
          /\ \A d \in Charge : invoice[d] \in 0 .. nextInvoice - 1
      BY DEF Steady, TypeOK, InvoicesAreSequential
    <3>2. invoice'[c] = nextInvoice /\ \A d \in Charge : d # c => invoice'[d] = invoice[d]
      BY <2>2, <2>4, <3>1
    <3>3. \A d \in Charge : invoice'[d] # 0 => d[2] <= charges'[d[1]]
      BY <1>1, <1>2, <2>2, <3>2 DEF InvoicesAreSequential
    <3>4. \A d, f \in Charge : invoice'[d] = invoice'[f] /\ invoice'[d] # 0 => d = f
      BY <3>1, <3>2 DEF InvoicesAreSequential
    <3>5. {invoice'[d] : d \in Charge} \ {0} = ({invoice[d] : d \in Charge} \ {0}) \cup {nextInvoice}
      BY <2>2, <2>4, <3>1, <3>2
    <3>6. 1 .. nextInvoice' - 1 = (1 .. nextInvoice - 1) \cup {nextInvoice}
      BY <2>4, <3>1
    <3> QED  BY <3>3, <3>4, <3>5, <3>6 DEF InvoicesAreSequential
  <2> QED  BY <2>1, <2>3, <2>4 DEF recordCharge
<1> QED  BY <1>3, <1>4, OnlyChargesNumber

LEMMA NumbersFirst == Init => InvoicesAreSequential
<1> SUFFICES ASSUME Init PROVE InvoicesAreSequential
  OBVIOUS
<1>1. \A c \in Charge : invoice[c] = 0
  BY DEF Init
<1>2. {invoice[c] : c \in Charge} \ {0} = {} /\ 1 .. nextInvoice - 1 = {}
  BY <1>1 DEF Init
<1> QED  BY <1>1, <1>2 DEF InvoicesAreSequential

\* The invoice numbers given out are those below the counter, each to one charge
\* that Razorpay made, whatever is repeated, thrown or lost.
THEOREM NumbersAreSequential == Spec => []InvoicesAreSequential
<1>1. Steady /\ InvoicesAreSequential /\ [Next]_vars => InvoicesAreSequential'
  <2>1. UNCHANGED vars /\ InvoicesAreSequential => InvoicesAreSequential'
    BY DEF vars, rows, outside, InvoicesAreSequential
  <2> QED  BY <2>1, NumbersNext
<1> QED  BY Steadiness, NumbersFirst, <1>1, PTL DEF Spec

-----------------------------------------------------------------------------
(* PlanPricing: rounding.                                                   *)

LEMMA DivBounds ==
    ASSUME NEW a \in Nat, NEW n \in Nat \ {0}
    PROVE  a \div n \in Nat /\ n * (a \div n) <= a /\ a < n * (a \div n) + n
  OBVIOUS

LEMMA DivIs ==
    ASSUME NEW a \in Nat, NEW n \in Nat \ {0}, NEW q \in Nat, n * q <= a, a < n * q + n
    PROVE  a \div n = q
  OBVIOUS
\* Rounding half up: within half of n, the upper half open.
LEMMA RoundBounds ==
    ASSUME NEW a \in Nat, NEW n \in Nat \ {0}
    PROVE  /\ Round(a, n) \in Nat
           /\ 2 * n * Round(a, n) <= 2 * a + n
           /\ 2 * a + n < 2 * n * Round(a, n) + 2 * n
<1>1. 2 * a + n \in Nat /\ 2 * n \in Nat \ {0}
  OBVIOUS
<1> QED
  BY <1>1, DivBounds DEF Round

LEMMA RoundIs ==
    ASSUME NEW a \in Nat, NEW n \in Nat \ {0}, NEW q \in Nat,
           2 * n * q <= 2 * a + n, 2 * a + n < 2 * n * q + 2 * n
    PROVE  Round(a, n) = q
<1>1. 2 * a + n \in Nat /\ 2 * n \in Nat \ {0}
  OBVIOUS
<1> QED
  BY <1>1, DivIs DEF Round

LEMMA Distribute ==
    ASSUME NEW b \in Nat, NEW r \in Nat
    PROVE  2 * (100 + r) * b = 200 * b + 2 * (b * r)
<1>1. \A x, y \in Nat : (x + y) * b = x * b + y * b /\ (x * y) * b = x * (y * b)
  OBVIOUS
<1>2. 2 * (100 + r) = 200 + 2 * r
  OBVIOUS
<1>3. (200 + 2 * r) * b = 200 * b + (2 * r) * b
  BY <1>1
<1>4. (2 * r) * b = 2 * (r * b) /\ r * b = b * r
  BY <1>1
<1> QED
  BY <1>2, <1>3, <1>4

\* Taking the tax out of a quoted total gives the quoted base back.
LEMMA BaseOfTotal ==
    ASSUME NEW b \in Nat, NEW r \in Nat
    PROVE  /\ withGst(b, r).tax \in Nat
           /\ BaseOf(Total(withGst(b, r)), r) = b
<1> DEFINE br == b * r
           t == Round(br, 100)
<1>1. br \in Nat
  OBVIOUS
<1>2. t \in Nat /\ 200 * t <= 2 * br + 100 /\ 2 * br + 100 < 200 * t + 200
  <2> HIDE DEF br
  <2> QED  BY <1>1, RoundBounds
<1>3. r = 0 => t = 0
  <2>1. r = 0 => br = 0
    OBVIOUS
  <2> QED  BY <1>2, <2>1
<1>4. BaseOf(b + t, r) = b
  <2> DEFINE a == 100 * (b + t)
             n == 100 + r
  <2>1. a \in Nat /\ n \in Nat \ {0}
    BY <1>2
  <2>2. 2 * n * b = 200 * b + 2 * br
    <3> HIDE DEF t
    <3> QED  BY Distribute
  <2>3. 2 * n * b <= 2 * a + n /\ 2 * a + n < 2 * n * b + 2 * n
    <3> HIDE DEF br, t
    <3>1. 2 * a + n = 200 * b + 200 * t + 100 + r
      BY <1>2
    <3> DEFINE p == 2 * n * b
    <3>2. p = 200 * b + 2 * br /\ 2 * n = 200 + 2 * r
      BY <2>2
    <3> SUFFICES p <= 2 * a + n /\ 2 * a + n < p + 2 * n
      OBVIOUS
    <3>3. 2 * a + n < p + (200 + 2 * r)
      <4> HIDE DEF p, a, n
      <4> QED  BY <1>1, <1>2, <1>3, <3>1, <3>2
    <3>4. p <= 2 * a + n
      <4> HIDE DEF p, a, n
      <4> QED  BY <1>1, <1>2, <3>1, <3>2
    <3> HIDE DEF p, a, n
    <3> QED  BY <3>2, <3>3, <3>4
  <2>4. Round(a, n) = b
    <3> HIDE DEF a, n
    <3> QED  BY <2>1, <2>3, RoundIs
  <2> QED  BY <2>4 DEF BaseOf
<1> QED
  BY <1>2, <1>4 DEF withGst, Total

\* The tax that is left is the rate's share of the base, to within a paisa.
LEMMA TaxOfBase ==
    ASSUME NEW m \in Nat, NEW r \in 0 .. 28
    PROVE  /\ BaseOf(m, r) \in Nat
           /\ -100 < 100 * (m - BaseOf(m, r)) - r * BaseOf(m, r)
           /\ 100 * (m - BaseOf(m, r)) - r * BaseOf(m, r) < 100
<1> DEFINE n == 100 + r
           q == Round(100 * m, n)
           rq == r * q
<1>1. n \in Nat \ {0} /\ 100 * m \in Nat
  OBVIOUS
<1>2. q \in Nat /\ 2 * n * q <= 2 * (100 * m) + n /\ 2 * (100 * m) + n < 2 * n * q + 2 * n
  <2> HIDE DEF n
  <2> QED  BY <1>1, RoundBounds
<1>3. rq \in Nat /\ 2 * n * q = 200 * q + 2 * rq
  <2> HIDE DEF q
  <2> QED  BY <1>2
<1>4. -100 < 100 * (m - q) - rq /\ 100 * (m - q) - rq < 100
  <2> HIDE DEF q, rq
  <2> QED  BY <1>2, <1>3
<1> QED
  BY <1>2, <1>4 DEF BaseOf

-----------------------------------------------------------------------------
(* What a checkout may rely on.                                              *)

\* An id is kept beside the amount its plan charges, and a subscription is made
\* on a plan that charges its quote.
PlansCharge ==
    /\ \A i \in Intervals :
          stored[i].id # NoPlan => gatewayPlan[stored[i].id] = stored[i].amount
    /\ \A c \in Checkouts : ~AtStep(c, "idle") =>
          (checkout[c].kept.id # NoPlan => gatewayPlan[checkout[c].kept.id] = checkout[c].kept.amount)
    /\ \A c \in Checkouts : checkout[c].next \in {"store", "subscribe", "running"} =>
          /\ checkout[c].plan \in PlanIds
          /\ gatewayPlan[checkout[c].plan] = Total(checkout[c].quote)

\* A quote is its base with its rate's tax.
QuotesAreGst ==
    \A c \in Checkouts : checkout[c] \in Quoted =>
        checkout[c].quote = withGst(checkout[c].quote.base, checkout[c].quote.rate)

\* A charge belongs to a mandate, and its base is taken out of its amount.
ChargesAreSplit ==
    \A p \in payments :
        /\ Running(p.of) /\ p.amount = Total(checkout[p.of].quote)
        /\ p.base = BaseOf(p.amount, p.rate)

Priced == PricingTypeOK /\ PlansCharge /\ QuotesAreGst /\ ChargesAreSplit

LEMMA TaxIsNat ==
    ASSUME NEW b \in Nat, NEW r \in Nat
    PROVE  withGst(b, r).tax \in Nat /\ withGst(b, r).base = b /\ withGst(b, r).rate = r
  BY BaseOfTotal DEF withGst

\* A discount is never more than the price.
LEMMA DiscountWithinPrice ==
    ASSUME NEW b \in Nat, NEW k \in [kind : {"PERCENT_OFF", "FLAT_OFF"}, off : Nat]
    PROVE  discountFor(k, b) \in 0 .. b
<1>1. b * k.off \in Nat
  OBVIOUS
<1>2. Round(b * k.off, 100) \in Nat
  BY <1>1, RoundBounds
<1> QED
  BY <1>2 DEF discountFor, Smaller

LEMMA PricesFirst == ASSUME PricingInit PROVE Priced
<1> USE PricingAssumption
<1>1. PricingTypeOK
  BY DEF PricingInit, PricingTypeOK, NotStored, Unmade
<1>2. PlansCharge
  BY DEF PricingInit, PlansCharge, NotStored, NoQuote, AtStep
<1>3. QuotesAreGst
  BY DEF PricingInit, QuotesAreGst, NoQuote, Quoted
<1>4. ChargesAreSplit
  BY DEF PricingInit, ChargesAreSplit
<1> QED
  BY <1>1, <1>2, <1>3, <1>4 DEF Priced

LEMMA SavePlanKeeps ==
    ASSUME Priced, NEW i \in Intervals, NEW p \in Prices, savePlan(i, p)
    PROVE  Priced'
<1>1. PricingTypeOK'
  BY PricingAssumption DEF Priced, PricingTypeOK, savePlan
<1>2. PlansCharge' /\ QuotesAreGst' /\ ChargesAreSplit'
  BY DEF Priced, savePlan, PlansCharge, QuotesAreGst, ChargesAreSplit, AtStep, Running
<1> QED
  BY <1>1, <1>2 DEF Priced

LEMMA SettingsKeep ==
    ASSUME Priced, NEW r \in Rates, updateBillingSettings(r)
    PROVE  Priced'
<1>1. PricingTypeOK'
  BY PricingAssumption DEF Priced, PricingTypeOK, updateBillingSettings
<1>2. PlansCharge' /\ QuotesAreGst' /\ ChargesAreSplit'
  BY DEF Priced, updateBillingSettings, PlansCharge, QuotesAreGst, ChargesAreSplit, AtStep, Running
<1> QED
  BY <1>1, <1>2 DEF Priced

LEMMA ReadPlanKeeps ==
    ASSUME Priced, NEW c \in Checkouts, NEW i \in Intervals,
           NEW k \in Coupons \cup {NoCoupon}, readPlan(c, i, k)
    PROVE  Priced'
<1> DEFINE new == [next |-> "settings", interval |-> i, coupon |-> k, base |-> price[i],
                   kept |-> stored[i]]
<1>0. new \in Reading
  BY DEF Priced, PricingTypeOK, Reading
<1>1. checkout' = [checkout EXCEPT ![c] = new] /\ UNCHANGED <<price, rate, stored, gatewayPlan, payments>>
  BY DEF readPlan
<1>2. checkout[c].next = "idle"
  BY DEF readPlan, AtStep
<1>3. PricingTypeOK'
  BY <1>0, <1>1 DEF Priced, PricingTypeOK
<1>4. PlansCharge'
  BY <1>1 DEF Priced, PricingTypeOK, PlansCharge, AtStep
<1>5. QuotesAreGst'
  BY <1>1 DEF Priced, PricingTypeOK, QuotesAreGst, Quoted
<1>6. ChargesAreSplit'
  BY <1>1, <1>2 DEF Priced, PricingTypeOK, ChargesAreSplit, Running, AtStep
<1> QED
  BY <1>3, <1>4, <1>5, <1>6 DEF Priced

LEMMA QuotePlanKeeps ==
    ASSUME Priced, NEW c \in Checkouts, quotePlan(c)
    PROVE  Priced'
<1> DEFINE old == checkout[c]
           d == Discount(c)
           quote == withGst(old.base - d, rate)
           new == [next |-> "plan", interval |-> old.interval, coupon |-> old.coupon, discount |-> d,
                   quote |-> quote, kept |-> old.kept, plan |-> NoPlan]
<1>1. old.next = "settings" /\ old \in Reading
  BY DEF quotePlan, AtStep, Priced, PricingTypeOK, NoQuote, Reading, Quoted
<1>2. d \in 0 .. old.base
  BY <1>1, DiscountWithinPrice, PricingAssumption DEF Discount, Reading
<1>3. quote \in Quotes /\ quote = withGst(quote.base, quote.rate)
  <2>1. old.base - d \in Nat /\ rate \in Nat /\ rate \in Rates
    BY <1>1, <1>2, PricingAssumption DEF Reading, Priced, PricingTypeOK
  <2> QED  BY <2>1, TaxIsNat DEF Quotes, withGst
<1>4. new \in Quoted
  <2> HIDE DEF quote, d
  <2> QED  BY <1>1, <1>2, <1>3 DEF Reading, Quoted
<1>5. /\ UNCHANGED <<price, rate, stored, gatewayPlan, payments>>
      /\ \/ checkout' = [checkout EXCEPT ![c] = NoQuote]
         \/ checkout' = [checkout EXCEPT ![c] = new]
  BY DEF quotePlan
<1> HIDE DEF quote, d
<1>6. PricingTypeOK'
  BY <1>4, <1>5 DEF Priced, PricingTypeOK
<1>7. PlansCharge'
  BY <1>1, <1>5 DEF Priced, PricingTypeOK, PlansCharge, AtStep, NoQuote
<1>8. QuotesAreGst'
  BY <1>3, <1>5 DEF Priced, PricingTypeOK, QuotesAreGst, Quoted, NoQuote
<1>9. ChargesAreSplit'
  BY <1>1, <1>5 DEF Priced, PricingTypeOK, ChargesAreSplit, Running, AtStep
<1> QED
  BY <1>6, <1>7, <1>8, <1>9 DEF Priced

LEMMA KeptIdKeeps ==
    ASSUME Priced, NEW c \in Checkouts, ensureGatewayPlan(c)
    PROVE  Priced'
<1> DEFINE old == checkout[c]
           new == [old EXCEPT !.next = "subscribe", !.plan = old.kept.id]
<1>1. old.next = "plan" /\ old \in Quoted
  BY DEF ensureGatewayPlan, AtStep, Priced, PricingTypeOK, NoQuote, Reading, Quoted
<1>2. old.kept.id \in PlanIds /\ gatewayPlan[old.kept.id] = Total(old.quote)
  BY <1>1 DEF ensureGatewayPlan, Priced, PlansCharge, AtStep, Quoted
<1>3. checkout' = [checkout EXCEPT ![c] = new] /\ UNCHANGED <<price, rate, stored, gatewayPlan, payments>>
  BY <1>1 DEF ensureGatewayPlan, Priced, PricingTypeOK, Quoted
<1>4. new \in Quoted
  BY <1>1, <1>2 DEF Quoted
<1>5. PricingTypeOK'
  BY <1>3, <1>4 DEF Priced, PricingTypeOK
<1>6. PlansCharge'
  BY <1>1, <1>2, <1>3 DEF Priced, PricingTypeOK, PlansCharge, AtStep, Quoted
<1>7. QuotesAreGst'
  BY <1>1, <1>3 DEF Priced, PricingTypeOK, QuotesAreGst, Quoted
<1>8. ChargesAreSplit'
  BY <1>1, <1>3 DEF Priced, PricingTypeOK, ChargesAreSplit, Running, AtStep
<1> QED
  BY <1>5, <1>6, <1>7, <1>8 DEF Priced

\* A new plan charges this quote; no kept id can be of a plan that was not made.
LEMMA CreatePlanKeeps ==
    ASSUME Priced, NEW c \in Checkouts, NEW g \in PlanIds, createGatewayPlan(c, g)
    PROVE  Priced'
<1> DEFINE old == checkout[c]
           step == IF old.coupon = NoCoupon THEN "store" ELSE "subscribe"
           new == [old EXCEPT !.plan = g, !.next = step]
<1>1. old.next = "plan" /\ old \in Quoted
  BY DEF createGatewayPlan, AtStep, Priced, PricingTypeOK, NoQuote, Reading, Quoted
<1>2. /\ gatewayPlan' = [gatewayPlan EXCEPT ![g] = Total(old.quote)]
      /\ checkout' = [checkout EXCEPT ![c] = new] /\ UNCHANGED <<price, rate, stored, payments>>
  BY <1>1 DEF createGatewayPlan, Priced, PricingTypeOK, Quoted
<1>3. gatewayPlan[g] = -1 /\ Total(old.quote) \in Nat
  BY <1>1 DEF createGatewayPlan, Unmade, Total, Quoted, Quotes
<1>4. new \in Quoted
  BY <1>1 DEF Quoted
<1>5. PricingTypeOK'
  BY <1>2, <1>3, <1>4 DEF Priced, PricingTypeOK
<1>6. PlansCharge'
  <2>1. ASSUME NEW h \in PlanIds, gatewayPlan[h] \in Nat  PROVE gatewayPlan'[h] = gatewayPlan[h]
    BY <1>2, <1>3, <2>1 DEF Priced, PricingTypeOK
  <2>2. ASSUME NEW i \in Intervals, stored'[i].id # NoPlan
        PROVE  gatewayPlan'[stored'[i].id] = stored'[i].amount
    BY <1>2, <2>1, <2>2 DEF Priced, PricingTypeOK, PlansCharge
  <2>3. ASSUME NEW x \in Checkouts, checkout'[x].next # "idle", checkout'[x].kept.id # NoPlan
        PROVE  gatewayPlan'[checkout'[x].kept.id] = checkout'[x].kept.amount
    <3>1. checkout[x].next # "idle" /\ checkout'[x].kept = checkout[x].kept
      BY <1>1, <1>2, <2>3 DEF Priced, PricingTypeOK, Quoted
    <3>2. checkout[x].kept \in [id : PlanIds \cup {NoPlan}, amount : Nat]
      BY <3>1 DEF Priced, PricingTypeOK, NoQuote, Reading, Quoted
    <3> QED  BY <2>1, <2>3, <3>1, <3>2 DEF Priced, PlansCharge, AtStep
  <2>4. ASSUME NEW x \in Checkouts, checkout'[x].next \in {"store", "subscribe", "running"}
        PROVE  /\ checkout'[x].plan \in PlanIds
               /\ gatewayPlan'[checkout'[x].plan] = Total(checkout'[x].quote)
    <3>1. CASE x = c
      BY <1>1, <1>2, <3>1 DEF Priced, PricingTypeOK, Quoted
    <3>2. CASE x # c
      <4>1. checkout'[x] = checkout[x]
        BY <1>2, <3>2 DEF Priced, PricingTypeOK
      <4>2. Total(checkout[x].quote) \in Nat
        BY <2>4, <4>1 DEF Priced, PricingTypeOK, NoQuote, Reading, Quoted, Total, Quotes
      <4> QED  BY <2>1, <2>4, <4>1, <4>2 DEF Priced, PlansCharge
    <3> QED  BY <3>1, <3>2
  <2> QED  BY <2>2, <2>3, <2>4 DEF PlansCharge, AtStep
<1>7. QuotesAreGst'
  BY <1>1, <1>2 DEF Priced, PricingTypeOK, QuotesAreGst, Quoted
<1>8. ChargesAreSplit'
  BY <1>1, <1>2 DEF Priced, PricingTypeOK, ChargesAreSplit, Running, AtStep
<1> QED
  BY <1>5, <1>6, <1>7, <1>8 DEF Priced

LEMMA StorePlanKeeps ==
    ASSUME Priced, NEW c \in Checkouts, storeGatewayPlan(c)
    PROVE  Priced'
<1> DEFINE old == checkout[c]
           new == [old EXCEPT !.next = "subscribe"]
           kept == [id |-> old.plan, amount |-> Total(old.quote)]
<1>1. old.next = "store" /\ old \in Quoted
  BY DEF storeGatewayPlan, AtStep, Priced, PricingTypeOK, NoQuote, Reading, Quoted
<1>2. /\ stored' = [stored EXCEPT ![old.interval] = kept]
      /\ checkout' = [checkout EXCEPT ![c] = new] /\ UNCHANGED <<price, rate, gatewayPlan, payments>>
  BY <1>1 DEF storeGatewayPlan, Priced, PricingTypeOK, Quoted
<1>3. kept.id \in PlanIds /\ kept.amount \in Nat /\ gatewayPlan[kept.id] = kept.amount
  BY <1>1 DEF Priced, PlansCharge, Total, Quoted, Quotes
<1>4. new \in Quoted
  BY <1>1 DEF Quoted
<1>5. PricingTypeOK'
  BY <1>2, <1>3, <1>4 DEF Priced, PricingTypeOK
<1>6. PlansCharge'
  <2> HIDE DEF kept
  <2> QED  BY <1>1, <1>2, <1>3 DEF Priced, PricingTypeOK, PlansCharge, AtStep, Quoted
<1>7. QuotesAreGst'
  BY <1>1, <1>2 DEF Priced, PricingTypeOK, QuotesAreGst, Quoted
<1>8. ChargesAreSplit'
  BY <1>1, <1>2 DEF Priced, PricingTypeOK, ChargesAreSplit, Running, AtStep
<1> QED
  BY <1>5, <1>6, <1>7, <1>8 DEF Priced

LEMMA SubscribeKeeps ==
    ASSUME Priced, NEW c \in Checkouts, createGatewaySubscription(c)
    PROVE  Priced'
<1> DEFINE old == checkout[c]
           new == [old EXCEPT !.next = "running"]
<1>1. old.next = "subscribe" /\ old \in Quoted
  BY DEF createGatewaySubscription, AtStep, Priced, PricingTypeOK, NoQuote, Reading, Quoted
<1>2. checkout' = [checkout EXCEPT ![c] = new] /\ UNCHANGED <<price, rate, stored, gatewayPlan, payments>>
  BY <1>1 DEF createGatewaySubscription, Priced, PricingTypeOK, Quoted
<1>3. new \in Quoted
  BY <1>1 DEF Quoted
<1>4. PricingTypeOK'
  BY <1>2, <1>3 DEF Priced, PricingTypeOK
<1>5. PlansCharge'
  BY <1>1, <1>2 DEF Priced, PricingTypeOK, PlansCharge, AtStep, Quoted
<1>6. QuotesAreGst'
  BY <1>1, <1>2 DEF Priced, PricingTypeOK, QuotesAreGst, Quoted
<1>7. ChargesAreSplit'
  BY <1>1, <1>2 DEF Priced, PricingTypeOK, ChargesAreSplit, Running, AtStep
<1> QED
  BY <1>4, <1>5, <1>6, <1>7 DEF Priced

LEMMA AbandonKeeps ==
    ASSUME Priced, NEW c \in Checkouts, abandonCheckout(c)
    PROVE  Priced'
<1>1. checkout[c].next # "running"
  BY DEF abandonCheckout, Running, AtStep
<1>2. checkout' = [checkout EXCEPT ![c] = NoQuote] /\ UNCHANGED <<price, rate, stored, gatewayPlan, payments>>
  BY DEF abandonCheckout
<1>3. PricingTypeOK'
  BY <1>2 DEF Priced, PricingTypeOK
<1>4. PlansCharge'
  BY <1>2 DEF Priced, PricingTypeOK, PlansCharge, AtStep, NoQuote
<1>5. QuotesAreGst'
  BY <1>2 DEF Priced, PricingTypeOK, QuotesAreGst, Quoted, NoQuote
<1>6. ChargesAreSplit'
  BY <1>1, <1>2 DEF Priced, PricingTypeOK, ChargesAreSplit, Running, AtStep
<1> QED
  BY <1>3, <1>4, <1>5, <1>6 DEF Priced

LEMMA RecordChargeKeeps ==
    ASSUME Priced, NEW c \in Checkouts, NEW n \in 1 .. MaxCycles,
           recordSubscriptionCharge(c, n)
    PROVE  Priced'
<1> DEFINE amount == gatewayPlan[checkout[c].plan]
           new == [of |-> c, nth |-> n, rate |-> rate, amount |-> amount, base |-> BaseOf(amount, rate)]
<1>1. checkout[c].next = "running" /\ checkout[c] \in Quoted
  BY DEF recordSubscriptionCharge, Running, AtStep, Priced, PricingTypeOK, NoQuote, Reading, Quoted
<1>2. amount = Total(checkout[c].quote) /\ amount \in Nat
  BY <1>1 DEF Priced, PlansCharge, Total, Quoted, Quotes
<1>3. payments' = payments \cup {new} /\ UNCHANGED <<price, rate, stored, gatewayPlan, checkout>>
  BY DEF recordSubscriptionCharge
<1>4. rate \in Rates /\ rate \in 0 .. 28
  BY PricingAssumption DEF Priced, PricingTypeOK
<1>5. BaseOf(amount, rate) \in Nat
  <2> HIDE DEF amount
  <2> QED  BY <1>2, <1>4, TaxOfBase
<1>6. n \in Nat
  BY PricingAssumption
<1>7. PricingTypeOK'
  <2>1. new \in [of : Checkouts, nth : Nat, rate : Rates, amount : Nat, base : Nat]
    BY <1>2, <1>4, <1>5, <1>6
  <2> HIDE DEF new
  <2> QED  BY <1>3, <2>1 DEF Priced, PricingTypeOK
<1>8. PlansCharge' /\ QuotesAreGst'
  BY <1>3 DEF Priced, PlansCharge, QuotesAreGst, AtStep
<1>9. ChargesAreSplit'
  <2> HIDE DEF amount
  <2>1. new.of = c /\ new.amount = amount /\ new.base = BaseOf(new.amount, new.rate)
    OBVIOUS
  <2> HIDE DEF new
  <2> QED  BY <1>1, <1>2, <1>3, <2>1 DEF Priced, ChargesAreSplit, Running, AtStep
<1> QED
  BY <1>7, <1>8, <1>9 DEF Priced

LEMMA PricesStutter == ASSUME Priced, UNCHANGED pricingVars PROVE Priced'
  BY DEF pricingVars, Priced, PricingTypeOK, PlansCharge, QuotesAreGst, ChargesAreSplit, AtStep, Running

THEOREM PricesSteady == PricingSpec => []Priced
<1>1. PricingInit => Priced
  BY PricesFirst
<1>2. Priced /\ [PricingNext]_pricingVars => Priced'
  <2> SUFFICES ASSUME Priced, [PricingNext]_pricingVars  PROVE Priced'
    OBVIOUS
  <2>1. ASSUME NEW i \in Intervals, NEW p \in Prices, savePlan(i, p)  PROVE Priced'
    BY <2>1, SavePlanKeeps
  <2>2. ASSUME NEW r \in Rates, updateBillingSettings(r)  PROVE Priced'
    BY <2>2, SettingsKeep
  <2>3. ASSUME NEW c \in Checkouts, NEW i \in Intervals, NEW k \in Coupons \cup {NoCoupon},
               readPlan(c, i, k)
        PROVE  Priced'
    BY <2>3, ReadPlanKeeps
  <2>4. ASSUME NEW c \in Checkouts, quotePlan(c)  PROVE Priced'
    BY <2>4, QuotePlanKeeps
  <2>5. ASSUME NEW c \in Checkouts, ensureGatewayPlan(c)  PROVE Priced'
    BY <2>5, KeptIdKeeps
  <2>6. ASSUME NEW c \in Checkouts, NEW g \in PlanIds, createGatewayPlan(c, g)  PROVE Priced'
    BY <2>6, CreatePlanKeeps
  <2>7. ASSUME NEW c \in Checkouts, storeGatewayPlan(c)  PROVE Priced'
    BY <2>7, StorePlanKeeps
  <2>8. ASSUME NEW c \in Checkouts, createGatewaySubscription(c)  PROVE Priced'
    BY <2>8, SubscribeKeeps
  <2>9. ASSUME NEW c \in Checkouts, abandonCheckout(c)  PROVE Priced'
    BY <2>9, AbandonKeeps
  <2>10. ASSUME NEW c \in Checkouts, NEW n \in 1 .. MaxCycles, recordSubscriptionCharge(c, n)
         PROVE  Priced'
    BY <2>10, RecordChargeKeeps
  <2>11. CASE UNCHANGED pricingVars
    BY <2>11, PricesStutter
  <2> QED
    BY <2>1, <2>2, <2>3, <2>4, <2>5, <2>6, <2>7, <2>8, <2>9, <2>10, <2>11 DEF PricingNext
<1> QED
  BY <1>1, <1>2, PTL DEF PricingSpec

\* The types of the rows, for any prices, rates, coupons and checkouts.
THEOREM PricingTypes == PricingSpec => []PricingTypeOK
<1>1. Priced => PricingTypeOK
  BY DEF Priced
<1> QED
  BY <1>1, PricesSteady, PTL

\* ensureGatewayPlan: every cycle charges what was quoted, whatever changes.
THEOREM ChargesTheQuote == PricingSpec => []ChargedAsQuoted
<1>1. Priced => ChargedAsQuoted
  BY DEF Priced, ChargesAreSplit, ChargedAsQuoted
<1> QED
  BY <1>1, PricesSteady, PTL

\* recordSubscriptionCharge: the invoice's base and tax are those of the quote, to
\* the paisa, for every price and every rate that has not changed since.
THEOREM RoundingLosesNothing == PricingSpec => []InvoiceMatchesQuote
<1>1. ASSUME Priced  PROVE InvoiceMatchesQuote
  <2> SUFFICES ASSUME NEW p \in payments, p.rate = checkout[p.of].quote.rate
               PROVE  /\ p.base = checkout[p.of].quote.base
                      /\ p.amount - p.base = checkout[p.of].quote.tax
    BY DEF InvoiceMatchesQuote
  <2> DEFINE q == checkout[p.of].quote
  <2>1. p.of \in Checkouts /\ checkout[p.of].next = "running"
    BY <1>1 DEF Priced, PricingTypeOK, ChargesAreSplit, Running, AtStep
  <2>2. checkout[p.of] \in Quoted
    BY <1>1, <2>1 DEF Priced, PricingTypeOK, NoQuote, Reading, Quoted
  <2>3. q.base \in Nat /\ q.tax \in Nat /\ q.rate \in Nat /\ q = withGst(q.base, q.rate)
    <3>1. q \in Quotes
      BY <2>2 DEF Quoted
    <3>2. q = withGst(q.base, q.rate)
      BY <1>1, <2>1, <2>2 DEF Priced, QuotesAreGst
    <3> HIDE DEF q
    <3>3. q.base \in Nat /\ q.tax \in Nat /\ q.rate \in 0 .. 28
      BY <3>1, PricingAssumption DEF Quotes
    <3> QED  BY <3>2, <3>3
  <2>4. p.amount = Total(q) /\ p.base = BaseOf(Total(q), q.rate)
    BY <1>1 DEF Priced, ChargesAreSplit
  <2>5. BaseOf(Total(q), q.rate) = q.base
    <3> HIDE DEF q
    <3> QED  BY <2>3, BaseOfTotal
  <2>6. Total(q) - q.base = q.tax
    <3> HIDE DEF q
    <3> QED  BY <2>3 DEF Total
  <2> QED  BY <2>4, <2>5, <2>6
<1> QED
  BY <1>1, PricesSteady, PTL

\* Even after a change of the rate, each invoice's tax is the rate's share of its
\* base to within a paisa.
THEOREM TaxIsHonest == PricingSpec => []TaxIsOfItsBase
<1>1. ASSUME Priced  PROVE TaxIsOfItsBase
  <2> SUFFICES ASSUME NEW p \in payments
               PROVE  /\ -100 < 100 * (p.amount - p.base) - p.rate * p.base
                      /\ 100 * (p.amount - p.base) - p.rate * p.base < 100
    BY DEF TaxIsOfItsBase
  <2>1. p.amount \in Nat /\ p.rate \in 0 .. 28 /\ p.base = BaseOf(p.amount, p.rate)
    BY <1>1, PricingAssumption DEF Priced, PricingTypeOK, ChargesAreSplit
  <2> QED  BY <2>1, TaxOfBase
<1> QED
  BY <1>1, PricesSteady, PTL
================================================================================
