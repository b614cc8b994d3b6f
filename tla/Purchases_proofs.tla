---------------------------- MODULE Purchases_proofs ----------------------------
(***************************************************************************)
(* Proofs about Purchases, for any number of sellers, purchases, coupons and *)
(* requests, whatever fails, is repeated or dies.                            *)
(*                                                                         *)
(* First what one step does to a request, a row, an order and a plan.  Then  *)
(* the invariant: a checkout has its row to itself (Lone), what is being     *)
(* fulfilled is paid for (Follows), a transaction has its purchase and the   *)
(* invoice counter to itself (Locks) and has seen every paid pass that is     *)
(* live (Covers), and a checkout that is open alone still has its coupon      *)
(* (Room).                                                                  *)
(***************************************************************************)
EXTENDS Purchases, FiniteSetTheorems, TLAPS

-----------------------------------------------------------------------------
(* What a step does to a request.                                           *)

Busy == [next : Steps, purchase : Purchases, event : Events \cup {NoEvent}, old : SUBSET SubRows]

LEMMA RequestForms ==
    /\ Request = {Idle} \cup Busy
    /\ Idle.next = "idle" /\ "idle" \notin Steps
    /\ \A x \in Request : x.next # "idle" => x \in Busy
    /\ \A x \in Busy : x.next # "idle"
  BY DEF Request, Busy, Idle, Steps

LEMMA FinishForm ==
    ASSUME TypeOK, NEW r \in Requests, Finish(r)
    PROVE  /\ req' \in [Requests -> Request] /\ req'[r] = Idle
           /\ \A q \in Requests : q # r => req'[q] = req[q]
  BY RequestForms DEF TypeOK, Finish

LEMMA BeginForm ==
    ASSUME TypeOK, NEW r \in Requests, NEW step \in Steps, NEW p \in Purchases,
           NEW e \in Events \cup {NoEvent}, Begin(r, step, p, e)
    PROVE  /\ req' \in [Requests -> Request] /\ req'[r] \in Busy /\ At(r, "idle")
           /\ req'[r].next = step /\ req'[r].purchase = p
           /\ \A q \in Requests : q # r => req'[q] = req[q]
<1>1. [next |-> step, purchase |-> p, event |-> e, old |-> {}] \in Busy
  BY DEF Busy
<1> QED
  BY <1>1, RequestForms DEF TypeOK, Begin

LEMMA GoForm ==
    ASSUME TypeOK, NEW r \in Requests, ~At(r, "idle"), NEW step \in Steps, Go(r, step)
    PROVE  /\ req' \in [Requests -> Request] /\ req'[r] \in Busy
           /\ req'[r].next = step /\ req'[r].purchase = req[r].purchase
           /\ \A q \in Requests : q # r => req'[q] = req[q]
<1>1. req[r] \in Busy
  BY RequestForms DEF TypeOK, At
<1>2. /\ [req[r] EXCEPT !.next = step] \in Busy
      /\ [req[r] EXCEPT !.next = step].next = step
      /\ [req[r] EXCEPT !.next = step].purchase = req[r].purchase
  BY <1>1 DEF Busy
<1>3. req' = [req EXCEPT ![r] = [req[r] EXCEPT !.next = step]]
  BY DEF Go, TypeOK
<1> QED
  BY <1>2, <1>3, RequestForms DEF TypeOK

LEMMA LiveTypes ==
    /\ \A s \in Sellers : LiveOf(s) \subseteq SubRows
    /\ \A p \in Purchases : LiveForPass(p) \subseteq SubRows /\ SellerOf[p] \in Sellers
    /\ Passes \subseteq Purchases /\ Passes \subseteq SubRows /\ Sellers \subseteq SubRows
    /\ \A p \in Passes : p \notin Sellers /\ CouponOf[p] # NoCoupon
  BY PurchaseAssumption DEF LiveOf, LiveForPass, SubRows, Passes

LEMMA ClaimForm ==
    ASSUME TypeOK, NEW r \in Requests, fulfillClaim(r)
    PROVE  /\ req' \in [Requests -> Request] /\ req'[r] \in Busy
           /\ At(r, "fulfil") /\ req[r].purchase \in Purchases
           /\ req'[r].next = "commit" /\ req'[r].purchase = req[r].purchase
           /\ req'[r].old = LiveForPass(req[r].purchase)
           /\ \A q \in Requests : q # r => req'[q] = req[q]
<1> DEFINE old == LiveForPass(req[r].purchase)
<1>1. At(r, "fulfil") /\ req' = [req EXCEPT ![r].next = "commit", ![r].old = old]
  BY DEF fulfillClaim
<1>2. req[r] \in Busy
  BY <1>1, RequestForms DEF TypeOK, At
<1>3. req[r].purchase \in Purchases /\ old \in SUBSET SubRows
  BY <1>2, LiveTypes DEF Busy
<1> HIDE DEF old
<1>4. /\ [req[r] EXCEPT !.next = "commit", !.old = old] \in Busy
      /\ [req[r] EXCEPT !.next = "commit", !.old = old].next = "commit"
      /\ [req[r] EXCEPT !.next = "commit", !.old = old].purchase = req[r].purchase
      /\ [req[r] EXCEPT !.next = "commit", !.old = old].old = old
  BY <1>2, <1>3 DEF Busy, Steps
<1>5. req' = [req EXCEPT ![r] = [req[r] EXCEPT !.next = "commit", !.old = old]]
  BY <1>1 DEF TypeOK
<1>6. req'[r] = [req[r] EXCEPT !.next = "commit", !.old = old]
      /\ \A q \in Requests : q # r => req'[q] = req[q]
  BY <1>5 DEF TypeOK
<1>7. req' \in [Requests -> Request]
  BY <1>4, <1>5, RequestForms DEF TypeOK
<1> QED
  BY <1>1, <1>3, <1>4, <1>6, <1>7 DEF old

\* The ways a request goes.
Ends(r) == req'[r] = Idle
Starts(r) ==
    \E p \in Purchases :
        startCheckout(r, p) /\ At(r, "idle") /\ req'[r].next = "create" /\ req'[r].purchase = p
Returns(r) ==
    \E p \in Purchases :
        /\ order[p] = "paid" \/ \E e \in Events : e[2] = p /\ event[e] = "due"
        /\ row[p].order /\ UNCHANGED <<row, order, sub, crowded, effects>>
        /\ At(r, "idle") /\ req'[r].next = "fulfil" /\ req'[r].purchase = p
GoesOn(r) ==
    /\ req'[r].purchase = req[r].purchase
    /\ \/ beginPurchase(r) /\ Total[req[r].purchase] = 0 /\ req'[r].next = "fulfil"
       \/ fulfillClaim(r) /\ req'[r].next = "commit"
                          /\ req'[r].old = LiveForPass(req[r].purchase)
       \/ fulfillCommit(r) /\ req'[r].next \in {"stopOld", "tier"}
       \/ stopOld(r) /\ req'[r].next = "tier"

LEMMA Moves ==
    ASSUME TypeOK, NEW r \in Requests,
           \/ \E p \in Purchases : startCheckout(r, p) \/ confirmAddonCheckout(r, p)
           \/ \E e \in Events : receiveWebhook(r, e)
           \/ RequestStep(r) \/ fulfillThrows(r) \/ processDies(r)
    PROVE  /\ req' \in [Requests -> Request]
           /\ Ends(r) \/ Starts(r) \/ Returns(r) \/ GoesOn(r)
           /\ \A q \in Requests : q # r => req'[q] = req[q]
<1>1. "create" \in Steps /\ "fulfil" \in Steps /\ "tier" \in Steps /\ "stopOld" \in Steps
  BY DEF Steps
<1>2. ASSUME NEW p \in Purchases, startCheckout(r, p)
      PROVE  /\ req' \in [Requests -> Request] /\ Starts(r)
             /\ \A q \in Requests : q # r => req'[q] = req[q]
  BY <1>1, <1>2, BeginForm DEF startCheckout, Starts
<1>3. ASSUME NEW p \in Purchases, confirmAddonCheckout(r, p)
      PROVE  /\ req' \in [Requests -> Request] /\ Returns(r)
             /\ \A q \in Requests : q # r => req'[q] = req[q]
  BY <1>1, <1>3, BeginForm DEF confirmAddonCheckout, Returns, effects
<1>4. ASSUME NEW e \in Events, receiveWebhook(r, e)
      PROVE  /\ req' \in [Requests -> Request] /\ Returns(r)
             /\ \A q \in Requests : q # r => req'[q] = req[q]
  <2>1. e[2] \in Purchases
    BY DEF Events
  <2> QED
    BY <1>1, <1>4, <2>1, BeginForm DEF receiveWebhook, Returns, effects
<1>5. CASE beginPurchase(r)
  <2>1. At(r, "create") /\ ~At(r, "idle")
    BY <1>5 DEF beginPurchase, At
  <2>2. CASE Total[req[r].purchase] = 0
    <3>1. Go(r, "fulfil")
      BY <1>5, <2>2 DEF beginPurchase, FreeOfCharge
    <3> QED
      BY <1>1, <1>5, <2>1, <2>2, <3>1, GoForm DEF GoesOn
  <2>3. CASE Total[req[r].purchase] # 0
    BY <1>5, <2>3, FinishForm DEF beginPurchase, OrderOrFail, Ends
  <2> QED
    BY <2>2, <2>3
<1>6. CASE fulfillClaim(r)
  BY <1>6, ClaimForm DEF GoesOn
<1>7. CASE fulfillNothing(r) \/ recomputeTier(r) \/ fulfillThrows(r) \/ processDies(r)
  BY <1>7, FinishForm DEF fulfillNothing, recomputeTier, fulfillThrows, processDies, Ends
<1>8. CASE fulfillCommit(r)
  <2>1. ~At(r, "idle")
    BY <1>8 DEF fulfillCommit, At
  <2>2. CASE Finish(r)
    BY <2>2, FinishForm DEF Ends
  <2>3. ASSUME NEW step \in {"tier", "stopOld"}, Go(r, step)
        PROVE  /\ req' \in [Requests -> Request] /\ GoesOn(r)
               /\ \A q \in Requests : q # r => req'[q] = req[q]
    BY <1>1, <1>8, <2>1, <2>3, GoForm DEF GoesOn
  <2>4. Finish(r) \/ Go(r, "tier") \/ Go(r, "stopOld")
    BY <1>8 DEF fulfillCommit
  <2> QED
    BY <2>2, <2>3, <2>4
<1>9. CASE stopOld(r)
  <2>1. ~At(r, "idle") /\ Go(r, "tier")
    BY <1>9 DEF stopOld, At
  <2> QED
    BY <1>1, <1>9, <2>1, GoForm DEF GoesOn
<1> QED
  BY <1>2, <1>3, <1>4, <1>5, <1>6, <1>7, <1>8, <1>9 DEF RequestStep

-----------------------------------------------------------------------------
(* What a step does to the tables.                                          *)

World ==
    \/ \E p \in Purchases : payOrder(p)
    \/ \E p \in Passes : passEnds(p)
    \/ \E s \in Sellers : activateAutopay(s) \/ nightly(s)
    \/ \E e \in Events : duplicateWebhook(e)
RequestMove(r) ==
    \/ \E p \in Purchases : startCheckout(r, p) \/ confirmAddonCheckout(r, p)
    \/ \E e \in Events : receiveWebhook(r, e)
    \/ RequestStep(r) \/ fulfillThrows(r) \/ processDies(r)

LEMMA NextIs == Next <=> World \/ \E r \in Requests : RequestMove(r)
  BY DEF Next, World, RequestMove

\* All but the two writers of the tables leave what is bought alone.
LEMMA Readers ==
    ASSUME NEW r \in Requests, RequestMove(r), ~beginPurchase(r), ~fulfillCommit(r)
    PROVE  UNCHANGED <<row, order, invoice, nextInvoice, redeemed, features, sub>>
  BY DEF RequestMove, RequestStep, startCheckout, confirmAddonCheckout, receiveWebhook,
         fulfillClaim, fulfillNothing, stopOld, recomputeTier, fulfillThrows, processDies, effects

LEMMA WorldKeeps ==
    ASSUME World
    PROVE  UNCHANGED <<row, invoice, nextInvoice, redeemed, features, req, crowded, throws, deaths>>
  BY DEF World, payOrder, passEnds, activateAutopay, nightly, duplicateWebhook, effects, faults

\* beginPurchase writes a new row, and its order with it.
LEMMA BeginWrites ==
    ASSUME TypeOK, NEW r \in Requests, beginPurchase(r)
    PROVE  LET p == req[r].purchase IN
           /\ At(r, "create") /\ p \in Purchases
           /\ row' \in [Purchases -> [status : Statuses, order : BOOLEAN]]
           /\ order' \in [Purchases -> {"none", "open", "paid"}]
           /\ row'[p].status \in {"CREATED", "FAILED"}
           /\ row'[p].order => row'[p].status = "CREATED"
           /\ Total[p] = 0 => row'[p].status = "CREATED"
           /\ \A q \in Purchases : q # p => row'[q] = row[q] /\ order'[q] = order[q]
           /\ UNCHANGED <<event, effects, autopay, presence, crowded, faults>>
<1> DEFINE p == req[r].purchase
<1>1. At(r, "create") /\ p \in Purchases
  <2>1. At(r, "create") /\ req[r].next # "idle"
    BY DEF beginPurchase, At
  <2> QED
    BY <2>1, RequestForms DEF TypeOK, Busy
<1>2. PICK status \in {"CREATED", "FAILED"}, stored \in BOOLEAN :
          /\ Created(p, status, stored) /\ (stored => status = "CREATED")
          /\ Total[p] = 0 => status = "CREATED"
  BY DEF beginPurchase, FreeOfCharge, OrderOrFail
<1>3. order' = order \/ order' = [order EXCEPT ![p] = "open"]
  BY DEF beginPurchase, FreeOfCharge, OrderOrFail
<1>4. [status |-> status, order |-> stored] \in [status : Statuses, order : BOOLEAN]
  BY DEF Statuses
<1>5. /\ row' \in [Purchases -> [status : Statuses, order : BOOLEAN]]
      /\ row'[p] = [status |-> status, order |-> stored]
      /\ \A q \in Purchases : q # p => row'[q] = row[q]
  <2> HIDE DEF p
  <2> QED
    BY <1>1, <1>2, <1>4 DEF Created, TypeOK
<1>6. /\ order' \in [Purchases -> {"none", "open", "paid"}]
      /\ \A q \in Purchases : q # p => order'[q] = order[q]
  <2> HIDE DEF p
  <2> QED
    BY <1>1, <1>3 DEF TypeOK
<1>7. UNCHANGED <<event, effects, autopay, presence, crowded, faults>>
  BY DEF beginPurchase
<1> QED
  BY <1>1, <1>2, <1>5, <1>6, <1>7

\* fulfillCommit writes everything a purchase brings.
LEMMA CommitWrites ==
    ASSUME TypeOK, NEW r \in Requests, fulfillCommit(r)
    PROVE  LET p == req[r].purchase IN
           /\ At(r, "commit") /\ p \in Purchases /\ req[r].old \subseteq SubRows
           /\ row' \in [Purchases -> [status : Statuses, order : BOOLEAN]]
           /\ row'[p].status = "PAID" /\ row'[p].order = row[p].order
           /\ \A q \in Purchases : q # p => row'[q] = row[q]
           /\ TakeInvoice(p)
           /\ redeemed' = IF CouponOf[p] = NoCoupon THEN redeemed ELSE redeemed \cup {p}
           /\ sub' \in [SubRows -> {"none", "ACTIVE", "CANCELED", "EXPIRED"}]
           /\ \A x \in SubRows :
                 IF p \in Passes
                 THEN sub'[x] = IF x = p THEN "ACTIVE" ELSE IF x \in req[r].old THEN "CANCELED" ELSE sub[x]
                 ELSE sub'[x] = sub[x]
           /\ features' \subseteq Sellers
           /\ UNCHANGED <<order, event, autopay, presence, crowded, faults>>
<1> DEFINE p == req[r].purchase
<1>1. At(r, "commit") /\ p \in Purchases /\ req[r].old \subseteq SubRows
  <2>1. At(r, "commit") /\ req[r].next # "idle"
    BY DEF fulfillCommit, At
  <2> QED
    BY <2>1, RequestForms DEF TypeOK, Busy
<1>2. /\ row' = [row EXCEPT ![p].status = "PAID"]
      /\ TakeInvoice(p) /\ RecordRedemption(p) /\ SwitchToPass(p, req[r].old)
      /\ features' = IF KindOf[p] = "FEATURE" THEN features \cup {SellerOf[p]} ELSE features
      /\ UNCHANGED <<order, event, autopay, presence, crowded, faults>>
  BY DEF fulfillCommit
<1> HIDE DEF p
<1>3. /\ row' \in [Purchases -> [status : Statuses, order : BOOLEAN]]
      /\ row'[p].status = "PAID" /\ row'[p].order = row[p].order
      /\ \A q \in Purchases : q # p => row'[q] = row[q]
  BY <1>1, <1>2 DEF TypeOK, Statuses
<1>4. /\ sub' \in [SubRows -> {"none", "ACTIVE", "CANCELED", "EXPIRED"}]
      /\ \A x \in SubRows :
            IF p \in Passes
            THEN sub'[x] = IF x = p THEN "ACTIVE" ELSE IF x \in req[r].old THEN "CANCELED" ELSE sub[x]
            ELSE sub'[x] = sub[x]
  BY <1>2 DEF SwitchToPass, TypeOK
<1>5. features' \subseteq Sellers
  BY <1>1, <1>2, LiveTypes DEF TypeOK
<1> QED
  BY <1>1, <1>2, <1>3, <1>4, <1>5 DEF RecordRedemption, p

LEMMA InvoiceTypes ==
    ASSUME TypeOK, NEW p \in Purchases, TakeInvoice(p)
    PROVE  /\ invoice' \in [Purchases -> Nat] /\ nextInvoice' \in Nat \ {0}
           /\ \A q \in Purchases : q # p => invoice'[q] = invoice[q]
           /\ invoice'[p] = IF Total[p] > 0 THEN nextInvoice ELSE invoice[p]
           /\ nextInvoice' = IF Total[p] > 0 THEN nextInvoice + 1 ELSE nextInvoice
  BY DEF TakeInvoice, TypeOK

LEMMA TypeStep ==
    ASSUME TypeOK, [Next]_vars PROVE TypeOK'
<1> USE PurchaseAssumption
<1>1. CASE UNCHANGED vars
  BY <1>1 DEF vars, effects, faults, TypeOK
<1>2. CASE World
  <2>1. UNCHANGED <<row, invoice, nextInvoice, redeemed, features, req, crowded, throws, deaths>>
    BY <1>2, WorldKeeps
  <2>2. /\ order' \in [Purchases -> {"none", "open", "paid"}]
        /\ event' \in [Events -> {"unsent", "due", "recorded", "answered"}]
        /\ sub' \in [SubRows -> {"none", "ACTIVE", "CANCELED", "EXPIRED"}]
        /\ autopay' \in [Sellers -> {"none", "running", "stopped"}]
        /\ presence' \subseteq Sellers
    <3>1. CASE \E p \in Purchases : payOrder(p)
      BY <3>1 DEF payOrder, TypeOK, effects
    <3>2. CASE \E p \in Passes : passEnds(p)
      BY <3>2 DEF passEnds, TypeOK
    <3>3. CASE \E s \in Sellers : activateAutopay(s)
      BY <3>3 DEF activateAutopay, TypeOK
    <3>4. CASE \E s \in Sellers : nightly(s)
      BY <3>4 DEF nightly, Recompute, TypeOK, effects
    <3>5. CASE \E e \in Events : duplicateWebhook(e)
      BY <3>5 DEF duplicateWebhook, TypeOK, effects
    <3> QED
      BY <1>2, <3>1, <3>2, <3>3, <3>4, <3>5 DEF World
  <2> QED
    BY <2>1, <2>2 DEF TypeOK
<1>3. ASSUME NEW r \in Requests, RequestMove(r) PROVE TypeOK'
  <2>1. req' \in [Requests -> Request]
    BY <1>3, Moves DEF RequestMove
  <2>2. CASE beginPurchase(r)
    BY <2>1, <2>2, BeginWrites DEF TypeOK, effects, faults
  <2>3. CASE fulfillCommit(r)
    <3> DEFINE p == req[r].purchase
    <3>1. /\ p \in Purchases /\ TakeInvoice(p)
          /\ redeemed' = IF CouponOf[p] = NoCoupon THEN redeemed ELSE redeemed \cup {p}
          /\ row' \in [Purchases -> [status : Statuses, order : BOOLEAN]]
          /\ sub' \in [SubRows -> {"none", "ACTIVE", "CANCELED", "EXPIRED"}]
          /\ features' \subseteq Sellers
          /\ UNCHANGED <<order, event, autopay, presence, crowded, faults>>
      BY <2>3, CommitWrites
    <3> HIDE DEF p
    <3>2. invoice' \in [Purchases -> Nat] /\ nextInvoice' \in Nat \ {0}
      BY <3>1, InvoiceTypes
    <3> QED
      BY <2>1, <3>1, <3>2 DEF TypeOK, faults
  <2>4. CASE ~beginPurchase(r) /\ ~fulfillCommit(r)
    <3>1. UNCHANGED <<row, order, invoice, nextInvoice, redeemed, features, sub>>
      BY <1>3, <2>4, Readers
    <3>2. event' \in [Events -> {"unsent", "due", "recorded", "answered"}]
      BY <1>3, <2>4 DEF RequestMove, RequestStep, startCheckout, confirmAddonCheckout,
         receiveWebhook, fulfillClaim, fulfillNothing, stopOld, recomputeTier, fulfillThrows,
         processDies, Forget, TypeOK
    <3>3. /\ autopay' \in [Sellers -> {"none", "running", "stopped"}]
          /\ presence' \subseteq Sellers
      <4>1. CASE stopOld(r)
        BY <4>1 DEF stopOld, TypeOK
      <4>2. CASE recomputeTier(r)
        <5>1. req[r].next # "idle"
          BY <4>2 DEF recomputeTier, At
        <5>2. SellerOf[req[r].purchase] \in Sellers
          BY <5>1, RequestForms, LiveTypes DEF TypeOK, Busy
        <5> QED
          BY <4>2, <5>2 DEF recomputeTier, Recompute, TypeOK
      <4>3. CASE ~stopOld(r) /\ ~recomputeTier(r)
        BY <1>3, <2>4, <4>3 DEF RequestMove, RequestStep, startCheckout, confirmAddonCheckout,
           receiveWebhook, fulfillClaim, fulfillNothing, fulfillThrows, processDies, TypeOK
      <4> QED
        BY <4>1, <4>2, <4>3
    <3>4. crowded' \subseteq Coupons
      <4>1. ASSUME NEW p \in Purchases, startCheckout(r, p) PROVE crowded' \subseteq Coupons
        BY <4>1 DEF startCheckout, TypeOK
      <4>2. CASE ~\E p \in Purchases : startCheckout(r, p)
        BY <1>3, <2>4, <4>2 DEF RequestMove, RequestStep, confirmAddonCheckout,
           receiveWebhook, fulfillClaim, fulfillNothing, stopOld, recomputeTier, fulfillThrows,
           processDies, TypeOK
      <4> QED
        BY <4>1, <4>2
    <3>5. throws' \in 0 .. MaxFaults /\ deaths' \in 0 .. MaxFaults
      <4>1. throws \in Nat /\ deaths \in Nat
        BY DEF TypeOK
      <4>2. CASE fulfillThrows(r) \/ processDies(r)
        BY <4>1, <4>2 DEF fulfillThrows, processDies, TypeOK
      <4>3. CASE ~fulfillThrows(r) /\ ~processDies(r)
        BY <1>3, <2>4, <4>3 DEF RequestMove, RequestStep, startCheckout, confirmAddonCheckout,
           receiveWebhook, fulfillClaim, fulfillNothing, stopOld, recomputeTier, faults, TypeOK
      <4> QED
        BY <4>2, <4>3
    <3> QED
      BY <2>1, <3>1, <3>2, <3>3, <3>4, <3>5 DEF TypeOK
  <2> QED
    BY <2>2, <2>3, <2>4
<1> QED
  BY <1>1, <1>2, <1>3, NextIs

-----------------------------------------------------------------------------
(* The invariant.                                                           *)

\* What is known of a row, its order, its events and its pass.
Rows ==
    /\ \A p \in Purchases :
          /\ row[p].order => row[p].status \in {"CREATED", "PAID"}
          /\ row[p].status = "absent" => order[p] = "none"
          /\ Paid(p) /\ Total[p] > 0 => order[p] = "paid"
    /\ \A p \in Passes : sub[p] # "none" => Paid(p)
    /\ \A e \in Events : event[e] # "unsent" => order[e[2]] = "paid"

\* A checkout that has not written its row yet has it to itself.
Lone ==
    \A q, r \in Requests :
        At(r, "create") /\ ~At(q, "idle") /\ req[q].purchase = req[r].purchase => q = r

\* What a request is about to do is founded in the row and in the order.
Follows ==
    \A r \in Requests :
        LET p == req[r].purchase IN
        /\ At(r, "create") => row[p].status = "absent"
        /\ req[r].next \in {"fulfil", "commit", "stopOld", "tier"} =>
              row[p].status \in {"CREATED", "PAID"}
        /\ At(r, "commit") => row[p].status = "CREATED"
        /\ req[r].next \in {"fulfil", "commit"} /\ Total[p] > 0 => order[p] = "paid"

\* Two open transactions are on different purchases, and only one has taken the
\* invoice counter.
Locks ==
    \A q, r \in Requests :
        /\ At(q, "commit") /\ At(r, "commit")
        /\ \/ req[q].purchase = req[r].purchase
           \/ Total[req[q].purchase] > 0 /\ Total[req[r].purchase] > 0
        => q = r

PaidLive(s) == {x \in Passes : SellerOf[x] = s /\ Total[x] > 0 /\ sub[x] = "ACTIVE"}

\* The plans a paid pass is going to end are still all the paid passes that live.
Covers ==
    \A r \in Requests : At(r, "commit") =>
        /\ \A x \in req[r].old \cap Passes : Paid(x)
        /\ req[r].purchase \in Passes /\ Total[req[r].purchase] > 0 =>
              PaidLive(SellerOf[req[r].purchase]) \subseteq req[r].old

Steady == TypeOK /\ Rows /\ Lone /\ Follows /\ Locks /\ Covers

LEMMA Purchase ==
    ASSUME TypeOK, NEW r \in Requests, req[r].next # "idle"
    PROVE  req[r] \in Busy /\ req[r].purchase \in Purchases /\ req[r].old \subseteq SubRows
  BY RequestForms DEF TypeOK, Busy

\* A row is written by the checkout that has it, and by the transaction on it.
LEMMA RowMoves ==
    ASSUME Steady, [Next]_vars, NEW p \in Purchases
    PROVE  \/ row'[p] = row[p]
           \/ \E r \in Requests : /\ beginPurchase(r) /\ At(r, "create") /\ req[r].purchase = p
                                  /\ row[p].status = "absent"
                                  /\ row'[p].status \in {"CREATED", "FAILED"}
                                  /\ row'[p].order => row'[p].status = "CREATED"
           \/ \E r \in Requests : /\ fulfillCommit(r) /\ At(r, "commit") /\ req[r].purchase = p
                                  /\ row[p].status = "CREATED"
                                  /\ row'[p].status = "PAID" /\ row'[p].order = row[p].order
<1>1. CASE UNCHANGED vars  BY <1>1 DEF vars
<1>2. CASE World  BY <1>2, WorldKeeps
<1>3. ASSUME NEW r \in Requests, RequestMove(r), row'[p] # row[p]
      PROVE  \/ /\ beginPurchase(r) /\ At(r, "create") /\ req[r].purchase = p
                /\ row[p].status = "absent"
                /\ row'[p].status \in {"CREATED", "FAILED"}
                /\ row'[p].order => row'[p].status = "CREATED"
             \/ /\ fulfillCommit(r) /\ At(r, "commit") /\ req[r].purchase = p
                /\ row[p].status = "CREATED"
                /\ row'[p].status = "PAID" /\ row'[p].order = row[p].order
  <2>1. beginPurchase(r) \/ fulfillCommit(r)  BY <1>3, Readers
  <2>2. CASE beginPurchase(r)
    BY <1>3, <2>2, BeginWrites DEF Steady, Follows
  <2>3. CASE fulfillCommit(r)
    BY <1>3, <2>3, CommitWrites DEF Steady, Follows
  <2> QED  BY <2>1, <2>2, <2>3
<1> QED  BY <1>1, <1>2, <1>3, NextIs

\* An order is placed with its row and paid once.
LEMMA OrderMoves ==
    ASSUME Steady, [Next]_vars, NEW p \in Purchases
    PROVE  \/ order'[p] = order[p]
           \/ order'[p] = "paid" /\ order[p] = "open" /\ row[p].order
           \/ \E r \in Requests : /\ beginPurchase(r) /\ At(r, "create")
                                  /\ req[r].purchase = p /\ row[p].status = "absent"
<1>1. CASE UNCHANGED vars  BY <1>1 DEF vars
<1>2. CASE World
  <2>1. ASSUME NEW q \in Purchases, payOrder(q)
        PROVE  order'[p] = order[p] \/ (order'[p] = "paid" /\ order[p] = "open" /\ row[p].order)
    BY <2>1 DEF payOrder, Steady, TypeOK
  <2>2. CASE ~\E q \in Purchases : payOrder(q)
    BY <1>2, <2>2 DEF World, passEnds, activateAutopay, nightly, duplicateWebhook
  <2> QED  BY <2>1, <2>2
<1>3. ASSUME NEW r \in Requests, RequestMove(r), order'[p] # order[p]
      PROVE  beginPurchase(r) /\ At(r, "create") /\ req[r].purchase = p /\ row[p].status = "absent"
  <2>1. beginPurchase(r) \/ fulfillCommit(r)  BY <1>3, Readers
  <2>2. beginPurchase(r)  BY <1>3, <2>1, CommitWrites DEF Steady
  <2> QED  BY <1>3, <2>2, BeginWrites DEF Steady, Follows
<1> QED  BY <1>1, <1>2, <1>3, NextIs

\* What is paid stays paid, and a row stays.
LEMMA Lasting ==
    ASSUME Steady, [Next]_vars, NEW p \in Purchases
    PROVE  /\ Paid(p) => Paid(p)'
           /\ order[p] = "paid" => order'[p] = "paid"
           /\ row'[p].status = "absent" => row'[p] = row[p]
           /\ row[p].status = "CREATED" => row'[p].status \in {"CREATED", "PAID"}
<1>1. row[p].status = "absent" => order[p] = "none"  BY DEF Steady, Rows
<1> QED  BY <1>1, RowMoves, OrderMoves DEF Paid

\* A pass goes live in its own transaction; else it ends.
LEMMA PassMoves ==
    ASSUME Steady, [Next]_vars, NEW x \in Passes
    PROVE  \/ sub'[x] = sub[x]
           \/ sub'[x] \in {"CANCELED", "EXPIRED"} /\ Paid(x)
           \/ \E r \in Requests : /\ fulfillCommit(r) /\ At(r, "commit") /\ req[r].purchase = x
                                  /\ row[x].status = "CREATED"
<1>0. /\ x \in Purchases /\ x \in SubRows /\ x \notin Sellers
      /\ sub[x] # "none" => Paid(x)
  BY LiveTypes DEF Steady, Rows
<1>1. CASE UNCHANGED vars  BY <1>1 DEF vars, effects
<1>2. CASE World
  <2>1. ASSUME NEW p \in Passes, passEnds(p)
        PROVE  sub'[x] = sub[x] \/ (sub'[x] \in {"CANCELED", "EXPIRED"} /\ Paid(x))
    BY <1>0, <2>1, LiveTypes DEF passEnds, Steady, TypeOK
  <2>2. ASSUME NEW s \in Sellers, activateAutopay(s)
        PROVE  sub'[x] = sub[x] \/ (sub'[x] \in {"CANCELED", "EXPIRED"} /\ Paid(x))
    <3>1. x # s /\ x \in SubRows  BY LiveTypes
    <3>2. sub'[x] = IF x \in LiveOf(s) THEN "CANCELED" ELSE sub[x]
      BY <2>2, <3>1 DEF activateAutopay
    <3> QED  BY <1>0, <3>2 DEF LiveOf
  <2>3. CASE \/ \E p \in Purchases : payOrder(p)
             \/ \E s \in Sellers : nightly(s)
             \/ \E e \in Events : duplicateWebhook(e)
    BY <2>3 DEF payOrder, nightly, duplicateWebhook, effects
  <2> QED  BY <1>2, <2>1, <2>2, <2>3 DEF World
<1>3. ASSUME NEW r \in Requests, RequestMove(r), sub'[x] # sub[x]
      PROVE  \/ sub'[x] \in {"CANCELED", "EXPIRED"} /\ Paid(x)
             \/ /\ fulfillCommit(r) /\ At(r, "commit") /\ req[r].purchase = x
                /\ row[x].status = "CREATED"
  <2>1. beginPurchase(r) \/ fulfillCommit(r)  BY <1>3, Readers
  <2>2. fulfillCommit(r)  BY <1>3, <2>1, BeginWrites DEF Steady, effects
  <2>3. /\ At(r, "commit") /\ row[req[r].purchase].status = "CREATED"
        /\ x = req[r].purchase \/ (x \in req[r].old /\ sub'[x] = "CANCELED")
    BY <1>3, <2>2, CommitWrites, LiveTypes DEF Steady, Follows
  <2> QED  BY <2>2, <2>3 DEF Steady, Covers
<1> QED  BY <1>1, <1>2, <1>3, NextIs

\* A request that does not move, or the one that does.
LEMMA OneMoves ==
    ASSUME TypeOK, [Next]_vars, NEW r \in Requests
    PROVE  \/ req'[r] = req[r]
           \/ /\ RequestMove(r)
              /\ Ends(r) \/ Starts(r) \/ Returns(r) \/ GoesOn(r)
              /\ \A q \in Requests : q # r => req'[q] = req[q]
<1>1. CASE UNCHANGED vars  BY <1>1 DEF vars
<1>2. CASE World  BY <1>2, WorldKeeps
<1>3. ASSUME NEW q \in Requests, RequestMove(q)
      PROVE  \/ req'[r] = req[r]
             \/ /\ RequestMove(r)
                /\ Ends(r) \/ Starts(r) \/ Returns(r) \/ GoesOn(r)
                /\ \A u \in Requests : u # r => req'[u] = req[u]
  <2>1. /\ Ends(q) \/ Starts(q) \/ Returns(q) \/ GoesOn(q)
        /\ \A u \in Requests : u # q => req'[u] = req[u]
    BY <1>3, Moves DEF RequestMove
  <2>2. CASE q = r  BY <1>3, <2>1, <2>2
  <2>3. CASE q # r  BY <2>1, <2>3
  <2> QED  BY <2>2, <2>3
<1> QED  BY <1>1, <1>2, <1>3, NextIs

LEMMA EventMoves ==
    ASSUME TypeOK, [Next]_vars, NEW e \in Events, event'[e] # "unsent"
    PROVE  event[e] # "unsent" \/ order'[e[2]] = "paid"
<1>1. CASE UNCHANGED vars  BY <1>1 DEF vars
<1>2. CASE World
  <2>1. ASSUME NEW p \in Purchases, payOrder(p) PROVE event[e] # "unsent" \/ order'[e[2]] = "paid"
    BY <2>1 DEF payOrder, TypeOK
  <2>2. ASSUME NEW f \in Events, duplicateWebhook(f) PROVE event[e] # "unsent"
    BY <2>2 DEF duplicateWebhook, TypeOK
  <2>3. CASE \/ \E p \in Passes : passEnds(p)
             \/ \E s \in Sellers : activateAutopay(s) \/ nightly(s)
    BY <2>3 DEF passEnds, activateAutopay, nightly, effects
  <2> QED  BY <1>2, <2>1, <2>2, <2>3 DEF World
<1>3. ASSUME NEW r \in Requests, RequestMove(r) PROVE event[e] # "unsent"
  <2>1. CASE \E f \in Events : receiveWebhook(r, f)
    BY <2>1 DEF receiveWebhook, TypeOK
  <2>2. CASE fulfillThrows(r)
    BY <2>2 DEF fulfillThrows, Forget, TypeOK
  <2>3. CASE ~fulfillThrows(r) /\ ~\E f \in Events : receiveWebhook(r, f)
    BY <1>3, <2>3 DEF RequestMove, RequestStep, startCheckout, confirmAddonCheckout,
       beginPurchase, fulfillClaim, fulfillNothing, fulfillCommit, stopOld, recomputeTier, processDies
  <2> QED  BY <2>1, <2>2, <2>3
<1> QED  BY <1>1, <1>2, <1>3, NextIs

LEMMA RowsStep ==
    ASSUME Steady, [Next]_vars PROVE Rows'
<1>1. ASSUME NEW p \in Purchases
      PROVE  /\ row'[p].order => row'[p].status \in {"CREATED", "PAID"}
             /\ row'[p].status = "absent" => order'[p] = "none"
             /\ row'[p].status = "PAID" /\ Total[p] > 0 => order'[p] = "paid"
  <2>1. CASE row'[p] = row[p]
    <3>1. /\ row[p].order => row[p].status \in {"CREATED", "PAID"}
          /\ row[p].status = "absent" => order[p] = "none"
          /\ row[p].status = "PAID" /\ Total[p] > 0 => order[p] = "paid"
      BY DEF Steady, Rows, Paid
    <3>2. \A r \in Requests : beginPurchase(r) /\ req[r].purchase = p => row[p].status # "absent"
      BY <2>1, BeginWrites DEF Steady
    <3> QED  BY <2>1, <3>1, <3>2, OrderMoves
  <2>2. CASE \E r \in Requests : beginPurchase(r) /\ req[r].purchase = p
    BY <2>2, BeginWrites DEF Steady
  <2>3. ASSUME NEW r \in Requests, fulfillCommit(r), At(r, "commit"), req[r].purchase = p
        PROVE  /\ row'[p].status = "PAID"
               /\ Total[p] > 0 => order'[p] = "paid"
    BY <2>3, CommitWrites DEF Steady, Follows, At
  <2> QED  BY <2>1, <2>2, <2>3, RowMoves
<1>2. ASSUME NEW x \in Passes, sub'[x] # "none" PROVE Paid(x)'
  <2>0. x \in Purchases  BY DEF Passes
  <2>1. Paid(x) => Paid(x)'  BY <2>0, Lasting
  <2>2. sub[x] # "none" => Paid(x)  BY DEF Steady, Rows
  <2>3. ASSUME NEW r \in Requests, fulfillCommit(r), req[r].purchase = x PROVE Paid(x)'
    BY <2>3, CommitWrites DEF Steady, Paid
  <2> QED  BY <1>2, <2>1, <2>2, <2>3, PassMoves
<1>3. ASSUME NEW e \in Events, event'[e] # "unsent" PROVE order'[e[2]] = "paid"
  <2>1. e[2] \in Purchases  BY DEF Events
  <2>2. event[e] # "unsent" => order[e[2]] = "paid"  BY DEF Steady, Rows
  <2> QED  BY <1>3, <2>1, <2>2, EventMoves, Lasting DEF Steady
<1> QED  BY <1>1, <1>2, <1>3 DEF Rows, Paid

\* A request moves on when it writes.
LEMMA WritersMove ==
    ASSUME TypeOK, NEW r \in Requests
    PROVE  /\ beginPurchase(r) => req'[r].next # "create"
           /\ fulfillCommit(r) => req'[r].next # "commit"
<1>1. "create" \notin {"fulfil", "tier", "stopOld"} /\ {"fulfil", "tier", "stopOld"} \subseteq Steps
  BY DEF Steps
<1>2. ASSUME beginPurchase(r) PROVE req'[r].next # "create"
  BY <1>1, <1>2, FinishForm, GoForm, RequestForms
     DEF beginPurchase, FreeOfCharge, OrderOrFail, At
<1>3. ASSUME fulfillCommit(r) PROVE req'[r].next # "commit"
  BY <1>1, <1>3, FinishForm, GoForm, RequestForms DEF fulfillCommit, At
<1> QED  BY <1>2, <1>3

LEMMA LoneStep ==
    ASSUME Steady, [Next]_vars PROVE Lone'
<1> SUFFICES ASSUME NEW q \in Requests, NEW r \in Requests, q # r,
                    req'[r].next = "create", req'[q].next # "idle",
                    req'[q].purchase = req'[r].purchase
             PROVE  FALSE
  BY DEF Lone, At
<1>1. Idle.next = "idle"
  BY DEF Idle
<1>2. CASE req'[r] = req[r] /\ req'[q] = req[q]
  BY <1>2 DEF Steady, Lone, At
<1>3. CASE req'[r] # req[r]
  <2>1. PICK p \in Purchases : startCheckout(r, p) /\ req'[r].purchase = p
    BY <1>1, <1>3, OneMoves DEF Steady, Ends, Starts, Returns, GoesOn
  <2>2. req'[q] = req[q]  BY <1>3, OneMoves DEF Steady
  <2>3. ~Open(p) /\ row[p].status = "absent"  BY <2>1 DEF startCheckout
  <2> QED  BY <2>1, <2>2, <2>3 DEF Open, At
<1>4. CASE req'[r] = req[r] /\ req'[q] # req[q]
  <2>1. Starts(q) \/ Returns(q) \/ GoesOn(q)
    BY <1>1, <1>4, OneMoves DEF Steady, Ends
  <2>2. At(r, "create") /\ row[req[r].purchase].status = "absent"
    BY <1>4 DEF At, Steady, Follows
  <2>3. CASE Starts(q)
    <3>1. PICK p \in Purchases : startCheckout(q, p) /\ req'[q].purchase = p  BY <2>3 DEF Starts
    <3>2. ~Open(p)  BY <3>1 DEF startCheckout
    <3> QED  BY <1>4, <2>2, <3>1, <3>2 DEF Open, At
  <2>4. CASE Returns(q)
    <3>1. PICK p \in Purchases : row[p].order /\ req'[q].purchase = p  BY <2>4 DEF Returns
    <3> QED  BY <1>4, <2>2, <3>1 DEF Steady, Rows
  <2>5. CASE GoesOn(q)
    <3>1. ~At(q, "idle") /\ req'[q].purchase = req[q].purchase
      BY <2>5 DEF GoesOn, At, beginPurchase, fulfillClaim, fulfillCommit, stopOld
    <3> QED  BY <1>4, <2>2, <3>1 DEF Steady, Lone
  <2> QED  BY <2>1, <2>3, <2>4, <2>5
<1> QED  BY <1>2, <1>3, <1>4

LEMMA FollowsStep ==
    ASSUME Steady, [Next]_vars PROVE Follows'
<1> SUFFICES ASSUME NEW r \in Requests, NEW p, p = req'[r].purchase, req'[r].next # "idle"
             PROVE  /\ req'[r].next = "create" => row'[p].status = "absent"
                    /\ req'[r].next \in {"fulfil", "commit", "stopOld", "tier"} =>
                          row'[p].status \in {"CREATED", "PAID"}
                    /\ req'[r].next = "commit" => row'[p].status = "CREATED"
                    /\ req'[r].next \in {"fulfil", "commit"} /\ Total[p] > 0 => order'[p] = "paid"
  BY DEF Follows, At
<1>0. TypeOK' /\ p \in Purchases
  <2>1. TypeOK'  BY TypeStep DEF Steady
  <2>2. req'[r] \in Busy  BY <2>1, RequestForms DEF TypeOK
  <2> QED  BY <2>1, <2>2 DEF Busy
<1>1. CASE req'[r] = req[r]
  <2>1. /\ At(r, "create") => row[p].status = "absent"
        /\ req[r].next \in {"fulfil", "commit", "stopOld", "tier"} =>
              row[p].status \in {"CREATED", "PAID"}
        /\ At(r, "commit") => row[p].status = "CREATED"
        /\ req[r].next \in {"fulfil", "commit"} /\ Total[p] > 0 => order[p] = "paid"
    BY <1>1 DEF Steady, Follows
  <2>2. req[r].next = "create" => row'[p].status = "absent"
    <3>1. ASSUME req[r].next = "create", NEW q \in Requests, beginPurchase(q), At(q, "create"),
                 req[q].purchase = p
          PROVE  FALSE
      <4>1. q = r  BY <1>1, <3>1 DEF Steady, Lone, At
      <4> QED  BY <1>1, <3>1, <4>1, WritersMove DEF Steady
    <3> QED  BY <1>0, <2>1, <3>1, RowMoves DEF At
  <2>3. req[r].next = "commit" => row'[p].status = "CREATED"
    <3>1. ASSUME req[r].next = "commit", NEW q \in Requests, fulfillCommit(q), At(q, "commit"),
                 req[q].purchase = p
          PROVE  FALSE
      <4>1. q = r  BY <1>1, <3>1 DEF Steady, Locks, At
      <4> QED  BY <1>1, <3>1, <4>1, WritersMove DEF Steady
    <3> QED  BY <1>0, <2>1, <3>1, RowMoves DEF At
  <2> QED  BY <1>0, <1>1, <2>1, <2>2, <2>3, Lasting DEF At, Paid
<1>2. CASE Starts(r)
  <2>1. startCheckout(r, p) /\ req'[r].next = "create"  BY <1>2 DEF Starts
  <2> QED  BY <2>1 DEF startCheckout
<1>3. CASE Returns(r)
  <2>1. /\ order[p] = "paid" \/ \E e \in Events : e[2] = p /\ event[e] = "due"
        /\ row[p].order /\ UNCHANGED <<row, order>>
        /\ req'[r].next = "fulfil"
    BY <1>3 DEF Returns
  <2> QED  BY <1>0, <2>1 DEF Steady, Rows
<1>4. CASE GoesOn(r)
  <2>1. p = req[r].purchase  BY <1>4 DEF GoesOn
  <2>2. CASE beginPurchase(r) /\ Total[req[r].purchase] = 0 /\ req'[r].next = "fulfil"
    BY <2>1, <2>2, BeginWrites DEF Steady
  <2>3. CASE fulfillClaim(r) /\ req'[r].next = "commit"
    <3>1. /\ At(r, "fulfil") /\ row[p].status \in {"CREATED", "FAILED"}
          /\ UNCHANGED <<row, order>>
      BY <2>1, <2>3 DEF fulfillClaim
    <3> QED  BY <2>1, <2>3, <3>1 DEF Steady, Follows, At
  <2>4. CASE fulfillCommit(r) /\ req'[r].next \in {"stopOld", "tier"}
    BY <2>1, <2>4, CommitWrites DEF Steady
  <2>5. CASE stopOld(r) /\ req'[r].next = "tier"
    <3>1. At(r, "stopOld") /\ UNCHANGED <<row, order>>  BY <2>5 DEF stopOld
    <3> QED  BY <2>1, <2>5, <3>1 DEF Steady, Follows, At
  <2> QED  BY <1>4, <2>2, <2>3, <2>4, <2>5 DEF GoesOn
<1>5. ~Ends(r)  BY RequestForms DEF Ends
<1> QED  BY <1>1, <1>2, <1>3, <1>4, <1>5, OneMoves DEF Steady

\* A request enters its transaction by the claim.
LEMMA Entering ==
    ASSUME Steady, [Next]_vars, NEW r \in Requests, req'[r].next = "commit"
    PROVE  \/ req'[r] = req[r]
           \/ /\ fulfillClaim(r) /\ req'[r].purchase = req[r].purchase
              /\ req'[r].old = LiveForPass(req[r].purchase)
              /\ \A q \in Requests : q # r => req'[q] = req[q]
<1>1. Idle.next # "commit"  BY DEF Idle
<1> QED  BY <1>1, OneMoves DEF Steady, Ends, Starts, Returns, GoesOn

LEMMA LocksStep ==
    ASSUME Steady, [Next]_vars PROVE Locks'
<1> DEFINE Clash(q, r) ==
        \/ req'[q].purchase = req'[r].purchase
        \/ Total[req'[q].purchase] > 0 /\ Total[req'[r].purchase] > 0
<1>1. ASSUME NEW q \in Requests, NEW r \in Requests, q # r, fulfillClaim(r),
             req'[r].purchase = req[r].purchase, req'[q] = req[q], At(q, "commit")
      PROVE  ~Clash(q, r)
  BY <1>1 DEF fulfillClaim, InTransaction, CounterLocked
<1>2. ASSUME NEW q \in Requests, NEW r \in Requests, q # r,
             req'[q].next = "commit", req'[r].next = "commit"
      PROVE  ~Clash(q, r)
  <2>1. CASE req'[q] = req[q] /\ req'[r] = req[r]
    BY <1>2, <2>1 DEF Steady, Locks, At
  <2>2. CASE req'[r] # req[r]
    BY <1>1, <1>2, <2>2, Entering DEF At
  <2>3. CASE req'[q] # req[q]
    BY <1>1, <1>2, <2>3, Entering DEF At
  <2> QED  BY <2>1, <2>2, <2>3
<1> QED  BY <1>2 DEF Locks, At

LEMMA CoversStep ==
    ASSUME Steady, [Next]_vars PROVE Covers'
<1> SUFFICES ASSUME NEW r \in Requests, req'[r].next = "commit"
             PROVE  /\ \A x \in req'[r].old \cap Passes : Paid(x)'
                    /\ req'[r].purchase \in Passes /\ Total[req'[r].purchase] > 0 =>
                          \A x \in Passes :
                             /\ SellerOf[x] = SellerOf[req'[r].purchase]
                             /\ Total[x] > 0 /\ sub'[x] = "ACTIVE"
                             => x \in req'[r].old
  BY DEF Covers, At, PaidLive
<1>1. CASE req'[r] = req[r]
  <2>1. \A x \in req[r].old \cap Passes : Paid(x)
    BY <1>1 DEF Steady, Covers, At
  <2>2. \A x \in req'[r].old \cap Passes : Paid(x)'
    BY <1>1, <2>1, Lasting DEF Passes
  <2>3. ASSUME req[r].purchase \in Passes, Total[req[r].purchase] > 0, NEW x \in Passes,
               SellerOf[x] = SellerOf[req[r].purchase], Total[x] > 0, sub'[x] = "ACTIVE"
        PROVE  x \in req[r].old
    <3>1. PaidLive(SellerOf[req[r].purchase]) \subseteq req[r].old
      BY <1>1, <2>3 DEF Steady, Covers, At
    <3>2. ASSUME NEW q \in Requests, fulfillCommit(q), At(q, "commit"), req[q].purchase = x
          PROVE  FALSE
      <4>1. q = r  BY <1>1, <2>3, <3>2 DEF Steady, Locks, At
      <4> QED  BY <1>1, <3>2, <4>1, WritersMove DEF Steady
    <3>3. sub'[x] = sub[x]  BY <2>3, <3>2, PassMoves
    <3> QED  BY <2>3, <3>1, <3>3 DEF PaidLive
  <2> QED  BY <1>1, <2>2, <2>3
<1>2. CASE fulfillClaim(r) /\ req'[r].purchase = req[r].purchase
           /\ req'[r].old = LiveForPass(req[r].purchase)
  <2>1. UNCHANGED <<row, sub>>  BY <1>2 DEF fulfillClaim, effects
  <2>2. \A x \in Passes : sub[x] # "none" => Paid(x)  BY DEF Steady, Rows
  <2>3. \A x \in Passes : x \in SubRows /\ Owner(x) = SellerOf[x]  BY LiveTypes DEF Owner
  <2> QED  BY <1>2, <2>1, <2>2, <2>3 DEF LiveForPass, LiveOf, Paid
<1> QED  BY <1>1, <1>2, Entering

THEOREM Steadiness == Spec => []Steady
<1>1. Init => Steady
  <2>1. ASSUME Init PROVE TypeOK
    BY <2>1, PurchaseAssumption, RequestForms DEF Init, TypeOK, Statuses
  <2>2. ASSUME Init PROVE Rows /\ Lone /\ Follows /\ Locks /\ Covers
    <3>1. \A r \in Requests : ~At(r, "create") /\ ~At(r, "commit")
                               /\ req[r].next \notin {"fulfil", "commit", "stopOld", "tier"}
      BY <2>2 DEF Init, At, Idle
    <3>2. Rows  BY <2>2, LiveTypes DEF Init, Rows, Paid
    <3> QED  BY <3>1, <3>2 DEF Lone, Follows, Locks, Covers
  <2> QED  BY <2>1, <2>2 DEF Steady
<1>2. Steady /\ [Next]_vars => Steady'
  <2>1. ASSUME Steady, [Next]_vars
        PROVE  TypeOK' /\ Rows' /\ Lone' /\ Follows' /\ Locks' /\ Covers'
    <3>1. TypeOK'  BY <2>1, TypeStep DEF Steady
    <3> QED  BY <2>1, <3>1, RowsStep, LoneStep, FollowsStep, LocksStep, CoversStep
  <2> QED  BY <2>1 DEF Steady
<1> QED  BY <1>1, <1>2, PTL DEF Spec

\* The columns of the purchases, their orders, coupons and plans keep their types,
\* and a request is always in one of the states its handler has.
THEOREM PurchaseTypes == Spec => []TypeOK
<1>1. Steady => TypeOK  BY DEF Steady
<1> QED  BY <1>1, Steadiness, PTL

-----------------------------------------------------------------------------
(* Passes.                                                                  *)

\* A pass that ended or was replaced never starts again: fulfillPurchase claims
\* the purchase of a pass while it is CREATED, and one that started is PAID.
THEOREM PassesStartOnce == Spec => PassStartsOnce
<1> DEFINE StaysOver == \A p \in Passes : sub[p] \in {"CANCELED", "EXPIRED"} => sub'[p] # "ACTIVE"
<1>1. Steady /\ [Next]_vars => StaysOver
  <2> SUFFICES ASSUME Steady, [Next]_vars, NEW x \in Passes, sub[x] \in {"CANCELED", "EXPIRED"}
               PROVE  sub'[x] # "ACTIVE"
    OBVIOUS
  <2>1. Paid(x)  BY DEF Steady, Rows
  <2> QED  BY <2>1, PassMoves DEF Paid
<1>2. Spec => [][StaysOver]_vars  BY <1>1, Steadiness, PTL DEF Spec
<1> QED  BY <1>2, PTL DEF PassStartsOnce

\* Of two passes that were paid for, never both are live, in whatever order their
\* payments come back: the transaction of the second waits for the invoice counter
\* and then sees, and ends, the first.
THEOREM OnePaidPass == Spec => []OnePaidPassLive
<1>1. Init => OnePaidPassLive
  BY LiveTypes DEF Init, OnePaidPassLive
<1>2. ASSUME Steady, OnePaidPassLive, [Next]_vars PROVE OnePaidPassLive'
  <2>1. ASSUME NEW x \in Passes, NEW y \in Passes, x # y, SellerOf[x] = SellerOf[y],
               Total[x] > 0, Total[y] > 0, sub'[y] = "ACTIVE",
               NEW r \in Requests, fulfillCommit(r), At(r, "commit"), req[r].purchase = x
        PROVE  FALSE
    <3>1. sub'[y] = IF y \in req[r].old THEN "CANCELED" ELSE sub[y]
      BY <1>2, <2>1, CommitWrites, LiveTypes DEF Steady
    <3>2. y \in PaidLive(SellerOf[x]) /\ y \notin req[r].old
      BY <2>1, <3>1 DEF PaidLive
    <3> QED  BY <1>2, <2>1, <3>2 DEF Steady, Covers
  <2>2. ASSUME NEW x \in Passes, NEW y \in Passes, x # y, SellerOf[x] = SellerOf[y],
               Total[x] > 0, Total[y] > 0, sub'[x] = "ACTIVE", sub'[y] = "ACTIVE"
        PROVE  FALSE
    <3>1. sub'[x] = sub[x] /\ sub'[y] = sub[y]  BY <1>2, <2>1, <2>2, PassMoves
    <3> QED  BY <1>2, <2>2, <3>1 DEF OnePaidPassLive
  <2> QED  BY <2>2 DEF OnePaidPassLive
<1> QED  BY <1>1, <1>2, Steadiness, PTL DEF Spec

-----------------------------------------------------------------------------
(* Invoices.                                                                *)

Numbered ==
    /\ \A p \in Purchases : invoice[p] # 0 <=> Paid(p) /\ Total[p] > 0
    /\ \A p \in Purchases : invoice[p] < nextInvoice
    /\ \A n \in 1 .. nextInvoice - 1 : \E p \in Purchases : invoice[p] = n
    /\ \A p, q \in Purchases : invoice[p] = invoice[q] /\ invoice[p] # 0 => p = q

\* Only a commit changes which purchases are paid, and only it writes with them.
LEMMA PaidMoves ==
    ASSUME Steady, [Next]_vars, ~\E r \in Requests : fulfillCommit(r)
    PROVE  /\ \A p \in Purchases : Paid(p)' <=> Paid(p)
           /\ UNCHANGED <<redeemed, invoice, nextInvoice>>
<1>1. \A p \in Purchases : Paid(p)' <=> Paid(p)  BY RowMoves DEF Paid
<1>2. UNCHANGED <<redeemed, invoice, nextInvoice>>
  <2>1. CASE UNCHANGED vars  BY <2>1 DEF vars, effects
  <2>2. CASE World  BY <2>2, WorldKeeps
  <2>3. ASSUME NEW r \in Requests, RequestMove(r) PROVE UNCHANGED <<redeemed, invoice, nextInvoice>>
    BY <2>3, Readers, BeginWrites DEF effects, Steady
  <2> QED  BY <2>1, <2>2, <2>3, NextIs
<1> QED  BY <1>1, <1>2

\* A commit makes its purchase paid, which it was not.
LEMMA CommitPays ==
    ASSUME Steady, NEW r \in Requests, fulfillCommit(r), NEW p, p = req[r].purchase
    PROVE  /\ p \in Purchases /\ ~Paid(p) /\ row[p].status = "CREATED" /\ Paid(p)'
           /\ \A q \in Purchases : q # p => row'[q] = row[q]
  BY CommitWrites DEF Steady, Follows, Paid

THEOREM InvoiceNumbers == Spec => []InvoicesHaveNoGaps
<1>1. Init => Numbered
  BY DEF Init, Numbered, Paid
<1>2. ASSUME Steady, Numbered, [Next]_vars PROVE Numbered'
  <2>1. CASE ~\E r \in Requests : fulfillCommit(r)
    BY <1>2, <2>1, PaidMoves DEF Numbered
  <2>2. ASSUME NEW r \in Requests, fulfillCommit(r) PROVE Numbered'
    <3>0. PICK p : p = req[r].purchase  OBVIOUS
    <3>1. TakeInvoice(p)  BY <1>2, <2>2, <3>0, CommitWrites DEF Steady
    <3>2. /\ p \in Purchases /\ ~Paid(p) /\ Paid(p)'
          /\ \A q \in Purchases : q # p => (Paid(q)' <=> Paid(q))
      BY <1>2, <2>2, <3>0, CommitPays DEF Paid
    <3>3. /\ invoice' \in [Purchases -> Nat] /\ nextInvoice' \in Nat \ {0}
          /\ invoice \in [Purchases -> Nat] /\ nextInvoice \in Nat \ {0} /\ Total[p] \in Nat
          /\ \A q \in Purchases : q # p => invoice'[q] = invoice[q]
          /\ invoice'[p] = IF Total[p] > 0 THEN nextInvoice ELSE invoice[p]
          /\ nextInvoice' = IF Total[p] > 0 THEN nextInvoice + 1 ELSE nextInvoice
      BY <1>2, <3>1, <3>2, InvoiceTypes, PurchaseAssumption DEF Steady, TypeOK
    <3>4. invoice[p] = 0  BY <1>2, <3>2 DEF Numbered, Paid
    <3>5. \A q \in Purchases : invoice'[q] # 0 <=> Paid(q)' /\ Total[q] > 0
      BY <1>2, <3>2, <3>3, <3>4 DEF Numbered
    <3>6. \A q \in Purchases : invoice'[q] < nextInvoice'
      BY <1>2, <3>2, <3>3, <3>4 DEF Numbered
    <3>7. ASSUME NEW n \in 1 .. nextInvoice' - 1 PROVE \E q \in Purchases : invoice'[q] = n
      <4>1. CASE n \in 1 .. nextInvoice - 1
        <5>1. PICK q \in Purchases : invoice[q] = n  BY <1>2, <4>1 DEF Numbered
        <5>2. q # p  BY <3>4, <5>1
        <5> QED  BY <3>3, <5>1, <5>2
      <4>2. CASE n \notin 1 .. nextInvoice - 1  BY <3>2, <3>3, <3>7, <4>2
      <4> QED  BY <4>1, <4>2
    <3>8. ASSUME NEW x \in Purchases, NEW y \in Purchases, invoice'[x] = invoice'[y], invoice'[x] # 0
          PROVE  x = y
      BY <1>2, <3>2, <3>3, <3>4, <3>8 DEF Numbered
    <3> QED  BY <3>5, <3>6, <3>7, <3>8 DEF Numbered
  <2> QED  BY <2>1, <2>2
<1>3. Steady /\ Numbered => InvoicesHaveNoGaps
  <2> SUFFICES ASSUME Steady, Numbered PROVE InvoicesHaveNoGaps  OBVIOUS
  <2>1. invoice \in [Purchases -> Nat] /\ nextInvoice \in Nat \ {0}  BY DEF Steady, TypeOK
  <2>2. {p \in Purchases : invoice[p] # 0} = {p \in Purchases : Paid(p) /\ Total[p] > 0}
    BY DEF Numbered
  <2>3. {invoice[p] : p \in Purchases} \ {0} \subseteq 1 .. nextInvoice - 1
    BY <2>1 DEF Numbered
  <2>4. 1 .. nextInvoice - 1 \subseteq {invoice[p] : p \in Purchases} \ {0}
    BY <2>1 DEF Numbered
  <2>5. \A p, q \in Purchases : invoice[p] = invoice[q] /\ invoice[p] # 0 => p = q
    BY DEF Numbered
  <2> QED  BY <2>2, <2>3, <2>4, <2>5 DEF InvoicesHaveNoGaps
<1> QED  BY <1>1, <1>2, <1>3, Steadiness, PTL DEF Spec

-----------------------------------------------------------------------------
(* Coupons.                                                                 *)

Redemption == redeemed = {p \in Purchases : Paid(p) /\ CouponOf[p] # NoCoupon}

\* A coupon is used up by exactly the purchases whose payment is confirmed, never
\* by a checkout that only started, and what costs something is PAID only after
\* Razorpay has the money, in whatever order browser and webhooks come back.
THEOREM RedemptionFollowsPayment == Spec => []RedeemedIsPaid
<1>1. Init => Redemption
  BY DEF Init, Redemption, Paid
<1>2. ASSUME Steady, Redemption, [Next]_vars PROVE Redemption'
  <2>1. CASE ~\E r \in Requests : fulfillCommit(r)
    BY <1>2, <2>1, PaidMoves DEF Redemption
  <2>2. ASSUME NEW r \in Requests, fulfillCommit(r) PROVE Redemption'
    <3>0. PICK p : p = req[r].purchase  OBVIOUS
    <3>1. redeemed' = IF CouponOf[p] = NoCoupon THEN redeemed ELSE redeemed \cup {p}
      BY <1>2, <2>2, <3>0, CommitWrites DEF Steady
    <3>2. /\ p \in Purchases /\ Paid(p)'
          /\ \A q \in Purchases : q # p => (Paid(q)' <=> Paid(q))
      BY <1>2, <2>2, <3>0, CommitPays DEF Paid
    <3>3. \A q \in Purchases : q \in redeemed <=> Paid(q) /\ CouponOf[q] # NoCoupon
      BY <1>2 DEF Redemption
    <3>4. redeemed \subseteq Purchases  BY <1>2 DEF Redemption
    <3> QED  BY <3>1, <3>2, <3>3, <3>4 DEF Redemption, Paid
  <2> QED  BY <2>1, <2>2
<1>3. Steady /\ Redemption => RedeemedIsPaid
  BY DEF Steady, Rows, Redemption, RedeemedIsPaid
<1> QED  BY <1>1, <1>2, <1>3, Steadiness, PTL DEF Spec

\* A checkout that is the only open one with its coupon has room for it.
Room ==
    \A c \in Coupons \ crowded, p \in Purchases : CouponOf[p] = c /\ Open(p) =>
        /\ \A q \in Purchases : CouponOf[q] = c /\ Open(q) => q = p
        /\ Cardinality(Redeemed(c)) < MaxRedemptions[c]
        /\ Cardinality(RedeemedBy(c, SellerOf[p])) < PerSellerLimit[c]

Within == Room /\ LimitsHoldOneAtATime

\* A purchase that is open was open, or its checkout starts.
LEMMA OpenMoves ==
    ASSUME Steady, [Next]_vars, NEW p \in Purchases, Open(p)'
    PROVE  Open(p) \/ \E r \in Requests : startCheckout(r, p)
<1>1. CASE row'[p].status = "CREATED"
  <2>1. CASE \E r \in Requests : At(r, "create") /\ req[r].purchase = p /\ row[p].status = "absent"
    BY <2>1 DEF Open, At
  <2> QED  BY <1>1, <2>1, RowMoves DEF Open
<1>2. ASSUME NEW r \in Requests, req'[r].next # "idle", req'[r].purchase = p,
             row'[p].status = "absent"
      PROVE  Open(p) \/ startCheckout(r, p)
  <2>1. row'[p] = row[p]  BY <1>2, Lasting
  <2>2. CASE req'[r] = req[r]  BY <1>2, <2>1, <2>2 DEF Open, At
  <2>3. CASE Starts(r)  BY <1>2, <2>3 DEF Starts
  <2>4. ~Returns(r)  BY <1>2, <2>1 DEF Returns, Steady, Rows
  <2>5. CASE GoesOn(r)
    <3>1. ~At(r, "idle") /\ req'[r].purchase = req[r].purchase
      BY <2>5 DEF GoesOn, At, beginPurchase, fulfillClaim, fulfillCommit, stopOld
    <3> QED  BY <1>2, <2>1, <3>1 DEF Open
  <2>6. ~Ends(r)  BY <1>2, RequestForms DEF Ends
  <2> QED  BY <2>2, <2>3, <2>4, <2>5, <2>6, OneMoves DEF Steady
<1> QED  BY <1>1, <1>2 DEF Open, At

\* One checkout starts at a time.
LEMMA OneStarts ==
    ASSUME TypeOK, NEW r \in Requests, NEW p \in Purchases, startCheckout(r, p)
    PROVE  \A q \in Requests, o \in Purchases : startCheckout(q, o) => o = p
<1>1. "create" \in Steps  BY DEF Steps
<1>2. ASSUME NEW q \in Requests, NEW o \in Purchases, startCheckout(q, o) PROVE o = p
  <2>1. /\ req'[q].next = "create" /\ req'[q].purchase = o
        /\ \A u \in Requests : u # q => req'[u] = req[u]
    BY <1>1, <1>2, BeginForm DEF startCheckout
  <2>2. /\ req'[r].next = "create" /\ req'[r].purchase = p /\ At(r, "idle")
    BY <1>1, BeginForm DEF startCheckout
  <2>3. q = r  BY <2>1, <2>2 DEF At
  <2> QED  BY <2>1, <2>2, <2>3
<1> QED  BY <1>2

LEMMA CountedCoupons ==
    ASSUME TypeOK, NEW c, NEW s
    PROVE  /\ IsFiniteSet(Redeemed(c)) /\ IsFiniteSet(RedeemedBy(c, s))
           /\ Cardinality(Redeemed(c)) \in Nat /\ Cardinality(RedeemedBy(c, s)) \in Nat
<1>1. Redeemed(c) \subseteq Purchases /\ RedeemedBy(c, s) \subseteq Purchases
  BY DEF TypeOK, Redeemed, RedeemedBy
<1>2. IsFiniteSet(Redeemed(c)) /\ IsFiniteSet(RedeemedBy(c, s))
  BY <1>1, PurchaseAssumption, FS_Subset
<1> QED  BY <1>2, FS_CardinalityType

LEMMA CountedAfter ==
    ASSUME TypeOK', NEW c
    PROVE  /\ IsFiniteSet(Redeemed(c)') /\ Cardinality(Redeemed(c))' \in Nat
           /\ \A s : Cardinality(RedeemedBy(c, s))' \in Nat
<1>1. /\ Redeemed(c)' \subseteq Purchases
      /\ \A s : RedeemedBy(c, s)' \subseteq Purchases
  BY DEF TypeOK, Redeemed, RedeemedBy
<1>2. \A S : S \subseteq Purchases => IsFiniteSet(S) /\ Cardinality(S) \in Nat
  BY PurchaseAssumption, FS_Subset, FS_CardinalityType
<1> QED  BY <1>1, <1>2

\* crowded grows, and grows by the coupon of a checkout that starts beside another.
LEMMA CrowdedMoves ==
    ASSUME TypeOK, [Next]_vars
    PROVE  crowded \subseteq crowded'
<1>1. CASE UNCHANGED vars  BY <1>1 DEF vars
<1>2. CASE World  BY <1>2, WorldKeeps
<1>3. ASSUME NEW r \in Requests, RequestMove(r) PROVE crowded \subseteq crowded'
  BY <1>3 DEF RequestMove, RequestStep, startCheckout, confirmAddonCheckout, receiveWebhook,
     beginPurchase, fulfillClaim, fulfillNothing, fulfillCommit, stopOld, recomputeTier,
     fulfillThrows, processDies
<1> QED  BY <1>1, <1>2, <1>3, NextIs

\* A purchase that is committed is no longer open.
LEMMA CommitCloses ==
    ASSUME Steady, [Next]_vars, NEW r \in Requests, fulfillCommit(r), NEW p, p = req[r].purchase
    PROVE  /\ Open(p) /\ ~Open(p)'
           /\ \A q \in Purchases : Open(q)' => Open(q)
<1>1. p \in Purchases /\ row[p].status = "CREATED" /\ row'[p].status = "PAID"
  BY CommitPays DEF Paid
<1>2. Open(p) /\ ~Open(p)'  BY <1>1 DEF Open
<1>3. ASSUME NEW q \in Purchases, Open(q)', NEW o \in Requests, startCheckout(o, q) PROVE FALSE
  BY <1>1, <1>3 DEF startCheckout
<1> QED  BY <1>2, <1>3, OpenMoves

\* The redemptions of a coupon after a commit.
LEMMA CommitRedeems ==
    ASSUME Steady, NEW r \in Requests, fulfillCommit(r), NEW p, p = req[r].purchase, NEW c
    PROVE  /\ CouponOf[p] # c => Redeemed(c)' = Redeemed(c)
           /\ Cardinality(Redeemed(c))' <= Cardinality(Redeemed(c)) + 1
           /\ \A s : /\ CouponOf[p] # c \/ SellerOf[p] # s => RedeemedBy(c, s)' = RedeemedBy(c, s)
                    /\ Cardinality(RedeemedBy(c, s))' <= Cardinality(RedeemedBy(c, s)) + 1
<1>1. redeemed' = redeemed \/ redeemed' = redeemed \cup {p}
  BY CommitWrites DEF Steady
<1>2. Redeemed(c)' = Redeemed(c) \/ Redeemed(c)' = Redeemed(c) \cup {p}
  BY <1>1 DEF Redeemed
<1>3. ASSUME NEW s
      PROVE  RedeemedBy(c, s)' = RedeemedBy(c, s) \/ RedeemedBy(c, s)' = RedeemedBy(c, s) \cup {p}
  BY <1>1 DEF Redeemed, RedeemedBy
<1>4. ASSUME NEW S, IsFiniteSet(S), Cardinality(S) \in Nat
      PROVE  Cardinality(S \cup {p}) <= Cardinality(S) + 1
  BY <1>4, FS_AddElement
<1>5. CouponOf[p] # c => Redeemed(c)' = Redeemed(c)
  BY <1>1 DEF Redeemed
<1>6. Cardinality(Redeemed(c))' <= Cardinality(Redeemed(c)) + 1
  <2>1. IsFiniteSet(Redeemed(c)) /\ Cardinality(Redeemed(c)) \in Nat
    BY CountedCoupons DEF Steady
  <2>2. Cardinality(Redeemed(c) \cup {p}) <= Cardinality(Redeemed(c)) + 1
    BY <1>4, <2>1
  <2> QED  BY <1>2, <2>1, <2>2
<1>7. ASSUME NEW s
      PROVE  /\ CouponOf[p] # c \/ SellerOf[p] # s => RedeemedBy(c, s)' = RedeemedBy(c, s)
             /\ Cardinality(RedeemedBy(c, s))' <= Cardinality(RedeemedBy(c, s)) + 1
  <2>1. IsFiniteSet(RedeemedBy(c, s)) /\ Cardinality(RedeemedBy(c, s)) \in Nat
    BY CountedCoupons DEF Steady
  <2>2. Cardinality(RedeemedBy(c, s) \cup {p}) <= Cardinality(RedeemedBy(c, s)) + 1
    BY <1>4, <2>1
  <2>3. CouponOf[p] # c \/ SellerOf[p] # s => RedeemedBy(c, s)' = RedeemedBy(c, s)
    BY <1>1 DEF Redeemed, RedeemedBy
  <2>4. CASE RedeemedBy(c, s)' = RedeemedBy(c, s)  BY <2>1, <2>3, <2>4
  <2>5. CASE RedeemedBy(c, s)' = RedeemedBy(c, s) \cup {p}
    <3>1. Cardinality(RedeemedBy(c, s))' <= Cardinality(RedeemedBy(c, s)) + 1  BY <2>2, <2>5
    <3> QED  BY <2>3, <3>1
  <2> QED  BY <1>3, <2>4, <2>5
<1> QED  BY <1>5, <1>6, <1>7

LEMMA CommitWithin ==
    ASSUME Steady, Within, [Next]_vars, NEW r \in Requests, fulfillCommit(r)
    PROVE  Within'
<1>0. PICK p : p = req[r].purchase  OBVIOUS
<1>1. p \in Purchases /\ SellerOf[p] \in Sellers
  BY <1>0, CommitPays, PurchaseAssumption
<1>2. /\ Open(p) /\ ~Open(p)'
      /\ \A q \in Purchases : Open(q)' => Open(q)
  BY <1>0, CommitCloses
<1>3. crowded \subseteq crowded'  BY CrowdedMoves DEF Steady
<1>4. ASSUME NEW c \in Coupons \ crowded', c # CouponOf[p], NEW q \in Purchases,
             CouponOf[q] = c, Open(q)'
      PROVE  /\ \A o \in Purchases : CouponOf[o] = c /\ Open(o)' => o = q
             /\ Cardinality(Redeemed(c))' < MaxRedemptions[c]
             /\ Cardinality(RedeemedBy(c, SellerOf[q]))' < PerSellerLimit[c]
  <2>1. Redeemed(c)' = Redeemed(c) /\ RedeemedBy(c, SellerOf[q])' = RedeemedBy(c, SellerOf[q])
    BY <1>0, <1>4, CommitRedeems
  <2> QED  BY <1>2, <1>3, <1>4, <2>1 DEF Within, Room
<1>5. ASSUME NEW q \in Purchases, CouponOf[q] = CouponOf[p], CouponOf[p] \in Coupons \ crowded', Open(q)'
      PROVE  FALSE
  <2>1. q = p  BY <1>1, <1>2, <1>3, <1>5 DEF Within, Room
  <2> QED  BY <1>2, <1>5, <2>1
<1>6. ASSUME NEW c \in Coupons \ crowded'
      PROVE  /\ Cardinality(Redeemed(c))' <= MaxRedemptions[c]
             /\ \A s \in Sellers : Cardinality(RedeemedBy(c, s))' <= PerSellerLimit[c]
  <2>0. c \in Coupons \ crowded  BY <1>3
  <2>1. /\ Cardinality(Redeemed(c)) <= MaxRedemptions[c]
        /\ \A s \in Sellers : Cardinality(RedeemedBy(c, s)) <= PerSellerLimit[c]
    BY <2>0 DEF Within, LimitsHoldOneAtATime
  <2>2. MaxRedemptions[c] \in Nat /\ PerSellerLimit[c] \in Nat
    BY PurchaseAssumption
  <2>3. Cardinality(Redeemed(c)) \in Nat
        /\ \A s : Cardinality(RedeemedBy(c, s)) \in Nat
    BY CountedCoupons DEF Steady
  <2>4. /\ CouponOf[p] # c => Redeemed(c)' = Redeemed(c)
        /\ Cardinality(Redeemed(c))' <= Cardinality(Redeemed(c)) + 1
    BY <1>0, CommitRedeems
  <2>5. \A s : /\ CouponOf[p] # c \/ SellerOf[p] # s => RedeemedBy(c, s)' = RedeemedBy(c, s)
              /\ Cardinality(RedeemedBy(c, s))' <= Cardinality(RedeemedBy(c, s)) + 1
    <3> TAKE s
    <3> QED  BY <1>0, CommitRedeems
  <2>6. /\ IsFiniteSet(Redeemed(c)') /\ Cardinality(Redeemed(c))' \in Nat
        /\ \A s : Cardinality(RedeemedBy(c, s))' \in Nat
    <3>1. TypeOK'  BY TypeStep DEF Steady
    <3> QED  BY <3>1, CountedAfter
  <2>7. CouponOf[p] = c =>
            /\ Cardinality(Redeemed(c)) < MaxRedemptions[c]
            /\ Cardinality(RedeemedBy(c, SellerOf[p])) < PerSellerLimit[c]
    BY <1>1, <1>2, <2>0 DEF Within, Room
  <2>8. Cardinality(Redeemed(c))' <= MaxRedemptions[c]
    <3>1. CASE CouponOf[p] = c  BY <2>2, <2>3, <2>4, <2>6, <2>7, <3>1
    <3>2. CASE CouponOf[p] # c  BY <2>1, <2>4, <3>2
    <3> QED  BY <3>1, <3>2
  <2>9. ASSUME NEW s \in Sellers PROVE Cardinality(RedeemedBy(c, s))' <= PerSellerLimit[c]
    <3>0. /\ Cardinality(RedeemedBy(c, s)) \in Nat /\ Cardinality(RedeemedBy(c, s))' \in Nat
          /\ Cardinality(RedeemedBy(c, s))' <= Cardinality(RedeemedBy(c, s)) + 1
      BY <2>3, <2>5, <2>6
    <3>1. CASE CouponOf[p] = c /\ SellerOf[p] = s
      <4>1. Cardinality(RedeemedBy(c, s)) < PerSellerLimit[c]  BY <2>7, <3>1
      <4> QED  BY <2>2, <3>0, <4>1
    <3>2. CASE CouponOf[p] # c \/ SellerOf[p] # s
      <4>1. RedeemedBy(c, s)' = RedeemedBy(c, s)  BY <2>5, <3>2
      <4>2. Cardinality(RedeemedBy(c, s))' = Cardinality(RedeemedBy(c, s))  BY <4>1
      <4> QED  BY <2>1, <4>2
    <3> QED  BY <3>1, <3>2
  <2> QED  BY <2>8, <2>9
<1> QED  BY <1>4, <1>5, <1>6 DEF Within, Room, LimitsHoldOneAtATime

LEMMA StartWithin ==
    ASSUME Steady, Within, [Next]_vars, NEW r \in Requests, NEW p \in Purchases, startCheckout(r, p)
    PROVE  Within'
<1>1. UNCHANGED redeemed  BY DEF startCheckout, effects
<1>2. /\ \A c : Redeemed(c)' = Redeemed(c)
      /\ \A c, s : RedeemedBy(c, s)' = RedeemedBy(c, s)
  BY <1>1 DEF Redeemed, RedeemedBy
<1>3. \A q \in Purchases : Open(q)' => Open(q) \/ q = p
  BY OpenMoves, OneStarts DEF Steady
<1>4. crowded \subseteq crowded'  BY CrowdedMoves DEF Steady
<1>5. ASSUME NEW c \in Coupons \ crowded', CouponOf[p] = c
      PROVE  /\ \A q \in Purchases : CouponOf[q] = c => ~Open(q)
             /\ Cardinality(Redeemed(c)) < MaxRedemptions[c]
             /\ Cardinality(RedeemedBy(c, SellerOf[p])) < PerSellerLimit[c]
  BY <1>5, PurchaseAssumption DEF startCheckout, CouponUsable
<1>6. ASSUME NEW c \in Coupons \ crowded', NEW q \in Purchases, CouponOf[q] = c, Open(q)'
      PROVE  /\ \A o \in Purchases : CouponOf[o] = c /\ Open(o)' => o = q
             /\ Cardinality(Redeemed(c)) < MaxRedemptions[c]
             /\ Cardinality(RedeemedBy(c, SellerOf[q])) < PerSellerLimit[c]
  <2>1. CASE CouponOf[p] = c  BY <1>3, <1>5, <1>6, <2>1
  <2>2. CASE CouponOf[p] # c  BY <1>3, <1>4, <1>6, <2>2 DEF Within, Room
  <2> QED  BY <2>1, <2>2
<1>7. LimitsHoldOneAtATime'
  BY <1>2, <1>4 DEF Within, LimitsHoldOneAtATime
<1>8. Room'
  BY <1>2, <1>6 DEF Room
<1> QED  BY <1>7, <1>8 DEF Within

\* The limits of a coupon hold unless two checkouts with it were open together:
\* they are read when a checkout starts and not again when the redemption is
\* written, and a checkout that is alone finds then what it read.
THEOREM LimitsOneAtATime == Spec => []LimitsHoldOneAtATime
<1>1. Init => Within
  <2> SUFFICES ASSUME Init PROVE Within  OBVIOUS
  <2>1. \A p \in Purchases : ~Open(p)  BY DEF Init, Open, At, Idle
  <2>2. ASSUME NEW c \in Coupons
        PROVE  Cardinality(Redeemed(c)) = 0 /\ \A s : Cardinality(RedeemedBy(c, s)) = 0
    <3>1. Redeemed(c) = {} /\ \A s : RedeemedBy(c, s) = {}  BY DEF Init, Redeemed, RedeemedBy
    <3> QED  BY <3>1, FS_EmptySet
  <2>3. \A c \in Coupons : MaxRedemptions[c] \in Nat /\ PerSellerLimit[c] \in Nat
    BY PurchaseAssumption
  <2> QED  BY <2>1, <2>2, <2>3 DEF Within, Room, LimitsHoldOneAtATime
<1>2. ASSUME Steady, Within, [Next]_vars PROVE Within'
  <2>1. CASE \E r \in Requests : fulfillCommit(r)  BY <1>2, <2>1, CommitWithin
  <2>2. CASE \E r \in Requests, p \in Purchases : startCheckout(r, p)  BY <1>2, <2>2, StartWithin
  <2>3. CASE /\ ~\E r \in Requests : fulfillCommit(r)
             /\ ~\E r \in Requests, p \in Purchases : startCheckout(r, p)
    <3>1. UNCHANGED redeemed  BY <1>2, <2>3, PaidMoves
    <3>2. /\ \A c : Redeemed(c)' = Redeemed(c)
          /\ \A c, s : RedeemedBy(c, s)' = RedeemedBy(c, s)
      BY <3>1 DEF Redeemed, RedeemedBy
    <3>3. \A q \in Purchases : Open(q)' => Open(q)  BY <1>2, <2>3, OpenMoves
    <3>4. crowded \subseteq crowded'  BY <1>2, CrowdedMoves DEF Steady
    <3>5. Room'
      BY <1>2, <3>2, <3>3, <3>4 DEF Within, Room
    <3>6. LimitsHoldOneAtATime'
      BY <1>2, <3>2, <3>4 DEF Within, LimitsHoldOneAtATime
    <3> QED  BY <3>5, <3>6 DEF Within
  <2> QED  BY <2>1, <2>2, <2>3
<1>3. Within => LimitsHoldOneAtATime  BY DEF Within
<1> QED  BY <1>1, <1>2, <1>3, Steadiness, PTL DEF Spec
================================================================================
