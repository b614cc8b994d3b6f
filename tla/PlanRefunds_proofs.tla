--------------------------- MODULE PlanRefunds_proofs ---------------------------
(***************************************************************************)
(* Proofs about PlanRefunds, for any number of payments, requests and        *)
(* failures.                                                                *)
(*                                                                         *)
(* One invariant carries them.  Its parts are the life of a request's row    *)
(* (Rows), the approval in progress, which alone may touch that row until the *)
(* money is booked (Holders), the two halves of requestRefund (Asks), and     *)
(* what pays for a plan that is live or about to be written live (PlanBacked). *)
(***************************************************************************)
EXTENDS PlanRefunds, TLAPS, SequenceTheorems, FiniteSetTheorems

Columns ==
    /\ charge \in [Payments -> {"none", "made", "recorded"}]
    /\ paid \in Seq(Payments) /\ windowStart \in Nat \ {0}
    /\ autopay \in BOOLEAN /\ sub \in {"ACTIVE", "PAST_DUE", "CANCELED"}
    /\ refund \in [Refunds -> [payment : Payments \cup {NoPayment}, status : Statuses, stored : BOOLEAN]]
    /\ given \in [Payments -> SUBSET Refunds]
    /\ gateway \in [Refunds -> {"none", "made", "failed"}]
    /\ notice \in [Refunds -> {"unsent", "due", "matched", "unmatched"}]
    /\ req \in [Requests -> Request]
    /\ overlapped \subseteq Payments /\ crossed \in BOOLEAN
    /\ faults \in 0 .. MaxFaults

\* A charge has a Payment row exactly when its webhook recorded it.
PaidIsRecorded == \A p \in Payments : p \in Paid <=> charge[p] = "recorded"

\* The life of a row.
RowOf(f) ==
    /\ refund[f].status = "absent" <=> refund[f].payment = NoPayment
    /\ refund[f].payment # NoPayment => charge[refund[f].payment] = "recorded"
    /\ refund[f].stored => refund[f].status \in {"REFUNDED", "FAILED"}
    /\ gateway[f] # "none" => refund[f].status \in {"APPROVED", "REFUNDED", "FAILED"}
    /\ notice[f] # "unsent" <=> gateway[f] = "failed"
    /\ notice[f] = "matched" => refund[f].stored /\ refund[f].status = "FAILED"
    /\ refund[f].status = "REFUNDED" =>
          /\ f \in given[refund[f].payment]
          /\ refund[f].payment \in ByHand \/ gateway[f] # "none"
    /\ \A p \in Payments : f \in given[p] =>
          refund[f].payment = p /\ refund[f].status \in {"REFUNDED", "FAILED"}
Rows == \A f \in Refunds : RowOf(f)

\* An approval that has not booked the money holds its row alone.
Holds(r, f) == req[r].next \in {"call", "record", "refused"} /\ req[r].refund = f
HolderOf(r, f) ==
    /\ refund[f].status = "APPROVED" /\ ~refund[f].stored
    /\ req[r].next = "call" => gateway[f] = "none"
    /\ req[r].next = "record" => refund[f].payment \in ByHand \/ gateway[f] # "none"
    /\ \A q \in Requests : Holds(q, f) => q = r
Holders == \A r \in Requests : \A f \in Refunds : Holds(r, f) => HolderOf(r, f)

\* A seller who is about to insert a request asks about a recorded payment, and
\* unless two of them overlapped that payment has no request yet.
AsksFor(r, p) == req[r].next = "insert" /\ req[r].payment = p
Asks ==
    /\ \A r \in Requests : \A p \in Payments : AsksFor(r, p) => charge[p] = "recorded"
    /\ \A p \in Payments \ overlapped :
          /\ \A r \in Requests : AsksFor(r, p) =>
                /\ \A f \in Refunds : refund[f].payment # p
                /\ \A q \in Requests : AsksFor(q, p) => q = r
          /\ \A f, g \in Refunds :
                refund[f].payment = p /\ refund[g].payment = p => f = g

\* What LivePlanIsPaidFor says of a live plan holds, too, while a failed renewal
\* is about to be written.
PaidFor == (\E p \in Paid : given[p] = {}) \/ Paid = {} \/ crossed
PlanBacked ==
    /\ LivePlanIsPaidFor
    /\ \A r \in Requests : req[r].next = "pastDue" => PaidFor

Invariant == Columns /\ PaidIsRecorded /\ Rows /\ Holders /\ Asks /\ PlanBacked

USE DEF histories

-----------------------------------------------------------------------------
(* What the steps write.                                                    *)

LEMMA RequestForms ==
    /\ Idle \in Request /\ Idle.next = "idle"
    /\ \A p \in Payments : [next |-> "insert", payment |-> p] \in Request
    /\ \A f \in Refunds : \A s \in {"call", "record", "refused", "stop"} :
          [next |-> s, refund |-> f] \in Request
    /\ \A s \in {"pastDue", "end"} : [next |-> s] \in Request
    /\ \A a \in Request :
          a.next \in {"idle", "insert", "call", "record", "refused", "stop", "pastDue", "end"}
    /\ \A a \in Request : a.next = "insert" => a.payment \in Payments
    /\ \A a \in Request : a.next \in {"call", "record", "refused", "stop"} =>
          a.refund \in Refunds /\ a = [next |-> a.next, refund |-> a.refund]
BY DEF Request, Idle

\* A request ends, and nothing else about the requests changes.
LEMMA Finishes ==
    ASSUME Columns, NEW r \in Requests, Finish(r)
    PROVE  /\ req' \in [Requests -> Request]
           /\ req'[r].next = "idle"
           /\ \A q \in Requests : q # r => req'[q] = req[q]
BY RequestForms DEF Columns, Finish

\* An approval goes on to its next call.
LEMMA GoesOn ==
    ASSUME Columns, NEW r \in Requests, NEW s \in {"call", "record", "refused", "stop"},
           req[r].next \in {"call", "record", "refused", "stop"}, Go(r, s)
    PROVE  /\ req' \in [Requests -> Request]
           /\ req'[r].next = s /\ req'[r].refund = req[r].refund
           /\ req[r].refund \in Refunds
           /\ \A q \in Requests : q # r => req'[q] = req[q]
<1>1. req[r] \in Request  BY DEF Columns
<1>2. req[r].refund \in Refunds /\ req[r] = [next |-> req[r].next, refund |-> req[r].refund]
    BY <1>1, RequestForms
<1>3. req'[r] = [next |-> s, refund |-> req[r].refund]  BY <1>2 DEF Go, Columns
<1>4. \A q \in Requests : q # r => req'[q] = req[q]  BY DEF Go, Columns
<1>5. [next |-> s, refund |-> req[r].refund] \in Request  BY <1>2, RequestForms
<1> HIDE DEF Request
<1>6. req' \in [Requests -> Request]
  <2>1. req' = [q \in Requests |-> req'[q]]  BY DEF Go, Columns
  <2>2. \A q \in Requests : req'[q] \in Request  BY <1>3, <1>4, <1>5 DEF Columns
  <2> QED  BY <2>1, <2>2
<1> QED  BY <1>2, <1>3, <1>4, <1>6

\* A status is set, and the row keeps its payment and its gateway id.
LEMMA StatusIsSet ==
    ASSUME Columns, NEW f \in Refunds, NEW s \in Statuses, SetStatus(f, s)
    PROVE  /\ refund' \in [Refunds -> [payment : Payments \cup {NoPayment},
                                       status : Statuses, stored : BOOLEAN]]
           /\ refund'[f].status = s
           /\ refund'[f].payment = refund[f].payment /\ refund'[f].stored = refund[f].stored
           /\ \A g \in Refunds : g # f => refund'[g] = refund[g]
BY DEF Columns, SetStatus

\* What the steps that leave the rows and the charges alone keep.
LEMMA PaidStays ==
    ASSUME UNCHANGED <<paid, charge, sub, given, crossed>>, PaidIsRecorded, PlanBacked,
           \A q \in Requests : req'[q].next = "pastDue" => req[q].next = "pastDue"
    PROVE  PaidIsRecorded' /\ PlanBacked'
BY DEF PaidIsRecorded, Paid, PlanBacked, PaidFor, LivePlanIsPaidFor

\* A request that ends leaves the others' rows and questions as they are.
LEMMA OthersKeep ==
    ASSUME Invariant, NEW r \in Requests,
           req'[r].next \in {"idle", "stop"}, \A q \in Requests : q # r => req'[q] = req[q]
    PROVE  /\ UNCHANGED <<refund, gateway>> => Holders'
           /\ UNCHANGED <<refund, charge, overlapped>> => Asks'
<1>1. ASSUME UNCHANGED <<refund, gateway>> PROVE Holders'
  <2>1. \A q \in Requests : \A f \in Refunds : Holds(q, f)' => q # r /\ Holds(q, f)
      BY DEF Holds
  <2> QED  BY <1>1, <2>1 DEF Invariant, Holders, HolderOf, Holds
<1>2. ASSUME UNCHANGED <<refund, charge, overlapped>> PROVE Asks'
  <2>1. \A q \in Requests : \A p \in Payments : AsksFor(q, p)' => q # r /\ AsksFor(q, p)
      BY DEF AsksFor
  <2> QED  BY <1>2, <2>1 DEF Invariant, Asks
<1> QED  BY <1>1, <1>2

\* A row that keeps its payment keeps the questions about it.
LEMMA AsksKept ==
    ASSUME Invariant, NEW r \in Requests,
           req'[r].next # "insert", \A q \in Requests : q # r => req'[q] = req[q],
           \A f \in Refunds : refund'[f].payment = refund[f].payment,
           UNCHANGED <<charge, overlapped>>
    PROVE  Asks'
<1>1. \A q \in Requests : \A p \in Payments : AsksFor(q, p)' => q # r /\ AsksFor(q, p)
    BY DEF AsksFor
<1> QED  BY <1>1 DEF Invariant, Asks

-----------------------------------------------------------------------------
(* The autopay.                                                             *)

LEMMA ChargeStep ==
    ASSUME Invariant, NEW p \in Payments, chargeCycle(p) PROVE Invariant'
<1>1. UNCHANGED <<rows, autopay, gateway, notice, windowStart, req, histories, faults>>
      /\ charge' = [charge EXCEPT ![p] = "made"] /\ charge[p] = "none"
    BY DEF chargeCycle
<1>2. \A q \in Payments : charge[q] = "recorded" <=> charge'[q] = "recorded"
    BY <1>1 DEF Invariant, Columns
<1>3. Columns'  BY <1>1 DEF Invariant, Columns, rows
<1>4. PaidIsRecorded' /\ PlanBacked'
    BY <1>1, <1>2 DEF Invariant, PaidIsRecorded, PlanBacked, PaidFor, LivePlanIsPaidFor,
                          Paid, rows
<1>5. Rows'  BY <1>1, <1>2 DEF Invariant, Rows, RowOf, rows, Columns
<1>6. Holders'  BY <1>1 DEF Invariant, Holders, HolderOf, Holds, rows
<1>7. Asks'  BY <1>1, <1>2 DEF Invariant, Asks, AsksFor, rows
<1> QED  BY <1>3, <1>4, <1>5, <1>6, <1>7 DEF Invariant

\* A Payment row is added: nobody has asked about it, so it pays for the plan.
LEMMA RowAdded ==
    ASSUME Invariant, NEW p \in Payments,
           UNCHANGED <<refund, given, autopay, gateway, notice, windowStart, req, histories, faults>>,
           charge' = [charge EXCEPT ![p] = "recorded"], charge[p] # "recorded",
           paid' = Append(paid, p), sub' \in {"ACTIVE", sub}
    PROVE  Invariant'
<1>1. /\ UNCHANGED <<refund, given, autopay, gateway, notice, windowStart, req, histories, faults>>
      /\ charge' = [charge EXCEPT ![p] = "recorded"] /\ charge[p] # "recorded"
      /\ paid' = Append(paid, p) /\ sub' \in {"ACTIVE", sub}
    OBVIOUS
<1>2. \A q \in Payments : charge'[q] = "recorded" <=> (charge[q] = "recorded" \/ q = p)
    BY <1>1 DEF Invariant, Columns
<1>3. Paid' = Paid \cup {p}
  <2>1. paid \in Seq(Payments)  BY DEF Invariant, Columns
  <2>2. /\ DOMAIN paid = 1 .. Len(paid) /\ Len(paid) \in Nat
        /\ DOMAIN paid' = 1 .. Len(paid) + 1
        /\ \A i \in 1 .. Len(paid) : paid'[i] = paid[i]
        /\ paid'[Len(paid) + 1] = p
      BY <1>1, <2>1
  <2>3. \A j \in 1 .. Len(paid) + 1 : j \in 1 .. Len(paid) \/ j = Len(paid) + 1
      BY <2>2
  <2>4. \A j \in DOMAIN paid' : paid'[j] \in Paid \cup {p}
    <3> SUFFICES ASSUME NEW j \in 1 .. Len(paid) + 1 PROVE paid'[j] \in Paid \cup {p}
        BY <2>2
    <3>1. CASE j \in 1 .. Len(paid)
      <4>1. paid'[j] = paid[j] /\ j \in DOMAIN paid  BY <2>2, <3>1
      <4> QED  BY <4>1 DEF Paid
    <3>2. CASE j = Len(paid) + 1  BY <2>2, <3>2
    <3> QED  BY <2>3, <3>1, <3>2
  <2>5. \A x \in Paid : x \in Paid'
    <3> SUFFICES ASSUME NEW j \in 1 .. Len(paid) PROVE paid[j] \in Paid'
        BY <2>2 DEF Paid
    <3>1. j \in DOMAIN paid' /\ paid'[j] = paid[j]  BY <2>2
    <3> QED  BY <3>1 DEF Paid
  <2>6. p \in Paid'
    <3>1. \E n \in DOMAIN paid' : paid'[n] = p
      <4>1. Len(paid) + 1 \in DOMAIN paid'  BY <2>2
      <4> QED  BY <2>2, <4>1, Zenon
    <3> QED  BY <3>1, Zenon DEF Paid
  <2>7. \A x \in Paid' : x \in Paid \cup {p}  BY <2>4, Zenon DEF Paid
  <2> QED  BY <2>5, <2>6, <2>7, Zenon
<1>4. Columns'  BY <1>1 DEF Invariant, Columns
<1>5. PaidIsRecorded'  BY <1>2, <1>3 DEF Invariant, PaidIsRecorded
<1>6. PlanBacked'
  <2>1. given[p] = {}
    <3>1. \A f \in given[p] : f \in Refunds /\ refund[f].payment = p
        BY DEF Invariant, Columns, Rows, RowOf
    <3>2. \A f \in Refunds : refund[f].payment # p
        BY <1>1, RefundAssumption DEF Invariant, Rows, RowOf
    <3> QED  BY <3>1, <3>2
  <2>2. PaidFor'  BY <1>1, <1>3, <2>1 DEF PaidFor
  <2> QED  BY <2>2 DEF PlanBacked, PaidFor, LivePlanIsPaidFor
<1>7. Rows'
  <2> SUFFICES ASSUME NEW f \in Refunds PROVE RowOf(f)'  BY DEF Rows
  <2>1. RowOf(f)  BY DEF Invariant, Rows
  <2>2. refund[f].payment \in Payments \cup {NoPayment}  BY DEF Invariant, Columns
  <2> QED  BY <1>1, <1>2, <2>1, <2>2 DEF RowOf
<1>8. Holders'  BY <1>1 DEF Invariant, Holders, HolderOf, Holds
<1>9. Asks'  BY <1>1, <1>2 DEF Invariant, Asks, AsksFor
<1> QED  BY <1>4, <1>5, <1>6, <1>7, <1>8, <1>9 DEF Invariant

LEMMA RecordStep ==
    ASSUME Invariant, NEW p \in Payments, recordSubscriptionCharge(p) PROVE Invariant'
<1>1. /\ UNCHANGED <<refund, given, autopay, gateway, notice, windowStart, req, histories, faults>>
      /\ charge' = [charge EXCEPT ![p] = "recorded"] /\ charge[p] = "made"
      /\ paid' = Append(paid, p) /\ sub' = "ACTIVE"
    BY DEF recordSubscriptionCharge
<1> QED  BY <1>1, RowAdded

\* A payment entered by hand is recorded at once and makes nothing live.
LEMMA EnterStep ==
    ASSUME Invariant, NEW p \in Payments, enterByHand(p) PROVE Invariant'
<1>1. /\ UNCHANGED <<sub, refund, given, autopay, gateway, notice, windowStart, req, histories, faults>>
      /\ charge' = [charge EXCEPT ![p] = "recorded"] /\ charge[p] = "none"
      /\ paid' = Append(paid, p)
    BY DEF enterByHand
<1> QED  BY <1>1, RowAdded

LEMMA AutopayEndsStep ==
    ASSUME Invariant, autopayEnds PROVE Invariant'
<1>1. /\ UNCHANGED <<rows, charge, gateway, notice, windowStart, req, histories, faults>>
      /\ autopay' = FALSE
    BY DEF autopayEnds
<1>2. Columns'  BY <1>1 DEF Invariant, Columns, rows
<1>3. PaidIsRecorded' /\ PlanBacked'  BY <1>1, PaidStays DEF Invariant, rows
<1>4. Rows' /\ Holders' /\ Asks'
    BY <1>1 DEF Invariant, Rows, RowOf, Holders, HolderOf, Holds, Asks, AsksFor, rows
<1> QED  BY <1>2, <1>3, <1>4 DEF Invariant

LEMMA ExpireStep ==
    ASSUME Invariant, expireLapsedSubscriptions PROVE Invariant'
<1>1. /\ UNCHANGED <<paid, refund, given, razorpay, windowStart, req, histories, faults>>
      /\ sub' = "CANCELED"
    BY DEF expireLapsedSubscriptions
<1>2. Columns'  BY <1>1 DEF Invariant, Columns, razorpay
<1>3. PaidIsRecorded' /\ PlanBacked'
  <2>1. PaidFor' <=> PaidFor  BY <1>1 DEF PaidFor, Paid
  <2> QED  BY <1>1, <2>1 DEF Invariant, PaidIsRecorded, PlanBacked, LivePlanIsPaidFor, Paid, razorpay
<1>4. Rows' /\ Holders' /\ Asks'
    BY <1>1 DEF Invariant, Rows, RowOf, Holders, HolderOf, Holds, Asks, AsksFor, razorpay
<1> QED  BY <1>2, <1>3, <1>4 DEF Invariant

LEMMA WindowStep ==
    ASSUME Invariant, windowMoves PROVE Invariant'
<1>1. UNCHANGED <<rows, razorpay, req, histories, faults>> /\ windowStart' = windowStart + 1
    BY DEF windowMoves
<1>2. Columns'  BY <1>1 DEF Invariant, Columns, rows, razorpay
<1>3. PaidIsRecorded' /\ PlanBacked'
    BY <1>1, PaidStays DEF Invariant, rows, razorpay
<1>4. Rows' /\ Holders' /\ Asks'
    BY <1>1 DEF Invariant, Rows, RowOf, Holders, HolderOf, Holds, Asks, AsksFor, rows, razorpay
<1> QED  BY <1>2, <1>3, <1>4 DEF Invariant

\* A handler reads a live plan, or one that its ended autopay leaves behind.
LEMMA ReceiveStep ==
    ASSUME Invariant, NEW r \in Requests, receivePastDue(r) \/ receiveEnd(r) PROVE Invariant'
<1>1. PICK s \in {"pastDue", "end"} : req' = [req EXCEPT ![r] = [next |-> s]]
    BY DEF receivePastDue, receiveEnd
<1>2. UNCHANGED <<rows, razorpay, windowStart, histories, faults>> /\ sub # "CANCELED"
    BY DEF receivePastDue, receiveEnd
<1>3. /\ req' \in [Requests -> Request] /\ req'[r].next \in {"pastDue", "end"}
      /\ \A q \in Requests : q # r => req'[q] = req[q]
    BY <1>1, RequestForms DEF Invariant, Columns
<1>4. Columns'  BY <1>2, <1>3 DEF Invariant, Columns, rows, razorpay
<1>5. PaidIsRecorded' /\ PlanBacked'
  <2>1. PaidFor  BY <1>2 DEF Invariant, PlanBacked, LivePlanIsPaidFor, PaidFor
  <2> QED  BY <1>2, <2>1 DEF Invariant, PaidIsRecorded, PlanBacked, LivePlanIsPaidFor,
                           PaidFor, Paid, rows, razorpay
<1>6. Rows'  BY <1>2 DEF Invariant, Rows, RowOf, rows, razorpay
<1>7. Holders'
  <2>1. \A q \in Requests : \A f \in Refunds : Holds(q, f)' => q # r /\ Holds(q, f)
      BY <1>3 DEF Holds
  <2> QED  BY <1>2, <1>3, <2>1 DEF Invariant, Holders, HolderOf, rows, razorpay
<1>8. Asks'
  <2>1. \A f \in Refunds : refund'[f].payment = refund[f].payment  BY <1>2 DEF rows
  <2> QED  BY <1>2, <1>3, <2>1, AsksKept DEF razorpay
<1> QED  BY <1>4, <1>5, <1>6, <1>7, <1>8 DEF Invariant

\* What such a handler writes: what paid for the plan it read still does, or the
\* refund that took it away noticed the handler.
LEMMA WriteSubStep ==
    ASSUME Invariant, NEW r \in Requests,
           markSubscriptionPastDue(r) \/ endGatewaySubscription(r)
    PROVE  Invariant'
<1>1. /\ Finish(r) /\ UNCHANGED <<paid, refund, given, razorpay, windowStart, histories, faults>>
      /\ \/ req[r].next = "pastDue" /\ sub' = "PAST_DUE"
         \/ sub' = "CANCELED"
    BY DEF markSubscriptionPastDue, endGatewaySubscription, At
<1>2. /\ req' \in [Requests -> Request] /\ req'[r].next = "idle"
      /\ \A q \in Requests : q # r => req'[q] = req[q]
    BY <1>1, Finishes DEF Invariant
<1>3. Columns'  BY <1>1, <1>2 DEF Invariant, Columns, razorpay
<1>4. PaidIsRecorded' /\ PlanBacked'
  <2>1. PaidIsRecorded'  BY <1>1 DEF Invariant, PaidIsRecorded, Paid, razorpay
  <2>2. PaidFor' <=> PaidFor  BY <1>1 DEF PaidFor, Paid
  <2>3. sub' # "CANCELED" => PaidFor  BY <1>1 DEF Invariant, PlanBacked
  <2>4. \A q \in Requests : req'[q].next = "pastDue" => PaidFor
      BY <1>2 DEF Invariant, PlanBacked
  <2> QED  BY <2>1, <2>2, <2>3, <2>4 DEF PlanBacked, PaidFor, LivePlanIsPaidFor
<1>5. Rows'  BY <1>1 DEF Invariant, Rows, RowOf, razorpay
<1>6. Holders' /\ Asks'  BY <1>1, <1>2, OthersKeep DEF razorpay
<1> QED  BY <1>3, <1>4, <1>5, <1>6 DEF Invariant

-----------------------------------------------------------------------------
(* The seller asks.                                                         *)

LEMMA AskStep ==
    ASSUME Invariant, NEW r \in Requests, requestRefund(r) PROVE Invariant'
<1>1. PICK i \in DOMAIN paid :
          /\ IsCandidate(i)
          /\ req' = [req EXCEPT ![r] = [next |-> "insert", payment |-> paid[i]]]
          /\ overlapped' = IF \E q \in Requests : At(q, "insert") /\ req[q].payment = paid[i]
                           THEN overlapped \cup {paid[i]} ELSE overlapped
    BY DEF requestRefund
<1> DEFINE p == paid[i]
<1>2. p \in Payments  BY DEF Invariant, Columns
<1>3. p \in Paid /\ RefundsOf(p) = {}  BY <1>1 DEF Paid, IsCandidate, Refundable
<1>4. UNCHANGED <<rows, razorpay, windowStart, crossed, faults>> /\ req[r].next = "idle"
    BY DEF requestRefund, At
<1>5. /\ req'[r].next = "insert" /\ req'[r].payment = p
      /\ \A q \in Requests : q # r => req'[q] = req[q]
    BY <1>1 DEF Invariant, Columns
<1>6. Columns'
  <2>1. req' \in [Requests -> Request]  BY <1>1, <1>2, RequestForms DEF Invariant, Columns
  <2> QED  BY <1>1, <1>2, <1>4, <2>1 DEF Invariant, Columns, rows, razorpay
<1>7. PaidIsRecorded' /\ PlanBacked'
    BY <1>4, <1>5, PaidStays DEF Invariant, rows, razorpay
<1>8. Rows'  BY <1>4 DEF Invariant, Rows, RowOf, rows, razorpay
<1>9. Holders'
  <2>1. \A q \in Requests : \A f \in Refunds : Holds(q, f)' => q # r /\ Holds(q, f)
      BY <1>5 DEF Holds
  <2> QED  BY <1>4, <1>5, <2>1 DEF Invariant, Holders, HolderOf, rows, razorpay
<1>10. Asks'
  <2>1. charge[p] = "recorded"  BY <1>2, <1>3 DEF Invariant, PaidIsRecorded
  <2>2. \A q \in Requests : \A a \in Payments :
            AsksFor(q, a)' => (IF q = r THEN a = p ELSE AsksFor(q, a))
      BY <1>5 DEF AsksFor
  <2>3. overlapped \subseteq overlapped'  BY <1>1
  <2>4. p \notin overlapped' => \A q \in Requests : ~AsksFor(q, p)
      BY <1>1 DEF At, AsksFor
  <2>5. \A f \in Refunds : refund[f].payment # p  BY <1>3 DEF RefundsOf
  <2>6. UNCHANGED <<refund, charge>>  BY <1>4 DEF rows, razorpay
  <2>7. \A q \in Requests : \A a \in Payments : AsksFor(q, a)' => charge'[a] = "recorded"
      BY <2>1, <2>2, <2>6 DEF Invariant, Asks
  <2>8. ASSUME NEW a \in Payments \ overlapped', NEW q \in Requests, AsksFor(q, a)'
        PROVE  /\ \A f \in Refunds : refund[f].payment # a
               /\ \A s \in Requests : AsksFor(s, a)' => s = q
    <3>1. CASE a = p  BY <2>2, <2>4, <2>5, <2>8, <3>1
    <3>2. CASE a # p  BY <2>2, <2>3, <2>8, <3>2 DEF Invariant, Asks
    <3> QED  BY <3>1, <3>2
  <2>9. \A a \in Payments \ overlapped' : \A f, g \in Refunds :
            refund[f].payment = a /\ refund[g].payment = a => f = g
      BY <2>3 DEF Invariant, Asks
  <2> HIDE DEF p
  <2> QED  BY <2>6, <2>7, <2>8, <2>9 DEF Asks
<1> QED  BY <1>6, <1>7, <1>8, <1>9, <1>10 DEF Invariant

LEMMA InsertStep ==
    ASSUME Invariant, NEW r \in Requests, insertRequest(r) PROVE Invariant'
<1>1. PICK f \in Refunds :
          /\ refund[f].status = "absent"
          /\ refund' = [refund EXCEPT ![f].payment = req[r].payment, ![f].status = "REQUESTED"]
    BY DEF insertRequest
<1> DEFINE p == req[r].payment
<1>2. UNCHANGED <<paid, sub, given, razorpay, windowStart, histories, faults>>
      /\ req[r].next = "insert" /\ Finish(r)
    BY DEF insertRequest, At
<1>3. p \in Payments /\ p # NoPayment /\ AsksFor(r, p)
  <2>1. req[r] \in Request  BY DEF Invariant, Columns
  <2> QED  BY <1>2, <2>1, RequestForms, RefundAssumption DEF AsksFor
<1>4. req' \in [Requests -> Request] /\ req'[r].next = "idle"
      /\ \A q \in Requests : q # r => req'[q] = req[q]
    BY <1>2, Finishes DEF Invariant
<1>5. refund[f].payment = NoPayment /\ ~refund[f].stored
      /\ gateway[f] = "none" /\ notice[f] = "unsent"
      /\ \A a \in Payments : f \notin given[a]
  <2>1. RowOf(f)  BY DEF Invariant, Rows
  <2>2. gateway[f] \in {"none", "made", "failed"} /\ refund[f].stored \in BOOLEAN
      BY DEF Invariant, Columns
  <2> QED  BY <1>1, <2>1, <2>2, RefundAssumption DEF RowOf
<1>6. /\ refund'[f] = [payment |-> p, status |-> "REQUESTED", stored |-> FALSE]
      /\ \A g \in Refunds : g # f => refund'[g] = refund[g]
    BY <1>1, <1>5 DEF Invariant, Columns
<1>7. Columns'
  <2>1. refund' \in [Refunds -> [payment : Payments \cup {NoPayment},
                                 status : Statuses, stored : BOOLEAN]]
      BY <1>1, <1>3 DEF Invariant, Columns, Statuses
  <2> QED  BY <1>2, <1>4, <2>1 DEF Invariant, Columns, razorpay
<1>8. PaidIsRecorded' /\ PlanBacked'
    BY <1>2, <1>4, PaidStays DEF Invariant, razorpay
<1>9. Rows'
  <2> SUFFICES ASSUME NEW g \in Refunds PROVE RowOf(g)'  BY DEF Rows
  <2>1. CASE g = f
    <3>1. charge[p] = "recorded"  BY <1>3 DEF Invariant, Asks
    <3> QED  BY <1>2, <1>3, <1>5, <1>6, <2>1, <3>1 DEF RowOf, razorpay
  <2>2. CASE g # f
    <3>1. RowOf(g)  BY DEF Invariant, Rows
    <3> QED  BY <1>2, <1>6, <2>2, <3>1 DEF RowOf, razorpay
  <2> QED  BY <2>1, <2>2
<1>10. Holders'
  <2>1. \A q \in Requests : \A g \in Refunds : Holds(q, g)' => q # r /\ Holds(q, g)
      BY <1>4 DEF Holds
  <2>2. \A q \in Requests : ~Holds(q, f)
      BY <1>1 DEF Invariant, Holders, HolderOf
  <2> SUFFICES ASSUME NEW q \in Requests, NEW g \in Refunds, Holds(q, g)'
               PROVE  HolderOf(q, g)'
      BY DEF Holders
  <2>3. q # r /\ Holds(q, g) /\ g # f  BY <2>1, <2>2
  <2>4. HolderOf(q, g)  BY <2>3 DEF Invariant, Holders
  <2>5. refund'[g] = refund[g] /\ req'[q] = req[q] /\ gateway' = gateway
      BY <1>2, <1>4, <1>6, <2>3 DEF razorpay
  <2>6. \A s \in Requests : Holds(s, g)' => s = q  BY <2>1, <2>4 DEF HolderOf
  <2> QED  BY <2>4, <2>5, <2>6 DEF HolderOf
<1>11. Asks'
  <2>1. \A q \in Requests : \A a \in Payments : AsksFor(q, a)' => q # r /\ AsksFor(q, a)
      BY <1>4 DEF AsksFor
  <2>2. UNCHANGED <<charge, overlapped>>  BY <1>2 DEF razorpay
  <2>3. p \notin overlapped =>
            /\ \A g \in Refunds : refund[g].payment # p
            /\ \A q \in Requests : AsksFor(q, p) => q = r
      BY <1>3 DEF Invariant, Asks
  <2>4. \A g \in Refunds : refund'[g].payment = IF g = f THEN p ELSE refund[g].payment
      BY <1>6
  <2>5. ASSUME NEW a \in Payments \ overlapped, NEW q \in Requests, AsksFor(q, a)'
        PROVE  /\ \A g \in Refunds : refund'[g].payment # a
               /\ \A s \in Requests : AsksFor(s, a)' => s = q
      BY <2>1, <2>3, <2>4, <2>5 DEF Invariant, Asks
  <2>6. ASSUME NEW a \in Payments \ overlapped, NEW g \in Refunds, NEW h \in Refunds,
               refund'[g].payment = a, refund'[h].payment = a
        PROVE  g = h
      BY <2>3, <2>4, <2>6 DEF Invariant, Asks
  <2> HIDE DEF p
  <2> QED  BY <2>1, <2>2, <2>5, <2>6 DEF Invariant, Asks
<1> QED  BY <1>7, <1>8, <1>9, <1>10, <1>11 DEF Invariant

-----------------------------------------------------------------------------
(* The administrator decides.                                               *)

\* A row nobody holds takes a new status.
LEMMA RejectStep ==
    ASSUME Invariant, NEW f \in Refunds, rejectRefund(f) PROVE Invariant'
<1>1. /\ refund[f].status = "REQUESTED" /\ SetStatus(f, "REJECTED")
      /\ UNCHANGED <<paid, sub, given, razorpay, windowStart, req, histories, faults>>
    BY DEF rejectRefund
<1>2. /\ refund' \in [Refunds -> [payment : Payments \cup {NoPayment},
                                  status : Statuses, stored : BOOLEAN]]
      /\ refund'[f].status = "REJECTED"
      /\ refund'[f].payment = refund[f].payment /\ refund'[f].stored = refund[f].stored
      /\ \A g \in Refunds : g # f => refund'[g] = refund[g]
    BY <1>1, StatusIsSet DEF Invariant, Statuses
<1>3. Columns'  BY <1>1, <1>2 DEF Invariant, Columns, razorpay
<1>4. PaidIsRecorded' /\ PlanBacked'
    BY <1>1, PaidStays DEF Invariant, razorpay
<1>5. Rows'  BY <1>1, <1>2 DEF Invariant, Rows, RowOf, razorpay
<1>6. Holders'
  <2>1. \A r \in Requests : ~Holds(r, f)  BY <1>1 DEF Invariant, Holders, HolderOf
  <2> QED  BY <1>1, <1>2, <2>1 DEF Invariant, Holders, HolderOf, Holds, razorpay
<1>7. Asks'  BY <1>1, <1>2 DEF Invariant, Asks, AsksFor, razorpay
<1> QED  BY <1>3, <1>4, <1>5, <1>6, <1>7 DEF Invariant

LEMMA ApproveStep ==
    ASSUME Invariant, NEW r \in Requests, NEW f \in Refunds, approveRefund(r, f)
    PROVE  Invariant'
<1>1. /\ req[r].next = "idle" /\ refund[f].status = "REQUESTED"
      /\ SetStatus(f, "APPROVED")
      /\ req' = [req EXCEPT ![r] = [next |-> "call", refund |-> f]]
      /\ UNCHANGED <<paid, sub, given, razorpay, windowStart, histories, faults>>
    BY DEF approveRefund, At
<1>2. /\ refund' \in [Refunds -> [payment : Payments \cup {NoPayment},
                                  status : Statuses, stored : BOOLEAN]]
      /\ refund'[f].status = "APPROVED"
      /\ refund'[f].payment = refund[f].payment /\ refund'[f].stored = refund[f].stored
      /\ \A g \in Refunds : g # f => refund'[g] = refund[g]
    BY <1>1, StatusIsSet DEF Invariant, Statuses
<1>3. /\ req' \in [Requests -> Request]
      /\ req'[r].next = "call" /\ req'[r].refund = f
      /\ \A q \in Requests : q # r => req'[q] = req[q]
    BY <1>1, RequestForms DEF Invariant, Columns
<1>4. Columns'  BY <1>1, <1>2, <1>3 DEF Invariant, Columns, razorpay
<1>5. PaidIsRecorded' /\ PlanBacked'
    BY <1>1, <1>3, PaidStays DEF Invariant, razorpay
<1>6. Rows'  BY <1>1, <1>2 DEF Invariant, Rows, RowOf, razorpay
<1>7. Holders'
  <2>1. \A q \in Requests : ~Holds(q, f)  BY <1>1 DEF Invariant, Holders, HolderOf
  <2>2. \A q \in Requests : \A g \in Refunds :
            Holds(q, g)' => IF q = r THEN g = f ELSE Holds(q, g) /\ g # f
      BY <1>3, <2>1 DEF Holds
  <2>3. gateway[f] = "none" /\ ~refund[f].stored
    <3>1. RowOf(f)  BY DEF Invariant, Rows
    <3> QED  BY <1>1, <3>1 DEF RowOf, Invariant, Columns
  <2> SUFFICES ASSUME NEW q \in Requests, NEW g \in Refunds, Holds(q, g)'
               PROVE  HolderOf(q, g)'
      BY DEF Holders
  <2>4. gateway' = gateway  BY <1>1 DEF razorpay
  <2>5. CASE q = r  BY <1>2, <1>3, <2>2, <2>3, <2>4, <2>5 DEF HolderOf
  <2>6. CASE q # r
    <3>1. Holds(q, g) /\ g # f /\ HolderOf(q, g)
        BY <2>2, <2>6 DEF Invariant, Holders
    <3>2. \A s \in Requests : Holds(s, g)' => s = q  BY <2>2, <3>1 DEF HolderOf
    <3> QED  BY <1>2, <1>3, <2>4, <2>6, <3>1, <3>2 DEF HolderOf
  <2> QED  BY <2>5, <2>6
<1>8. Asks'
  <2>1. \A g \in Refunds : refund'[g].payment = refund[g].payment  BY <1>2
  <2> QED  BY <1>1, <1>3, <2>1, AsksKept DEF razorpay
<1> QED  BY <1>4, <1>5, <1>6, <1>7, <1>8 DEF Invariant

\* Whoever holds a row holds it alone, and finds it as the approval left it.
LEMMA HolderKnows ==
    ASSUME Invariant, NEW r \in Requests, req[r].next \in {"call", "record", "refused"}
    PROVE  /\ req[r].refund \in Refunds
           /\ HolderOf(r, req[r].refund) /\ RowOf(req[r].refund)
           /\ refund[req[r].refund].payment \in Payments
           /\ notice[req[r].refund] # "matched"
<1>1. req[r] \in Request  BY DEF Invariant, Columns
<1>2. req[r].refund \in Refunds  BY <1>1, RequestForms
<1>3. Holds(r, req[r].refund)  BY DEF Holds
<1>4. HolderOf(r, req[r].refund) /\ RowOf(req[r].refund)
    BY <1>2, <1>3 DEF Invariant, Holders, Rows
<1>5. refund[req[r].refund].payment \in Payments \cup {NoPayment}
    BY <1>2 DEF Invariant, Columns
<1> QED  BY <1>2, <1>4, <1>5 DEF HolderOf, RowOf

\* putBack and markFailed: the approval ends and its row takes a status.
LEMMA GiveUpStep ==
    ASSUME Invariant, NEW r \in Requests, putBack(r) \/ markFailed(r) PROVE Invariant'
<1> DEFINE f == req[r].refund
<1>1. PICK s \in {"REQUESTED", "FAILED"} :
          /\ SetStatus(f, s)
          /\ s = "REQUESTED" => req[r].next = "call"
    BY DEF putBack, markFailed, At
<1>2. /\ req[r].next \in {"call", "refused"} /\ Finish(r)
      /\ UNCHANGED <<paid, sub, given, razorpay, windowStart, histories, faults>>
    BY DEF putBack, markFailed, At
<1>3. f \in Refunds /\ HolderOf(r, f) /\ RowOf(f) /\ notice[f] # "matched"
    BY <1>2, HolderKnows
<1>4. /\ refund' \in [Refunds -> [payment : Payments \cup {NoPayment},
                                  status : Statuses, stored : BOOLEAN]]
      /\ refund'[f].status = s
      /\ refund'[f].payment = refund[f].payment /\ refund'[f].stored = refund[f].stored
      /\ \A g \in Refunds : g # f => refund'[g] = refund[g]
    BY <1>1, <1>3, StatusIsSet DEF Invariant, Statuses
<1>5. /\ req' \in [Requests -> Request] /\ req'[r].next = "idle"
      /\ \A q \in Requests : q # r => req'[q] = req[q]
    BY <1>2, Finishes DEF Invariant
<1>6. Columns'  BY <1>2, <1>4, <1>5 DEF Invariant, Columns, razorpay
<1>7. PaidIsRecorded' /\ PlanBacked'
    BY <1>2, <1>5, PaidStays DEF Invariant, razorpay
<1>8. Rows'
  <2> SUFFICES ASSUME NEW g \in Refunds PROVE RowOf(g)'  BY DEF Rows
  <2>1. UNCHANGED <<charge, gateway, notice, given>>  BY <1>2 DEF razorpay
  <2>2. CASE g = f
      BY <1>1, <1>3, <1>4, <2>1, <2>2 DEF RowOf, HolderOf
  <2>3. CASE g # f
    <3>1. RowOf(g)  BY DEF Invariant, Rows
    <3> QED  BY <1>4, <2>1, <2>3, <3>1 DEF RowOf
  <2> QED  BY <2>2, <2>3
<1>9. Holders'
  <2> SUFFICES ASSUME NEW q \in Requests, NEW g \in Refunds, Holds(q, g)'
               PROVE  HolderOf(q, g)'
      BY DEF Holders
  <2>1. \A t \in Requests : \A h \in Refunds : Holds(t, h)' => t # r /\ Holds(t, h)
      BY <1>5 DEF Holds
  <2>2. q # r /\ Holds(q, g) /\ HolderOf(q, g) /\ g # f
      BY <1>3, <2>1 DEF Invariant, Holders, HolderOf
  <2>3. refund'[g] = refund[g] /\ req'[q] = req[q] /\ gateway' = gateway
      BY <1>2, <1>4, <1>5, <2>2 DEF razorpay
  <2>4. \A t \in Requests : Holds(t, g)' => t = q  BY <2>1, <2>2 DEF HolderOf
  <2> QED  BY <2>2, <2>3, <2>4 DEF HolderOf
<1>10. Asks'
  <2>1. \A g \in Refunds : refund'[g].payment = refund[g].payment  BY <1>4
  <2> HIDE DEF f
  <2> QED  BY <1>2, <1>5, <2>1, AsksKept DEF razorpay
<1> QED  BY <1>6, <1>7, <1>8, <1>9, <1>10 DEF Invariant

\* An approval that goes on keeps its row: what is left to show is what Razorpay
\* now says about it.
LEMMA ApprovalGoesOn ==
    ASSUME Invariant, NEW r \in Requests, NEW s \in {"record", "refused"},
           req[r].next = "call", Go(r, s),
           UNCHANGED <<rows, charge, autopay, notice, windowStart, histories>>,
           faults' \in 0 .. MaxFaults,
           \/ gateway' = gateway /\ (s = "refused" \/ ~AtRazorpay(r))
           \/ gateway' = [gateway EXCEPT ![req[r].refund] = "made"]
    PROVE  Invariant'
<1> DEFINE f == req[r].refund
<1>1. f \in Refunds /\ HolderOf(r, f) /\ RowOf(f)  BY HolderKnows
<1>2. gateway[f] = "none" /\ refund[f].status = "APPROVED"  BY <1>1 DEF HolderOf
<1>3. /\ req' \in [Requests -> Request]
      /\ req'[r].next = s /\ req'[r].refund = f
      /\ \A q \in Requests : q # r => req'[q] = req[q]
    BY GoesOn DEF Invariant
<1>4. /\ \A g \in Refunds : g # f => gateway'[g] = gateway[g]
      /\ gateway'[f] \in {"none", "made"} /\ (s = "record" => gateway'[f] = "made" \/ refund[f].payment \in ByHand)
      /\ gateway' \in [Refunds -> {"none", "made", "failed"}]
    BY <1>1, <1>2 DEF Invariant, Columns, AtRazorpay
<1>5. Columns'  BY <1>3, <1>4 DEF Invariant, Columns, rows
<1>6. PaidIsRecorded' /\ PlanBacked'
    BY <1>3, PaidStays DEF Invariant, rows
<1>7. Rows'
  <2> SUFFICES ASSUME NEW g \in Refunds PROVE RowOf(g)'  BY DEF Rows
  <2>1. UNCHANGED <<charge, refund, notice, given>>  BY DEF rows
  <2>2. CASE g = f
      BY <1>1, <1>2, <1>4, <2>1, <2>2 DEF RowOf
  <2>3. CASE g # f
    <3>1. RowOf(g)  BY DEF Invariant, Rows
    <3> QED  BY <1>4, <2>1, <2>3, <3>1 DEF RowOf
  <2> QED  BY <2>2, <2>3
<1>8. Holders'
  <2> SUFFICES ASSUME NEW q \in Requests, NEW g \in Refunds, Holds(q, g)'
               PROVE  HolderOf(q, g)'
      BY DEF Holders
  <2>1. \A t \in Requests : \A h \in Refunds :
            Holds(t, h)' => IF t = r THEN h = f ELSE Holds(t, h) /\ h # f
    <3>1. \A t \in Requests : Holds(t, f) => t = r  BY <1>1 DEF HolderOf
    <3> QED  BY <1>3, <3>1 DEF Holds
  <2>2. refund' = refund  BY DEF rows
  <2>3. CASE q = r
    <3>1. g = f  BY <2>1, <2>3
    <3>2. \A t \in Requests : Holds(t, g)' => t = q  BY <2>1, <2>3, <3>1
    <3> QED  BY <1>1, <1>3, <1>4, <2>2, <2>3, <3>1, <3>2 DEF HolderOf
  <2>4. CASE q # r
    <3>1. Holds(q, g) /\ g # f /\ HolderOf(q, g)
        BY <2>1, <2>4 DEF Invariant, Holders
    <3>2. \A t \in Requests : Holds(t, g)' => t = q  BY <2>1, <3>1 DEF HolderOf
    <3> QED  BY <1>3, <1>4, <2>2, <2>4, <3>1, <3>2 DEF HolderOf
  <2> QED  BY <2>3, <2>4
<1>9. Asks'
  <2>1. \A g \in Refunds : refund'[g].payment = refund[g].payment  BY DEF rows
  <2> HIDE DEF f
  <2> QED  BY <1>3, <2>1, AsksKept
<1> QED  BY <1>5, <1>6, <1>7, <1>8, <1>9 DEF Invariant

LEMMA GatewayStep ==
    ASSUME Invariant, NEW r \in Requests,
           refundByHand(r) \/ refundGatewayPayment(r) \/ gatewayRefuses(r) \/ answerLost(r)
    PROVE  Invariant'
<1>1. faults \in 0 .. MaxFaults /\ MaxFaults \in Nat
    BY RefundAssumption DEF Invariant, Columns
<1>2. CASE refundGatewayPayment(r)
    BY <1>1, <1>2, ApprovalGoesOn DEF refundGatewayPayment, At
<1>3. CASE gatewayRefuses(r)
    BY <1>1, <1>3, ApprovalGoesOn DEF gatewayRefuses, At, razorpay
<1>4. CASE answerLost(r)
  <2>1. faults' \in 0 .. MaxFaults  BY <1>1, <1>4 DEF answerLost, Fault
  <2> QED  BY <1>4, <2>1, ApprovalGoesOn DEF answerLost, At
<1>5. CASE refundByHand(r)
    BY <1>1, <1>5, ApprovalGoesOn DEF refundByHand, At, razorpay
<1> QED  BY <1>2, <1>3, <1>4, <1>5

\* recordRefund: the money is booked on the request's own payment.
LEMMA BookStep ==
    ASSUME Invariant, NEW r \in Requests, recordRefund(r) PROVE Invariant'
<1> DEFINE f == req[r].refund
           p == refund[f].payment
<1>1. /\ req[r].next = "record" /\ Go(r, "stop")
      /\ refund' = [refund EXCEPT ![f].status = "REFUNDED", ![f].stored = AtRazorpay(r)]
      /\ given' = [given EXCEPT ![p] = @ \cup {f}]
      /\ sub' = "CANCELED" /\ crossed' = (\E q \in Requests : At(q, "pastDue"))
      /\ UNCHANGED <<paid, razorpay, windowStart, overlapped, faults>>
    BY DEF recordRefund, At
<1>2. f \in Refunds /\ p \in Payments /\ HolderOf(r, f) /\ RowOf(f) /\ notice[f] # "matched"
    BY <1>1, HolderKnows
<1>3. /\ refund' \in [Refunds -> [payment : Payments \cup {NoPayment},
                                  status : Statuses, stored : BOOLEAN]]
      /\ refund'[f].status = "REFUNDED" /\ refund'[f].stored = (p \notin ByHand)
      /\ refund'[f].payment = p
      /\ \A g \in Refunds : g # f => refund'[g] = refund[g]
    BY <1>1, <1>2 DEF Invariant, Columns, Statuses, AtRazorpay
<1>4. /\ given' \in [Payments -> SUBSET Refunds]
      /\ given'[p] = given[p] \cup {f}
      /\ \A a \in Payments : a # p => given'[a] = given[a]
    BY <1>1, <1>2 DEF Invariant, Columns
<1>5. /\ req' \in [Requests -> Request] /\ req'[r].next = "stop"
      /\ \A q \in Requests : q # r => req'[q] = req[q]
    BY <1>1, GoesOn DEF Invariant
<1>6. Columns'  BY <1>1, <1>3, <1>4, <1>5 DEF Invariant, Columns, razorpay
<1>7. PaidIsRecorded' /\ PlanBacked'
    BY <1>1, <1>5 DEF Invariant, PaidIsRecorded, Paid, PlanBacked, PaidFor, LivePlanIsPaidFor, At, razorpay
<1>8. Rows'
  <2> SUFFICES ASSUME NEW g \in Refunds PROVE RowOf(g)'  BY DEF Rows
  <2>1. UNCHANGED <<charge, gateway, notice>>  BY <1>1 DEF razorpay
  <2>2. CASE g = f
    <3>1. p \in ByHand \/ gateway[f] # "none"  BY <1>1, <1>2 DEF HolderOf
    <3>2. \A a \in Payments : f \in given'[a] => a = p
        BY <1>2, <1>4 DEF RowOf
    <3>3. charge[p] = "recorded" /\ p # NoPayment  BY <1>2, RefundAssumption DEF RowOf
    <3> QED  BY <1>2, <1>3, <1>4, <2>1, <2>2, <3>1, <3>2, <3>3 DEF RowOf
  <2>3. CASE g # f
    <3>1. RowOf(g)  BY DEF Invariant, Rows
    <3>2. \A a \in Payments : g \in given'[a] <=> g \in given[a]  BY <1>4, <2>3
    <3>3. refund[g].payment \in Payments \cup {NoPayment}
          /\ (refund[g].status = "REFUNDED" => refund[g].payment \in Payments)
        BY <3>1 DEF Invariant, Columns, RowOf
    <3>4. refund'[g] = refund[g]  BY <1>3, <2>3
    <3> HIDE DEF f, p
    <3> QED  BY <2>1, <3>1, <3>2, <3>3, <3>4 DEF RowOf
  <2> QED  BY <2>2, <2>3
<1>9. Holders'
  <2> SUFFICES ASSUME NEW q \in Requests, NEW g \in Refunds, Holds(q, g)'
               PROVE  HolderOf(q, g)'
      BY DEF Holders
  <2>1. \A t \in Requests : \A h \in Refunds : Holds(t, h)' => t # r /\ Holds(t, h)
      BY <1>5 DEF Holds
  <2>2. q # r /\ Holds(q, g) /\ HolderOf(q, g) /\ g # f
      BY <1>2, <2>1 DEF Invariant, Holders, HolderOf
  <2>3. refund'[g] = refund[g] /\ req'[q] = req[q] /\ gateway' = gateway
      BY <1>1, <1>3, <1>5, <2>2 DEF razorpay
  <2>4. \A t \in Requests : Holds(t, g)' => t = q  BY <2>1, <2>2 DEF HolderOf
  <2> QED  BY <2>2, <2>3, <2>4 DEF HolderOf
<1>10. Asks'
  <2>1. \A g \in Refunds : refund'[g].payment = refund[g].payment  BY <1>3
  <2> HIDE DEF f, p
  <2> QED  BY <1>1, <1>5, <2>1, AsksKept DEF razorpay
<1> QED  BY <1>6, <1>7, <1>8, <1>9, <1>10 DEF Invariant

\* stopAutopay, and the requests that end without a word.
LEMMA EndStep ==
    ASSUME Invariant, NEW r \in Requests, Finish(r),
           UNCHANGED <<rows, charge, gateway, notice, windowStart, histories>>,
           autopay' \in BOOLEAN, faults' \in 0 .. MaxFaults
    PROVE  Invariant'
<1>1. /\ req' \in [Requests -> Request] /\ req'[r].next = "idle"
      /\ \A q \in Requests : q # r => req'[q] = req[q]
    BY Finishes DEF Invariant
<1>2. Columns'  BY <1>1 DEF Invariant, Columns, rows
<1>3. PaidIsRecorded' /\ PlanBacked'
    BY <1>1, PaidStays DEF Invariant, rows
<1>4. Rows'  BY DEF Invariant, Rows, RowOf, rows
<1>5. Holders' /\ Asks'  BY <1>1, OthersKeep DEF rows
<1> QED  BY <1>2, <1>3, <1>4, <1>5 DEF Invariant

LEMMA EndSteps ==
    ASSUME Invariant, NEW r \in Requests,
           stopAutopay(r) \/ processDies(r) \/ stopAutopayFails(r)
    PROVE  Invariant'
<1>1. faults \in 0 .. MaxFaults /\ autopay \in BOOLEAN /\ MaxFaults \in Nat
    BY RefundAssumption DEF Invariant, Columns
<1>2. CASE stopAutopay(r)  BY <1>1, <1>2, EndStep DEF stopAutopay
<1>3. CASE processDies(r)  BY <1>1, <1>3, EndStep DEF processDies, Fault, razorpay
<1>4. CASE stopAutopayFails(r)  BY <1>1, <1>4, EndStep DEF stopAutopayFails, Fault, razorpay
<1> QED  BY <1>2, <1>3, <1>4

-----------------------------------------------------------------------------
(* A refund that fails later.                                               *)

LEMMA GatewayFailsStep ==
    ASSUME Invariant, NEW f \in Refunds, gatewayFails(f) PROVE Invariant'
<1>1. /\ gateway[f] = "made"
      /\ gateway' = [gateway EXCEPT ![f] = "failed"]
      /\ notice' = [notice EXCEPT ![f] = "due"]
      /\ UNCHANGED <<rows, charge, autopay, windowStart, req, histories, faults>>
    BY DEF gatewayFails
<1>2. /\ gateway'[f] = "failed" /\ notice'[f] = "due"
      /\ \A g \in Refunds : g # f => gateway'[g] = gateway[g] /\ notice'[g] = notice[g]
    BY <1>1 DEF Invariant, Columns
<1>3. Columns'  BY <1>1 DEF Invariant, Columns, rows
<1>4. PaidIsRecorded' /\ PlanBacked'
    BY <1>1, PaidStays DEF Invariant, rows
<1>5. Rows'
  <2> SUFFICES ASSUME NEW g \in Refunds PROVE RowOf(g)'  BY DEF Rows
  <2>1. RowOf(g)  BY DEF Invariant, Rows
  <2>2. UNCHANGED <<refund, given, charge>>  BY <1>1 DEF rows
  <2> QED  BY <1>1, <1>2, <2>1, <2>2 DEF RowOf
<1>6. Holders'
  <2>1. \A g \in Refunds : gateway'[g] = "none" <=> gateway[g] = "none"
      BY <1>1, <1>2
  <2> QED  BY <1>1, <2>1 DEF Invariant, Holders, HolderOf, Holds, rows
<1>7. Asks'  BY <1>1 DEF Invariant, Asks, AsksFor, rows
<1> QED  BY <1>3, <1>4, <1>5, <1>6, <1>7 DEF Invariant

LEMMA NoticeStep ==
    ASSUME Invariant, NEW f \in Refunds, markGatewayRefundFailed(f) PROVE Invariant'
<1>1. /\ notice[f] = "due"
      /\ UNCHANGED <<paid, sub, given, charge, autopay, gateway, windowStart, req, histories, faults>>
    BY DEF markGatewayRefundFailed
<1>2. RowOf(f) /\ gateway[f] = "failed"  BY <1>1 DEF Invariant, Rows, RowOf
<1>3. /\ refund' \in [Refunds -> [payment : Payments \cup {NoPayment},
                                  status : Statuses, stored : BOOLEAN]]
      /\ \A g \in Refunds : refund'[g].payment = refund[g].payment
                            /\ refund'[g].stored = refund[g].stored
      /\ \A g \in Refunds : g # f => refund'[g] = refund[g]
      /\ refund[f].stored => refund'[f].status = "FAILED" /\ notice'[f] = "matched"
      /\ ~refund[f].stored => refund'[f] = refund[f] /\ notice'[f] = "unmatched"
  <2>1. CASE refund[f].stored
    <3>1. SetStatus(f, "FAILED") /\ notice' = [notice EXCEPT ![f] = "matched"]
        BY <2>1 DEF markGatewayRefundFailed
    <3>2. notice'[f] = "matched"  BY <3>1 DEF Invariant, Columns
    <3>3. "FAILED" \in Statuses  BY DEF Statuses
    <3> QED  BY <2>1, <3>1, <3>2, <3>3, StatusIsSet DEF Invariant
  <2>2. CASE ~refund[f].stored
    <3>1. refund' = refund /\ notice' = [notice EXCEPT ![f] = "unmatched"]
        BY <2>2 DEF markGatewayRefundFailed
    <3> QED  BY <2>2, <3>1 DEF Invariant, Columns
  <2> QED  BY <2>1, <2>2
<1>4. /\ \A g \in Refunds : g # f => notice'[g] = notice[g]
      /\ notice' \in [Refunds -> {"unsent", "due", "matched", "unmatched"}]
  <2>1. notice' \in {[notice EXCEPT ![f] = "matched"], [notice EXCEPT ![f] = "unmatched"]}
      BY DEF markGatewayRefundFailed
  <2> QED  BY <2>1 DEF Invariant, Columns
<1>5. Columns'  BY <1>1, <1>3, <1>4 DEF Invariant, Columns
<1>6. PaidIsRecorded' /\ PlanBacked'  BY <1>1, PaidStays DEF Invariant
<1>7. Rows'
  <2> SUFFICES ASSUME NEW g \in Refunds PROVE RowOf(g)'  BY DEF Rows
  <2>1. CASE g = f  BY <1>1, <1>2, <1>3, <2>1 DEF RowOf
  <2>2. CASE g # f
    <3>1. RowOf(g)  BY DEF Invariant, Rows
    <3> QED  BY <1>1, <1>3, <1>4, <2>2, <3>1 DEF RowOf
  <2> QED  BY <2>1, <2>2
<1>8. Holders'
  <2> SUFFICES ASSUME NEW q \in Requests, NEW g \in Refunds, Holds(q, g)
               PROVE  HolderOf(q, g)'
      BY <1>1 DEF Holders, Holds
  <2>1. HolderOf(q, g)  BY DEF Invariant, Holders
  <2>2. refund'[g] = refund[g]  BY <1>3, <2>1 DEF HolderOf
  <2> QED  BY <1>1, <2>1, <2>2 DEF HolderOf, Holds
<1>9. Asks'  BY <1>1, <1>3 DEF Invariant, Asks, AsksFor
<1> QED  BY <1>5, <1>6, <1>7, <1>8, <1>9 DEF Invariant

LEMMA NoticeDiesStep ==
    ASSUME Invariant, NEW f \in Refunds, noticeDies(f) PROVE Invariant'
<1>1. /\ notice[f] = "due" /\ notice' = [notice EXCEPT ![f] = "unmatched"]
      /\ UNCHANGED <<rows, charge, autopay, gateway, windowStart, req, histories>>
    BY DEF noticeDies
<1>2. faults' \in 0 .. MaxFaults
    BY RefundAssumption DEF noticeDies, Fault, Invariant, Columns
<1>3. notice'[f] = "unmatched" /\ \A g \in Refunds : g # f => notice'[g] = notice[g]
    BY <1>1 DEF Invariant, Columns
<1>4. Columns'  BY <1>1, <1>2 DEF Invariant, Columns, rows
<1>5. PaidIsRecorded' /\ PlanBacked'
    BY <1>1, PaidStays DEF Invariant, rows
<1>6. Rows'
  <2> SUFFICES ASSUME NEW g \in Refunds PROVE RowOf(g)'  BY DEF Rows
  <2>1. RowOf(g)  BY DEF Invariant, Rows
  <2>2. UNCHANGED <<refund, given, charge>>  BY <1>1 DEF rows
  <2> QED  BY <1>1, <1>3, <2>1, <2>2 DEF RowOf
<1>7. Holders' /\ Asks'
    BY <1>1 DEF Invariant, Holders, HolderOf, Holds, Asks, AsksFor, rows
<1> QED  BY <1>4, <1>5, <1>6, <1>7 DEF Invariant

-----------------------------------------------------------------------------
(* The theorems.                                                            *)

LEMMA Inductive == Spec => []Invariant
<1>1. Init => Invariant
  <2> SUFFICES ASSUME Init PROVE Invariant  OBVIOUS
  <2> USE DEF Init
  <2>1. Columns
    <3>1. <<>> \in Seq(Payments)  OBVIOUS
    <3>2. 0 \in 0 .. MaxFaults  BY RefundAssumption
    <3>3. req \in [Requests -> Request]  BY RequestForms
    <3>4. refund \in [Refunds -> [payment : Payments \cup {NoPayment},
                                  status : Statuses, stored : BOOLEAN]]
        BY DEF Statuses
    <3>5. /\ charge \in [Payments -> {"none", "made", "recorded"}]
          /\ windowStart \in Nat \ {0}
          /\ sub \in {"ACTIVE", "PAST_DUE", "CANCELED"}
          /\ given \in [Payments -> SUBSET Refunds]
          /\ gateway \in [Refunds -> {"none", "made", "failed"}]
          /\ notice \in [Refunds -> {"unsent", "due", "matched", "unmatched"}]
          /\ overlapped \subseteq Payments
        OBVIOUS
    <3>6. autopay \in BOOLEAN /\ crossed \in BOOLEAN  OBVIOUS
    <3> QED  BY <3>1, <3>2, <3>3, <3>4, <3>5, <3>6 DEF Columns
  <2>2. Paid = {}  BY DEF Paid
  <2>3. PaidIsRecorded /\ PlanBacked
      BY <2>2, RequestForms DEF PaidIsRecorded, PlanBacked, PaidFor, LivePlanIsPaidFor
  <2>4. Rows  BY DEF Rows, RowOf
  <2>5. Holders /\ Asks
      BY RequestForms, RefundAssumption DEF Holders, Holds, Asks, AsksFor
  <2> QED  BY <2>1, <2>3, <2>4, <2>5 DEF Invariant
<1>2. Invariant /\ [Next]_vars => Invariant'
  <2> SUFFICES ASSUME Invariant, [Next]_vars PROVE Invariant'  OBVIOUS
  <2>1. CASE UNCHANGED vars
    <3>1. UNCHANGED <<rows, razorpay, windowStart, req, histories, faults>>
        BY <2>1 DEF vars
    <3>2. Columns'  BY <3>1 DEF Invariant, Columns, rows, razorpay
    <3>3. PaidIsRecorded' /\ PlanBacked'
        BY <3>1, PaidStays DEF Invariant, rows, razorpay
    <3>4. Rows' /\ Holders' /\ Asks'
        BY <3>1 DEF Invariant, Rows, RowOf, Holders, HolderOf, Holds, Asks, AsksFor, rows, razorpay
    <3> QED  BY <3>2, <3>3, <3>4 DEF Invariant
  <2>2. CASE Next
    <3>1. CASE windowMoves \/ autopayEnds \/ expireLapsedSubscriptions
        BY <3>1, WindowStep, AutopayEndsStep, ExpireStep
    <3>2. CASE \E p \in Payments : chargeCycle(p) \/ recordSubscriptionCharge(p) \/ enterByHand(p)
        BY <3>2, ChargeStep, RecordStep, EnterStep
    <3>3. CASE \E f \in Refunds :
                   rejectRefund(f) \/ gatewayFails(f) \/ markGatewayRefundFailed(f) \/ noticeDies(f)
        BY <3>3, RejectStep, GatewayFailsStep, NoticeStep, NoticeDiesStep
    <3>4. ASSUME NEW r \in Requests,
                 \/ requestRefund(r) \/ receivePastDue(r) \/ receiveEnd(r)
                 \/ \E f \in Refunds : approveRefund(r, f)
                 \/ RequestStep(r)
                 \/ processDies(r) \/ answerLost(r) \/ stopAutopayFails(r)
          PROVE  Invariant'
        BY <3>4, AskStep, ReceiveStep, ApproveStep, InsertStep, GatewayStep, GiveUpStep, BookStep,
           EndSteps, WriteSubStep
        DEF RequestStep
    <3> QED  BY <2>2, <3>1, <3>2, <3>3, <3>4 DEF Next
  <2> QED  BY <2>1, <2>2
<1> QED  BY <1>1, <1>2, PTL DEF Spec

\* The columns' types, and the state a request can be in.
THEOREM RefundTypes == Spec => []TypeOK
<1>1. Invariant => TypeOK  BY DEF Invariant, Columns, TypeOK
<1> QED  BY <1>1, Inductive, PTL

\* No money goes back for a request that is waiting or was rejected, whoever else
\* decides on it at the same time.
THEOREM OnlyApprovals == Spec => []OnlyApprovedIsRefunded
<1>1. Invariant => OnlyApprovedIsRefunded
    BY DEF Invariant, Rows, RowOf, OnlyApprovedIsRefunded
<1> QED  BY <1>1, Inductive, PTL

\* A payment counts as refunded exactly by the requests that were REFUNDED, and
\* each of those that was paid through Razorpay has a refund there.
THEOREM BookedIsBacked == Spec => []RefundedIsBacked
<1>1. Invariant => RefundedIsBacked
  <2> SUFFICES ASSUME Invariant, NEW f \in Refunds
               PROVE  /\ refund[f].status = "REFUNDED" =>
                            /\ f \in given[refund[f].payment]
                            /\ \/ refund[f].payment \in ByHand
                               \/ gateway[f] = "made"
                               \/ gateway[f] = "failed" /\ notice[f] \in {"due", "unmatched"}
                      /\ \A p \in Payments : f \in given[p] =>
                            refund[f].payment = p /\ refund[f].status \in {"REFUNDED", "FAILED"}
      BY DEF RefundedIsBacked
  <2>1. RowOf(f)  BY DEF Invariant, Rows
  <2>2. gateway[f] \in {"none", "made", "failed"}
        /\ notice[f] \in {"unsent", "due", "matched", "unmatched"}
      BY DEF Invariant, Columns
  <2> QED  BY <2>1, <2>2 DEF RowOf
<1> QED  BY <1>1, Inductive, PTL

\* A plan that is live, in grace too, has a payment nobody refunded or no payment
\* yet, whatever refunds, charges and events race, except when the report of a
\* failed renewal had read it live before the last refund was booked.
THEOREM LivePlansArePaid == Spec => []LivePlanIsPaidFor
<1>1. Invariant => LivePlanIsPaidFor  BY DEF Invariant, PlanBacked
<1> QED  BY <1>1, Inductive, PTL

\* The read before the insert keeps a payment to one request, except when two of
\* them overlap.
THEOREM OneRequest == Spec => []OneRequestUnlessOverlapped
<1>1. Invariant => OneRequestUnlessOverlapped
  <2> SUFFICES ASSUME Invariant, NEW p \in Payments \ overlapped
               PROVE  Cardinality(RefundsOf(p)) <= 1
      BY DEF OneRequestUnlessOverlapped
  <2>1. \A f, g \in RefundsOf(p) : f = g  BY DEF Invariant, Asks, RefundsOf
  <2>2. CASE RefundsOf(p) = {}  BY <2>2, FS_EmptySet
  <2>3. CASE RefundsOf(p) # {}
    <3>1. PICK f : RefundsOf(p) = {f}  BY <2>1, <2>3
    <3> QED  BY <3>1, FS_Singleton
  <2> QED  BY <2>2, <2>3
<1> QED  BY <1>1, Inductive, PTL
================================================================================
