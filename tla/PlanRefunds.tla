------------------------------- MODULE PlanRefunds -------------------------------
(***************************************************************************)
(* Refunds of plan payments (refund.service.ts): the seller asks within the  *)
(* refund window, an administrator approves or rejects, Razorpay gives the   *)
(* money back and the subscription ends.                                    *)
(*                                                                         *)
(* An approval is five queries and two calls of Razorpay, each its own step. *)
(* Razorpay may refuse, its answer may be lost, and it may report that a     *)
(* refund failed after all, before or after the id of that refund is stored. *)
(* Meanwhile the autopay that paid for the plan goes on charging, and the    *)
(* webhook's handlers of a failed renewal and of an ended autopay read the    *)
(* subscription and write it in two queries.  The tier that follows the      *)
(* subscription is in Subscriptions.                                        *)
(***************************************************************************)
EXTENDS Integers, Sequences, FiniteSets

CONSTANTS
    Payments,    \* payments of the seller's subscription
    ByHand,      \* those entered by hand, which have no gatewayPaymentId
    Refunds,     \* RefundRequest rows that may come to exist
    NoPayment,
    Requests,    \* actions and events handled at once
    MaxFaults    \* bound on dead processes, lost answers and failed calls

ASSUME RefundAssumption ==
    /\ IsFiniteSet(Payments) /\ IsFiniteSet(Refunds) /\ NoPayment \notin Payments
    /\ ByHand \subseteq Payments
    /\ MaxFaults \in Nat

VARIABLES
    charge,      \* Razorpay: charges made, and those the webhook recorded
    paid,        \* Payment rows in the order of paidAt
    windowStart, \* the rows from here on are inside the refund window
    autopay,     \* Razorpay: the subscription runs
    sub,         \* Subscription.status
    refund,      \* RefundRequest: payment, status, and whether gatewayRefundId is stored
    given,       \* Payment: the requests that were added to refundedMinor
    gateway,     \* Razorpay: the refund asked for by a request
    notice,      \* its refund.failed event
    req,         \* the requests in progress
    overlapped,  \* history: payments two requests asked about at the same time
    crossed,     \* history: as the last refund was booked, a failed renewal was
                 \* about to be written by a handler that had read the plan live
    faults       \* failures so far

rows == <<paid, sub, refund, given>>
razorpay == <<charge, autopay, gateway, notice>>
histories == <<overlapped, crossed>>
vars == <<rows, razorpay, windowStart, req, histories, faults>>

Statuses == {"absent", "REQUESTED", "APPROVED", "REJECTED", "REFUNDED", "FAILED"}
Idle == [next |-> "idle"]
Request == {Idle}
    \cup [next : {"insert"}, payment : Payments]
    \cup [next : {"call", "record", "refused", "stop"}, refund : Refunds]
    \cup [next : {"pastDue", "end"}]

Init ==
    /\ charge = [p \in Payments |-> "none"]
    /\ paid = <<>> /\ windowStart = 1
    /\ autopay = TRUE /\ sub = "ACTIVE"
    /\ refund = [f \in Refunds |-> [payment |-> NoPayment, status |-> "absent", stored |-> FALSE]]
    /\ given = [p \in Payments |-> {}]
    /\ gateway = [f \in Refunds |-> "none"]
    /\ notice = [f \in Refunds |-> "unsent"]
    /\ req = [r \in Requests |-> Idle]
    /\ overlapped = {} /\ crossed = FALSE
    /\ faults = 0

At(r, step) == req[r].next = step
Finish(r) == req' = [req EXCEPT ![r] = Idle]
Go(r, step) == req' = [req EXCEPT ![r].next = step]
Paid == {paid[i] : i \in DOMAIN paid}
RefundsOf(p) == {f \in Refunds : refund[f].payment = p}
SetStatus(f, status) == refund' = [refund EXCEPT ![f].status = status]
Fault == faults < MaxFaults /\ faults' = faults + 1

-----------------------------------------------------------------------------
(* The autopay.                                                             *)

chargeCycle(p) ==
    /\ p \notin ByHand
    /\ autopay /\ charge[p] = "none"
    /\ charge' = [charge EXCEPT ![p] = "made"]
    /\ UNCHANGED <<rows, autopay, gateway, notice, windowStart, req, histories, faults>>

\* recordSubscriptionCharge: the Payment row, and ACTIVE whatever the row was.
recordSubscriptionCharge(p) ==
    /\ charge[p] = "made"
    /\ charge' = [charge EXCEPT ![p] = "recorded"]
    /\ paid' = Append(paid, p)
    /\ sub' = "ACTIVE"
    /\ UNCHANGED <<refund, given, autopay, gateway, notice, windowStart, req, histories, faults>>

\* Paid by UPI transfer, and somebody enters the row.
enterByHand(p) ==
    /\ p \in ByHand /\ charge[p] = "none"
    /\ charge' = [charge EXCEPT ![p] = "recorded"]
    /\ paid' = Append(paid, p)
    /\ UNCHANGED <<sub, refund, given, autopay, gateway, notice, windowStart, req, histories, faults>>

\* All cycles are completed, or the seller's cancellation takes effect.
autopayEnds ==
    /\ autopay /\ autopay' = FALSE
    /\ UNCHANGED <<rows, charge, gateway, notice, windowStart, req, histories, faults>>

\* refundWindowDays pass.
windowMoves ==
    /\ windowStart <= Len(paid)
    /\ windowStart' = windowStart + 1
    /\ UNCHANGED <<rows, razorpay, req, histories, faults>>

\* A renewal failed at some time and Razorpay reports it, perhaps late or again.
\* The first half of markSubscriptionPastDue reads the subscription.
receivePastDue(r) ==
    /\ At(r, "idle") /\ sub \in {"ACTIVE", "PAST_DUE"}
    /\ req' = [req EXCEPT ![r] = [next |-> "pastDue"]]
    /\ UNCHANGED <<rows, razorpay, windowStart, histories, faults>>

\* Its second half writes by id, whatever the row has become.
markSubscriptionPastDue(r) ==
    /\ At(r, "pastDue")
    /\ sub' = "PAST_DUE"
    /\ Finish(r)
    /\ UNCHANGED <<paid, refund, given, razorpay, windowStart, histories, faults>>

\* The autopay has ended and Razorpay says so.  CANCELED stands for EXPIRED too.
receiveEnd(r) ==
    /\ At(r, "idle") /\ ~autopay /\ sub # "CANCELED"
    /\ req' = [req EXCEPT ![r] = [next |-> "end"]]
    /\ UNCHANGED <<rows, razorpay, windowStart, histories, faults>>

endGatewaySubscription(r) ==
    /\ At(r, "end")
    /\ sub' = "CANCELED"
    /\ Finish(r)
    /\ UNCHANGED <<paid, refund, given, razorpay, windowStart, histories, faults>>

\* The grace period is over and the nightly job ends the plan.
expireLapsedSubscriptions ==
    /\ sub = "PAST_DUE"
    /\ sub' = "CANCELED"
    /\ UNCHANGED <<paid, refund, given, razorpay, windowStart, req, histories, faults>>

-----------------------------------------------------------------------------
(* The seller asks.                                                         *)

\* Mutant: a payment with a request may be asked about until it is refunded.
Refundable_Again(i) == i >= windowStart /\ given[paid[i]] = {}

Refundable(i) ==
    /\ i >= windowStart
    /\ given[paid[i]] = {}
    /\ RefundsOf(paid[i]) = {}

\* getRefundableCandidate: the latest of them.
IsCandidate(i) == Refundable(i) /\ \A j \in DOMAIN paid : j > i => ~Refundable(j)

\* The first half of requestRefund; counting the leads only fills a column.
requestRefund(r) ==
    /\ At(r, "idle")
    /\ \E i \in DOMAIN paid :
          /\ IsCandidate(i)
          /\ req' = [req EXCEPT ![r] = [next |-> "insert", payment |-> paid[i]]]
          /\ overlapped' = IF \E q \in Requests : At(q, "insert") /\ req[q].payment = paid[i]
                           THEN overlapped \cup {paid[i]} ELSE overlapped
    /\ UNCHANGED <<rows, razorpay, windowStart, crossed, faults>>

\* No unique column stops a second row of the same payment.
insertRequest(r) ==
    /\ At(r, "insert")
    /\ \E f \in Refunds :
          /\ refund[f].status = "absent"
          /\ refund' = [refund EXCEPT ![f].payment = req[r].payment, ![f].status = "REQUESTED"]
    /\ Finish(r)
    /\ UNCHANGED <<paid, sub, given, razorpay, windowStart, histories, faults>>

-----------------------------------------------------------------------------
(* The administrator decides.                                               *)

rejectRefund(f) ==
    /\ refund[f].status = "REQUESTED"
    /\ SetStatus(f, "REJECTED")
    /\ UNCHANGED <<paid, sub, given, razorpay, windowStart, req, histories, faults>>

\* The claim: only one administrator finds the row REQUESTED.
approveRefund(r, f) ==
    /\ At(r, "idle") /\ refund[f].status = "REQUESTED"
    /\ SetStatus(f, "APPROVED")
    /\ req' = [req EXCEPT ![r] = [next |-> "call", refund |-> f]]
    /\ UNCHANGED <<paid, sub, given, razorpay, windowStart, histories, faults>>

\* The payment has a gatewayPaymentId.
AtRazorpay(r) == refund[req[r].refund].payment \notin ByHand

\* The money goes back by hand and nobody is called.
refundByHand(r) ==
    /\ At(r, "call") /\ ~AtRazorpay(r)
    /\ Go(r, "record")
    /\ UNCHANGED <<rows, razorpay, windowStart, histories, faults>>

\* The billing keys are not configured: back to the queue.
putBack(r) ==
    /\ At(r, "call") /\ AtRazorpay(r)
    /\ SetStatus(req[r].refund, "REQUESTED")
    /\ Finish(r)
    /\ UNCHANGED <<paid, sub, given, razorpay, windowStart, histories, faults>>

\* Razorpay refunds a payment up to its amount, so one refund at a time.
Refusable(p) == \E f \in RefundsOf(p) : gateway[f] = "made"

\* Mutant: a refund is taken to be known once Razorpay made it.
refundGatewayPayment_Done(r) ==
    LET f == req[r].refund IN
    /\ At(r, "call") /\ AtRazorpay(r)
    /\ ~Refusable(refund[f].payment)
    /\ gateway' = [gateway EXCEPT ![f] = "made"]
    /\ Finish(r)
    /\ UNCHANGED <<rows, charge, autopay, notice, windowStart, histories, faults>>

refundGatewayPayment(r) ==
    LET f == req[r].refund IN
    /\ At(r, "call") /\ AtRazorpay(r)
    /\ ~Refusable(refund[f].payment)
    /\ gateway' = [gateway EXCEPT ![f] = "made"]
    /\ Go(r, "record")
    /\ UNCHANGED <<rows, charge, autopay, notice, windowStart, histories, faults>>

gatewayRefuses(r) ==
    /\ At(r, "call") /\ AtRazorpay(r)
    /\ Go(r, "refused")
    /\ UNCHANGED <<rows, razorpay, windowStart, histories, faults>>

markFailed(r) ==
    /\ At(r, "refused")
    /\ SetStatus(req[r].refund, "FAILED")
    /\ Finish(r)
    /\ UNCHANGED <<paid, sub, given, razorpay, windowStart, histories, faults>>

\* Mutant: the plan is left to the event that ends the autopay.
recordRefund_KeepsPlan(r) ==
    LET f == req[r].refund IN
    /\ At(r, "record")
    /\ refund' = [refund EXCEPT ![f].status = "REFUNDED", ![f].stored = AtRazorpay(r)]
    /\ given' = [given EXCEPT ![refund[f].payment] = @ \cup {f}]
    /\ crossed' = \E q \in Requests : At(q, "pastDue")
    /\ Go(r, "stop")
    /\ UNCHANGED <<paid, sub, razorpay, windowStart, overlapped, faults>>

\* One transaction: request, payment and subscription.
recordRefund(r) ==
    LET f == req[r].refund IN
    /\ At(r, "record")
    /\ refund' = [refund EXCEPT ![f].status = "REFUNDED", ![f].stored = AtRazorpay(r)]
    /\ given' = [given EXCEPT ![refund[f].payment] = @ \cup {f}]
    /\ sub' = "CANCELED"
    /\ crossed' = \E q \in Requests : At(q, "pastDue")
    /\ Go(r, "stop")
    /\ UNCHANGED <<paid, razorpay, windowStart, overlapped, faults>>

\* cancelGatewaySubscription.
stopAutopay(r) ==
    /\ At(r, "stop")
    /\ autopay' = FALSE
    /\ Finish(r)
    /\ UNCHANGED <<rows, charge, gateway, notice, windowStart, histories, faults>>

-----------------------------------------------------------------------------
(* A refund that fails later.                                               *)

gatewayFails(f) ==
    /\ gateway[f] = "made"
    /\ gateway' = [gateway EXCEPT ![f] = "failed"]
    /\ notice' = [notice EXCEPT ![f] = "due"]
    /\ UNCHANGED <<rows, charge, autopay, windowStart, req, histories, faults>>

\* The update finds the request by gatewayRefundId, or finds nothing and the
\* event is over.
markGatewayRefundFailed(f) ==
    /\ notice[f] = "due"
    /\ \/ /\ refund[f].stored
          /\ SetStatus(f, "FAILED")
          /\ notice' = [notice EXCEPT ![f] = "matched"]
       \/ /\ ~refund[f].stored
          /\ notice' = [notice EXCEPT ![f] = "unmatched"]
          /\ UNCHANGED refund
    /\ UNCHANGED <<paid, sub, given, charge, autopay, gateway, windowStart, req, histories, faults>>

-----------------------------------------------------------------------------
(* Failures.                                                                *)

processDies(r) ==
    /\ Fault /\ ~At(r, "idle")
    /\ Finish(r)
    /\ UNCHANGED <<rows, razorpay, windowStart, histories>>

\* Razorpay made the refund and its answer did not arrive.
answerLost(r) ==
    LET f == req[r].refund IN
    /\ Fault /\ At(r, "call") /\ AtRazorpay(r) /\ ~Refusable(refund[f].payment)
    /\ gateway' = [gateway EXCEPT ![f] = "made"]
    /\ Go(r, "refused")
    /\ UNCHANGED <<rows, charge, autopay, notice, windowStart, histories>>

\* What Razorpay answered to the cancellation is not looked at.
stopAutopayFails(r) ==
    /\ Fault /\ At(r, "stop")
    /\ Finish(r)
    /\ UNCHANGED <<rows, razorpay, windowStart, histories>>

\* The webhook's process dies after it has recorded the event.
noticeDies(f) ==
    /\ Fault /\ notice[f] = "due"
    /\ notice' = [notice EXCEPT ![f] = "unmatched"]
    /\ UNCHANGED <<rows, charge, autopay, gateway, windowStart, req, histories>>

-----------------------------------------------------------------------------
RequestStep(r) ==
    \/ insertRequest(r)
    \/ refundByHand(r) \/ refundGatewayPayment(r) \/ gatewayRefuses(r) \/ markFailed(r) \/ putBack(r)
    \/ recordRefund(r) \/ stopAutopay(r)
    \/ markSubscriptionPastDue(r) \/ endGatewaySubscription(r)

Next ==
    \/ \E p \in Payments : chargeCycle(p) \/ recordSubscriptionCharge(p) \/ enterByHand(p)
    \/ windowMoves \/ autopayEnds \/ expireLapsedSubscriptions
    \/ \E f \in Refunds : rejectRefund(f) \/ gatewayFails(f) \/ markGatewayRefundFailed(f) \/ noticeDies(f)
    \/ \E r \in Requests :
          \/ requestRefund(r) \/ receivePastDue(r) \/ receiveEnd(r)
          \/ \E f \in Refunds : approveRefund(r, f)
          \/ RequestStep(r)
          \/ processDies(r) \/ answerLost(r) \/ stopAutopayFails(r)

Spec == Init /\ [][Next]_vars

\* A request that runs comes to an end and Razorpay repeats its events.  Nobody
\* has to ask for a refund or to decide on one.
FairSpec ==
    /\ Spec
    /\ \A r \in Requests : WF_vars(RequestStep(r))
    /\ \A f \in Refunds : WF_vars(markGatewayRefundFailed(f))

-----------------------------------------------------------------------------
(* Properties.                                                              *)

\* The columns' types, and the state a request can be in.
TypeOK ==
    /\ charge \in [Payments -> {"none", "made", "recorded"}]
    /\ paid \in Seq(Payments) /\ windowStart \in Nat \ {0}
    /\ autopay \in BOOLEAN /\ sub \in {"ACTIVE", "PAST_DUE", "CANCELED"}
    /\ refund \in [Refunds -> [payment : Payments \cup {NoPayment}, status : Statuses, stored : BOOLEAN]]
    /\ given \in [Payments -> SUBSET Refunds]
    /\ gateway \in [Refunds -> {"none", "made", "failed"}]
    /\ notice \in [Refunds -> {"unsent", "due", "matched", "unmatched"}]
    /\ req \in [Requests -> Request]
    /\ overlapped \subseteq Payments /\ crossed \in BOOLEAN
    /\ faults \in 0 .. MaxFaults

\* "An admin decides; an approved request refunds the plan payment" (D41): no
\* money goes back for a request that is waiting or was rejected, whoever else
\* decides on it at the same time.
OnlyApprovedIsRefunded ==
    \A f \in Refunds : gateway[f] # "none" => refund[f].status \in {"APPROVED", "REFUNDED", "FAILED"}

\* A payment counts as refunded exactly by the requests that were REFUNDED, and
\* each of those that was paid through Razorpay has a refund there, which has
\* failed since only when its notice is still to come or found nothing to match.
RefundedIsBacked ==
    \A f \in Refunds :
        /\ refund[f].status = "REFUNDED" =>
              /\ f \in given[refund[f].payment]
              /\ \/ refund[f].payment \in ByHand
                 \/ gateway[f] = "made"
                 \/ (gateway[f] = "failed" /\ notice[f] \in {"due", "unmatched"})
        /\ \A p \in Payments : f \in given[p] =>
              refund[f].payment = p /\ refund[f].status \in {"REFUNDED", "FAILED"}

\* A plan that is live, in grace too, has a payment nobody refunded or no payment
\* yet: a charge that comes late makes it live again, and so may the report of a
\* failed renewal, but that one only when its handler had read the plan live
\* before the refund was booked.
LivePlanIsPaidFor ==
    sub # "CANCELED" => \/ \E p \in Paid : given[p] = {}
                        \/ Paid = {}
                        \/ crossed

\* "A refund request for this payment is already open": the read before the
\* insert keeps a payment to one request, except when two of them overlap.
OneRequestUnlessOverlapped ==
    \A p \in Payments \ overlapped : Cardinality(RefundsOf(p)) <= 1

\* An approval is decided: the request does not stay APPROVED unless the process
\* died (refund.service.ts looks at no APPROVED row again).
ApprovedIsDecided ==
    \A f \in Refunds : refund[f].status = "APPROVED" ~> refund[f].status # "APPROVED" \/ faults > 0

\* "Cancels the subscription": whoever got a refund is not charged for ever,
\* unless the process died or Razorpay's answer was lost.
RefundStopsAutopay ==
    \A f \in Refunds : refund[f].status = "REFUNDED" ~> ~autopay \/ faults > 0

\* "Razorpay reports the refund failed after we recorded it": the request says so
\* in the end, unless the report came before the id it is found by was stored, or
\* the webhook's process died.
FailureIsSeen ==
    \A f \in Refunds : gateway[f] = "failed" ~> refund[f].status = "FAILED" \/ notice[f] = "unmatched"

\* "A refund request for this payment is already open" (refund.service.ts).
OneRequestPerPayment == \A p \in Payments : Cardinality(RefundsOf(p)) <= 1

\* "Approval refunds that payment through Razorpay, cancels the subscription and
\* drops the seller to Free" (refund.service.ts:14-15).
RefundDropsThePlan == \A f \in Refunds : refund[f].status = "REFUNDED" => sub = "CANCELED"

\* The same of a seller who has every payment back, whatever crosses the refund.
RefundedPlanEnds ==
    sub # "CANCELED" => (\E p \in Paid : given[p] = {}) \/ Paid = {}
================================================================================
