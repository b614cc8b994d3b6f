------------------------------- MODULE StoreOrders -------------------------------
(***************************************************************************)
(* Checkout, payment confirmation and shipping of the orders one buyer       *)
(* places at one store (cart.service.ts, order.service.ts,                   *)
(* shipping.service.ts, the Razorpay webhook).                               *)
(*                                                                         *)
(* A payment reaches the store twice, by the buyer's browser and by a        *)
(* webhook that Razorpay repeats until it is answered; a shipment is booked  *)
(* by the seller's press of a button or by the end of a payment.  Each is a  *)
(* request that runs on its own, one query or one call to a provider per     *)
(* step, with no transaction around them.                                   *)
(***************************************************************************)
EXTENDS Integers, FiniteSets

CONSTANTS
    Products,   \* published products with a price
    Orders,     \* orders the buyer may place
    Requests,   \* server actions and route handlers running at once
    MaxFaults   \* bound on processes that die, queries that throw, answers lost

ASSUME OrderAssumption == IsFiniteSet(Orders) /\ MaxFaults \in Nat

VARIABLES
    cart,      \* products in the buyer's cart
    order,     \* the Order rows
    captured,  \* orders whose money Razorpay has taken
    due,       \* webhook deliveries Razorpay repeats until they are answered
    events,    \* WebhookEvent: the deliveries recorded
    alerts,    \* how often the DemandAlerts of an order were written
    bookings,  \* orders Shiprocket has created for an order
    req,       \* the requests in progress
    faults     \* failures so far

rows == <<cart, order, events, alerts>>
outside == <<captured, due, bookings>>
vars == <<rows, outside, req, faults>>

Methods == {"razorpay", "cod"}
NoOrder == [status |-> "absent"]
OrderRow == [status : {"PENDING", "CONFIRMED", "CANCELLED"},
             payment : {"PENDING", "PAID", "FAILED"}, method : Methods,
             items : (SUBSET Products) \ {{}}, gateway : BOOLEAN,
             shipping : {"NOT_SHIPPED", "PROCESSING", "SHIPPED"}, booked : BOOLEAN]

\* payment.captured is acted on; the other events of a payment are recorded.
EventTypes == {"captured", "other"}

\* A request: what it does next, for which order, and for the browser, the seller
\* or the delivery of an event.
Idle == [next |-> "idle"]
PaidSteps == {"markPaid", "emptyCart", "sendAlerts", "autoCreate", "reply"}
ShipSteps == {"claim", "create", "record", "awb", "release"}
Callers == {"browser", "seller"} \cup EventTypes
Request == {Idle} \cup [next : PaidSteps \cup ShipSteps \cup {"confirmCod", "gateway"},
                        order : Orders, caller : Callers]

Init ==
    /\ cart = {}
    /\ order = [o \in Orders |-> NoOrder]
    /\ captured = {}
    /\ due = {}
    /\ events = {}
    /\ alerts = [o \in Orders |-> 0]
    /\ bookings = [o \in Orders |-> 0]
    /\ req = [r \in Requests |-> Idle]
    /\ faults = 0

Placed(o) == order[o] # NoOrder
At(r, step) == req[r].next = step
Start(r, o, step, caller) ==
    At(r, "idle") /\ req' = [req EXCEPT ![r] = [next |-> step, order |-> o, caller |-> caller]]
Go(r, step) == req' = [req EXCEPT ![r].next = step]
Finish(r) == Go(r, "reply")

-----------------------------------------------------------------------------
(* The cart and the checkout.                                               *)

addToCart(p) ==
    /\ cart' = cart \cup {p}
    /\ UNCHANGED <<order, events, alerts, outside, req, faults>>

\* setCartItemQuantity with a quantity of zero.
removeFromCart(p) ==
    /\ p \in cart
    /\ cart' = cart \ {p}
    /\ UNCHANGED <<order, events, alerts, outside, req, faults>>

\* beginCheckout up to the insert.  A store whose payments were switched off
\* since then leaves the order PENDING and asks nothing of the gateway.
beginCheckout(r, o, method) ==
    /\ ~Placed(o) /\ cart # {}
    /\ order' = [order EXCEPT ![o] =
          [status |-> "PENDING", payment |-> "PENDING", method |-> method, items |-> cart,
           gateway |-> FALSE, shipping |-> "NOT_SHIPPED", booked |-> FALSE]]
    /\ \/ method = "cod" /\ Start(r, o, "confirmCod", "browser")
       \/ method = "razorpay" /\ Start(r, o, "gateway", "browser")
       \/ method = "razorpay" /\ Start(r, o, "reply", "browser")
    /\ UNCHANGED <<cart, events, alerts, outside, faults>>

confirmCod(r) ==
    /\ At(r, "confirmCod")
    /\ order' = [order EXCEPT ![req[r].order].status = "CONFIRMED"]
    /\ Go(r, "emptyCart")
    /\ UNCHANGED <<cart, events, alerts, outside, faults>>

\* createRazorpayOrder: the buyer can pay once its id is stored.
createRazorpayOrder(r) ==
    /\ At(r, "gateway")
    /\ \/ order' = [order EXCEPT ![req[r].order].gateway = TRUE]
       \/ order' = [order EXCEPT ![req[r].order].status = "CANCELLED",
                                 ![req[r].order].payment = "FAILED"]
    /\ Finish(r)
    /\ UNCHANGED <<cart, events, alerts, outside, faults>>

-----------------------------------------------------------------------------
(* Payment.                                                                 *)

\* Razorpay takes the money and starts to deliver the payment's events.
pay(o) ==
    /\ Placed(o) /\ order[o].gateway /\ o \notin captured
    /\ captured' = captured \cup {o}
    /\ due' = due \cup ({o} \X EventTypes)
    /\ UNCHANGED <<rows, bookings, req, faults>>

\* Mutant: the browser's word is taken for the signature.
confirmPayment_Unsigned(r, o) ==
    /\ Placed(o) /\ order[o].gateway /\ order[o].payment # "PAID"
    /\ Start(r, o, "markPaid", "browser")
    /\ UNCHANGED <<rows, outside, faults>>

\* The buyer's browser calls back.  It has a valid signature only for a payment
\* Razorpay made; any other call, or one for a PAID order, changes nothing.
confirmPayment(r, o) ==
    /\ Placed(o) /\ order[o].gateway /\ order[o].payment # "PAID"
    /\ o \in captured
    /\ Start(r, o, "markPaid", "browser")
    /\ UNCHANGED <<rows, outside, faults>>

\* POST: the event is recorded before it is acted on, and a recorded event is
\* answered at once.
receiveWebhook(r, o, type) ==
    /\ <<o, type>> \in due
    /\ events' = events \cup {<<o, type>>}
    /\ Start(r, o, IF type = "captured" /\ <<o, type>> \notin events THEN "markPaid" ELSE "reply", type)
    /\ UNCHANGED <<cart, order, alerts, outside, faults>>

\* Mutant: the update is not guarded by paymentStatus.
markPaid_Unguarded(r) ==
    /\ At(r, "markPaid")
    /\ order' = [order EXCEPT ![req[r].order].payment = "PAID", ![req[r].order].status = "CONFIRMED"]
    /\ Go(r, "emptyCart")
    /\ UNCHANGED <<cart, events, alerts, outside, faults>>

\* Mutant: finaliseOrder is left to the other caller.
markPaid_OnlyMarks(r) ==
    /\ At(r, "markPaid")
    /\ order' = [order EXCEPT ![req[r].order].payment = "PAID", ![req[r].order].status = "CONFIRMED"]
    /\ Finish(r)
    /\ UNCHANGED <<cart, events, alerts, outside, faults>>

\* Whoever finds the order unpaid goes on to finaliseOrder.
markPaid(r) ==
    LET o == req[r].order IN
    /\ At(r, "markPaid")
    /\ \/ /\ order[o].payment # "PAID"
          /\ order' = [order EXCEPT ![o].payment = "PAID", ![o].status = "CONFIRMED"]
          /\ Go(r, "emptyCart")
       \/ order[o].payment = "PAID" /\ Finish(r) /\ UNCHANGED order
    /\ UNCHANGED <<cart, events, alerts, outside, faults>>

\* finaliseOrder: the whole cart goes, whatever was added since the checkout.
emptyCart(r) ==
    /\ At(r, "emptyCart")
    /\ cart' = {}
    /\ Go(r, "sendAlerts")
    /\ UNCHANGED <<order, events, alerts, outside, faults>>

createDemandAlerts(r) ==
    /\ At(r, "sendAlerts")
    /\ alerts' = [alerts EXCEPT ![req[r].order] = @ + 1]
    /\ Go(r, "autoCreate")
    /\ UNCHANGED <<cart, order, events, outside, faults>>

-----------------------------------------------------------------------------
(* Shipping.                                                                *)

\* What createShipmentForOrder asks of the order it has read.
MayShip_Unpaid(o) == Placed(o) /\ ~order[o].booked
MayShip(o) ==
    /\ Placed(o) /\ ~order[o].booked
    /\ order[o].payment = "PAID" \/ order[o].method = "cod"

\* The seller presses "Ship now".
shipNow(r, o) ==
    /\ MayShip(o)
    /\ Start(r, o, "claim", "seller")
    /\ UNCHANGED <<rows, outside, faults>>

\* The stores that opted in ship at once; the others, or an order that may not
\* ship, end here.
autoCreateShipment(r) ==
    /\ At(r, "autoCreate")
    /\ \/ MayShip(req[r].order) /\ Go(r, "claim")
       \/ Finish(r)
    /\ UNCHANGED <<rows, outside, faults>>

\* The claim sets PROCESSING where shiprocketOrderId is null: it leaves its own
\* condition true.
claimShipment(r) ==
    LET o == req[r].order IN
    /\ At(r, "claim")
    /\ \/ /\ ~order[o].booked
          /\ order' = [order EXCEPT ![o].shipping = "PROCESSING"]
          /\ Go(r, "create")
       \/ order[o].booked /\ Finish(r) /\ UNCHANGED order
    /\ UNCHANGED <<cart, events, alerts, outside, faults>>

\* Shiprocket books the order or refuses it.
createShiprocketOrder(r) ==
    /\ At(r, "create")
    /\ \/ /\ bookings' = [bookings EXCEPT ![req[r].order] = @ + 1]
          /\ Go(r, "record")
       \/ Go(r, "release") /\ UNCHANGED bookings
    /\ UNCHANGED <<rows, captured, due, faults>>

\* Shiprocket may answer without a shipment, and then there is nothing to label.
recordBooking(r) ==
    /\ At(r, "record")
    /\ order' = [order EXCEPT ![req[r].order].booked = TRUE]
    /\ Go(r, "awb") \/ Finish(r)
    /\ UNCHANGED <<cart, events, alerts, outside, faults>>

assignShiprocketAwb(r) ==
    /\ At(r, "awb")
    /\ \/ order' = [order EXCEPT ![req[r].order].shipping = "SHIPPED"]
       \/ UNCHANGED order
    /\ Finish(r)
    /\ UNCHANGED <<cart, events, alerts, outside, faults>>

releaseClaim(r) ==
    LET o == req[r].order IN
    /\ At(r, "release")
    /\ order' = IF order[o].booked THEN order ELSE [order EXCEPT ![o].shipping = "NOT_SHIPPED"]
    /\ Finish(r)
    /\ UNCHANGED <<cart, events, alerts, outside, faults>>

-----------------------------------------------------------------------------
(* Answers and failures.                                                    *)

\* A webhook that is answered is not repeated.
reply(r) ==
    /\ At(r, "reply")
    /\ due' = due \ {<<req[r].order, req[r].caller>>}
    /\ req' = [req EXCEPT ![r] = Idle]
    /\ UNCHANGED <<rows, captured, bookings, faults>>

Fault == faults < MaxFaults /\ faults' = faults + 1

\* The process dies, a query throws, or the answer does not arrive.
requestDies(r) ==
    /\ Fault /\ ~At(r, "idle")
    /\ req' = [req EXCEPT ![r] = Idle]
    /\ UNCHANGED <<rows, outside>>

\* autoCreateShipment swallows what the shipment throws.
shipmentThrows(r) ==
    /\ Fault /\ req[r].next \in ShipSteps /\ req[r].caller # "seller"
    /\ Finish(r)
    /\ UNCHANGED <<rows, outside>>

\* Shiprocket books the order and its answer is lost.
shiprocketAnswerLost(r) ==
    /\ Fault /\ At(r, "create")
    /\ bookings' = [bookings EXCEPT ![req[r].order] = @ + 1]
    /\ Go(r, "release")
    /\ UNCHANGED <<rows, captured, due>>

-----------------------------------------------------------------------------
RequestStep(r) ==
    \/ confirmCod(r) \/ createRazorpayOrder(r)
    \/ markPaid(r) \/ emptyCart(r) \/ createDemandAlerts(r)
    \/ autoCreateShipment(r) \/ claimShipment(r) \/ createShiprocketOrder(r)
    \/ recordBooking(r) \/ assignShiprocketAwb(r) \/ releaseClaim(r)
    \/ reply(r)

Next ==
    \/ \E p \in Products : addToCart(p) \/ removeFromCart(p)
    \/ \E o \in Orders : pay(o)
    \/ \E r \in Requests, o \in Orders :
          \/ \E method \in Methods : beginCheckout(r, o, method)
          \/ confirmPayment(r, o) \/ shipNow(r, o)
          \/ \E type \in EventTypes : receiveWebhook(r, o, type)
    \/ \E r \in Requests :
          RequestStep(r) \/ requestDies(r) \/ shipmentThrows(r) \/ shiprocketAnswerLost(r)

Spec == Init /\ [][Next]_vars

\* A request that runs is not abandoned, and Razorpay repeats a delivery until a
\* handler is free for it.  Nothing makes the browser call back.
FairSpec ==
    /\ Spec
    /\ \A r \in Requests : WF_vars(RequestStep(r))
    /\ \A o \in Orders, type \in EventTypes :
          SF_vars(\E r \in Requests : receiveWebhook(r, o, type))

-----------------------------------------------------------------------------
(* Properties.                                                              *)

\* The columns' types, and the state a request can be in.
TypeOK ==
    /\ cart \subseteq Products
    /\ order \in [Orders -> OrderRow \cup {NoOrder}]
    /\ captured \subseteq Orders
    /\ due \subseteq Orders \X EventTypes
    /\ events \subseteq Orders \X EventTypes
    /\ alerts \in [Orders -> Nat]
    /\ bookings \in [Orders -> Nat]
    /\ req \in [Requests -> Request]
    /\ faults \in 0 .. MaxFaults

\* "The browser saying 'paid' is not evidence of payment": an order is PAID only
\* if Razorpay took the money, and a cancelled one never is (confirmPayment).
PaidIsCaptured ==
    \A o \in Orders : Placed(o) =>
        /\ order[o].payment = "PAID" => o \in captured
        /\ order[o].status = "CANCELLED" => order[o].payment = "FAILED"

\* markPaid: whichever of the browser and the webhook arrives first does the
\* work and the other is a no-op, so the alerts go out once.
AlertedOnce == \A o \in Orders : alerts[o] <= 1

\* createShipmentForOrder: only a paid or a COD order reaches the courier.
NothingShipsUnpaid ==
    \A o \in Orders : bookings[o] > 0 => order[o].payment = "PAID" \/ order[o].method = "cod"

\* releaseClaim puts a failed claim back: an order is PROCESSING without a
\* booking only while a request works on it, or after a failure.
ClaimsAreReleased ==
    \A o \in Orders :
        Placed(o) /\ order[o].shipping = "PROCESSING" /\ ~order[o].booked /\ faults = 0
        => \E r \in Requests : req[r].next \in ShipSteps /\ req[r].order = o

\* A late claim or release of another request never takes a shipped order back.
ShippedIsFinal ==
    [][\A o \in Orders : Placed(o) =>
        (order[o].shipping = "SHIPPED" => order'[o].shipping = "SHIPPED" /\ order'[o].booked)]_vars

\* "The webhook is what makes it reliable" (confirmPayment), as far as it goes:
\* money that was taken confirms the order and sends its alerts unless a request
\* fails on the way.
CapturedIsFinalised ==
    \A o \in Orders :
        o \in captured ~> faults > 0 \/ (alerts[o] = 1 /\ order[o].payment = "PAID")

\* The same without the excuse: "a buyer who closes the tab mid-redirect never
\* fires it. This does" (webhook route).
CapturedIsConfirmed == \A o \in Orders : o \in captured ~> Placed(o) /\ order[o].payment = "PAID"

\* "So two concurrent 'Ship now' presses cannot both reach Shiprocket"
\* (createShipmentForOrder), without any failure.
BookedOnce == \A o \in Orders : faults = 0 => bookings[o] <= 1
================================================================================
