--------------------------- MODULE StoreOrders_proofs ---------------------------
(***************************************************************************)
(* Whatever requests of browsers, sellers and webhooks interleave, for any   *)
(* number of orders, requests and failures: only captured money marks an     *)
(* order PAID, its alerts go out once, and nothing that is not paid for or   *)
(* cash on delivery reaches the courier.                                    *)
(*                                                                         *)
(* None of these is inductive.  Money is captured only for an order          *)
(* whose gateway id is stored, and while its checkout asks for that id no    *)
(* other request works on the order (OneBegins, MoneyFollowsGateway); the    *)
(* alerts wait for one request, and nobody comes after it since it has       *)
(* marked the order first (OneAlerts); a request that ships found the order  *)
(* paid or COD, and an order stays so (ShippersMay).                         *)
(*                                                                         *)
(* Of the shipments: a claim leaves with the request that made it, and a     *)
(* shipped order stays shipped since a label follows a booking (BookedFirst)  *)
(* and a late claim or release asks for an order without one.                *)
(***************************************************************************)
EXTENDS StoreOrders, FiniteSetTheorems, TLAPS

Begins == {"gateway", "confirmCod"}
Alerts == {"confirmCod", "emptyCart", "sendAlerts"}
For(r, steps, o) == req[r].next \in steps /\ req[r].order = o

\* A request works on an order that was placed, by the method it was placed with.
WorksOnPlaced ==
    \A r \in Requests : ~At(r, "idle") =>
        /\ Placed(req[r].order)
        /\ At(r, "confirmCod") => order[req[r].order].method = "cod"
        /\ At(r, "markPaid") => req[r].order \in captured

\* A checkout that asks for the gateway's id is alone with an order that is not
\* settled either way.
OneBegins ==
    \A r \in Requests : At(r, "gateway") =>
        LET row == order[req[r].order] IN
        /\ row.method = "razorpay" /\ ~row.gateway
        /\ row.status = "PENDING" /\ row.payment = "PENDING"
        /\ \A q \in Requests \ {r} : ~For(q, {"gateway"}, req[r].order)

MoneyFollowsGateway ==
    \A o \in Orders :
        /\ o \in captured => Placed(o) /\ order[o].gateway
        /\ \A type \in EventTypes : <<o, type>> \in due => o \in captured
        /\ Placed(o) =>
              /\ order[o].gateway => order[o].status # "CANCELLED" /\ order[o].method = "razorpay"
              /\ order[o].payment = "PAID" => o \in captured
              /\ order[o].status = "CANCELLED" => order[o].payment = "FAILED"

\* The alerts of an order are sent, or wait for one request.
OneAlerts ==
    /\ \A o \in Orders :
          /\ alerts[o] <= 1
          /\ ~Placed(o) => alerts[o] = 0
          /\ Placed(o) /\ order[o].method = "razorpay" /\ order[o].payment # "PAID" =>
                alerts[o] = 0 /\ \A r \in Requests : ~For(r, Alerts, o)
    /\ \A r \in Requests : req[r].next \in Alerts =>
          /\ alerts[req[r].order] = 0
          /\ \A q \in Requests \ {r} : ~For(q, Alerts, req[r].order)

MayHaveShipped(o) == Placed(o) /\ (order[o].payment = "PAID" \/ order[o].method = "cod")
ShippersMay ==
    /\ \A r \in Requests : req[r].next \in ShipSteps => MayHaveShipped(req[r].order)
    /\ \A o \in Orders : bookings[o] > 0 => MayHaveShipped(o)

IInv ==
    /\ TypeOK /\ WorksOnPlaced /\ OneBegins
    /\ MoneyFollowsGateway /\ OneAlerts /\ ShippersMay

Busy == [next : PaidSteps \cup ShipSteps \cup Begins, order : Orders, caller : Callers]

LEMMA RequestIs == Request = {Idle} \cup Busy
  BY DEF Request, Busy, Begins

LEMMA BusyHasOrder ==
    ASSUME TypeOK, NEW r \in Requests, ~At(r, "idle")
    PROVE  req[r] \in Busy /\ req[r].order \in Orders
<1>1. req[r] \in {Idle} \cup Busy
  BY RequestIs DEF TypeOK
<1> QED
  BY <1>1 DEF At, Idle, Busy

LEMMA PlacedIsRow ==
    ASSUME TypeOK, NEW o \in Orders
    PROVE  Placed(o) => order[o] \in OrderRow
  BY DEF TypeOK, Placed

LEMMA RowIsPlaced == ASSUME NEW x \in OrderRow PROVE x # NoOrder
<1>1. x.status # "absent"
  BY DEF OrderRow
<1> QED
  BY <1>1 DEF NoOrder

LEMMA Initially == Init => IInv
<1> SUFFICES ASSUME Init PROVE IInv
  OBVIOUS
<1>1. TypeOK
  BY OrderAssumption DEF Init, TypeOK, Request
<1>2. \A r \in Requests : At(r, "idle")
  BY DEF Init, At, Idle
<1>3. WorksOnPlaced /\ OneBegins /\ ShippersMay
  BY <1>2 DEF Init, WorksOnPlaced, OneBegins, ShippersMay, At, ShipSteps
<1>4. MoneyFollowsGateway /\ OneAlerts
  BY <1>2 DEF Init, MoneyFollowsGateway, OneAlerts, Placed, At, Alerts
<1> QED
  BY <1>1, <1>3, <1>4 DEF IInv

-----------------------------------------------------------------------------
(* What most steps are: one request goes on, and no order changes in what the  *)
(* strengthening speaks of.                                                  *)

LEMMA GoIs ==
    ASSUME TypeOK, NEW r \in Requests, ~At(r, "idle"),
           NEW step \in PaidSteps \cup ShipSteps \cup Begins, Go(r, step)
    PROVE  /\ req' = [req EXCEPT ![r] = [next |-> step, order |-> req[r].order, caller |-> req[r].caller]]
           /\ req' \in [Requests -> Request]
<1>1. req[r] \in Busy
  BY BusyHasOrder
<1>2. [req[r] EXCEPT !.next = step] = [next |-> step, order |-> req[r].order, caller |-> req[r].caller]
  BY <1>1 DEF Busy
<1>3. [next |-> step, order |-> req[r].order, caller |-> req[r].caller] \in Request
  BY <1>1, RequestIs DEF Busy
<1> QED
  BY <1>2, <1>3 DEF Go, TypeOK

LEMMA StartIs ==
    ASSUME TypeOK, NEW r \in Requests, NEW o \in Orders, NEW caller \in Callers,
           NEW step \in PaidSteps \cup ShipSteps \cup Begins, Start(r, o, step, caller)
    PROVE  req' \in [Requests -> Request]
<1>1. [next |-> step, order |-> o, caller |-> caller] \in Request
  BY RequestIs DEF Busy
<1> QED
  BY <1>1 DEF Start, TypeOK

SameOrders ==
    \A o \in Orders :
        /\ Placed(o)' <=> Placed(o)
        /\ Placed(o) =>
              /\ order'[o].status = order[o].status /\ order'[o].payment = order[o].payment
              /\ order'[o].method = order[o].method /\ order'[o].gateway = order[o].gateway

LEMMA GoesOn ==
    ASSUME IInv, TypeOK', NEW r \in Requests, NEW new, req' = [req EXCEPT ![r] = new],
           UNCHANGED <<captured, alerts>>, due' \subseteq due, SameOrders,
           \A o \in Orders : bookings'[o] > 0 => bookings[o] > 0 \/ MayHaveShipped(o),
           new.next \notin Begins,
           new.next # "idle" => new.order \in Orders /\ Placed(new.order),
           new.next = "markPaid" => new.order \in captured,
           new.next \in Alerts => For(r, Alerts, new.order),
           new.next \in ShipSteps => MayHaveShipped(new.order)
    PROVE  IInv'
<1>1. req'[r] = new /\ \A q \in Requests \ {r} : req'[q] = req[q]
  BY DEF IInv, TypeOK
<1>2. \A q \in Requests : ~At(q, "idle") => req[q].order \in Orders
  BY BusyHasOrder DEF IInv
<1>3. WorksOnPlaced'
  BY <1>1, <1>2 DEF IInv, WorksOnPlaced, At, SameOrders, Begins
<1>4. OneBegins'
  <2> SUFFICES ASSUME NEW p \in Requests, At(p, "gateway")'
               PROVE  LET row == order'[req'[p].order] IN
                      /\ row.method = "razorpay" /\ ~row.gateway
                      /\ row.status = "PENDING" /\ row.payment = "PENDING"
                      /\ \A q \in Requests \ {p} : ~For(q, {"gateway"}, req[p].order)'
    BY DEF OneBegins, For
  <2>1. p # r /\ req'[p] = req[p] /\ At(p, "gateway")
    BY <1>1 DEF At, Begins
  <2>2. Placed(req[p].order) /\ req[p].order \in Orders
    BY <1>2, <2>1 DEF IInv, WorksOnPlaced, At
  <2>3. \A q \in Requests \ {p} : ~For(q, {"gateway"}, req[p].order)'
    BY <1>1, <2>1 DEF IInv, OneBegins, For, Begins
  <2> QED
    BY <2>1, <2>2, <2>3 DEF IInv, OneBegins, SameOrders
<1>5. MoneyFollowsGateway'
  BY DEF IInv, MoneyFollowsGateway, SameOrders
<1>6. OneAlerts'
  <2>1. \A q \in Requests : \A o : For(q, Alerts, o)' => For(q, Alerts, o)
    BY <1>1 DEF For
  <2>2. \A q \in Requests : req[q].next \in Alerts => ~At(q, "idle")
    BY DEF Alerts, At
  <2>3. ASSUME NEW o \in Orders
        PROVE  /\ alerts'[o] <= 1
               /\ ~Placed(o)' => alerts'[o] = 0
               /\ Placed(o)' /\ order'[o].method = "razorpay" /\ order'[o].payment # "PAID" =>
                     alerts'[o] = 0 /\ \A q \in Requests : ~For(q, Alerts, o)'
    BY <2>1 DEF IInv, OneAlerts, SameOrders
  <2>4. ASSUME NEW q \in Requests, req'[q].next \in Alerts
        PROVE  /\ alerts'[req'[q].order] = 0
               /\ \A p \in Requests \ {q} : ~For(p, Alerts, req[q].order)'
    <3>1. PICK o : o = req'[q].order
      OBVIOUS
    <3>2. For(q, Alerts, o)' /\ For(q, Alerts, o)
      BY <2>1, <2>4, <3>1 DEF For
    <3>3. \A p \in Requests \ {q} : ~For(p, Alerts, o)
      BY <3>2 DEF IInv, OneAlerts, For
    <3>4. \A p \in Requests \ {q} : ~For(p, Alerts, o)'
      BY <2>1, <3>3
    <3> QED
      BY <3>1, <3>2, <3>4 DEF IInv, OneAlerts, For
  <2> QED
    BY <2>3, <2>4 DEF OneAlerts, For
<1>7. ShippersMay'
  <2>1. \A o \in Orders : MayHaveShipped(o) => MayHaveShipped(o)'
    BY DEF MayHaveShipped, SameOrders
  <2>2. ASSUME NEW q \in Requests, req'[q].next \in ShipSteps  PROVE MayHaveShipped(req[q].order)'
    <3>1. req'[q].order \in Orders /\ MayHaveShipped(req'[q].order)
      BY <1>1, <1>2, <2>2 DEF IInv, ShippersMay, At, ShipSteps
    <3>2. PICK o \in Orders : o = req'[q].order
      BY <3>1
    <3>3. MayHaveShipped(o)'
      BY <2>1, <3>1, <3>2
    <3> QED
      BY <3>2, <3>3 DEF MayHaveShipped, Placed
  <2> QED
    BY <2>1, <2>2 DEF IInv, ShippersMay, MayHaveShipped, Placed
<1> QED
  BY <1>3, <1>4, <1>5, <1>6, <1>7 DEF IInv

-----------------------------------------------------------------------------
(* The steps that change what the strengthening speaks of.                    *)

LEMMA BeginCheckoutKeeps ==
    ASSUME IInv, NEW r \in Requests, NEW o \in Orders, NEW method \in Methods,
           beginCheckout(r, o, method)
    PROVE  IInv'
<1> DEFINE x == [status |-> "PENDING", payment |-> "PENDING", method |-> method, items |-> cart,
                 gateway |-> FALSE, shipping |-> "NOT_SHIPPED", booked |-> FALSE]
<1>1. x \in OrderRow
  <2>1. cart \in SUBSET Products /\ cart # {}
    BY DEF IInv, TypeOK, beginCheckout
  <2>2. cart \in (SUBSET Products) \ {{}}
    BY <2>1
  <2> QED
    BY <2>2 DEF OrderRow
<1>2. x # NoOrder
  BY <1>1, RowIsPlaced
<1>3. /\ order'[o] = x /\ \A a \in Orders \ {o} : order'[a] = order[a]
      /\ order' \in [Orders -> OrderRow \cup {NoOrder}]
      /\ ~Placed(o)
  BY <1>1 DEF beginCheckout, IInv, TypeOK
<1>4. UNCHANGED <<cart, events, alerts, captured, due, bookings, faults>>
  BY DEF beginCheckout, outside
<1>5. PICK step \in {"confirmCod", "gateway", "reply"} :
          /\ Start(r, o, step, "browser")
          /\ step = "confirmCod" => method = "cod"
          /\ step = "gateway" => method = "razorpay"
  BY DEF beginCheckout
<1>6. req' \in [Requests -> Request]
  BY <1>5, StartIs DEF IInv, Callers, Begins, PaidSteps
<1>7. /\ req'[r].next = step /\ req'[r].order = o
      /\ \A q \in Requests \ {r} : req'[q] = req[q]
  BY <1>5 DEF Start, IInv, TypeOK
<1>8. \A q \in Requests : ~At(q, "idle") => req[q].order \in Orders \ {o}
  BY <1>3, BusyHasOrder DEF IInv, WorksOnPlaced
<1>9. At(r, "idle")
  BY <1>5 DEF Start
<1>10. /\ x.status = "PENDING" /\ x.payment = "PENDING" /\ x.method = method /\ x.gateway = FALSE
       /\ x # NoOrder
  BY <1>2
<1>11. o \notin captured /\ alerts[o] = 0 /\ ~(bookings[o] > 0)
  BY <1>3 DEF IInv, MoneyFollowsGateway, OneAlerts, ShippersMay, MayHaveShipped
<1> HIDE DEF x
<1>12. TypeOK'
  BY <1>3, <1>4, <1>6 DEF IInv, TypeOK
<1>13. WorksOnPlaced'
  BY <1>3, <1>4, <1>5, <1>7, <1>8, <1>10 DEF IInv, WorksOnPlaced, At, Placed
<1>14. OneBegins'
  <2> SUFFICES ASSUME NEW p \in Requests, At(p, "gateway")'
               PROVE  LET row == order'[req'[p].order] IN
                      /\ row.method = "razorpay" /\ ~row.gateway
                      /\ row.status = "PENDING" /\ row.payment = "PENDING"
                      /\ \A q \in Requests \ {p} : ~For(q, {"gateway"}, req[p].order)'
    BY DEF OneBegins, For
  <2>1. CASE p = r
    BY <1>3, <1>5, <1>7, <1>8, <1>10, <2>1 DEF At, For
  <2>2. CASE p # r
    BY <1>3, <1>7, <1>8, <2>2 DEF IInv, OneBegins, At, For
  <2> QED
    BY <2>1, <2>2
<1>15. MoneyFollowsGateway'
  BY <1>3, <1>4, <1>10, <1>11 DEF IInv, MoneyFollowsGateway, Placed
<1>16. OneAlerts'
  <2>1. ASSUME NEW a \in Orders
        PROVE  /\ alerts'[a] <= 1
               /\ ~Placed(a)' => alerts'[a] = 0
               /\ Placed(a)' /\ order'[a].method = "razorpay" /\ order'[a].payment # "PAID" =>
                     alerts'[a] = 0 /\ \A q \in Requests : ~For(q, Alerts, a)'
    <3>1. CASE a = o
      BY <1>3, <1>4, <1>5, <1>7, <1>8, <1>10, <1>11, <3>1 DEF Placed, For, Alerts, At
    <3>2. CASE a # o
      BY <1>3, <1>4, <1>7, <3>2 DEF IInv, OneAlerts, Placed, For, At
    <3> QED
      BY <3>1, <3>2
  <2>2. ASSUME NEW q \in Requests, req'[q].next \in Alerts
        PROVE  /\ alerts'[req'[q].order] = 0
               /\ \A p \in Requests \ {q} : ~For(p, Alerts, req[q].order)'
    <3>1. CASE q = r
      BY <1>4, <1>7, <1>8, <1>11, <2>2, <3>1 DEF For, Alerts, At
    <3>2. CASE q # r
      <4>1. req'[q] = req[q] /\ req[q].order # o
        BY <1>7, <1>8, <2>2, <3>2 DEF At, Alerts
      <4> QED
        BY <1>4, <1>7, <2>2, <4>1 DEF IInv, OneAlerts, For
    <3> QED
      BY <3>1, <3>2
  <2> QED
    BY <2>1, <2>2 DEF OneAlerts, For
<1>17. ShippersMay'
  BY <1>3, <1>4, <1>5, <1>7, <1>8, <1>11 DEF IInv, ShippersMay, MayHaveShipped, Placed, ShipSteps, At
<1> QED
  BY <1>12, <1>13, <1>14, <1>15, <1>16, <1>17 DEF IInv

LEMMA PayKeeps == ASSUME IInv, NEW o \in Orders, pay(o) PROVE IInv'
<1>1. UNCHANGED <<cart, order, events, alerts, bookings, req, faults>>
  BY DEF pay, rows
<1>2. captured' = captured \cup {o} /\ due' = due \cup ({o} \X EventTypes)
  BY DEF pay
<1>3. TypeOK'
  BY <1>1, <1>2 DEF IInv, TypeOK
<1>4. WorksOnPlaced' /\ OneBegins' /\ OneAlerts' /\ ShippersMay'
  BY <1>1, <1>2 DEF IInv, WorksOnPlaced, OneBegins, OneAlerts, ShippersMay, MayHaveShipped, Placed, At, For
<1>5. MoneyFollowsGateway'
  BY <1>1, <1>2 DEF IInv, MoneyFollowsGateway, Placed, pay
<1> QED
  BY <1>3, <1>4, <1>5 DEF IInv

\* A request that goes on to send the alerts, or has just sent them.
LEMMA CreateDemandAlertsKeeps == ASSUME IInv, NEW r \in Requests, createDemandAlerts(r) PROVE IInv'
<1>1. ~At(r, "idle") /\ req[r].next = "sendAlerts"
  BY DEF createDemandAlerts, At
<1>2. PICK o \in Orders : o = req[r].order
  BY <1>1, BusyHasOrder DEF IInv
<1>3. /\ alerts' = [alerts EXCEPT ![o] = @ + 1] /\ alerts[o] = 0
      /\ \A q \in Requests \ {r} : ~For(q, Alerts, o)
  BY <1>1, <1>2 DEF createDemandAlerts, IInv, OneAlerts, Alerts
<1>4. /\ req' = [req EXCEPT ![r] = [next |-> "autoCreate", order |-> o, caller |-> req[r].caller]]
      /\ req' \in [Requests -> Request]
  BY <1>1, <1>2, GoIs DEF createDemandAlerts, IInv, PaidSteps
<1>5. UNCHANGED <<cart, order, events, captured, due, bookings, faults>>
  BY DEF createDemandAlerts, outside
<1>6. /\ alerts'[o] = 1 /\ \A a \in Orders \ {o} : alerts'[a] = alerts[a]
      /\ alerts' \in [Orders -> Nat]
  BY <1>3 DEF IInv, TypeOK
<1>7. /\ req'[r].next = "autoCreate" /\ req'[r].order = o
      /\ \A q \in Requests \ {r} : req'[q] = req[q]
  BY <1>4 DEF IInv, TypeOK
<1>8. \A q \in Requests : ~At(q, "idle") => req[q].order \in Orders
  BY BusyHasOrder DEF IInv
<1>9. TypeOK'
  BY <1>4, <1>5, <1>6 DEF IInv, TypeOK
<1>10. Placed(o) /\ (order[o].method = "razorpay" => order[o].payment = "PAID")
  <2>1. For(r, Alerts, o)
    BY <1>1, <1>2 DEF For, Alerts
  <2> QED
    BY <1>1, <1>2, <2>1 DEF IInv, WorksOnPlaced, OneAlerts
<1>11. WorksOnPlaced' /\ OneBegins' /\ ShippersMay'
  <2>1. WorksOnPlaced'
    BY <1>1, <1>2, <1>5, <1>7 DEF IInv, WorksOnPlaced, At, Placed
  <2>2. OneBegins'
    BY <1>5, <1>7 DEF IInv, OneBegins, At, For
  <2>3. ShippersMay'
    BY <1>5, <1>7 DEF IInv, ShippersMay, MayHaveShipped, Placed, ShipSteps
  <2> QED  BY <2>1, <2>2, <2>3
<1>12. MoneyFollowsGateway'
  BY <1>5 DEF IInv, MoneyFollowsGateway, Placed
<1>13. OneAlerts'
  <2>1. ASSUME NEW a \in Orders
        PROVE  /\ alerts'[a] <= 1
               /\ ~Placed(a)' => alerts'[a] = 0
               /\ Placed(a)' /\ order'[a].method = "razorpay" /\ order'[a].payment # "PAID" =>
                     alerts'[a] = 0 /\ \A q \in Requests : ~For(q, Alerts, a)'
    <3>1. CASE a = o
      BY <1>5, <1>6, <1>10, <3>1 DEF Placed
    <3>2. CASE a # o
      BY <1>5, <1>6, <1>7, <3>2 DEF IInv, OneAlerts, Placed, For
    <3> QED
      BY <3>1, <3>2
  <2>2. ASSUME NEW q \in Requests, req'[q].next \in Alerts
        PROVE  /\ alerts'[req'[q].order] = 0
               /\ \A p \in Requests \ {q} : ~For(p, Alerts, req[q].order)'
    <3>1. q # r /\ req'[q] = req[q] /\ req[q].order # o /\ req[q].order \in Orders
      BY <1>3, <1>7, <1>8, <2>2 DEF For, Alerts, At
    <3> QED
      BY <1>6, <1>7, <2>2, <3>1 DEF IInv, OneAlerts, For, Alerts
  <2> QED
    BY <2>1, <2>2 DEF OneAlerts, For
<1> QED
  BY <1>9, <1>11, <1>12, <1>13 DEF IInv

\* One order changes and the request that changes it goes on with it.
LEMMA ConfirmCodKeeps == ASSUME IInv, NEW r \in Requests, confirmCod(r) PROVE IInv'
<1>1. ~At(r, "idle") /\ req[r].next = "confirmCod"
  BY DEF confirmCod, At
<1>2. PICK o \in Orders : o = req[r].order
  BY <1>1, BusyHasOrder DEF IInv
<1>3. Placed(o) /\ order[o] \in OrderRow /\ order[o].method = "cod"
  BY <1>1, <1>2, PlacedIsRow DEF IInv, WorksOnPlaced, At
<1> DEFINE x == [order[o] EXCEPT !.status = "CONFIRMED"]
<1>4. x \in OrderRow /\ x # NoOrder
  BY <1>3, RowIsPlaced DEF OrderRow
<1>5. /\ x.status = "CONFIRMED" /\ x.method = "cod"
      /\ x.payment = order[o].payment /\ x.gateway = order[o].gateway
  BY <1>3 DEF OrderRow
<1>6. /\ order'[o] = x /\ \A a \in Orders \ {o} : order'[a] = order[a]
      /\ order' \in [Orders -> OrderRow \cup {NoOrder}]
  BY <1>2, <1>4 DEF confirmCod, IInv, TypeOK
<1> HIDE DEF x
<1>7. /\ req' = [req EXCEPT ![r] = [next |-> "emptyCart", order |-> o, caller |-> req[r].caller]]
      /\ req' \in [Requests -> Request]
  BY <1>1, <1>2, GoIs DEF confirmCod, IInv, PaidSteps
<1>8. UNCHANGED <<cart, events, alerts, captured, due, bookings, faults>>
  BY DEF confirmCod, outside
<1>9. /\ req'[r].next = "emptyCart" /\ req'[r].order = o
      /\ \A q \in Requests \ {r} : req'[q] = req[q]
  BY <1>7 DEF IInv, TypeOK
<1>10. \A q \in Requests : ~At(q, "idle") => req[q].order \in Orders
  BY BusyHasOrder DEF IInv
<1>11. \A a \in Orders : Placed(a)' <=> Placed(a)
  BY <1>3, <1>4, <1>6 DEF Placed
<1>12. TypeOK'
  BY <1>6, <1>7, <1>8 DEF IInv, TypeOK
<1>13. WorksOnPlaced'
  BY <1>2, <1>3, <1>5, <1>6, <1>8, <1>9, <1>10, <1>11 DEF IInv, WorksOnPlaced, At
<1>14. OneBegins'
  <2> SUFFICES ASSUME NEW p \in Requests, At(p, "gateway")'
               PROVE  LET row == order'[req'[p].order] IN
                      /\ row.method = "razorpay" /\ ~row.gateway
                      /\ row.status = "PENDING" /\ row.payment = "PENDING"
                      /\ \A q \in Requests \ {p} : ~For(q, {"gateway"}, req[p].order)'
    BY DEF OneBegins, For
  <2>1. p # r /\ req'[p] = req[p] /\ At(p, "gateway")
    BY <1>9 DEF At
  <2>2. req[p].order \in Orders /\ req[p].order # o
    BY <1>3, <1>10, <2>1 DEF IInv, OneBegins, At
  <2> QED
    BY <1>6, <1>9, <2>1, <2>2 DEF IInv, OneBegins, For, At
<1>15. MoneyFollowsGateway'
  BY <1>3, <1>5, <1>6, <1>8, <1>11 DEF IInv, MoneyFollowsGateway
<1>16. OneAlerts'
  <2>1. \A q \in Requests : \A a : For(q, Alerts, a)' => For(q, Alerts, a)
    BY <1>1, <1>2, <1>9 DEF For, Alerts
  <2>2. ASSUME NEW a \in Orders
        PROVE  /\ alerts'[a] <= 1
               /\ ~Placed(a)' => alerts'[a] = 0
               /\ Placed(a)' /\ order'[a].method = "razorpay" /\ order'[a].payment # "PAID" =>
                     alerts'[a] = 0 /\ \A q \in Requests : ~For(q, Alerts, a)'
    <3>1. CASE a = o
      BY <1>3, <1>5, <1>6, <1>8, <1>11, <3>1 DEF IInv, OneAlerts
    <3>2. CASE a # o
      BY <1>6, <1>8, <1>11, <2>1, <3>2 DEF IInv, OneAlerts
    <3> QED
      BY <3>1, <3>2
  <2>3. ASSUME NEW q \in Requests, req'[q].next \in Alerts
        PROVE  /\ alerts'[req'[q].order] = 0
               /\ \A p \in Requests \ {q} : ~For(p, Alerts, req[q].order)'
    <3>1. PICK a : a = req'[q].order
      OBVIOUS
    <3>2. For(q, Alerts, a)' /\ For(q, Alerts, a)
      BY <2>1, <2>3, <3>1 DEF For
    <3>3. \A p \in Requests \ {q} : ~For(p, Alerts, a)'
      BY <2>1, <3>2 DEF IInv, OneAlerts, For
    <3> QED
      BY <1>8, <3>1, <3>2, <3>3 DEF IInv, OneAlerts, For
  <2> QED
    BY <2>2, <2>3 DEF OneAlerts, For
<1>17. ShippersMay'
  <2>1. \A a \in Orders : MayHaveShipped(a) => MayHaveShipped(a)'
    BY <1>5, <1>6, <1>11 DEF MayHaveShipped
  <2>2. ASSUME NEW q \in Requests, req'[q].next \in ShipSteps  PROVE MayHaveShipped(req[q].order)'
    <3>1. PICK a \in Orders : a = req'[q].order /\ MayHaveShipped(a)
      BY <1>9, <1>10, <2>2 DEF IInv, ShippersMay, At, ShipSteps
    <3>2. MayHaveShipped(a)'
      BY <2>1, <3>1
    <3> QED
      BY <3>1, <3>2 DEF MayHaveShipped, Placed
  <2> QED
    BY <1>8, <2>1, <2>2 DEF IInv, ShippersMay, MayHaveShipped, Placed
<1> QED
  BY <1>12, <1>13, <1>14, <1>15, <1>16, <1>17 DEF IInv

LEMMA CreateRazorpayOrderKeeps ==
    ASSUME IInv, NEW r \in Requests, createRazorpayOrder(r)  PROVE IInv'
<1>1. ~At(r, "idle") /\ req[r].next = "gateway"
  BY DEF createRazorpayOrder, At
<1>2. PICK o \in Orders : o = req[r].order
  BY <1>1, BusyHasOrder DEF IInv
<1>3. /\ Placed(o) /\ order[o] \in OrderRow
      /\ order[o].method = "razorpay" /\ ~order[o].gateway
      /\ order[o].status = "PENDING" /\ order[o].payment = "PENDING"
  BY <1>1, <1>2, PlacedIsRow DEF IInv, WorksOnPlaced, OneBegins, At
<1>4. \A q \in Requests \ {r} : ~For(q, {"gateway"}, o)
  BY <1>1, <1>2 DEF IInv, OneBegins, At
<1>5. o \notin captured /\ ~MayHaveShipped(o) /\ alerts[o] = 0 /\ \A q \in Requests : ~For(q, Alerts, o)
  BY <1>3 DEF IInv, MoneyFollowsGateway, MayHaveShipped, OneAlerts
<1> DEFINE asked == [order[o] EXCEPT !.gateway = TRUE]
           refused == [order[o] EXCEPT !.status = "CANCELLED", !.payment = "FAILED"]
<1>6. PICK x \in OrderRow :
          /\ order' = [order EXCEPT ![o] = x]
          /\ x.method = "razorpay" /\ x.payment # "PAID"
          /\ x.gateway => x.status # "CANCELLED"
          /\ x.status = "CANCELLED" => x.payment = "FAILED"
  <2>1. order' = [order EXCEPT ![o] = asked] \/ order' = [order EXCEPT ![o] = refused]
    BY <1>2 DEF createRazorpayOrder, IInv, TypeOK
  <2>2. asked \in OrderRow /\ refused \in OrderRow
    BY <1>3 DEF OrderRow
  <2>3. /\ asked.method = "razorpay" /\ asked.status = "PENDING" /\ asked.payment = "PENDING"
        /\ refused.method = "razorpay" /\ refused.gateway = FALSE
        /\ refused.status = "CANCELLED" /\ refused.payment = "FAILED"
    BY <1>3 DEF OrderRow
  <2> HIDE DEF asked, refused
  <2> QED
    BY <2>1, <2>2, <2>3
<1>7. /\ order'[o] = x /\ \A a \in Orders \ {o} : order'[a] = order[a]
      /\ order' \in [Orders -> OrderRow \cup {NoOrder}]
      /\ \A a \in Orders : Placed(a)' <=> Placed(a)
  BY <1>3, <1>6, RowIsPlaced DEF IInv, TypeOK, Placed
<1>8. /\ req' = [req EXCEPT ![r] = [next |-> "reply", order |-> o, caller |-> req[r].caller]]
      /\ req' \in [Requests -> Request]
  BY <1>1, <1>2, GoIs DEF createRazorpayOrder, Finish, IInv, PaidSteps
<1>9. UNCHANGED <<cart, events, alerts, captured, due, bookings, faults>>
  BY DEF createRazorpayOrder, outside
<1>10. /\ req'[r].next = "reply" /\ req'[r].order = o
       /\ \A q \in Requests \ {r} : req'[q] = req[q]
  BY <1>8 DEF IInv, TypeOK
<1>11. \A q \in Requests : ~At(q, "idle") => req[q].order \in Orders
  BY BusyHasOrder DEF IInv
<1>12. TypeOK'
  BY <1>7, <1>8, <1>9 DEF IInv, TypeOK
<1>13. WorksOnPlaced'
  <2>1. \A q \in Requests : At(q, "confirmCod") => req[q].order # o
    BY <1>3 DEF IInv, WorksOnPlaced, At
  <2> QED
    BY <1>2, <1>3, <1>7, <1>9, <1>10, <1>11, <2>1 DEF IInv, WorksOnPlaced, At
<1>14. OneBegins'
  <2> SUFFICES ASSUME NEW p \in Requests, At(p, "gateway")'
               PROVE  LET row == order'[req'[p].order] IN
                      /\ row.method = "razorpay" /\ ~row.gateway
                      /\ row.status = "PENDING" /\ row.payment = "PENDING"
                      /\ \A q \in Requests \ {p} : ~For(q, {"gateway"}, req[p].order)'
    BY DEF OneBegins, For
  <2>1. p # r /\ req'[p] = req[p] /\ At(p, "gateway")
    BY <1>10 DEF At
  <2>2. req[p].order \in Orders /\ req[p].order # o
    BY <1>4, <1>11, <2>1 DEF For, At
  <2> QED
    BY <1>7, <1>10, <2>1, <2>2 DEF IInv, OneBegins, For, At
<1>15. MoneyFollowsGateway'
  BY <1>5, <1>6, <1>7, <1>9 DEF IInv, MoneyFollowsGateway
<1>16. OneAlerts'
  <2>1. \A q \in Requests : \A a : For(q, Alerts, a)' => For(q, Alerts, a)
    BY <1>10 DEF For, Alerts
  <2>2. ASSUME NEW a \in Orders
        PROVE  /\ alerts'[a] <= 1
               /\ ~Placed(a)' => alerts'[a] = 0
               /\ Placed(a)' /\ order'[a].method = "razorpay" /\ order'[a].payment # "PAID" =>
                     alerts'[a] = 0 /\ \A q \in Requests : ~For(q, Alerts, a)'
    <3>1. CASE a = o
      BY <1>5, <1>7, <1>9, <2>1, <3>1 DEF IInv, OneAlerts
    <3>2. CASE a # o
      BY <1>7, <1>9, <2>1, <3>2 DEF IInv, OneAlerts
    <3> QED
      BY <3>1, <3>2
  <2>3. ASSUME NEW q \in Requests, req'[q].next \in Alerts
        PROVE  /\ alerts'[req'[q].order] = 0
               /\ \A p \in Requests \ {q} : ~For(p, Alerts, req[q].order)'
    <3>1. PICK a : a = req'[q].order
      OBVIOUS
    <3>2. For(q, Alerts, a)' /\ For(q, Alerts, a)
      BY <2>1, <2>3, <3>1 DEF For
    <3>3. \A p \in Requests \ {q} : ~For(p, Alerts, a)'
      BY <2>1, <3>2 DEF IInv, OneAlerts, For
    <3> QED
      BY <1>9, <3>1, <3>2, <3>3 DEF IInv, OneAlerts, For
  <2> QED
    BY <2>2, <2>3 DEF OneAlerts, For
<1>17. ShippersMay'
  <2>1. \A a \in Orders : MayHaveShipped(a) => MayHaveShipped(a)'
    BY <1>5, <1>7 DEF MayHaveShipped
  <2>2. ASSUME NEW q \in Requests, req'[q].next \in ShipSteps  PROVE MayHaveShipped(req[q].order)'
    <3>1. PICK a \in Orders : a = req'[q].order /\ MayHaveShipped(a)
      BY <1>10, <1>11, <2>2 DEF IInv, ShippersMay, At, ShipSteps
    <3>2. MayHaveShipped(a)'
      BY <2>1, <3>1
    <3> QED
      BY <3>1, <3>2 DEF MayHaveShipped, Placed
  <2> QED
    BY <1>9, <2>1, <2>2 DEF IInv, ShippersMay, MayHaveShipped, Placed
<1> QED
  BY <1>12, <1>13, <1>14, <1>15, <1>16, <1>17 DEF IInv

LEMMA MarkPaidKeeps == ASSUME IInv, NEW r \in Requests, markPaid(r) PROVE IInv'
<1>1. ~At(r, "idle") /\ req[r].next = "markPaid"
  BY DEF markPaid, At
<1>2. PICK o \in Orders : o = req[r].order
  BY <1>1, BusyHasOrder DEF IInv
<1>3. Placed(o) /\ order[o] \in OrderRow /\ o \in captured /\ order[o].gateway /\ order[o].method = "razorpay"
  BY <1>1, <1>2, PlacedIsRow DEF IInv, WorksOnPlaced, MoneyFollowsGateway, At
<1>4. UNCHANGED <<cart, events, alerts, captured, due, bookings, faults>>
  BY DEF markPaid, outside
<1>5. CASE order[o].payment = "PAID"
  <2>1. order' = order /\ Finish(r)
    BY <1>2, <1>5 DEF markPaid
  <2> DEFINE new == [next |-> "reply", order |-> o, caller |-> req[r].caller]
  <2>2. req' = [req EXCEPT ![r] = new] /\ req' \in [Requests -> Request]
    BY <1>1, <1>2, <2>1, GoIs DEF Finish, IInv, PaidSteps
  <2>3. new.next = "reply" /\ new.order = o
    OBVIOUS
  <2>4. TypeOK'
    BY <1>4, <2>1, <2>2 DEF IInv, TypeOK
  <2> HIDE DEF new
  <2> QED
    BY <1>3, <1>4, <2>1, <2>2, <2>3, <2>4, GoesOn DEF SameOrders, Placed, Begins, Alerts, ShipSteps
<1>6. CASE order[o].payment # "PAID"
  <2> DEFINE x == [order[o] EXCEPT !.payment = "PAID", !.status = "CONFIRMED"]
  <2>1. order' = [order EXCEPT ![o] = x] /\ Go(r, "emptyCart")
    BY <1>2, <1>6 DEF markPaid, IInv, TypeOK
  <2>2. x \in OrderRow
    BY <1>3 DEF OrderRow
  <2>3. x.payment = "PAID" /\ x.status = "CONFIRMED" /\ x.method = "razorpay" /\ x.gateway
    BY <1>3 DEF OrderRow
  <2> HIDE DEF x
  <2>4. /\ order'[o] = x /\ \A a \in Orders \ {o} : order'[a] = order[a]
        /\ order' \in [Orders -> OrderRow \cup {NoOrder}]
        /\ \A a \in Orders : Placed(a)' <=> Placed(a)
    BY <1>3, <2>1, <2>2, RowIsPlaced DEF IInv, TypeOK, Placed
  <2>5. /\ req' = [req EXCEPT ![r] = [next |-> "emptyCart", order |-> o, caller |-> req[r].caller]]
        /\ req' \in [Requests -> Request]
    BY <1>1, <1>2, <2>1, GoIs DEF IInv, PaidSteps
  <2>6. /\ req'[r].next = "emptyCart" /\ req'[r].order = o
        /\ \A q \in Requests \ {r} : req'[q] = req[q]
    BY <2>5 DEF IInv, TypeOK
  <2>7. \A q \in Requests : ~At(q, "idle") => req[q].order \in Orders
    BY BusyHasOrder DEF IInv
  <2>8. alerts[o] = 0 /\ \A q \in Requests : ~For(q, Alerts, o)
    BY <1>3, <1>6 DEF IInv, OneAlerts
  <2>9. TypeOK'
    BY <1>4, <2>4, <2>5 DEF IInv, TypeOK
  <2>10. WorksOnPlaced'
    <3>1. \A q \in Requests : At(q, "confirmCod") => req[q].order # o
      BY <1>3 DEF IInv, WorksOnPlaced, At
    <3> QED
      BY <1>3, <1>4, <2>4, <2>6, <2>7, <3>1 DEF IInv, WorksOnPlaced, At
  <2>11. OneBegins'
    <3> SUFFICES ASSUME NEW p \in Requests, At(p, "gateway")'
                 PROVE  LET row == order'[req'[p].order] IN
                        /\ row.method = "razorpay" /\ ~row.gateway
                        /\ row.status = "PENDING" /\ row.payment = "PENDING"
                        /\ \A q \in Requests \ {p} : ~For(q, {"gateway"}, req[p].order)'
      BY DEF OneBegins, For
    <3>1. p # r /\ req'[p] = req[p] /\ At(p, "gateway")
      BY <2>6 DEF At
    <3>2. req[p].order \in Orders /\ req[p].order # o
      BY <1>3, <2>7, <3>1 DEF IInv, OneBegins, At
    <3> QED
      BY <2>4, <2>6, <3>1, <3>2 DEF IInv, OneBegins, For, At
  <2>12. MoneyFollowsGateway'
    BY <1>3, <1>4, <2>3, <2>4 DEF IInv, MoneyFollowsGateway
  <2>13. OneAlerts'
    <3>1. \A q \in Requests \ {r} : \A a : For(q, Alerts, a)' => For(q, Alerts, a) /\ a # o
      BY <2>6, <2>8 DEF For
    <3>2. ASSUME NEW a \in Orders
          PROVE  /\ alerts'[a] <= 1
                 /\ ~Placed(a)' => alerts'[a] = 0
                 /\ Placed(a)' /\ order'[a].method = "razorpay" /\ order'[a].payment # "PAID" =>
                       alerts'[a] = 0 /\ \A q \in Requests : ~For(q, Alerts, a)'
      <4>1. CASE a = o
        BY <1>4, <2>3, <2>4, <2>8, <4>1
      <4>2. CASE a # o
        BY <1>4, <2>4, <2>6, <3>1, <4>2 DEF IInv, OneAlerts, For
      <4> QED
        BY <4>1, <4>2
    <3>3. ASSUME NEW q \in Requests, req'[q].next \in Alerts
          PROVE  /\ alerts'[req'[q].order] = 0
                 /\ \A p \in Requests \ {q} : ~For(p, Alerts, req[q].order)'
      <4>1. CASE q = r
        BY <1>4, <2>6, <2>8, <3>1, <4>1 DEF For
      <4>2. CASE q # r
        <5>1. PICK a : a = req'[q].order
          OBVIOUS
        <5>2. For(q, Alerts, a)' /\ For(q, Alerts, a) /\ a # o
          BY <3>1, <3>3, <4>2, <5>1 DEF For
        <5>3. \A p \in Requests \ {q} : ~For(p, Alerts, a)'
          BY <2>6, <3>1, <5>2 DEF IInv, OneAlerts, For
        <5> QED
          BY <1>4, <5>1, <5>2, <5>3 DEF IInv, OneAlerts, For
      <4> QED
        BY <4>1, <4>2
    <3> QED
      BY <3>2, <3>3 DEF OneAlerts, For
  <2>14. ShippersMay'
    <3>1. \A a \in Orders : MayHaveShipped(a) => MayHaveShipped(a)'
      BY <2>3, <2>4 DEF MayHaveShipped
    <3>2. ASSUME NEW q \in Requests, req'[q].next \in ShipSteps  PROVE MayHaveShipped(req[q].order)'
      <4>1. PICK a \in Orders : a = req'[q].order /\ MayHaveShipped(a)
        BY <2>6, <2>7, <3>2 DEF IInv, ShippersMay, At, ShipSteps
      <4>2. MayHaveShipped(a)'
        BY <3>1, <4>1
      <4> QED
        BY <4>1, <4>2 DEF MayHaveShipped, Placed
    <3> QED
      BY <1>4, <3>1, <3>2 DEF IInv, ShippersMay, MayHaveShipped, Placed
  <2> QED
    BY <2>9, <2>10, <2>11, <2>12, <2>13, <2>14 DEF IInv
<1> QED
  BY <1>5, <1>6

-----------------------------------------------------------------------------
(* The other steps.                                                          *)

LEMMA UnchangedOrders == UNCHANGED order => SameOrders
  BY DEF SameOrders, Placed

\* A new value of shipping or booked.
LEMMA RowShips ==
    ASSUME TypeOK, NEW o \in Orders, Placed(o), NEW x \in OrderRow, order' = [order EXCEPT ![o] = x],
           x.status = order[o].status, x.payment = order[o].payment,
           x.method = order[o].method, x.gateway = order[o].gateway
    PROVE  SameOrders /\ order' \in [Orders -> OrderRow \cup {NoOrder}]
  BY RowIsPlaced DEF TypeOK, SameOrders, Placed

\* A request in progress takes its next step.
LEMMA Goes ==
    ASSUME IInv, NEW r \in Requests, ~At(r, "idle"), NEW step \in PaidSteps \cup ShipSteps, Go(r, step),
           step # "markPaid", step = "sendAlerts" => At(r, "emptyCart"), step # "emptyCart",
           step \in ShipSteps => MayHaveShipped(req[r].order),
           SameOrders, order' \in [Orders -> OrderRow \cup {NoOrder}],
           UNCHANGED <<events, alerts, captured, due>>, cart' \subseteq Products,
           bookings' \in [Orders -> Nat],
           \A o \in Orders : bookings'[o] > 0 => bookings[o] > 0 \/ MayHaveShipped(o),
           faults' \in 0 .. MaxFaults
    PROVE  IInv'
<1> DEFINE new == [next |-> step, order |-> req[r].order, caller |-> req[r].caller]
<1>1. req' = [req EXCEPT ![r] = new] /\ req' \in [Requests -> Request]
  BY GoIs DEF IInv
<1>2. TypeOK'
  BY <1>1 DEF IInv, TypeOK
<1>3. req[r].order \in Orders /\ Placed(req[r].order)
  BY BusyHasOrder DEF IInv, WorksOnPlaced
<1>4. new.next = step /\ new.order = req[r].order
  OBVIOUS
<1>5. step \notin Begins
  BY DEF Begins, PaidSteps, ShipSteps
<1>6. step \in Alerts => For(r, Alerts, req[r].order)
  BY DEF For, Alerts, At, PaidSteps, ShipSteps
<1> HIDE DEF new
<1> QED
  BY <1>1, <1>2, <1>3, <1>4, <1>5, <1>6, GoesOn

\* A request ends, or one starts that touches nothing yet.
LEMMA Ends ==
    ASSUME IInv, NEW r \in Requests, req' = [req EXCEPT ![r] = Idle], due' \subseteq due,
           UNCHANGED <<rows, captured, bookings>>, faults' \in 0 .. MaxFaults
    PROVE  IInv'
<1>1. TypeOK'
  <2>1. Idle \in Request
    BY DEF Request
  <2> QED  BY <2>1 DEF IInv, TypeOK, rows
<1>2. Idle.next = "idle" /\ Idle.next \notin Begins \cup Alerts \cup ShipSteps
  BY DEF Idle, Begins, Alerts, ShipSteps
<1> QED
  BY <1>1, <1>2, UnchangedOrders, GoesOn DEF rows

LEMMA Starts ==
    ASSUME IInv, NEW r \in Requests, NEW o \in Orders, NEW step \in {"markPaid", "reply", "claim"},
           NEW caller \in Callers, Start(r, o, step, caller), Placed(o),
           step = "markPaid" => o \in captured, step = "claim" => MayHaveShipped(o),
           UNCHANGED <<cart, order, alerts, outside, faults>>, events' \subseteq Orders \X EventTypes
    PROVE  IInv'
<1> DEFINE new == [next |-> step, order |-> o, caller |-> caller]
<1>1. TypeOK'
  <2>1. req' \in [Requests -> Request]
    BY StartIs DEF IInv, PaidSteps, ShipSteps
  <2> QED  BY <2>1 DEF IInv, TypeOK, outside
<1>2. req' = [req EXCEPT ![r] = new]
  BY DEF Start
<1>3. new.next = step /\ new.order = o
  OBVIOUS
<1>4. step \notin Begins \cup Alerts
  BY DEF Begins, Alerts
<1> HIDE DEF new
<1> QED
  BY <1>1, <1>2, <1>3, <1>4, UnchangedOrders, GoesOn DEF outside, ShipSteps

LEMMA CartKeeps == ASSUME IInv, cart' \subseteq Products, UNCHANGED <<order, events, alerts, outside, req, faults>>
                   PROVE  IInv'
<1>1. TypeOK'
  BY DEF IInv, TypeOK, outside
<1> QED
  BY <1>1 DEF IInv, outside, WorksOnPlaced, OneBegins, MoneyFollowsGateway, OneAlerts, ShippersMay,
              MayHaveShipped, Placed, At, For

LEMMA ReplyKeeps == ASSUME IInv, NEW r \in Requests, reply(r) PROVE IInv'
  BY Ends DEF IInv, TypeOK, reply

LEMMA RequestDiesKeeps == ASSUME IInv, NEW r \in Requests, requestDies(r) PROVE IInv'
<1>1. faults' \in 0 .. MaxFaults
  BY OrderAssumption DEF IInv, TypeOK, requestDies, Fault
<1> QED
  BY <1>1, Ends DEF requestDies, outside

LEMMA ConfirmPaymentKeeps ==
    ASSUME IInv, NEW r \in Requests, NEW o \in Orders, confirmPayment(r, o)  PROVE IInv'
<1>1. "browser" \in Callers
  BY DEF Callers
<1> QED
  BY <1>1, Starts DEF confirmPayment, rows, outside, IInv, TypeOK

LEMMA ReceiveWebhookKeeps ==
    ASSUME IInv, NEW r \in Requests, NEW o \in Orders, NEW type \in EventTypes, receiveWebhook(r, o, type)
    PROVE  IInv'
<1>1. o \in captured /\ Placed(o)
  BY DEF IInv, MoneyFollowsGateway, receiveWebhook
<1>2. type \in Callers
  BY DEF Callers
<1>3. PICK step \in {"markPaid", "reply", "claim"} : step # "claim" /\ Start(r, o, step, type)
  BY DEF receiveWebhook
<1>4. events' \subseteq Orders \X EventTypes
  BY DEF IInv, TypeOK, receiveWebhook
<1> QED
  BY <1>1, <1>2, <1>3, <1>4, Starts DEF receiveWebhook, outside

LEMMA ShipNowKeeps ==
    ASSUME IInv, NEW r \in Requests, NEW o \in Orders, shipNow(r, o)  PROVE IInv'
<1>1. "seller" \in Callers
  BY DEF Callers
<1>2. MayHaveShipped(o)
  BY DEF shipNow, MayShip, MayHaveShipped
<1> QED
  BY <1>1, <1>2, Starts DEF shipNow, MayHaveShipped, rows, outside, IInv, TypeOK

LEMMA EmptyCartKeeps == ASSUME IInv, NEW r \in Requests, emptyCart(r) PROVE IInv'
<1>1. "sendAlerts" \in PaidSteps \cup ShipSteps /\ "sendAlerts" \notin ShipSteps
  BY DEF PaidSteps, ShipSteps
<1>2. At(r, "emptyCart") /\ ~At(r, "idle") /\ Go(r, "sendAlerts")
  BY DEF emptyCart, At
<1>3. UNCHANGED <<order, events, alerts, captured, due, bookings, faults>> /\ cart' = {}
  BY DEF emptyCart, outside
<1> QED
  BY <1>1, <1>2, <1>3, UnchangedOrders, Goes DEF IInv, TypeOK

LEMMA AutoCreateShipmentKeeps == ASSUME IInv, NEW r \in Requests, autoCreateShipment(r) PROVE IInv'
<1>1. ~At(r, "idle") /\ UNCHANGED <<cart, order, events, alerts, captured, due, bookings, faults>>
  BY DEF autoCreateShipment, At, rows, outside
<1>2. CASE MayShip(req[r].order) /\ Go(r, "claim")
  BY <1>1, <1>2, UnchangedOrders, Goes DEF IInv, TypeOK, MayShip, MayHaveShipped, ShipSteps, PaidSteps
<1>3. CASE Finish(r)
  BY <1>1, <1>3, UnchangedOrders, Goes DEF IInv, TypeOK, Finish, ShipSteps, PaidSteps
<1> QED
  BY <1>2, <1>3 DEF autoCreateShipment

\* A request that ships works on a row of an order that may be shipped.
LEMMA ShipperIs ==
    ASSUME IInv, NEW r \in Requests, req[r].next \in ShipSteps
    PROVE  /\ ~At(r, "idle") /\ req[r].order \in Orders /\ Placed(req[r].order)
           /\ order[req[r].order] \in OrderRow /\ MayHaveShipped(req[r].order)
<1>1. ~At(r, "idle")
  BY DEF At, ShipSteps
<1> QED
  BY <1>1, BusyHasOrder, PlacedIsRow DEF IInv, WorksOnPlaced, ShippersMay

LEMMA ClaimShipmentKeeps == ASSUME IInv, NEW r \in Requests, claimShipment(r) PROVE IInv'
<1>1. req[r].next = "claim" /\ UNCHANGED <<cart, events, alerts, captured, due, bookings, faults>>
  BY DEF claimShipment, At, outside
<1>2. PICK o \in Orders : /\ o = req[r].order /\ ~At(r, "idle") /\ Placed(o)
                          /\ order[o] \in OrderRow /\ MayHaveShipped(o)
  BY <1>1, ShipperIs DEF ShipSteps
<1>3. CASE order' = [order EXCEPT ![o].shipping = "PROCESSING"] /\ Go(r, "create")
  <2> DEFINE x == [order[o] EXCEPT !.shipping = "PROCESSING"]
  <2>1. /\ x \in OrderRow /\ x.status = order[o].status /\ x.payment = order[o].payment
        /\ x.method = order[o].method /\ x.gateway = order[o].gateway
    BY <1>2 DEF OrderRow
  <2>2. order' = [order EXCEPT ![o] = x]
    BY <1>3 DEF IInv, TypeOK
  <2> HIDE DEF x
  <2>3. SameOrders /\ order' \in [Orders -> OrderRow \cup {NoOrder}]
    BY <1>2, <2>1, <2>2, RowShips DEF IInv
  <2> QED
    BY <1>1, <1>2, <1>3, <2>3, Goes DEF IInv, TypeOK, ShipSteps, PaidSteps
<1>4. CASE UNCHANGED order /\ Finish(r)
  BY <1>1, <1>2, <1>4, UnchangedOrders, Goes DEF IInv, TypeOK, Finish, ShipSteps, PaidSteps
<1> QED
  BY <1>2, <1>3, <1>4 DEF claimShipment

LEMMA Booking ==
    ASSUME IInv, NEW r \in Requests, At(r, "create"), NEW step \in {"record", "release"}, Go(r, step),
           bookings' = [bookings EXCEPT ![req[r].order] = @ + 1] \/ UNCHANGED bookings,
           UNCHANGED <<rows, captured, due>>, faults' \in 0 .. MaxFaults
    PROVE  IInv'
<1>1. PICK o \in Orders : /\ o = req[r].order /\ ~At(r, "idle") /\ Placed(o)
                          /\ order[o] \in OrderRow /\ MayHaveShipped(o)
  BY ShipperIs DEF ShipSteps, At
<1>2. /\ bookings' \in [Orders -> Nat]
      /\ \A a \in Orders : bookings'[a] > 0 => bookings[a] > 0 \/ MayHaveShipped(a)
  BY <1>1 DEF IInv, TypeOK
<1>3. UNCHANGED <<cart, order, events, alerts, captured, due>>
  BY DEF rows
<1> QED
  BY <1>1, <1>2, <1>3, UnchangedOrders, Goes DEF IInv, TypeOK, ShipSteps, PaidSteps

LEMMA CreateShiprocketOrderKeeps == ASSUME IInv, NEW r \in Requests, createShiprocketOrder(r) PROVE IInv'
  BY Booking DEF createShiprocketOrder, IInv, TypeOK

LEMMA ShiprocketAnswerLostKeeps == ASSUME IInv, NEW r \in Requests, shiprocketAnswerLost(r) PROVE IInv'
<1>1. faults' \in 0 .. MaxFaults
  BY OrderAssumption DEF IInv, TypeOK, shiprocketAnswerLost, Fault
<1> QED
  BY <1>1, Booking DEF shiprocketAnswerLost

LEMMA RecordBookingKeeps == ASSUME IInv, NEW r \in Requests, recordBooking(r) PROVE IInv'
<1>1. req[r].next = "record" /\ UNCHANGED <<cart, events, alerts, captured, due, bookings, faults>>
  BY DEF recordBooking, At, outside
<1>2. PICK o \in Orders : /\ o = req[r].order /\ ~At(r, "idle") /\ Placed(o)
                          /\ order[o] \in OrderRow /\ MayHaveShipped(o)
  BY <1>1, ShipperIs DEF ShipSteps
<1> DEFINE x == [order[o] EXCEPT !.booked = TRUE]
<1>3. /\ x \in OrderRow /\ x.status = order[o].status /\ x.payment = order[o].payment
      /\ x.method = order[o].method /\ x.gateway = order[o].gateway
  BY <1>2 DEF OrderRow
<1>4. order' = [order EXCEPT ![o] = x]
  BY <1>2 DEF recordBooking, IInv, TypeOK
<1> HIDE DEF x
<1>5. SameOrders /\ order' \in [Orders -> OrderRow \cup {NoOrder}]
  BY <1>2, <1>3, <1>4, RowShips DEF IInv
<1>6. PICK step \in {"awb", "reply"} : Go(r, step)
  BY DEF recordBooking, Finish
<1> QED
  BY <1>1, <1>2, <1>5, <1>6, Goes DEF IInv, TypeOK, ShipSteps, PaidSteps

LEMMA AssignShiprocketAwbKeeps == ASSUME IInv, NEW r \in Requests, assignShiprocketAwb(r) PROVE IInv'
<1>1. req[r].next = "awb" /\ UNCHANGED <<cart, events, alerts, captured, due, bookings, faults>> /\ Finish(r)
  BY DEF assignShiprocketAwb, At, outside
<1>2. PICK o \in Orders : /\ o = req[r].order /\ ~At(r, "idle") /\ Placed(o)
                          /\ order[o] \in OrderRow /\ MayHaveShipped(o)
  BY <1>1, ShipperIs DEF ShipSteps
<1> DEFINE x == [order[o] EXCEPT !.shipping = "SHIPPED"]
<1>3. /\ x \in OrderRow /\ x.status = order[o].status /\ x.payment = order[o].payment
      /\ x.method = order[o].method /\ x.gateway = order[o].gateway
  BY <1>2 DEF OrderRow
<1>4. order' = [order EXCEPT ![o] = x] \/ UNCHANGED order
  BY <1>2 DEF assignShiprocketAwb, IInv, TypeOK
<1> HIDE DEF x
<1>5. SameOrders /\ order' \in [Orders -> OrderRow \cup {NoOrder}]
  BY <1>2, <1>3, <1>4, RowShips, UnchangedOrders DEF IInv, TypeOK
<1> QED
  BY <1>1, <1>2, <1>5, Goes DEF IInv, TypeOK, Finish, ShipSteps, PaidSteps

LEMMA ReleaseClaimKeeps == ASSUME IInv, NEW r \in Requests, releaseClaim(r) PROVE IInv'
<1>1. req[r].next = "release" /\ UNCHANGED <<cart, events, alerts, captured, due, bookings, faults>> /\ Finish(r)
  BY DEF releaseClaim, At, outside
<1>2. PICK o \in Orders : /\ o = req[r].order /\ ~At(r, "idle") /\ Placed(o)
                          /\ order[o] \in OrderRow /\ MayHaveShipped(o)
  BY <1>1, ShipperIs DEF ShipSteps
<1> DEFINE x == [order[o] EXCEPT !.shipping = "NOT_SHIPPED"]
<1>3. /\ x \in OrderRow /\ x.status = order[o].status /\ x.payment = order[o].payment
      /\ x.method = order[o].method /\ x.gateway = order[o].gateway
  BY <1>2 DEF OrderRow
<1>4. order' = [order EXCEPT ![o] = x] \/ UNCHANGED order
  BY <1>2 DEF releaseClaim, IInv, TypeOK
<1> HIDE DEF x
<1>5. SameOrders /\ order' \in [Orders -> OrderRow \cup {NoOrder}]
  BY <1>2, <1>3, <1>4, RowShips, UnchangedOrders DEF IInv, TypeOK
<1> QED
  BY <1>1, <1>2, <1>5, Goes DEF IInv, TypeOK, Finish, ShipSteps, PaidSteps

LEMMA ShipmentThrowsKeeps == ASSUME IInv, NEW r \in Requests, shipmentThrows(r) PROVE IInv'
<1>1. faults' \in 0 .. MaxFaults
  BY OrderAssumption DEF IInv, TypeOK, shipmentThrows, Fault
<1>2. ~At(r, "idle")
  BY ShipperIs DEF shipmentThrows
<1>3. UNCHANGED <<cart, order, events, alerts, captured, due, bookings>>
  BY DEF shipmentThrows, rows, outside
<1> QED
  BY <1>1, <1>2, <1>3, UnchangedOrders, Goes DEF IInv, TypeOK, shipmentThrows, Finish, ShipSteps, PaidSteps

-----------------------------------------------------------------------------
(* The theorems.                                                             *)

LEMMA StepKeeps == ASSUME IInv, [Next]_vars PROVE IInv'
<1>1. ASSUME NEW p \in Products, addToCart(p) \/ removeFromCart(p)  PROVE IInv'
  BY <1>1, CartKeeps DEF addToCart, removeFromCart, IInv, TypeOK
<1>2. ASSUME NEW o \in Orders, pay(o)  PROVE IInv'
  BY <1>2, PayKeeps
<1>3. ASSUME NEW r \in Requests, NEW o \in Orders, NEW method \in Methods, beginCheckout(r, o, method)
      PROVE  IInv'
  BY <1>3, BeginCheckoutKeeps
<1>4. ASSUME NEW r \in Requests, NEW o \in Orders, confirmPayment(r, o) \/ shipNow(r, o)  PROVE IInv'
  BY <1>4, ConfirmPaymentKeeps, ShipNowKeeps
<1>5. ASSUME NEW r \in Requests, NEW o \in Orders, NEW type \in EventTypes, receiveWebhook(r, o, type)
      PROVE  IInv'
  BY <1>5, ReceiveWebhookKeeps
<1>6. ASSUME NEW r \in Requests, RequestStep(r)  PROVE IInv'
  BY <1>6, ConfirmCodKeeps, CreateRazorpayOrderKeeps, MarkPaidKeeps, EmptyCartKeeps,
     CreateDemandAlertsKeeps, AutoCreateShipmentKeeps, ClaimShipmentKeeps, CreateShiprocketOrderKeeps,
     RecordBookingKeeps, AssignShiprocketAwbKeeps, ReleaseClaimKeeps, ReplyKeeps DEF RequestStep
<1>7. ASSUME NEW r \in Requests, requestDies(r) \/ shipmentThrows(r) \/ shiprocketAnswerLost(r)  PROVE IInv'
  BY <1>7, RequestDiesKeeps, ShipmentThrowsKeeps, ShiprocketAnswerLostKeeps
<1>8. CASE UNCHANGED vars
  BY <1>8, CartKeeps DEF vars, rows, outside, IInv, TypeOK
<1> QED
  BY <1>1, <1>2, <1>3, <1>4, <1>5, <1>6, <1>7, <1>8 DEF Next

\* The strengthening holds in every reachable state.
THEOREM Inductive == Spec => []IInv
<1>1. IInv /\ [Next]_vars => IInv'
  BY StepKeeps
<1> QED
  BY Initially, <1>1, PTL DEF Spec

\* The columns' types, and the state a request can be in.
THEOREM OrderTypes == Spec => []TypeOK
<1>1. IInv => TypeOK
  BY DEF IInv
<1> QED
  BY <1>1, Inductive, PTL

\* confirmPayment and markPaid: an order is PAID only if Razorpay took the money,
\* and a cancelled one never is.
THEOREM OnlyCapturedIsPaid == Spec => []PaidIsCaptured
<1>1. IInv => PaidIsCaptured
  BY DEF IInv, MoneyFollowsGateway, PaidIsCaptured
<1> QED
  BY <1>1, Inductive, PTL

\* markPaid: of the browser's call and the webhook's deliveries one does the work,
\* so the seller is alerted once.
THEOREM AlertsGoOutOnce == Spec => []AlertedOnce
<1>1. IInv => AlertedOnce
  BY DEF IInv, OneAlerts, AlertedOnce
<1> QED
  BY <1>1, Inductive, PTL

\* createShipmentForOrder reads the payment before it claims and calls the courier
\* after: what it read still holds then.
THEOREM OnlyPaidIsShipped == Spec => []NothingShipsUnpaid
<1>1. IInv => NothingShipsUnpaid
  BY DEF IInv, ShippersMay, MayHaveShipped, NothingShipsUnpaid
<1> QED
  BY <1>1, Inductive, PTL

-----------------------------------------------------------------------------
(* The shipment of an order.  A request that has booked waits for the label,  *)
(* and a label is only given to an order that is booked: then a late claim or *)
(* release, which asks for an order without a booking, cannot touch it.       *)

BookedFirst ==
    /\ \A r \in Requests : At(r, "awb") => order[req[r].order].booked
    /\ \A o \in Orders : Placed(o) /\ order[o].shipping = "SHIPPED" => order[o].booked

ShipInv == BookedFirst /\ ClaimsAreReleased

\* What ShippedIsFinal says of a step.
StaysShipped ==
    \A o \in Orders : Placed(o) =>
        (order[o].shipping = "SHIPPED" => order'[o].shipping = "SHIPPED" /\ order'[o].booked)

\* A step of one request, by what it does to the shipping of the orders: it gives
\* no label without a booking, and leaves no claim behind.
LEMMA ShipsOn ==
    ASSUME IInv, ShipInv, NEW r \in Requests, NEW new, req' = [req EXCEPT ![r] = new],
           faults' = 0 => faults = 0,
           new.next = "awb" => order'[new.order].booked,
           \A o \in Orders : Placed(o) => Placed(o)' /\ (order[o].booked => order'[o].booked),
           \A o \in Orders : Placed(o) /\ order[o].shipping = "SHIPPED" => order'[o].shipping = "SHIPPED",
           \A o \in Orders : Placed(o)' /\ order'[o].shipping = "SHIPPED" =>
               Placed(o) /\ (order[o].shipping = "SHIPPED" \/ order[o].booked),
           \A o \in Orders : Placed(o)' /\ order'[o].shipping = "PROCESSING" /\ ~order'[o].booked /\ faults' = 0 =>
               \/ new.next \in ShipSteps /\ new.order = o
               \/ /\ Placed(o) /\ order[o].shipping = "PROCESSING" /\ ~order[o].booked
                  /\ ~For(r, ShipSteps, o)
    PROVE  ShipInv' /\ StaysShipped
<1>1. req'[r] = new /\ \A q \in Requests \ {r} : req'[q] = req[q]
  BY DEF IInv, TypeOK
<1>2. StaysShipped
  BY DEF ShipInv, BookedFirst, StaysShipped
<1>3. ASSUME NEW q \in Requests, At(q, "awb")'  PROVE order'[req'[q].order].booked
  <2>1. CASE q = r
    BY <1>1, <1>3, <2>1 DEF At
  <2>2. CASE q # r
    <3>1. At(q, "awb") /\ ~At(q, "idle") /\ req'[q] = req[q]
      BY <1>1, <1>3, <2>2 DEF At
    <3>2. req[q].order \in Orders /\ Placed(req[q].order) /\ order[req[q].order].booked
      BY <3>1, BusyHasOrder DEF IInv, WorksOnPlaced, ShipInv, BookedFirst
    <3> QED
      BY <3>1, <3>2
  <2> QED
    BY <2>1, <2>2
<1>4. BookedFirst'
  BY <1>2, <1>3 DEF ShipInv, BookedFirst, StaysShipped, Placed
<1>5. ASSUME NEW o \in Orders,
             Placed(o)' /\ order'[o].shipping = "PROCESSING" /\ ~order'[o].booked /\ faults' = 0
      PROVE  \E q \in Requests : req'[q].next \in ShipSteps /\ req'[q].order = o
  <2>1. CASE new.next \in ShipSteps /\ new.order = o
    BY <1>1, <2>1
  <2>2. CASE /\ Placed(o) /\ order[o].shipping = "PROCESSING" /\ ~order[o].booked
             /\ ~For(r, ShipSteps, o)
    <3>1. PICK q \in Requests : req[q].next \in ShipSteps /\ req[q].order = o
      BY <1>5, <2>2 DEF ShipInv, ClaimsAreReleased
    <3> QED
      BY <1>1, <2>2, <3>1 DEF For
  <2> QED
    BY <1>5, <2>1, <2>2
<1>6. ClaimsAreReleased'
  BY <1>5 DEF ClaimsAreReleased, Placed
<1> QED
  BY <1>2, <1>4, <1>6 DEF ShipInv

\* What a request that goes on leaves of its record.
LEMMA GoesTo ==
    ASSUME IInv, NEW r \in Requests, ~At(r, "idle"),
           NEW step \in PaidSteps \cup ShipSteps \cup Begins, Go(r, step)
    PROVE  \E new : /\ req' = [req EXCEPT ![r] = new]
                    /\ new.next = step /\ new.order = req[r].order
<1>1. req' = [req EXCEPT ![r] = [next |-> step, order |-> req[r].order, caller |-> req[r].caller]]
  BY GoIs DEF IInv
<1> DEFINE new == [next |-> step, order |-> req[r].order, caller |-> req[r].caller]
<1>2. req' = [req EXCEPT ![r] = new] /\ new.next = step /\ new.order = req[r].order
  BY <1>1
<1> QED
  BY <1>2

LEMMA NoFaultBefore == ASSUME IInv, UNCHANGED faults \/ Fault  PROVE faults' = 0 => faults = 0
  BY OrderAssumption DEF IInv, TypeOK, Fault

\* The steps of a request that is not shipping.
LEMMA OthersShip ==
    ASSUME IInv, ShipInv, NEW r \in Requests, NEW new, req' = [req EXCEPT ![r] = new],
           UNCHANGED faults \/ Fault, new.next # "awb",
           \A o \in Orders : Placed(o) =>
               Placed(o)' /\ order'[o].shipping = order[o].shipping /\ order'[o].booked = order[o].booked,
           \A o \in Orders : ~Placed(o) /\ Placed(o)' => order'[o].shipping = "NOT_SHIPPED",
           Fault \/ req[r].next \notin ShipSteps
    PROVE  ShipInv' /\ StaysShipped
<1>1. faults' = 0 => faults = 0
  BY NoFaultBefore
<1>2. faults' = 0 => ~Fault
  BY DEF IInv, TypeOK, Fault
<1>3. ASSUME NEW o \in Orders,
             Placed(o)' /\ order'[o].shipping = "PROCESSING" /\ ~order'[o].booked /\ faults' = 0
      PROVE  /\ Placed(o) /\ order[o].shipping = "PROCESSING" /\ ~order[o].booked
             /\ ~For(r, ShipSteps, o)
  BY <1>2, <1>3 DEF For
<1> QED
  BY <1>1, <1>3, ShipsOn

LEMMA CheckoutShips ==
    ASSUME IInv, ShipInv, NEW r \in Requests, NEW o \in Orders, NEW method \in Methods,
           beginCheckout(r, o, method)
    PROVE  ShipInv' /\ StaysShipped
<1>1. PICK step \in {"confirmCod", "gateway", "reply"} : Start(r, o, step, "browser")
  BY DEF beginCheckout
<1> DEFINE new == [next |-> step, order |-> o, caller |-> "browser"]
<1>2. req' = [req EXCEPT ![r] = new] /\ new.next # "awb" /\ req[r].next \notin ShipSteps
  BY <1>1 DEF Start, At, ShipSteps
<1>3. \A a \in Orders \ {o} : order'[a] = order[a]
  BY DEF beginCheckout, IInv, TypeOK
<1>4. order'[o].shipping = "NOT_SHIPPED" /\ ~Placed(o) /\ UNCHANGED faults
  BY DEF beginCheckout, IInv, TypeOK
<1> HIDE DEF new
<1>5. \A a \in Orders : Placed(a) =>
         Placed(a)' /\ order'[a].shipping = order[a].shipping /\ order'[a].booked = order[a].booked
  BY <1>3, <1>4 DEF Placed
<1>6. \A a \in Orders : ~Placed(a) /\ Placed(a)' => order'[a].shipping = "NOT_SHIPPED"
  BY <1>3, <1>4 DEF Placed
<1> QED
  BY <1>2, <1>4, <1>5, <1>6, OthersShip

\* The checkout's own steps and markPaid change other columns of the row.
LEMMA RowKeepsShipping ==
    ASSUME IInv, IInv', ShipInv, NEW r \in Requests, ~At(r, "idle"), req[r].next \notin ShipSteps,
           NEW step \in (PaidSteps \cup ShipSteps) \ {"awb"}, Go(r, step), UNCHANGED faults,
           NEW x \in OrderRow, order' = [order EXCEPT ![req[r].order] = x],
           x.shipping = order[req[r].order].shipping, x.booked = order[req[r].order].booked
    PROVE  ShipInv' /\ StaysShipped
<1>1. PICK o \in Orders : o = req[r].order
  BY BusyHasOrder DEF IInv
<1>2. Placed(o) /\ x # NoOrder
  BY <1>1, RowIsPlaced DEF IInv, WorksOnPlaced
<1>3. order'[o] = x /\ \A a \in Orders \ {o} : order'[a] = order[a]
  BY <1>1 DEF IInv, TypeOK
<1>4. \A a \in Orders : Placed(a) =>
         Placed(a)' /\ order'[a].shipping = order[a].shipping /\ order'[a].booked = order[a].booked
  BY <1>1, <1>2, <1>3 DEF Placed
<1>5. \A a \in Orders : Placed(a)' => Placed(a)
  BY <1>2, <1>3 DEF Placed
<1>6. PICK new : req' = [req EXCEPT ![r] = new] /\ new.next = step
  BY GoesTo
<1> QED
  BY <1>4, <1>5, <1>6, OthersShip

LEMMA CheckoutStepsShip ==
    ASSUME IInv, IInv', ShipInv, NEW r \in Requests,
           \/ confirmCod(r) \/ createRazorpayOrder(r)
           \/ /\ markPaid(r) /\ order[req[r].order].payment # "PAID"
    PROVE  ShipInv' /\ StaysShipped
<1>1. ~At(r, "idle") /\ req[r].next \notin ShipSteps /\ UNCHANGED faults
  BY DEF confirmCod, createRazorpayOrder, markPaid, At, ShipSteps
<1>2. PICK o \in Orders : o = req[r].order /\ Placed(o) /\ order[o] \in OrderRow
  BY <1>1, BusyHasOrder, PlacedIsRow DEF IInv, WorksOnPlaced
<1>3. PICK step \in {"emptyCart", "reply"} : Go(r, step)
  BY DEF confirmCod, createRazorpayOrder, markPaid, Finish
<1>4. PICK x \in {[order[o] EXCEPT !.status = "CONFIRMED"], [order[o] EXCEPT !.gateway = TRUE],
                  [order[o] EXCEPT !.status = "CANCELLED", !.payment = "FAILED"],
                  [order[o] EXCEPT !.payment = "PAID", !.status = "CONFIRMED"]} :
           order' = [order EXCEPT ![o] = x]
  BY <1>2 DEF confirmCod, createRazorpayOrder, markPaid, IInv, TypeOK
<1>5. x \in OrderRow /\ x.shipping = order[o].shipping /\ x.booked = order[o].booked
  BY <1>2 DEF OrderRow
<1> QED
  BY <1>1, <1>2, <1>3, <1>4, <1>5, RowKeepsShipping DEF PaidSteps

\* The steps that leave the orders alone.
LEMMA GoesOnShips ==
    ASSUME IInv, ShipInv, NEW r \in Requests, ~At(r, "idle"), UNCHANGED order,
           UNCHANGED faults \/ Fault, NEW step \in (PaidSteps \cup ShipSteps) \ {"awb"}, Go(r, step),
           Fault \/ req[r].next \notin ShipSteps
    PROVE  ShipInv' /\ StaysShipped
<1>1. PICK new : req' = [req EXCEPT ![r] = new] /\ new.next = step
  BY GoesTo
<1> QED
  BY <1>1, OthersShip DEF Placed

LEMMA StartsShip ==
    ASSUME IInv, ShipInv, NEW r \in Requests, NEW o, NEW step \in {"markPaid", "reply", "claim"}, NEW caller,
           Start(r, o, step, caller), UNCHANGED <<order, faults>>
    PROVE  ShipInv' /\ StaysShipped
<1> DEFINE new == [next |-> step, order |-> o, caller |-> caller]
<1>1. req' = [req EXCEPT ![r] = new] /\ new.next # "awb" /\ req[r].next \notin ShipSteps
  BY DEF Start, At, ShipSteps
<1> HIDE DEF new
<1> QED
  BY <1>1, OthersShip DEF Placed

LEMMA EndsShip ==
    ASSUME IInv, ShipInv, NEW r \in Requests, reply(r) \/ requestDies(r)
    PROVE  ShipInv' /\ StaysShipped
<1>1. /\ req' = [req EXCEPT ![r] = Idle] /\ Idle.next # "awb" /\ UNCHANGED order
      /\ UNCHANGED faults \/ Fault
      /\ Fault \/ req[r].next \notin ShipSteps
  BY DEF reply, requestDies, rows, Idle, At, ShipSteps
<1> QED
  BY <1>1, OthersShip DEF Placed

\* A request that is shipping, and what its step makes of the row.
LEMMA ShipperShips ==
    ASSUME IInv, ShipInv, NEW r \in Requests, req[r].next \in ShipSteps, UNCHANGED faults \/ Fault,
           NEW step \in PaidSteps \cup ShipSteps, Go(r, step),
           NEW x \in OrderRow, order' = [order EXCEPT ![req[r].order] = x],
           step = "awb" => x.booked,
           order[req[r].order].booked => x.booked,
           order[req[r].order].shipping = "SHIPPED" => x.shipping = "SHIPPED",
           x.shipping = "SHIPPED" => order[req[r].order].shipping = "SHIPPED" \/ order[req[r].order].booked,
           step \notin ShipSteps => Fault \/ x.booked \/ x.shipping # "PROCESSING"
    PROVE  ShipInv' /\ StaysShipped
<1>1. PICK o \in Orders : /\ o = req[r].order /\ ~At(r, "idle") /\ Placed(o) /\ order[o] \in OrderRow
  BY ShipperIs
<1>2. PICK new : req' = [req EXCEPT ![r] = new] /\ new.next = step /\ new.order = o
  BY <1>1, GoesTo
<1>3. order'[o] = x /\ x # NoOrder /\ \A a \in Orders \ {o} : order'[a] = order[a]
  BY <1>1, RowIsPlaced DEF IInv, TypeOK
<1>4. (faults' = 0 => faults = 0) /\ (faults' = 0 => ~Fault)
  BY NoFaultBefore DEF IInv, TypeOK, Fault
<1>5. ~(x.shipping = "SHIPPED" /\ x.shipping = "PROCESSING")
  OBVIOUS
<1>6. \A a \in Orders : Placed(a) => Placed(a)' /\ (order[a].booked => order'[a].booked)
  BY <1>1, <1>3 DEF Placed
<1>7. \A a \in Orders : Placed(a) /\ order[a].shipping = "SHIPPED" => order'[a].shipping = "SHIPPED"
  BY <1>1, <1>3
<1>8. \A a \in Orders : Placed(a)' /\ order'[a].shipping = "SHIPPED" =>
          Placed(a) /\ (order[a].shipping = "SHIPPED" \/ order[a].booked)
  BY <1>1, <1>3 DEF Placed
<1>9. ASSUME NEW a \in Orders,
             Placed(a)' /\ order'[a].shipping = "PROCESSING" /\ ~order'[a].booked /\ faults' = 0
      PROVE  \/ new.next \in ShipSteps /\ new.order = a
             \/ /\ Placed(a) /\ order[a].shipping = "PROCESSING" /\ ~order[a].booked
                /\ ~For(r, ShipSteps, a)
  <2>1. CASE a = o
    BY <1>2, <1>3, <1>4, <1>9, <2>1
  <2>2. CASE a # o
    BY <1>1, <1>3, <1>9, <2>2 DEF For, Placed
  <2> QED
    BY <2>1, <2>2
<1>10. new.next = "awb" => order'[new.order].booked
  BY <1>2, <1>3
<1> QED
  BY <1>2, <1>4, <1>6, <1>7, <1>8, <1>9, <1>10, ShipsOn

\* claim, create, record, label and release.
LEMMA ShippingShips ==
    ASSUME IInv, ShipInv, NEW r \in Requests,
           \/ claimShipment(r) \/ createShiprocketOrder(r) \/ shiprocketAnswerLost(r)
           \/ recordBooking(r) \/ assignShiprocketAwb(r) \/ releaseClaim(r) \/ shipmentThrows(r)
    PROVE  ShipInv' /\ StaysShipped
<1>1. req[r].next \in ShipSteps
  BY DEF claimShipment, createShiprocketOrder, shiprocketAnswerLost, recordBooking, assignShiprocketAwb,
         releaseClaim, shipmentThrows, At, ShipSteps
<1>2. PICK o \in Orders : /\ o = req[r].order /\ ~At(r, "idle") /\ Placed(o) /\ order[o] \in OrderRow
  BY <1>1, ShipperIs
<1>3. order = [order EXCEPT ![o] = order[o]]
  BY DEF IInv, TypeOK
<1>4. "reply" \in PaidSteps /\ "reply" \notin ShipSteps /\ {"create", "record", "release", "awb"} \subseteq ShipSteps
  BY DEF PaidSteps, ShipSteps
<1>5. order[o].shipping = "SHIPPED" => order[o].booked
  BY <1>2 DEF ShipInv, BookedFirst
<1>6. CASE claimShipment(r)
  <2>1. CASE ~order[o].booked /\ order' = [order EXCEPT ![o].shipping = "PROCESSING"] /\ Go(r, "create")
    <3> DEFINE x == [order[o] EXCEPT !.shipping = "PROCESSING"]
    <3>1. x \in OrderRow /\ x.booked = order[o].booked /\ x.shipping = "PROCESSING"
      BY <1>2 DEF OrderRow
    <3>2. order' = [order EXCEPT ![o] = x] /\ UNCHANGED faults
      BY <1>6, <2>1 DEF IInv, TypeOK, claimShipment
    <3> HIDE DEF x
    <3>3. order[o].shipping # "SHIPPED" /\ x.shipping # "SHIPPED" /\ "create" \in ShipSteps
      BY <1>4, <1>5, <2>1, <3>1
    <3>4. order' = [order EXCEPT ![req[r].order] = x] /\ (order[req[r].order].booked => x.booked)
      BY <1>2, <2>1, <3>1, <3>2
    <3>5. PICK step \in {"create"} : Go(r, step)
      BY <2>1
    <3>6. step \in ShipSteps /\ step # "awb" /\ order[req[r].order].shipping # "SHIPPED"
      BY <1>2, <3>3
    <3> QED
      BY <1>1, <3>1, <3>2, <3>3, <3>4, <3>5, <3>6, ShipperShips
  <2>2. CASE order[o].booked /\ Finish(r) /\ UNCHANGED order
    BY <1>1, <1>2, <1>3, <1>4, <1>6, <2>2, ShipperShips DEF Finish, claimShipment
  <2> QED
    BY <1>2, <1>6, <2>1, <2>2 DEF claimShipment
<1>7. CASE createShiprocketOrder(r) \/ shiprocketAnswerLost(r)
  <2>1. PICK step \in {"record", "release"} : Go(r, step)
    BY <1>7 DEF createShiprocketOrder, shiprocketAnswerLost
  <2>2. UNCHANGED order /\ (UNCHANGED faults \/ Fault)
    BY <1>7 DEF createShiprocketOrder, shiprocketAnswerLost, rows
  <2> QED
    BY <1>1, <1>2, <1>3, <1>4, <2>1, <2>2, ShipperShips
<1>8. CASE recordBooking(r)
  <2> DEFINE x == [order[o] EXCEPT !.booked = TRUE]
  <2>1. x \in OrderRow /\ x.booked /\ x.shipping = order[o].shipping
    BY <1>2 DEF OrderRow
  <2>2. order' = [order EXCEPT ![o] = x] /\ UNCHANGED faults
    BY <1>2, <1>8 DEF IInv, TypeOK, recordBooking
  <2>3. PICK step \in {"awb", "reply"} : Go(r, step)
    BY <1>8 DEF recordBooking, Finish
  <2> HIDE DEF x
  <2> QED
    BY <1>1, <1>2, <1>4, <2>1, <2>2, <2>3, ShipperShips
<1>9. CASE assignShiprocketAwb(r)
  <2>1. order[o].booked
    BY <1>2, <1>9 DEF assignShiprocketAwb, ShipInv, BookedFirst
  <2>2. PICK x \in {order[o], [order[o] EXCEPT !.shipping = "SHIPPED"]} : order' = [order EXCEPT ![o] = x]
    BY <1>2, <1>3, <1>9 DEF IInv, TypeOK, assignShiprocketAwb
  <2>3. x \in OrderRow /\ x.booked /\ (order[o].shipping = "SHIPPED" => x.shipping = "SHIPPED")
    BY <1>2, <2>1, <2>2 DEF OrderRow
  <2> QED
    BY <1>1, <1>2, <1>4, <1>9, <2>1, <2>2, <2>3, ShipperShips DEF assignShiprocketAwb, Finish
<1>10. CASE releaseClaim(r)
  <2>1. CASE order[o].booked
    <3>1. UNCHANGED <<order, faults>> /\ Go(r, "reply")
      BY <1>2, <1>10, <2>1 DEF releaseClaim, Finish
    <3> QED
      BY <1>1, <1>2, <1>3, <1>4, <2>1, <3>1, ShipperShips
  <2>2. CASE ~order[o].booked
    <3> DEFINE x == [order[o] EXCEPT !.shipping = "NOT_SHIPPED"]
    <3>1. x \in OrderRow /\ x.booked = order[o].booked /\ x.shipping = "NOT_SHIPPED"
      BY <1>2 DEF OrderRow
    <3>2. order' = [order EXCEPT ![o] = x] /\ UNCHANGED faults /\ Go(r, "reply")
      BY <1>2, <1>10, <2>2 DEF IInv, TypeOK, releaseClaim, Finish
    <3> HIDE DEF x
    <3> QED
      BY <1>1, <1>2, <1>4, <1>5, <2>2, <3>1, <3>2, ShipperShips
  <2> QED
    BY <2>1, <2>2
<1>11. CASE shipmentThrows(r)
  <2>1. Go(r, "reply") /\ UNCHANGED order /\ Fault
    BY <1>11 DEF shipmentThrows, Finish, rows
  <2> QED
    BY <1>1, <1>2, <1>3, <1>4, <2>1, ShipperShips
<1> QED
  BY <1>6, <1>7, <1>8, <1>9, <1>10, <1>11

LEMMA OtherStepsShip ==
    ASSUME IInv, IInv', ShipInv, NEW r \in Requests,
           \/ emptyCart(r) \/ createDemandAlerts(r) \/ autoCreateShipment(r)
           \/ /\ markPaid(r) /\ order[req[r].order].payment = "PAID"
    PROVE  ShipInv' /\ StaysShipped
<1>1. ~At(r, "idle") /\ req[r].next \notin ShipSteps /\ UNCHANGED <<order, faults>>
  BY DEF emptyCart, createDemandAlerts, autoCreateShipment, markPaid, At, ShipSteps, rows
<1>2. PICK step \in {"sendAlerts", "autoCreate", "claim", "reply"} : Go(r, step)
  BY DEF emptyCart, createDemandAlerts, autoCreateShipment, markPaid, Finish
<1>3. step \in (PaidSteps \cup ShipSteps) \ {"awb"}
  BY DEF PaidSteps, ShipSteps
<1> QED
  BY <1>1, <1>2, <1>3, GoesOnShips

LEMMA SameRows ==
    ASSUME ShipInv, UNCHANGED <<order, req, faults>>
    PROVE  ShipInv' /\ StaysShipped
  BY DEF ShipInv, BookedFirst, ClaimsAreReleased, StaysShipped, Placed, At

LEMMA StepShips == ASSUME IInv, ShipInv, [Next]_vars  PROVE ShipInv' /\ StaysShipped
<1>0. IInv'
  BY StepKeeps
<1>1. ASSUME NEW p \in Products, addToCart(p) \/ removeFromCart(p)  PROVE ShipInv' /\ StaysShipped
  BY <1>1, SameRows DEF addToCart, removeFromCart
<1>2. ASSUME NEW o \in Orders, pay(o)  PROVE ShipInv' /\ StaysShipped
  BY <1>2, SameRows DEF pay, rows
<1>3. ASSUME NEW r \in Requests, NEW o \in Orders, NEW method \in Methods, beginCheckout(r, o, method)
      PROVE  ShipInv' /\ StaysShipped
  BY <1>3, CheckoutShips
<1>4. ASSUME NEW r \in Requests, NEW o \in Orders, confirmPayment(r, o) \/ shipNow(r, o)
      PROVE  ShipInv' /\ StaysShipped
  BY <1>4, StartsShip DEF confirmPayment, shipNow, rows
<1>5. ASSUME NEW r \in Requests, NEW o \in Orders, NEW type \in EventTypes, receiveWebhook(r, o, type)
      PROVE  ShipInv' /\ StaysShipped
  <2>1. PICK step \in {"markPaid", "reply"} : Start(r, o, step, type)
    BY <1>5 DEF receiveWebhook
  <2> QED
    BY <1>5, <2>1, StartsShip DEF receiveWebhook
<1>6. ASSUME NEW r \in Requests, RequestStep(r)  PROVE ShipInv' /\ StaysShipped
  <2>1. CASE markPaid(r)
    BY <1>0, <2>1, CheckoutStepsShip, OtherStepsShip
  <2>2. CASE confirmCod(r) \/ createRazorpayOrder(r)
    BY <1>0, <2>2, CheckoutStepsShip
  <2>3. CASE emptyCart(r) \/ createDemandAlerts(r) \/ autoCreateShipment(r)
    BY <1>0, <2>3, OtherStepsShip
  <2>4. CASE \/ claimShipment(r) \/ createShiprocketOrder(r) \/ recordBooking(r)
             \/ assignShiprocketAwb(r) \/ releaseClaim(r)
    BY <2>4, ShippingShips
  <2>5. CASE reply(r)
    BY <2>5, EndsShip
  <2> QED
    BY <1>6, <2>1, <2>2, <2>3, <2>4, <2>5 DEF RequestStep
<1>7. ASSUME NEW r \in Requests, requestDies(r) \/ shipmentThrows(r) \/ shiprocketAnswerLost(r)
      PROVE  ShipInv' /\ StaysShipped
  BY <1>7, EndsShip, ShippingShips
<1>8. CASE UNCHANGED vars
  BY <1>8, SameRows DEF vars, rows, outside
<1> QED
  BY <1>1, <1>2, <1>3, <1>4, <1>5, <1>6, <1>7, <1>8 DEF Next

LEMMA ShippingInitially == Init => ShipInv
  BY DEF Init, ShipInv, BookedFirst, ClaimsAreReleased, Placed, At, Idle

THEOREM ShippingInductive == Spec => []ShipInv
<1>1. IInv /\ ShipInv /\ [Next]_vars => ShipInv'
  BY StepShips
<1> QED
  BY ShippingInitially, Inductive, <1>1, PTL DEF Spec

\* releaseClaim: whatever shipments of an order cross each other, and without a
\* failure, a claim is not left behind without anybody working on it.
THEOREM ClaimsReleased == Spec => []ClaimsAreReleased
<1>1. ShipInv => ClaimsAreReleased
  BY DEF ShipInv
<1> QED
  BY <1>1, ShippingInductive, PTL

\* createShipmentForOrder: no late claim or release of another request takes a
\* shipped order back, failures or not.
THEOREM ShippedStays == Spec => ShippedIsFinal
<1>1. IInv /\ ShipInv /\ [Next]_vars =>
        [\A o \in Orders : Placed(o) =>
          (order[o].shipping = "SHIPPED" => order'[o].shipping = "SHIPPED" /\ order'[o].booked)]_vars
  BY StepShips DEF StaysShipped
<1> QED
  BY <1>1, Inductive, ShippingInductive, PTL DEF Spec, ShippedIsFinal
================================================================================
