-------------------------- MODULE OneTimeCodes_proofs --------------------------
(***************************************************************************)
(* Whatever requests issue, resend, guess and follow links at once, for any  *)
(* number of them and of rows: each code or link has one effect, and a code    *)
(* is compared with a bounded number of guesses (Counted, at the end).        *)
(*                                                                         *)
(* What makes them inductive: a row that is being made is absent and asked   *)
(* for by one request only (OneAsks), so that it never starts with an effect *)
(* of its own; and a request that is past consume holds a row that is no     *)
(* longer open, alone (OneHolds).                                            *)
(***************************************************************************)
EXTENDS OneTimeCodes, FiniteSetTheorems, WellFoundedInduction, TLAPS

Making == {"delete", "create"}
Using == {"send", "miss", "consume", "effect"}
Has(r, i) == At(r, "effect") /\ req[r].item = i

\* A row that is being made is absent and nobody else's.
OneAsks ==
    \A r \in Requests : req[r].next \in Making =>
        /\ row[req[r].item].status = "absent"
        /\ \A q \in Requests \ {r} : At(q, "idle") \/ req[q].item # req[r].item

\* A row that is used, or is to be replaced, exists.
UsedExists ==
    /\ \A r \in Requests : req[r].next \in Using => row[req[r].item].status # "absent"
    /\ \A r \in Requests : req[r].next \in Making => \A j \in req[r].old : row[j].status # "absent"

\* An effect is had, or about to be had, once, and of a row that is not open.
OneHolds ==
    \A i \in Items :
        /\ row[i].status \in {"absent", "open"} =>
              effects[i] = 0 /\ \A r \in Requests : ~Has(r, i)
        /\ effects[i] <= 1
        /\ effects[i] = 1 => \A r \in Requests : ~Has(r, i)
        /\ \A q, r \in Requests : Has(q, i) /\ Has(r, i) => q = r

IInv == Columns /\ AttemptsWithinLimit /\ OneAsks /\ UsedExists /\ OneHolds

LEMMA Initially == Init => IInv
<1> SUFFICES ASSUME Init PROVE IInv
  OBVIOUS
<1>1. Columns
  BY CodeAssumption DEF Init, Columns, Statuses, Request
<1>2. AttemptsWithinLimit
  BY CodeAssumption DEF Init, AttemptsWithinLimit, Items
<1>3. OneAsks /\ UsedExists /\ OneHolds
  BY DEF Init, OneAsks, UsedExists, OneHolds, Has, At, Idle, Making, Using
<1> QED
  BY <1>1, <1>2, <1>3 DEF IInv

\* The rows after some of them are deleted.
LEMMA DeleteRows ==
    ASSUME Columns, NEW is \in SUBSET Items, \A i \in is : row[i].status # "absent"
    PROVE  /\ Delete(is) \in [Items -> [status : Statuses, created : Nat, expires : Nat, attempts : Nat]]
           /\ \A i \in Items :
                 /\ Delete(is)[i].attempts = row[i].attempts
                 /\ (Delete(is)[i].status = "absent") <=> (row[i].status = "absent")
                 /\ Delete(is)[i].status = "open" => row[i].status = "open"
  BY DEF Columns, Delete, Statuses

\* Steps that leave the effects and all that a request uses alone, and only ever
\* close rows.
LEMMA ClosingRows ==
    ASSUME IInv, Columns', UNCHANGED <<req, effects>>,
           \A i \in Items :
              /\ row'[i].attempts = row[i].attempts
              /\ (row'[i].status = "absent") <=> (row[i].status = "absent")
              /\ row'[i].status = "open" => row[i].status = "open"
    PROVE  IInv'
<1>1. AttemptsWithinLimit'
  BY DEF IInv, AttemptsWithinLimit, Items
<1>2. \A r \in Requests : ~At(r, "idle") => req[r].item \in Items
  BY DEF IInv, Columns, Request, Idle, At
<1>3. OneAsks'
  BY <1>2 DEF IInv, OneAsks, At, Making
<1>4. UsedExists'
  <2>1. \A r \in Requests : req[r].next \in Making => req[r].old \subseteq Items
    BY DEF IInv, Columns, Request, Idle, Making
  <2> QED  BY <1>2, <2>1 DEF IInv, UsedExists, At, Using
<1>5. OneHolds'
  BY DEF IInv, OneHolds, Has, At
<1> QED
  BY <1>1, <1>3, <1>4, <1>5 DEF IInv

\* One request goes on, and the rows change as a closing or not at all.
LEMMA OneGoesOn ==
    ASSUME IInv, Columns', NEW r \in Requests, NEW new,
           req' = [req EXCEPT ![r] = new], UNCHANGED effects,
           \A i \in Items :
              /\ i \in Codes => row'[i].attempts <= MaxAttempts
              /\ (row'[i].status = "absent") <=> (row[i].status = "absent")
              /\ row'[i].status = "open" => row[i].status = "open",
           new.next \in {"idle"} \cup Making \cup {"send", "miss", "consume"},
           new.next # "idle" => new.item \in Items,
           new.next \in Making => /\ row[new.item].status = "absent"
                                  /\ \A q \in Requests \ {r} : At(q, "idle") \/ req[q].item # new.item,
           new.next \in Using => row[new.item].status # "absent",
           new.next \in Making =>
              new.old \subseteq Items /\ \A j \in new.old : row[j].status # "absent"
    PROVE  IInv'
<1>1. req'[r] = new /\ \A q \in Requests \ {r} : req'[q] = req[q]
  BY DEF IInv, Columns
<1>2. \A q \in Requests : ~At(q, "idle") => req[q].item \in Items
  BY DEF IInv, Columns, Request, Idle, At
<1>3. AttemptsWithinLimit'
  BY DEF AttemptsWithinLimit, Items
<1>4. OneAsks'
  <2>1. ASSUME NEW q \in Requests, req'[q].next \in Making
        PROVE  row'[req'[q].item].status = "absent"
    BY <1>1, <1>2, <2>1 DEF IInv, OneAsks, At, Making
  <2>2. ASSUME NEW q \in Requests, req'[q].next \in Making, NEW p \in Requests \ {q},
               req'[p].next # "idle"
        PROVE  req'[p].item # req'[q].item
    <3>1. CASE q = r
      BY <1>1, <2>2, <3>1 DEF At
    <3>2. CASE q # r /\ p # r
      BY <1>1, <2>2, <3>2 DEF IInv, OneAsks, At
    <3>3. CASE q # r /\ p = r
      <4>1. row[req[q].item].status = "absent"
        BY <1>1, <2>2, <3>3 DEF IInv, OneAsks
      <4>2. CASE new.next \in Making
        BY <1>1, <2>2, <3>3, <4>2 DEF At, Making
      <4>3. CASE new.next \in Using
        BY <1>1, <2>2, <3>3, <4>1, <4>3
      <4> QED  BY <1>1, <2>2, <3>3, <4>2, <4>3 DEF Using
    <3> QED  BY <3>1, <3>2, <3>3
  <2> QED  BY <2>1, <2>2 DEF OneAsks, At
<1>5. UsedExists'
  <2>1. \A q \in Requests : req[q].next \in Making => req[q].old \subseteq Items
    BY DEF IInv, Columns, Request, Idle, Making
  <2>2. ASSUME NEW q \in Requests, req'[q].next \in Using
        PROVE  row'[req'[q].item].status # "absent"
    BY <1>1, <1>2, <2>2 DEF IInv, UsedExists, At, Using
  <2>3. ASSUME NEW q \in Requests, req'[q].next \in Making, NEW j \in req'[q].old
        PROVE  row'[j].status # "absent"
    BY <1>1, <2>1, <2>3 DEF IInv, UsedExists, At
  <2> QED  BY <2>2, <2>3 DEF UsedExists, At
<1>6. OneHolds'
  <2>1. ASSUME NEW q \in Requests, NEW i, Has(q, i)'  PROVE Has(q, i) /\ q # r
    BY <1>1, <2>1 DEF Has, At, Making
  <2> QED  BY <2>1 DEF IInv, OneHolds
<1> QED
  BY <1>3, <1>4, <1>5, <1>6 DEF IInv

-----------------------------------------------------------------------------
(* One lemma per action.                                                     *)

Issuing == [next : Making, item : Items, expires : Nat, old : SUBSET Items]
Going == [next : Using, item : Items]

LEMMA RequestIs == Request = {Idle} \cup Issuing \cup Going
  BY DEF Request, Issuing, Going, Making, Using

LEMMA IssueKeeps == ASSUME IInv, NEW r \in Requests, NEW i \in Items, issue(r, i) PROVE IInv'
<1> DEFINE new == [next |-> "delete", item |-> i, expires |-> clock + Life(i), old |-> {}]
<1>1. new \in Issuing
  BY CodeAssumption DEF IInv, Columns, Issuing, Making, Life
<1>2. Columns'
  <2>1. req' \in [Requests -> Request]
    BY <1>1, RequestIs DEF IInv, Columns, issue
  <2>2. before' \in [Items -> SUBSET Items]
    BY DEF IInv, Columns, issue, Same, Items
  <2> QED  BY <2>1, <2>2 DEF IInv, Columns, issue
<1>3. \A q \in Requests \ {r} : At(q, "idle") \/ req[q].item # i
  BY DEF issue, Asked
<1> QED
  BY <1>2, <1>3, OneGoesOn DEF issue, IInv, AttemptsWithinLimit, Making, Using

LEMMA DeleteOlderKeeps == ASSUME IInv, NEW r \in Requests, deleteOlder(r) PROVE IInv'
<1> DEFINE i == req[r].item
           old == OpenAmong(Same(i))
           seen == [req[r] EXCEPT !.next = "create", !.old = old]
           done == [req[r] EXCEPT !.next = "create"]
<1>1. req[r] \in Issuing /\ req[r].next = "delete"
  BY RequestIs DEF IInv, Columns, deleteOlder, At, Idle, Going, Using
<1>2. old \in SUBSET Items /\ \A j \in old : row[j].status = "open"
  BY DEF OpenAmong, Same, Items
<1>3. seen \in Issuing /\ done \in Issuing
  BY <1>1, <1>2 DEF Issuing, Making
<1>4. req[r].old \in SUBSET Items /\ \A j \in req[r].old : row[j].status # "absent"
  BY <1>1 DEF IInv, UsedExists, Making, Issuing
<1>5. UNCHANGED <<held, clock, before, effects, deaths>>
  BY DEF deleteOlder
<1>6. row[i].status = "absent" /\ \A q \in Requests \ {r} : At(q, "idle") \/ req[q].item # i
  BY <1>1 DEF IInv, OneAsks, Making
<1>7. CASE i \in Codes
  <2>1. req' = [req EXCEPT ![r] = seen] /\ row' = row
    BY <1>1, <1>7 DEF deleteOlder, IInv, Columns
  <2>2. Columns'
    BY <1>3, <1>5, <2>1, RequestIs DEF IInv, Columns
  <2>3. seen.next = "create" /\ seen.item = i /\ seen.old = old /\ i \in Items
    BY <1>1 DEF Issuing
  <2> HIDE DEF seen, old, i
  <2> QED
    BY <1>2, <1>5, <1>6, <2>1, <2>2, <2>3, OneGoesOn DEF IInv, AttemptsWithinLimit, Making, Using
<1>8. CASE i \notin Codes
  <2>1. req' = [req EXCEPT ![r] = done] /\ row' = Delete(old)
    BY <1>1, <1>8 DEF deleteOlder, IInv, Columns
  <2>2. /\ row' \in [Items -> [status : Statuses, created : Nat, expires : Nat, attempts : Nat]]
        /\ \A j \in Items :
              /\ row'[j].attempts = row[j].attempts
              /\ (row'[j].status = "absent") <=> (row[j].status = "absent")
              /\ row'[j].status = "open" => row[j].status = "open"
    BY <1>2, <2>1, DeleteRows DEF IInv
  <2>3. Columns'
    BY <1>3, <1>5, <2>1, <2>2, RequestIs DEF IInv, Columns
  <2>4. done.next = "create" /\ done.item = i /\ done.old = req[r].old /\ i \in Items
    BY <1>1 DEF Issuing
  <2> QED
    BY <1>4, <1>5, <1>6, <2>1, <2>2, <2>3, <2>4, OneGoesOn DEF IInv, AttemptsWithinLimit, Making, Using, Items
<1> QED
  BY <1>7, <1>8

LEMMA CreateKeeps == ASSUME IInv, NEW r \in Requests, createRow(r) PROVE IInv'
<1> DEFINE i == req[r].item
           new == [next |-> "send", item |-> i]
           made == [status |-> "open", created |-> clock, expires |-> req[r].expires, attempts |-> 0]
<1>1. req[r] \in Issuing /\ req[r].next = "create" /\ i \in Items
  BY RequestIs DEF IInv, Columns, createRow, At, Idle, Going, Using, Issuing
<1>2. /\ row[i].status = "absent" /\ \A q \in Requests \ {r} : At(q, "idle") \/ req[q].item # i
      /\ req[r].old \in SUBSET Items /\ \A j \in req[r].old : row[j].status # "absent"
  BY <1>1 DEF IInv, OneAsks, UsedExists, Making, Issuing
<1>3. /\ row' = [Delete(req[r].old) EXCEPT ![i] = made]
      /\ req' = [req EXCEPT ![r] = new]
      /\ UNCHANGED <<held, clock, before, effects, deaths>>
  BY DEF createRow, Then
<1>4. made \in [status : Statuses, created : Nat, expires : Nat, attempts : Nat] /\ new \in Going
  BY <1>1, CodeAssumption DEF IInv, Columns, Statuses, Going, Using, Issuing
<1>5. /\ row' \in [Items -> [status : Statuses, created : Nat, expires : Nat, attempts : Nat]]
      /\ row'[i] = made
      /\ \A j \in Items \ {i} :
            /\ row'[j].attempts = row[j].attempts
            /\ (row'[j].status = "absent") <=> (row[j].status = "absent")
            /\ row'[j].status = "open" => row[j].status = "open"
  <2> DEFINE left == Delete(req[r].old)
  <2>1. /\ left \in [Items -> [status : Statuses, created : Nat, expires : Nat, attempts : Nat]]
        /\ \A j \in Items :
              /\ left[j].attempts = row[j].attempts
              /\ (left[j].status = "absent") <=> (row[j].status = "absent")
              /\ left[j].status = "open" => row[j].status = "open"
    BY <1>2, DeleteRows DEF IInv
  <2>2. row' = [left EXCEPT ![i] = made]
    BY <1>3
  <2> HIDE DEF left, made, i
  <2> QED  BY <1>1, <1>4, <2>1, <2>2
<1>6. req'[r] = new /\ \A q \in Requests \ {r} : req'[q] = req[q]
  BY <1>3 DEF IInv, Columns
<1>7. \A q \in Requests : ~At(q, "idle") => req[q].item \in Items
  BY DEF IInv, Columns, Request, Idle, At
<1>8. Columns'
  BY <1>3, <1>4, <1>5, RequestIs DEF IInv, Columns
<1>9. AttemptsWithinLimit'
  BY <1>5, CodeAssumption DEF IInv, AttemptsWithinLimit, Items
<1>10. OneAsks'
  <2>1. ASSUME NEW q \in Requests, req'[q].next \in Making  PROVE q # r /\ req'[q] = req[q]
    BY <1>6, <2>1 DEF Making
  <2>2. ASSUME NEW q \in Requests, req'[q].next \in Making
        PROVE  row'[req'[q].item].status = "absent"
    <3>1. req[q].item \in Items \ {i}
      BY <1>1, <1>2, <1>7, <2>1, <2>2 DEF At, Making
    <3> QED  BY <1>5, <2>1, <2>2, <3>1 DEF IInv, OneAsks
  <2>3. ASSUME NEW q \in Requests, req'[q].next \in Making, NEW p \in Requests \ {q},
               req'[p].next # "idle"
        PROVE  req'[p].item # req'[q].item
    <3>1. CASE p = r
      BY <1>2, <1>6, <2>1, <2>3, <3>1 DEF At, Making
    <3>2. CASE p # r
      BY <1>6, <2>1, <2>3, <3>2 DEF IInv, OneAsks, At
    <3> QED  BY <3>1, <3>2
  <2> QED  BY <2>2, <2>3 DEF OneAsks, At
<1>11. UsedExists'
  <2>1. \A j \in Items : row[j].status # "absent" => row'[j].status # "absent"
    BY <1>5
  <2>2. \A q \in Requests : req[q].next \in Making => req[q].old \subseteq Items
    BY DEF IInv, Columns, Request, Idle, Making
  <2>3. ASSUME NEW q \in Requests, req'[q].next \in Using
        PROVE  row'[req'[q].item].status # "absent"
    <3>1. CASE q = r
      BY <1>5, <1>6, <3>1
    <3>2. CASE q # r
      BY <1>6, <1>7, <2>1, <2>3, <3>2 DEF IInv, UsedExists, At, Using
    <3> QED  BY <3>1, <3>2
  <2>4. ASSUME NEW q \in Requests, req'[q].next \in Making, NEW j \in req'[q].old
        PROVE  row'[j].status # "absent"
    <3>1. q # r
      BY <1>6, <2>4 DEF Making
    <3> QED  BY <1>6, <2>1, <2>2, <2>4, <3>1 DEF IInv, UsedExists
  <2> QED  BY <2>3, <2>4 DEF UsedExists
<1>12. OneHolds'
  <2>1. ASSUME NEW q \in Requests, NEW j, Has(q, j)'  PROVE Has(q, j) /\ q # r
    BY <1>6, <2>1 DEF Has, At
  <2>2. effects[i] = 0 /\ \A q \in Requests : ~Has(q, i)
    BY <1>1, <1>2 DEF IInv, OneHolds
  <2>3. ASSUME NEW j \in Items \ {i}, row'[j].status \in {"absent", "open"}
        PROVE  row[j].status \in {"absent", "open"}
    BY <1>5, <2>3
  <2> QED  BY <1>3, <2>1, <2>2, <2>3 DEF IInv, OneHolds
<1> QED
  BY <1>8, <1>9, <1>10, <1>11, <1>12 DEF IInv

LEMMA FinishType == ASSUME IInv, NEW r \in Requests, Finish(r) PROVE req' \in [Requests -> Request]
  BY DEF IInv, Columns, Finish, Request

\* A request that ends, with rows closed or a miss counted.
LEMMA EndKeeps ==
    ASSUME IInv, NEW r \in Requests, Finish(r), UNCHANGED effects, Columns',
           \A i \in Items :
              /\ i \in Codes => row'[i].attempts <= MaxAttempts
              /\ (row'[i].status = "absent") <=> (row[i].status = "absent")
              /\ row'[i].status = "open" => row[i].status = "open"
    PROVE  IInv'
  BY OneGoesOn DEF Finish, Idle, Making, Using

LEMMA SendKeeps == ASSUME IInv, NEW r \in Requests, send(r) PROVE IInv'
<1> DEFINE i == req[r].item
<1>1. i \in Items /\ row[i].status # "absent"
  BY DEF IInv, Columns, UsedExists, send, At, Request, Idle, Using
<1>2. Finish(r) /\ UNCHANGED <<clock, before, effects, deaths>> /\ held' \subseteq Items
  BY <1>1 DEF IInv, Columns, send
<1>3. row' = row \/ row' = Delete({i})
  BY DEF send
<1>4. /\ row' \in [Items -> [status : Statuses, created : Nat, expires : Nat, attempts : Nat]]
      /\ \A j \in Items :
            /\ row'[j].attempts = row[j].attempts
            /\ (row'[j].status = "absent") <=> (row[j].status = "absent")
            /\ row'[j].status = "open" => row[j].status = "open"
  <2>1. CASE row' = row
    BY <2>1 DEF IInv, Columns
  <2>2. CASE row' = Delete({i})
    BY <1>1, <2>2, DeleteRows DEF IInv
  <2> QED  BY <1>3, <2>1, <2>2
<1>5. Columns'
  BY <1>2, <1>4, FinishType DEF IInv, Columns
<1> QED
  BY <1>2, <1>4, <1>5, EndKeeps DEF IInv, AttemptsWithinLimit

\* A request that takes up a row that is open.
LEMMA ThenKeeps ==
    ASSUME IInv, NEW r \in Requests, NEW i \in Items, row[i].status = "open",
           NEW step \in {"miss", "consume"}, Then(r, step, i),
           UNCHANGED <<row, held, clock, before, effects, deaths>>
    PROVE  IInv'
<1> DEFINE new == [next |-> step, item |-> i]
<1>1. req' = [req EXCEPT ![r] = new] /\ new \in Going
  BY DEF Then, Going, Using
<1>2. Columns'
  BY <1>1, RequestIs DEF IInv, Columns
<1> QED
  BY <1>1, <1>2, OneGoesOn DEF IInv, AttemptsWithinLimit, Making, Using

LEMMA VerifyCodeKeeps == ASSUME IInv, NEW r \in Requests, NEW typed, verifyCode(r, typed) PROVE IInv'
<1> PICK i \in Latest(Codes) : Then(r, IF typed = i THEN "consume" ELSE "miss", i)
  BY DEF verifyCode
<1>1. i \in Items /\ row[i].status = "open"
  BY DEF Latest, OpenAmong, Items
<1> QED
  BY <1>1, ThenKeeps DEF verifyCode

LEMMA VerifyLinkKeeps ==
    ASSUME IInv, NEW r \in Requests, NEW i \in Items, verifyLink(r, i) PROVE IInv'
  BY ThenKeeps DEF verifyLink

LEMMA CountMissKeeps == ASSUME IInv, NEW r \in Requests, countMiss(r) PROVE IInv'
<1> DEFINE i == req[r].item
<1>1. i \in Items
  BY DEF IInv, Columns, countMiss, At, Request, Idle
<1>2. \/ row' = row
      \/ row[i].attempts < MaxAttempts /\ row' = [row EXCEPT ![i].attempts = @ + 1]
  BY DEF countMiss
<1>3. /\ row' \in [Items -> [status : Statuses, created : Nat, expires : Nat, attempts : Nat]]
      /\ \A j \in Items :
            /\ j \in Codes => row'[j].attempts <= MaxAttempts
            /\ row'[j].status = row[j].status
  <2>1. CASE row' = row
    BY <2>1 DEF IInv, Columns, AttemptsWithinLimit
  <2>2. CASE row[i].attempts < MaxAttempts /\ row' = [row EXCEPT ![i].attempts = @ + 1]
    <3> HIDE DEF i
    <3>1. row[i] \in [status : Statuses, created : Nat, expires : Nat, attempts : Nat]
      BY <1>1 DEF IInv, Columns
    <3>2. /\ row' = [row EXCEPT ![i] = [row[i] EXCEPT !.attempts = @ + 1]]
          /\ [row[i] EXCEPT !.attempts = @ + 1]
                \in [status : Statuses, created : Nat, expires : Nat, attempts : Nat]
      BY <2>2, <3>1
    <3>3. row[i].attempts + 1 <= MaxAttempts
      BY <2>2, <3>1, CodeAssumption
    <3> QED  BY <1>1, <3>1, <3>2, <3>3 DEF IInv, Columns, AttemptsWithinLimit
  <2> QED  BY <1>2, <2>1, <2>2
<1>4. Columns'
  BY <1>3, FinishType DEF countMiss, IInv, Columns
<1> QED
  BY <1>3, <1>4, EndKeeps DEF countMiss

LEMMA ConsumeKeeps == ASSUME IInv, NEW r \in Requests, consume(r) PROVE IInv'
<1>0. req[r].item \in Items /\ At(r, "consume")
  BY DEF IInv, Columns, consume, At, Request, Idle
<1> PICK i \in Items : i = req[r].item
  BY <1>0
<1> DEFINE new == [next |-> "effect", item |-> i]
<1>1. i \in Items /\ At(r, "consume")
  BY <1>0
<1>2. UNCHANGED <<held, clock, before, effects, deaths>>
  BY DEF consume
<1>3. CASE row' = row /\ Finish(r)
  BY <1>2, <1>3, FinishType, EndKeeps DEF IInv, Columns, AttemptsWithinLimit
<1>4. CASE /\ row[i].status = "open"
           /\ row' = [row EXCEPT ![i].status = IF i \in Codes THEN "consumed" ELSE "deleted"]
  <2>1. /\ row' \in [Items -> [status : Statuses, created : Nat, expires : Nat, attempts : Nat]]
        /\ row'[i].status \in {"consumed", "deleted"}
        /\ \A j \in Items : row'[j].attempts = row[j].attempts
        /\ \A j \in Items \ {i} : row'[j] = row[j]
    BY <1>1, <1>4 DEF IInv, Columns, Statuses
  <2>2. CASE Finish(r)
    <3>1. Columns'
      BY <1>2, <2>1, <2>2, FinishType DEF IInv, Columns
    <3> QED  BY <1>2, <1>4, <2>1, <2>2, <3>1, EndKeeps DEF IInv, AttemptsWithinLimit
  <2>3. CASE Then(r, "effect", i)
    <3>1. req' = [req EXCEPT ![r] = new] /\ new \in Going
      BY <1>1, <2>3 DEF Then, Going, Using
    <3>2. req'[r] = new /\ \A q \in Requests \ {r} : req'[q] = req[q]
      BY <3>1 DEF IInv, Columns
    <3>3. Columns'
      BY <1>2, <2>1, <3>1, RequestIs DEF IInv, Columns
    <3>4. AttemptsWithinLimit'
      BY <2>1 DEF IInv, AttemptsWithinLimit, Items
    <3>5. \A q \in Requests : ~At(q, "idle") => req[q].item \in Items
      BY DEF IInv, Columns, Request, Idle, At
    <3>6. OneAsks'
      <4>1. \A q \in Requests : req'[q].next \in Making => q # r /\ req[q].item # i
        BY <1>1, <1>4, <3>2 DEF IInv, OneAsks, Making
      <4> QED  BY <1>1, <2>1, <3>2, <3>5, <4>1 DEF IInv, OneAsks, At, Making
    <3>7. UsedExists'
      <4>1. \A q \in Requests : req[q].next \in Making => req[q].old \subseteq Items
        BY DEF IInv, Columns, Request, Idle, Making
      <4>2. \A j \in Items : row[j].status # "absent" => row'[j].status # "absent"
        BY <1>4, <2>1
      <4> QED  BY <1>1, <2>1, <3>2, <3>5, <4>1, <4>2 DEF IInv, UsedExists, At, Making, Using
    <3>8. OneHolds'
      <4>1. effects[i] = 0 /\ \A q \in Requests : ~Has(q, i)
        BY <1>1, <1>4 DEF IInv, OneHolds
      <4>2. \A q \in Requests, j \in Items : Has(q, j)' => (q = r /\ j = i) \/ (q # r /\ Has(q, j))
        BY <3>2 DEF Has, At
      <4>3. \A q \in Requests : Has(q, i)' => q = r
        BY <1>1, <4>1, <4>2
      <4> QED  BY <1>2, <2>1, <4>1, <4>2, <4>3 DEF IInv, OneHolds
    <3> QED  BY <3>3, <3>4, <3>6, <3>7, <3>8 DEF IInv
  <2> QED  BY <1>4, <2>2, <2>3 DEF consume
<1> QED
  BY <1>3, <1>4 DEF consume

LEMMA EffectKeeps == ASSUME IInv, NEW r \in Requests, effect(r) PROVE IInv'
<1>0. req[r].item \in Items
  BY DEF IInv, Columns, effect, At, Request, Idle
<1> PICK i \in Items : i = req[r].item
  BY <1>0
<1>1. i \in Items /\ Has(r, i)
  BY DEF effect, Has
<1>2. /\ effects' = [effects EXCEPT ![i] = @ + 1] /\ req' = [req EXCEPT ![r] = Idle]
      /\ UNCHANGED <<row, held, clock, before, deaths>>
  BY DEF effect, Finish
<1>3. effects[i] = 0 /\ row[i].status \notin {"absent", "open"} /\ \A q \in Requests : Has(q, i) => q = r
  <2>1. effects[i] \in Nat /\ row[i].status \in Statuses
    BY DEF IInv, Columns
  <2> QED  BY <1>1, <2>1 DEF IInv, OneHolds
<1>4. req'[r] = Idle /\ \A q \in Requests \ {r} : req'[q] = req[q]
  BY <1>2 DEF IInv, Columns
<1>5. effects'[i] = 1 /\ \A j \in Items \ {i} : effects'[j] = effects[j]
  BY <1>1, <1>2, <1>3 DEF IInv, Columns
<1>6. Columns'
  <2>1. effects' \in [Items -> Nat]
    BY <1>2 DEF IInv, Columns
  <2> QED  BY <1>2, <2>1, FinishType DEF IInv, Columns, effect
<1>7. AttemptsWithinLimit' /\ OneAsks' /\ UsedExists'
  BY <1>2, <1>4 DEF IInv, AttemptsWithinLimit, OneAsks, UsedExists, At, Idle, Making, Using
<1>8. OneHolds'
  <2>1. \A q \in Requests, j \in Items : Has(q, j)' => q # r /\ Has(q, j)
    BY <1>4 DEF Has, At, Idle
  <2>2. \A q \in Requests : ~Has(q, i)'
    BY <1>1, <1>3, <2>1
  <2> QED  BY <1>2, <1>3, <1>5, <2>1, <2>2 DEF IInv, OneHolds
<1> QED
  BY <1>6, <1>7, <1>8 DEF IInv

LEMMA TimeKeeps == ASSUME IInv, tick \/ prune PROVE IInv'
<1>1. CASE tick
  <2>1. Columns'
    BY <1>1, CodeAssumption DEF IInv, Columns, tick
  <2> QED  BY <1>1, <2>1, ClosingRows DEF tick
<1>2. CASE prune
  <2> DEFINE gone == {i \in Links : row[i].status = "open" /\ row[i].expires < clock}
  <2>1. gone \in SUBSET Items /\ \A i \in gone : row[i].status # "absent"
    BY DEF Items
  <2>2. row' = Delete(gone) /\ UNCHANGED <<held, clock, req, before, effects, deaths>>
    BY <1>2 DEF prune
  <2> HIDE DEF gone
  <2>3. /\ row' \in [Items -> [status : Statuses, created : Nat, expires : Nat, attempts : Nat]]
        /\ \A j \in Items :
              /\ row'[j].attempts = row[j].attempts
              /\ (row'[j].status = "absent") <=> (row[j].status = "absent")
              /\ row'[j].status = "open" => row[j].status = "open"
    BY <2>1, <2>2, DeleteRows DEF IInv
  <2>4. Columns'
    BY <2>2, <2>3 DEF IInv, Columns
  <2> QED  BY <2>2, <2>3, <2>4, ClosingRows
<1> QED
  BY <1>1, <1>2

LEMMA DeathKeeps == ASSUME IInv, NEW r \in Requests, processDies(r) PROVE IInv'
<1>1. Columns'
  BY FinishType, CodeAssumption DEF IInv, Columns, processDies
<1> QED
  BY <1>1, EndKeeps DEF IInv, AttemptsWithinLimit, processDies

LEMMA StutterKeeps == ASSUME IInv, UNCHANGED vars PROVE IInv'
<1>1. Columns'
  BY DEF vars, IInv, Columns
<1> QED
  BY <1>1, ClosingRows DEF vars

-----------------------------------------------------------------------------
THEOREM Inductive == Spec => []IInv
<1>1. IInv /\ [Next]_vars => IInv'
  <2> SUFFICES ASSUME IInv, [Next]_vars PROVE IInv'
    OBVIOUS
  <2>1. CASE tick \/ prune
    BY <2>1, TimeKeeps
  <2>2. ASSUME NEW r \in Requests, NEW i \in Items, issue(r, i)  PROVE IInv'
    BY <2>2, IssueKeeps
  <2>3. ASSUME NEW r \in Requests, deleteOlder(r)  PROVE IInv'
    BY <2>3, DeleteOlderKeeps
  <2>4. ASSUME NEW r \in Requests, createRow(r)  PROVE IInv'
    BY <2>4, CreateKeeps
  <2>5. ASSUME NEW r \in Requests, send(r)  PROVE IInv'
    BY <2>5, SendKeeps
  <2>6. ASSUME NEW r \in Requests, NEW typed \in (held \cap Codes) \cup {Wrong}, verifyCode(r, typed)
        PROVE  IInv'
    BY <2>6, VerifyCodeKeeps
  <2>7. ASSUME NEW r \in Requests, NEW i \in held \cap Links, verifyLink(r, i)  PROVE IInv'
    BY <2>7, VerifyLinkKeeps DEF Items
  <2>8. ASSUME NEW r \in Requests, countMiss(r)  PROVE IInv'
    BY <2>8, CountMissKeeps
  <2>9. ASSUME NEW r \in Requests, consume(r)  PROVE IInv'
    BY <2>9, ConsumeKeeps
  <2>10. ASSUME NEW r \in Requests, effect(r)  PROVE IInv'
    BY <2>10, EffectKeeps
  <2>11. ASSUME NEW r \in Requests, processDies(r)  PROVE IInv'
    BY <2>11, DeathKeeps
  <2>12. CASE UNCHANGED vars
    BY <2>12, StutterKeeps
  <2> QED
    BY <2>1, <2>2, <2>3, <2>4, <2>5, <2>6, <2>7, <2>8, <2>9, <2>10, <2>11, <2>12 DEF Next
<1> QED
  BY <1>1, Initially, PTL DEF Spec

\* "Only the first correct submission wins a race": one verification, reset or
\* sign-in per code or link.
THEOREM CodesWorkOnce == Spec => []OneEffectPerCode
<1>1. ASSUME IInv  PROVE OneEffectPerCode
  <2> SUFFICES ASSUME NEW i \in Items
               PROVE  effects[i] + Cardinality({r \in Requests : Has(r, i)})
                         <= (IF row[i].status \in {"consumed", "deleted"} THEN 1 ELSE 0)
    BY DEF OneEffectPerCode, Has
  <2> DEFINE having == {r \in Requests : Has(r, i)}
  <2>1. effects[i] \in Nat /\ row[i].status \in Statuses
    BY <1>1 DEF IInv, Columns
  <2>2. CASE having = {}
    <3>1. Cardinality(having) = 0
      BY <2>2, FS_EmptySet
    <3> QED  BY <1>1, <2>1, <3>1 DEF IInv, OneHolds, Statuses
  <2>3. CASE having # {}
    <3>1. PICK r \in Requests : Has(r, i)
      BY <2>3
    <3>2. having = {r}
      BY <1>1, <3>1 DEF IInv, OneHolds
    <3>3. Cardinality(having) = 1
      BY <3>2, FS_Singleton
    <3>4. effects[i] = 0 /\ row[i].status \in {"consumed", "deleted"}
      BY <1>1, <2>1, <3>1 DEF IInv, OneHolds, Statuses
    <3> QED  BY <3>3, <3>4
  <2> QED  BY <2>2, <2>3
<1> QED
  BY <1>1, Inductive, PTL

-----------------------------------------------------------------------------
(* How often a code is compared.  A request that has compared and not yet      *)
(* counted, or not yet consumed, is guessing.  While a code can be guessed,    *)
(* each guess is counted, about to be, or was lost with its process.           *)

Guessing(i) == {r \in Requests : req[r].next \in {"miss", "consume"} /\ req[r].item = i}
Guessable(i) == row[i].status = "open" /\ row[i].attempts < MaxAttempts

CountedOne(i) ==
    /\ row[i].status = "absent" => guesses[i] = 0
    /\ Guessable(i) => guesses[i] <= row[i].attempts + Cardinality(Guessing(i)) + deaths
    /\ guesses[i] <= MaxAttempts - 1 + Cardinality(Requests) + deaths
Counted == guesses \in [Codes -> Nat] /\ \A i \in Codes : CountedOne(i)

LEMMA SomeGuess ==
    ASSUME NEW i
    PROVE  /\ IsFiniteSet(Guessing(i)) /\ Cardinality(Guessing(i)) \in Nat
           /\ Cardinality(Requests) \in Nat
           /\ Cardinality(Guessing(i)) <= Cardinality(Requests)
<1>1. Guessing(i) \in SUBSET Requests  BY DEF Guessing
<1>2. IsFiniteSet(Requests)  BY CodeAssumption
<1> QED  BY <1>1, <1>2, FS_Subset, FS_CardinalityType

\* Steps that compare nothing: a code that can be guessed after them could be
\* before, with no fewer guesses accounted for, or has just been made.
LEMMA NothingCompared ==
    ASSUME IInv, IInv', Counted, UNCHANGED guesses, deaths <= deaths',
           NEW i \in Codes,
           row'[i].status = "absent" => row[i].status = "absent",
           Guessable(i)' => \/ row[i].status = "absent"
                            \/ /\ Guessable(i)
                               /\ row[i].attempts + Cardinality(Guessing(i)) + deaths
                                     <= row'[i].attempts + Cardinality(Guessing(i)') + deaths'
    PROVE  CountedOne(i)'
<1>1. CountedOne(i) /\ guesses[i] \in Nat  BY DEF Counted
<1>2. Cardinality(Guessing(i)) \in Nat /\ Cardinality(Requests) \in Nat
      /\ Cardinality(Guessing(i)') \in Nat
  <2>1. Guessing(i)' \in SUBSET Requests  BY DEF Guessing
  <2>2. IsFiniteSet(Requests)  BY CodeAssumption
  <2>3. IsFiniteSet(Guessing(i)')  BY <2>1, <2>2, FS_Subset
  <2> QED  BY <2>3, SomeGuess, FS_CardinalityType
<1>3. deaths \in Nat /\ deaths' \in Nat /\ row[i].attempts \in Nat /\ row'[i].attempts \in Nat
  BY CodeAssumption DEF IInv, Columns, Items
<1> QED  BY <1>1, <1>2, <1>3, CodeAssumption DEF CountedOne

\* A step of one request that was not guessing this code and does not start to.
LEMMA OthersGuess ==
    ASSUME IInv, NEW r \in Requests, \A q \in Requests \ {r} : req'[q] = req[q], NEW i,
           ~(req[r].next \in {"miss", "consume"} /\ req[r].item = i),
           ~(req'[r].next \in {"miss", "consume"} /\ req'[r].item = i)
    PROVE  Guessing(i)' = Guessing(i)
BY DEF Guessing

\* A step that ends or goes on without a guess, and opens no row that existed.
LEMMA UncomparedKeeps ==
    ASSUME IInv, IInv', Counted, UNCHANGED <<guesses, deaths>>, NEW r \in Requests,
           \A q \in Requests \ {r} : req'[q] = req[q],
           req[r].next \notin {"miss", "consume"},
           req'[r].next \notin {"miss", "consume"} \/ req'[r].item \notin Codes,
           \A i \in Codes :
              /\ row'[i].status = "absent" => row[i].status = "absent"
              /\ row'[i].status = "open" =>
                    \/ row[i].status = "absent"
                    \/ row'[i].attempts = row[i].attempts /\ row[i].status = "open"
    PROVE  Counted'
<1> SUFFICES ASSUME NEW i \in Codes PROVE CountedOne(i)'  BY DEF Counted
<1>1. Guessing(i)' = Guessing(i)  BY OthersGuess
<1>2. deaths \in Nat /\ row[i].attempts \in Nat  BY CodeAssumption DEF IInv, Columns, Items
<1>3. Cardinality(Guessing(i)) \in Nat  BY SomeGuess
<1>4. ASSUME Guessable(i)', row[i].status # "absent"
      PROVE  /\ Guessable(i)
             /\ row[i].attempts + Cardinality(Guessing(i)) + deaths
                   <= row'[i].attempts + Cardinality(Guessing(i)') + deaths'
  <2>1. row'[i].status = "open"  BY <1>4 DEF Guessable
  <2>2. row'[i].attempts = row[i].attempts /\ row[i].status = "open"  BY <1>4, <2>1
  <2> QED  BY <1>1, <1>2, <1>3, <1>4, <2>2 DEF Guessable
<1>5. deaths <= deaths'  BY <1>2
<1> QED  BY <1>4, <1>5, NothingCompared

LEMMA Touched ==
    ASSUME IInv, NEW r \in Requests, NEW new, req' = [req EXCEPT ![r] = new]
    PROVE  req'[r] = new /\ \A q \in Requests \ {r} : req'[q] = req[q]
BY DEF IInv, Columns

LEMMA IssueCounts ==
    ASSUME IInv, IInv', Counted, NEW r \in Requests, NEW i \in Items, issue(r, i) PROVE Counted'
<1> DEFINE new == [next |-> "delete", item |-> i, expires |-> clock + Life(i), old |-> {}]
<1>1. req' = [req EXCEPT ![r] = new] /\ UNCHANGED <<row, guesses, deaths>> /\ At(r, "idle")
  BY DEF issue
<1>2. req'[r] = new /\ \A q \in Requests \ {r} : req'[q] = req[q]
  BY <1>1, Touched
<1>3. req'[r].next = "delete"  BY <1>2
<1> HIDE DEF new
<1> QED  BY <1>1, <1>2, <1>3, UncomparedKeeps DEF At

LEMMA DeleteOlderCounts ==
    ASSUME IInv, IInv', Counted, NEW r \in Requests, deleteOlder(r) PROVE Counted'
<1> DEFINE old == OpenAmong(Same(req[r].item))
<1>1. At(r, "delete") /\ UNCHANGED <<guesses, deaths>>  BY DEF deleteOlder
<1>0. req[r] \in Issuing
  BY <1>1, RequestIs DEF IInv, Columns, At, Idle, Going, Using
<1>2. req'[r].next = "create" /\ \A q \in Requests \ {r} : req'[q] = req[q]
  <2>1. \/ req' = [req EXCEPT ![r].next = "create", ![r].old = old]
        \/ req' = [req EXCEPT ![r].next = "create"]
    BY DEF deleteOlder
  <2> HIDE DEF old
  <2> QED  BY <1>0, <2>1 DEF IInv, Columns, Issuing
<1>3. row' = row \/ row' = Delete(old)  BY DEF deleteOlder
<1>4. old \in SUBSET Items /\ \A j \in old : row[j].status # "absent"
  BY DEF OpenAmong, Same, Items
<1>5. \A i \in Codes :
          /\ row'[i].status = "absent" => row[i].status = "absent"
          /\ row'[i].status = "open" => row'[i].attempts = row[i].attempts /\ row[i].status = "open"
  <2>1. CASE row' = row  BY <2>1
  <2>2. CASE row' = Delete(old)  BY <1>4, <2>2, DeleteRows DEF IInv, Items
  <2> QED  BY <1>3, <2>1, <2>2
<1> HIDE DEF old
<1> QED  BY <1>1, <1>2, <1>5, UncomparedKeeps DEF At

LEMMA CreateCounts ==
    ASSUME IInv, IInv', Counted, NEW r \in Requests, createRow(r) PROVE Counted'
<1>1. At(r, "create") /\ UNCHANGED <<guesses, deaths>>  BY DEF createRow
<1>2. req'[r].next = "send" /\ \A q \in Requests \ {r} : req'[q] = req[q]
  BY DEF createRow, Then, IInv, Columns
<1>3. req[r] \in Issuing
  BY <1>1, RequestIs DEF IInv, Columns, At, Idle, Going, Using
<1>4. PICK i \in Items : i = req[r].item  BY <1>3 DEF Issuing
<1>5. row[i].status = "absent"  BY <1>1, <1>4 DEF IInv, OneAsks, At, Making
<1>6. req[r].old \in SUBSET Items /\ \A j \in req[r].old : row[j].status # "absent"
  BY <1>1, <1>3 DEF IInv, UsedExists, At, Making, Issuing
<1> DEFINE left == Delete(req[r].old)
<1>7. /\ left \in [Items -> [status : Statuses, created : Nat, expires : Nat, attempts : Nat]]
      /\ \A j \in Items :
            /\ left[j].attempts = row[j].attempts
            /\ (left[j].status = "absent") <=> (row[j].status = "absent")
            /\ left[j].status = "open" => row[j].status = "open"
  BY <1>6, DeleteRows DEF IInv
<1>8. /\ row'[i].status = "open"
      /\ \A j \in Items \ {i} : row'[j] = left[j]
  <2>1. row' = [left EXCEPT ![i] = [status |-> "open", created |-> clock,
                                    expires |-> req[r].expires, attempts |-> 0]]
    BY <1>4 DEF createRow
  <2> HIDE DEF left
  <2> QED  BY <1>7, <2>1
<1> HIDE DEF left
<1>9. \A j \in Codes :
          /\ row'[j].status = "absent" => row[j].status = "absent"
          /\ row'[j].status = "open" =>
                \/ row[j].status = "absent"
                \/ row'[j].attempts = row[j].attempts /\ row[j].status = "open"
  BY <1>5, <1>7, <1>8 DEF Items
<1> QED  BY <1>1, <1>2, <1>9, UncomparedKeeps DEF At

LEMMA SendCounts ==
    ASSUME IInv, IInv', Counted, NEW r \in Requests, send(r) PROVE Counted'
<1>1. At(r, "send") /\ UNCHANGED <<guesses, deaths>>  BY DEF send
<1>2. req'[r].next = "idle" /\ \A q \in Requests \ {r} : req'[q] = req[q]
  BY DEF send, Finish, Idle, IInv, Columns
<1>3. row' = row \/ row' = Delete({req[r].item})  BY DEF send
<1>4. req[r].item \in Items /\ row[req[r].item].status # "absent"
  BY DEF IInv, Columns, UsedExists, send, At, Request, Idle, Using
<1>5. \A i \in Codes :
          /\ row'[i].status = "absent" => row[i].status = "absent"
          /\ row'[i].status = "open" => row'[i].attempts = row[i].attempts /\ row[i].status = "open"
  <2>1. CASE row' = row  BY <2>1
  <2>2. CASE row' = Delete({req[r].item})  BY <1>4, <2>2, DeleteRows DEF IInv, Items
  <2> QED  BY <1>3, <2>1, <2>2
<1> QED  BY <1>1, <1>2, <1>5, UncomparedKeeps DEF At

LEMMA VerifyLinkCounts ==
    ASSUME IInv, IInv', Counted, NEW r \in Requests, NEW i \in Links, verifyLink(r, i) PROVE Counted'
<1>1. At(r, "idle") /\ UNCHANGED <<row, guesses, deaths>>  BY DEF verifyLink
<1>2. req'[r].item = i /\ \A q \in Requests \ {r} : req'[q] = req[q]
  BY DEF verifyLink, Then, IInv, Columns
<1>3. i \notin Codes  BY CodeAssumption
<1> QED  BY <1>1, <1>2, <1>3, UncomparedKeeps DEF At

LEMMA EffectCounts ==
    ASSUME IInv, IInv', Counted, NEW r \in Requests, effect(r) PROVE Counted'
<1>1. At(r, "effect") /\ UNCHANGED <<row, guesses, deaths>>  BY DEF effect
<1>2. req'[r].next = "idle" /\ \A q \in Requests \ {r} : req'[q] = req[q]
  BY DEF effect, Finish, Idle, IInv, Columns
<1> QED  BY <1>1, <1>2, UncomparedKeeps DEF At

\* The guess is compared: it is counted among those to come.
LEMMA VerifyCodeCounts ==
    ASSUME IInv, IInv', Counted, NEW r \in Requests, NEW typed, verifyCode(r, typed)
    PROVE  Counted'
<1>1. PICK c \in Latest(Codes) :
          /\ row[c].attempts < MaxAttempts
          /\ guesses' = [guesses EXCEPT ![c] = @ + 1]
          /\ Then(r, IF typed = c THEN "consume" ELSE "miss", c)
  BY DEF verifyCode
<1>2. At(r, "idle") /\ UNCHANGED <<row, deaths>>  BY DEF verifyCode
<1>3. c \in Codes /\ row[c].status = "open"  BY DEF Latest, OpenAmong
<1>4. /\ req'[r].next \in {"miss", "consume"} /\ req'[r].item = c
      /\ \A q \in Requests \ {r} : req'[q] = req[q]
  BY <1>1 DEF Then, IInv, Columns
<1>5. Guessing(c)' = Guessing(c) \cup {r} /\ r \notin Guessing(c)
  BY <1>2, <1>4 DEF Guessing, At
<1>6. /\ Cardinality(Guessing(c)) \in Nat /\ Cardinality(Requests) \in Nat
      /\ Cardinality(Guessing(c)') = Cardinality(Guessing(c)) + 1
      /\ Cardinality(Guessing(c)') <= Cardinality(Requests)
  <2>1. IsFiniteSet(Guessing(c)) /\ Cardinality(Guessing(c)) \in Nat
        /\ Cardinality(Requests) \in Nat
    BY SomeGuess
  <2>2. Cardinality(Guessing(c)') = Cardinality(Guessing(c)) + 1
    BY <1>5, <2>1, FS_AddElement
  <2>3. Guessing(c)' \in SUBSET Requests /\ IsFiniteSet(Requests)
    BY CodeAssumption DEF Guessing
  <2> QED  BY <2>1, <2>2, <2>3, FS_Subset
<1>7. deaths \in Nat /\ row[c].attempts \in Nat /\ MaxAttempts \in Nat
  BY <1>3, CodeAssumption DEF IInv, Columns, Items
<1>8. /\ guesses' \in [Codes -> Nat]
      /\ guesses'[c] = guesses[c] + 1 /\ guesses[c] \in Nat
      /\ \A i \in Codes \ {c} : guesses'[i] = guesses[i]
  BY <1>1, <1>3 DEF Counted
<1>9. CountedOne(c)'
  <2>1. guesses[c] <= row[c].attempts + Cardinality(Guessing(c)) + deaths
    BY <1>1, <1>3 DEF Counted, CountedOne, Guessable
  <2>2. guesses'[c] <= row[c].attempts + Cardinality(Guessing(c)') + deaths
    BY <1>6, <1>7, <1>8, <2>1
  <2>3. guesses'[c] <= MaxAttempts - 1 + Cardinality(Requests) + deaths
    <3>1. Cardinality(Guessing(c)') \in Nat  BY <1>6
    <3> QED  BY <1>1, <1>6, <1>7, <1>8, <2>2, <3>1
  <2> QED  BY <1>2, <1>3, <2>2, <2>3 DEF CountedOne, Guessable
<1>10. ASSUME NEW i \in Codes \ {c} PROVE CountedOne(i)'
  <2>1. Guessing(i)' = Guessing(i)  BY <1>2, <1>4 DEF Guessing, At
  <2>2. CountedOne(i)  BY DEF Counted
  <2> QED  BY <1>2, <1>8, <2>1, <2>2 DEF CountedOne, Guessable
<1> QED  BY <1>8, <1>9, <1>10 DEF Counted

\* The requests that guess a code after one of them has ended.
LEMMA OneLess ==
    ASSUME IInv, NEW r \in Requests, Finish(r), NEW i
    PROVE  /\ Cardinality(Guessing(i)) \in Nat /\ Cardinality(Guessing(i)') \in Nat
           /\ Cardinality(Guessing(i)') =
                 IF r \in Guessing(i) THEN Cardinality(Guessing(i)) - 1
                 ELSE Cardinality(Guessing(i))
<1>1. Guessing(i)' = Guessing(i) \ {r}
  <2>1. req'[r].next = "idle" /\ \A q \in Requests \ {r} : req'[q] = req[q]
    BY DEF Finish, Idle, IInv, Columns
  <2> QED  BY <2>1 DEF Guessing
<1>2. IsFiniteSet(Guessing(i)) /\ Cardinality(Guessing(i)) \in Nat  BY SomeGuess
<1>3. IsFiniteSet(Guessing(i) \ {r}) /\ Cardinality(Guessing(i) \ {r}) =
          IF r \in Guessing(i) THEN Cardinality(Guessing(i)) - 1 ELSE Cardinality(Guessing(i))
  BY <1>2, FS_RemoveElement
<1> QED  BY <1>1, <1>2, <1>3, FS_CardinalityType

\* The miss is counted, or the code cannot be guessed any more.
LEMMA CountMissCounts ==
    ASSUME IInv, IInv', Counted, NEW r \in Requests, countMiss(r) PROVE Counted'
<1>1. At(r, "miss") /\ Finish(r) /\ UNCHANGED <<guesses, deaths>>  BY DEF countMiss
<1>2. PICK c \in Items : c = req[r].item
  BY <1>1 DEF IInv, Columns, At, Request, Idle
<1>3. IF row[c].attempts < MaxAttempts /\ row[c].status # "deleted"
      THEN row' = [row EXCEPT ![c].attempts = @ + 1] ELSE row' = row
  BY <1>2 DEF countMiss
<1>4. /\ \A i \in Items \ {c} : row'[i] = row[i]
      /\ row'[c].status = row[c].status
      /\ Guessable(c) => row'[c].attempts = row[c].attempts + 1
      /\ ~Guessable(c) => ~Guessable(c)'
  <2>1. row[c] \in [status : Statuses, created : Nat, expires : Nat, attempts : Nat]
    BY DEF IInv, Columns
  <2>2. CASE row' = [row EXCEPT ![c].attempts = @ + 1]
            /\ row[c].attempts < MaxAttempts /\ row[c].status # "deleted"
    BY <2>1, <2>2 DEF IInv, Columns, Guessable
  <2>3. CASE row' = row /\ ~(row[c].attempts < MaxAttempts /\ row[c].status # "deleted")
    BY <2>3 DEF Guessable
  <2> QED  BY <1>3, <2>2, <2>3
<1> SUFFICES ASSUME NEW i \in Codes PROVE CountedOne(i)'  BY <1>1 DEF Counted
<1>5. i \in Items /\ deaths \in Nat /\ row[i].attempts \in Nat
  BY CodeAssumption DEF IInv, Columns, Items
<1>6. row'[i].status = row[i].status  BY <1>4, <1>5
<1>7. ASSUME Guessable(i)'
      PROVE  /\ Guessable(i)
             /\ row[i].attempts + Cardinality(Guessing(i)) + deaths
                   <= row'[i].attempts + Cardinality(Guessing(i)') + deaths'
  <2>1. CASE i = c
    <3>1. Guessable(i) /\ row'[i].attempts = row[i].attempts + 1  BY <1>4, <1>7, <2>1
    <3> QED  BY <1>1, <1>5, <3>1, OneLess
  <2>2. CASE i # c
    <3>1. r \notin Guessing(i)  BY <1>2, <2>2 DEF Guessing
    <3>2. row'[i] = row[i]  BY <1>4, <1>5, <2>2
    <3> QED  BY <1>1, <1>5, <1>7, <3>1, <3>2, OneLess DEF Guessable
  <2> QED  BY <2>1, <2>2
<1>8. deaths <= deaths'  BY <1>1, <1>5
<1> QED  BY <1>1, <1>6, <1>7, <1>8, NothingCompared

\* Whoever consumes leaves the row closed.
LEMMA ConsumeCounts ==
    ASSUME IInv, IInv', Counted, NEW r \in Requests, consume(r) PROVE Counted'
<1>1. At(r, "consume") /\ UNCHANGED <<guesses, deaths>>  BY DEF consume
<1>2. PICK c \in Items : c = req[r].item
  BY <1>1 DEF IInv, Columns, At, Request, Idle
<1>3. /\ row'[c].status # "open" /\ (row'[c].status = "absent" => row[c].status = "absent")
      /\ \A i \in Items \ {c} : row'[i] = row[i]
  BY <1>2 DEF consume, IInv, Columns
<1>4. req'[r].next \notin {"miss", "consume"} /\ \A q \in Requests \ {r} : req'[q] = req[q]
  BY DEF consume, Then, Finish, Idle, IInv, Columns
<1> SUFFICES ASSUME NEW i \in Codes PROVE CountedOne(i)'  BY <1>1 DEF Counted
<1>5. i \in Items /\ deaths \in Nat /\ row[i].attempts \in Nat
  BY CodeAssumption DEF IInv, Columns, Items
<1>6. row'[i].status = "absent" => row[i].status = "absent"  BY <1>3, <1>5
<1>7. ASSUME Guessable(i)'
      PROVE  /\ Guessable(i)
             /\ row[i].attempts + Cardinality(Guessing(i)) + deaths
                   <= row'[i].attempts + Cardinality(Guessing(i)') + deaths'
  <2>1. i # c  BY <1>3, <1>7 DEF Guessable
  <2>2. row'[i] = row[i]  BY <1>3, <1>5, <2>1
  <2>3. Guessing(i)' = Guessing(i)  BY <1>2, <1>4, <2>1, OthersGuess
  <2>4. Cardinality(Guessing(i)) \in Nat  BY SomeGuess
  <2> QED  BY <1>1, <1>5, <1>7, <2>2, <2>3, <2>4 DEF Guessable
<1>8. deaths <= deaths'  BY <1>1, <1>5
<1> QED  BY <1>1, <1>6, <1>7, <1>8, NothingCompared

\* A guess that dies before it is counted is counted among the deaths.
LEMMA DeathCounts ==
    ASSUME IInv, IInv', Counted, NEW r \in Requests, processDies(r) PROVE Counted'
<1>1. Finish(r) /\ UNCHANGED <<row, guesses>> /\ deaths' = deaths + 1  BY DEF processDies
<1> SUFFICES ASSUME NEW i \in Codes PROVE CountedOne(i)'  BY <1>1 DEF Counted
<1>2. deaths \in Nat /\ row[i].attempts \in Nat
  BY CodeAssumption DEF IInv, Columns, Items
<1>3. row[i].attempts + Cardinality(Guessing(i)) + deaths
          <= row'[i].attempts + Cardinality(Guessing(i)') + deaths'
  BY <1>1, <1>2, OneLess
<1>4. Guessable(i)' <=> Guessable(i)  BY <1>1 DEF Guessable
<1>5. deaths <= deaths'  BY <1>1, <1>2
<1> QED  BY <1>1, <1>3, <1>4, <1>5, NothingCompared

\* Time, the nightly pruning of links, and stuttering.
LEMMA RestCounts ==
    ASSUME IInv, IInv', Counted, tick \/ prune \/ UNCHANGED vars PROVE Counted'
<1>1. UNCHANGED <<req, guesses, deaths>>  BY DEF tick, prune, vars
<1>2. \A i \in Codes : row'[i] = row[i]
  <2>1. Codes \cap Links = {} /\ Codes \subseteq Items  BY CodeAssumption DEF Items
  <2>2. CASE prune  BY <2>1, <2>2 DEF prune, Delete
  <2>3. CASE tick \/ UNCHANGED vars  BY <2>3 DEF tick, vars
  <2> QED  BY <2>2, <2>3
<1>3. ASSUME NEW i \in Codes PROVE CountedOne(i)'
  <2>1. CountedOne(i) /\ Guessing(i)' = Guessing(i)  BY <1>1 DEF Counted, Guessing
  <2> QED  BY <1>1, <1>2, <2>1 DEF CountedOne, Guessable
<1> QED  BY <1>1, <1>3 DEF Counted

LEMMA GuessesCounted == Spec => []Counted
<1>1. Init => Counted
  <2> SUFFICES ASSUME Init, NEW i \in Codes
               PROVE  guesses \in [Codes -> Nat] /\ CountedOne(i)
    BY DEF Counted, Init
  <2>1. guesses[i] = 0 /\ deaths = 0 /\ row[i].status = "absent"
    BY DEF Init, Items
  <2>2. Cardinality(Requests) \in Nat  BY SomeGuess
  <2>3. guesses \in [Codes -> Nat]  BY DEF Init
  <2> QED  BY <2>1, <2>2, <2>3, CodeAssumption DEF CountedOne, Guessable
<1>2. IInv /\ IInv' /\ Counted /\ [Next]_vars => Counted'
  <2> SUFFICES ASSUME IInv, IInv', Counted, [Next]_vars PROVE Counted'
    OBVIOUS
  <2>1. CASE tick \/ prune \/ UNCHANGED vars  BY <2>1, RestCounts
  <2>2. ASSUME NEW r \in Requests,
               \/ \E i \in Items : issue(r, i)
               \/ deleteOlder(r) \/ createRow(r) \/ send(r)
        PROVE  Counted'
    BY <2>2, IssueCounts, DeleteOlderCounts, CreateCounts, SendCounts
  <2>3. ASSUME NEW r \in Requests,
               \/ \E typed \in (held \cap Codes) \cup {Wrong} : verifyCode(r, typed)
               \/ \E i \in held \cap Links : verifyLink(r, i)
        PROVE  Counted'
    BY <2>3, VerifyCodeCounts, VerifyLinkCounts
  <2>4. ASSUME NEW r \in Requests, countMiss(r) \/ consume(r) \/ effect(r) \/ processDies(r)
        PROVE  Counted'
    BY <2>4, CountMissCounts, ConsumeCounts, EffectCounts, DeathCounts
  <2> QED  BY <2>1, <2>2, <2>3, <2>4 DEF Next
<1> QED  BY <1>1, <1>2, Inductive, PTL DEF Spec

\* The types of rows and requests, for any number of codes, links and requests.
THEOREM CodeTypes == Spec => []TypeOK
<1>1. IInv /\ Counted => TypeOK
  BY DEF IInv, Counted, TypeOK
<1> QED
  BY <1>1, Inductive, GuessesCounted, PTL

\* However many guesses run at once, a code is compared with at most one guess
\* more than it has attempts for each further request and each process that died.
THEOREM GuessesAreLimited == Spec => []GuessesAreBounded
<1>1. Counted => GuessesAreBounded
  BY DEF Counted, CountedOne, GuessesAreBounded
<1> QED
  BY <1>1, GuessesCounted, PTL

-----------------------------------------------------------------------------
(* What a newer code or link replaces.                                      *)

\* The rows that existed when j was asked for are of its kind, and still there.
BeforeExist ==
    \A j \in Items : before[j] \subseteq {i \in Same(j) : row[i].status # "absent"}

InTime == \A i \in Items : row[i].created <= clock

\* The cooldown of what a pending code is going to replace is over.
Cooling ==
    \A r \in Requests : req[r].next \in Making /\ req[r].item \in Codes =>
        \A i \in before[req[r].item] :
            row[i].status = "open" => clock - row[i].created >= Cooldown

\* A request that is about to create deletes with it all that is still open.
Closing ==
    \A r \in Requests : At(r, "create") =>
        \A i \in before[req[r].item] : row[i].status = "open" => i \in req[r].old

Replaced ==
    \A j \in Items : row[j].status # "absent" =>
        \A i \in before[j] : row[i].status # "open"

Replacing == BeforeExist /\ InTime /\ Cooling /\ Closing /\ Replaced

LEMMA RowTypes ==
    ASSUME IInv
    PROVE  /\ \A i \in Items : row[i].created \in Nat /\ row[i].status \in Statuses
           /\ clock \in Nat /\ Cooldown \in Nat
           /\ \A r \in Requests : ~At(r, "idle") => req[r].item \in Items
           /\ \A r \in Requests : req[r].next \in Making => ~At(r, "idle")
           /\ \A j \in Items : before[j] \subseteq Items
  BY CodeAssumption DEF IInv, Columns, Request, Idle, At, Making

\* Steps that ask for nothing new: rows only close, and requests go on to use
\* what they made.
LEMMA QuietKeeps ==
    ASSUME IInv, IInv', Replacing, UNCHANGED before, clock' >= clock,
           \A i \in Items :
              /\ row'[i].created = row[i].created
              /\ (row'[i].status = "absent") <=> (row[i].status = "absent")
              /\ row'[i].status = "open" => row[i].status = "open",
           \A r \in Requests : req'[r].next \in Making => req'[r] = req[r]
    PROVE  Replacing'
<1> USE RowTypes
<1>1. \A j \in Items : before[j] \subseteq Items /\ Same(j)' = Same(j)
  BY DEF Same
<1>2. BeforeExist'
  BY <1>1 DEF Replacing, BeforeExist
<1>3. clock' \in Nat
  BY DEF IInv, Columns
<1>4. InTime'
  BY <1>3 DEF Replacing, InTime
<1>5. Cooling'
  <2> SUFFICES ASSUME NEW r \in Requests, req'[r].next \in Making, req'[r].item \in Codes,
                      NEW i \in before[req[r].item], row'[i].status = "open"
               PROVE  clock' - row'[i].created >= Cooldown
    BY DEF Cooling
  <2>1. req'[r] = req[r] /\ req[r].item \in Items
    BY DEF Items
  <2>2. i \in Items
    BY <1>1, <2>1
  <2>3. clock - row[i].created >= Cooldown
    BY <2>1, <2>2 DEF Replacing, Cooling
  <2> QED
    BY <1>3, <2>2, <2>3
<1>6. Closing'
  BY <1>1 DEF Replacing, Closing, At, Making
<1>7. Replaced'
  BY <1>1 DEF Replacing, Replaced
<1> QED
  BY <1>2, <1>4, <1>5, <1>6, <1>7 DEF Replacing

Less == {p \in Nat \X Nat : p[1] < p[2]}

LEMMA LeastNatural ==
    ASSUME NEW T \in SUBSET Nat, T # {}
    PROVE  \E a \in T : \A b \in T : a <= b
<1>1. OpToRel(<, Nat) = Less
  BY DEF OpToRel, Less
<1>2. IsWellFoundedOn(Less, Nat)
  BY <1>1, NatLessThanWellFounded
<1>3. \E a \in T : \A b \in T : ~(<<b, a>> \in Less)
  BY <1>2, WFMin
<1>4. \A a, b \in Nat : ~(<<b, a>> \in Less) => a <= b
  BY DEF Less
<1> QED
  BY <1>3, <1>4

\* The age of every open code, when the youngest has cooled down.
LEMMA AllCooledDown ==
    ASSUME IInv, InTime, CooledDown, NEW i \in OpenAmong(Codes)
    PROVE  clock - row[i].created >= Cooldown
<1> DEFINE ages == {clock - row[j].created : j \in OpenAmong(Codes)}
<1>1. \A j \in OpenAmong(Codes) : row[j].created \in Nat /\ row[j].created <= clock
  BY RowTypes DEF InTime, OpenAmong, Items
<1>2. ages \in SUBSET Nat /\ ages # {}
  BY <1>1, RowTypes
<1>4. PICK a \in ages : \A b \in ages : a <= b
  <2> HIDE DEF ages
  <2> QED  BY <1>2, LeastNatural
<1>5. PICK j \in OpenAmong(Codes) : a = clock - row[j].created
  OBVIOUS
<1>6. \A k \in OpenAmong(Codes) : row[k].created <= row[j].created
  <2> SUFFICES ASSUME NEW k \in OpenAmong(Codes) PROVE row[k].created <= row[j].created
    OBVIOUS
  <2>1. clock - row[j].created <= clock - row[k].created
    BY <1>4, <1>5
  <2> QED  BY <2>1, RowTypes DEF OpenAmong, Items
<1>7. clock - row[j].created >= Cooldown
  BY <1>6 DEF CooledDown, Latest
<1> QED
  BY <1>6, <1>7, RowTypes DEF OpenAmong, Items

LEMMA IssueReplaces ==
    ASSUME IInv, IInv', Replacing, NEW r \in Requests, NEW i \in Items, issue(r, i)
    PROVE  Replacing'
<1> USE RowTypes
<1>1. /\ row[i].status = "absent"
      /\ i \in Codes => CooledDown
      /\ \A q \in Requests : At(q, "idle") \/ req[q].item # i
      /\ req' = [req EXCEPT ![r] = [next |-> "delete", item |-> i, expires |-> clock + Life(i), old |-> {}]]
      /\ before' = [before EXCEPT ![i] = {j \in Same(i) : row[j].status # "absent"}]
      /\ UNCHANGED <<row, clock>>
  BY DEF issue, Asked
<1>2. /\ before'[i] = {j \in Same(i) : row[j].status # "absent"}
      /\ \A j \in Items : j # i => before'[j] = before[j]
  BY <1>1 DEF IInv, Columns
<1>3. /\ req'[r].next = "delete" /\ req'[r].item = i
      /\ \A q \in Requests : q # r => req'[q] = req[q]
  BY <1>1 DEF IInv, Columns
<1>4. BeforeExist'
  <2>1. \A j \in Items : Same(j)' = Same(j)  BY DEF Same
  <2> QED  BY <1>1, <1>2, <2>1 DEF Replacing, BeforeExist
<1>5. InTime'  BY <1>1 DEF Replacing, InTime
<1>6. Cooling'
  <2> SUFFICES ASSUME NEW q \in Requests, req'[q].next \in Making, req'[q].item \in Codes,
                      NEW k \in before'[req'[q].item], row[k].status = "open"
               PROVE  clock - row[k].created >= Cooldown
    BY <1>1 DEF Cooling
  <2>1. CASE q = r
    <3>1. i \in Codes /\ k \in OpenAmong(Codes)
      <4>1. i \in Codes /\ k \in before'[i]  BY <1>3, <2>1
      <4>2. k \in Codes  BY <1>2, <4>1 DEF Same
      <4> QED  BY <4>1, <4>2 DEF OpenAmong
    <3>2. \A j \in OpenAmong(Codes) : clock - row[j].created >= Cooldown
      BY <1>1, <3>1, AllCooledDown DEF Replacing
    <3> QED  BY <3>1, <3>2
  <2>2. CASE q # r
    <3>1. req'[q] = req[q] /\ req[q].item # i /\ req[q].item \in Items
      BY <1>1, <1>3, <2>2
    <3> QED  BY <1>2, <3>1 DEF Replacing, Cooling
  <2> QED  BY <2>1, <2>2
<1>7. Closing'
  <2> SUFFICES ASSUME NEW q \in Requests, req'[q].next = "create",
                      NEW k \in before'[req'[q].item], row[k].status = "open"
               PROVE  k \in req'[q].old
    BY <1>1 DEF Closing, At
  <2>1. q # r  BY <1>3
  <2>2. req'[q] = req[q] /\ req[q].item # i /\ req[q].item \in Items
    BY <1>1, <1>3, <2>1 DEF Making
  <2> QED  BY <1>2, <2>2 DEF Replacing, Closing, At
<1>8. Replaced'
  <2> SUFFICES ASSUME NEW j \in Items, row'[j].status # "absent", NEW k \in before'[j]
               PROVE  row'[k].status # "open"
    BY DEF Replaced
  <2>1. row' = row /\ j # i  BY <1>1
  <2>2. k \in before[j]  BY <1>2, <2>1
  <2> QED  BY <2>1, <2>2 DEF Replacing, Replaced
<1> QED
  BY <1>4, <1>5, <1>6, <1>7, <1>8 DEF Replacing

LEMMA DeleteOlderReplaces ==
    ASSUME IInv, IInv', Replacing, NEW r \in Requests, deleteOlder(r)
    PROVE  Replacing'
<1> USE RowTypes
<1> DEFINE i == req[r].item
           old == OpenAmong(Same(i))
<1>1. At(r, "delete") /\ i \in Items
  BY DEF deleteOlder, Making, At
<1>2. /\ UNCHANGED <<before, clock>>
      /\ \/ i \in Codes /\ UNCHANGED row
         \/ i \notin Codes /\ row' = Delete(old)
      /\ req' = [req EXCEPT ![r].next = "create", ![r].old = IF i \in Codes THEN old ELSE @]
  <2>1. CASE i \in Codes  BY <2>1 DEF deleteOlder
  <2>2. CASE i \notin Codes
    <3>1. req[r] \in [next : Making, item : Items, expires : Nat, old : SUBSET Items]
      BY <1>1 DEF IInv, Columns, Request, Idle, At, Making
    <3>2. req' = [req EXCEPT ![r].next = "create"]  BY <2>2 DEF deleteOlder
    <3>3. [req EXCEPT ![r].next = "create"]
             = [req EXCEPT ![r].next = "create", ![r].old = IF i \in Codes THEN old ELSE @]
      BY <2>2, <3>1 DEF IInv, Columns
    <3> QED  BY <2>2, <3>2, <3>3 DEF deleteOlder
  <2> QED  BY <2>1, <2>2
<1>3. req[r] \in [next : Making, item : Items, expires : Nat, old : SUBSET Items]
  BY <1>1 DEF IInv, Columns, Request, Idle, At, Making
<1>4. /\ req'[r].next = "create" /\ req'[r].item = i
      /\ i \in Codes => req'[r].old = old
      /\ \A q \in Requests : q # r => req'[q] = req[q]
  BY <1>2, <1>3 DEF IInv, Columns
<1>5. \A j \in Items :
          /\ row'[j].created = row[j].created
          /\ (row'[j].status = "absent") <=> (row[j].status = "absent")
          /\ row'[j].status = "open" => row[j].status = "open" /\ (i \in Links => j \notin old)
  <2>1. CASE i \in Codes  BY <1>2, <2>1, CodeAssumption
  <2>2. CASE i \notin Codes
    <3>1. row' = Delete(old)  BY <1>2, <2>2
    <3> QED  BY <3>1 DEF Delete, OpenAmong, IInv, Columns
  <2> QED  BY <2>1, <2>2
<1>6. BeforeExist'
  <2>1. \A j \in Items : Same(j)' = Same(j) /\ before[j] \subseteq Items  BY DEF Same
  <2> QED  BY <1>2, <1>5, <2>1 DEF Replacing, BeforeExist
<1>7. InTime' /\ Replaced'
  BY <1>2, <1>5 DEF Replacing, InTime, Replaced
<1>8. Cooling'
  <2> SUFFICES ASSUME NEW q \in Requests, req'[q].next \in Making, req'[q].item \in Codes,
                      NEW k \in before[req'[q].item], row'[k].status = "open"
               PROVE  clock - row'[k].created >= Cooldown
    BY <1>2 DEF Cooling
  <2>1. req[q].next \in Making /\ req[q].item = req'[q].item
    BY <1>1, <1>4 DEF Making, At
  <2>2. k \in Items  BY <2>1
  <2> QED  BY <1>5, <2>1, <2>2 DEF Replacing, Cooling
<1>9. Closing'
  <2> SUFFICES ASSUME NEW q \in Requests, req'[q].next = "create",
                      NEW k \in before[req'[q].item], row'[k].status = "open"
               PROVE  k \in req'[q].old
    BY <1>2 DEF Closing, At
  <2>1. CASE q = r
    <3>1. k \in Same(i) /\ k \in Items
      BY <1>1, <1>4, <2>1 DEF Replacing, BeforeExist
    <3>2. k \in old  BY <1>5, <3>1 DEF OpenAmong
    <3>3. i \in Codes  BY <1>1, <1>5, <3>1, <3>2 DEF Items
    <3> QED  BY <1>4, <2>1, <3>2, <3>3
  <2>2. CASE q # r
    <3>1. req'[q] = req[q] /\ At(q, "create") /\ req[q].item \in Items
      BY <1>4, <2>2 DEF At, Making
    <3>2. k \in Items  BY <3>1
    <3> QED  BY <1>5, <3>1, <3>2 DEF Replacing, Closing
  <2> QED  BY <2>1, <2>2
<1> QED
  BY <1>6, <1>7, <1>8, <1>9 DEF Replacing

LEMMA CreateReplaces ==
    ASSUME IInv, IInv', Replacing, NEW r \in Requests, createRow(r)
    PROVE  Replacing'
<1> USE RowTypes
<1> DEFINE i == req[r].item
<1>1. At(r, "create") /\ i \in Items /\ row[i].status = "absent"
  BY DEF createRow, Making, At, IInv, OneAsks
<1>2. req[r].old \subseteq Items /\ \A j \in req[r].old : row[j].status # "absent"
  <2>1. req[r] \in [next : Making, item : Items, expires : Nat, old : SUBSET Items]
    BY <1>1 DEF IInv, Columns, Request, Idle, At, Making
  <2> QED  BY <1>1, <2>1 DEF IInv, UsedExists, Making, At
<1>3. /\ UNCHANGED <<before, clock>>
      /\ row' = [Delete(req[r].old) EXCEPT ![i] =
                    [status |-> "open", created |-> clock, expires |-> req[r].expires, attempts |-> 0]]
      /\ req' = [req EXCEPT ![r] = [next |-> "send", item |-> i]]
  BY DEF createRow, Then
<1>4. /\ row'[i].status = "open" /\ row'[i].created = clock
      /\ \A j \in Items : j # i =>
            /\ row'[j].created = row[j].created
            /\ (row'[j].status = "absent") <=> (row[j].status = "absent")
            /\ row'[j].status = "open" => row[j].status = "open" /\ j \notin req[r].old
  <2>1. row' \in [Items -> [status : Statuses, created : Nat, expires : Nat, attempts : Nat]]
    BY DEF IInv, Columns
  <2>2. row'[i] = [status |-> "open", created |-> clock, expires |-> req[r].expires, attempts |-> 0]
    BY <1>1, <1>3 DEF Delete
  <2>3. \A j \in Items : j # i => row'[j] = Delete(req[r].old)[j]
    BY <1>3 DEF Delete
  <2> HIDE DEF i
  <2> QED  BY <1>2, <2>2, <2>3 DEF Delete, IInv, Columns
<1>5. /\ req'[r].next = "send"
      /\ \A q \in Requests : q # r => req'[q] = req[q]
  BY <1>3 DEF IInv, Columns
<1>6. \A j \in Items : i \notin before[j] /\ before[j] \subseteq Items
  BY <1>1 DEF Replacing, BeforeExist
<1> HIDE DEF i
<1>7. BeforeExist'
  <2>1. \A j \in Items : Same(j)' = Same(j)  BY DEF Same
  <2> QED  BY <1>3, <1>4, <1>6, <2>1 DEF Replacing, BeforeExist
<1>8. InTime'
  BY <1>3, <1>4 DEF Replacing, InTime
<1>9. ASSUME NEW q \in Requests, req'[q].next \in Making
      PROVE  q # r /\ req'[q] = req[q] /\ req[q].item \in Items
  <2>1. q # r  BY <1>5, <1>9 DEF Making
  <2> QED  BY <1>5, <1>9, <2>1
<1>10. Cooling'
  <2> SUFFICES ASSUME NEW q \in Requests, req'[q].next \in Making, req'[q].item \in Codes,
                      NEW k \in before[req'[q].item], row'[k].status = "open"
               PROVE  clock - row'[k].created >= Cooldown
    BY <1>3 DEF Cooling
  <2> QED  BY <1>4, <1>6, <1>9 DEF Replacing, Cooling
<1>11. Closing'
  <2> SUFFICES ASSUME NEW q \in Requests, req'[q].next = "create",
                      NEW k \in before[req'[q].item], row'[k].status = "open"
               PROVE  k \in req'[q].old
    BY <1>3 DEF Closing, At
  <2> QED  BY <1>4, <1>6, <1>9 DEF Replacing, Closing, At, Making
<1>12. Replaced'
  <2> SUFFICES ASSUME NEW j \in Items, row'[j].status # "absent", NEW k \in before[j]
               PROVE  row'[k].status # "open"
    BY <1>3 DEF Replaced
  <2>1. CASE j = i
    <3>1. row[k].status = "open" => k \in req[r].old
      BY <1>1, <2>1 DEF Replacing, Closing, i
    <3> QED  BY <1>4, <1>6, <3>1
  <2>2. CASE j # i  BY <1>4, <1>6, <2>2 DEF Replacing, Replaced
  <2> QED  BY <2>1, <2>2
<1> QED
  BY <1>7, <1>8, <1>10, <1>11, <1>12 DEF Replacing

LEMMA UseReplaces ==
    ASSUME IInv, IInv', Replacing, NEW r \in Requests,
           \/ send(r) \/ countMiss(r) \/ consume(r) \/ effect(r) \/ processDies(r)
           \/ \E typed : verifyCode(r, typed)
           \/ \E i \in Items : verifyLink(r, i)
    PROVE  Replacing'
<1> DEFINE i == req[r].item
<1>1. /\ UNCHANGED <<before, clock>>
      /\ \/ UNCHANGED row
         \/ row' = Delete({i})
         \/ row' = [row EXCEPT ![i].attempts = @ + 1] \/ row' = [row EXCEPT ![i].status = "consumed"]
         \/ row' = [row EXCEPT ![i].status = "deleted"]
  BY DEF send, countMiss, consume, effect, processDies, verifyCode, verifyLink
<1>2. row' # row => row[i].status # "absent"
  BY DEF send, countMiss, consume, effect, processDies, verifyCode, verifyLink, IInv, UsedExists,
         At, Using
<1>3. \A j \in Items :
         /\ row'[j].created = row[j].created
         /\ (row'[j].status = "absent") <=> (row[j].status = "absent")
         /\ row'[j].status = "open" => row[j].status = "open"
  <2> HIDE DEF i
  <2> QED  BY <1>1, <1>2 DEF Delete, IInv, Columns
<1>4. \A q \in Requests : req'[q].next \in Making => req'[q] = req[q]
  <2>1. \/ Finish(r)
        \/ \E step \in {"consume", "miss", "effect"} : \E j : Then(r, step, j)
    BY DEF send, countMiss, consume, effect, processDies, verifyCode, verifyLink
  <2> QED  BY <2>1 DEF Finish, Then, Idle, Making, IInv, Columns
<1>5. clock' >= clock
  BY <1>1 DEF IInv, Columns
<1> HIDE DEF i
<1> QED
  BY <1>1, <1>3, <1>4, <1>5, QuietKeeps

LEMMA PassReplaces ==
    ASSUME IInv, IInv', Replacing, tick \/ prune \/ UNCHANGED vars PROVE Replacing'
<1>1. UNCHANGED <<before, req>> /\ clock' >= clock
  BY DEF tick, prune, vars, IInv, Columns
<1>2. \A j \in Items :
         /\ row'[j].created = row[j].created
         /\ (row'[j].status = "absent") <=> (row[j].status = "absent")
         /\ row'[j].status = "open" => row[j].status = "open"
  <2>1. CASE prune
    <3> DEFINE gone == {i \in Links : row[i].status = "open" /\ row[i].expires < clock}
    <3>1. row' = Delete(gone) /\ \A j \in gone : row[j].status # "absent"
      BY <2>1 DEF prune
    <3> HIDE DEF gone
    <3> QED  BY <3>1 DEF Delete, IInv, Columns
  <2>2. CASE tick \/ UNCHANGED vars
    BY <2>2 DEF tick, vars
  <2> QED  BY <2>1, <2>2
<1> QED
  BY <1>1, <1>2, QuietKeeps

LEMMA ReplacingAlways == Spec => [](IInv /\ Replacing)
<1>1. Init => Replacing
  <2> SUFFICES ASSUME Init PROVE Replacing
    OBVIOUS
  <2>1. /\ \A j \in Items : before[j] = {} /\ row[j].created = 0 /\ clock = 0
        /\ \A r \in Requests : req[r].next = "idle"
    BY DEF Init, Idle
  <2> QED
    BY <2>1 DEF Replacing, BeforeExist, InTime, Cooling, Closing, Replaced, Making, At
<1>2. IInv /\ IInv' /\ Replacing /\ [Next]_vars => Replacing'
  <2> SUFFICES ASSUME IInv, IInv', Replacing, [Next]_vars PROVE Replacing'
    OBVIOUS
  <2>1. CASE tick \/ prune \/ UNCHANGED vars
    BY <2>1, PassReplaces
  <2>2. ASSUME NEW r \in Requests, NEW i \in Items, issue(r, i)  PROVE Replacing'
    BY <2>2, IssueReplaces
  <2>3. ASSUME NEW r \in Requests, deleteOlder(r)  PROVE Replacing'
    BY <2>3, DeleteOlderReplaces
  <2>4. ASSUME NEW r \in Requests, createRow(r)  PROVE Replacing'
    BY <2>4, CreateReplaces
  <2>5. ASSUME NEW r \in Requests,
               \/ send(r) \/ countMiss(r) \/ consume(r) \/ effect(r) \/ processDies(r)
               \/ \E typed \in (held \cap Codes) \cup {Wrong} : verifyCode(r, typed)
               \/ \E i \in held \cap Links : verifyLink(r, i)
        PROVE  Replacing'
    BY <2>5, UseReplaces DEF Items
  <2> QED
    BY <2>1, <2>2, <2>3, <2>4, <2>5 DEF Next
<1> QED
  BY <1>1, <1>2, Inductive, PTL DEF Spec

\* "Resend invalidates the previous code": what existed before a newer code or link
\* was asked for never has its effect again once the newer one exists, whatever
\* requests interleave; the request that consumes it finds it closed.
THEOREM ReplacedAreRefused == Spec => ReplacedIsNotAccepted
<1> DEFINE Refused ==
      \A i \in Items :
        (\E r \in Requests : At(r, "consume") /\ req[r].item = i /\ req'[r].next = "effect")
          => \A j \in Items : row[j].status # "absent" => i \notin before[j]
<1>1. IInv /\ Replacing /\ [Next]_vars => Refused
  <2> SUFFICES ASSUME IInv, Replacing, [Next]_vars,
                      NEW i \in Items, NEW r \in Requests,
                      At(r, "consume"), req[r].item = i, req'[r].next = "effect"
               PROVE  row[i].status = "open"
    BY DEF Replacing, Replaced
  <2>1. consume(r)
    <3>1. ASSUME NEW q \in Requests, q # r,
                 \/ \E k \in Items : issue(q, k)
                 \/ deleteOlder(q) \/ createRow(q) \/ send(q)
                 \/ \E typed \in (held \cap Codes) \cup {Wrong} : verifyCode(q, typed)
                 \/ \E k \in held \cap Links : verifyLink(q, k)
                 \/ countMiss(q) \/ consume(q) \/ effect(q) \/ processDies(q)
          PROVE  req'[r] = req[r]
      BY <3>1 DEF issue, deleteOlder, createRow, send, verifyCode, verifyLink, countMiss,
                  consume, effect, processDies, Finish, Then, IInv, Columns
    <3>2. req'[r] # req[r]
      BY DEF At
    <3>3. ~(tick \/ prune \/ UNCHANGED vars)
      BY <3>2 DEF tick, prune, vars
    <3>4. \/ \E k \in Items : issue(r, k)
          \/ deleteOlder(r) \/ createRow(r) \/ send(r)
          \/ \E typed \in (held \cap Codes) \cup {Wrong} : verifyCode(r, typed)
          \/ \E k \in held \cap Links : verifyLink(r, k)
          \/ countMiss(r) \/ consume(r) \/ effect(r) \/ processDies(r)
      BY <3>1, <3>2, <3>3 DEF Next
    <3>5. ~processDies(r)
      BY DEF processDies, Finish, Idle, IInv, Columns
    <3> QED
      BY <3>4, <3>5 DEF issue, deleteOlder, createRow, send, verifyCode, verifyLink,
         countMiss, effect, At
  <2> QED
    BY <2>1 DEF consume, Finish, Idle, IInv, Columns
<1>2. Spec => [][Refused]_vars
  BY <1>1, ReplacingAlways, PTL DEF Spec
<1> QED
  BY <1>2 DEF ReplacedIsNotAccepted

\* "A resend before this is refused": a code that was open when the next one was
\* asked for has cooled down when it is replaced, and no tick can undo it.
THEOREM CooldownIsKept == Spec => CooldownKeepsApart
<1> DEFINE KeptApart ==
      \A j \in Codes : row[j].status = "absent" /\ row'[j].status = "open" =>
          \A i \in before[j] : row[i].status = "open" => clock - row[i].created >= Cooldown
<1>1. IInv /\ Replacing /\ [Next]_vars => KeptApart
  <2> SUFFICES ASSUME IInv, Replacing, [Next]_vars,
                      NEW j \in Codes, row[j].status = "absent", row'[j].status = "open"
               PROVE  \E r \in Requests : At(r, "create") /\ req[r].item = j
    BY DEF Replacing, Cooling, At, Making
  <2>1. j \in Items
    BY DEF Items
  <2>2. \A is : Delete(is)[j].status # "open"
    BY <2>1 DEF Delete
  <2>3. ASSUME NEW r \in Requests,
               \/ \E k \in Items : issue(r, k)
               \/ deleteOlder(r) \/ send(r)
               \/ \E typed \in (held \cap Codes) \cup {Wrong} : verifyCode(r, typed)
               \/ \E k \in held \cap Links : verifyLink(r, k)
               \/ countMiss(r) \/ consume(r) \/ effect(r) \/ processDies(r)
        PROVE  FALSE
    <3>1. row' \in {row, Delete(OpenAmong(Same(req[r].item))), Delete({req[r].item}),
                    [row EXCEPT ![req[r].item].attempts = @ + 1],
                    [row EXCEPT ![req[r].item].status = "consumed"],
                    [row EXCEPT ![req[r].item].status = "deleted"]}
      BY <2>3 DEF issue, deleteOlder, send, verifyCode, verifyLink, countMiss, consume, effect,
                  processDies
    <3> QED
      BY <2>1, <2>2, <3>1 DEF IInv, Columns
  <2>4. ~(tick \/ prune \/ UNCHANGED vars)
    BY <2>1, <2>2 DEF tick, prune, vars
  <2>5. PICK r \in Requests : createRow(r)
    BY <2>3, <2>4 DEF Next
  <2>6. At(r, "create") /\ req[r].item \in Items
    BY <2>5, RowTypes DEF createRow, At
  <2>7. req[r].item = j
    <3>1. CASE req[r].item # j
      <4>1. row'[j] = Delete(req[r].old)[j]
        BY <2>1, <2>5, <3>1 DEF createRow, Delete
      <4> QED  BY <2>2, <4>1
    <3> QED  BY <3>1
  <2> QED
    BY <2>6, <2>7
<1>2. Spec => [][KeptApart]_vars
  BY <1>1, ReplacingAlways, PTL DEF Spec
<1> QED
  BY <1>2 DEF CooldownKeepsApart

================================================================================
