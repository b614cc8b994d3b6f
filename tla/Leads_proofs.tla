------------------------------ MODULE Leads_proofs ------------------------------
(***************************************************************************)
(* Proofs about LeadCredits, for every set of sellers, leads, plans and     *)
(* requests.  TypeOK comes first; the safety invariants are proved on top   *)
(* of it, one lemma each, and conjoined in Safety.                          *)
(*                                                                         *)
(* Then LeadCredits is shown to implement LeadAccount: the initial state     *)
(* maps to the empty account, each step to one step of the account or to     *)
(* none.  What TypeOK and Safety do not say for it is that no request        *)
(* carries a grant no plan gives, which is proved first.                     *)
(*                                                                         *)
(* The last part is about LeadDelivery, how a lead's messages leave.  The    *)
(* types hold for any number of workers, and so does SentWasAccepted.  The   *)
(* other two properties are those of ONE worker process: then the batch in   *)
(* hand is the only one, every row of it is still PENDING, and a row that is *)
(* still to be decided was sent no more often than things went wrong.        *)
(***************************************************************************)
EXTENDS LeadCredits, LeadDelivery, FiniteSetTheorems, TLAPS

-----------------------------------------------------------------------------
(* What one guarded move of the balance does to the ledger.                 *)

\* The row Post appends for seller s.
PostedRow(s, delta, reason, l, p) ==
    [delta |-> delta, balanceAfter |-> balance[s] + delta,
     reason |-> reason, lead |-> l, period |-> p]

\* What such a move leaves: every earlier row of every seller where it was, and
\* exactly one new row behind the last one of s, with the types kept.
Appended(s, delta, reason, l, p) ==
    /\ balance' \in [Sellers -> Nat]
    /\ balance'[s] = balance[s] + delta
    /\ \A t \in Sellers : t # s => balance'[t] = balance[t] /\ ledger'[t] = ledger[t]
    /\ ledger' \in [Sellers -> Seq(Entry)]
    /\ Len(ledger'[s]) = Len(ledger[s]) + 1
    /\ \A i \in 1 .. Len(ledger[s]) : ledger'[s][i] = ledger[s][i]
    /\ ledger'[s][Len(ledger[s]) + 1] = PostedRow(s, delta, reason, l, p)

\* A guarded move is such a step.
LEMMA PostAppends ==
    ASSUME TypeOK,
           NEW s \in Sellers, NEW delta \in Int \ {0}, NEW reason \in Reasons,
           NEW l \in Leads \cup {NoLead}, NEW p \in Periods \cup {0},
           Post(s, delta, reason, l, p)
    PROVE  Appended(s, delta, reason, l, p)
<1> DEFINE row == PostedRow(s, delta, reason, l, p)
<1>1. /\ balance \in [Sellers -> Nat]
      /\ ledger \in [Sellers -> Seq(Entry)]
      /\ balance[s] \in Nat
      /\ ledger[s] \in Seq(Entry)
  BY DEF TypeOK
<1>2. balance[s] + delta \in Nat
  BY <1>1 DEF Post
<1>3. row \in Entry
  BY <1>2 DEF Entry, PostedRow
<1>4. /\ balance' = [balance EXCEPT ![s] = @ + delta]
      /\ ledger' = [ledger EXCEPT ![s] = Append(@, row)]
  BY DEF Post, PostedRow
<1>5. /\ Append(ledger[s], row) \in Seq(Entry)
      /\ Len(Append(ledger[s], row)) = Len(ledger[s]) + 1
      /\ \A i \in 1 .. Len(ledger[s]) : Append(ledger[s], row)[i] = ledger[s][i]
      /\ Append(ledger[s], row)[Len(ledger[s]) + 1] = row
  <2> HIDE DEF row
  <2> QED BY <1>1, <1>3
<1> HIDE DEF row
<1>6. ledger'[s] = Append(ledger[s], row) /\ balance'[s] = balance[s] + delta
  BY <1>1, <1>4
<1>7. QED
  BY <1>1, <1>2, <1>4, <1>5, <1>6 DEF row, Appended

-----------------------------------------------------------------------------
(* Type correctness.                                                        *)

\* The initial rows and requests are well-formed.
LEMMA TypeInit == Init => TypeOK
  BY LeadsAssumption, CreditsAssumption
  DEF Init, TypeOK, Statuses, FlagStatuses, Periods, Request

\* The inbox's one-statement updates keep every type.
LEMMA TypeInbox ==
    ASSUME TypeOK, NEW l \in Leads, InboxStep(l)
    PROVE  TypeOK'
<1>1. CASE markLeadViewed(l)
  BY <1>1 DEF markLeadViewed, SetStatus, creditVars, clockVars, TypeOK, Statuses
<1>2. CASE closeLead(l)
  BY <1>2 DEF closeLead, SetStatus, creditVars, clockVars, TypeOK, Statuses
<1>3. CASE flagLead(l)
  BY <1>3 DEF flagLead, creditVars, clockVars, TypeOK, FlagStatuses
<1>4. CASE PassExpiry(l)
  BY <1>4 DEF PassExpiry, creditVars, clockVars, TypeOK
<1>5. CASE rejectFlag(l)
  BY <1>5 DEF rejectFlag, creditVars, clockVars, TypeOK, FlagStatuses
<1>6. CASE \E outcome \in Outcomes : setLeadOutcome(l, outcome)
  BY <1>6 DEF setLeadOutcome, SetStatus, creditVars, clockVars, TypeOK, Statuses, Outcomes
<1>7. QED
  BY <1>1, <1>2, <1>3, <1>4, <1>5, <1>6 DEF InboxStep

\* So do the accepts and the refunds ...
LEMMA TypeOnLead ==
    ASSUME TypeOK, NEW r \in Requests, NEW l \in Leads, RequestOnLead(r, l)
    PROVE  TypeOK'
<1> USE LeadsAssumption
<1>0. SellerOf[l] \in Sellers
  OBVIOUS
<1>1. CASE acceptRead(r, l)
  BY <1>1 DEF acceptRead, leadVars, creditVars, clockVars, TypeOK, Request
<1>2. CASE acceptCommit(r, l)
  <2>1. -1 \in Int \ {0}
    OBVIOUS
  <2>2. balance' \in [Sellers -> Nat] /\ ledger' \in [Sellers -> Seq(Entry)]
    <3>1. Post(SellerOf[l], -1, "LEAD_ACCEPT", l, 0)
      BY <1>2 DEF acceptCommit
    <3>2. Appended(SellerOf[l], -1, "LEAD_ACCEPT", l, 0)
      BY <1>0, <2>1, <3>1, PostAppends DEF Reasons
    <3>3. QED
      BY <3>2 DEF Appended
  <2>3. accepted' \in [Sellers -> Nat]
    BY <1>0, <1>2 DEF acceptCommit, TypeOK
  <2>4. status' \in [Leads -> Statuses] /\ req' \in [Requests -> Request]
    BY <1>2 DEF acceptCommit, SetStatus, Finish, TypeOK, Statuses, Request
  <2>5. QED
    BY <1>2, <2>2, <2>3, <2>4 DEF acceptCommit, clockVars, TypeOK
<1>3. CASE acceptRefused(r, l)
  BY <1>3 DEF acceptRefused, Finish, leadVars, creditVars, clockVars, TypeOK, Request
<1>4. CASE refundRead(r, l)
  BY <1>4 DEF refundRead, leadVars, creditVars, clockVars, TypeOK, Request
<1>5. CASE refundCommit(r, l)
  <2>1. balance' \in [Sellers -> Nat] /\ ledger' \in [Sellers -> Seq(Entry)]
    <3>1. Post(SellerOf[l], 1, "FLAG_REFUND", l, 0)
      BY <1>5 DEF refundCommit
    <3>2. Appended(SellerOf[l], 1, "FLAG_REFUND", l, 0)
      BY <1>0, <3>1, PostAppends DEF Reasons
    <3>3. QED
      BY <3>2 DEF Appended
  <2>2. QED
    BY <1>5, <2>1 DEF refundCommit, Finish, clockVars, TypeOK, FlagStatuses, Request
<1>6. CASE refundNothing(r, l)
  BY <1>6 DEF refundNothing, leadVars, creditVars, clockVars, TypeOK, Request
<1>7. CASE dismissFlag(r, l)
  BY <1>7 DEF dismissFlag, Finish, creditVars, clockVars, TypeOK, FlagStatuses, Request
<1>8. QED
  BY <1>1, <1>2, <1>3, <1>4, <1>5, <1>6, <1>7 DEF RequestOnLead

\* ... the purchases, adjustments and plan changes ...
LEMMA TypeOnSeller ==
    ASSUME TypeOK, NEW r \in Requests, NEW s \in Sellers, RequestOnSeller(r, s)
    PROVE  TypeOK'
<1> USE CreditsAssumption
<1>1. CASE \E delta \in Adjustments : adjustCredits(r, s, delta)
  <2>1. PICK delta \in Adjustments : adjustCredits(r, s, delta)
    BY <1>1
  <2>2. balance' \in [Sellers -> Nat] /\ ledger' \in [Sellers -> Seq(Entry)]
    <3>1. Post(s, delta, "ADMIN_ADJUST", NoLead, 0)
      BY <2>1 DEF adjustCredits
    <3>2. Appended(s, delta, "ADMIN_ADJUST", NoLead, 0)
      BY <3>1, PostAppends DEF Reasons
    <3>3. QED
      BY <3>2 DEF Appended
  <2>3. QED
    BY <2>1, <2>2 DEF adjustCredits, Finish, leadVars, clockVars, TypeOK, Request
<1>2. CASE buyLeadPack(r, s)
  <2>1. PackSize \in Int \ {0}
    OBVIOUS
  <2>2. balance' \in [Sellers -> Nat] /\ ledger' \in [Sellers -> Seq(Entry)]
    <3>1. Post(s, PackSize, "ADDON_PURCHASE", NoLead, 0)
      BY <1>2 DEF buyLeadPack
    <3>2. Appended(s, PackSize, "ADDON_PURCHASE", NoLead, 0)
      BY <2>1, <3>1, PostAppends DEF Reasons
    <3>3. QED
      BY <3>2 DEF Appended
  <2>3. QED
    BY <1>2, <2>2 DEF buyLeadPack, Finish, leadVars, clockVars, TypeOK, Request
<1>3. CASE \E p \in Plans : changeSellerPlan(r, s, p)
  <2>1. PICK p \in Plans : changeSellerPlan(r, s, p)
    BY <1>3
  <2>2. MonthlyCredits[p] \in Nat /\ period \in Periods
    BY DEF TypeOK
  <2>3. req' \in [Requests -> Request]
    BY <2>1, <2>2 DEF changeSellerPlan, TypeOK, Request, TopUp
  <2>4. QED
    BY <2>1, <2>3 DEF changeSellerPlan, leadVars, creditVars, TypeOK
<1>4. QED
  BY <1>1, <1>2, <1>3 DEF RequestOnSeller

\* One transaction of the monthly job.
GrantStep(r, d) ==
    /\ \/ /\ Slot(d[1], "MONTHLY_GRANT", req[r].period) = {}
          /\ Post(d[1], d[2], "MONTHLY_GRANT", NoLead, req[r].period)
       \/ /\ Slot(d[1], "MONTHLY_GRANT", req[r].period) # {}
          /\ UNCHANGED creditVars
    /\ req' = [req EXCEPT ![r].due = @ \ {d}]

\* What a top-up about to write may post.
LEMMA TopUpPosts ==
    ASSUME TypeOK, NEW r \in Requests, topUpWrite(r)
    PROVE  /\ req[r].seller \in Sellers
           /\ req[r].owed \in Int \ {0}
           /\ req[r].reason \in {"MONTHLY_GRANT", "ADMIN_ADJUST"}
           /\ NoLead \in Leads \cup {NoLead}
           /\ req[r].period \in Periods
<1>1. req[r] \in TopUp /\ req[r].stage = "write"
  BY DEF topUpWrite, AtStage
<1>2. req[r].owed \in Nat /\ req[r].owed > 0
  BY <1>1 DEF TopUp
<1>3. /\ req[r].seller \in Sellers
      /\ req[r].period \in Periods
      /\ req[r].reason \in {"MONTHLY_GRANT", "ADMIN_ADJUST"}
  BY <1>1 DEF TopUp
<1>4. QED
  BY <1>2, <1>3

\* A request of the monthly job, told apart from the others by its op.
LEMMA GrantRequest ==
    ASSUME TypeOK, NEW r \in Requests, req[r].op = "grant"
    PROVE  req[r] \in [op : {"grant"}, period : Periods, due : SUBSET (Sellers \X (Nat \ {0}))]
<1>1. req[r] \in Request
  BY DEF TypeOK
<1>2. Idle.op # "grant" /\ Done.op # "grant"
  BY DEF Idle, Done
<1>3. \A t \in TopUp : t.op # "grant"
  BY DEF TopUp
<1>4. QED
  BY <1>1, <1>2, <1>3 DEF Request

\* Granting one seller of the list keeps the types of the balance and ledger.
LEMMA GrantPosts ==
    ASSUME TypeOK, NEW r \in Requests, NEW d \in Sellers \X (Nat \ {0}),
           req[r].period \in Periods, GrantStep(r, d)
    PROVE  balance' \in [Sellers -> Nat] /\ ledger' \in [Sellers -> Seq(Entry)]
<1>1. CASE Post(d[1], d[2], "MONTHLY_GRANT", NoLead, req[r].period)
  <2>1. d[1] \in Sellers /\ d[2] \in Int \ {0} /\ NoLead \in Leads \cup {NoLead}
    OBVIOUS
  <2>2. QED
    BY <1>1, <2>1, PostAppends DEF Reasons, Appended
<1>2. CASE UNCHANGED creditVars
  BY <1>2 DEF creditVars, TypeOK
<1>3. QED
  BY <1>1, <1>2 DEF GrantStep

\* ... and the top-ups, the monthly grant and the nightly recount.
LEMMA TypeJob ==
    ASSUME TypeOK, NEW r \in Requests, JobStep(r)
    PROVE  TypeOK'
<1> USE LeadsAssumption, CreditsAssumption
<1>0. /\ req \in [Requests -> Request]
      /\ req[r] \in Request
  BY DEF TypeOK
<1>1. CASE topUpSum(r)
  <2>1. req[r] \in TopUp
    BY <1>1 DEF topUpSum, AtStage
  <2>2. CASE req' = [req EXCEPT ![r].stage = "nothing"]
    <3>1. [req[r] EXCEPT !.stage = "nothing"] \in Request
      BY <2>1 DEF TopUp, Request
    <3>2. QED
      BY <1>0, <1>1, <2>2, <3>1 DEF topUpSum, leadVars, creditVars, clockVars, TypeOK
  <2>3. CASE \E owed \in 1 .. req[r].target :
                req' = [req EXCEPT ![r].stage = "slot", ![r].owed = owed]
    <3>1. PICK owed \in 1 .. req[r].target :
              req' = [req EXCEPT ![r].stage = "slot", ![r].owed = owed]
      BY <2>3
    <3>2. owed \in Nat /\ owed > 0
      BY <2>1 DEF TopUp
    <3>3. [[req[r] EXCEPT !.stage = "slot"] EXCEPT !.owed = owed] \in Request
      BY <2>1, <3>2 DEF TopUp, Request
    <3>4. req' = [req EXCEPT ![r] = [[req[r] EXCEPT !.stage = "slot"] EXCEPT !.owed = owed]]
      BY <1>0, <3>1
    <3>5. QED
      BY <1>0, <1>1, <3>3, <3>4 DEF topUpSum, leadVars, creditVars, clockVars, TypeOK
  <2>4. QED
    BY <1>1, <2>2, <2>3 DEF topUpSum
<1>2. CASE topUpSlot(r)
  <2>1. req[r] \in TopUp /\ req[r].stage = "slot"
    BY <1>2 DEF topUpSlot, AtStage
  <2> DEFINE reason == IF Slot(req[r].seller, "MONTHLY_GRANT", req[r].period) = {}
                       THEN "MONTHLY_GRANT" ELSE "ADMIN_ADJUST"
             next == [[req[r] EXCEPT !.stage = "write"] EXCEPT !.reason = reason]
  <2>2. reason \in {"MONTHLY_GRANT", "ADMIN_ADJUST"}
    OBVIOUS
  <2>3. req' = [req EXCEPT ![r].stage = "write", ![r].reason = reason]
    BY <1>2 DEF topUpSlot
  <2> HIDE DEF reason
  <2>4. req[r].owed > 0
    BY <2>1 DEF TopUp
  <2>5. next \in Request
    BY <2>1, <2>2, <2>4 DEF TopUp, Request
  <2>6. req' = [req EXCEPT ![r] = next]
    BY <1>0, <2>3
  <2> HIDE DEF next
  <2>7. QED
    BY <1>0, <1>2, <2>5, <2>6 DEF topUpSlot, leadVars, creditVars, clockVars, TypeOK
<1>3. CASE topUpWrite(r)
  <2>1. req[r] \in TopUp
    BY <1>3 DEF topUpWrite, AtStage
  <2>2. [req[r] EXCEPT !.stage = "granted"] \in Request
    BY <2>1 DEF TopUp, Request
  <2>3. Post(req[r].seller, req[r].owed, req[r].reason, NoLead, req[r].period)
    BY <1>3 DEF topUpWrite
  <2>4. balance' \in [Sellers -> Nat] /\ ledger' \in [Sellers -> Seq(Entry)]
    <3>1. req[r].reason \in Reasons
      BY <1>3, TopUpPosts DEF Reasons
    <3>2. QED
      BY <1>3, <2>3, <3>1, TopUpPosts, PostAppends DEF Appended
  <2>5. QED
    BY <1>0, <1>3, <2>2, <2>4 DEF topUpWrite, leadVars, clockVars, TypeOK
<1>4. CASE topUpConflict(r)
  <2>1. req[r] \in TopUp
    BY <1>4 DEF topUpConflict, AtStage
  <2>2. [req[r] EXCEPT !.stage = "conflict"] \in Request
    BY <2>1 DEF TopUp, Request
  <2>3. QED
    BY <1>0, <1>4, <2>2 DEF topUpConflict, leadVars, creditVars, clockVars, TypeOK
<1>5. CASE grantList(r)
  <2> DEFINE due == {<<s, MonthlyCredits[plan[s]]>> : s \in {s \in Sellers : MonthlyCredits[plan[s]] > 0}}
  <2>1. due \in SUBSET (Sellers \X (Nat \ {0}))
    BY DEF TypeOK
  <2>2. req' = [req EXCEPT ![r] = [op |-> "grant", period |-> period, due |-> due]]
    BY <1>5 DEF grantList
  <2> HIDE DEF due
  <2>3. QED
    BY <1>5, <2>1, <2>2 DEF grantList, leadVars, creditVars, clockVars, TypeOK, Request
<1>6. CASE grantOne(r)
  <2>1. PICK d \in req[r].due : GrantStep(r, d)
    BY <1>6 DEF grantOne, GrantStep
  <2>2. /\ req[r] \in [op : {"grant"}, period : Periods, due : SUBSET (Sellers \X (Nat \ {0}))]
        /\ d \in Sellers \X (Nat \ {0})
    BY <1>6, GrantRequest DEF grantOne
  <2>3. [req[r] EXCEPT !.due = @ \ {d}] \in Request
    BY <2>2 DEF Request
  <2>4. balance' \in [Sellers -> Nat] /\ ledger' \in [Sellers -> Seq(Entry)]
    BY <2>1, <2>2, GrantPosts
  <2>5. QED
    BY <1>0, <1>6, <2>1, <2>3, <2>4 DEF grantOne, GrantStep, leadVars, clockVars, TypeOK
<1>7. CASE statsRead(r)
  <2>1. \A s \in Sellers : Cardinality(AcceptedNow(s)) \in Nat
    BY FS_Subset, FS_CardinalityType DEF AcceptedNow
  <2>2. {SellerOf[l] : l \in Market} \in SUBSET Sellers
    OBVIOUS
  <2>3. QED
    BY <1>7, <2>1, <2>2 DEF statsRead, leadVars, creditVars, clockVars, TypeOK, Request
<1>8. CASE statsWrite(r)
  <2>1. PICK s \in req[r].due : /\ accepted' = [accepted EXCEPT ![s] = req[r].counted[s]]
                                /\ req' = [req EXCEPT ![r].due = @ \ {s}]
    BY <1>8 DEF statsWrite
  <2>2. req[r] \in [op : {"stats"}, counted : [Sellers -> Nat], due : SUBSET Sellers]
    BY <1>0, <1>8 DEF statsWrite, Request, Idle, Done, TopUp
  <2>3. [req[r] EXCEPT !.due = @ \ {s}] \in Request
    BY <2>2 DEF Request
  <2>4. QED
    BY <1>0, <1>8, <2>1, <2>2, <2>3 DEF statsWrite, leadVars, creditVars, clockVars, TypeOK
<1>9. QED
  BY <1>1, <1>2, <1>3, <1>4, <1>5, <1>6, <1>7, <1>8 DEF JobStep

\* The whole next-state relation keeps TypeOK.
LEMMA TypeStep == TypeOK /\ [Next]_vars => TypeOK'
<1> SUFFICES ASSUME TypeOK, [Next]_vars PROVE TypeOK'
  OBVIOUS
<1>1. CASE expireMarketLeads
  BY <1>1 DEF expireMarketLeads, creditVars, clockVars, TypeOK, Statuses
<1>2. CASE NextMonth
  BY <1>2, CreditsAssumption DEF NextMonth, leadVars, creditVars, TypeOK, Periods
<1>3. CASE UNCHANGED vars
  BY <1>3 DEF vars, TypeOK
<1>4. QED
  BY <1>1, <1>2, <1>3, TypeInbox, TypeOnLead, TypeOnSeller, TypeJob DEF Next

\* LeadCredits, type correctness: in every reachable state each row and request
\* has its shape, and no balance or balanceAfter is negative.
THEOREM TypeCorrect == Spec => []TypeOK
BY TypeInit, TypeStep, PTL DEF Spec

-----------------------------------------------------------------------------
(* The rows of a lead, and the slots of a month, before and after a move.   *)

\* new is rows with one more row behind the others.
OneMore(rows, new) ==
    /\ rows \in Seq(Entry)
    /\ new \in Seq(Entry)
    /\ Len(new) = Len(rows) + 1
    /\ \A i \in 1 .. Len(rows) : new[i] = rows[i]

\* The new row joins the rows of its own reason and lead, and no others.
RowsGrow(rows, new, q, m) ==
    LET n == Len(rows) + 1
    IN  RowsOf(new, q, m) = IF new[n].reason = q /\ new[n].lead = m
                            THEN RowsOf(rows, q, m) \cup {n} ELSE RowsOf(rows, q, m)

\* It joins the slot of its own reason and month, and no others.
SlotGrows(rows, new, q, k) ==
    LET n == Len(rows) + 1
    IN  SlotOf(new, q, k) = IF new[n].reason = q /\ new[n].period = k
                            THEN SlotOf(rows, q, k) \cup {n} ELSE SlotOf(rows, q, k)

\* Every set of rows, and every slot, of a longer ledger is one of these.
LEMMA OneMoreGrows ==
    ASSUME NEW rows, NEW new, OneMore(rows, new), NEW q, NEW m
    PROVE  /\ RowsGrow(rows, new, q, m)
           /\ SlotGrows(rows, new, q, m)
<1> DEFINE n == Len(rows)
<1>1. n \in Nat /\ DOMAIN rows = 1 .. n /\ DOMAIN new = (1 .. n) \cup {n + 1}
  BY DEF OneMore
<1>2. \A i \in 1 .. n : new[i] = rows[i]
  BY DEF OneMore
<1> HIDE DEF n
<1>3. RowsOf(new, q, m) = IF new[n + 1].reason = q /\ new[n + 1].lead = m
                          THEN RowsOf(rows, q, m) \cup {n + 1} ELSE RowsOf(rows, q, m)
  BY <1>1, <1>2 DEF RowsOf
<1>4. SlotOf(new, q, m) = IF new[n + 1].reason = q /\ new[n + 1].period = m
                          THEN SlotOf(rows, q, m) \cup {n + 1} ELSE SlotOf(rows, q, m)
  BY <1>1, <1>2 DEF SlotOf
<1>5. QED
  BY <1>3, <1>4 DEF n, RowsGrow, SlotGrows

\* The rows of a lead are numbered within the ledger they are in.
LEMMA RowsBounded ==
    ASSUME NEW rows \in Seq(Entry), NEW q, NEW m
    PROVE  \A i \in RowsOf(rows, q, m) : i \in 1 .. Len(rows)
  BY DEF RowsOf

\* A move makes the ledger of its seller longer by one row.
LEMMA PostGrows ==
    ASSUME TypeOK, NEW s \in Sellers, NEW delta, NEW reason, NEW l, NEW p,
           Appended(s, delta, reason, l, p)
    PROVE  /\ OneMore(ledger[s], ledger'[s])
           /\ ledger'[s][Len(ledger[s]) + 1].reason = reason
           /\ ledger'[s][Len(ledger[s]) + 1].lead = l
           /\ ledger'[s][Len(ledger[s]) + 1].period = p
  BY DEF Appended, OneMore, TypeOK, PostedRow

-----------------------------------------------------------------------------
(* The ledger on its own: the chain of balances and the monthly slots.      *)

\* A step leaves the ledger alone or makes one well-typed move, and a move
\* that carries a periodKey found its slot empty.
LedgerMove ==
    \/ UNCHANGED creditVars
    \/ \E s \in Sellers, delta \in Int \ {0}, reason \in Reasons,
          l \in Leads \cup {NoLead}, p \in Periods \cup {0} :
          /\ Post(s, delta, reason, l, p)
          /\ p = 0 \/ Slot(s, reason, p) = {}

\* Every step of the specification is such a move.
LEMMA StepIsLedgerMove == TypeOK /\ [Next]_vars => LedgerMove
<1> SUFFICES ASSUME TypeOK, [Next]_vars PROVE LedgerMove
  OBVIOUS
<1> USE LeadsAssumption, CreditsAssumption
<1>1. ASSUME NEW l \in Leads, InboxStep(l) PROVE LedgerMove
  BY <1>1 DEF InboxStep, markLeadViewed, closeLead, flagLead, PassExpiry, rejectFlag,
              setLeadOutcome, LedgerMove, creditVars
<1>2. ASSUME NEW r \in Requests, NEW l \in Leads, RequestOnLead(r, l) PROVE LedgerMove
  <2>0. SellerOf[l] \in Sellers /\ l \in Leads \cup {NoLead} /\ 0 \in Periods \cup {0}
    OBVIOUS
  <2>1. CASE acceptCommit(r, l)
    <3>1. Post(SellerOf[l], -1, "LEAD_ACCEPT", l, 0)
      BY <2>1 DEF acceptCommit
    <3>2. -1 \in Int \ {0} /\ "LEAD_ACCEPT" \in Reasons
      BY DEF Reasons
    <3>3. QED
      BY <2>0, <3>1, <3>2 DEF LedgerMove
  <2>2. CASE refundCommit(r, l)
    <3>1. Post(SellerOf[l], 1, "FLAG_REFUND", l, 0)
      BY <2>2 DEF refundCommit
    <3>2. 1 \in Int \ {0} /\ "FLAG_REFUND" \in Reasons
      BY DEF Reasons
    <3>3. QED
      BY <2>0, <3>1, <3>2 DEF LedgerMove
  <2>3. CASE ~acceptCommit(r, l) /\ ~refundCommit(r, l)
    BY <1>2, <2>3 DEF RequestOnLead, acceptRead, acceptRefused, refundRead, refundNothing,
                      dismissFlag, LedgerMove, creditVars
  <2>4. QED
    BY <2>1, <2>2, <2>3
<1>3. ASSUME NEW r \in Requests, NEW s \in Sellers, RequestOnSeller(r, s) PROVE LedgerMove
  <2>0. NoLead \in Leads \cup {NoLead} /\ 0 \in Periods \cup {0}
        /\ {"ADMIN_ADJUST", "ADDON_PURCHASE"} \subseteq Reasons
    BY DEF Reasons
  <2>1. CASE \E delta \in Adjustments : adjustCredits(r, s, delta)
    BY <2>0, <2>1 DEF adjustCredits, LedgerMove
  <2>2. CASE buyLeadPack(r, s)
    <3>1. PackSize \in Int \ {0} /\ Post(s, PackSize, "ADDON_PURCHASE", NoLead, 0)
      BY <2>2 DEF buyLeadPack
    <3>2. QED
      BY <2>0, <3>1 DEF LedgerMove
  <2>3. CASE \E p \in Plans : changeSellerPlan(r, s, p)
    BY <2>3 DEF changeSellerPlan, LedgerMove
  <2>4. QED
    BY <1>3, <2>1, <2>2, <2>3 DEF RequestOnSeller
<1>4. ASSUME NEW r \in Requests, JobStep(r) PROVE LedgerMove
  <2>0. NoLead \in Leads \cup {NoLead} /\ {"ADMIN_ADJUST", "MONTHLY_GRANT"} \subseteq Reasons
    BY DEF Reasons
  <2>1. CASE topUpWrite(r)
    <3>1. /\ Post(req[r].seller, req[r].owed, req[r].reason, NoLead, req[r].period)
          /\ Slot(req[r].seller, req[r].reason, req[r].period) = {}
      BY <2>1 DEF topUpWrite
    <3>2. QED
      BY <2>0, <2>1, <3>1, TopUpPosts DEF LedgerMove
  <2>2. CASE grantOne(r)
    <3>1. PICK d \in req[r].due : GrantStep(r, d)
      BY <2>2 DEF grantOne, GrantStep
    <3>2. d[1] \in Sellers /\ d[2] \in Int \ {0} /\ req[r].period \in Periods
      BY <2>2, GrantRequest DEF grantOne
    <3>3. QED
      BY <2>0, <3>1, <3>2 DEF GrantStep, LedgerMove
  <2>3. CASE ~topUpWrite(r) /\ ~grantOne(r)
    BY <1>4, <2>3 DEF JobStep, topUpSum, topUpSlot, topUpConflict, grantList, statsRead,
                      statsWrite, LedgerMove
  <2>4. QED
    BY <2>1, <2>2, <2>3
<1>5. CASE expireMarketLeads \/ NextMonth \/ UNCHANGED vars
  BY <1>5 DEF expireMarketLeads, NextMonth, vars, LedgerMove, creditVars
<1>6. QED
  BY <1>1, <1>2, <1>3, <1>4, <1>5 DEF Next

\* A move extends the chain of balances by one link.
LEMMA ChainStep == TypeOK /\ LedgerExplainsBalance /\ LedgerMove => LedgerExplainsBalance'
<1> SUFFICES ASSUME TypeOK, LedgerExplainsBalance, LedgerMove PROVE LedgerExplainsBalance'
  OBVIOUS
<1>1. CASE UNCHANGED creditVars
  BY <1>1 DEF creditVars, LedgerExplainsBalance
<1>2. CASE \E s \in Sellers, delta \in Int \ {0}, reason \in Reasons,
              l \in Leads \cup {NoLead}, p \in Periods \cup {0} : Post(s, delta, reason, l, p)
  <2>1. PICK s \in Sellers, delta \in Int \ {0}, reason \in Reasons,
             l \in Leads \cup {NoLead}, p \in Periods \cup {0} : Post(s, delta, reason, l, p)
    BY <1>2
  <2> DEFINE n == Len(ledger[s])
  <2>2. /\ balance'[s] = balance[s] + delta
        /\ \A t \in Sellers : t # s => balance'[t] = balance[t] /\ ledger'[t] = ledger[t]
        /\ ledger'[s] \in Seq(Entry)
        /\ Len(ledger'[s]) = n + 1
        /\ \A i \in 1 .. n : ledger'[s][i] = ledger[s][i]
        /\ ledger'[s][n + 1].delta = delta
        /\ ledger'[s][n + 1].balanceAfter = balance[s] + delta
    <3>1. Appended(s, delta, reason, l, p)
      BY <2>1, PostAppends
    <3>2. QED
      BY <3>1 DEF Appended, PostedRow
  <2>3. ledger[s] \in Seq(Entry) /\ n \in Nat /\ balance[s] \in Nat
    BY DEF TypeOK
  <2>4. /\ balance[s] = IF n = 0 THEN 0 ELSE ledger[s][n].balanceAfter
        /\ \A i \in 1 .. n : ledger[s][i].balanceAfter =
               ledger[s][i].delta + (IF i = 1 THEN 0 ELSE ledger[s][i - 1].balanceAfter)
    BY <2>3 DEF LedgerExplainsBalance
  <2>5. /\ ledger'[s] # <<>>
        /\ DOMAIN ledger'[s] = 1 .. n + 1
    BY <2>2, <2>3
  <2>6. balance'[s] = ledger'[s][Len(ledger'[s])].balanceAfter
    BY <2>2
  <2>7. ASSUME NEW i \in 1 .. n + 1
        PROVE  ledger'[s][i].balanceAfter =
                   ledger'[s][i].delta + (IF i = 1 THEN 0 ELSE ledger'[s][i - 1].balanceAfter)
    <3> HIDE DEF n
    <3>1. CASE i \in 1 .. n
      <4>1. i = 1 \/ i - 1 \in 1 .. n
        BY <2>3, <3>1
      <4>2. QED
        BY <2>2, <2>4, <3>1, <4>1
    <3>2. CASE i = n + 1
      <4>1. i = 1 <=> n = 0
        BY <2>3, <3>2
      <4>2. n # 0 => i - 1 = n /\ n \in 1 .. n
        BY <2>3, <3>2
      <4>3. balance[s] = IF i = 1 THEN 0 ELSE ledger'[s][i - 1].balanceAfter
        BY <2>2, <2>4, <4>1, <4>2
      <4>4. balance[s] + delta = delta + balance[s]
        BY <2>3
      <4>5. QED
        BY <2>2, <3>2, <4>3, <4>4
    <3>3. QED
      BY <2>3, <3>1, <3>2
  <2>8. ASSUME NEW t \in Sellers, t # s
        PROVE  /\ balance'[t] = IF ledger'[t] = <<>> THEN 0 ELSE ledger'[t][Len(ledger'[t])].balanceAfter
               /\ \A i \in DOMAIN ledger'[t] : ledger'[t][i].balanceAfter =
                      ledger'[t][i].delta + (IF i = 1 THEN 0 ELSE ledger'[t][i - 1].balanceAfter)
    <3>1. balance'[t] = balance[t] /\ ledger'[t] = ledger[t]
      BY <2>2, <2>8
    <3>2. QED
      BY <3>1 DEF LedgerExplainsBalance
  <2> HIDE DEF n
  <2>9. QED
    BY <2>5, <2>6, <2>7, <2>8 DEF LedgerExplainsBalance
<1>3. QED
  BY <1>1, <1>2 DEF LedgerMove

\* A move fills at most the empty slot it asked for.
LEMMA GrantStepOnce == TypeOK /\ OneGrantPerPeriod /\ LedgerMove => OneGrantPerPeriod'
<1> SUFFICES ASSUME TypeOK, OneGrantPerPeriod, LedgerMove,
                    NEW t \in Sellers, NEW k \in Periods,
                    NEW q \in {"MONTHLY_GRANT", "ADMIN_ADJUST"},
                    NEW i \in Slot(t, q, k)', NEW j \in Slot(t, q, k)'
             PROVE  i = j
  BY DEF OneGrantPerPeriod
<1>1. \A x, y \in Slot(t, q, k) : x = y
  BY DEF OneGrantPerPeriod
<1>2. CASE UNCHANGED creditVars
  BY <1>1, <1>2 DEF creditVars, Slot
<1>3. CASE ~UNCHANGED creditVars
  <2>1. PICK s \in Sellers, delta \in Int \ {0}, reason \in Reasons,
             l \in Leads \cup {NoLead}, p \in Periods \cup {0} :
             Post(s, delta, reason, l, p) /\ (p = 0 \/ Slot(s, reason, p) = {})
    BY <1>3 DEF LedgerMove
  <2>2. Appended(s, delta, reason, l, p)
    BY <2>1, PostAppends
  <2>3. CASE t # s
    <3>1. ledger'[t] = ledger[t]
      BY <2>2, <2>3 DEF Appended
    <3>2. QED
      BY <1>1, <3>1 DEF Slot
  <2>4. CASE t = s
    <3>1. OneMore(ledger[s], ledger'[s])
      BY <2>2, PostGrows
    <3>2. SlotGrows(ledger[s], ledger'[s], q, k)
      BY <3>1, OneMoreGrows
    <3>3. /\ ledger'[s][Len(ledger[s]) + 1].reason = reason
          /\ ledger'[s][Len(ledger[s]) + 1].period = p
      BY <2>2, PostGrows
    <3>4. reason = q /\ p = k => SlotOf(ledger[s], q, k) = {}
      <4>1. k # 0
        BY DEF Periods
      <4>2. QED
        BY <2>1, <4>1 DEF Slot
    <3>5. QED
      BY <1>1, <2>4, <3>2, <3>3, <3>4 DEF SlotGrows, Slot
  <2>5. QED
    BY <2>3, <2>4
<1>4. QED
  BY <1>2, <1>3

-----------------------------------------------------------------------------
(* The leads: what a step that is neither an accept nor a refund leaves.    *)

\* The lead moves to no state that a charge belongs to, and leaves no settled one.
FreeMove(l) ==
    \/ status'[l] = status[l]
    \/ /\ status[l] \notin {"CLOSED", "EXPIRED"}
       /\ status'[l] # "ACCEPTED"
       /\ status'[l] \in Unopened \cup {"EXPIRED"} => status[l] \in Unopened

\* No lead is charged or refunded.
QuietStep ==
    \A l \in Leads :
        /\ FreeMove(l)
        /\ Charges(l)' = Charges(l)
        /\ RefundRows(l)' = RefundRows(l)
        /\ (flag'[l] = "REFUNDED") <=> (flag[l] = "REFUNDED")

\* Charges and refunds are read from the ledger alone.
LEMMA SameLedger ==
    ASSUME UNCHANGED creditVars, NEW l \in Leads
    PROVE  Charges(l)' = Charges(l) /\ RefundRows(l)' = RefundRows(l)
  BY DEF creditVars, Charges, RefundRows

\* A move that names no lead charges and refunds none.
LEMMA OtherMoves ==
    ASSUME TypeOK,
           NEW s \in Sellers, NEW delta \in Int \ {0},
           NEW reason \in Reasons \ {"LEAD_ACCEPT", "FLAG_REFUND"},
           NEW p \in Periods \cup {0},
           Post(s, delta, reason, NoLead, p),
           NEW l \in Leads
    PROVE  Charges(l)' = Charges(l) /\ RefundRows(l)' = RefundRows(l)
<1>1. SellerOf[l] \in Sellers /\ NoLead # l
  BY LeadsAssumption
<1>2. Appended(s, delta, reason, NoLead, p)
  BY PostAppends
<1>3. \A q : RowsOf(ledger'[SellerOf[l]], q, l) = RowsOf(ledger[SellerOf[l]], q, l)
  <2>1. CASE SellerOf[l] # s
    BY <1>1, <1>2, <2>1 DEF Appended
  <2>2. CASE SellerOf[l] = s
    <3>1. OneMore(ledger[s], ledger'[s])
      BY <1>2, PostGrows
    <3>2. ledger'[s][Len(ledger[s]) + 1].lead # l
      BY <1>1, <1>2, PostGrows
    <3>3. \A q : RowsGrow(ledger[s], ledger'[s], q, l)
      BY <3>1, OneMoreGrows
    <3>4. QED
      BY <2>2, <3>2, <3>3 DEF RowsGrow
  <2>3. QED
    BY <2>1, <2>2
<1>4. QED
  BY <1>3 DEF Charges, RefundRows

\* Every step is quiet but the commit of an accept and of a refund.
LEMMA StepIsQuiet ==
    ASSUME TypeOK, [Next]_vars
    PROVE  \/ QuietStep
           \/ \E r \in Requests, l \in Leads : acceptCommit(r, l) \/ refundCommit(r, l)
<1> DEFINE Goal == \/ QuietStep
                   \/ \E r \in Requests, l \in Leads : acceptCommit(r, l) \/ refundCommit(r, l)
<1> USE LeadsAssumption, CreditsAssumption
<1>0. /\ status \in [Leads -> Statuses]
      /\ flag \in [Leads -> FlagStatuses]
  BY DEF TypeOK
<1>a. ASSUME UNCHANGED <<status, flag>>,
             \A l \in Leads : Charges(l)' = Charges(l) /\ RefundRows(l)' = RefundRows(l)
      PROVE  Goal
  BY <1>a DEF QuietStep, FreeMove
<1>1. ASSUME NEW l \in Leads, InboxStep(l) PROVE Goal
  <2>1. UNCHANGED creditVars
    BY <1>1 DEF InboxStep, markLeadViewed, closeLead, flagLead, PassExpiry, rejectFlag, setLeadOutcome
  <2>2. \A k \in Leads : FreeMove(k)
    BY <1>0, <1>1 DEF InboxStep, markLeadViewed, closeLead, flagLead, PassExpiry, rejectFlag,
                      setLeadOutcome, SetStatus, FreeMove, Unopened, Outcomes
  <2>3. \A k \in Leads : (flag'[k] = "REFUNDED") <=> (flag[k] = "REFUNDED")
    BY <1>0, <1>1 DEF InboxStep, markLeadViewed, closeLead, flagLead, PassExpiry, rejectFlag,
                      setLeadOutcome
  <2>4. QED
    BY <2>1, <2>2, <2>3, SameLedger DEF QuietStep
<1>2. ASSUME NEW r \in Requests, NEW l \in Leads, RequestOnLead(r, l) PROVE Goal
  <2>1. CASE acceptRead(r, l) \/ acceptRefused(r, l) \/ refundRead(r, l) \/ refundNothing(r, l)
    <3>1. UNCHANGED <<status, flag>> /\ UNCHANGED creditVars
      BY <2>1 DEF acceptRead, acceptRefused, refundRead, refundNothing, leadVars
    <3>2. QED
      BY <1>a, <3>1, SameLedger
  <2>2. CASE dismissFlag(r, l)
    <3>1. UNCHANGED status /\ UNCHANGED creditVars
      BY <2>2 DEF dismissFlag
    <3>2. \A k \in Leads : (flag'[k] = "REFUNDED") <=> (flag[k] = "REFUNDED")
      BY <1>0, <2>2 DEF dismissFlag
    <3>3. QED
      BY <3>1, <3>2, SameLedger DEF QuietStep, FreeMove
  <2>3. QED
    BY <1>2, <2>1, <2>2 DEF RequestOnLead
<1>3. ASSUME NEW r \in Requests, NEW s \in Sellers, RequestOnSeller(r, s) PROVE Goal
  <2>1. UNCHANGED <<status, flag>>
    BY <1>3 DEF RequestOnSeller, adjustCredits, buyLeadPack, changeSellerPlan, leadVars
  <2>2. CASE \E delta \in Adjustments : adjustCredits(r, s, delta)
    <3>1. PICK delta \in Int \ {0} : Post(s, delta, "ADMIN_ADJUST", NoLead, 0)
      BY <2>2 DEF adjustCredits
    <3>2. "ADMIN_ADJUST" \in Reasons \ {"LEAD_ACCEPT", "FLAG_REFUND"} /\ 0 \in Periods \cup {0}
      BY DEF Reasons
    <3>3. QED
      BY <1>a, <2>1, <3>1, <3>2, OtherMoves
  <2>3. CASE buyLeadPack(r, s)
    <3>1. PackSize \in Int \ {0} /\ Post(s, PackSize, "ADDON_PURCHASE", NoLead, 0)
      BY <2>3 DEF buyLeadPack
    <3>2. "ADDON_PURCHASE" \in Reasons \ {"LEAD_ACCEPT", "FLAG_REFUND"} /\ 0 \in Periods \cup {0}
      BY DEF Reasons
    <3>3. QED
      BY <1>a, <2>1, <3>1, <3>2, OtherMoves
  <2>4. CASE \E p \in Plans : changeSellerPlan(r, s, p)
    <3>1. UNCHANGED creditVars
      BY <2>4 DEF changeSellerPlan
    <3>2. QED
      BY <1>a, <2>1, <3>1, SameLedger
  <2>5. QED
    BY <1>3, <2>2, <2>3, <2>4 DEF RequestOnSeller
<1>4. ASSUME NEW r \in Requests, JobStep(r) PROVE Goal
  <2>1. UNCHANGED <<status, flag>>
    BY <1>4 DEF JobStep, topUpSum, topUpSlot, topUpWrite, topUpConflict, grantList, grantOne,
                statsRead, statsWrite, leadVars
  <2>2. CASE topUpWrite(r)
    <3>1. Post(req[r].seller, req[r].owed, req[r].reason, NoLead, req[r].period)
      BY <2>2 DEF topUpWrite
    <3>2. /\ req[r].seller \in Sellers
          /\ req[r].owed \in Int \ {0}
          /\ req[r].reason \in Reasons \ {"LEAD_ACCEPT", "FLAG_REFUND"}
          /\ req[r].period \in Periods \cup {0}
      BY <2>2, TopUpPosts DEF Reasons
    <3>3. QED
      BY <1>a, <2>1, <3>1, <3>2, OtherMoves
  <2>3. CASE grantOne(r)
    <3>1. PICK d \in req[r].due : GrantStep(r, d)
      BY <2>3 DEF grantOne, GrantStep
    <3>2. d[1] \in Sellers /\ d[2] \in Int \ {0} /\ req[r].period \in Periods \cup {0}
      BY <2>3, GrantRequest DEF grantOne
    <3>3. "MONTHLY_GRANT" \in Reasons \ {"LEAD_ACCEPT", "FLAG_REFUND"}
      BY DEF Reasons
    <3>4. CASE Post(d[1], d[2], "MONTHLY_GRANT", NoLead, req[r].period)
      BY <1>a, <2>1, <3>2, <3>3, <3>4, OtherMoves
    <3>5. CASE UNCHANGED creditVars
      BY <1>a, <2>1, <3>5, SameLedger
    <3>6. QED
      BY <3>1, <3>4, <3>5 DEF GrantStep
  <2>4. CASE ~topUpWrite(r) /\ ~grantOne(r)
    <3>1. UNCHANGED creditVars
      BY <1>4, <2>4 DEF JobStep, topUpSum, topUpSlot, topUpConflict, grantList, statsRead, statsWrite
    <3>2. QED
      BY <1>a, <2>1, <3>1, SameLedger
  <2>5. QED
    BY <2>2, <2>3, <2>4
<1>5. CASE expireMarketLeads
  <2>1. \A l \in Leads : FreeMove(l)
    BY <1>0, <1>5 DEF expireMarketLeads, FreeMove, Unopened
  <2>2. UNCHANGED flag /\ UNCHANGED creditVars
    BY <1>5 DEF expireMarketLeads
  <2>3. QED
    BY <2>1, <2>2, SameLedger DEF QuietStep
<1>6. CASE NextMonth \/ UNCHANGED vars
  <2>1. UNCHANGED <<status, flag>> /\ UNCHANGED creditVars
    BY <1>6 DEF NextMonth, vars, leadVars, creditVars
  <2>2. QED
    BY <1>a, <2>1, SameLedger
<1>7. QED
  BY <1>1, <1>2, <1>3, <1>4, <1>5, <1>6 DEF Next

-----------------------------------------------------------------------------
(* The safety of the leads: reveals are paid, charges single, refunds       *)
(* earned.                                                                  *)

LeadSafety == RevealedIsPaid /\ ChargedOnce /\ RefundsAreEarned

\* A quiet step keeps it: no row appears, and no lead moves to a state that
\* only a charge may lead to.
LEMMA LeadSafetyQuiet ==
    ASSUME TypeOK, LeadSafety, QuietStep
    PROVE  LeadSafety'
<1> USE LeadsAssumption
<1>1. \A l \in Leads : FreeMove(l) /\ Charges(l)' = Charges(l) /\ RefundRows(l)' = RefundRows(l)
  BY DEF QuietStep
<1>2. RevealedIsPaid'
  <2> SUFFICES ASSUME NEW l \in Market, Revealed(l)' PROVE Charges(l)' # {}
    BY DEF RevealedIsPaid
  <2>1. status'[l] = "ACCEPTED"
    BY DEF Revealed
  <2>2. status[l] = "ACCEPTED"
    BY <1>1, <2>1 DEF FreeMove
  <2>3. Charges(l) # {}
    BY <2>2 DEF LeadSafety, RevealedIsPaid, Revealed
  <2>4. QED
    BY <1>1, <2>3
<1>3. ChargedOnce'
  <2> SUFFICES ASSUME NEW l \in Leads
               PROVE  /\ \A i, j \in Charges(l)' : i = j
                      /\ Charges(l)' # {} => l \in Market /\ status'[l] \notin Unopened \cup {"EXPIRED"}
    BY DEF ChargedOnce
  <2>1. /\ \A i, j \in Charges(l) : i = j
        /\ Charges(l) # {} => l \in Market /\ status[l] \notin Unopened \cup {"EXPIRED"}
    BY DEF LeadSafety, ChargedOnce
  <2>2. QED
    BY <1>1, <2>1 DEF FreeMove
<1>4. RefundsAreEarned'
  <2> SUFFICES ASSUME NEW l \in Leads
               PROVE  /\ (flag'[l] = "REFUNDED") <=> (RefundRows(l)' # {})
                      /\ \A i \in RefundRows(l)' : \E j \in Charges(l)' : j < i
    BY DEF RefundsAreEarned
  <2>1. /\ (flag[l] = "REFUNDED") <=> (RefundRows(l) # {})
        /\ \A i \in RefundRows(l) : \E j \in Charges(l) : j < i
    BY DEF LeadSafety, RefundsAreEarned
  <2>2. (flag'[l] = "REFUNDED") <=> (flag[l] = "REFUNDED")
    BY DEF QuietStep
  <2>3. QED
    BY <1>1, <2>1, <2>2
<1>5. QED
  BY <1>2, <1>3, <1>4 DEF LeadSafety

\* The row a move about lead l appends touches the rows of no other lead, and
\* only those of its own reason.
LEMMA LeadMove ==
    ASSUME TypeOK, NEW l \in Leads, NEW delta \in Int \ {0},
           NEW reason \in {"LEAD_ACCEPT", "FLAG_REFUND"},
           Post(SellerOf[l], delta, reason, l, 0)
    PROVE  LET n == Len(ledger[SellerOf[l]]) + 1
           IN  /\ \A k \in Leads \ {l} : Charges(k)' = Charges(k) /\ RefundRows(k)' = RefundRows(k)
               /\ Charges(l)' = IF reason = "LEAD_ACCEPT" THEN Charges(l) \cup {n} ELSE Charges(l)
               /\ RefundRows(l)' = IF reason = "FLAG_REFUND" THEN RefundRows(l) \cup {n} ELSE RefundRows(l)
               /\ \A i \in Charges(l) : i \in Nat /\ i < n
<1> DEFINE s == SellerOf[l]
           n == Len(ledger[s]) + 1
<1>1. s \in Sellers /\ ledger[s] \in Seq(Entry)
  BY LeadsAssumption DEF TypeOK
<1>2. reason \in Reasons /\ l \in Leads \cup {NoLead} /\ 0 \in Periods \cup {0}
  BY DEF Reasons
<1>3. Appended(s, delta, reason, l, 0)
  BY <1>1, <1>2, PostAppends
<1>4. /\ OneMore(ledger[s], ledger'[s])
      /\ ledger'[s][n].reason = reason
      /\ ledger'[s][n].lead = l
  BY <1>1, <1>3, PostGrows
<1>5. \A q, m : RowsGrow(ledger[s], ledger'[s], q, m)
  BY <1>4, OneMoreGrows
<1>6. ASSUME NEW k \in Leads \ {l}, NEW q
      PROVE  RowsOf(ledger'[SellerOf[k]], q, k) = RowsOf(ledger[SellerOf[k]], q, k)
  <2>1. CASE SellerOf[k] # s
    BY <1>3, <2>1, LeadsAssumption DEF Appended
  <2>2. CASE SellerOf[k] = s
    BY <1>4, <1>5, <2>2 DEF RowsGrow
  <2>3. QED
    BY <2>1, <2>2
<1>7. \A q : RowsOf(ledger'[s], q, l) = IF reason = q THEN RowsOf(ledger[s], q, l) \cup {n}
                                        ELSE RowsOf(ledger[s], q, l)
  BY <1>4, <1>5 DEF RowsGrow
<1>8. \A i \in Charges(l) : i \in Nat /\ i < n
  <2>1. \A i \in RowsOf(ledger[s], "LEAD_ACCEPT", l) : i \in 1 .. Len(ledger[s])
    BY <1>1, RowsBounded
  <2>2. Len(ledger[s]) \in Nat
    BY <1>1
  <2>3. QED
    BY <2>1, <2>2 DEF Charges
<1>9. QED
  BY <1>6, <1>7, <1>8 DEF Charges, RefundRows

\* An accept charges a lead that no charge was made for, and opens it.
LEMMA LeadSafetyAccept ==
    ASSUME TypeOK, LeadSafety, NEW r \in Requests, NEW l \in Leads, acceptCommit(r, l)
    PROVE  LeadSafety'
<1> DEFINE n == Len(ledger[SellerOf[l]]) + 1
<1>1. /\ req[r] \in Request
      /\ req[r] = [op |-> "accept", lead |-> l]
  BY DEF acceptCommit, TypeOK
<1>2. l \in Market
  BY <1>1 DEF Request, TopUp, Idle, Done
<1>3. /\ Post(SellerOf[l], -1, "LEAD_ACCEPT", l, 0)
      /\ Charges(l) = {}
      /\ status' = [status EXCEPT ![l] = "ACCEPTED"]
      /\ flag' = flag
  BY DEF acceptCommit, SetStatus
<1>4. -1 \in Int \ {0}
  OBVIOUS
<1>5. /\ \A k \in Leads \ {l} : Charges(k)' = Charges(k) /\ RefundRows(k)' = RefundRows(k)
      /\ Charges(l)' = {n}
      /\ RefundRows(l)' = RefundRows(l)
  BY <1>3, <1>4, LeadMove
<1>6. RefundRows(l) = {}
  BY <1>3 DEF LeadSafety, RefundsAreEarned
<1>7. status'[l] = "ACCEPTED" /\ \A k \in Leads \ {l} : status'[k] = status[k]
  BY <1>3 DEF TypeOK
<1> HIDE DEF n
<1>8. RevealedIsPaid'
  BY <1>5, <1>7, LeadsAssumption DEF LeadSafety, RevealedIsPaid, Revealed
<1>9. ChargedOnce'
  <2> SUFFICES ASSUME NEW k \in Leads
               PROVE  /\ \A i, j \in Charges(k)' : i = j
                      /\ Charges(k)' # {} => k \in Market /\ status'[k] \notin Unopened \cup {"EXPIRED"}
    BY DEF ChargedOnce
  <2>1. CASE k = l
    BY <1>2, <1>5, <1>7, <2>1 DEF Unopened
  <2>2. CASE k # l
    BY <1>5, <1>7, <2>2 DEF LeadSafety, ChargedOnce
  <2>3. QED
    BY <2>1, <2>2
<1>10. RefundsAreEarned'
  <2> SUFFICES ASSUME NEW k \in Leads
               PROVE  /\ (flag'[k] = "REFUNDED") <=> (RefundRows(k)' # {})
                      /\ \A i \in RefundRows(k)' : \E j \in Charges(k)' : j < i
    BY DEF RefundsAreEarned
  <2>1. /\ (flag[k] = "REFUNDED") <=> (RefundRows(k) # {})
        /\ \A i \in RefundRows(k) : \E j \in Charges(k) : j < i
    BY DEF LeadSafety, RefundsAreEarned
  <2>2. CASE k = l
    BY <1>3, <1>5, <1>6, <2>1, <2>2
  <2>3. CASE k # l
    BY <1>3, <1>5, <2>1, <2>3
  <2>4. QED
    BY <2>2, <2>3
<1>11. QED
  BY <1>8, <1>9, <1>10 DEF LeadSafety

\* A refund finds the charge in the ledger, so its own row comes after it.
LEMMA LeadSafetyRefund ==
    ASSUME TypeOK, LeadSafety, NEW r \in Requests, NEW l \in Leads, refundCommit(r, l)
    PROVE  LeadSafety'
<1> DEFINE n == Len(ledger[SellerOf[l]]) + 1
<1>1. /\ Post(SellerOf[l], 1, "FLAG_REFUND", l, 0)
      /\ Charges(l) # {}
      /\ status' = status
      /\ flag' = [flag EXCEPT ![l] = "REFUNDED"]
  BY DEF refundCommit
<1>2. 1 \in Int \ {0}
  OBVIOUS
<1>3. /\ \A k \in Leads \ {l} : Charges(k)' = Charges(k) /\ RefundRows(k)' = RefundRows(k)
      /\ Charges(l)' = Charges(l)
      /\ RefundRows(l)' = RefundRows(l) \cup {n}
      /\ \A i \in Charges(l) : i < n
  BY <1>1, <1>2, LeadMove
<1>4. \A k \in Leads : Charges(k)' = Charges(k)
  BY <1>3
<1>5. flag'[l] = "REFUNDED" /\ \A k \in Leads \ {l} : flag'[k] = flag[k]
  BY <1>1 DEF TypeOK
<1> HIDE DEF n
<1>6. RevealedIsPaid'
  BY <1>1, <1>4, LeadsAssumption DEF LeadSafety, RevealedIsPaid, Revealed
<1>7. ChargedOnce'
  BY <1>1, <1>4 DEF LeadSafety, ChargedOnce
<1>8. RefundsAreEarned'
  <2> SUFFICES ASSUME NEW k \in Leads
               PROVE  /\ (flag'[k] = "REFUNDED") <=> (RefundRows(k)' # {})
                      /\ \A i \in RefundRows(k)' : \E j \in Charges(k)' : j < i
    BY DEF RefundsAreEarned
  <2>1. /\ (flag[k] = "REFUNDED") <=> (RefundRows(k) # {})
        /\ \A i \in RefundRows(k) : \E j \in Charges(k) : j < i
    BY DEF LeadSafety, RefundsAreEarned
  <2>2. CASE k = l
    BY <1>1, <1>3, <1>5, <2>1, <2>2
  <2>3. CASE k # l
    BY <1>3, <1>5, <2>1, <2>3
  <2>4. QED
    BY <2>2, <2>3
<1>9. QED
  BY <1>6, <1>7, <1>8 DEF LeadSafety

-----------------------------------------------------------------------------
(* The theorems.                                                            *)

\* The invariants the runs check, conjoined; with TypeOK it is inductive.
Safety == LeadSafety /\ LedgerExplainsBalance /\ OneGrantPerPeriod

\* It holds before anything has been charged or granted.
LEMMA SafetyInit == Init => Safety
<1> SUFFICES ASSUME Init PROVE Safety
  OBVIOUS
<1>1. \A s \in Sellers : ledger[s] = <<>> /\ balance[s] = 0
  BY DEF Init
<1>2. \A s \in Sellers : DOMAIN ledger[s] = {}
  BY <1>1
<1>3. \A l \in Leads : Charges(l) = {} /\ RefundRows(l) = {}
  BY <1>2, LeadsAssumption DEF Charges, RefundRows, RowsOf
<1>4. \A l \in Leads : status[l] = "NEW" /\ flag[l] = "none"
  BY DEF Init
<1>5. LeadSafety
  BY <1>3, <1>4, LeadsAssumption
  DEF LeadSafety, RevealedIsPaid, Revealed, ChargedOnce, RefundsAreEarned
<1>6. LedgerExplainsBalance
  BY <1>1, <1>2 DEF LedgerExplainsBalance
<1>7. OneGrantPerPeriod
  BY <1>2 DEF OneGrantPerPeriod, Slot, SlotOf
<1>8. QED
  BY <1>5, <1>6, <1>7 DEF Safety

\* Every step keeps it.
LEMMA SafetyStep == TypeOK /\ Safety /\ [Next]_vars => Safety'
<1> SUFFICES ASSUME TypeOK, Safety, [Next]_vars PROVE Safety'
  OBVIOUS
<1>1. LedgerMove
  BY StepIsLedgerMove
<1>2. LedgerExplainsBalance' /\ OneGrantPerPeriod'
  BY <1>1, ChainStep, GrantStepOnce DEF Safety
<1>3. LeadSafety'
  <2>1. LeadSafety
    BY DEF Safety
  <2>2. CASE QuietStep
    BY <2>1, <2>2, LeadSafetyQuiet
  <2>3. CASE \E r \in Requests, l \in Leads : acceptCommit(r, l) \/ refundCommit(r, l)
    BY <2>1, <2>3, LeadSafetyAccept, LeadSafetyRefund
  <2>4. QED
    BY <2>2, <2>3, StepIsQuiet
<1>4. QED
  BY <1>2, <1>3 DEF Safety

\* credit.service and lead-inbox.service, every safety invariant at once.
THEOREM AlwaysSafe == Spec => [](TypeOK /\ Safety)
<1>1. Init => TypeOK /\ Safety
  BY TypeInit, SafetyInit
<1>2. TypeOK /\ Safety /\ [Next]_vars => TypeOK' /\ Safety'
  BY TypeStep, SafetyStep
<1>3. QED
  BY <1>1, <1>2, PTL DEF Spec

\* acceptLead: no seller is ever shown the number of a MARKET buyer without
\* having been charged for that lead.
THEOREM NoFreeReveal == Spec => []RevealedIsPaid
<1>1. TypeOK /\ Safety => RevealedIsPaid
  BY DEF Safety, LeadSafety
<1>2. QED
  BY <1>1, AlwaysSafe, PTL

\* debitForAcceptWith: no lead is ever charged twice, and no open or expired
\* lead is charged.
THEOREM NoDoubleCharge == Spec => []ChargedOnce
<1>1. TypeOK /\ Safety => ChargedOnce
  BY DEF Safety, LeadSafety
<1>2. QED
  BY <1>1, AlwaysSafe, PTL

\* refundForFlag: a refund always follows the charge it returns.
THEOREM NoUnearnedRefund == Spec => []RefundsAreEarned
<1>1. TypeOK /\ Safety => RefundsAreEarned
  BY DEF Safety, LeadSafety
<1>2. QED
  BY <1>1, AlwaysSafe, PTL

\* The cached balance is always the sum of the ledger, link by link.
THEOREM BalanceIsExplained == Spec => []LedgerExplainsBalance
<1>1. TypeOK /\ Safety => LedgerExplainsBalance
  BY DEF Safety
<1>2. QED
  BY <1>1, AlwaysSafe, PTL

\* grantMonthlyCredits: however often it runs, one grant per seller and month.
THEOREM GrantsAreIdempotent == Spec => []OneGrantPerPeriod
<1>1. TypeOK /\ Safety => OneGrantPerPeriod
  BY DEF Safety
<1>2. QED
  BY <1>1, AlwaysSafe, PTL

\* A closed or expired lead is never brought back, not even by an accept that
\* read it while it was open.
THEOREM SettledStays == Spec => SettledIsFinal
<1>1. TypeOK /\ [Next]_vars =>
          [\A l \in Leads : status[l] \in {"CLOSED", "EXPIRED"} => status'[l] = status[l]]_vars
  <2> SUFFICES ASSUME TypeOK, [Next]_vars,
                      NEW l \in Leads, status[l] \in {"CLOSED", "EXPIRED"}
               PROVE  status'[l] = status[l]
    OBVIOUS
  <2>1. CASE QuietStep
    BY <2>1 DEF QuietStep, FreeMove
  <2>2. CASE \E r \in Requests, k \in Leads : acceptCommit(r, k) \/ refundCommit(r, k)
    BY <2>2 DEF acceptCommit, refundCommit, SetStatus, Unopened, TypeOK
  <2>3. QED
    BY <2>1, <2>2, StepIsQuiet
<1>2. QED
  BY <1>1, TypeCorrect, PTL DEF Spec, SettledIsFinal

-----------------------------------------------------------------------------
(* The account.  Requests stay within the plans.                            *)

Allowance == UNION {1 .. MonthlyCredits[p] : p \in Plans}

\* What a top-up or the monthly job is about to give is within some plan.
Backed(q) ==
    /\ q \in TopUp =>
          /\ \E p \in Plans : q.target = MonthlyCredits[p]
          /\ q.stage \in {"slot", "write"} => q.owed \in 1 .. q.target
    /\ q.op = "grant" => \A d \in q.due : d[2] \in Allowance

RequestsBacked == \A r \in Requests : Backed(req[r])


\* Only the request that moves has to be looked at.
LEMMA OneRequestMoves ==
    ASSUME TypeOK, RequestsBacked, NEW r \in Requests, NEW q,
           req' = [req EXCEPT ![r] = q], Backed(q)
    PROVE  RequestsBacked'
<1>1. \A x \in Requests : req'[x] = IF x = r THEN q ELSE req[x]
  BY DEF TypeOK
<1>2. ASSUME NEW x \in Requests PROVE Backed(req'[x])
  BY <1>1 DEF RequestsBacked
<1>3. QED
  BY <1>2 DEF RequestsBacked, Backed

\* A request that neither tops up nor grants carries nothing.
LEMMA OthersBacked ==
    ASSUME NEW q, q.op \notin {"topup", "grant"}
    PROVE  Backed(q)
  BY DEF Backed, TopUp

\* The step of a job or of a top-up.
LEMMA JobBacked ==
    ASSUME TypeOK, RequestsBacked, NEW r \in Requests, JobStep(r)
    PROVE  RequestsBacked'
<1> USE CreditsAssumption
<1>0. /\ req \in [Requests -> Request]
      /\ Backed(req[r])
  BY DEF TypeOK, RequestsBacked
<1>1. CASE topUpSum(r)
  <2>1. /\ req[r] \in TopUp
        /\ req[r].op = "topup"
        /\ \E p \in Plans : req[r].target = MonthlyCredits[p]
    BY <1>0, <1>1 DEF topUpSum, AtStage, Backed, TopUp
  <2>2. CASE req' = [req EXCEPT ![r].stage = "nothing"]
    <3>1. Backed([req[r] EXCEPT !.stage = "nothing"])
      BY <2>1 DEF Backed, TopUp
    <3>2. req' = [req EXCEPT ![r] = [req[r] EXCEPT !.stage = "nothing"]]
      BY <1>0, <2>2
    <3>3. QED
      BY <3>1, <3>2, OneRequestMoves
  <2>3. CASE \E owed \in 1 .. req[r].target :
                req' = [req EXCEPT ![r].stage = "slot", ![r].owed = owed]
    <3>1. PICK owed \in 1 .. req[r].target :
              req' = [req EXCEPT ![r].stage = "slot", ![r].owed = owed]
      BY <2>3
    <3>2. Backed([[req[r] EXCEPT !.stage = "slot"] EXCEPT !.owed = owed])
      BY <2>1 DEF Backed, TopUp
    <3>3. req' = [req EXCEPT ![r] = [[req[r] EXCEPT !.stage = "slot"] EXCEPT !.owed = owed]]
      BY <1>0, <3>1
    <3>4. QED
      BY <3>2, <3>3, OneRequestMoves
  <2>4. QED
    BY <1>1, <2>2, <2>3 DEF topUpSum
<1>2. CASE topUpSlot(r)
  <2> DEFINE reason == IF Slot(req[r].seller, "MONTHLY_GRANT", req[r].period) = {}
                       THEN "MONTHLY_GRANT" ELSE "ADMIN_ADJUST"
             next == [[req[r] EXCEPT !.stage = "write"] EXCEPT !.reason = reason]
  <2>1. /\ req[r] \in TopUp /\ req[r].op = "topup" /\ req[r].stage = "slot"
        /\ \E p \in Plans : req[r].target = MonthlyCredits[p]
        /\ req[r].owed \in 1 .. req[r].target
    BY <1>0, <1>2 DEF topUpSlot, AtStage, Backed, TopUp
  <2>2. req' = [req EXCEPT ![r].stage = "write", ![r].reason = reason]
    BY <1>2 DEF topUpSlot
  <2> HIDE DEF reason
  <2>3. Backed(next)
    BY <2>1 DEF Backed, TopUp
  <2>4. req' = [req EXCEPT ![r] = next]
    BY <1>0, <2>2
  <2> HIDE DEF next
  <2>5. QED
    BY <2>3, <2>4, OneRequestMoves
<1>3. CASE topUpWrite(r)
  <2>1. req[r] \in TopUp /\ req' = [req EXCEPT ![r] = [req[r] EXCEPT !.stage = "granted"]]
    BY <1>0, <1>3 DEF topUpWrite, AtStage
  <2>2. Backed([req[r] EXCEPT !.stage = "granted"])
    BY <1>0, <2>1 DEF Backed, TopUp
  <2>3. QED
    BY <2>1, <2>2, OneRequestMoves
<1>4. CASE topUpConflict(r)
  <2>1. req[r] \in TopUp /\ req' = [req EXCEPT ![r] = [req[r] EXCEPT !.stage = "conflict"]]
    BY <1>0, <1>4 DEF topUpConflict, AtStage
  <2>2. Backed([req[r] EXCEPT !.stage = "conflict"])
    BY <1>0, <2>1 DEF Backed, TopUp
  <2>3. QED
    BY <2>1, <2>2, OneRequestMoves
<1>5. CASE grantList(r)
  <2> DEFINE due == {<<s, MonthlyCredits[plan[s]]>> : s \in {s \in Sellers : MonthlyCredits[plan[s]] > 0}}
             job == [op |-> "grant", period |-> period, due |-> due]
  <2>1. \A s \in Sellers : MonthlyCredits[plan[s]] > 0 => MonthlyCredits[plan[s]] \in Allowance
    <3> SUFFICES ASSUME NEW s \in Sellers, MonthlyCredits[plan[s]] > 0
                 PROVE  MonthlyCredits[plan[s]] \in Allowance
      OBVIOUS
    <3>1. plan[s] \in Plans /\ MonthlyCredits[plan[s]] \in Nat
      BY DEF TypeOK
    <3>2. MonthlyCredits[plan[s]] \in 1 .. MonthlyCredits[plan[s]]
      BY <3>1
    <3>3. QED
      BY <3>1, <3>2 DEF Allowance
  <2>2. \A d \in due : d[2] \in Allowance
    BY <2>1
  <2>3. req' = [req EXCEPT ![r] = job]
    BY <1>5 DEF grantList
  <2>4. job.op = "grant" /\ job.due = due /\ job \notin TopUp
    BY DEF TopUp
  <2> HIDE DEF job, due
  <2>5. QED
    BY <2>2, <2>3, <2>4, OneRequestMoves DEF Backed
<1>6. CASE grantOne(r)
  <2>1. PICK d \in req[r].due : req' = [req EXCEPT ![r].due = @ \ {d}]
    BY <1>6 DEF grantOne
  <2>2. req[r] \in [op : {"grant"}, period : Periods, due : SUBSET (Sellers \X (Nat \ {0}))]
    BY <1>6, GrantRequest DEF grantOne
  <2> DEFINE next == [req[r] EXCEPT !.due = @ \ {d}]
  <2>3. Backed(next)
    BY <1>0, <2>2 DEF Backed, TopUp
  <2>4. req' = [req EXCEPT ![r] = next]
    BY <1>0, <2>1
  <2> HIDE DEF next
  <2>5. QED
    BY <2>3, <2>4, OneRequestMoves
<1>7. CASE statsRead(r)
  <2> DEFINE job == [op |-> "stats", counted |-> [s \in Sellers |-> Cardinality(AcceptedNow(s))],
                     due |-> {SellerOf[l] : l \in Market}]
  <2>1. req' = [req EXCEPT ![r] = job]
    BY <1>7 DEF statsRead
  <2>2. job.op = "stats"
    OBVIOUS
  <2> HIDE DEF job
  <2>3. QED
    BY <2>1, <2>2, OthersBacked, OneRequestMoves
<1>8. CASE statsWrite(r)
  <2>1. PICK s \in req[r].due : req' = [req EXCEPT ![r].due = @ \ {s}]
    BY <1>8 DEF statsWrite
  <2>2. req[r] \in [op : {"stats"}, counted : [Sellers -> Nat], due : SUBSET Sellers]
    BY <1>0, <1>8 DEF statsWrite, Request, Idle, Done, TopUp
  <2>3. [req[r] EXCEPT !.due = @ \ {s}].op = "stats"
    BY <2>2
  <2>4. req' = [req EXCEPT ![r] = [req[r] EXCEPT !.due = @ \ {s}]]
    BY <1>0, <2>1
  <2>5. QED
    BY <2>3, <2>4, OthersBacked, OneRequestMoves
<1>9. QED
  BY <1>1, <1>2, <1>3, <1>4, <1>5, <1>6, <1>7, <1>8 DEF JobStep

\* Every step keeps the requests within the plans.
LEMMA BackedStep == TypeOK /\ RequestsBacked /\ [Next]_vars => RequestsBacked'
<1> SUFFICES ASSUME TypeOK, RequestsBacked, [Next]_vars PROVE RequestsBacked'
  OBVIOUS
<1>0. ASSUME UNCHANGED req PROVE RequestsBacked'
  BY <1>0 DEF RequestsBacked, Backed
<1>1. ASSUME NEW l \in Leads, InboxStep(l) PROVE RequestsBacked'
  BY <1>0, <1>1 DEF InboxStep, markLeadViewed, closeLead, flagLead, PassExpiry, rejectFlag, setLeadOutcome
<1>2. ASSUME NEW r \in Requests, NEW l \in Leads, RequestOnLead(r, l) PROVE RequestsBacked'
  <2>1. PICK q : req' = [req EXCEPT ![r] = q] /\ q.op \notin {"topup", "grant"}
    BY <1>2 DEF RequestOnLead, acceptRead, acceptCommit, acceptRefused, refundRead, refundCommit,
                refundNothing, dismissFlag, Finish, Done
  <2>2. QED
    BY <2>1, OthersBacked, OneRequestMoves
<1>3. ASSUME NEW r \in Requests, NEW s \in Sellers, RequestOnSeller(r, s) PROVE RequestsBacked'
  <2>1. CASE (\E delta \in Adjustments : adjustCredits(r, s, delta)) \/ buyLeadPack(r, s)
    <3>1. req' = [req EXCEPT ![r] = Done] /\ Done.op = "done"
      BY <2>1 DEF adjustCredits, buyLeadPack, Finish, Done
    <3>2. QED
      BY <3>1, OthersBacked, OneRequestMoves
  <2>2. CASE \E p \in Plans : changeSellerPlan(r, s, p)
    <3>1. PICK p \in Plans : changeSellerPlan(r, s, p)
      BY <2>2
    <3>2. PICK stage \in {"sum", "nothing"} :
            req' = [req EXCEPT ![r] = [op |-> "topup", stage |-> stage, seller |-> s,
                       target |-> MonthlyCredits[p], period |-> period,
                       owed |-> 0, reason |-> "MONTHLY_GRANT"]]
      BY <3>1 DEF changeSellerPlan
    <3>3. Backed([op |-> "topup", stage |-> stage, seller |-> s,
                  target |-> MonthlyCredits[p], period |-> period,
                  owed |-> 0, reason |-> "MONTHLY_GRANT"])
      BY DEF Backed
    <3>4. QED
      BY <3>2, <3>3, OneRequestMoves
  <2>3. QED
    BY <1>3, <2>1, <2>2 DEF RequestOnSeller
<1>4. ASSUME NEW r \in Requests, JobStep(r) PROVE RequestsBacked'
  BY <1>4, JobBacked
<1>5. CASE expireMarketLeads \/ NextMonth \/ UNCHANGED vars
  BY <1>0, <1>5 DEF expireMarketLeads, NextMonth, vars
<1>6. QED
  BY <1>1, <1>2, <1>3, <1>4, <1>5 DEF Next

-----------------------------------------------------------------------------
(* What a move of the ledger is to the account.                             *)

Bought == {l \in Market : Charges(l) # {}}
Shown == {l \in Market : Revealed(l)}
Granted == {g \in Sellers \X {"MONTHLY_GRANT", "ADMIN_ADJUST"} \X Periods :
               Slot(g[1], g[2], g[3]) # {}}

\* A move fills the slot it names and no other.
LEMMA SlotsAfterPost ==
    ASSUME TypeOK,
           NEW s \in Sellers, NEW delta \in Int \ {0}, NEW reason \in Reasons,
           NEW l \in Leads \cup {NoLead}, NEW p \in Periods \cup {0},
           Post(s, delta, reason, l, p),
           NEW t \in Sellers, NEW q, NEW k
    PROVE  (Slot(t, q, k)' # {}) <=> (Slot(t, q, k) # {} \/ (t = s /\ q = reason /\ k = p))
<1>1. Appended(s, delta, reason, l, p)
  BY PostAppends
<1>2. CASE t # s
  <2>1. ledger'[t] = ledger[t]
    BY <1>1, <1>2 DEF Appended
  <2>2. QED
    BY <1>2, <2>1 DEF Slot
<1>3. CASE t = s
  <2>1. /\ OneMore(ledger[s], ledger'[s])
        /\ ledger'[s][Len(ledger[s]) + 1].reason = reason
        /\ ledger'[s][Len(ledger[s]) + 1].period = p
    BY <1>1, PostGrows
  <2>2. SlotGrows(ledger[s], ledger'[s], q, k)
    BY <2>1, OneMoreGrows
  <2>3. QED
    BY <1>3, <2>1, <2>2 DEF SlotGrows, Slot
<1>4. QED
  BY <1>2, <1>3

\* A move without a periodKey grants nothing.
LEMMA GrantedStays ==
    ASSUME TypeOK,
           NEW s \in Sellers, NEW delta \in Int \ {0}, NEW reason \in Reasons,
           NEW l \in Leads \cup {NoLead}, Post(s, delta, reason, l, 0)
    PROVE  Granted' = Granted
<1>1. 0 \in Periods \cup {0} /\ 0 \notin Periods
  BY CreditsAssumption DEF Periods
<1>2. \A t \in Sellers : \A q, k : k # 0 => ((Slot(t, q, k)' # {}) <=> (Slot(t, q, k) # {}))
  BY <1>1, SlotsAfterPost
<1>3. \A g \in Sellers \X {"MONTHLY_GRANT", "ADMIN_ADJUST"} \X Periods :
          (Slot(g[1], g[2], g[3])' # {}) <=> (Slot(g[1], g[2], g[3]) # {})
  BY <1>1, <1>2
<1>4. QED
  BY <1>3 DEF Granted

\* A move that names no lead buys nothing.
LEMMA BoughtStays ==
    ASSUME TypeOK,
           NEW s \in Sellers, NEW delta \in Int \ {0},
           NEW reason \in Reasons \ {"LEAD_ACCEPT", "FLAG_REFUND"},
           NEW p \in Periods \cup {0}, Post(s, delta, reason, NoLead, p)
    PROVE  Bought' = Bought
<1>1. \A l \in Leads : Charges(l)' = Charges(l)
  BY OtherMoves
<1>2. QED
  BY <1>1, LeadsAssumption DEF Bought

\* What is shown depends on the statuses alone.
LEMMA ShownStays ==
    ASSUME status' = status
    PROVE  Shown' = Shown
  BY DEF Shown, Revealed

\* A ledger that is left alone leaves the account's balance, purchases and
\* grants alone.
LEMMA LedgerStays ==
    ASSUME UNCHANGED creditVars
    PROVE  balance' = balance /\ Bought' = Bought /\ Granted' = Granted
<1>1. \A l \in Leads : Charges(l)' = Charges(l)
  BY SameLedger
<1>2. \A s, q, k : Slot(s, q, k)' = Slot(s, q, k)
  BY DEF creditVars, Slot
<1>3. QED
  BY <1>1, <1>2, LeadsAssumption DEF creditVars, Bought, Granted

\* The account's balance moves as the ledger's does.
LEMMA PostCredits ==
    ASSUME NEW s, NEW delta, NEW reason, NEW l, NEW p, Post(s, delta, reason, l, p)
    PROVE  Account!Credit(s, delta)
  BY DEF Post, Account!Credit

-----------------------------------------------------------------------------
(* The initial state, and the four steps that are not stutters.              *)

\* Nothing is bought, shown or granted at first.
LEMMA AccountInit == Init => Account!Init
<1> SUFFICES ASSUME Init PROVE Account!Init
  OBVIOUS
<1>1. \A s \in Sellers : DOMAIN ledger[s] = {}
  BY DEF Init
<1>2. Bought = {} /\ Granted = {}
  BY <1>1, LeadsAssumption DEF Bought, Charges, RowsOf, Granted, Slot, SlotOf
<1>3. Shown = {}
  BY LeadsAssumption DEF Init, Shown, Revealed
<1>4. balance = [s \in Sellers |-> 0]
  BY DEF Init
<1>5. QED
  BY <1>2, <1>3, <1>4 DEF Account!Init, Bought, Shown, Granted

\* What an account step says, in the words of this module.
LEMMA AccountMove ==
    ASSUME \/ \E l \in Market : /\ l \notin Bought
                                /\ Account!Credit(SellerOf[l], -1)
                                /\ Bought' = Bought \cup {l} /\ Shown' = Shown \cup {l}
                                /\ Granted' = Granted
           \/ \E l \in Market : /\ l \in Bought
                                /\ Account!Credit(SellerOf[l], 1)
                                /\ Bought' = Bought /\ Shown' = Shown /\ Granted' = Granted
           \/ \E l \in Market : /\ l \in Shown /\ Shown' = Shown \ {l}
                                /\ balance' = balance /\ Bought' = Bought /\ Granted' = Granted
           \/ \E s \in Sellers, q \in {"MONTHLY_GRANT", "ADMIN_ADJUST"}, k \in Periods :
                  /\ <<s, q, k>> \notin Granted
                  /\ Granted' = Granted \cup {<<s, q, k>>}
                  /\ \E amount \in Allowance : Account!Credit(s, amount)
                  /\ Bought' = Bought /\ Shown' = Shown
           \/ \E s \in Sellers :
                  /\ \E amount \in Adjustments \cup {PackSize} : Account!Credit(s, amount)
                  /\ Bought' = Bought /\ Shown' = Shown /\ Granted' = Granted
           \/ balance' = balance /\ Bought' = Bought /\ Shown' = Shown /\ Granted' = Granted
    PROVE  [Account!Next]_(Account!accountVars)
  BY DEF Account!Next, Account!Buy, Account!Return, Account!Hide, Account!Grant, Account!Move,
         Account!Kinds, Account!accountVars, Bought, Shown, Granted, Allowance

\* Changing the status of one lead hides it, or changes nothing that is shown,
\* when it does not become ACCEPTED.
LEMMA OneLeadMoves ==
    ASSUME TypeOK, UNCHANGED creditVars, NEW l \in Leads,
           \A k \in Leads \ {l} : status'[k] = status[k],
           status'[l] = "ACCEPTED" => status[l] = "ACCEPTED"
    PROVE  [Account!Next]_(Account!accountVars)
<1>1. balance' = balance /\ Bought' = Bought /\ Granted' = Granted
  BY LedgerStays
<1>2. Shown' = Shown \/ (l \in Shown /\ Shown' = Shown \ {l})
  <2>1. CASE status[l] = "ACCEPTED" /\ status'[l] # "ACCEPTED"
    BY <2>1, LeadsAssumption DEF Shown, Revealed
  <2>2. CASE ~(status[l] = "ACCEPTED" /\ status'[l] # "ACCEPTED")
    BY <2>2, LeadsAssumption DEF Shown, Revealed
  <2>3. QED
    BY <2>1, <2>2
<1>3. l \in Shown => l \in Market
  BY DEF Shown
<1>4. QED
  BY <1>1, <1>2, <1>3, AccountMove

\* A step that moves neither statuses nor the ledger is none of the account's.
LEMMA StutterStep ==
    ASSUME UNCHANGED creditVars, status' = status
    PROVE  [Account!Next]_(Account!accountVars)
<1>1. balance' = balance /\ Bought' = Bought /\ Granted' = Granted
  BY LedgerStays
<1>2. Shown' = Shown
  BY ShownStays
<1>3. QED
  BY <1>1, <1>2, AccountMove

\* Packs and adjustments are movements of the account.
LEMMA MovementStep ==
    ASSUME TypeOK, NEW s \in Sellers, NEW delta \in Adjustments \cup {PackSize},
           NEW reason \in {"ADMIN_ADJUST", "ADDON_PURCHASE"},
           Post(s, delta, reason, NoLead, 0), status' = status
    PROVE  [Account!Next]_(Account!accountVars)
<1>1. /\ delta \in Int \ {0}
      /\ reason \in Reasons \ {"LEAD_ACCEPT", "FLAG_REFUND"}
      /\ NoLead \in Leads \cup {NoLead} /\ 0 \in Periods \cup {0}
  BY CreditsAssumption DEF Reasons
<1>2. Granted' = Granted
  BY <1>1, GrantedStays
<1>3. Bought' = Bought
  BY <1>1, BoughtStays
<1>4. Shown' = Shown
  BY ShownStays
<1>5. Account!Credit(s, delta)
  BY PostCredits
<1>6. QED
  BY <1>2, <1>3, <1>4, <1>5, AccountMove

\* Top-ups and monthly grants are grants of the account.
LEMMA GrantIsGiven ==
    ASSUME TypeOK, NEW s \in Sellers, NEW delta \in Allowance, delta \in Int \ {0},
           NEW reason \in {"MONTHLY_GRANT", "ADMIN_ADJUST"}, NEW p \in Periods,
           Slot(s, reason, p) = {}, Post(s, delta, reason, NoLead, p), status' = status
    PROVE  [Account!Next]_(Account!accountVars)
<1>1. /\ reason \in Reasons \ {"LEAD_ACCEPT", "FLAG_REFUND"}
      /\ NoLead \in Leads \cup {NoLead} /\ p \in Periods \cup {0}
  BY DEF Reasons
<1>2. \A t \in Sellers : \A q, k :
          (Slot(t, q, k)' # {}) <=> (Slot(t, q, k) # {} \/ (t = s /\ q = reason /\ k = p))
  BY <1>1, SlotsAfterPost
<1>3. Granted' = Granted \cup {<<s, reason, p>>}
  <2>1. <<s, reason, p>> \in Sellers \X {"MONTHLY_GRANT", "ADMIN_ADJUST"} \X Periods
    OBVIOUS
  <2>2. \A g \in Sellers \X {"MONTHLY_GRANT", "ADMIN_ADJUST"} \X Periods :
            (Slot(g[1], g[2], g[3])' # {}) <=> (Slot(g[1], g[2], g[3]) # {} \/ g = <<s, reason, p>>)
    BY <1>2
  <2>3. QED
    BY <2>1, <2>2 DEF Granted
<1>4. <<s, reason, p>> \notin Granted
  BY DEF Granted
<1>5. Bought' = Bought
  BY <1>1, BoughtStays
<1>6. Shown' = Shown
  BY ShownStays
<1>7. Account!Credit(s, delta)
  BY PostCredits
<1>8. QED
  BY <1>3, <1>4, <1>5, <1>6, <1>7, AccountMove

\* The commit of an accept buys the lead.
LEMMA AcceptBuys ==
    ASSUME TypeOK, NEW r \in Requests, NEW l \in Leads, acceptCommit(r, l)
    PROVE  [Account!Next]_(Account!accountVars)
<1>1. req[r] \in Request /\ req[r] = [op |-> "accept", lead |-> l]
  BY DEF acceptCommit, TypeOK
<1>2. l \in Market
  BY <1>1 DEF Request, TopUp, Idle, Done
<1>3. /\ Post(SellerOf[l], -1, "LEAD_ACCEPT", l, 0)
      /\ Charges(l) = {}
      /\ status' = [status EXCEPT ![l] = "ACCEPTED"]
  BY DEF acceptCommit, SetStatus
<1>4. -1 \in Int \ {0} /\ SellerOf[l] \in Sellers /\ "LEAD_ACCEPT" \in Reasons
  BY LeadsAssumption DEF Reasons
<1>5. /\ \A k \in Leads \ {l} : Charges(k)' = Charges(k)
      /\ Charges(l)' # {}
  BY <1>3, <1>4, LeadMove
<1>6. l \notin Bought /\ Bought' = Bought \cup {l}
  BY <1>2, <1>3, <1>5, LeadsAssumption DEF Bought
<1>7. Shown' = Shown \cup {l}
  BY <1>2, <1>3, LeadsAssumption DEF Shown, Revealed, TypeOK
<1>8. Granted' = Granted
  BY <1>3, <1>4, GrantedStays
<1>9. Account!Credit(SellerOf[l], -1)
  BY <1>3, PostCredits
<1>10. QED
  BY <1>2, <1>6, <1>7, <1>8, <1>9, AccountMove

\* The commit of a refund returns a credit for a lead that was bought.
LEMMA RefundReturns ==
    ASSUME TypeOK, LeadSafety, NEW r \in Requests, NEW l \in Leads, refundCommit(r, l)
    PROVE  [Account!Next]_(Account!accountVars)
<1>1. /\ Post(SellerOf[l], 1, "FLAG_REFUND", l, 0)
      /\ Charges(l) # {}
      /\ status' = status
  BY DEF refundCommit
<1>2. l \in Market /\ l \in Bought
  BY <1>1 DEF LeadSafety, ChargedOnce, Bought
<1>3. 1 \in Int \ {0} /\ SellerOf[l] \in Sellers /\ "FLAG_REFUND" \in Reasons
  BY LeadsAssumption DEF Reasons
<1>4. \A k \in Leads : Charges(k)' = Charges(k)
  BY <1>1, <1>3, LeadMove
<1>5. Bought' = Bought
  BY <1>4, LeadsAssumption DEF Bought
<1>6. Shown' = Shown
  BY <1>1, ShownStays
<1>7. Granted' = Granted
  BY <1>1, <1>3, GrantedStays
<1>8. Account!Credit(SellerOf[l], 1)
  BY <1>1, PostCredits
<1>9. QED
  BY <1>2, <1>5, <1>6, <1>7, <1>8, AccountMove

-----------------------------------------------------------------------------
(* Every step.                                                              *)

\* Each step is a step of the account or leaves it alone.
LEMMA AccountStep ==
    ASSUME TypeOK, LeadSafety, RequestsBacked, [Next]_vars
    PROVE  [Account!Next]_(Account!accountVars)
<1> DEFINE Goal == [Account!Next]_(Account!accountVars)
<1> HIDE DEF Goal
<1>a. ASSUME UNCHANGED creditVars, status' = status PROVE Goal
  BY <1>a, StutterStep DEF Goal
<1>1. ASSUME NEW l \in Leads, InboxStep(l) PROVE Goal
  <2>1. UNCHANGED creditVars
    BY <1>1 DEF InboxStep, markLeadViewed, closeLead, flagLead, PassExpiry, rejectFlag, setLeadOutcome
  <2>2. /\ \A k \in Leads \ {l} : status'[k] = status[k]
        /\ status'[l] = "ACCEPTED" => status[l] = "ACCEPTED"
    BY <1>1 DEF TypeOK, InboxStep, markLeadViewed, closeLead, flagLead, PassExpiry, rejectFlag,
                setLeadOutcome, SetStatus, Outcomes
  <2>3. QED
    BY <2>1, <2>2, OneLeadMoves DEF Goal
<1>2. ASSUME NEW r \in Requests, NEW l \in Leads, RequestOnLead(r, l) PROVE Goal
  <2>1. CASE acceptCommit(r, l)
    BY <2>1, AcceptBuys DEF Goal
  <2>2. CASE refundCommit(r, l)
    BY <2>2, RefundReturns DEF Goal
  <2>3. CASE ~acceptCommit(r, l) /\ ~refundCommit(r, l)
    <3>1. UNCHANGED creditVars /\ status' = status
      BY <1>2, <2>3 DEF RequestOnLead, acceptRead, acceptRefused, refundRead, refundNothing,
                        dismissFlag, leadVars
    <3>2. QED
      BY <1>a, <3>1
  <2>4. QED
    BY <2>1, <2>2, <2>3
<1>3. ASSUME NEW r \in Requests, NEW s \in Sellers, RequestOnSeller(r, s) PROVE Goal
  <2>1. ASSUME NEW delta \in Adjustments, adjustCredits(r, s, delta) PROVE Goal
    BY <2>1, MovementStep DEF Goal, adjustCredits, leadVars
  <2>2. CASE buyLeadPack(r, s)
    BY <2>2, MovementStep DEF Goal, buyLeadPack, leadVars
  <2>3. CASE \E p \in Plans : changeSellerPlan(r, s, p)
    BY <1>a, <2>3 DEF changeSellerPlan, leadVars
  <2>4. QED
    BY <1>3, <2>1, <2>2, <2>3 DEF RequestOnSeller
<1>4. ASSUME NEW r \in Requests, JobStep(r) PROVE Goal
  <2>1. CASE topUpWrite(r)
    <3>1. /\ Slot(req[r].seller, req[r].reason, req[r].period) = {}
          /\ Post(req[r].seller, req[r].owed, req[r].reason, NoLead, req[r].period)
          /\ status' = status
      BY <2>1 DEF topUpWrite, leadVars
    <3>2. /\ req[r] \in TopUp /\ req[r].stage = "write"
          /\ \E p \in Plans : req[r].target = MonthlyCredits[p]
          /\ req[r].owed \in 1 .. req[r].target
      BY <2>1 DEF topUpWrite, AtStage, RequestsBacked, Backed
    <3>3. req[r].owed \in Allowance
      BY <3>2 DEF Allowance
    <3>4. QED
      BY <2>1, <3>1, <3>3, TopUpPosts, GrantIsGiven DEF Goal
  <2>2. CASE grantOne(r)
    <3>1. PICK d \in req[r].due : GrantStep(r, d)
      BY <2>2 DEF grantOne, GrantStep
    <3>2. d[1] \in Sellers /\ d[2] \in Int \ {0} /\ req[r].period \in Periods
      BY <2>2, GrantRequest DEF grantOne
    <3>3. d[2] \in Allowance
      BY <2>2, <3>1 DEF grantOne, RequestsBacked, Backed
    <3>4. status' = status
      BY <2>2 DEF grantOne, leadVars
    <3>5. CASE UNCHANGED creditVars
      BY <1>a, <3>4, <3>5
    <3>6. CASE /\ Slot(d[1], "MONTHLY_GRANT", req[r].period) = {}
               /\ Post(d[1], d[2], "MONTHLY_GRANT", NoLead, req[r].period)
      BY <3>2, <3>3, <3>4, <3>6, GrantIsGiven DEF Goal
    <3>7. QED
      BY <3>1, <3>5, <3>6 DEF GrantStep
  <2>3. CASE ~topUpWrite(r) /\ ~grantOne(r)
    <3>1. UNCHANGED creditVars /\ status' = status
      BY <1>4, <2>3 DEF JobStep, topUpSum, topUpSlot, topUpConflict, grantList, statsRead,
                        statsWrite, leadVars
    <3>2. QED
      BY <1>a, <3>1
  <2>4. QED
    BY <2>1, <2>2, <2>3
<1>5. CASE expireMarketLeads
  <2>1. UNCHANGED creditVars
    BY <1>5 DEF expireMarketLeads
  <2>2. Shown' = Shown
    BY <1>5, LeadsAssumption DEF expireMarketLeads, Shown, Revealed, Unopened, TypeOK
  <2>3. QED
    BY <2>1, <2>2, LedgerStays, AccountMove DEF Goal
<1>6. CASE NextMonth \/ UNCHANGED vars
  <2>1. UNCHANGED creditVars /\ status' = status
    BY <1>6 DEF NextMonth, vars, leadVars, creditVars
  <2>2. QED
    BY <1>a, <2>1 DEF Goal
<1>7. QED
  BY <1>1, <1>2, <1>3, <1>4, <1>5, <1>6 DEF Next, Goal

\* LeadCredits implements the account: whatever requests, jobs and top-ups
\* interleave, a number is shown only for a lead bought with a credit, no lead is
\* bought twice, no grant is given twice or beyond a plan's allowance.
THEOREM AccountIsImplemented == Spec => ImplementsAccount
<1>1. Init => RequestsBacked
  BY DEF Init, RequestsBacked, Backed, Idle, TopUp
<1>2. TypeOK /\ Safety /\ RequestsBacked /\ [Next]_vars => [Account!Next]_(Account!accountVars)
  BY AccountStep DEF Safety
<1>3. QED
  BY <1>1, <1>2, AccountInit, BackedStep, AlwaysSafe, PTL
  DEF Spec, ImplementsAccount, Account!Spec

-----------------------------------------------------------------------------
(* LeadDelivery.                                                            *)

OneWorker == \A w, v \in Workers : w = v

\* What the columns and the workers' hands hold, without the bounds of TypeOK.
Columns ==
    /\ deliveryStatus \in [Deliveries -> Final \cup {"absent", "PENDING"}]
    /\ attempts \in [Deliveries -> 0 .. MaxClaims]
    /\ leased \subseteq Deliveries
    /\ sends \in [Deliveries -> Nat]
    /\ worker \in [Workers -> [batch : SUBSET Deliveries, hand : Hand]]
    /\ faults \in 0 .. MaxFaults

\* A hand that holds a row was given it by the provider's answer.
Answered(w, d) ==
    /\ worker[w].hand.stage = "notified"
    /\ worker[w].hand.row = d /\ worker[w].hand.result = "ok"

\* The strengthening of SentWasAccepted: an answer "ok" follows a message.
OkWasAccepted ==
    \A w \in Workers : \A d \in Deliveries : Answered(w, d) => sends[d] > 0

Undecided(d) == deliveryStatus[d] \in {"absent", "PENDING"}

\* The rows a worker has are to be decided, and each is in one place.
HeldArePending ==
    \A w \in Workers :
        /\ \A d \in worker[w].batch : deliveryStatus[d] = "PENDING"
        /\ worker[w].hand.stage # "between" =>
              /\ deliveryStatus[worker[w].hand.row] = "PENDING"
              /\ worker[w].hand.row \notin worker[w].batch

\* A row that is still to be decided, and whose "ok" is not in the worker's
\* hand, was sent at most once for every fault.
SendsAreFaults ==
    \A d \in Deliveries :
        /\ sends[d] <= 1 + faults
        /\ (Undecided(d) /\ \A w \in Workers : ~Answered(w, d)) => sends[d] <= faults

-----------------------------------------------------------------------------
(* The values of a hand.                                                    *)

LEMMA HandForms ==
    /\ NoRow \in Hand /\ NoRow.stage = "between"
    /\ \A d \in Deliveries : \A a \in Nat :
          [stage |-> "read", row |-> d, attempts |-> a] \in Hand
    /\ \A d \in Deliveries : \A a \in Nat : \A r \in Results :
          [stage |-> "notified", row |-> d, attempts |-> a, result |-> r] \in Hand
    /\ \A h \in Hand : h.stage = "read" => h.row \in Deliveries /\ h.attempts \in Nat
    /\ \A h \in Hand : h.stage = "notified" =>
          h.row \in Deliveries /\ h.attempts \in Nat /\ h.result \in Results
    /\ \A h \in Hand : h.stage \in {"between", "read", "notified"}
BY DEF Hand, NoRow

\* The columns keep their types, for any number of workers.
LEMMA ColumnsStep ==
    ASSUME Columns, [DeliveryNext]_deliveryVars PROVE Columns'
<1> USE DeliveryAssumption
<1>1. ASSUME NEW d \in Deliveries, enqueue(d) PROVE Columns'
    BY <1>1 DEF Columns, enqueue, Final
<1>2. ASSUME NEW d \in Deliveries, LeaseExpires(d) PROVE Columns'
    BY <1>2 DEF Columns, LeaseExpires
<1>3. ASSUME NEW w \in Workers, claimPendingDeliveries(w) PROVE Columns'
  <2>1. PICK ids \in Batches \ {{}} :
            /\ \A d \in ids : attempts[d] < MaxClaims
            /\ attempts' = [d \in Deliveries |-> IF d \in ids THEN attempts[d] + 1 ELSE attempts[d]]
            /\ leased' = leased \cup ids
            /\ worker' = [worker EXCEPT ![w].batch = ids]
      BY <1>3 DEF claimPendingDeliveries
  <2>2. ids \subseteq Deliveries  BY DEF Batches, Claimable
  <2>3. attempts' \in [Deliveries -> 0 .. MaxClaims]  BY <2>1, <2>2 DEF Columns
  <2>4. worker' \in [Workers -> [batch : SUBSET Deliveries, hand : Hand]]
      BY <2>1, <2>2 DEF Columns
  <2> QED  BY <1>3, <2>1, <2>2, <2>3, <2>4 DEF claimPendingDeliveries, Columns
<1>4. ASSUME NEW w \in Workers, NEW d \in Deliveries, settleWithoutProvider(w, d)
      PROVE Columns'
  <2>1. worker' \in [Workers -> [batch : SUBSET Deliveries, hand : Hand]]
      BY <1>4, HandForms DEF settleWithoutProvider, Take, Columns
  <2> QED  BY <1>4, <2>1 DEF settleWithoutProvider, Columns, Final
<1>5. ASSUME NEW w \in Workers, NEW d \in Deliveries, readDelivery(w, d) PROVE Columns'
  <2>1. attempts[d] \in Nat  BY DEF Columns
  <2>2. worker' \in [Workers -> [batch : SUBSET Deliveries, hand : Hand]]
      BY <1>5, <2>1, HandForms DEF readDelivery, Take, Columns
  <2> QED  BY <1>5, <2>2 DEF readDelivery, Columns, rowVars
<1>6. ASSUME NEW w \in Workers, NEW result \in Results, InHand(w, "read"), Notified(w, result)
      PROVE /\ worker' \in [Workers -> [batch : SUBSET Deliveries, hand : Hand]]
            /\ worker[w].hand.row \in Deliveries
  <2>1. worker[w].hand \in Hand  BY DEF Columns
  <2>2. worker[w].hand.row \in Deliveries /\ worker[w].hand.attempts \in Nat
      BY <1>6, <2>1, HandForms DEF InHand
  <2> QED  BY <1>6, <2>2, HandForms DEF Notified, Columns
<1>7. ASSUME NEW w \in Workers, notify(w) PROVE Columns'
  <2>1. PICK result \in Results :
            /\ Notified(w, result)
            /\ sends' = IF result = "ok"
                        THEN [sends EXCEPT ![worker[w].hand.row] = @ + 1] ELSE sends
      BY <1>7 DEF notify
  <2> QED  BY <1>6, <1>7, <2>1 DEF notify, Columns, rowVars
<1>8. ASSUME NEW w \in Workers, notifyAnswerLost(w) PROVE Columns'
    BY <1>6, <1>8 DEF notifyAnswerLost, Columns, rowVars, Results
<1>9. ASSUME NEW w \in Workers, PutDown(w)
      PROVE worker' \in [Workers -> [batch : SUBSET Deliveries, hand : Hand]]
    BY <1>9, HandForms DEF PutDown, Columns
<1>10. ASSUME NEW w \in Workers, recordResult(w) PROVE Columns'
  <2>1. worker[w].hand.row \in Deliveries
      BY <1>10, HandForms DEF recordResult, InHand, Columns
  <2> QED  BY <1>9, <1>10, <2>1 DEF recordResult, OutcomeOf, Final, Columns
<1>11. ASSUME NEW w \in Workers, processingThrows(w) PROVE Columns'
    BY <1>9, <1>11 DEF processingThrows, Columns, rowVars
<1>12. ASSUME NEW w \in Workers, crash(w) PROVE Columns'
    BY <1>12, HandForms DEF crash, Columns, rowVars
<1>13. CASE UNCHANGED deliveryVars  BY <1>13 DEF deliveryVars, rowVars, Columns
<1> QED
    BY <1>1, <1>2, <1>3, <1>4, <1>5, <1>7, <1>8, <1>10, <1>11, <1>12, <1>13
    DEF DeliveryNext, WorkerStep, WorkerFault

-----------------------------------------------------------------------------
(* For any number of workers: types, and nothing says SENT that was not.    *)

\* The columns' types, and the state a worker can be in.
THEOREM DeliveryTypes == DeliverySpec => []DeliveryTypeOK
<1>1. DeliveryInit => Columns
    BY DeliveryAssumption, HandForms DEF DeliveryInit, Columns
<1>2. Columns /\ [DeliveryNext]_deliveryVars => Columns'  BY ColumnsStep
<1>3. Columns => DeliveryTypeOK  BY DEF Columns, DeliveryTypeOK
<1> QED  BY <1>1, <1>2, <1>3, PTL DEF DeliverySpec

\* A row says SENT only after the provider took a message, and so does a hand.
Accepted == SentWasAccepted /\ OkWasAccepted

LEMMA AcceptedStep ==
    ASSUME Columns, Accepted, [DeliveryNext]_deliveryVars PROVE Accepted'
<1> USE DEF Accepted, SentWasAccepted, OkWasAccepted, Answered
<1>1. ASSUME NEW d \in Deliveries, enqueue(d) PROVE Accepted'
    BY <1>1 DEF enqueue, Columns
<1>2. ASSUME NEW d \in Deliveries, LeaseExpires(d) PROVE Accepted'
    BY <1>2 DEF LeaseExpires
<1>3. ASSUME NEW w \in Workers, claimPendingDeliveries(w) PROVE Accepted'
  <2>1. \A v \in Workers : worker'[v].hand = worker[v].hand
      BY <1>3 DEF claimPendingDeliveries, Columns
  <2> QED  BY <1>3, <2>1 DEF claimPendingDeliveries
<1>4. ASSUME NEW w \in Workers, NEW d \in Deliveries, settleWithoutProvider(w, d)
      PROVE Accepted'
  <2>1. worker'[w].hand = NoRow /\ \A v \in Workers : v # w => worker'[v] = worker[v]
      BY <1>4 DEF settleWithoutProvider, Take, Columns
  <2>2. \A c \in Deliveries \ Panel : deliveryStatus'[c] = "SENT" => deliveryStatus[c] = "SENT"
      BY <1>4 DEF settleWithoutProvider, Columns
  <2> QED  BY <1>4, <2>1, <2>2, HandForms DEF settleWithoutProvider
<1>5. ASSUME NEW w \in Workers, NEW d \in Deliveries, readDelivery(w, d) PROVE Accepted'
  <2>1. worker'[w].hand.stage = "read" /\ \A v \in Workers : v # w => worker'[v] = worker[v]
      BY <1>5 DEF readDelivery, Take, Columns
  <2> QED  BY <1>5, <2>1 DEF readDelivery, rowVars
<1>6. ASSUME NEW w \in Workers, notify(w) PROVE Accepted'
  <2>1. PICK result \in Results :
            /\ Notified(w, result)
            /\ sends' = IF result = "ok"
                        THEN [sends EXCEPT ![worker[w].hand.row] = @ + 1] ELSE sends
      BY <1>6 DEF notify
  <2>2. /\ worker'[w].hand.row = worker[w].hand.row /\ worker'[w].hand.result = result
        /\ \A v \in Workers : v # w => worker'[v] = worker[v]
      BY <2>1 DEF Notified, Columns
  <2>3. worker[w].hand.row \in Deliveries
      BY <1>6, HandForms DEF notify, InHand, Columns
  <2>4. \A c \in Deliveries : sends'[c] >= sends[c]  BY <2>1 DEF Columns
  <2>5. result = "ok" => sends'[worker[w].hand.row] > 0  BY <2>1, <2>3 DEF Columns
  <2>6. \A c \in Deliveries : sends[c] > 0 => sends'[c] > 0
      BY <2>1, <2>4 DEF Columns
  <2>7. deliveryStatus' = deliveryStatus  BY <1>6 DEF notify, rowVars
  <2>8. OkWasAccepted'
    <3> SUFFICES ASSUME NEW v \in Workers, NEW c \in Deliveries, Answered(v, c)'
                 PROVE  sends'[c] > 0
        OBVIOUS
    <3>1. CASE v = w  BY <3>1, <2>2, <2>5
    <3>2. CASE v # w  BY <3>2, <2>2, <2>6
    <3> QED  BY <3>1, <3>2
  <2> QED  BY <2>6, <2>7, <2>8
<1>7. ASSUME NEW w \in Workers, notifyAnswerLost(w) PROVE Accepted'
  <2>1. /\ worker'[w].hand.result = "retryable"
        /\ \A v \in Workers : v # w => worker'[v] = worker[v]
      BY <1>7 DEF notifyAnswerLost, Notified, Columns
  <2>2. \A c \in Deliveries : sends[c] > 0 => sends'[c] > 0
      BY <1>7 DEF notifyAnswerLost, Columns
  <2> QED  BY <1>7, <2>1, <2>2 DEF notifyAnswerLost, rowVars
<1>8. ASSUME NEW w \in Workers, recordResult(w) PROVE Accepted'
  <2>1. worker'[w].hand = NoRow /\ \A v \in Workers : v # w => worker'[v] = worker[v]
      BY <1>8 DEF recordResult, PutDown, Columns
  <2>2. \A c \in Deliveries : deliveryStatus'[c] = "SENT" => deliveryStatus[c] = "SENT" \/ Answered(w, c)
      BY <1>8 DEF recordResult, InHand, OutcomeOf, Columns
  <2> QED  BY <1>8, <2>1, <2>2, HandForms DEF recordResult
<1>9. ASSUME NEW w \in Workers, processingThrows(w) \/ crash(w) PROVE Accepted'
  <2>1. worker'[w].hand = NoRow /\ \A v \in Workers : v # w => worker'[v] = worker[v]
      BY <1>9 DEF processingThrows, crash, PutDown, Columns
  <2> QED  BY <1>9, <2>1, HandForms DEF processingThrows, crash, rowVars
<1>10. CASE UNCHANGED deliveryVars  BY <1>10 DEF deliveryVars, rowVars
<1> QED
    BY <1>1, <1>2, <1>3, <1>4, <1>5, <1>6, <1>7, <1>8, <1>9, <1>10
    DEF DeliveryNext, WorkerStep, WorkerFault

\* processDelivery: a WhatsApp row says SENT only if the provider took a message.
THEOREM SentIsSent == DeliverySpec => []SentWasAccepted
<1>1. DeliveryInit => Columns /\ Accepted
  <2>1. DeliveryInit => Columns
      BY DeliveryAssumption, HandForms DEF DeliveryInit, Columns
  <2>2. DeliveryInit => Accepted
      BY HandForms DEF DeliveryInit, Accepted, SentWasAccepted, OkWasAccepted, Answered
  <2> QED  BY <2>1, <2>2
<1>2. Columns /\ Accepted /\ [DeliveryNext]_deliveryVars => (Columns /\ Accepted)'
    BY ColumnsStep, AcceptedStep
<1>3. Accepted => SentWasAccepted  BY DEF Accepted
<1> QED  BY <1>1, <1>2, <1>3, PTL DEF DeliverySpec

-----------------------------------------------------------------------------
(* One worker process.                                                      *)

Alone == HeldArePending /\ SendsAreFaults

LEMMA AloneStep ==
    ASSUME OneWorker, Columns, Alone, [DeliveryNext]_deliveryVars
    PROVE  /\ Alone'
           /\ \A d \in Deliveries : deliveryStatus[d] \in Final => deliveryStatus'[d] = deliveryStatus[d]
<1> DEFINE Decided == \A d \in Deliveries : deliveryStatus[d] \in Final => deliveryStatus'[d] = deliveryStatus[d]
<1> USE DEF Alone, HeldArePending, SendsAreFaults, Answered, Undecided, Final
<1>0. \A w \in Workers : \A d \in Deliveries :
          (\A v \in Workers : ~Answered(v, d)) <=> ~Answered(w, d)
    BY DEF OneWorker
<1>1. ASSUME NEW d \in Deliveries, enqueue(d) PROVE Alone' /\ Decided
    BY <1>1 DEF enqueue, Columns
<1>2. ASSUME NEW d \in Deliveries, LeaseExpires(d) PROVE Alone' /\ Decided
    BY <1>2 DEF LeaseExpires
<1>3. ASSUME NEW w \in Workers, claimPendingDeliveries(w) PROVE Alone' /\ Decided
  <2>1. PICK ids \in Batches \ {{}} : worker' = [worker EXCEPT ![w].batch = ids]
      BY <1>3 DEF claimPendingDeliveries
  <2>2. \A d \in ids : d \in Deliveries /\ deliveryStatus[d] = "PENDING"
      BY DEF Batches, Claimable
  <2>3. \A v \in Workers : worker'[v].hand = worker[v].hand
      BY <2>1 DEF Columns
  <2>4. \A v \in Workers : worker[v].hand.stage = "between"
      BY <1>3, HandForms DEF claimPendingDeliveries, Resting, OneWorker
  <2>5. \A v \in Workers : worker'[v].batch = ids
      BY <2>1 DEF Columns, OneWorker
  <2>6. UNCHANGED <<deliveryStatus, sends, faults>>  BY <1>3 DEF claimPendingDeliveries
  <2>7. HeldArePending'  BY <2>2, <2>3, <2>4, <2>5, <2>6
  <2>8. SendsAreFaults'  BY <2>3, <2>6
  <2> QED  BY <2>6, <2>7, <2>8
<1>4. ASSUME NEW w \in Workers, NEW d \in Deliveries, settleWithoutProvider(w, d)
      PROVE Alone' /\ Decided
  <2>1. worker'[w] = [batch |-> worker[w].batch \ {d}, hand |-> NoRow]
      BY <1>4 DEF settleWithoutProvider, Take, Columns
  <2>2. deliveryStatus[d] = "PENDING"  BY <1>4 DEF settleWithoutProvider
  <2>3. \A c \in Deliveries : c # d => deliveryStatus'[c] = deliveryStatus[c]
      BY <1>4 DEF settleWithoutProvider, Columns
  <2>4. deliveryStatus'[d] \in {"SENT", "SKIPPED"}
      BY <1>4 DEF settleWithoutProvider, Columns
  <2>5. UNCHANGED <<sends, faults>> /\ worker[w].batch \subseteq Deliveries
      BY <1>4 DEF settleWithoutProvider, Columns
  <2>6. worker[w].hand.stage = "between"  BY <1>4 DEF settleWithoutProvider, InHand
  <2>7. HeldArePending'  BY <2>1, <2>3, <2>5, HandForms DEF OneWorker
  <2>8. SendsAreFaults'  BY <1>0, <2>3, <2>4, <2>5, <2>6
  <2> QED  BY <2>2, <2>3, <2>7, <2>8
<1>5. ASSUME NEW w \in Workers, NEW d \in Deliveries, readDelivery(w, d)
      PROVE Alone' /\ Decided
  <2>1. worker'[w] = [batch |-> worker[w].batch \ {d},
                      hand |-> [stage |-> "read", row |-> d, attempts |-> attempts[d]]]
      BY <1>5 DEF readDelivery, Take, Columns
  <2>2. UNCHANGED <<deliveryStatus, sends, faults>> /\ deliveryStatus[d] = "PENDING"
      BY <1>5 DEF readDelivery, rowVars
  <2>3. worker[w].hand.stage = "between"  BY <1>5 DEF readDelivery, InHand
  <2>4. HeldArePending'  BY <2>1, <2>2 DEF OneWorker
  <2>5. SendsAreFaults'  BY <1>0, <2>2, <2>3
  <2> QED  BY <2>2, <2>4, <2>5
<1>6. ASSUME NEW w \in Workers, NEW result \in Results, InHand(w, "read"), Notified(w, result)
      PROVE /\ worker[w].hand.row \in Deliveries
            /\ worker'[w].batch = worker[w].batch
            /\ worker'[w].hand = [stage |-> "notified", row |-> worker[w].hand.row,
                                  attempts |-> worker[w].hand.attempts, result |-> result]
    BY <1>6, HandForms DEF Notified, InHand, Columns
<1>7. ASSUME NEW w \in Workers, notify(w) PROVE Alone' /\ Decided
  <2>1. PICK result \in Results :
            /\ Notified(w, result)
            /\ sends' = IF result = "ok"
                        THEN [sends EXCEPT ![worker[w].hand.row] = @ + 1] ELSE sends
      BY <1>7 DEF notify
  <2>2. UNCHANGED <<deliveryStatus, faults>> /\ InHand(w, "read")
      BY <1>7 DEF notify, rowVars
  <2>3. /\ worker[w].hand.row \in Deliveries
        /\ worker'[w].batch = worker[w].batch
        /\ worker'[w].hand = [stage |-> "notified", row |-> worker[w].hand.row,
                              attempts |-> worker[w].hand.attempts, result |-> result]
      BY <1>6, <2>1, <2>2
  <2>4. HeldArePending'  BY <2>2, <2>3 DEF OneWorker, InHand
  <2>5. SendsAreFaults'
    <3> SUFFICES ASSUME NEW d \in Deliveries
                 PROVE  /\ sends'[d] <= 1 + faults'
                        /\ (Undecided(d)' /\ (\A v \in Workers : ~Answered(v, d))') =>
                              sends'[d] <= faults'
        OBVIOUS
    <3>1. \A v \in Workers : ~Answered(v, d)  BY <1>0, <2>2 DEF InHand
    <3>2. CASE d = worker[w].hand.row /\ result = "ok"
        BY <2>1, <2>2, <2>3, <3>1, <3>2 DEF InHand, Columns
    <3>3. CASE ~(d = worker[w].hand.row /\ result = "ok")
      <4>1. sends'[d] = sends[d]  BY <2>1, <3>3 DEF Columns
      <4> QED  BY <2>2, <3>1, <4>1
    <3> QED  BY <3>2, <3>3
  <2> QED  BY <2>2, <2>4, <2>5
<1>8. ASSUME NEW w \in Workers, notifyAnswerLost(w) PROVE Alone' /\ Decided
  <2>1. UNCHANGED deliveryStatus /\ InHand(w, "read") /\ faults' = faults + 1
      BY <1>8 DEF notifyAnswerLost, rowVars
  <2>2. /\ worker[w].hand.row \in Deliveries
        /\ worker'[w].batch = worker[w].batch
        /\ worker'[w].hand = [stage |-> "notified", row |-> worker[w].hand.row,
                              attempts |-> worker[w].hand.attempts, result |-> "retryable"]
      BY <1>6, <1>8 DEF notifyAnswerLost, Results
  <2>3. HeldArePending'  BY <2>1, <2>2 DEF OneWorker, InHand
  <2>4. SendsAreFaults'
    <3> SUFFICES ASSUME NEW d \in Deliveries
                 PROVE  /\ sends'[d] <= 1 + faults'
                        /\ Undecided(d) => sends'[d] <= faults'
        BY <2>1
    <3>1. \A v \in Workers : ~Answered(v, d)  BY <1>0, <2>1 DEF InHand
    <3>2. sends'[d] <= sends[d] + 1  BY <1>8 DEF notifyAnswerLost, Columns
    <3>3. sends[d] \in Nat /\ sends'[d] \in Nat /\ faults \in Nat
        BY <1>8 DEF notifyAnswerLost, Columns
    <3> QED  BY <2>1, <3>1, <3>2, <3>3
  <2> QED  BY <2>1, <2>3, <2>4
<1>9. ASSUME NEW w \in Workers, recordResult(w) PROVE Alone' /\ Decided
  <2> DEFINE row == worker[w].hand.row
  <2>1. InHand(w, "notified") /\ row \in Deliveries /\ deliveryStatus[row] = "PENDING"
        /\ worker[w].hand.result \in Results /\ row \notin worker[w].batch
      BY <1>9, HandForms DEF recordResult, InHand, Columns
  <2>2. worker'[w].batch = worker[w].batch /\ worker'[w].hand = NoRow
      BY <1>9 DEF recordResult, PutDown, Columns
  <2>3. /\ deliveryStatus'[row] = OutcomeOf(worker[w].hand)
        /\ \A c \in Deliveries : c # row => deliveryStatus'[c] = deliveryStatus[c]
      BY <1>9, <2>1 DEF recordResult, Columns
  <2>4. UNCHANGED <<sends, faults>> /\ worker[w].batch \subseteq Deliveries
      BY <1>9 DEF recordResult, Columns
  <2>5. HeldArePending'  BY <2>1, <2>2, <2>3, <2>4, HandForms DEF OneWorker
  <2>6. SendsAreFaults'
    <3> SUFFICES ASSUME NEW d \in Deliveries
                 PROVE  Undecided(d)' => sends[d] <= faults
        BY <2>4
    <3>1. CASE d = row
      <4>1. deliveryStatus'[row] \in {"absent", "PENDING"} => worker[w].hand.result # "ok"
          BY <2>3 DEF OutcomeOf
      <4> QED  BY <1>0, <2>1, <3>1, <4>1
    <3>2. CASE d # row  BY <1>0, <2>3, <3>2
    <3> QED  BY <3>1, <3>2
  <2> QED  BY <2>1, <2>3, <2>5, <2>6
<1>10. ASSUME NEW w \in Workers, processingThrows(w) \/ crash(w) PROVE Alone' /\ Decided
  <2>1. UNCHANGED <<deliveryStatus, sends>> /\ faults' = faults + 1
      BY <1>10 DEF processingThrows, crash, rowVars
  <2>2. worker'[w].hand = NoRow /\ worker'[w].batch \subseteq worker[w].batch
      BY <1>10 DEF processingThrows, crash, PutDown, Columns
  <2>3. HeldArePending'  BY <2>1, <2>2, HandForms DEF OneWorker
  <2>4. SendsAreFaults'
    <3>1. \A d \in Deliveries : sends[d] \in Nat /\ faults \in Nat  BY DEF Columns
    <3>2. \A d \in Deliveries : sends'[d] <= faults'  BY <2>1, <3>1
    <3>3. \A d \in Deliveries : sends'[d] <= 1 + faults'  BY <2>1, <3>1, <3>2
    <3> QED  BY <3>2, <3>3
  <2> QED  BY <2>1, <2>3, <2>4
<1>11. CASE UNCHANGED deliveryVars  BY <1>11 DEF deliveryVars, rowVars
<1> QED
    BY <1>1, <1>2, <1>3, <1>4, <1>5, <1>7, <1>8, <1>9, <1>10, <1>11
    DEF DeliveryNext, WorkerStep, WorkerFault

\* With the types: what every step of a worker that is alone keeps.
Invariant == Columns /\ (OneWorker => Alone)

LEMMA InvariantHolds == DeliverySpec => []Invariant
<1>1. DeliveryInit => Invariant
  <2>1. DeliveryInit => Columns
      BY DeliveryAssumption, HandForms DEF DeliveryInit, Columns
  <2>2. DeliveryInit => Alone
      BY DeliveryAssumption, HandForms
      DEF DeliveryInit, Alone, HeldArePending, SendsAreFaults, Answered, Undecided
  <2> QED  BY <2>1, <2>2 DEF Invariant
<1>2. Invariant /\ [DeliveryNext]_deliveryVars => Invariant'
  <2>1. OneWorker' <=> OneWorker  BY DEF OneWorker
  <2> QED  BY <2>1, ColumnsStep, AloneStep DEF Invariant
<1> QED  BY <1>1, <1>2, PTL DEF DeliverySpec

\* With one worker process, every message a seller receives beyond the first is
\* explained by a crash, a failed write or a lost answer.
THEOREM ExtraSendsAreExplained == DeliverySpec => [](OneWorker => ExtraSendsAreFaults)
<1>1. Invariant => (OneWorker => ExtraSendsAreFaults)
    BY DEF Invariant, Alone, SendsAreFaults, ExtraSendsAreFaults
<1> QED  BY <1>1, InvariantHolds, PTL

\* With one worker process, a row that was decided is never decided again.
THEOREM DecisionsStand == ASSUME OneWorker PROVE DeliverySpec => DecidedIsFinal
<1>1. Invariant /\ [DeliveryNext]_deliveryVars =>
          [\A d \in Deliveries : deliveryStatus[d] \in Final => deliveryStatus'[d] = deliveryStatus[d]]_deliveryVars
    BY AloneStep DEF Invariant
<1> QED  BY <1>1, InvariantHolds, PTL DEF DeliverySpec, DecidedIsFinal
================================================================================
