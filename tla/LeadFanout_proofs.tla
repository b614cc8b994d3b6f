--------------------------- MODULE LeadFanout_proofs ---------------------------
(***************************************************************************)
(* Proofs about LeadFanout, for any number of requirements, sellers and      *)
(* workers, whatever throws, dies or is retried.                            *)
(*                                                                         *)
(* Claims says why two workers never share a requirement: only a PENDING row  *)
(* is claimed, and a row is PENDING again only when its worker lets it go.    *)
(* Tries says why no row is claimed more than MaxAttempts times, and Counted  *)
(* that the counter follows the leads wherever no recount interferes.        *)
(***************************************************************************)
EXTENDS LeadFanout, TLAPS, FiniteSetTheorems

Columns ==
    /\ fanout \in [Requirements -> {"absent", "PENDING", "RUNNING"} \cup Decided]
    /\ createdOn \in [Requirements -> Days]
    /\ attempts \in [Requirements -> Nat]
    /\ closed \subseteq Requirements
    /\ lead \in [Requirements -> [Sellers -> LeadRow \cup {NoLead}]]
    /\ received \in [Sellers -> Nat]
    /\ paidAfterClose \subseteq Requirements \X Sellers
    /\ worker \in [Workers -> Worker]
    /\ stats \in [StatsJobs -> Stats]
    /\ day \in Days
    /\ crashes \in 0 .. MaxCrashes /\ lostAcks \in 0 .. MaxLostAcks

Waiting(q) == fanout[q] \in {"absent", "PENDING"}

\* A worker alone has its requirement, which nobody can claim meanwhile.
Claims ==
    \A w \in Workers : worker[w].stage # "idle" =>
        /\ ~Waiting(worker[w].req)
        /\ \A v \in Workers :
              worker[v].stage # "idle" /\ worker[v].req = worker[w].req => v = w

\* A row that may be claimed has an attempt left.
Tries ==
    \A q \in Requirements :
        /\ attempts[q] <= MaxAttempts
        /\ Waiting(q) => attempts[q] < MaxAttempts

\* The leads the matcher wrote, and the counter that follows them.
InMarket(q, s) == lead[q][s] # NoLead /\ lead[q][s].slot \in Slots
NoneYet == \A q \in Requirements : fanout[q] = "absent" => \A s \in Sellers : ~InMarket(q, s)
Counted == StatsJobs = {} => ReceivedIsCounted

Invariant == Columns /\ Claims /\ Tries /\ NoneYet /\ Counted

-----------------------------------------------------------------------------
(* Workers and leads.                                                       *)

LEMMA WorkerForms ==
    /\ Idle \in Worker /\ Idle.stage = "idle"
    /\ \A q \in Requirements : \A s \in {"claimed", "open", "fresh", "skip", "failed"} :
          /\ Holding(s, q) \in Worker
          /\ Holding(s, q).stage = s /\ Holding(s, q).req = q
    /\ \A q \in Requirements : \A top \in SUBSET (Sellers \X Slots) :
          [stage |-> "matched", req |-> q, ranked |-> top] \in Worker
    /\ \A x \in Worker : x.stage # "idle" => x.req \in Requirements
    /\ \A x \in Worker : x.stage = "matched" => x.ranked \subseteq Sellers \X Slots
BY DEF Worker, Idle, Holding

\* A worker that goes on keeps its requirement, or lets it go.
LEMMA ClaimsKept ==
    ASSUME Columns, Claims, NEW w \in Workers, NEW next \in Worker,
           worker[w].stage # "idle", Goto(w, next),
           next.stage # "idle" => next.req = worker[w].req,
           \A q \in Requirements : q # worker[w].req => fanout'[q] = fanout[q],
           next.stage # "idle" => fanout'[worker[w].req] \notin {"absent", "PENDING"}
    PROVE  Claims'
<1>1. /\ worker'[w] = next
      /\ \A v \in Workers : v # w => worker'[v] = worker[v]
    BY DEF Goto, Columns
<1>2. \A v \in Workers : worker[v].stage # "idle" => worker[v].req \in Requirements
    BY WorkerForms DEF Columns
<1> SUFFICES ASSUME NEW v \in Workers, worker'[v].stage # "idle"
             PROVE  /\ fanout'[worker'[v].req] \notin {"absent", "PENDING"}
                    /\ \A u \in Workers :
                          worker'[u].stage # "idle" /\ worker'[u].req = worker'[v].req => u = v
    BY DEF Claims, Waiting
<1>3. CASE v = w
  <2>1. worker'[v].req = worker[w].req /\ next.stage # "idle"  BY <1>1, <1>3
  <2>2. \A u \in Workers : u # w /\ worker'[u].stage # "idle" => worker'[u].req # worker[w].req
      BY <1>1 DEF Claims
  <2> QED  BY <1>3, <2>1, <2>2 DEF Waiting
<1>4. CASE v # w
  <2>1. worker'[v] = worker[v] /\ worker[v].req # worker[w].req
      BY <1>1, <1>4 DEF Claims
  <2>2. fanout'[worker'[v].req] \notin {"absent", "PENDING"}
      BY <1>2, <1>4, <2>1 DEF Claims, Waiting
  <2>3. ASSUME NEW u \in Workers, worker'[u].stage # "idle", worker'[u].req = worker'[v].req
        PROVE  u = v
    <3>1. CASE u = w  BY <1>1, <2>1, <2>3, <3>1
    <3>2. CASE u # w  BY <1>1, <1>4, <2>1, <2>3, <3>2 DEF Claims
    <3> QED  BY <3>1, <3>2
  <2> QED  BY <2>2, <2>3
<1> QED  BY <1>3, <1>4

\* The counter stays right when no lead of the matcher comes or goes.
LEMMA CountedKept ==
    ASSUME Counted, received' = received,
           \A q \in Requirements : \A s \in Sellers : InMarket(q, s)' <=> InMarket(q, s)
    PROVE  Counted'
<1>1. ASSUME NEW s \in Sellers PROVE SentTo(s)' = SentTo(s)
    BY DEF SentTo, MarketLeads, Holds, InMarket
<1> QED  BY <1>1 DEF Counted, ReceivedIsCounted

\* The ranked sellers without a lead, and the lead each of them gets.
NewTo(q, ranked) == {d \in ranked : ~Holds(q, d[1])}
Gets(q, ranked, s) == \E d \in NewTo(q, ranked) : d[1] = s
RowFor(q, ranked, s) ==
    [slot |-> (CHOOSE d \in NewTo(q, ranked) : d[1] = s)[2], born |-> day, status |-> "OPEN"]

LEMMA RowForIsNew ==
    ASSUME Columns, NEW q \in Requirements, NEW ranked \in SUBSET (Sellers \X Slots),
           NEW s \in Sellers, Gets(q, ranked, s)
    PROVE  /\ RowFor(q, ranked, s) \in LeadRow /\ RowFor(q, ranked, s) # NoLead
           /\ RowFor(q, ranked, s).slot \in Slots
           /\ ~Holds(q, s)
<1> DEFINE d == CHOOSE e \in NewTo(q, ranked) : e[1] = s
<1>1. d \in NewTo(q, ranked) /\ d[1] = s  BY DEF Gets
<1>2. d[2] \in Slots /\ ~Holds(q, s)  BY <1>1 DEF NewTo
<1>3. RowFor(q, ranked, s) = [slot |-> d[2], born |-> day, status |-> "OPEN"]
    BY DEF RowFor
<1> HIDE DEF d
<1>4. RowFor(q, ranked, s) \in LeadRow /\ RowFor(q, ranked, s).slot \in Slots
    BY <1>2, <1>3 DEF LeadRow, Columns
<1> QED  BY <1>2, <1>4, NoLeadAssumption

\* The transaction of writeLeads: each new lead is counted once.
LEMMA WriteCounts ==
    ASSUME Columns, Counted, NEW q \in Requirements, NEW ranked \in SUBSET (Sellers \X Slots),
           WriteLeads(q, ranked)
    PROVE  /\ lead' \in [Requirements -> [Sellers -> LeadRow \cup {NoLead}]]
           /\ received' \in [Sellers -> Nat]
           /\ \A p \in Requirements : p # q =>
                 \A s \in Sellers : InMarket(p, s)' <=> InMarket(p, s)
           /\ Counted'
<1>1. /\ lead' = [lead EXCEPT ![q] = [s \in Sellers |->
             IF Gets(q, ranked, s) THEN RowFor(q, ranked, s) ELSE lead[q][s]]]
      /\ received' = [s \in Sellers |->
             IF Gets(q, ranked, s) THEN received[s] + 1 ELSE received[s]]
    BY DEF WriteLeads, Gets, RowFor, NewTo
<1>2. ASSUME NEW s \in Sellers, Gets(q, ranked, s)
      PROVE  /\ RowFor(q, ranked, s) \in LeadRow /\ RowFor(q, ranked, s) # NoLead
             /\ RowFor(q, ranked, s).slot \in Slots
             /\ ~Holds(q, s)
    BY <1>2, RowForIsNew
<1>3. \A s \in Sellers : lead'[q][s] = IF Gets(q, ranked, s) THEN RowFor(q, ranked, s) ELSE lead[q][s]
    BY <1>1 DEF Columns
<1>4. \A p \in Requirements : p # q => lead'[p] = lead[p]  BY <1>1 DEF Columns
<1>5. lead' \in [Requirements -> [Sellers -> LeadRow \cup {NoLead}]]
  <2>1. [s \in Sellers |-> IF Gets(q, ranked, s) THEN RowFor(q, ranked, s) ELSE lead[q][s]]
            \in [Sellers -> LeadRow \cup {NoLead}]
    <3> QED  BY <1>2 DEF Columns
  <2> QED  BY <1>1, <2>1 DEF Columns
<1>6. received' \in [Sellers -> Nat]  BY <1>1 DEF Columns
<1>7. \A p \in Requirements : p # q => \A s \in Sellers : InMarket(p, s)' <=> InMarket(p, s)
    BY <1>4 DEF InMarket
<1>8. \A s \in Sellers : InMarket(q, s)' <=> (Gets(q, ranked, s) \/ InMarket(q, s))
  <2> QED  BY <1>2, <1>3 DEF InMarket
<1>9. Counted'
  <2> SUFFICES ASSUME StatsJobs = {}, NEW s \in Sellers
               PROVE  received'[s] = Cardinality(SentTo(s)')
      BY DEF Counted, ReceivedIsCounted
  <2>1. received[s] = Cardinality(SentTo(s))  BY DEF Counted, ReceivedIsCounted
  <2>2. SentTo(s) = {p \in Requirements : InMarket(p, s)}
        /\ SentTo(s)' = {p \in Requirements : InMarket(p, s)'}
      BY DEF SentTo, MarketLeads, Holds, InMarket
  <2>3. IsFiniteSet(SentTo(s))  BY <2>2, FanoutAssumption, FS_Subset
  <2>4. CASE Gets(q, ranked, s)
    <3>1. q \notin SentTo(s)  BY <1>2, <2>2, <2>4 DEF InMarket, Holds
    <3>2. SentTo(s)' = SentTo(s) \cup {q}
      <4> QED  BY <1>7, <1>8, <2>2, <2>4
    <3>3. Cardinality(SentTo(s) \cup {q}) = Cardinality(SentTo(s)) + 1
        BY <2>3, <3>1, FS_AddElement
    <3>4. received'[s] = received[s] + 1  BY <1>1, <2>4
    <3> QED  BY <2>1, <3>2, <3>3, <3>4
  <2>5. CASE ~Gets(q, ranked, s)
    <3>1. SentTo(s)' = SentTo(s)
      <4> QED  BY <1>7, <1>8, <2>2, <2>5
    <3>2. received'[s] = received[s]  BY <1>1, <2>5
    <3> QED  BY <2>1, <3>1, <3>2
  <2> QED  BY <2>4, <2>5
<1> QED  BY <1>5, <1>6, <1>7, <1>9

-----------------------------------------------------------------------------
(* The request path.                                                        *)

LEMMA CreateStep ==
    ASSUME Invariant, NEW q \in Requirements, createRequirement(q) PROVE Invariant'
<1>1. /\ fanout[q] = "absent"
      /\ fanout' = [fanout EXCEPT ![q] = "PENDING"]
      /\ createdOn' = [createdOn EXCEPT ![q] = day]
      /\ lead' = [lead EXCEPT ![q] = [s \in Sellers |->
             IF s = DirectSeller[q]
             THEN [slot |-> "DIRECT", born |-> day, status |-> "OPEN"] ELSE NoLead]]
      /\ UNCHANGED <<attempts, closed, received, paidAfterClose, worker, stats, day, faultVars>>
    BY DEF createRequirement
<1>2. [slot |-> "DIRECT", born |-> day, status |-> "OPEN"] \in LeadRow
    BY DEF LeadRow, Invariant, Columns
<1>3. Columns'
  <2>1. [s \in Sellers |-> IF s = DirectSeller[q]
                           THEN [slot |-> "DIRECT", born |-> day, status |-> "OPEN"] ELSE NoLead]
            \in [Sellers -> LeadRow \cup {NoLead}]
      BY <1>2
  <2>2. lead' \in [Requirements -> [Sellers -> LeadRow \cup {NoLead}]]
      BY <1>1, <2>1 DEF Invariant, Columns
  <2> QED  BY <1>1, <2>2 DEF Invariant, Columns, faultVars
<1>4. \A p \in Requirements : Waiting(p)' <=> Waiting(p)
    BY <1>1 DEF Invariant, Columns, Waiting
<1>5. Claims'
  <2>1. \A w \in Workers : worker[w].stage # "idle" => worker[w].req \in Requirements
      BY WorkerForms DEF Invariant, Columns
  <2> QED  BY <1>1, <1>4, <2>1 DEF Invariant, Claims, Waiting
<1>6. Tries'  BY <1>1, <1>4 DEF Invariant, Tries
<1>7. \A p \in Requirements : \A s \in Sellers : InMarket(p, s)' <=> InMarket(p, s)
  <2>1. \A s \in Sellers : ~InMarket(q, s)  BY <1>1 DEF Invariant, NoneYet
  <2>2. \A s \in Sellers : lead'[q][s] = IF s = DirectSeller[q]
                THEN [slot |-> "DIRECT", born |-> day, status |-> "OPEN"] ELSE NoLead
      BY <1>1 DEF Invariant, Columns
  <2>3. \A s \in Sellers : ~InMarket(q, s)'  BY <2>2 DEF InMarket, Slots
  <2>4. \A p \in Requirements : p # q => lead'[p] = lead[p]
      BY <1>1 DEF Invariant, Columns
  <2> QED  BY <2>1, <2>3, <2>4 DEF InMarket
<1>8. NoneYet'
  <2>1. \A p \in Requirements : fanout'[p] = "absent" => fanout[p] = "absent"
      BY <1>1 DEF Invariant, Columns
  <2> QED  BY <1>7, <2>1 DEF Invariant, NoneYet
<1>9. Counted'  BY <1>1, <1>7, CountedKept DEF Invariant
<1> QED  BY <1>3, <1>5, <1>6, <1>8, <1>9 DEF Invariant

\* closeBuyerRequirement and acceptLead: leads change their status only.
LEMMA StatusStep ==
    ASSUME Invariant,
           UNCHANGED <<fanout, createdOn, attempts, received, worker, stats, day, faultVars>>,
           closed' \subseteq Requirements, paidAfterClose' \subseteq Requirements \X Sellers,
           lead' \in [Requirements -> [Sellers -> LeadRow \cup {NoLead}]],
           \A q \in Requirements : \A s \in Sellers :
              \/ lead'[q][s] = lead[q][s]
              \/ /\ lead[q][s] # NoLead /\ lead'[q][s] # NoLead
                 /\ lead'[q][s].slot = lead[q][s].slot
    PROVE  Invariant'
<1>1. \A q \in Requirements : \A s \in Sellers : InMarket(q, s)' <=> InMarket(q, s)
    BY DEF InMarket
<1>2. Columns'  BY DEF Invariant, Columns, faultVars
<1>3. Claims' /\ Tries'  BY DEF Invariant, Claims, Tries, Waiting
<1>4. NoneYet'  BY <1>1 DEF Invariant, NoneYet
<1>5. Counted'  BY <1>1, CountedKept DEF Invariant
<1> QED  BY <1>2, <1>3, <1>4, <1>5 DEF Invariant

LEMMA CloseStep ==
    ASSUME Invariant, NEW q \in Requirements, closeBuyerRequirement(q) PROVE Invariant'
<1> DEFINE Closed(s) == IF Holds(q, s) /\ lead[q][s].status = "OPEN"
                        THEN [lead[q][s] EXCEPT !.status = "CLOSED"] ELSE lead[q][s]
<1>1. /\ closed' = closed \cup {q}
      /\ lead' = [lead EXCEPT ![q] = [s \in Sellers |-> Closed(s)]]
      /\ UNCHANGED <<fanout, createdOn, attempts, received, paidAfterClose,
                     worker, stats, day, faultVars>>
    BY DEF closeBuyerRequirement
<1>2. ASSUME NEW s \in Sellers
      PROVE  /\ Closed(s) \in LeadRow \cup {NoLead}
             /\ Closed(s) = lead[q][s] \/ (/\ lead[q][s] # NoLead /\ Closed(s) # NoLead
                                           /\ Closed(s).slot = lead[q][s].slot)
  <2>1. lead[q][s] \in LeadRow \cup {NoLead}  BY DEF Invariant, Columns
  <2>2. CASE Holds(q, s) /\ lead[q][s].status = "OPEN"
    <3>1. lead[q][s] \in LeadRow  BY <2>1, <2>2 DEF Holds
    <3>2. [lead[q][s] EXCEPT !.status = "CLOSED"] \in LeadRow
          /\ [lead[q][s] EXCEPT !.status = "CLOSED"].slot = lead[q][s].slot
        BY <3>1 DEF LeadRow
    <3> QED  BY <2>2, <3>2, NoLeadAssumption DEF Holds
  <2>3. CASE ~(Holds(q, s) /\ lead[q][s].status = "OPEN")  BY <2>1, <2>3
  <2> QED  BY <2>2, <2>3
<1> HIDE DEF Closed
<1>3. /\ \A p \in Requirements : p # q => lead'[p] = lead[p]
      /\ \A s \in Sellers : lead'[q][s] = Closed(s)
    BY <1>1 DEF Invariant, Columns
<1>4. lead' \in [Requirements -> [Sellers -> LeadRow \cup {NoLead}]]
  <2>1. [s \in Sellers |-> Closed(s)] \in [Sellers -> LeadRow \cup {NoLead}]  BY <1>2
  <2> QED  BY <1>1, <2>1 DEF Invariant, Columns
<1>5. closed' \subseteq Requirements /\ paidAfterClose' \subseteq Requirements \X Sellers
    BY <1>1 DEF Invariant, Columns
<1>6. \A p \in Requirements : \A s \in Sellers :
          \/ lead'[p][s] = lead[p][s]
          \/ /\ lead[p][s] # NoLead /\ lead'[p][s] # NoLead
             /\ lead'[p][s].slot = lead[p][s].slot
    BY <1>2, <1>3
<1> QED  BY <1>1, <1>4, <1>5, <1>6, StatusStep

LEMMA AcceptStep ==
    ASSUME Invariant, NEW q \in Requirements, NEW s \in Sellers, acceptLead(q, s)
    PROVE  Invariant'
<1>1. /\ Holds(q, s)
      /\ lead' = [lead EXCEPT ![q][s].status = "ACCEPTED"]
      /\ UNCHANGED <<reqVars, received, worker, stats, day, faultVars>>
      /\ paidAfterClose' \subseteq paidAfterClose \cup {<<q, s>>}
    BY DEF acceptLead, MarketLeads
<1> DEFINE row == [lead[q][s] EXCEPT !.status = "ACCEPTED"]
<1>2. row \in LeadRow /\ row.slot = lead[q][s].slot /\ lead[q][s] # NoLead
  <2>1. lead[q][s] \in LeadRow  BY <1>1 DEF Invariant, Columns, Holds
  <2> QED  BY <2>1, NoLeadAssumption DEF LeadRow
<1>3. lead' = [lead EXCEPT ![q] = [lead[q] EXCEPT ![s] = row]]
    BY <1>1 DEF Invariant, Columns
<1> HIDE DEF row
<1>4. /\ lead' \in [Requirements -> [Sellers -> LeadRow \cup {NoLead}]]
      /\ \A p \in Requirements : p # q => lead'[p] = lead[p]
      /\ \A t \in Sellers : lead'[q][t] = IF t = s THEN row ELSE lead[q][t]
    BY <1>2, <1>3 DEF Invariant, Columns
<1>5. \A p \in Requirements : \A t \in Sellers :
          \/ lead'[p][t] = lead[p][t]
          \/ /\ lead[p][t] # NoLead /\ lead'[p][t] # NoLead
             /\ lead'[p][t].slot = lead[p][t].slot
    BY <1>2, <1>4, NoLeadAssumption
<1>6. closed' \subseteq Requirements /\ paidAfterClose' \subseteq Requirements \X Sellers
    BY <1>1 DEF Invariant, Columns, reqVars
<1> QED  BY <1>1, <1>4, <1>5, <1>6, StatusStep DEF reqVars

-----------------------------------------------------------------------------
(* The worker.                                                              *)

\* What a worker does to itself alone: it goes on with its requirement, or it
\* forgets it.
LEMMA WorkerAloneStep ==
    ASSUME Invariant, NEW w \in Workers, NEW next \in Worker,
           worker[w].stage # "idle", Goto(w, next),
           next.stage # "idle" => next.req = worker[w].req,
           UNCHANGED <<reqVars, leadVars, stats, day, lostAcks>>,
           crashes' \in 0 .. MaxCrashes
    PROVE  Invariant'
<1>1. worker' \in [Workers -> Worker]  BY DEF Goto, Invariant, Columns
<1>2. Columns'  BY <1>1 DEF Invariant, Columns, reqVars, leadVars
<1>3. Claims'
  <2>1. fanout[worker[w].req] \notin {"absent", "PENDING"}
      BY DEF Invariant, Claims, Waiting
  <2> QED  BY <2>1, ClaimsKept DEF Invariant, reqVars
<1>4. Tries' /\ NoneYet'
    BY DEF Invariant, Tries, NoneYet, Waiting, InMarket, reqVars, leadVars
<1>5. Counted'
  <2>1. \A q \in Requirements : \A s \in Sellers : InMarket(q, s)' <=> InMarket(q, s)
      BY DEF InMarket, leadVars
  <2> QED  BY <2>1, CountedKept DEF Invariant, leadVars
<1> QED  BY <1>2, <1>3, <1>4, <1>5 DEF Invariant

LEMMA ReadSteps ==
    ASSUME Invariant, NEW w \in Workers,
           \/ readRequirement(w) \/ findDuplicate(w) \/ findMatchedSellers(w)
           \/ throw(w) \/ crash(w)
    PROVE  Invariant'
<1> DEFINE q == worker[w].req
<1>1. worker[w].stage # "idle" /\ q \in Requirements
  <2>1. worker[w].stage # "idle"
      BY DEF readRequirement, findDuplicate, findMatchedSellers, throw, crash, At
  <2> QED  BY <2>1, WorkerForms DEF Invariant, Columns
<1>2. crashes \in 0 .. MaxCrashes /\ MaxCrashes \in Nat
    BY FanoutAssumption DEF Invariant, Columns
<1>3. CASE readRequirement(w)
  <2>1. PICK s \in {"skip", "open"} : Goto(w, Holding(s, q))
      BY <1>3 DEF readRequirement
  <2>2. Holding(s, q) \in Worker /\ Holding(s, q).req = q  BY <1>1, WorkerForms
  <2> QED  BY <1>1, <1>2, <1>3, <2>1, <2>2, WorkerAloneStep DEF readRequirement, faultVars
<1>4. CASE findDuplicate(w)
  <2>1. PICK s \in {"skip", "fresh"} : Goto(w, Holding(s, q))
      BY <1>4 DEF findDuplicate
  <2>2. Holding(s, q) \in Worker /\ Holding(s, q).req = q  BY <1>1, WorkerForms
  <2> QED  BY <1>1, <1>2, <1>4, <2>1, <2>2, WorkerAloneStep DEF findDuplicate, faultVars
<1>5. CASE findMatchedSellers(w)
  <2>1. PICK top \in Rankings(q) :
            Goto(w, IF top = {} THEN Holding("skip", q)
                    ELSE [stage |-> "matched", req |-> q, ranked |-> top])
      BY <1>5 DEF findMatchedSellers
  <2>2. top \subseteq Sellers \X Slots
      BY <1>1, FanoutAssumption DEF Rankings, Eligible
  <2>3. PICK next \in Worker : Goto(w, next) /\ next.req = q
    <3>1. CASE top = {}  BY <1>1, <2>1, <3>1, WorkerForms
    <3>2. CASE top # {}
      <4>1. [stage |-> "matched", req |-> q, ranked |-> top] \in Worker
          BY <1>1, <2>2, WorkerForms
      <4> QED  BY <2>1, <3>2, <4>1
    <3> QED  BY <3>1, <3>2
  <2> QED  BY <1>1, <1>2, <1>5, <2>3, WorkerAloneStep DEF findMatchedSellers, faultVars
<1>6. CASE throw(w)
  <2>1. Holding("failed", q) \in Worker /\ Holding("failed", q).req = q
      BY <1>1, WorkerForms
  <2> QED  BY <1>1, <1>2, <1>6, <2>1, WorkerAloneStep DEF throw, faultVars
<1>7. CASE crash(w)
  <2>1. crashes' \in 0 .. MaxCrashes  BY <1>2, <1>7 DEF crash
  <2> QED  BY <1>1, <1>7, <2>1, WorkerForms, WorkerAloneStep DEF crash
<1> QED  BY <1>3, <1>4, <1>5, <1>6, <1>7

\* The claim takes a row that nobody has, since it is PENDING.
LEMMA ClaimStep ==
    ASSUME Invariant, NEW w \in Workers, claimNextRequirement(w) PROVE Invariant'
<1>1. PICK q \in Requirements :
          /\ fanout[q] = "PENDING"
          /\ fanout' = [fanout EXCEPT ![q] = "RUNNING"]
          /\ attempts' = [attempts EXCEPT ![q] = @ + 1]
          /\ Goto(w, Holding("claimed", q))
    BY DEF claimNextRequirement
<1>2. UNCHANGED <<createdOn, closed, leadVars, stats, day, faultVars>>
    BY DEF claimNextRequirement
<1>3. Holding("claimed", q) \in Worker /\ Holding("claimed", q).req = q  BY WorkerForms
<1>4. /\ worker' \in [Workers -> Worker]
      /\ worker'[w].req = q
      /\ \A v \in Workers : v # w => worker'[v] = worker[v]
    BY <1>1, <1>3 DEF Goto, Invariant, Columns
<1>5. /\ fanout'[q] = "RUNNING" /\ attempts'[q] = attempts[q] + 1
      /\ \A p \in Requirements : p # q => fanout'[p] = fanout[p] /\ attempts'[p] = attempts[p]
    BY <1>1 DEF Invariant, Columns
<1>6. Columns'
  <2>1. attempts' \in [Requirements -> Nat]  BY <1>1 DEF Invariant, Columns
  <2>2. fanout' \in [Requirements -> {"absent", "PENDING", "RUNNING"} \cup Decided]
      BY <1>1 DEF Invariant, Columns
  <2> QED  BY <1>2, <1>4, <2>1, <2>2 DEF Invariant, Columns, leadVars, faultVars
<1>7. Claims'
  <2>1. \A v \in Workers : worker[v].stage # "idle" =>
            worker[v].req # q /\ worker[v].req \in Requirements
      BY <1>1, WorkerForms DEF Invariant, Columns, Claims, Waiting
  <2> SUFFICES ASSUME NEW v \in Workers, worker'[v].stage # "idle"
               PROVE  /\ fanout'[worker'[v].req] \notin {"absent", "PENDING"}
                      /\ \A u \in Workers :
                            worker'[u].stage # "idle" /\ worker'[u].req = worker'[v].req => u = v
      BY DEF Claims, Waiting
  <2>2. CASE v = w  BY <1>4, <1>5, <2>1, <2>2
  <2>3. CASE v # w
    <3>1. worker'[v] = worker[v] /\ worker[v].req # q /\ worker[v].req \in Requirements
        BY <1>4, <2>1, <2>3
    <3>2. fanout'[worker'[v].req] \notin {"absent", "PENDING"}
        BY <1>5, <3>1 DEF Invariant, Claims, Waiting
    <3>3. ASSUME NEW u \in Workers, worker'[u].stage # "idle", worker'[u].req = worker'[v].req
          PROVE  u = v
      <4>1. CASE u = w  BY <1>4, <3>1, <3>3, <4>1
      <4>2. CASE u # w  BY <1>4, <3>1, <3>3, <4>2 DEF Invariant, Claims
      <4> QED  BY <4>1, <4>2
    <3> QED  BY <3>2, <3>3
  <2> QED  BY <2>2, <2>3
<1>8. Tries'
  <2>1. attempts[q] < MaxAttempts /\ attempts[q] \in Nat /\ MaxAttempts \in Nat
      BY <1>1, FanoutAssumption DEF Invariant, Columns, Tries, Waiting
  <2> QED  BY <1>5, <2>1 DEF Invariant, Tries, Waiting
<1>9. NoneYet'  BY <1>2, <1>5 DEF Invariant, NoneYet, InMarket, leadVars
<1>10. Counted'
  <2>1. \A p \in Requirements : \A s \in Sellers : InMarket(p, s)' <=> InMarket(p, s)
      BY <1>2 DEF InMarket, leadVars
  <2> QED  BY <1>2, <2>1, CountedKept DEF Invariant, leadVars
<1> QED  BY <1>6, <1>7, <1>8, <1>9, <1>10 DEF Invariant

\* markFanout and failRequirement: the worker lets its row go.
LEMMA LetGoStep ==
    ASSUME Invariant, NEW w \in Workers, markFanout(w) \/ failRequirement(w)
    PROVE  Invariant'
<1> DEFINE q == worker[w].req
<1>1. worker[w].stage # "idle" /\ q \in Requirements
  <2>1. worker[w].stage # "idle"  BY DEF markFanout, failRequirement, At
  <2> QED  BY <2>1, WorkerForms DEF Invariant, Columns
<1>2. PICK s \in {"SKIPPED", "FAILED", "PENDING"} :
          /\ fanout' = [fanout EXCEPT ![q] = s]
          /\ s = "PENDING" => ~(attempts[q] >= MaxAttempts)
    BY DEF markFanout, failRequirement
<1>3. Goto(w, Idle) /\ UNCHANGED <<createdOn, attempts, closed, leadVars, stats, day, faultVars>>
    BY DEF markFanout, failRequirement
<1>4. fanout'[q] = s /\ \A p \in Requirements : p # q => fanout'[p] = fanout[p]
    BY <1>1, <1>2 DEF Invariant, Columns
<1>5. Columns'
  <2>1. worker' \in [Workers -> Worker]
      BY <1>3, WorkerForms DEF Goto, Invariant, Columns
  <2>2. fanout' \in [Requirements -> {"absent", "PENDING", "RUNNING"} \cup Decided]
      BY <1>1, <1>2 DEF Invariant, Columns, Decided
  <2> QED  BY <1>3, <2>1, <2>2 DEF Invariant, Columns, leadVars, faultVars
<1>6. Claims'  BY <1>1, <1>3, <1>4, WorkerForms, ClaimsKept DEF Invariant
<1>7. Tries'
  <2>1. attempts[q] \in Nat /\ MaxAttempts \in Nat
      BY <1>1, FanoutAssumption DEF Invariant, Columns
  <2> HIDE DEF q
  <2> QED  BY <1>2, <1>3, <1>4, <2>1 DEF Invariant, Tries, Waiting
<1>8. NoneYet'
  <2>1. \A p \in Requirements : fanout'[p] = "absent" => fanout[p] = "absent"
      BY <1>2, <1>4
  <2> QED  BY <1>3, <2>1 DEF Invariant, NoneYet, InMarket, leadVars
<1>9. Counted'
  <2>1. \A p \in Requirements : \A t \in Sellers : InMarket(p, t)' <=> InMarket(p, t)
      BY <1>3 DEF InMarket, leadVars
  <2> QED  BY <1>3, <2>1, CountedKept DEF Invariant, leadVars
<1> QED  BY <1>5, <1>6, <1>7, <1>8, <1>9 DEF Invariant

\* writeLeads, and loseAck after which the worker holds a row that is DONE.
LEMMA WriteStep ==
    ASSUME Invariant, NEW w \in Workers, writeLeads(w) \/ loseAck(w) PROVE Invariant'
<1> DEFINE q == worker[w].req
           ranked == worker[w].ranked
<1>1. worker[w].stage = "matched" /\ q \in Requirements /\ ranked \in SUBSET (Sellers \X Slots)
  <2>1. worker[w].stage = "matched"  BY DEF writeLeads, loseAck, At
  <2> QED  BY <2>1, WorkerForms DEF Invariant, Columns
<1>2. /\ WriteLeads(q, ranked)
      /\ UNCHANGED <<createdOn, attempts, closed, paidAfterClose, stats, day, crashes>>
    BY DEF writeLeads, loseAck, faultVars
<1>3. PICK next \in Worker :
          Goto(w, next) /\ (next.stage # "idle" => next.req = q)
    BY <1>1, WorkerForms DEF writeLeads, loseAck
<1>4. lostAcks' \in 0 .. MaxLostAcks
    BY FanoutAssumption DEF writeLeads, loseAck, faultVars, Invariant, Columns
<1> HIDE DEF ranked
<1>5. /\ lead' \in [Requirements -> [Sellers -> LeadRow \cup {NoLead}]]
      /\ received' \in [Sellers -> Nat]
      /\ \A p \in Requirements : p # q =>
            \A s \in Sellers : InMarket(p, s)' <=> InMarket(p, s)
      /\ Counted'
    BY <1>1, <1>2, WriteCounts DEF Invariant
<1>6. /\ fanout' = [fanout EXCEPT ![q] = "DONE"]
      /\ fanout'[q] = "DONE" /\ \A p \in Requirements : p # q => fanout'[p] = fanout[p]
    BY <1>1, <1>2 DEF WriteLeads, Invariant, Columns
<1>7. Columns'
  <2>1. worker' \in [Workers -> Worker]  BY <1>3 DEF Goto, Invariant, Columns
  <2>2. fanout' \in [Requirements -> {"absent", "PENDING", "RUNNING"} \cup Decided]
      BY <1>1, <1>6 DEF Invariant, Columns, Decided
  <2> QED  BY <1>2, <1>4, <1>5, <2>1, <2>2 DEF Invariant, Columns
<1>8. Claims'  BY <1>1, <1>3, <1>6, ClaimsKept DEF Invariant
<1>9. Tries'
  <2> HIDE DEF q
  <2> QED  BY <1>2, <1>6 DEF Invariant, Tries, Waiting
<1>10. NoneYet'
  <2> HIDE DEF q
  <2> QED  BY <1>5, <1>6 DEF Invariant, NoneYet
<1> QED  BY <1>5, <1>7, <1>8, <1>9, <1>10 DEF Invariant

-----------------------------------------------------------------------------
(* The recount, and the calendar.                                           *)

LEMMA StatsSteps ==
    ASSUME Invariant, NEW j \in StatsJobs, statsRead(j) \/ statsWrite(j) PROVE Invariant'
<1>1. UNCHANGED <<reqVars, lead, paidAfterClose, worker, day, faultVars>>
    BY DEF statsRead, statsWrite, leadVars
<1>2. \A s \in Sellers : Cardinality(SentTo(s)) \in Nat
  <2>1. \A s \in Sellers : IsFiniteSet(SentTo(s))
      BY FanoutAssumption, FS_Subset DEF SentTo
  <2> QED  BY <2>1, FS_CardinalityType
<1>3. received' \in [Sellers -> Nat] /\ stats' \in [StatsJobs -> Stats]
  <2>1. CASE statsRead(j)
    <3>1. [op |-> "counted", count |-> [s \in Sellers |-> Cardinality(SentTo(s))],
           due |-> {s \in Sellers : SentTo(s) # {}}] \in Stats
        BY <1>2 DEF Stats
    <3> HIDE DEF Stats
    <3> QED  BY <2>1, <3>1 DEF statsRead, leadVars, Invariant, Columns
  <2>2. CASE statsWrite(j)
    <3>1. PICK s \in stats[j].due :
              /\ received' = [received EXCEPT ![s] = stats[j].count[s]]
              /\ stats' = [stats EXCEPT ![j].due = @ \ {s}]
        BY <2>2 DEF statsWrite
    <3>2. stats[j] \in [op : {"counted"}, count : [Sellers -> Nat], due : SUBSET Sellers]
        BY <2>2 DEF statsWrite, Stats, Invariant, Columns
    <3>3. received' \in [Sellers -> Nat]  BY <3>1, <3>2 DEF Invariant, Columns
    <3>4. [stats[j] EXCEPT !.due = @ \ {s}] \in Stats  BY <3>2 DEF Stats
    <3>5. stats' = [stats EXCEPT ![j] = [stats[j] EXCEPT !.due = @ \ {s}]]
        BY <3>1 DEF Invariant, Columns
    <3> QED  BY <3>3, <3>4, <3>5 DEF Invariant, Columns
  <2> QED  BY <2>1, <2>2
<1>4. Columns'  BY <1>1, <1>3 DEF Invariant, Columns, reqVars, faultVars
<1>5. Claims' /\ Tries' /\ NoneYet'
    BY <1>1 DEF Invariant, Claims, Tries, NoneYet, Waiting, InMarket, reqVars
<1>6. Counted'  BY DEF Counted
<1> QED  BY <1>4, <1>5, <1>6 DEF Invariant

LEMMA DayStep ==
    ASSUME Invariant, NextDay PROVE Invariant'
<1>1. day' \in Days  BY FanoutAssumption DEF NextDay, Invariant, Columns, Days
<1>2. UNCHANGED <<reqVars, leadVars, worker, stats, faultVars>>  BY DEF NextDay
<1>3. Columns'  BY <1>1, <1>2 DEF Invariant, Columns, reqVars, leadVars, faultVars
<1>4. Claims' /\ Tries' /\ NoneYet'
    BY <1>2 DEF Invariant, Claims, Tries, NoneYet, Waiting, InMarket, reqVars, leadVars
<1>5. Counted'
  <2>1. \A q \in Requirements : \A s \in Sellers : InMarket(q, s)' <=> InMarket(q, s)
      BY <1>2 DEF InMarket, leadVars
  <2> QED  BY <1>2, <2>1, CountedKept DEF Invariant, leadVars
<1> QED  BY <1>3, <1>4, <1>5 DEF Invariant

-----------------------------------------------------------------------------
(* The theorems.                                                            *)

LEMMA Inductive == Spec => []Invariant
<1>1. Init => Invariant
  <2> SUFFICES ASSUME Init PROVE Invariant  OBVIOUS
  <2> USE DEF Init
  <2>1. Columns
    <3>1. [op |-> "idle"] \in Stats  BY DEF Stats
    <3> QED  BY <3>1, FanoutAssumption, WorkerForms DEF Columns, Days
  <2>2. Claims  BY WorkerForms DEF Claims
  <2>3. Tries  BY FanoutAssumption DEF Tries, Waiting
  <2>4. \A q \in Requirements : \A s \in Sellers : ~InMarket(q, s)  BY DEF InMarket
  <2>5. Counted
    <3>1. \A s \in Sellers : SentTo(s) = {}
        BY DEF SentTo, MarketLeads, Holds
    <3> QED  BY <3>1, FS_EmptySet DEF Counted, ReceivedIsCounted
  <2> QED  BY <2>1, <2>2, <2>3, <2>4, <2>5 DEF Invariant, NoneYet
<1>2. Invariant /\ [Next]_vars => Invariant'
  <2> SUFFICES ASSUME Invariant, [Next]_vars PROVE Invariant'  OBVIOUS
  <2>1. CASE UNCHANGED vars
    <3>1. Columns' /\ Claims' /\ Tries' /\ NoneYet'
        BY <2>1 DEF vars, reqVars, leadVars, faultVars, Invariant, Columns, Claims, Tries,
                    NoneYet, Waiting, InMarket
    <3>2. \A q \in Requirements : \A s \in Sellers : InMarket(q, s)' <=> InMarket(q, s)
        BY <2>1 DEF vars, leadVars, InMarket
    <3>3. Counted'  BY <2>1, <3>2, CountedKept DEF vars, leadVars, Invariant
    <3> QED  BY <3>1, <3>3 DEF Invariant
  <2>2. CASE Next
    <3>1. CASE NextDay  BY <3>1, DayStep
    <3>2. CASE \E q \in Requirements : createRequirement(q) \/ closeBuyerRequirement(q)
        BY <3>2, CreateStep, CloseStep
    <3>3. CASE \E q \in Requirements, s \in Sellers : acceptLead(q, s)
        BY <3>3, AcceptStep
    <3>4. CASE \E j \in StatsJobs : statsRead(j) \/ statsWrite(j)
        BY <3>4, StatsSteps
    <3>5. ASSUME NEW w \in Workers, WorkerStep(w) \/ WorkerFault(w) PROVE Invariant'
        BY <3>5, ReadSteps, ClaimStep, LetGoStep, WriteStep DEF WorkerStep, WorkerFault
    <3> QED  BY <2>2, <3>1, <3>2, <3>3, <3>4, <3>5 DEF Next
  <2> QED  BY <2>1, <2>2
<1> QED  BY <1>1, <1>2, PTL DEF Spec

\* The columns' types; fanoutAttempts never passes its limit, whatever throws and
\* however many workers there are.
THEOREM FanoutTypes == Spec => []TypeOK
<1>1. Invariant => TypeOK
  <2> SUFFICES ASSUME Invariant PROVE TypeOK  OBVIOUS
  <2>1. attempts \in [Requirements -> 0 .. MaxAttempts]
      BY FanoutAssumption DEF Invariant, Columns, Tries
  <2> QED  BY <2>1 DEF Invariant, Columns, TypeOK
<1> QED  BY <1>1, Inductive, PTL

\* Several processes run side by side and never work on the same requirement,
\* whatever throws and whatever is retried.
THEOREM NeverShared == Spec => []OneWorkerPerRequirement
<1>1. Invariant => OneWorkerPerRequirement
    BY DEF Invariant, Claims, OneWorkerPerRequirement, At
<1> QED  BY <1>1, Inductive, PTL

\* Where no recount runs, leadsReceived counts a seller's MARKET leads exactly,
\* also when a requirement is fanned out a second time.
THEOREM ReceivedFollows == Spec => [](StatsJobs = {} => ReceivedIsCounted)
<1>1. Invariant => (StatsJobs = {} => ReceivedIsCounted)  BY DEF Invariant, Counted
<1> QED  BY <1>1, Inductive, PTL
-----------------------------------------------------------------------------
(* With one worker process: what the matcher saw still holds when its leads   *)
(* are written.                                                             *)

OneWorker == \A w, v \in Workers : w = v

\* No step but the matcher's transaction touches what a MARKET lead counts for.
MarketKept ==
    \A q \in Requirements, s \in Sellers :
        /\ InMarket(q, s)' <=> InMarket(q, s)
        /\ InMarket(q, s) => /\ lead'[q][s].slot = lead[q][s].slot
                             /\ lead'[q][s].born = lead[q][s].born

LEMMA RequestKeepsMarket ==
    ASSUME Invariant, NEW q \in Requirements,
           \/ createRequirement(q) \/ closeBuyerRequirement(q)
           \/ \E s \in Sellers : acceptLead(q, s)
    PROVE  MarketKept
<1>1. \A p \in Requirements : p # q => lead'[p] = lead[p]
  <2>1. lead \in [Requirements -> [Sellers -> LeadRow \cup {NoLead}]]  BY DEF Invariant, Columns
  <2> QED  BY <2>1 DEF createRequirement, closeBuyerRequirement, acceptLead
<1> SUFFICES ASSUME NEW s \in Sellers
             PROVE  /\ InMarket(q, s)' <=> InMarket(q, s)
                    /\ InMarket(q, s) => /\ lead'[q][s].slot = lead[q][s].slot
                                         /\ lead'[q][s].born = lead[q][s].born
    BY <1>1 DEF MarketKept, InMarket
<1>2. lead[q][s] \in LeadRow \cup {NoLead} /\ lead[q] \in [Sellers -> LeadRow \cup {NoLead}]
    BY DEF Invariant, Columns
<1>3. \A x \in LeadRow : \A status \in {"ACCEPTED", "CLOSED"} :
          /\ [x EXCEPT !.status = status] \in LeadRow
          /\ [x EXCEPT !.status = status].slot = x.slot
          /\ [x EXCEPT !.status = status].born = x.born
    BY DEF LeadRow
<1>4. CASE createRequirement(q)
  <2>1. ~InMarket(q, s)  BY <1>4 DEF createRequirement, Invariant, NoneYet
  <2>2. lead'[q][s] = IF s = DirectSeller[q]
                      THEN [slot |-> "DIRECT", born |-> day, status |-> "OPEN"] ELSE NoLead
      BY <1>4 DEF createRequirement, Invariant, Columns
  <2> QED  BY <2>1, <2>2 DEF InMarket, Slots
<1>5. CASE closeBuyerRequirement(q)
  <2>1. lead'[q][s] = IF Holds(q, s) /\ lead[q][s].status = "OPEN"
                      THEN [lead[q][s] EXCEPT !.status = "CLOSED"] ELSE lead[q][s]
      BY <1>5 DEF closeBuyerRequirement, Invariant, Columns
  <2> QED  BY <1>2, <1>3, <2>1, NoLeadAssumption DEF InMarket, Holds
<1>6. ASSUME NEW t \in Sellers, acceptLead(q, t)
      PROVE  \/ lead'[q][s] = lead[q][s]
             \/ lead[q][s] # NoLead /\ lead'[q][s] = [lead[q][s] EXCEPT !.status = "ACCEPTED"]
  <2>1. lead[q][t] # NoLead  BY <1>6 DEF acceptLead, MarketLeads, Holds
  <2>2. lead'[q] = [lead[q] EXCEPT ![t] = [lead[q][t] EXCEPT !.status = "ACCEPTED"]]
      BY <1>6 DEF acceptLead, Invariant, Columns
  <2> QED  BY <1>2, <2>1, <2>2
<1>7. CASE \E t \in Sellers : acceptLead(q, t)
    BY <1>2, <1>3, <1>6, <1>7, NoLeadAssumption DEF InMarket
<1> QED  BY <1>4, <1>5, <1>7

\* A transaction of writeLeads adds rows of today in the slots that were ranked.
LEMMA WrittenRows ==
    ASSUME Columns, NEW q \in Requirements, NEW ranked \in SUBSET (Sellers \X Slots),
           WriteLeads(q, ranked)
    PROVE  /\ \A p \in Requirements : p # q => lead'[p] = lead[p]
           /\ \A s \in Sellers : ~Gets(q, ranked, s) => lead'[q][s] = lead[q][s]
           /\ \A s \in Sellers : Gets(q, ranked, s) =>
                 /\ ~InMarket(q, s) /\ InMarket(q, s)'
                 /\ lead'[q][s].born = day
                 /\ <<s, lead'[q][s].slot>> \in ranked
<1>1. lead' = [lead EXCEPT ![q] = [s \in Sellers |->
             IF Gets(q, ranked, s) THEN RowFor(q, ranked, s) ELSE lead[q][s]]]
    BY DEF WriteLeads, Gets, RowFor, NewTo
<1>2. \A s \in Sellers : lead'[q][s] = IF Gets(q, ranked, s) THEN RowFor(q, ranked, s) ELSE lead[q][s]
    BY <1>1 DEF Columns
<1>3. ASSUME NEW s \in Sellers, Gets(q, ranked, s)
      PROVE  RowFor(q, ranked, s).born = day /\ <<s, RowFor(q, ranked, s).slot>> \in ranked
  <2> DEFINE d == CHOOSE e \in NewTo(q, ranked) : e[1] = s
  <2>1. d \in NewTo(q, ranked) /\ d[1] = s  BY <1>3 DEF Gets
  <2>2. d \in ranked /\ d \in Sellers \X Slots  BY <2>1 DEF NewTo
  <2>3. RowFor(q, ranked, s) = [slot |-> d[2], born |-> day, status |-> "OPEN"]
      BY DEF RowFor
  <2> HIDE DEF d
  <2>4. d = <<s, d[2]>>  BY <2>1, <2>2
  <2> QED  BY <2>2, <2>3, <2>4
<1>4. \A s \in Sellers : Gets(q, ranked, s) => ~InMarket(q, s) /\ InMarket(q, s)'
  <2> SUFFICES ASSUME NEW s \in Sellers, Gets(q, ranked, s)
               PROVE  ~InMarket(q, s) /\ InMarket(q, s)'
      OBVIOUS
  <2>1. ~Holds(q, s) /\ RowFor(q, ranked, s) # NoLead /\ RowFor(q, ranked, s).slot \in Slots
      BY RowForIsNew
  <2> QED  BY <1>2, <2>1 DEF InMarket, Holds
<1>5. \A p \in Requirements : p # q => lead'[p] = lead[p]  BY <1>1 DEF Columns
<1> QED  BY <1>2, <1>3, <1>4, <1>5
-----------------------------------------------------------------------------
(* Duplicates.                                                              *)

\* As long as no acknowledgement is lost, who was matched is DONE, and stays so.
Reached(q) == \E s \in Sellers : InMarket(q, s)
Marked ==
    lostAcks = 0 =>
        /\ \A q \in Requirements : Reached(q) => fanout[q] = "DONE"
        /\ \A w \in Workers : worker[w].stage # "idle" => fanout[worker[w].req] = "RUNNING"

\* What findDuplicate did not find is still not there.
StillNew ==
    \A w \in Workers :
        worker[w].stage \in {"fresh", "matched"} => Duplicates(worker[w].req) = {}
Apart == OneWorker /\ DedupeDays > 0 /\ lostAcks = 0 => DuplicatesAreSkipped /\ StillNew

LEMMA ReachedKept ==
    ASSUME MarketKept PROVE \A q \in Requirements : Reached(q)' <=> Reached(q)
BY DEF MarketKept, Reached

LEMMA RequestSteps ==
    ASSUME Invariant, Marked, lostAcks = 0,
           \/ \E q \in Requirements : createRequirement(q) \/ closeBuyerRequirement(q)
           \/ \E q \in Requirements, s \in Sellers : acceptLead(q, s)
           \/ \E j \in StatsJobs : statsRead(j) \/ statsWrite(j)
           \/ NextDay
           \/ UNCHANGED vars
    PROVE  /\ MarketKept
           /\ UNCHANGED <<worker, lostAcks>>
           /\ \A q \in Requirements :
                 \/ fanout'[q] = fanout[q] /\ createdOn'[q] = createdOn[q]
                 \/ fanout[q] = "absent" /\ fanout'[q] = "PENDING"
<1>1. ASSUME NEW q \in Requirements, createRequirement(q)
      PROVE  /\ MarketKept
             /\ UNCHANGED <<worker, lostAcks>>
             /\ \A p \in Requirements :
                   \/ fanout'[p] = fanout[p] /\ createdOn'[p] = createdOn[p]
                   \/ fanout[p] = "absent" /\ fanout'[p] = "PENDING"
  <2>1. MarketKept  BY <1>1, RequestKeepsMarket
  <2> QED  BY <1>1, <2>1 DEF createRequirement, faultVars, Invariant, Columns
<1>2. ASSUME NEW q \in Requirements,
             closeBuyerRequirement(q) \/ \E s \in Sellers : acceptLead(q, s)
      PROVE  MarketKept /\ UNCHANGED <<worker, lostAcks, fanout, createdOn>>
  <2>1. MarketKept  BY <1>2, RequestKeepsMarket
  <2> QED  BY <1>2, <2>1 DEF closeBuyerRequirement, acceptLead, reqVars, faultVars
<1>3. CASE \/ \E j \in StatsJobs : statsRead(j) \/ statsWrite(j)
           \/ NextDay
           \/ UNCHANGED vars
  <2>1. UNCHANGED <<worker, lostAcks, fanout, createdOn, lead>>
      BY <1>3 DEF statsRead, statsWrite, NextDay, vars, reqVars, leadVars, faultVars
  <2> QED  BY <2>1 DEF MarketKept, InMarket
<1> QED  BY <1>1, <1>2, <1>3

LEMMA MarkedStep ==
    ASSUME Invariant, Marked, [Next]_vars PROVE Marked'
<1>1. lostAcks \in Nat  BY FanoutAssumption DEF Invariant, Columns
<1> SUFFICES ASSUME lostAcks' = 0
             PROVE  /\ \A q \in Requirements : Reached(q)' => fanout'[q] = "DONE"
                    /\ \A w \in Workers :
                          worker'[w].stage # "idle" => fanout'[worker'[w].req] = "RUNNING"
    BY DEF Marked
<1>2. \A w \in Workers : ~loseAck(w)  BY <1>1 DEF loseAck
<1>3. lostAcks = 0
    BY <1>2 DEF Next, WorkerStep, WorkerFault, createRequirement, closeBuyerRequirement,
       acceptLead, statsRead, statsWrite, NextDay, claimNextRequirement, readRequirement,
       findDuplicate, findMatchedSellers, markFanout, writeLeads, failRequirement, throw,
       crash, vars, faultVars
<1>4. /\ \A q \in Requirements : Reached(q) => fanout[q] = "DONE"
      /\ \A w \in Workers : worker[w].stage # "idle" =>
            fanout[worker[w].req] = "RUNNING" /\ worker[w].req \in Requirements
    BY <1>3, WorkerForms DEF Marked, Invariant, Columns
<1>5. CASE \/ \E q \in Requirements : createRequirement(q) \/ closeBuyerRequirement(q)
           \/ \E q \in Requirements, s \in Sellers : acceptLead(q, s)
           \/ \E j \in StatsJobs : statsRead(j) \/ statsWrite(j)
           \/ NextDay
           \/ UNCHANGED vars
  <2>1. /\ MarketKept
        /\ UNCHANGED <<worker, lostAcks>>
        /\ \A q \in Requirements :
              \/ fanout'[q] = fanout[q] /\ createdOn'[q] = createdOn[q]
              \/ fanout[q] = "absent" /\ fanout'[q] = "PENDING"
      BY <1>3, <1>5, RequestSteps
  <2>2. \A q \in Requirements : Reached(q)' => fanout'[q] = "DONE"
      BY <1>4, <2>1, ReachedKept
  <2>3. \A w \in Workers : worker'[w].stage # "idle" => fanout'[worker'[w].req] = "RUNNING"
      BY <1>4, <2>1
  <2> QED  BY <2>2, <2>3
<1>6. ASSUME NEW w \in Workers, claimNextRequirement(w)
      PROVE  /\ \A q \in Requirements : Reached(q)' => fanout'[q] = "DONE"
             /\ \A v \in Workers :
                   worker'[v].stage # "idle" => fanout'[worker'[v].req] = "RUNNING"
  <2>1. PICK q \in Requirements :
            /\ fanout[q] = "PENDING"
            /\ fanout' = [fanout EXCEPT ![q] = "RUNNING"]
            /\ Goto(w, Holding("claimed", q))
      BY <1>6 DEF claimNextRequirement
  <2>2. worker'[w].req = q /\ \A v \in Workers : v # w => worker'[v] = worker[v]
      BY <2>1, WorkerForms DEF Goto, Invariant, Columns
  <2>3. fanout'[q] = "RUNNING" /\ \A p \in Requirements : p # q => fanout'[p] = fanout[p]
      BY <2>1 DEF Invariant, Columns
  <2>4. \A p \in Requirements : Reached(p)' <=> Reached(p)
      BY <1>6 DEF claimNextRequirement, leadVars, Reached, InMarket
  <2>5. \A p \in Requirements : Reached(p)' => fanout'[p] = "DONE"
      BY <1>4, <2>1, <2>3, <2>4
  <2>6. ASSUME NEW v \in Workers, worker'[v].stage # "idle"
        PROVE  fanout'[worker'[v].req] = "RUNNING"
    <3>1. CASE v = w  BY <2>2, <2>3, <3>1
    <3>2. CASE v # w  BY <1>4, <2>2, <2>3, <2>6, <3>2
    <3> QED  BY <3>1, <3>2
  <2> QED  BY <2>5, <2>6
<1>7. ASSUME NEW w \in Workers,
             \/ readRequirement(w) \/ findDuplicate(w) \/ findMatchedSellers(w)
             \/ throw(w) \/ crash(w)
      PROVE  /\ \A q \in Requirements : Reached(q)' => fanout'[q] = "DONE"
             /\ \A v \in Workers :
                   worker'[v].stage # "idle" => fanout'[worker'[v].req] = "RUNNING"
  <2>1. UNCHANGED <<fanout, lead>>
      BY <1>7 DEF readRequirement, findDuplicate, findMatchedSellers, throw, crash,
                  reqVars, leadVars
  <2>2. worker[w].stage # "idle" /\ worker[w].req \in Requirements
    <3>1. worker[w].stage # "idle"
        BY <1>7 DEF readRequirement, findDuplicate, findMatchedSellers, throw, crash, At
    <3> QED  BY <1>4, <3>1
  <2>3. PICK next : Goto(w, next) /\ (next.stage # "idle" => next.req = worker[w].req)
    <3>1. CASE crash(w)  BY <3>1, WorkerForms DEF crash
    <3>2. CASE findMatchedSellers(w)
      <4>1. PICK top \in Rankings(worker[w].req) :
                Goto(w, IF top = {} THEN Holding("skip", worker[w].req)
                        ELSE [stage |-> "matched", req |-> worker[w].req, ranked |-> top])
          BY <3>2 DEF findMatchedSellers
      <4> QED  BY <2>2, <4>1, WorkerForms
    <3>3. CASE readRequirement(w) \/ findDuplicate(w) \/ throw(w)
      <4>1. PICK s \in {"skip", "open", "fresh", "failed"} : Goto(w, Holding(s, worker[w].req))
          BY <3>3 DEF readRequirement, findDuplicate, throw
      <4> QED  BY <2>2, <4>1, WorkerForms
    <3> QED  BY <1>7, <3>1, <3>2, <3>3
  <2>4. worker'[w] = next /\ \A v \in Workers : v # w => worker'[v] = worker[v]
      BY <2>3 DEF Goto, Invariant, Columns
  <2>5. \A q \in Requirements : Reached(q)' => fanout'[q] = "DONE"
      BY <1>4, <2>1 DEF Reached, InMarket
  <2>6. ASSUME NEW v \in Workers, worker'[v].stage # "idle"
        PROVE  fanout'[worker'[v].req] = "RUNNING"
      BY <1>4, <2>1, <2>2, <2>3, <2>4, <2>6
  <2> QED  BY <2>5, <2>6
<1>8. ASSUME NEW w \in Workers, markFanout(w) \/ failRequirement(w) \/ writeLeads(w)
      PROVE  /\ \A q \in Requirements : Reached(q)' => fanout'[q] = "DONE"
             /\ \A v \in Workers :
                   worker'[v].stage # "idle" => fanout'[worker'[v].req] = "RUNNING"
  <2> DEFINE q == worker[w].req
  <2>1. /\ worker[w].stage # "idle" /\ q \in Requirements /\ fanout[q] = "RUNNING"
        /\ Goto(w, Idle)
    <3>1. worker[w].stage # "idle"  BY <1>8 DEF markFanout, failRequirement, writeLeads, At
    <3> QED  BY <1>4, <1>8, <3>1 DEF markFanout, failRequirement, writeLeads
  <2>2. \A p \in Requirements : p # q => fanout'[p] = fanout[p]
      BY <1>8 DEF markFanout, failRequirement, writeLeads, WriteLeads, Invariant, Columns
  <2>3. worker'[w].stage = "idle" /\ \A v \in Workers : v # w => worker'[v] = worker[v]
      BY <2>1, WorkerForms DEF Goto, Invariant, Columns
  <2>4. ASSUME NEW v \in Workers, worker'[v].stage # "idle"
        PROVE  fanout'[worker'[v].req] = "RUNNING"
    <3>1. v # w /\ worker'[v] = worker[v]  BY <2>3, <2>4
    <3>2. worker[v].req # q  BY <2>1, <2>4, <3>1 DEF Invariant, Claims
    <3> QED  BY <1>4, <2>2, <2>4, <3>1, <3>2
  <2>5. ASSUME NEW p \in Requirements, Reached(p)' PROVE fanout'[p] = "DONE"
    <3>1. CASE writeLeads(w)
      <4>1. worker[w].stage = "matched" /\ WriteLeads(q, worker[w].ranked)
          BY <3>1 DEF writeLeads, At
      <4>2. worker[w].ranked \in SUBSET (Sellers \X Slots)
          BY <4>1, WorkerForms DEF Invariant, Columns
      <4>3. CASE p = q  BY <2>1, <4>1, <4>3 DEF WriteLeads, Invariant, Columns
      <4>4. CASE p # q
        <5>1. lead'[p] = lead[p]
            BY <2>1, <4>1, <4>2, <4>4, WrittenRows DEF Invariant
        <5> QED  BY <1>4, <2>2, <2>5, <4>4, <5>1 DEF Reached, InMarket
      <4> QED  BY <4>3, <4>4
    <3>2. CASE markFanout(w) \/ failRequirement(w)
      <4>1. Reached(p)  BY <2>5, <3>2 DEF markFanout, failRequirement, leadVars, Reached, InMarket
      <4>2. p # q  BY <1>4, <2>1, <4>1
      <4> QED  BY <1>4, <2>2, <4>1, <4>2
    <3> QED  BY <1>8, <3>1, <3>2
  <2> QED  BY <2>4, <2>5
<1>9. CASE \E w \in Workers : WorkerStep(w) \/ WorkerFault(w)
    BY <1>2, <1>6, <1>7, <1>8, <1>9 DEF WorkerStep, WorkerFault
<1> QED  BY <1>5, <1>9 DEF Next
\* A worker that may write was there before, or has just found no duplicate.
LEMMA AboutToWrite ==
    ASSUME Invariant, NEW w \in Workers, WorkerStep(w) \/ WorkerFault(w),
           worker'[w].stage \in {"fresh", "matched"}
    PROVE  /\ worker'[w].req = worker[w].req
           /\ UNCHANGED <<fanout, createdOn, lead>>
           /\ \/ findDuplicate(w) /\ (DedupeDays > 0 => Duplicates(worker[w].req) = {})
              \/ worker[w].stage = "fresh" /\ findMatchedSellers(w)
<1> USE WorkerForms
<1>1. worker[w].stage # "idle" => worker[w].req \in Requirements  BY DEF Invariant, Columns
<1>2. \A next : Goto(w, next) => worker'[w] = next  BY DEF Goto, Invariant, Columns
<1>3. CASE findDuplicate(w)
  <2>1. worker[w].req \in Requirements  BY <1>1, <1>3 DEF findDuplicate, At
  <2>2. PICK s \in {"skip", "fresh"} :
            /\ worker'[w] = Holding(s, worker[w].req)
            /\ s = "fresh" => ~(DedupeDays > 0 /\ Duplicates(worker[w].req) # {})
      BY <1>2, <1>3 DEF findDuplicate
  <2> QED  BY <1>3, <2>1, <2>2 DEF findDuplicate, reqVars, leadVars
<1>4. CASE findMatchedSellers(w)
  <2>1. worker[w].stage = "fresh" /\ worker[w].req \in Requirements
      BY <1>1, <1>4 DEF findMatchedSellers, At
  <2>2. PICK top \in Rankings(worker[w].req) :
            Goto(w, IF top = {} THEN Holding("skip", worker[w].req)
                    ELSE [stage |-> "matched", req |-> worker[w].req, ranked |-> top])
      BY <1>4 DEF findMatchedSellers
  <2>3. worker'[w].req = worker[w].req
    <3>1. CASE top = {}  BY <1>2, <2>1, <2>2, <3>1
    <3>2. CASE top # {}  BY <1>2, <2>2, <3>2
    <3> QED  BY <3>1, <3>2
  <2> QED  BY <1>4, <2>1, <2>3 DEF findMatchedSellers, reqVars, leadVars
<1>5. ASSUME claimNextRequirement(w) PROVE worker'[w].stage = "claimed"
    BY <1>2, <1>5 DEF claimNextRequirement
<1>6. ASSUME \/ readRequirement(w) \/ markFanout(w) \/ writeLeads(w) \/ failRequirement(w)
             \/ WorkerFault(w)
      PROVE  worker'[w].stage \in {"skip", "open", "failed", "idle"}
  <2>1. \/ worker'[w] = Idle
        \/ \E s \in {"skip", "open", "failed"} : worker'[w] = Holding(s, worker[w].req)
      BY <1>2, <1>6 DEF readRequirement, markFanout, writeLeads, failRequirement,
         WorkerFault, loseAck, throw, crash
  <2>2. CASE worker'[w] = Idle  BY <2>2
  <2>3. CASE worker'[w] # Idle
    <3>1. worker[w].stage # "idle"
        BY <1>6 DEF readRequirement, markFanout, writeLeads, failRequirement,
           WorkerFault, loseAck, throw, crash, At
    <3> QED  BY <1>1, <2>1, <2>3, <3>1
  <2> QED  BY <2>2, <2>3
<1> QED  BY <1>3, <1>4, <1>5, <1>6 DEF WorkerStep

LEMMA DuplicatesKept ==
    ASSUME NEW q \in Requirements, createdOn'[q] = createdOn[q], Duplicates(q) = {},
           \A p \in Requirements :
              fanout'[p] = "DONE" => fanout[p] = "DONE" /\ createdOn'[p] = createdOn[p]
    PROVE  Duplicates(q)' = {}
BY DEF Duplicates

LEMMA SkippedKept ==
    ASSUME Columns, DuplicatesAreSkipped, MarketKept,
           \A q \in Requirements : Reached(q) => createdOn'[q] = createdOn[q]
    PROVE  DuplicatesAreSkipped'
<1>1. \A q \in Requirements : MarketLeads(q) # {} <=> Reached(q)
    BY DEF MarketLeads, Holds, Reached, InMarket
<1>2. \A q \in Requirements : MarketLeads(q)' # {} <=> Reached(q)'
    BY DEF MarketLeads, Holds, Reached, InMarket
<1>3. \A q \in Requirements : Reached(q)' <=> Reached(q)  BY ReachedKept
<1>4. SUFFICES ASSUME NEW p \in Requirements, NEW q \in Requirements,
                      p # q, Fingerprint[p] = Fingerprint[q],
                      createdOn'[p] - createdOn'[q] \in 0 .. DedupeDays,
                      MarketLeads(p)' # {}
               PROVE  MarketLeads(q)' = {}
    BY DEF DuplicatesAreSkipped
<1>5. CASE Reached(q)
  <2>1. Reached(p)  BY <1>2, <1>3, <1>4
  <2>2. createdOn[p] - createdOn[q] \in 0 .. DedupeDays  BY <1>4, <1>5, <2>1
  <2> QED  BY <1>1, <1>4, <1>5, <2>1, <2>2 DEF DuplicatesAreSkipped
<1>6. CASE ~Reached(q)  BY <1>2, <1>3, <1>6
<1> QED  BY <1>5, <1>6

\* The leads of a requirement without duplicates make none.
LEMMA SkippedByWrite ==
    ASSUME Invariant, Marked, lostAcks = 0, DuplicatesAreSkipped,
           NEW q \in Requirements, NEW ranked \in SUBSET (Sellers \X Slots),
           WriteLeads(q, ranked), UNCHANGED createdOn, Duplicates(q) = {}
    PROVE  DuplicatesAreSkipped'
<1>1. \A p \in Requirements : p # q => (Reached(p)' <=> Reached(p))
  <2>1. \A p \in Requirements : p # q => lead'[p] = lead[p]  BY WrittenRows DEF Invariant
  <2> QED  BY <2>1 DEF Reached, InMarket
<1>2. \A p \in Requirements : /\ MarketLeads(p) # {} <=> Reached(p)
                              /\ MarketLeads(p)' # {} <=> Reached(p)'
    BY DEF MarketLeads, Holds, Reached, InMarket
<1>3. \A p \in Requirements : createdOn[p] \in Int
    BY FanoutAssumption DEF Invariant, Columns, Days
<1>4. ASSUME NEW p \in Requirements, p # q, Fingerprint[p] = Fingerprint[q], Reached(p)
      PROVE  createdOn[q] - createdOn[p] > DedupeDays
  <2>1. fanout[p] = "DONE"  BY <1>4 DEF Marked
  <2>2. ~(createdOn[p] >= createdOn[q] - DedupeDays)  BY <1>4, <2>1 DEF Duplicates
  <2> QED  BY <1>3, <2>2, FanoutAssumption
<1>5. SUFFICES ASSUME NEW p \in Requirements, NEW r \in Requirements,
                      p # r, Fingerprint[p] = Fingerprint[r],
                      createdOn[p] - createdOn[r] \in 0 .. DedupeDays,
                      Reached(p)', Reached(r)'
               PROVE  FALSE
    BY <1>2 DEF DuplicatesAreSkipped
<1>6. CASE p # q /\ r # q  BY <1>1, <1>2, <1>5, <1>6 DEF DuplicatesAreSkipped
<1>7. CASE p = q
  <2>1. createdOn[q] - createdOn[r] > DedupeDays  BY <1>1, <1>4, <1>5, <1>7
  <2> QED  BY <1>3, <1>5, <1>7, <2>1, FanoutAssumption
<1>8. CASE r = q
  <2>1. createdOn[q] - createdOn[p] > DedupeDays  BY <1>1, <1>4, <1>5, <1>8
  <2> QED  BY <1>3, <1>5, <1>8, <2>1, FanoutAssumption
<1> QED  BY <1>6, <1>7, <1>8

LEMMA ApartStep ==
    ASSUME Invariant, Marked, Apart, [Next]_vars PROVE Apart'
<1>1. lostAcks \in Nat  BY FanoutAssumption DEF Invariant, Columns
<1> SUFFICES ASSUME OneWorker, DedupeDays > 0, lostAcks' = 0
             PROVE  DuplicatesAreSkipped' /\ StillNew'
    BY DEF Apart
<1>2. \A w \in Workers : ~loseAck(w)  BY <1>1 DEF loseAck
<1>3. lostAcks = 0
    BY <1>2 DEF Next, WorkerStep, WorkerFault, createRequirement, closeBuyerRequirement,
       acceptLead, statsRead, statsWrite, NextDay, claimNextRequirement, readRequirement,
       findDuplicate, findMatchedSellers, markFanout, writeLeads, failRequirement, throw,
       crash, vars, faultVars
<1>4. DuplicatesAreSkipped /\ StillNew  BY <1>3 DEF Apart
<1>5. /\ \A q \in Requirements : Reached(q) => fanout[q] = "DONE"
      /\ \A w \in Workers : worker[w].stage # "idle" =>
            fanout[worker[w].req] = "RUNNING" /\ worker[w].req \in Requirements
    BY <1>3, WorkerForms DEF Marked, Invariant, Columns
<1>6. CASE \/ \E q \in Requirements : createRequirement(q) \/ closeBuyerRequirement(q)
           \/ \E q \in Requirements, s \in Sellers : acceptLead(q, s)
           \/ \E j \in StatsJobs : statsRead(j) \/ statsWrite(j)
           \/ NextDay
           \/ UNCHANGED vars
  <2>1. /\ MarketKept
        /\ UNCHANGED <<worker, lostAcks>>
        /\ \A q \in Requirements :
              \/ fanout'[q] = fanout[q] /\ createdOn'[q] = createdOn[q]
              \/ fanout[q] = "absent" /\ fanout'[q] = "PENDING"
      BY <1>3, <1>6, RequestSteps
  <2>2. DuplicatesAreSkipped'  BY <1>4, <1>5, <2>1, SkippedKept DEF Invariant
  <2>3. StillNew'
    <3> SUFFICES ASSUME NEW w \in Workers, worker[w].stage \in {"fresh", "matched"}
                 PROVE  Duplicates(worker[w].req)' = {}
        BY <2>1 DEF StillNew
    <3> DEFINE q == worker[w].req
    <3>1. q \in Requirements /\ createdOn'[q] = createdOn[q] /\ Duplicates(q) = {}
        BY <1>4, <1>5, <2>1 DEF StillNew
    <3>2. \A p \in Requirements :
              fanout'[p] = "DONE" => fanout[p] = "DONE" /\ createdOn'[p] = createdOn[p]
        BY <2>1
    <3> HIDE DEF q
    <3>3. \A p \in Requirements : (p = q => Duplicates(p)' = {})
        BY <3>1, <3>2, DuplicatesKept
    <3>4. worker'[w].req = q  BY <2>1 DEF q
    <3> QED  BY <3>1, <3>3, <3>4
  <2> QED  BY <2>2, <2>3
<1>7. ASSUME NEW w \in Workers, WorkerStep(w) \/ WorkerFault(w)
      PROVE  DuplicatesAreSkipped' /\ StillNew'
  <2>1. StillNew'
    <3> SUFFICES ASSUME NEW v \in Workers, worker'[v].stage \in {"fresh", "matched"}
                 PROVE  Duplicates(worker[v].req)' = {}
        BY DEF StillNew
    <3>1. v = w  BY DEF OneWorker
    <3>2. /\ worker'[w].req = worker[w].req
          /\ UNCHANGED <<fanout, createdOn, lead>>
          /\ \/ findDuplicate(w) /\ (DedupeDays > 0 => Duplicates(worker[w].req) = {})
             \/ worker[w].stage = "fresh" /\ findMatchedSellers(w)
        BY <1>7, <3>1, AboutToWrite
    <3>3. Duplicates(worker[w].req) = {}  BY <1>4, <3>2 DEF StillNew
    <3> QED  BY <3>1, <3>2, <3>3 DEF Duplicates
  <2>2. DuplicatesAreSkipped'
    <3>1. CASE writeLeads(w)
      <4>1. worker[w].stage = "matched" /\ WriteLeads(worker[w].req, worker[w].ranked)
            /\ UNCHANGED createdOn
          BY <3>1 DEF writeLeads, At
      <4>2. worker[w].ranked \in SUBSET (Sellers \X Slots) /\ worker[w].req \in Requirements
          BY <4>1, WorkerForms DEF Invariant, Columns
      <4>3. Duplicates(worker[w].req) = {}  BY <1>4, <4>1 DEF StillNew
      <4> QED  BY <1>3, <1>4, <4>1, <4>2, <4>3, SkippedByWrite
    <3>2. CASE ~writeLeads(w)
      <4>1. UNCHANGED <<createdOn, lead>>
          BY <1>2, <1>7, <3>2 DEF WorkerStep, WorkerFault, claimNextRequirement,
             readRequirement, findDuplicate, findMatchedSellers, markFanout,
             failRequirement, throw, crash, reqVars, leadVars
      <4>2. MarketKept  BY <4>1 DEF MarketKept, InMarket
      <4> QED  BY <1>4, <4>1, <4>2, SkippedKept DEF Invariant
    <3> QED  BY <3>1, <3>2
  <2> QED  BY <2>1, <2>2
<1> QED  BY <1>6, <1>7 DEF Next
-----------------------------------------------------------------------------
(* Quotas.  The leads of a slot are counted over a span of days: the week of a *)
(* weekly lead, the day of a daily one.                                     *)

Allowance(s, slot) == IF slot = "WEEKLY" THEN WeeklyQuota[s] ELSE DailyQuota[s]
Span(slot, d) == IF slot = "WEEKLY" THEN {b \in Days : Week(b) = Week(d)} ELSE {d}
Taken(s, slot, span) ==
    {q \in Requirements :
        InMarket(q, s) /\ lead[q][s].slot = slot /\ lead[q][s].born \in span}

\* No lead was written tomorrow.
Past == \A q \in Requirements, s \in Sellers : InMarket(q, s) => lead[q][s].born <= day

Kept ==
    \A s \in Sellers, slot \in Slots, d \in Days :
        Allowance(s, slot) # Uncapped =>
            Cardinality(Taken(s, slot, Span(slot, d))) <= Allowance(s, slot)

\* A ranked seller still has room for a lead written now, midnight or not.
HasRoom(s, slot) ==
    Allowance(s, slot) # Uncapped =>
        Cardinality(Taken(s, slot, Span(slot, day))) < Allowance(s, slot)
Room ==
    \A w \in Workers : worker[w].stage = "matched" =>
        \A e \in worker[w].ranked : HasRoom(e[1], e[2])

Quotas == Past /\ (OneWorker => Kept /\ Room)

LEMMA QuotaTypes ==
    \A s \in Sellers, slot \in Slots :
        /\ Allowance(s, slot) \in Nat \cup {Uncapped}
        /\ slot = "DAILY" => Allowance(s, slot) = DailyQuota[s] /\ Allowance(s, slot) # Uncapped
        /\ slot = "WEEKLY" => Allowance(s, slot) = WeeklyQuota[s]
BY FanoutAssumption DEF Allowance, Slots

LEMMA UsedIsTaken ==
    ASSUME Columns, NEW s \in Sellers, NEW d \in Days
    PROVE  /\ WeeklyUsed(s, d) = Cardinality(Taken(s, "WEEKLY", Span("WEEKLY", d)))
           /\ DailyUsed(s, d) = Cardinality(Taken(s, "DAILY", Span("DAILY", d)))
<1>1. \A q \in Requirements : InMarket(q, s) => lead[q][s].born \in Days
    BY DEF Columns, InMarket, LeadRow
<1>2. SentTo(s) = {q \in Requirements : InMarket(q, s)}
    BY DEF SentTo, MarketLeads, Holds, InMarket
<1>3. {q \in SentTo(s) : lead[q][s].slot = "WEEKLY" /\ Week(lead[q][s].born) = Week(d)}
          = Taken(s, "WEEKLY", Span("WEEKLY", d))
    BY <1>1, <1>2 DEF Taken, Span
<1>4. {q \in SentTo(s) : lead[q][s].slot = "DAILY" /\ lead[q][s].born = d}
          = Taken(s, "DAILY", Span("DAILY", d))
    BY <1>1, <1>2 DEF Taken, Span
<1> QED  BY <1>3, <1>4 DEF WeeklyUsed, DailyUsed

LEMMA TakenFinite ==
    \A s, slot, span : /\ IsFiniteSet(Taken(s, slot, span))
                       /\ Cardinality(Taken(s, slot, span)) \in Nat
<1>1. \A s, slot, span : IsFiniteSet(Taken(s, slot, span))
    BY FanoutAssumption, FS_Subset DEF Taken
<1> QED  BY <1>1, FS_CardinalityType

LEMMA TakenKept ==
    ASSUME MarketKept, NEW s \in Sellers, NEW slot, NEW span
    PROVE  Taken(s, slot, span)' = Taken(s, slot, span)
BY DEF MarketKept, Taken

LEMMA DaysAndWeeks ==
    /\ \A d \in Days : d \in Nat \ {0} /\ Week(d) \in Nat
    /\ \A c, d \in Days : c <= d => Week(c) <= Week(d)
<1>1. \A d \in Days : d \in Nat \ {0}  BY FanoutAssumption DEF Days
<1>2. ASSUME NEW a \in Nat, NEW n \in Nat \ {0}
      PROVE  a \div n \in Nat /\ n * (a \div n) <= a /\ a < n * (a \div n) + n
    OBVIOUS
<1>3. \A d \in Days : Week(d) \in Nat  BY <1>1, <1>2, FanoutAssumption DEF Week
<1>4. ASSUME NEW a \in Nat, NEW b \in Nat, NEW n \in Nat \ {0}, a <= b
      PROVE  a \div n <= b \div n
  <2>1. /\ a \div n \in Nat /\ b \div n \in Nat
        /\ n * (a \div n) <= a /\ b < n * (b \div n) + n
      BY <1>2
  <2>2. n * (a \div n) < n * (b \div n + 1)  BY <1>4, <2>1
  <2>3. ASSUME NEW x \in Nat, NEW y \in Nat, x >= y + 1 PROVE n * x >= n * (y + 1)
      BY <2>3
  <2> QED  BY <2>1, <2>2, <2>3
<1>5. ASSUME NEW c \in Days, NEW d \in Days, c <= d PROVE Week(c) <= Week(d)
  <2>1. c - 1 \in Nat /\ d - 1 \in Nat /\ c - 1 <= d - 1  BY <1>1, <1>5
  <2> QED  BY <1>4, <2>1, FanoutAssumption DEF Week
<1> QED  BY <1>1, <1>3, <1>5

\* What the matcher has just checked of every seller it ranked.
LEMMA RankedHaveRoom ==
    ASSUME Columns, NEW q \in Requirements, NEW top \in Rankings(q), NEW e \in top
    PROVE  e \in Sellers \X Slots /\ HasRoom(e[1], e[2])
<1>1. e \in Sellers \X Slots /\ e[2] \in chooseSlot(e[1])
    BY FanoutAssumption DEF Rankings, Eligible
<1>2. day \in Days  BY DEF Columns
<1>3. CASE e[2] = "WEEKLY"
  <2>1. HasWeekly(e[1])  BY <1>1, <1>3 DEF chooseSlot
  <2> QED  BY <1>1, <1>2, <1>3, <2>1, UsedIsTaken, QuotaTypes DEF HasWeekly, HasRoom
<1>4. CASE e[2] = "DAILY"
  <2>1. DailyUsed(e[1], day) < DailyQuota[e[1]]  BY <1>1, <1>4 DEF chooseSlot
  <2> QED  BY <1>1, <1>2, <1>4, <2>1, UsedIsTaken, QuotaTypes DEF HasRoom
<1> QED  BY <1>1, <1>3, <1>4 DEF Slots

\* Midnight: the span of the new day is the old one, or nothing was written in it.
LEMMA RoomTomorrow ==
    ASSUME Columns, Past, NextDay, NEW s \in Sellers, NEW slot \in Slots, HasRoom(s, slot)
    PROVE  HasRoom(s, slot)'
<1>1. /\ day \in Days /\ day' = day + 1 /\ day' \in Days
      /\ UNCHANGED lead
    BY FanoutAssumption DEF NextDay, Columns, Days, leadVars
<1>2. \A q \in Requirements : InMarket(q, s) => lead[q][s].born \in Days /\ lead[q][s].born <= day
    BY DEF Columns, Past, InMarket, LeadRow
<1>3. Taken(s, slot, Span(slot, day))' = Taken(s, slot, Span(slot, day'))
    BY <1>1 DEF Taken, InMarket, Span, Week
<1>4. SUFFICES ASSUME Allowance(s, slot) # Uncapped
               PROVE  Cardinality(Taken(s, slot, Span(slot, day'))) < Allowance(s, slot)
    BY <1>3 DEF HasRoom, Allowance
<1>5. Cardinality(Taken(s, slot, Span(slot, day))) < Allowance(s, slot)
      /\ Allowance(s, slot) \in Nat /\ Allowance(s, slot) > 0
  <2>1. Cardinality(Taken(s, slot, Span(slot, day))) < Allowance(s, slot)  BY <1>4 DEF HasRoom
  <2>2. Allowance(s, slot) \in Nat  BY <1>4, QuotaTypes
  <2> QED  BY <2>1, <2>2, TakenFinite
<1>6. CASE slot = "WEEKLY" /\ Week(day') = Week(day)
    BY <1>5, <1>6 DEF Span
<1>7. CASE ~(slot = "WEEKLY" /\ Week(day') = Week(day))
  <2>1. ASSUME NEW b \in Days, b <= day PROVE b \notin Span(slot, day')
    <3>1. CASE slot = "WEEKLY"
      <4>1. Week(b) <= Week(day) /\ Week(day) <= Week(day') /\ Week(day) # Week(day')
          BY <1>1, <1>7, <2>1, <3>1, DaysAndWeeks
      <4> QED  BY <1>1, <3>1, <4>1, DaysAndWeeks DEF Span
    <3>2. CASE slot # "WEEKLY"  BY <1>1, <2>1, <3>2, DaysAndWeeks DEF Span
    <3> QED  BY <3>1, <3>2
  <2>2. Taken(s, slot, Span(slot, day')) = {}  BY <1>2, <2>1 DEF Taken
  <2> QED  BY <1>5, <2>2, FS_EmptySet
<1> QED  BY <1>6, <1>7

\* A lead written today adds one to the spans that hold today.
LEMMA KeptByWrite ==
    ASSUME Columns, Kept, NEW q \in Requirements, NEW ranked \in SUBSET (Sellers \X Slots),
           WriteLeads(q, ranked), \A e \in ranked : HasRoom(e[1], e[2])
    PROVE  Kept'
<1> SUFFICES ASSUME NEW s \in Sellers, NEW slot \in Slots, NEW d \in Days,
                    Allowance(s, slot) # Uncapped
             PROVE  Cardinality(Taken(s, slot, Span(slot, d))') <= Allowance(s, slot)
    BY DEF Kept, Allowance, Span, Week
<1> DEFINE span == Span(slot, d)
<1>1. day \in Days /\ Allowance(s, slot) \in Nat  BY QuotaTypes DEF Columns
<1>2. Cardinality(Taken(s, slot, span)) <= Allowance(s, slot)  BY DEF Kept
<1>3. Taken(s, slot, span)' = {p \in Requirements :
          InMarket(p, s)' /\ lead'[p][s].slot = slot /\ lead'[p][s].born \in span}
    BY DEF Taken, Span, Week
<1>4. \A p \in Requirements : p # q => lead'[p] = lead[p]  BY WrittenRows
<1>5. CASE ~Gets(q, ranked, s) \/ lead'[q][s].slot # slot \/ day \notin span
  <2>1. CASE ~Gets(q, ranked, s)
    <3>1. lead'[q][s] = lead[q][s]  BY <2>1, WrittenRows
    <3> QED  BY <1>2, <1>3, <1>4, <3>1 DEF Taken, InMarket
  <2>2. CASE Gets(q, ranked, s)
    <3>1. ~InMarket(q, s) /\ lead'[q][s].born = day  BY <2>2, WrittenRows
    <3>2. lead'[q][s].slot # slot \/ lead'[q][s].born \notin span  BY <1>5, <2>2, <3>1
    <3> QED  BY <1>2, <1>3, <1>4, <3>1, <3>2 DEF Taken, InMarket
  <2> QED  BY <2>1, <2>2
<1>6. CASE Gets(q, ranked, s) /\ lead'[q][s].slot = slot /\ day \in span
  <2>1. /\ ~InMarket(q, s) /\ InMarket(q, s)' /\ lead'[q][s].born = day
        /\ <<s, slot>> \in ranked
      BY <1>6, WrittenRows
  <2>2. Taken(s, slot, span)' = Taken(s, slot, span) \cup {q}
      BY <1>3, <1>4, <1>6, <2>1 DEF Taken, InMarket
  <2>3. q \notin Taken(s, slot, span)  BY <2>1 DEF Taken
  <2>4. Cardinality(Taken(s, slot, span) \cup {q}) = Cardinality(Taken(s, slot, span)) + 1
      BY <2>3, TakenFinite, FS_AddElement
  <2>5. span = Span(slot, day)
      BY <1>6 DEF Span
  <2>6. Cardinality(Taken(s, slot, span)) < Allowance(s, slot)
    <3>1. HasRoom(s, slot)  BY <2>1
    <3> QED  BY <2>5, <3>1 DEF HasRoom
  <2> QED  BY <1>1, <2>2, <2>4, <2>6, TakenFinite
<1> QED  BY <1>5, <1>6
\* Apart from midnight and from the transaction, every step leaves the counts alone.
LEMMA QuietSteps ==
    ASSUME Invariant, [Next]_vars, ~NextDay, \A w \in Workers : ~writeLeads(w) /\ ~loseAck(w)
    PROVE  MarketKept /\ day' = day
<1>1. CASE \/ \E q \in Requirements : createRequirement(q) \/ closeBuyerRequirement(q)
           \/ \E q \in Requirements, s \in Sellers : acceptLead(q, s)
  <2>1. MarketKept  BY <1>1, RequestKeepsMarket
  <2> QED  BY <1>1, <2>1 DEF createRequirement, closeBuyerRequirement, acceptLead
<1>2. CASE \/ \E w \in Workers : WorkerStep(w) \/ WorkerFault(w)
           \/ \E j \in StatsJobs : statsRead(j) \/ statsWrite(j)
           \/ UNCHANGED vars
  <2>1. UNCHANGED <<lead, day>>
      BY <1>2 DEF WorkerStep, WorkerFault, claimNextRequirement, readRequirement,
         findDuplicate, findMatchedSellers, markFanout, failRequirement, throw, crash,
         statsRead, statsWrite, vars, leadVars
  <2> QED  BY <2>1 DEF MarketKept, InMarket
<1> QED  BY <1>1, <1>2 DEF Next

LEMMA PastStep ==
    ASSUME Invariant, Past, [Next]_vars PROVE Past'
<1>1. \A q \in Requirements, s \in Sellers :
          InMarket(q, s) => lead[q][s].born \in Nat /\ day \in Nat
    BY FanoutAssumption DEF Invariant, Columns, InMarket, LeadRow, Days
<1>2. CASE NextDay
    BY <1>1, <1>2 DEF NextDay, leadVars, Past, InMarket
<1>3. ASSUME NEW w \in Workers, writeLeads(w) \/ loseAck(w) PROVE Past'
  <2> DEFINE q == worker[w].req
             ranked == worker[w].ranked
  <2>1. worker[w].stage = "matched" /\ WriteLeads(q, ranked) /\ day' = day
      BY <1>3 DEF writeLeads, loseAck, At
  <2>2. q \in Requirements /\ ranked \in SUBSET (Sellers \X Slots)
      BY <2>1, WorkerForms DEF Invariant, Columns
  <2>3. /\ \A p \in Requirements : p # q => lead'[p] = lead[p]
        /\ \A s \in Sellers : ~Gets(q, ranked, s) => lead'[q][s] = lead[q][s]
        /\ \A s \in Sellers : Gets(q, ranked, s) => lead'[q][s].born = day
      BY <2>1, <2>2, WrittenRows DEF Invariant
  <2>4. day <= day  BY FanoutAssumption DEF Invariant, Columns, Days
  <2> HIDE DEF q, ranked
  <2> QED  BY <2>1, <2>3, <2>4 DEF Past, InMarket
<1>4. CASE ~NextDay /\ \A w \in Workers : ~writeLeads(w) /\ ~loseAck(w)
  <2>1. MarketKept /\ day' = day  BY <1>4, QuietSteps
  <2> QED  BY <2>1 DEF MarketKept, Past
<1> QED  BY <1>2, <1>3, <1>4

LEMMA QuotaStep ==
    ASSUME Invariant, Past, OneWorker, Kept, Room, [Next]_vars PROVE Kept' /\ Room'
<1>1. \A w \in Workers : worker[w].stage = "matched" =>
          worker[w].ranked \in SUBSET (Sellers \X Slots) /\ worker[w].req \in Requirements
    BY WorkerForms DEF Invariant, Columns
<1>2. CASE NextDay
  <2>1. UNCHANGED <<worker, lead>>  BY <1>2 DEF NextDay, leadVars
  <2>2. Kept'
    <3>1. \A s, slot, span : Taken(s, slot, span)' = Taken(s, slot, span)
        BY <2>1 DEF Taken, InMarket
    <3> QED  BY <3>1 DEF Kept, Allowance, Span, Week
  <2>3. Room'
    <3> SUFFICES ASSUME NEW w \in Workers, worker[w].stage = "matched", NEW e \in worker[w].ranked
                 PROVE  HasRoom(e[1], e[2])'
        BY <2>1 DEF Room
    <3>1. e[1] \in Sellers /\ e[2] \in Slots  BY <1>1
    <3>2. HasRoom(e[1], e[2])  BY DEF Room
    <3>3. \A s \in Sellers, slot \in Slots : HasRoom(s, slot) => HasRoom(s, slot)'
        BY <1>2, RoomTomorrow DEF Invariant
    <3>4. e' = e  OBVIOUS
    <3> QED  BY <3>1, <3>2, <3>3
  <2> QED  BY <2>2, <2>3
<1>3. ASSUME NEW w \in Workers, writeLeads(w) \/ loseAck(w) PROVE Kept' /\ Room'
  <2>1. worker[w].stage = "matched" /\ WriteLeads(worker[w].req, worker[w].ranked)
      BY <1>3 DEF writeLeads, loseAck, At
  <2>2. \A e \in worker[w].ranked : HasRoom(e[1], e[2])  BY <2>1 DEF Room
  <2>3. Kept'  BY <1>1, <2>1, <2>2, KeptByWrite DEF Invariant
  <2>4. worker'[w].stage # "matched"
      BY <1>1, <1>3, <2>1, WorkerForms DEF writeLeads, loseAck, Goto, Invariant, Columns
  <2> QED  BY <2>3, <2>4 DEF Room, OneWorker
<1>4. CASE ~NextDay /\ \A w \in Workers : ~writeLeads(w) /\ ~loseAck(w)
  <2>1. MarketKept /\ day' = day  BY <1>4, QuietSteps
  <2>2. Kept'
    <3>1. \A s \in Sellers : \A slot, span : Taken(s, slot, span)' = Taken(s, slot, span)
        BY <2>1, TakenKept
    <3> QED  BY <3>1 DEF Kept, Allowance, Span, Week
  <2>3. ASSUME NEW s \in Sellers, NEW slot \in Slots, HasRoom(s, slot)
        PROVE  HasRoom(s, slot)'
    <3>1. Taken(s, slot, Span(slot, day))' = Taken(s, slot, Span(slot, day))
      <4>1. \A span : Taken(s, slot, span)' = Taken(s, slot, span)  BY <2>1, TakenKept
      <4>2. Taken(s, slot, Span(slot, day))' = {q \in Requirements :
                InMarket(q, s)' /\ lead'[q][s].slot = slot /\ lead'[q][s].born \in Span(slot, day)}
          BY <2>1 DEF Taken, Span, Week
      <4>3. {q \in Requirements :
                InMarket(q, s)' /\ lead'[q][s].slot = slot /\ lead'[q][s].born \in Span(slot, day)}
              = Taken(s, slot, Span(slot, day))
          BY <2>1 DEF MarketKept, Taken
      <4> QED  BY <4>2, <4>3
    <3> QED  BY <2>3, <3>1 DEF HasRoom, Allowance
  <2>4. Room'
    <3> SUFFICES ASSUME NEW w \in Workers, worker'[w].stage = "matched",
                        NEW e \in worker'[w].ranked
                 PROVE  HasRoom(e[1], e[2])'
        BY DEF Room
    <3>1. CASE worker'[w] = worker[w]
      <4>1. e[1] \in Sellers /\ e[2] \in Slots /\ HasRoom(e[1], e[2])
          BY <1>1, <3>1 DEF Room
      <4> QED  BY <2>3, <4>1
    <3>2. CASE worker'[w] # worker[w]
      <4>1. WorkerStep(w) \/ WorkerFault(w)
        <5>1. \A v \in Workers : v = w  BY DEF OneWorker
        <5> QED  BY <1>4, <3>2, <5>1 DEF Next, createRequirement, closeBuyerRequirement,
                 acceptLead, statsRead, statsWrite, vars
      <4>2. \/ findDuplicate(w)
            \/ worker[w].stage = "fresh" /\ findMatchedSellers(w)
          BY <4>1, AboutToWrite
      <4>3. worker[w].req \in Requirements
          BY <4>2, WorkerForms DEF findDuplicate, At, Invariant, Columns
      <4>4. ~findDuplicate(w)
        <5>1. ASSUME findDuplicate(w) PROVE FALSE
          <6>1. PICK s \in {"skip", "fresh"} : Goto(w, Holding(s, worker[w].req))
              BY <5>1 DEF findDuplicate
          <6>2. worker'[w].stage \in {"skip", "fresh"}
              BY <4>3, <6>1, WorkerForms DEF Goto, Invariant, Columns
          <6> QED  BY <6>2
        <5> QED  BY <5>1
      <4>5. PICK top \in Rankings(worker[w].req) :
                Goto(w, IF top = {} THEN Holding("skip", worker[w].req)
                        ELSE [stage |-> "matched", req |-> worker[w].req, ranked |-> top])
          BY <4>2, <4>4 DEF findMatchedSellers
      <4>6. worker'[w].ranked = top
        <5>1. CASE top = {}
          <6>1. worker'[w] = Holding("skip", worker[w].req)
              BY <4>5, <5>1 DEF Goto, Invariant, Columns
          <6> QED  BY <4>3, <6>1, WorkerForms
        <5>2. CASE top # {}
            BY <4>5, <5>2 DEF Goto, Invariant, Columns
        <5> QED  BY <5>1, <5>2
      <4>7. e \in Sellers \X Slots /\ HasRoom(e[1], e[2])
          BY <4>3, <4>6, RankedHaveRoom DEF Invariant
      <4> QED  BY <2>3, <4>7
    <3> QED  BY <3>1, <3>2
  <2> QED  BY <2>2, <2>4
<1> QED  BY <1>2, <1>3, <1>4

-----------------------------------------------------------------------------
LEMMA OneWorkerInductive == Spec => [](Marked /\ Apart /\ Quotas)
<1>1. Init /\ Invariant => Marked /\ Apart /\ Quotas
  <2> SUFFICES ASSUME Init, Invariant PROVE Marked /\ Apart /\ Quotas  OBVIOUS
  <2>1. \A q \in Requirements, s \in Sellers : ~InMarket(q, s)  BY DEF Init, InMarket
  <2>2. \A w \in Workers : worker[w].stage = "idle"  BY WorkerForms DEF Init
  <2>3. Marked  BY <2>1, <2>2 DEF Marked, Reached
  <2>4. Apart
    <3>1. \A q \in Requirements : MarketLeads(q) = {}
        BY <2>1 DEF MarketLeads, Holds, InMarket
    <3> QED  BY <2>2, <3>1 DEF Apart, DuplicatesAreSkipped, StillNew
  <2>5. Quotas
    <3>1. \A s \in Sellers : \A slot, span : Taken(s, slot, span) = {}  BY <2>1 DEF Taken
    <3>2. Kept
      <4> SUFFICES ASSUME NEW s \in Sellers, NEW slot \in Slots, NEW d \in Days,
                          Allowance(s, slot) # Uncapped
                   PROVE  Cardinality(Taken(s, slot, Span(slot, d))) <= Allowance(s, slot)
          BY DEF Kept
      <4>1. Allowance(s, slot) \in Nat  BY QuotaTypes
      <4> QED  BY <3>1, <4>1, FS_EmptySet
    <3>3. Room  BY <2>2 DEF Room
    <3>4. Past  BY <2>1 DEF Past
    <3> QED  BY <3>2, <3>3, <3>4 DEF Quotas
  <2> QED  BY <2>3, <2>4, <2>5
<1>2. Invariant /\ Marked /\ Apart /\ Quotas /\ [Next]_vars => (Marked /\ Apart /\ Quotas)'
    BY MarkedStep, ApartStep, PastStep, QuotaStep DEF Quotas, OneWorker
<1> QED  BY <1>1, <1>2, Inductive, PTL DEF Spec

\* One worker process, a window of at least a day, no acknowledgement lost: a
\* buyer's repeated wish reaches no second set of sellers, however requirements
\* are closed, retried and abandoned meanwhile.
THEOREM DuplicatesSkipped ==
    Spec => [](OneWorker /\ DedupeDays > 0 /\ lostAcks = 0 => DuplicatesAreSkipped)
<1>1. Apart => (OneWorker /\ DedupeDays > 0 /\ lostAcks = 0 => DuplicatesAreSkipped)
    BY DEF Apart
<1> QED  BY <1>1, OneWorkerInductive, PTL

\* One worker process never gives a seller more leads than the plan's of the week
\* and the day, though it counts before it writes and midnight may pass between.
THEOREM QuotasHold == Spec => [](OneWorker => QuotaRespected)
<1>1. Invariant /\ Quotas => (OneWorker => QuotaRespected)
  <2> SUFFICES ASSUME Invariant, Quotas, OneWorker, NEW s \in Sellers, NEW d \in Days
               PROVE  /\ WeeklyQuota[s] # Uncapped => WeeklyUsed(s, d) <= WeeklyQuota[s]
                      /\ DailyUsed(s, d) <= DailyQuota[s]
      BY DEF QuotaRespected
  <2>1. \A slot \in Slots : Allowance(s, slot) # Uncapped =>
            Cardinality(Taken(s, slot, Span(slot, d))) <= Allowance(s, slot)
      BY DEF Quotas, Kept
  <2>2. /\ WeeklyUsed(s, d) = Cardinality(Taken(s, "WEEKLY", Span("WEEKLY", d)))
        /\ DailyUsed(s, d) = Cardinality(Taken(s, "DAILY", Span("DAILY", d)))
      BY UsedIsTaken DEF Invariant
  <2>3. "WEEKLY" \in Slots /\ "DAILY" \in Slots  BY DEF Slots
  <2> QED  BY <2>1, <2>2, <2>3, QuotaTypes
<1> QED  BY <1>1, Inductive, OneWorkerInductive, PTL
================================================================================
