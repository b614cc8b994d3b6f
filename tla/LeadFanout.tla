------------------------------- MODULE LeadFanout -------------------------------
(***************************************************************************)
(* From a buyer's requirement to the MARKET leads of the matched sellers:   *)
(* the request path that creates and closes requirements                    *)
(* (requirement.service.ts, buyer-account.service.ts), the worker processes *)
(* that claim, deduplicate, match and write                                 *)
(* (fanout.service.ts, matching.service.ts, worker/index.ts), and the       *)
(* nightly recount of Seller.leadsReceived.                                 *)
(*                                                                         *)
(* A worker holds its claim across the matcher without a transaction, so    *)
(* each query of processRequirement is a step and what it saw is kept in    *)
(* the worker.  Any query may throw, a process may die between two steps,   *)
(* and the acknowledgement of a COMMIT may be lost.                         *)
(***************************************************************************)
EXTENDS Integers, FiniteSets

CONSTANTS
    Requirements,  \* rows of Requirement
    Fingerprint,   \* what the dedupe compares: the buyer and the normalised product
    DirectSeller,  \* the seller the buyer clicked, or NoSeller
    Candidates,    \* the verified sellers whose categories match
    Sellers, NoSeller, NoLead,
    WeeklyQuota,   \* Plan.weeklyLeadQuota of each seller, Uncapped for null
    DailyQuota,    \* Plan.dailyLeadQuota of each seller
    Uncapped,
    MaxSellers,    \* settings.maxSellers
    DedupeDays,    \* settings.dedupeDays
    MaxAttempts,   \* FANOUT_MAX_ATTEMPTS
    Workers,       \* worker processes running side by side
    StatsJobs,     \* runs of refresh-lead-stats
    DaysPerWeek, MaxDay,      \* length of an IST week; bound on the calendar
    MaxCrashes, MaxLostAcks   \* bounds on the failures of one behaviour

ASSUME FanoutAssumption ==
    /\ IsFiniteSet(Requirements)
    /\ NoSeller \notin Sellers
    /\ DirectSeller \in [Requirements -> Sellers \cup {NoSeller}]
    /\ Candidates \in [Requirements -> SUBSET Sellers]
    /\ Uncapped \notin Nat
    /\ WeeklyQuota \in [Sellers -> Nat \cup {Uncapped}]
    /\ DailyQuota \in [Sellers -> Nat]
    /\ MaxSellers \in Nat \ {0} /\ DedupeDays \in Nat /\ MaxAttempts \in Nat \ {0}
    /\ DaysPerWeek \in Nat \ {0} /\ MaxDay \in Nat \ {0}
    /\ MaxCrashes \in Nat /\ MaxLostAcks \in Nat

VARIABLES
    fanout,     \* Requirement.fanoutStatus, "absent" before the form is sent
    createdOn,  \* the day of Requirement.createdAt
    attempts,   \* Requirement.fanoutAttempts
    closed,     \* the requirements with a closedAt
    lead,       \* the Lead row of each (requirement, seller), the unique key of the table
    received,   \* Seller.leadsReceived
    paidAfterClose,  \* the leads accepted when their requirement was already closed
    worker,     \* what each worker process is doing
    stats,      \* what each stats job has counted
    day,
    crashes, lostAcks

reqVars == <<fanout, createdOn, attempts, closed>>
leadVars == <<lead, received, paidAfterClose>>
faultVars == <<crashes, lostAcks>>
vars == <<reqVars, leadVars, worker, stats, day, faultVars>>

Days == 1 .. MaxDay
Decided == {"DONE", "SKIPPED", "FAILED"}
Slots == {"WEEKLY", "DAILY"}
LeadRow == [slot : Slots \cup {"DIRECT"}, born : Days, status : {"OPEN", "ACCEPTED", "CLOSED"}]
ASSUME NoLeadAssumption == NoLead \notin LeadRow

Idle == [stage |-> "idle"]
Worker == {Idle}
     \cup [stage : {"claimed", "open", "fresh", "skip", "failed"}, req : Requirements]
     \cup [stage : {"matched"}, req : Requirements, ranked : SUBSET (Sellers \X Slots)]
Stats == {[op |-> "idle"]}
    \cup [op : {"counted"}, count : [Sellers -> Nat], due : SUBSET Sellers]

Init ==
    /\ fanout = [q \in Requirements |-> "absent"]
    /\ createdOn = [q \in Requirements |-> 1]
    /\ attempts = [q \in Requirements |-> 0]
    /\ closed = {}
    /\ lead = [q \in Requirements |-> [s \in Sellers |-> NoLead]]
    /\ received = [s \in Sellers |-> 0]
    /\ paidAfterClose = {}
    /\ worker = [w \in Workers |-> Idle]
    /\ stats = [j \in StatsJobs |-> [op |-> "idle"]]
    /\ day = 1
    /\ crashes = 0 /\ lostAcks = 0

-----------------------------------------------------------------------------
(* Reading the tables.                                                      *)

Holds(q, s) == lead[q][s] # NoLead
MarketLeads(q) == {s \in Sellers : Holds(q, s) /\ lead[q][s].slot \in Slots}
SentTo(s) == {q \in Requirements : s \in MarketLeads(q)}

Week(d) == (d - 1) \div DaysPerWeek
WeeklyUsed(s, d) == Cardinality({q \in SentTo(s) :
                        lead[q][s].slot = "WEEKLY" /\ Week(lead[q][s].born) = Week(d)})
DailyUsed(s, d) == Cardinality({q \in SentTo(s) :
                        lead[q][s].slot = "DAILY" /\ lead[q][s].born = d})

\* Mutant: off by one at the limit of the week.
HasWeekly_OneMore(s) == WeeklyQuota[s] = Uncapped \/ WeeklyUsed(s, day) <= WeeklyQuota[s]

\* The allowance a lead written today would use: the week's, then the lead of
\* the day, else none and the seller is dropped.
HasWeekly(s) == WeeklyQuota[s] = Uncapped \/ WeeklyUsed(s, day) < WeeklyQuota[s]
chooseSlot(s) ==
    IF HasWeekly(s) THEN {"WEEKLY"}
    ELSE IF DailyUsed(s, day) < DailyQuota[s] THEN {"DAILY"} ELSE {}

Eligible(q) ==
    {d \in (Candidates[q] \ {DirectSeller[q]}) \X Slots : d[2] \in chooseSlot(d[1])}

\* rankCandidates: the best MaxSellers, whatever the scores are.
Rankings(q) ==
    {top \in SUBSET Eligible(q) :
        \/ top = Eligible(q) /\ Cardinality(top) <= MaxSellers
        \/ Cardinality(Eligible(q)) > MaxSellers /\ Cardinality(top) = MaxSellers}

\* Mutant: the requirement on the edge of the window is missed.
Duplicates_OpenEdge(q) ==
    {p \in Requirements \ {q} :
        /\ Fingerprint[p] = Fingerprint[q]
        /\ fanout[p] = "DONE"
        /\ createdOn[p] > createdOn[q] - DedupeDays}

\* The same buyer and product, already fanned out inside the window.
Duplicates(q) ==
    {p \in Requirements \ {q} :
        /\ Fingerprint[p] = Fingerprint[q]
        /\ fanout[p] = "DONE"
        /\ createdOn[p] >= createdOn[q] - DedupeDays}

-----------------------------------------------------------------------------
(* The request path.                                                        *)

createRequirement(q) ==
    /\ fanout[q] = "absent"
    /\ fanout' = [fanout EXCEPT ![q] = "PENDING"]
    /\ createdOn' = [createdOn EXCEPT ![q] = day]
    /\ lead' = [lead EXCEPT ![q] = [s \in Sellers |->
           IF s = DirectSeller[q]
           THEN [slot |-> "DIRECT", born |-> day, status |-> "OPEN"] ELSE NoLead]]
    /\ UNCHANGED <<attempts, closed, received, paidAfterClose, worker, stats, day, faultVars>>

\* "I found a supplier": the leads nobody has taken up close with it.
closeBuyerRequirement(q) ==
    /\ fanout[q] # "absent" /\ q \notin closed
    /\ closed' = closed \cup {q}
    /\ lead' = [lead EXCEPT ![q] = [s \in Sellers |->
           IF Holds(q, s) /\ lead[q][s].status = "OPEN"
           THEN [lead[q][s] EXCEPT !.status = "CLOSED"] ELSE lead[q][s]]]
    /\ UNCHANGED <<fanout, createdOn, attempts, received, paidAfterClose,
                   worker, stats, day, faultVars>>

\* The claim of acceptLead: it looks at the lead, never at the requirement.
acceptLead(q, s) ==
    /\ s \in MarketLeads(q) /\ lead[q][s].status = "OPEN"
    /\ lead' = [lead EXCEPT ![q][s].status = "ACCEPTED"]
    /\ paidAfterClose' = IF q \in closed THEN paidAfterClose \cup {<<q, s>>} ELSE paidAfterClose
    /\ UNCHANGED <<reqVars, received, worker, stats, day, faultVars>>

-----------------------------------------------------------------------------
(* The worker: one requirement at a time.                                   *)

At(w, stage) == worker[w].stage = stage
Goto(w, next) == worker' = [worker EXCEPT ![w] = next]
Holding(stage, q) == [stage |-> stage, req |-> q]

\* Mutant: a row that is already RUNNING can be claimed too.
claimNextRequirement_Running(w) ==
    /\ At(w, "idle")
    /\ \E q \in Requirements :
          /\ fanout[q] \in {"PENDING", "RUNNING"} /\ attempts[q] < MaxAttempts
          /\ fanout' = [fanout EXCEPT ![q] = "RUNNING"]
          /\ attempts' = [attempts EXCEPT ![q] = @ + 1]
          /\ Goto(w, Holding("claimed", q))
    /\ UNCHANGED <<createdOn, closed, leadVars, stats, day, faultVars>>

\* FOR UPDATE SKIP LOCKED: the oldest pending row, never one another worker takes.
claimNextRequirement(w) ==
    /\ At(w, "idle")
    /\ \E q \in Requirements :
          /\ fanout[q] = "PENDING"
          /\ \A p \in Requirements : fanout[p] = "PENDING" => createdOn[q] <= createdOn[p]
          /\ fanout' = [fanout EXCEPT ![q] = "RUNNING"]
          /\ attempts' = [attempts EXCEPT ![q] = @ + 1]
          /\ Goto(w, Holding("claimed", q))
    /\ UNCHANGED <<createdOn, closed, leadVars, stats, day, faultVars>>

readRequirement(w) ==
    /\ At(w, "claimed")
    /\ Goto(w, Holding(IF worker[w].req \in closed THEN "skip" ELSE "open", worker[w].req))
    /\ UNCHANGED <<reqVars, leadVars, stats, day, faultVars>>

findDuplicate(w) ==
    /\ At(w, "open")
    /\ Goto(w, Holding(IF DedupeDays > 0 /\ Duplicates(worker[w].req) # {}
                       THEN "skip" ELSE "fresh", worker[w].req))
    /\ UNCHANGED <<reqVars, leadVars, stats, day, faultVars>>

\* The memberships, the plans and the two quota counts, read one after another.
findMatchedSellers(w) ==
    /\ At(w, "fresh")
    /\ \E top \in Rankings(worker[w].req) :
          Goto(w, IF top = {} THEN Holding("skip", worker[w].req)
                  ELSE [stage |-> "matched", req |-> worker[w].req, ranked |-> top])
    /\ UNCHANGED <<reqVars, leadVars, stats, day, faultVars>>

\* markFanout writes whatever the status has become.
markFanout(w) ==
    /\ At(w, "skip")
    /\ fanout' = [fanout EXCEPT ![worker[w].req] = "SKIPPED"]
    /\ Goto(w, Idle)
    /\ UNCHANGED <<createdOn, attempts, closed, leadVars, stats, day, faultVars>>

\* Mutant: leadsReceived counts every ranked seller, also one who holds the lead.
WriteLeads_CountsAll(q, ranked) ==
    /\ lead' = [lead EXCEPT ![q] = [s \in Sellers |->
           IF ~Holds(q, s) /\ \E d \in ranked : d[1] = s
           THEN [slot |-> (CHOOSE d \in ranked : d[1] = s)[2], born |-> day, status |-> "OPEN"]
           ELSE lead[q][s]]]
    /\ received' = [s \in Sellers |->
           IF \E d \in ranked : d[1] = s THEN received[s] + 1 ELSE received[s]]
    /\ fanout' = [fanout EXCEPT ![q] = "DONE"]

\* One transaction: a lead for every ranked seller who does not hold one, the
\* counters, and DONE.
WriteLeads(q, ranked) ==
    LET new == {d \in ranked : ~Holds(q, d[1])} IN
    /\ lead' = [lead EXCEPT ![q] = [s \in Sellers |->
           IF \E d \in new : d[1] = s
           THEN [slot |-> (CHOOSE d \in new : d[1] = s)[2], born |-> day, status |-> "OPEN"]
           ELSE lead[q][s]]]
    /\ received' = [s \in Sellers |->
           IF \E d \in new : d[1] = s THEN received[s] + 1 ELSE received[s]]
    /\ fanout' = [fanout EXCEPT ![q] = "DONE"]

writeLeads(w) ==
    /\ At(w, "matched")
    /\ WriteLeads(worker[w].req, worker[w].ranked)
    /\ Goto(w, Idle)
    /\ UNCHANGED <<createdOn, attempts, closed, paidAfterClose, stats, day, faultVars>>

\* The transaction commits but the connection drops before the worker hears so.
loseAck(w) ==
    /\ At(w, "matched") /\ lostAcks < MaxLostAcks
    /\ WriteLeads(worker[w].req, worker[w].ranked)
    /\ Goto(w, Holding("failed", worker[w].req))
    /\ lostAcks' = lostAcks + 1
    /\ UNCHANGED <<createdOn, attempts, closed, paidAfterClose, stats, day, crashes>>

\* Any query of processRequirement may throw.
throw(w) ==
    /\ ~At(w, "idle") /\ ~At(w, "failed")
    /\ Goto(w, Holding("failed", worker[w].req))
    /\ UNCHANGED <<reqVars, leadVars, stats, day, faultVars>>

\* Mutant: only the last failure is recorded on the row.
failRequirement_OnlyLast(w) ==
    /\ At(w, "failed")
    /\ fanout' = [fanout EXCEPT ![worker[w].req] =
           IF attempts[worker[w].req] >= MaxAttempts THEN "FAILED" ELSE @]
    /\ Goto(w, Idle)
    /\ UNCHANGED <<createdOn, attempts, closed, leadVars, stats, day, faultVars>>

failRequirement(w) ==
    /\ At(w, "failed")
    /\ fanout' = [fanout EXCEPT ![worker[w].req] =
           IF attempts[worker[w].req] >= MaxAttempts THEN "FAILED" ELSE "PENDING"]
    /\ Goto(w, Idle)
    /\ UNCHANGED <<createdOn, attempts, closed, leadVars, stats, day, faultVars>>

\* The process is killed, or failRequirement throws too and its error is
\* dropped: the loop starts again and knows nothing of the claim.
crash(w) ==
    /\ ~At(w, "idle") /\ crashes < MaxCrashes
    /\ Goto(w, Idle)
    /\ crashes' = crashes + 1
    /\ UNCHANGED <<reqVars, leadVars, stats, day, lostAcks>>

-----------------------------------------------------------------------------
(* refreshLeadStats, and the calendar.                                      *)

statsRead(j) ==
    /\ stats[j].op = "idle"
    /\ stats' = [stats EXCEPT ![j] =
           [op |-> "counted", count |-> [s \in Sellers |-> Cardinality(SentTo(s))],
            due |-> {s \in Sellers : SentTo(s) # {}}]]
    /\ UNCHANGED <<reqVars, leadVars, worker, day, faultVars>>

statsWrite(j) ==
    /\ stats[j].op = "counted"
    /\ \E s \in stats[j].due :
          /\ received' = [received EXCEPT ![s] = stats[j].count[s]]
          /\ stats' = [stats EXCEPT ![j].due = @ \ {s}]
    /\ UNCHANGED <<reqVars, lead, paidAfterClose, worker, day, faultVars>>

NextDay ==
    /\ day < MaxDay
    /\ day' = day + 1
    /\ UNCHANGED <<reqVars, leadVars, worker, stats, faultVars>>

-----------------------------------------------------------------------------
\* What the loop of a worker does when nothing fails.
WorkerStep(w) ==
    \/ claimNextRequirement(w) \/ readRequirement(w) \/ findDuplicate(w)
    \/ findMatchedSellers(w) \/ markFanout(w) \/ writeLeads(w) \/ failRequirement(w)

WorkerFault(w) == loseAck(w) \/ throw(w) \/ crash(w)

Next ==
    \/ \E q \in Requirements : createRequirement(q) \/ closeBuyerRequirement(q)
    \/ \E q \in Requirements, s \in Sellers : acceptLead(q, s)
    \/ \E w \in Workers : WorkerStep(w) \/ WorkerFault(w)
    \/ \E j \in StatsJobs : statsRead(j) \/ statsWrite(j)
    \/ NextDay

Spec == Init /\ [][Next]_vars

\* Each worker polls for ever: its loop has no exit but a signal.
FairSpec == Spec /\ \A w \in Workers : WF_vars(WorkerStep(w))

-----------------------------------------------------------------------------
(* Properties.                                                              *)

\* The columns' types; fanoutAttempts never passes its limit because only a
\* PENDING row is claimed and a row is PENDING again only below it.
TypeOK ==
    /\ fanout \in [Requirements -> {"absent", "PENDING", "RUNNING"} \cup Decided]
    /\ createdOn \in [Requirements -> Days]
    /\ attempts \in [Requirements -> 0 .. MaxAttempts]
    /\ closed \subseteq Requirements
    /\ lead \in [Requirements -> [Sellers -> LeadRow \cup {NoLead}]]
    /\ received \in [Sellers -> Nat]
    /\ paidAfterClose \subseteq Requirements \X Sellers
    /\ worker \in [Workers -> Worker]
    /\ stats \in [StatsJobs -> Stats]
    /\ day \in Days
    /\ crashes \in 0 .. MaxCrashes /\ lostAcks \in 0 .. MaxLostAcks

\* worker/index.ts: several processes run side by side and never work on the
\* same requirement, whatever throws and whatever is retried.
OneWorkerPerRequirement ==
    \A w, v \in Workers :
        ~At(w, "idle") /\ ~At(v, "idle") /\ worker[w].req = worker[v].req => w = v

\* processRequirement: leadsReceived counts a seller's MARKET leads exactly,
\* also when a requirement is fanned out a second time.
ReceivedIsCounted == \A s \in Sellers : received[s] = Cardinality(SentTo(s))

\* chooseSlot: no seller gets more than the plan's leads of a week and of a day,
\* even when midnight passes between the count and the write.
QuotaRespected ==
    \A s \in Sellers, d \in Days :
        /\ WeeklyQuota[s] # Uncapped => WeeklyUsed(s, d) <= WeeklyQuota[s]
        /\ DailyUsed(s, d) <= DailyQuota[s]

\* "Same buyerId + same fingerprint with a Requirement in the last dedupeDays:
\* the fan-out is SKIPPED" (LEADS.md 3).
DuplicatesAreSkipped ==
    \A p, q \in Requirements :
        /\ p # q /\ Fingerprint[p] = Fingerprint[q]
        /\ createdOn[p] - createdOn[q] \in 0 .. DedupeDays
        /\ MarketLeads(p) # {}
        => MarketLeads(q) = {}

\* "Take the top market.maxSellers" (LEADS.md 3): a requirement reaches no more
\* sellers than that, over all its attempts.
AtMostMaxSellers == \A q \in Requirements : Cardinality(MarketLeads(q)) <= MaxSellers

\* "So no seller pays a credit for a requirement that is already filled"
\* (closeBuyerRequirement).
FilledCostsNothing == paidAfterClose = {}

\* The worker marks every requirement DONE, SKIPPED or FAILED (LEADS.md 5).
EventuallyDecided == \A q \in Requirements : fanout[q] = "PENDING" ~> fanout[q] \in Decided
================================================================================
