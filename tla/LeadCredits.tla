------------------------------ MODULE LeadCredits ------------------------------
(***************************************************************************)
(* The paid half of the lead system: the status machine of a seller's      *)
(* leads, the append-only credit ledger with its cached balance, the flags  *)
(* that refund a credit, and the monthly grants                             *)
(* (lead-inbox.service.ts, credit.service.ts, plan.service.ts,              *)
(* fanout.service.ts).                                                      *)
(*                                                                         *)
(* Postgres runs the transactions READ COMMITTED.  A transaction that       *)
(* writes the Seller row holds its lock to the commit, so everything from   *)
(* the first write on is one step; every read before it is a step of its    *)
(* own, and what it saw is kept in the request that made it.  A request     *)
(* may stop for ever between two steps: that is a crash of the process.     *)
(***************************************************************************)
EXTENDS Integers, Sequences, FiniteSets, FiniteSetsExt

CONSTANTS
    Sellers,         \* rows of Seller
    Leads,           \* rows of Lead, as the fan-out and the enquiry form created them
    Market,          \* the leads of type MARKET; the others are DIRECT
    SellerOf,        \* Lead.sellerId
    NoLead,          \* a ledger row without a leadId
    Plans,           \* rows of Plan
    MonthlyCredits,  \* Plan.leadCreditsPerMonth, 0 on the free plan
    FreePlan,        \* the plan of a seller who has just registered
    PackSize,        \* credits in a lead pack
    Adjustments,     \* deltas an administrator may type
    Requests,        \* Server Actions, webhooks and job runs; each runs once
    MaxPeriod        \* bound on the number of months

ASSUME LeadsAssumption ==
    /\ IsFiniteSet(Leads)
    /\ Market \subseteq Leads
    /\ SellerOf \in [Leads -> Sellers]
    /\ NoLead \notin Leads
ASSUME CreditsAssumption ==
    /\ FreePlan \in Plans
    /\ MonthlyCredits \in [Plans -> Nat]
    /\ PackSize \in Nat \ {0}
    /\ Adjustments \subseteq Int \ {0}
    /\ MaxPeriod \in Nat \ {0}

VARIABLES
    status,      \* Lead.status
    pastExpiry,  \* the MARKET leads whose expiresAt has passed
    flag,        \* LeadFlag.status of the lead's flag, "none" without a row
    balance,     \* Seller.creditBalance
    ledger,      \* the CreditLedger rows of each seller, in commit order
    accepted,    \* Seller.leadsAccepted
    plan,        \* the plan of the seller's live subscription
    period,      \* the current month, the periodKey of a grant made now
    req          \* what each request has read so far

vars == <<status, pastExpiry, flag, balance, ledger, accepted, plan, period, req>>
leadVars == <<status, pastExpiry, flag>>
creditVars == <<balance, ledger>>
clockVars == <<plan, period>>

Statuses == {"NEW", "VIEWED", "ACCEPTED", "CONTACTED", "WON", "LOST", "CLOSED", "EXPIRED"}
Unopened == {"NEW", "VIEWED"}
Outcomes == {"CONTACTED", "WON", "LOST"}
FlagStatuses == {"none", "OPEN", "REFUNDED", "REJECTED"}
Reasons == {"MONTHLY_GRANT", "LEAD_ACCEPT", "FLAG_REFUND", "ADDON_PURCHASE", "ADMIN_ADJUST"}
Periods == 1 .. MaxPeriod

\* A CreditLedger row; period 0 stands for a NULL periodKey.
Entry == [delta : Int \ {0}, balanceAfter : Nat, reason : Reasons,
          lead : Leads \cup {NoLead}, period : Periods \cup {0}]

Idle == [op |-> "idle"]
Done == [op |-> "done"]
TopUp == {t \in [op : {"topup"},
                 stage : {"sum", "slot", "write", "granted", "nothing", "conflict"},
                 seller : Sellers, target : Nat, period : Periods,
                 owed : Nat, reason : {"MONTHLY_GRANT", "ADMIN_ADJUST"}] :
             t.stage \in {"slot", "write"} => t.owed > 0}
Request == {Idle, Done}
      \cup [op : {"accept"}, lead : Market]
      \cup [op : {"refund", "dismiss"}, lead : Leads]
      \cup TopUp
      \cup [op : {"grant"}, period : Periods, due : SUBSET (Sellers \X (Nat \ {0}))]
      \cup [op : {"stats"}, counted : [Sellers -> Nat], due : SUBSET Sellers]

Init ==
    /\ status = [l \in Leads |-> "NEW"]
    /\ pastExpiry = {}
    /\ flag = [l \in Leads |-> "none"]
    /\ balance = [s \in Sellers |-> 0]
    /\ ledger = [s \in Sellers |-> <<>>]
    /\ accepted = [s \in Sellers |-> 0]
    /\ plan = [s \in Sellers |-> FreePlan]
    /\ period = 1
    /\ req = [r \in Requests |-> Idle]

-----------------------------------------------------------------------------
(* Reading the ledger.                                                      *)

\* The indices of the rows about lead l, and of those that hold the unique key
\* (sellerId, reason, periodKey), in one seller's rows.
RowsOf(rows, reason, l) == {i \in DOMAIN rows : rows[i].reason = reason /\ rows[i].lead = l}
SlotOf(rows, reason, p) == {i \in DOMAIN rows : rows[i].reason = reason /\ rows[i].period = p}

Charges(l) == RowsOf(ledger[SellerOf[l]], "LEAD_ACCEPT", l)
RefundRows(l) == RowsOf(ledger[SellerOf[l]], "FLAG_REFUND", l)
Slot(s, reason, p) == SlotOf(ledger[s], reason, p)

\* SUM(delta) over the positive grants and top-ups of a period.
PeriodGrants(s, p) ==
    MapThenSumSet(LAMBDA i : ledger[s][i].delta,
                  {i \in Slot(s, "MONTHLY_GRANT", p) \cup Slot(s, "ADMIN_ADJUST", p) :
                       ledger[s][i].delta > 0})

\* A lead whose buyer's number the seller is shown (projection.ts).
Revealed(l) == l \notin Market \/ status[l] = "ACCEPTED"

\* Mutant: the balance is moved without asking whether it goes below zero.
Post_NoFloor(s, delta, reason, l, p) ==
    /\ balance' = [balance EXCEPT ![s] = @ + delta]
    /\ ledger' = [ledger EXCEPT ![s] =
           Append(@, [delta |-> delta, balanceAfter |-> balance[s] + delta,
                      reason |-> reason, lead |-> l, period |-> p])]

\* Mutant: balanceAfter is the balance read before the move.
Post_StaleAfter(s, delta, reason, l, p) ==
    /\ balance[s] + delta >= 0
    /\ balance' = [balance EXCEPT ![s] = @ + delta]
    /\ ledger' = [ledger EXCEPT ![s] =
           Append(@, [delta |-> delta, balanceAfter |-> balance[s],
                      reason |-> reason, lead |-> l, period |-> p])]

\* One guarded move of the cached balance with its ledger row.
Post(s, delta, reason, l, p) ==
    /\ balance[s] + delta >= 0
    /\ balance' = [balance EXCEPT ![s] = @ + delta]
    /\ ledger' = [ledger EXCEPT ![s] =
           Append(@, [delta |-> delta, balanceAfter |-> balance[s] + delta,
                      reason |-> reason, lead |-> l, period |-> p])]

-----------------------------------------------------------------------------
(* The seller's inbox: single-statement updates of one lead.                *)

SetStatus(l, from, to) ==
    /\ status[l] \in from
    /\ status' = [status EXCEPT ![l] = to]

\* Mutant: opening a lead sets VIEWED whatever its status.
markLeadViewed_AnyStatus(l) ==
    /\ SetStatus(l, Statuses, "VIEWED")
    /\ UNCHANGED <<pastExpiry, flag, creditVars, accepted, clockVars, req>>

markLeadViewed(l) ==
    /\ SetStatus(l, {"NEW"}, "VIEWED")
    /\ UNCHANGED <<pastExpiry, flag, creditVars, accepted, clockVars, req>>

closeLead(l) ==
    /\ SetStatus(l, {"NEW", "VIEWED", "ACCEPTED"}, "CLOSED")
    /\ UNCHANGED <<pastExpiry, flag, creditVars, accepted, clockVars, req>>

\* The WHERE names no type and does not ask whether the lead was accepted.
setLeadOutcome(l, outcome) ==
    /\ SetStatus(l, {"VIEWED", "ACCEPTED"} \cup Outcomes, outcome)
    /\ UNCHANGED <<pastExpiry, flag, creditVars, accepted, clockVars, req>>

\* A second flag, or one that raced this one, fails on the unique leadId.
flagLead(l) ==
    /\ flag[l] = "none"
    /\ status[l] # "NEW"
    /\ flag' = [flag EXCEPT ![l] = "OPEN"]
    /\ UNCHANGED <<status, pastExpiry, creditVars, accepted, clockVars, req>>

\* expiresAt passes; DIRECT leads have none.
PassExpiry(l) ==
    /\ l \in Market \ pastExpiry
    /\ pastExpiry' = pastExpiry \cup {l}
    /\ UNCHANGED <<status, flag, creditVars, accepted, clockVars, req>>

\* The worker's sweep: one UPDATE over every lead past its expiry.
expireMarketLeads ==
    /\ \E l \in pastExpiry : status[l] \in Unopened
    /\ status' = [l \in Leads |-> IF l \in pastExpiry /\ status[l] \in Unopened
                                  THEN "EXPIRED" ELSE status[l]]
    /\ UNCHANGED <<pastExpiry, flag, creditVars, accepted, clockVars, req>>

-----------------------------------------------------------------------------
(* acceptLead: the lead is read outside the transaction that claims it.     *)

Finish(r) == req' = [req EXCEPT ![r] = Done]

acceptRead(r, l) ==
    /\ req[r] = Idle
    /\ l \in Market \ pastExpiry
    /\ status[l] \in Unopened
    /\ req' = [req EXCEPT ![r] = [op |-> "accept", lead |-> l]]
    /\ UNCHANGED <<leadVars, creditVars, accepted, clockVars>>

\* The claim, the debit and the counter commit together.
acceptCommit(r, l) ==
    /\ req[r] = [op |-> "accept", lead |-> l]
    /\ SetStatus(l, Unopened, "ACCEPTED")
    /\ Charges(l) = {}
    /\ balance[SellerOf[l]] >= 1
    /\ Post(SellerOf[l], -1, "LEAD_ACCEPT", l, 0)
    /\ accepted' = [accepted EXCEPT ![SellerOf[l]] = @ + 1]
    /\ Finish(r)
    /\ UNCHANGED <<pastExpiry, flag, clockVars>>

\* Mutant: a refused debit returns instead of throwing, and the claim commits.
acceptRefused_Commits(r, l) ==
    /\ req[r] = [op |-> "accept", lead |-> l]
    /\ balance[SellerOf[l]] < 1
    /\ SetStatus(l, Unopened, "ACCEPTED")
    /\ Finish(r)
    /\ UNCHANGED <<pastExpiry, flag, creditVars, accepted, clockVars>>

\* not_open, already_charged or insufficient_credits: all of it rolls back.
acceptRefused(r, l) ==
    /\ req[r] = [op |-> "accept", lead |-> l]
    /\ \/ status[l] \notin Unopened
       \/ Charges(l) # {}
       \/ balance[SellerOf[l]] < 1
    /\ Finish(r)
    /\ UNCHANGED <<leadVars, creditVars, accepted, clockVars>>

-----------------------------------------------------------------------------
(* The administrator's queue of flags.                                      *)

rejectFlag(l) ==
    /\ flag[l] = "OPEN"
    /\ flag' = [flag EXCEPT ![l] = "REJECTED"]
    /\ UNCHANGED <<status, pastExpiry, creditVars, accepted, clockVars, req>>

\* refundForFlag reads the flag without a lock ...
refundRead(r, l) ==
    /\ req[r] = Idle
    /\ flag[l] = "OPEN"
    /\ req' = [req EXCEPT ![r] = [op |-> "refund", lead |-> l]]
    /\ UNCHANGED <<leadVars, creditVars, accepted, clockVars>>

\* Mutant: the refund does not ask whether the lead was ever charged.
refundCommit_Uncharged(r, l) ==
    /\ req[r] = [op |-> "refund", lead |-> l]
    /\ Post(SellerOf[l], 1, "FLAG_REFUND", l, 0)
    /\ flag' = [flag EXCEPT ![l] = "REFUNDED"]
    /\ Finish(r)
    /\ UNCHANGED <<status, pastExpiry, accepted, clockVars>>

\* ... and neither the credit nor the flag's update asks for its status again.
refundCommit(r, l) ==
    /\ req[r] = [op |-> "refund", lead |-> l]
    /\ Charges(l) # {}
    /\ Post(SellerOf[l], 1, "FLAG_REFUND", l, 0)
    /\ flag' = [flag EXCEPT ![l] = "REFUNDED"]
    /\ Finish(r)
    /\ UNCHANGED <<status, pastExpiry, accepted, clockVars>>

\* nothing_to_refund: the action records a rejection in a second statement.
refundNothing(r, l) ==
    /\ req[r] = [op |-> "refund", lead |-> l]
    /\ Charges(l) = {}
    /\ req' = [req EXCEPT ![r] = [op |-> "dismiss", lead |-> l]]
    /\ UNCHANGED <<leadVars, creditVars, accepted, clockVars>>

dismissFlag(r, l) ==
    /\ req[r] = [op |-> "dismiss", lead |-> l]
    /\ flag' = [flag EXCEPT ![l] = IF @ = "OPEN" THEN "REJECTED" ELSE @]
    /\ Finish(r)
    /\ UNCHANGED <<status, pastExpiry, creditVars, accepted, clockVars>>

-----------------------------------------------------------------------------
(* Credits that are added.                                                  *)

adjustCredits(r, s, delta) ==
    /\ req[r] = Idle
    /\ Post(s, delta, "ADMIN_ADJUST", NoLead, 0)
    /\ Finish(r)
    /\ UNCHANGED <<leadVars, accepted, clockVars>>

\* fulfillPurchase of a LEAD_PACK, once per purchase.
buyLeadPack(r, s) ==
    /\ req[r] = Idle
    /\ Post(s, PackSize, "ADDON_PURCHASE", NoLead, 0)
    /\ Finish(r)
    /\ UNCHANGED <<leadVars, accepted, clockVars>>

\* A subscription on plan p starts; the top-up follows outside its transaction.
changeSellerPlan(r, s, p) ==
    /\ req[r] = Idle
    /\ plan[s] # p
    /\ plan' = [plan EXCEPT ![s] = p]
    /\ req' = [req EXCEPT ![r] =
           [op |-> "topup", stage |-> IF MonthlyCredits[p] > 0 THEN "sum" ELSE "nothing",
            seller |-> s, target |-> MonthlyCredits[p], period |-> period,
            owed |-> 0, reason |-> "MONTHLY_GRANT"]]
    /\ UNCHANGED <<leadVars, creditVars, accepted, period>>

AtStage(r, stage) == req[r] \in TopUp /\ req[r].stage = stage

topUpSum(r) ==
    /\ AtStage(r, "sum")
    /\ LET t == req[r]
           granted == PeriodGrants(t.seller, t.period)
       IN \/ /\ granted >= t.target
             /\ req' = [req EXCEPT ![r].stage = "nothing"]
          \/ \E owed \in 1 .. t.target :
                /\ owed = t.target - granted
                /\ req' = [req EXCEPT ![r].stage = "slot", ![r].owed = owed]
    /\ UNCHANGED <<leadVars, creditVars, accepted, clockVars>>

topUpSlot(r) ==
    /\ AtStage(r, "slot")
    /\ req' = [req EXCEPT ![r].stage = "write",
                          ![r].reason = IF Slot(req[r].seller, "MONTHLY_GRANT", req[r].period) = {}
                                        THEN "MONTHLY_GRANT" ELSE "ADMIN_ADJUST"]
    /\ UNCHANGED <<leadVars, creditVars, accepted, clockVars>>

topUpWrite(r) ==
    /\ AtStage(r, "write")
    /\ Slot(req[r].seller, req[r].reason, req[r].period) = {}
    /\ Post(req[r].seller, req[r].owed, req[r].reason, NoLead, req[r].period)
    /\ req' = [req EXCEPT ![r].stage = "granted"]
    /\ UNCHANGED <<leadVars, accepted, clockVars>>

\* The insert hits the unique (sellerId, reason, periodKey): P2002 is thrown
\* to the caller and the balance move rolls back.
topUpConflict(r) ==
    /\ AtStage(r, "write")
    /\ Slot(req[r].seller, req[r].reason, req[r].period) # {}
    /\ req' = [req EXCEPT ![r].stage = "conflict"]
    /\ UNCHANGED <<leadVars, creditVars, accepted, clockVars>>

\* The cron job lists the live subscriptions once ...
grantList(r) ==
    /\ req[r] = Idle
    /\ req' = [req EXCEPT ![r] =
           [op |-> "grant", period |-> period,
            due |-> {<<s, MonthlyCredits[plan[s]]>> : s \in {s \in Sellers : MonthlyCredits[plan[s]] > 0}}]]
    /\ UNCHANGED <<leadVars, creditVars, accepted, clockVars>>

\* Mutant: the job does not skip a seller who was already granted the month.
grantOne_Again(r) ==
    /\ req[r].op = "grant"
    /\ \E d \in req[r].due :
          /\ Post(d[1], d[2], "MONTHLY_GRANT", NoLead, req[r].period)
          /\ req' = [req EXCEPT ![r].due = @ \ {d}]
    /\ UNCHANGED <<leadVars, accepted, clockVars>>

\* ... and grants each in a transaction; a held slot is skipped.
grantOne(r) ==
    /\ req[r].op = "grant"
    /\ \E d \in req[r].due :
          /\ \/ /\ Slot(d[1], "MONTHLY_GRANT", req[r].period) = {}
                /\ Post(d[1], d[2], "MONTHLY_GRANT", NoLead, req[r].period)
             \/ /\ Slot(d[1], "MONTHLY_GRANT", req[r].period) # {}
                /\ UNCHANGED creditVars
          /\ req' = [req EXCEPT ![r].due = @ \ {d}]
    /\ UNCHANGED <<leadVars, accepted, clockVars>>

NextMonth ==
    /\ period < MaxPeriod
    /\ period' = period + 1
    /\ UNCHANGED <<leadVars, creditVars, accepted, plan, req>>

-----------------------------------------------------------------------------
(* refreshLeadStats: the nightly groupBy, then one write per seller.        *)

AcceptedNow(s) == {l \in Market : SellerOf[l] = s /\ status[l] = "ACCEPTED"}

statsRead(r) ==
    /\ req[r] = Idle
    /\ req' = [req EXCEPT ![r] =
           [op |-> "stats", counted |-> [s \in Sellers |-> Cardinality(AcceptedNow(s))],
            due |-> {SellerOf[l] : l \in Market}]]
    /\ UNCHANGED <<leadVars, creditVars, accepted, clockVars>>

statsWrite(r) ==
    /\ req[r].op = "stats"
    /\ \E s \in req[r].due :
          /\ accepted' = [accepted EXCEPT ![s] = req[r].counted[s]]
          /\ req' = [req EXCEPT ![r].due = @ \ {s}]
    /\ UNCHANGED <<leadVars, creditVars, clockVars>>

-----------------------------------------------------------------------------
InboxStep(l) ==
    \/ markLeadViewed(l) \/ closeLead(l) \/ flagLead(l) \/ PassExpiry(l) \/ rejectFlag(l)
    \/ \E outcome \in Outcomes : setLeadOutcome(l, outcome)

RequestOnLead(r, l) ==
    \/ acceptRead(r, l) \/ acceptCommit(r, l) \/ acceptRefused(r, l)
    \/ refundRead(r, l) \/ refundCommit(r, l) \/ refundNothing(r, l) \/ dismissFlag(r, l)

RequestOnSeller(r, s) ==
    \/ \E delta \in Adjustments : adjustCredits(r, s, delta)
    \/ buyLeadPack(r, s)
    \/ \E p \in Plans : changeSellerPlan(r, s, p)

JobStep(r) ==
    \/ topUpSum(r) \/ topUpSlot(r) \/ topUpWrite(r) \/ topUpConflict(r)
    \/ grantList(r) \/ grantOne(r) \/ statsRead(r) \/ statsWrite(r)

Next ==
    \/ \E l \in Leads : InboxStep(l)
    \/ expireMarketLeads
    \/ \E r \in Requests :
          \/ \E l \in Leads : RequestOnLead(r, l)
          \/ \E s \in Sellers : RequestOnSeller(r, s)
          \/ JobStep(r)
    \/ NextMonth

Spec == Init /\ [][Next]_vars

-----------------------------------------------------------------------------
(* Type invariant.                                                          *)

\* Every row and every request has the shape its columns allow, the CHECK
\* constraints on creditBalance, balanceAfter and delta among them.
TypeOK ==
    /\ status \in [Leads -> Statuses]
    /\ pastExpiry \subseteq Market
    /\ flag \in [Leads -> FlagStatuses]
    /\ balance \in [Sellers -> Nat]
    /\ ledger \in [Sellers -> Seq(Entry)]
    /\ accepted \in [Sellers -> Nat]
    /\ plan \in [Sellers -> Plans]
    /\ period \in Periods
    /\ req \in [Requests -> Request]

-----------------------------------------------------------------------------
(* Safety.                                                                  *)

\* acceptLead: a seller is shown the number of a MARKET buyer only after a
\* credit was charged for that very lead, whatever requests interleave.
RevealedIsPaid ==
    \A l \in Market : Revealed(l) => Charges(l) # {}

\* debitForAcceptWith: no lead is charged twice, and none is charged that the
\* seller could still accept or the sweep has expired.
ChargedOnce ==
    \A l \in Leads :
        /\ \A i, j \in Charges(l) : i = j
        /\ Charges(l) # {} => l \in Market /\ status[l] \notin Unopened \cup {"EXPIRED"}

\* credit.service: the ledger is a chain that starts at 0 and ends at the
\* cached balance, so the balance is SUM(delta) at every row.
LedgerExplainsBalance ==
    \A s \in Sellers :
        /\ balance[s] = IF ledger[s] = <<>> THEN 0 ELSE ledger[s][Len(ledger[s])].balanceAfter
        /\ \A i \in DOMAIN ledger[s] :
              ledger[s][i].balanceAfter =
                  ledger[s][i].delta + (IF i = 1 THEN 0 ELSE ledger[s][i - 1].balanceAfter)

\* grantMonthlyCredits and topUpCreditsForPlanChange: one grant of each reason
\* per seller and month, however often the job runs and whoever it races.
OneGrantPerPeriod ==
    \A s \in Sellers, p \in Periods, reason \in {"MONTHLY_GRANT", "ADMIN_ADJUST"} :
        \A i, j \in Slot(s, reason, p) : i = j

\* refundForFlag: a credit is returned only for a lead whose charge came
\* before, to the seller who paid it, and the flag says so ever after.
RefundsAreEarned ==
    \A l \in Leads :
        /\ (flag[l] = "REFUNDED") <=> (RefundRows(l) # {})
        /\ \A i \in RefundRows(l) : \E j \in Charges(l) : j < i

\* A settled lead stays settled: neither an accept that read the lead before
\* the sweep or the close, nor an outcome, brings it back.
SettledIsFinal ==
    [][\A l \in Leads : status[l] \in {"CLOSED", "EXPIRED"} => status'[l] = status[l]]_vars

-----------------------------------------------------------------------------
(* The account behind the ledger.                                           *)

Account == INSTANCE LeadAccount WITH
    Allowances <- UNION {1 .. MonthlyCredits[p] : p \in Plans},
    Movements <- Adjustments \cup {PackSize},
    Months <- Periods,
    bought <- {l \in Market : Charges(l) # {}},
    shown <- {l \in Market : Revealed(l)},
    granted <- {g \in Sellers \X {"MONTHLY_GRANT", "ADMIN_ADJUST"} \X Periods :
                   Slot(g[1], g[2], g[3]) # {}}

\* Ledger, claims and grants, with everything that races them, are an account:
\* every step buys a lead with a credit, returns one for a lead that was
\* bought, gives a grant of the month that was not given, or leaves it alone.
ImplementsAccount == Account!Spec

-----------------------------------------------------------------------------
(* What comments and docs of the repository say, and the code does not do.  *)

\* "Return the credit for a flagged lead. Idempotent per flag." (refundForFlag)
OneRefundPerFlag == \A l \in Leads : \A i, j \in RefundRows(l) : i = j

\* "Only from a state where the seller already has the buyer's number"
\* (setLeadOutcome).
OutcomeAfterReveal ==
    [][\A l \in Leads : \A o \in Outcomes : status[l] \notin Outcomes /\ status'[l] = o => Revealed(l)]_vars

\* "CONTACTED, WON and LOST ... carry no credit or masking effect" (LEADS.md 2):
\* an outcome does not hide a number the seller paid for.
OutcomeKeepsReveal ==
    [][\A l \in Leads : Revealed(l) /\ status'[l] \in Outcomes => Revealed(l)']_vars

\* "Bring a seller up to their plan's monthly credits ... an upgrade mid-month
\* is usable immediately" (topUpCreditsForPlanChange): a top-up that has ended
\* left the seller with at least its target for the month.
UpgradeIsUsable ==
    \A r \in Requests :
        req[r] \in TopUp /\ req[r].stage \in {"granted", "nothing", "conflict"}
            => PeriodGrants(req[r].seller, req[r].period) >= req[r].target

\* "the seller receives the difference between the new plan's grant and
\* whatever this period already granted them": a month's grants never add up to
\* more than the dearest plan gives.
GrantsWithinPlan ==
    \A s \in Sellers, p \in Periods : \E q \in Plans : PeriodGrants(s, p) <= MonthlyCredits[q]

\* "The accept path maintains them inline; this catches drift"
\* (refreshLeadStats): the counter is the number of leads the seller accepted.
AcceptedIsCharged ==
    \A s \in Sellers :
        accepted[s] = Cardinality({l \in Market : SellerOf[l] = s /\ Charges(l) # {}})
================================================================================
