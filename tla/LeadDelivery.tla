------------------------------ MODULE LeadDelivery ------------------------------
(***************************************************************************)
(* The LeadDelivery outbox and the workers that drain it                    *)
(* (delivery.service.ts, worker/index.ts, lib/notify).                      *)
(*                                                                         *)
(* A claim leaves the row PENDING and takes a lease of one minute: the row's *)
(* updatedAt.  The worker then goes through its batch row by row, and each   *)
(* row is read, handed to the notifier and written in separate steps, none   *)
(* of which asks whether the lease still holds.                             *)
(***************************************************************************)
EXTENDS Integers, FiniteSets

CONSTANTS
    Deliveries,   \* rows of LeadDelivery
    Panel,        \* those of channel PANEL; the others go to WhatsApp
    Reachable,    \* those whose seller has a valid WhatsApp number
    Workers,
    Batch,        \* DELIVERY_BATCH
    MaxAttempts,  \* DELIVERY_MAX_ATTEMPTS
    MaxClaims,    \* bound on the claims of one row
    MaxFaults     \* bound on crashes, failed queries and lost answers

ASSUME DeliveryAssumption ==
    /\ IsFiniteSet(Deliveries)
    /\ Panel \subseteq Deliveries /\ Reachable \subseteq Deliveries
    /\ Batch \in Nat \ {0} /\ MaxAttempts \in Nat \ {0}
    /\ MaxClaims \in Nat /\ MaxFaults \in Nat

VARIABLES
    deliveryStatus,    \* LeadDelivery.status, "absent" before the lead is written
    attempts,  \* LeadDelivery.attempts
    leased,    \* the rows whose updatedAt is less than a minute old
    sends,     \* messages of a row the provider accepted
    worker,    \* the rest of each worker's batch and the row in its hands
    faults     \* failures so far

rowVars == <<deliveryStatus, attempts, leased>>
deliveryVars == <<rowVars, sends, worker, faults>>

Final == {"SENT", "FAILED", "SKIPPED"}
Results == {"ok", "retryable", "permanent"}
NoRow == [stage |-> "between"]
Hand == {NoRow}
   \cup [stage : {"read"}, row : Deliveries, attempts : Nat]
   \cup [stage : {"notified"}, row : Deliveries, attempts : Nat, result : Results]

DeliveryInit ==
    /\ deliveryStatus = [d \in Deliveries |-> "absent"]
    /\ attempts = [d \in Deliveries |-> 0]
    /\ leased = {}
    /\ sends = [d \in Deliveries |-> 0]
    /\ worker = [w \in Workers |-> [batch |-> {}, hand |-> NoRow]]
    /\ faults = 0

\* createRequirement and the fan-out insert the rows of a lead.
enqueue(d) ==
    /\ deliveryStatus[d] = "absent"
    /\ deliveryStatus' = [deliveryStatus EXCEPT ![d] = "PENDING"]
    /\ UNCHANGED <<attempts, leased, sends, worker, faults>>

LeaseExpires(d) ==
    /\ d \in leased
    /\ leased' = leased \ {d}
    /\ UNCHANGED <<deliveryStatus, attempts, sends, worker, faults>>

-----------------------------------------------------------------------------
(* One tick of a worker.                                                    *)

Resting(w) == worker[w] = [batch |-> {}, hand |-> NoRow]
InHand(w, stage) == worker[w].hand.stage = stage
Take(w, d, hand) == worker' = [worker EXCEPT ![w] = [batch |-> @.batch \ {d}, hand |-> hand]]
PutDown(w) == worker' = [worker EXCEPT ![w].hand = NoRow]

\* Mutants: rows that were sent are claimed again; a row is claimed only once.
Claimable_Sent ==
    {d \in Deliveries : deliveryStatus[d] \in {"PENDING", "SENT"} /\ (attempts[d] = 0 \/ d \notin leased)}
Claimable_Once == {d \in Deliveries : deliveryStatus[d] = "PENDING" /\ attempts[d] = 0}

Claimable == {d \in Deliveries : deliveryStatus[d] = "PENDING" /\ (attempts[d] = 0 \/ d \notin leased)}

\* The oldest Batch claimable rows, or all of them when there are fewer.
Batches ==
    {ids \in SUBSET Claimable :
        \/ ids = Claimable /\ Cardinality(ids) <= Batch
        \/ Cardinality(Claimable) > Batch /\ Cardinality(ids) = Batch}

claimPendingDeliveries(w) ==
    /\ Resting(w)
    /\ \E ids \in Batches \ {{}} :
          /\ \A d \in ids : attempts[d] < MaxClaims
          /\ attempts' = [d \in Deliveries |-> IF d \in ids THEN attempts[d] + 1 ELSE attempts[d]]
          /\ leased' = leased \cup ids
          /\ worker' = [worker EXCEPT ![w].batch = ids]
    /\ UNCHANGED <<deliveryStatus, sends, faults>>

\* A PANEL row is sent because the lead exists; a seller without a number is
\* skipped.  Neither asks the provider.
settleWithoutProvider(w, d) ==
    /\ InHand(w, "between") /\ d \in worker[w].batch
    /\ d \in Panel \/ d \notin Reachable
    /\ deliveryStatus' = [deliveryStatus EXCEPT ![d] = IF d \in Panel THEN "SENT" ELSE "SKIPPED"]
    /\ Take(w, d, NoRow)
    /\ UNCHANGED <<attempts, leased, sends, faults>>

\* The row's status is not among the columns that are read.
readDelivery(w, d) ==
    /\ InHand(w, "between") /\ d \in worker[w].batch
    /\ d \in Reachable \ Panel
    /\ Take(w, d, [stage |-> "read", row |-> d, attempts |-> attempts[d]])
    /\ UNCHANGED <<rowVars, sends, faults>>

Notified(w, result) ==
    worker' = [worker EXCEPT ![w].hand =
        [stage |-> "notified", row |-> @.row, attempts |-> @.attempts, result |-> result]]

notify(w) ==
    /\ InHand(w, "read")
    /\ \E result \in Results :
          /\ Notified(w, result)
          /\ sends' = IF result = "ok" THEN [sends EXCEPT ![worker[w].hand.row] = @ + 1] ELSE sends
    /\ UNCHANGED <<rowVars, faults>>

\* The provider accepts the message and its answer is lost.
notifyAnswerLost(w) ==
    /\ InHand(w, "read") /\ faults < MaxFaults
    /\ Notified(w, "retryable")
    /\ sends' = [sends EXCEPT ![worker[w].hand.row] = @ + 1]
    /\ faults' = faults + 1
    /\ UNCHANGED rowVars

\* The outcome is written over whatever the row says by now, and touches
\* updatedAt.
Exhausted(hand) == hand.attempts >= MaxAttempts \/ hand.result = "permanent"
OutcomeOf(hand) ==
    IF hand.result = "ok" THEN "SENT" ELSE IF Exhausted(hand) THEN "FAILED" ELSE "PENDING"

recordResult(w) ==
    /\ InHand(w, "notified")
    /\ deliveryStatus' = [deliveryStatus EXCEPT ![worker[w].hand.row] = OutcomeOf(worker[w].hand)]
    /\ leased' = leased \cup {worker[w].hand.row}
    /\ PutDown(w)
    /\ UNCHANGED <<attempts, sends, faults>>

\* A query of processDelivery throws: the loop goes on with the next row.
processingThrows(w) ==
    /\ ~InHand(w, "between") /\ faults < MaxFaults
    /\ PutDown(w)
    /\ faults' = faults + 1
    /\ UNCHANGED <<rowVars, sends>>

\* The process dies with the rest of its batch.
crash(w) ==
    /\ ~Resting(w) /\ faults < MaxFaults
    /\ worker' = [worker EXCEPT ![w] = [batch |-> {}, hand |-> NoRow]]
    /\ faults' = faults + 1
    /\ UNCHANGED <<rowVars, sends>>

WorkerStep(w) ==
    \/ claimPendingDeliveries(w)
    \/ \E d \in Deliveries : settleWithoutProvider(w, d) \/ readDelivery(w, d)
    \/ notify(w) \/ recordResult(w)

WorkerFault(w) == notifyAnswerLost(w) \/ processingThrows(w) \/ crash(w)

DeliveryNext ==
    \/ \E d \in Deliveries : enqueue(d) \/ LeaseExpires(d)
    \/ \E w \in Workers : WorkerStep(w) \/ WorkerFault(w)

DeliverySpec == DeliveryInit /\ [][DeliveryNext]_deliveryVars

\* The worker's loop never ends and a minute always passes.
FairSpec ==
    /\ DeliverySpec
    /\ \A w \in Workers : WF_deliveryVars(WorkerStep(w))
    /\ \A d \in Deliveries : WF_deliveryVars(LeaseExpires(d))

-----------------------------------------------------------------------------
(* Properties.                                                              *)

\* The columns' types, and the state a worker can be in.
DeliveryTypeOK ==
    /\ deliveryStatus \in [Deliveries -> Final \cup {"absent", "PENDING"}]
    /\ attempts \in [Deliveries -> 0 .. MaxClaims]
    /\ leased \subseteq Deliveries
    /\ sends \in [Deliveries -> Nat]
    /\ worker \in [Workers -> [batch : SUBSET Deliveries, hand : Hand]]
    /\ faults \in 0 .. MaxFaults

\* processDelivery: a WhatsApp row says SENT only if the provider took a message.
SentWasAccepted ==
    \A d \in Deliveries \ Panel : deliveryStatus[d] = "SENT" => sends[d] > 0

\* With one worker process, a row that was decided is never decided again: the
\* batch in hand is the only one, and it holds each row once.
DecidedIsFinal ==
    [][\A d \in Deliveries : deliveryStatus[d] \in Final => deliveryStatus'[d] = deliveryStatus[d]]_deliveryVars

\* With one worker process, every message a seller receives beyond the first is
\* explained by a crash, a failed write or a lost answer.
ExtraSendsAreFaults == \A d \in Deliveries : sends[d] <= 1 + faults

\* drainDeliveries: the lease brings a row back after a crash, so every row is
\* decided in the end.
EventuallyDecided == \A d \in Deliveries : deliveryStatus[d] = "PENDING" ~> deliveryStatus[d] \in Final

\* "Retryable errors re-queue with backoff, up to 5 attempts" (LEADS.md 5).
AttemptsAreLimited == \A d \in Deliveries : attempts[d] <= MaxAttempts

\* "Every claim is FOR UPDATE SKIP LOCKED, so they never take the same row"
\* (worker/index.ts).
Held(w) == worker[w].batch \cup (IF InHand(w, "between") THEN {} ELSE {worker[w].hand.row})
NeverTheSameRow == \A w, v \in Workers : w # v => Held(w) \cap Held(v) = {}
================================================================================
