------------------------------ MODULE OneTimeCodes ------------------------------
(***************************************************************************)
(* The proofs of an address: six-digit codes for a phone or a mailbox        *)
(* (lib/otp/challenge.ts, lib/otp/email-challenge.ts) and the links of a     *)
(* verification, a password reset or a store hand-off (lib/tokens.ts).       *)
(*                                                                         *)
(* All of them belong to one address and one purpose here.  A new code       *)
(* replaces the open ones in one transaction, a new link in two statements.  *)
(* A code is checked against the latest open row, counted when it is wrong,  *)
(* and consumed by an update that only one request can win.                 *)
(***************************************************************************)
EXTENDS Integers, FiniteSets

CONSTANTS
    Codes,        \* rows of OtpChallenge or EmailOtp that may come to exist
    Links,        \* rows of VerificationToken
    Wrong,        \* any input that is none of them
    MaxAttempts,
    CodeLife,     \* OTP_TTL_MS, in ticks
    LinkLife,     \* TOKEN_TTL_MS
    Cooldown,     \* EMAIL_OTP_RESEND_COOLDOWN_MS; 0 for the phone
    MaxClock,     \* bound on time
    Requests,     \* server actions that run at once
    MaxDeaths     \* bound on processes that die

ASSUME CodeAssumption ==
    /\ IsFiniteSet(Codes) /\ IsFiniteSet(Links) /\ IsFiniteSet(Requests)
    /\ Codes \cap Links = {} /\ Wrong \notin Codes \cup Links
    /\ MaxAttempts \in Nat \ {0}
    /\ CodeLife \in Nat /\ LinkLife \in Nat /\ Cooldown \in Nat
    /\ MaxClock \in Nat /\ MaxDeaths \in Nat

VARIABLES
    row,       \* status, times and attempts of each row
    held,      \* codes and links that reached the owner of the address
    clock,
    req,       \* the requests in progress
    before,    \* history: the rows that existed when a row was asked for
    guesses,   \* history: how often something typed was compared with a code
    effects,   \* history: what was done with each row (verified, reset, handed off)
    deaths

vars == <<row, held, clock, req, before, guesses, effects, deaths>>

Items == Codes \cup Links
Statuses == {"absent", "open", "consumed", "deleted"}
Idle == [next |-> "idle"]
Request == {Idle}
    \cup [next : {"delete", "create"}, item : Items, expires : Nat, old : SUBSET Items]
    \cup [next : {"send", "miss", "consume", "effect"}, item : Items]

Init ==
    /\ row = [i \in Items |-> [status |-> "absent", created |-> 0, expires |-> 0, attempts |-> 0]]
    /\ held = {}
    /\ clock = 0
    /\ req = [r \in Requests |-> Idle]
    /\ before = [i \in Items |-> {}]
    /\ guesses = [i \in Codes |-> 0]
    /\ effects = [i \in Items |-> 0]
    /\ deaths = 0

At(r, step) == req[r].next = step
Finish(r) == req' = [req EXCEPT ![r] = Idle]
Then(r, step, i) == req' = [req EXCEPT ![r] = [next |-> step, item |-> i]]
OpenAmong(kind) == {i \in kind : row[i].status = "open"}
Same(i) == IF i \in Codes THEN Codes ELSE Links
Life(i) == IF i \in Codes THEN CodeLife ELSE LinkLife
Asked(i) == \E r \in Requests : ~At(r, "idle") /\ req[r].item = i
Delete(is) == [i \in Items |-> IF i \in is THEN [row[i] EXCEPT !.status = "deleted"] ELSE row[i]]

Latest(kind) == {i \in OpenAmong(kind) : \A j \in OpenAmong(kind) : row[j].created <= row[i].created}

-----------------------------------------------------------------------------
(* Issue.                                                                   *)

\* issueEmailOtp looks at the latest open code; issueOtp does not.
CooledDown == \A i \in Latest(Codes) : clock - row[i].created >= Cooldown

\* The expiry is computed before anything is written.
issue(r, i) ==
    /\ At(r, "idle") /\ row[i].status = "absent" /\ ~Asked(i)
    /\ i \in Codes => CooledDown
    /\ req' = [req EXCEPT ![r] = [next |-> "delete", item |-> i, expires |-> clock + Life(i), old |-> {}]]
    /\ before' = [before EXCEPT ![i] = {j \in Same(i) : row[j].status # "absent"}]
    /\ UNCHANGED <<row, held, clock, guesses, effects, deaths>>

\* Mutant: only what has expired is cleared away.
deleteOlder_Expired(r) ==
    LET i == req[r].item
        old == {j \in OpenAmong(Same(i)) : row[j].expires < clock}
    IN
    /\ At(r, "delete")
    /\ IF i \in Codes
       THEN req' = [req EXCEPT ![r].next = "create", ![r].old = old] /\ UNCHANGED row
       ELSE req' = [req EXCEPT ![r].next = "create"] /\ row' = Delete(old)
    /\ UNCHANGED <<held, clock, before, guesses, effects, deaths>>

\* deleteMany takes the open rows it sees.  For a code it is the first half of
\* a transaction, for a link a statement of its own.
deleteOlder(r) ==
    LET i == req[r].item
        old == OpenAmong(Same(i))
    IN
    /\ At(r, "delete")
    /\ IF i \in Codes
       THEN req' = [req EXCEPT ![r].next = "create", ![r].old = old] /\ UNCHANGED row
       ELSE req' = [req EXCEPT ![r].next = "create"] /\ row' = Delete(old)
    /\ UNCHANGED <<held, clock, before, guesses, effects, deaths>>

\* The new row, and with it the end of the transaction.
createRow(r) ==
    LET i == req[r].item IN
    /\ At(r, "create")
    /\ row' = [Delete(req[r].old) EXCEPT ![i] =
                  [status |-> "open", created |-> clock, expires |-> req[r].expires, attempts |-> 0]]
    /\ Then(r, "send", i)
    /\ UNCHANGED <<held, clock, before, guesses, effects, deaths>>

\* A code that cannot be delivered is deleted again; a link is left alone.
send(r) ==
    LET i == req[r].item IN
    /\ At(r, "send")
    /\ \/ held' = held \cup {i} /\ UNCHANGED row
       \/ /\ i \in Codes
          /\ row' = IF row[i].status = "absent" THEN row ELSE Delete({i})
          /\ UNCHANGED held
       \/ i \in Links /\ UNCHANGED <<row, held>>
    /\ Finish(r)
    /\ UNCHANGED <<clock, before, guesses, effects, deaths>>

-----------------------------------------------------------------------------
(* Verify.                                                                  *)

\* Mutant: a locked code is compared like any other.
verifyCode_NotLocked(r, typed) ==
    /\ At(r, "idle")
    /\ \E i \in Latest(Codes) :
          /\ row[i].expires >= clock
          /\ guesses' = [guesses EXCEPT ![i] = @ + 1]
          /\ Then(r, IF typed = i THEN "consume" ELSE "miss", i)
    /\ UNCHANGED <<row, held, clock, before, effects, deaths>>

\* verifyOtp reads the latest open code; where it is expired or locked, or there
\* is none, nothing changes.  What was typed is compared before it is counted.
verifyCode(r, typed) ==
    /\ At(r, "idle")
    /\ \E i \in Latest(Codes) :
          /\ row[i].expires >= clock /\ row[i].attempts < MaxAttempts
          /\ guesses' = [guesses EXCEPT ![i] = @ + 1]
          /\ Then(r, IF typed = i THEN "consume" ELSE "miss", i)
    /\ UNCHANGED <<row, held, clock, before, effects, deaths>>

\* The guarded increment; a row that was deleted meanwhile is not found.
countMiss(r) ==
    LET i == req[r].item IN
    /\ At(r, "miss")
    /\ IF row[i].attempts < MaxAttempts /\ row[i].status # "deleted"
       THEN row' = [row EXCEPT ![i].attempts = @ + 1] ELSE UNCHANGED row
    /\ Finish(r)
    /\ UNCHANGED <<held, clock, before, guesses, effects, deaths>>

\* consumeToken finds a link by its own hash, expired or not.
verifyLink(r, i) ==
    /\ At(r, "idle") /\ row[i].status = "open"
    /\ Then(r, "consume", i)
    /\ UNCHANGED <<row, held, clock, before, guesses, effects, deaths>>

\* Mutant: the row is consumed by its id alone.
consume_ById(r) ==
    LET i == req[r].item IN
    /\ At(r, "consume")
    /\ row' = [row EXCEPT ![i].status = IF i \in Codes THEN "consumed" ELSE "deleted"]
    /\ IF i \in Codes \/ row[i].expires >= clock THEN Then(r, "effect", i) ELSE Finish(r)
    /\ UNCHANGED <<held, clock, before, guesses, effects, deaths>>

\* Only one request finds a code unconsumed.  A link is deleted, which throws
\* for the second one, and its expiry is looked at afterwards.
consume(r) ==
    LET i == req[r].item IN
    /\ At(r, "consume")
    /\ \/ /\ row[i].status = "open"
          /\ row' = [row EXCEPT ![i].status = IF i \in Codes THEN "consumed" ELSE "deleted"]
          /\ IF i \in Codes \/ row[i].expires >= clock THEN Then(r, "effect", i) ELSE Finish(r)
       \/ row[i].status # "open" /\ Finish(r) /\ UNCHANGED row
    /\ UNCHANGED <<held, clock, before, guesses, effects, deaths>>

\* What the caller does next: emailVerified, the new password, the session.
effect(r) ==
    /\ At(r, "effect")
    /\ effects' = [effects EXCEPT ![req[r].item] = @ + 1]
    /\ Finish(r)
    /\ UNCHANGED <<row, held, clock, before, guesses, deaths>>

-----------------------------------------------------------------------------
tick ==
    /\ clock < MaxClock
    /\ clock' = clock + 1
    /\ UNCHANGED <<row, held, req, before, guesses, effects, deaths>>

\* pruneExpiredOtpChallenges and pruneExpiredTokens, which keep codes a day.
prune ==
    /\ row' = Delete({i \in Links : row[i].status = "open" /\ row[i].expires < clock})
    /\ UNCHANGED <<held, clock, req, before, guesses, effects, deaths>>

\* An uncommitted transaction leaves nothing behind.
processDies(r) ==
    /\ deaths < MaxDeaths /\ deaths' = deaths + 1
    /\ ~At(r, "idle")
    /\ Finish(r)
    /\ UNCHANGED <<row, held, clock, before, guesses, effects>>

Next ==
    \/ tick \/ prune
    \/ \E r \in Requests :
          \/ \E i \in Items : issue(r, i)
          \/ deleteOlder(r) \/ createRow(r) \/ send(r)
          \/ \E typed \in (held \cap Codes) \cup {Wrong} : verifyCode(r, typed)
          \/ \E i \in held \cap Links : verifyLink(r, i)
          \/ countMiss(r) \/ consume(r) \/ effect(r)
          \/ processDies(r)

Spec == Init /\ [][Next]_vars

-----------------------------------------------------------------------------
(* Properties.                                                              *)

Columns ==
    /\ row \in [Items -> [status : Statuses, created : Nat, expires : Nat, attempts : Nat]]
    /\ held \subseteq Items
    /\ clock \in 0 .. MaxClock
    /\ req \in [Requests -> Request]
    /\ before \in [Items -> SUBSET Items]
    /\ effects \in [Items -> Nat]
    /\ deaths \in 0 .. MaxDeaths

AttemptsWithinLimit == \A i \in Codes : row[i].attempts <= MaxAttempts

\* The columns' types with the CHECK of the attempts, and the state a request can
\* be in.
TypeOK == Columns /\ AttemptsWithinLimit /\ guesses \in [Codes -> Nat]

\* The counter is read before a guess is compared and written after it, so that
\* guesses at once share its last attempt: a code is compared with at most one
\* guess more than it has attempts for each further request at once and for each
\* process that died before it counted, and no order of them allows more.
GuessesAreBounded ==
    \A i \in Codes : guesses[i] <= MaxAttempts - 1 + Cardinality(Requests) + deaths

\* "Single use: only the first correct submission wins a race": one code or link
\* verifies, resets or signs in once, and leaves no open row behind.
OneEffectPerCode ==
    \A i \in Items :
        effects[i] + Cardinality({r \in Requests : At(r, "effect") /\ req[r].item = i})
            <= (IF row[i].status \in {"consumed", "deleted"} THEN 1 ELSE 0)

\* "Resend invalidates the previous code rather than leaving two live ones": what
\* existed before a newer one was asked for is not accepted once the newer one
\* exists.  (Two that are asked for at once may both stay open.)
ReplacedIsNotAccepted ==
    [][\A i \in Items :
          (\E r \in Requests : At(r, "consume") /\ req[r].item = i /\ req'[r].next = "effect")
          => \A j \in Items : row[j].status # "absent" => i \notin before[j]]_vars

\* "A resend before this is refused": a code that was open when the next one was
\* asked for is replaced only after the cooldown.
CooldownKeepsApart ==
    [][\A j \in Codes : row[j].status = "absent" /\ row'[j].status = "open" =>
          \A i \in before[j] : row[i].status = "open" => clock - row[i].created >= Cooldown]_vars

\* "Two parallel guesses cannot both pass as the third" and "rather than a fourth
\* try" (challenge.ts:20-23, 158-159).
GuessesWithinLimit == \A i \in Codes : guesses[i] <= MaxAttempts

\* "Rather than leaving two live ones" (challenge.ts, email-challenge.ts).
OneOpenCode == Cardinality(OpenAmong(Codes)) <= 1
================================================================================
