--------------------------- MODULE WebhookOutbox ---------------------------
(***************************************************************************)
(* packages/webhook/dispatcher.py, the scheduler's webhook job and the     *)
(* routes that replay attempts: the outbox webhook_attempts, drained by    *)
(* any number of scheduler processes.                                      *)
(*                                                                         *)
(* A dispatcher resets stuck rows, claims a batch in one transaction,      *)
(* loads the rows it claimed, posts them in parallel and writes all the    *)
(* results in one commit.  An ORM commit writes the columns that differ    *)
(* from what was loaded, by primary key: it does not look at the claim     *)
(* again.  Time is abstracted to the two comparisons the code makes with   *)
(* it: next_run_at <= now is "due", claimed_at <= now - 5 min is "stale".  *)
(***************************************************************************)
EXTENDS Integers, FiniteSets, Absent

CONSTANTS
    Attempts,      \* ids of webhook_attempts rows
    Dispatchers,   \* scheduler processes; _dispatch_lock: one batch each
    MaxAttempts,   \* webhook_attempts.max_attempts
    BatchSize,     \* DEFAULT_BATCH_SIZE
    MaxCrashes,    \* bound on crashes of a process that holds a batch
    MaxOverruns,   \* bound on leases that run out while their batch still runs
    MaxManual,     \* bound on manual requests
    ManualKinds    \* the manual routes in use, of RequestKinds

ASSUME MaxAttemptsAssumption == MaxAttempts \in Nat \ {0}
ASSUME BatchSizeAssumption == BatchSize \in Nat \ {0}
ASSUME BoundsAssumption == MaxCrashes \in Nat /\ MaxOverruns \in Nat /\ MaxManual \in Nat

VARIABLES
    status,    \* webhook_attempts.status ("absent" before ingest inserts it)
    tries,     \* webhook_attempts.attempt
    due,       \* next_run_at <= now
    claim,     \* who set claimed_at, None when it is NULL
    stale,     \* claimed_at <= now - STUCK_DISPATCH_TIMEOUT
    active,    \* webhooks.active of the attempt's webhook
    dpc,       \* where a dispatcher is: idle, claim, load, send
    batch,     \* the rows it claimed, then the rows it loaded
    seen,      \* the columns as it loaded them
    outcome,   \* the _Outcome of each row of the batch
    request,   \* a replay or redeliver request between its load and its commit
    acked,     \* rows for which the endpoint answered 2xx at least once
    crashes, overruns, manual   \* how much of each bound is used

rowvars == <<status, tries, due, claim, stale>>
dvars == <<dpc, batch, seen, outcome>>
bounds == <<crashes, overruns, manual>>
vars == <<rowvars, active, dvars, request, acked, bounds>>

Statuses == {"absent", "pending", "dispatching", "delivered", "dead"}
Outcomes == {"ok", "failed", "lost", "fatal"}
RequestKinds == {"replay", "retry", "redeliver"}

ASSUME NoneAssumption == None \notin Dispatchers \cup Outcomes
ASSUME ManualKindsAssumption == ManualKinds \subseteq RequestKinds

\* The columns of a row that its writers compare or write.
Columns == [status : Statuses, tries : Nat, claim : Dispatchers \cup {None}, active : BOOLEAN]
Row(a) == [status |-> status[a], tries |-> tries[a], claim |-> claim[a], active |-> active[a]]

TypeOK ==
    /\ status \in [Attempts -> Statuses]
    /\ tries \in [Attempts -> Nat]
    /\ due \in [Attempts -> BOOLEAN]
    /\ claim \in [Attempts -> Dispatchers \cup {None}]
    /\ stale \in [Attempts -> BOOLEAN]
    /\ active \in [Attempts -> BOOLEAN]
    /\ dpc \in [Dispatchers -> {"idle", "claim", "load", "send"}]
    /\ batch \in [Dispatchers -> SUBSET Attempts]
    /\ seen \in [Dispatchers -> [Attempts -> Columns \cup {None}]]
    /\ outcome \in [Dispatchers -> [Attempts -> Outcomes \cup {None}]]
    /\ request \in [kind : RequestKinds, a : Attempts, seen : Columns] \cup {None}
    /\ acked \subseteq Attempts
    /\ crashes \in 0..MaxCrashes /\ overruns \in 0..MaxOverruns /\ manual \in 0..MaxManual

Init ==
    /\ status = [a \in Attempts |-> "absent"]
    /\ tries = [a \in Attempts |-> 0]
    /\ due = [a \in Attempts |-> FALSE]
    /\ claim = [a \in Attempts |-> None]
    /\ stale = [a \in Attempts |-> FALSE]
    /\ active = [a \in Attempts |-> TRUE]
    /\ dpc = [d \in Dispatchers |-> "idle"]
    /\ batch = [d \in Dispatchers |-> {}]
    /\ seen = [d \in Dispatchers |-> [a \in Attempts |-> None]]
    /\ outcome = [d \in Dispatchers |-> [a \in Attempts |-> None]]
    /\ request = None
    /\ acked = {}
    /\ crashes = 0 /\ overruns = 0 /\ manual = 0
-----------------------------------------------------------------------------
\* ingest_transaction inserts one attempt per active webhook of the order.
Enqueue(a) ==
    /\ status[a] = "absent"
    /\ active[a]
    /\ status' = [status EXCEPT ![a] = "pending"]
    /\ due' = [due EXCEPT ![a] = TRUE]
    /\ UNCHANGED <<tries, claim, stale, active, dvars, request, acked, bounds>>

\* The clock reaches next_run_at.
BecomeDue(a) ==
    /\ status[a] = "pending"
    /\ ~due[a]
    /\ due' = [due EXCEPT ![a] = TRUE]
    /\ UNCHANGED <<status, tries, claim, stale, active, dvars, request, acked, bounds>>

\* Five minutes pass since the claim.  Normally its holder is gone by then; a
\* batch that still runs (slow endpoints, a suspended process) is an overrun.
LeaseRunsOut(a) ==
    LET holder == claim[a]
        running == holder # None /\ dpc[holder] # "idle" /\ a \in batch[holder]
    IN  /\ status[a] = "dispatching" /\ claim[a] # None
        /\ ~stale[a]
        /\ running => overruns < MaxOverruns
        /\ stale' = [stale EXCEPT ![a] = TRUE]
        /\ overruns' = IF running THEN overruns + 1 ELSE overruns
        /\ UNCHANGED <<status, tries, due, claim, active, dvars, request, acked, crashes, manual>>

\* reset_stuck_dispatching's UPDATE.  (StuckAtAnyAge is a mutant: no threshold.)
StuckAtAnyAge(a) == status[a] = "dispatching" /\ claim[a] # None
Stuck(a) == status[a] = "dispatching" /\ claim[a] # None /\ stale[a]
ResetStuck ==
    /\ status' = [a \in Attempts |-> IF Stuck(a) THEN "pending" ELSE status[a]]
    /\ claim' = [a \in Attempts |-> IF Stuck(a) THEN None ELSE claim[a]]
    /\ stale' = [a \in Attempts |-> IF Stuck(a) THEN FALSE ELSE stale[a]]
    /\ UNCHANGED <<tries, due>>

\* Mutant: a batch that does not reset first.
BeginWithoutReset(d) ==
    /\ dpc[d] = "idle"
    /\ dpc' = [dpc EXCEPT ![d] = "claim"]
    /\ UNCHANGED <<rowvars, active, batch, seen, outcome, request, acked, bounds>>

\* The tick, a kick or the next round of the loop, the lock being free:
\* _run_dispatch_batch opens a session and resets stuck rows.
Begin(d) ==
    /\ dpc[d] = "idle"
    /\ ResetStuck
    /\ dpc' = [dpc EXCEPT ![d] = "claim"]
    /\ UNCHANGED <<active, batch, seen, outcome, request, acked, bounds>>

\* The admin's cleanup route runs the same reset.
Cleanup ==
    /\ \E a \in Attempts : Stuck(a)
    /\ ResetStuck
    /\ UNCHANGED <<active, dvars, request, acked, bounds>>

\* What the claim's SELECT finds.  (Mutant: it also finds claimed rows.)
ClaimableAgain == {a \in Attempts : status[a] \in {"pending", "dispatching"} /\ due[a]}
Claimable == {a \in Attempts : status[a] = "pending" /\ due[a]}

\* The dispatcher is done with its batch, or died with it.
Idle(d) ==
    /\ dpc' = [dpc EXCEPT ![d] = "idle"]
    /\ batch' = [batch EXCEPT ![d] = {}]
    /\ seen' = [seen EXCEPT ![d] = [a \in Attempts |-> None]]
    /\ outcome' = [outcome EXCEPT ![d] = [a \in Attempts |-> None]]

\* Mutant: the UPDATE does not set claimed_at.
ClaimWithoutTime(d, S) ==
    /\ dpc[d] = "claim"
    /\ S \subseteq Claimable
    /\ S # {}
    /\ Cardinality(S) <= BatchSize
    /\ status' = [a \in Attempts |-> IF a \in S THEN "dispatching" ELSE status[a]]
    /\ dpc' = [dpc EXCEPT ![d] = "load"]
    /\ batch' = [batch EXCEPT ![d] = S]
    /\ UNCHANGED <<tries, due, claim, stale, active, seen, outcome, request, acked, bounds>>

(***************************************************************************)
(* _claim_attempts, first transaction: up to BatchSize due rows change     *)
(* from pending to dispatching at once, under this dispatcher's token.     *)
(* SKIP LOCKED may leave some of them out.                                 *)
(***************************************************************************)
Claim(d, S) ==
    /\ dpc[d] = "claim"
    /\ S \subseteq Claimable
    /\ S # {}
    /\ Cardinality(S) <= BatchSize
    /\ status' = [a \in Attempts |-> IF a \in S THEN "dispatching" ELSE status[a]]
    /\ claim' = [a \in Attempts |-> IF a \in S THEN d ELSE claim[a]]
    /\ stale' = [a \in Attempts |-> IF a \in S THEN FALSE ELSE stale[a]]
    /\ dpc' = [dpc EXCEPT ![d] = "load"]
    /\ batch' = [batch EXCEPT ![d] = S]
    /\ UNCHANGED <<tries, due, active, seen, outcome, request, acked, bounds>>

ClaimNothing(d) ==
    /\ dpc[d] = "claim"
    /\ Claimable = {}
    /\ Idle(d)
    /\ UNCHANGED <<rowvars, active, request, acked, bounds>>

(***************************************************************************)
(* _claim_attempts, after its commit: load the rows that still carry the   *)
(* token, with their webhooks.  The PostgreSQL branch does not look at the *)
(* status.                                                                 *)
(***************************************************************************)
Load(d) ==
    LET mine == {a \in batch[d] : claim[a] = d}
    IN  /\ dpc[d] = "load"
        /\ mine # {}
        /\ dpc' = [dpc EXCEPT ![d] = "send"]
        /\ batch' = [batch EXCEPT ![d] = mine]
        /\ seen' = [seen EXCEPT ![d] = [a \in Attempts |-> IF a \in mine THEN Row(a) ELSE None]]
        /\ UNCHANGED <<rowvars, active, outcome, request, acked, bounds>>

LoadNothing(d) ==
    /\ dpc[d] = "load"
    /\ \A a \in batch[d] : claim[a] # d
    /\ Idle(d)
    /\ UNCHANGED <<rowvars, active, request, acked, bounds>>

(***************************************************************************)
(* _post_one for one row of the batch.  fatal: the webhook was inactive    *)
(* when it was loaded, its URL is unsafe or its secret cannot be           *)
(* decrypted.  lost: the endpoint accepted, but the answer did not arrive. *)
(***************************************************************************)
Post(d, a, o) ==
    /\ dpc[d] = "send"
    /\ a \in batch[d]
    /\ outcome[d][a] = None
    /\ ~seen[d][a].active => o = "fatal"
    /\ outcome' = [outcome EXCEPT ![d][a] = o]
    /\ acked' = IF o \in {"ok", "lost"} THEN acked \cup {a} ELSE acked
    /\ UNCHANGED <<rowvars, active, dpc, batch, seen, request, bounds>>

\* The new status and count that dispatch_due_attempts assigns to a row.
NewTries(c, o) == IF o = "fatal" THEN c.tries ELSE c.tries + 1

\* Mutants of NewStatus: any HTTP answer counts as delivered; one try too many.
NewStatusAnyAnswer(c, o) ==
    CASE o = "fatal" -> "dead"
      [] o \in {"ok", "failed"} -> "delivered"
      [] OTHER -> IF NewTries(c, o) >= MaxAttempts THEN "dead" ELSE "pending"
NewStatusOneMore(c, o) ==
    CASE o = "fatal" -> "dead"
      [] o = "ok" -> "delivered"
      [] OTHER -> IF NewTries(c, o) > MaxAttempts THEN "dead" ELSE "pending"

NewStatus(c, o) ==
    CASE o = "fatal" -> "dead"
      [] o = "ok" -> "delivered"
      [] OTHER -> IF NewTries(c, o) >= MaxAttempts THEN "dead" ELSE "pending"

(***************************************************************************)
(* dispatch_due_attempts, second phase: one commit for the whole batch,    *)
(* writing by id the columns that changed since they were loaded.          *)
(* schedule_next counts from when the batch began, so a row put back may   *)
(* be due at once: BecomeDue follows whenever the clock says so.           *)
(***************************************************************************)
Apply(d) ==
    LET b == batch[d]
        c(a) == seen[d][a]
        o(a) == outcome[d][a]
        new(a) == NewStatus(c(a), o(a))
    IN  /\ dpc[d] = "send"
        /\ \A a \in b : o(a) # None
        /\ status' = [a \in Attempts |->
                        IF a \in b /\ new(a) # c(a).status THEN new(a) ELSE status[a]]
        /\ tries' = [a \in Attempts |->
                        IF a \in b /\ o(a) # "fatal" THEN NewTries(c(a), o(a)) ELSE tries[a]]
        /\ due' = [a \in Attempts |-> IF a \in b /\ new(a) = "pending" THEN FALSE ELSE due[a]]
        /\ claim' = [a \in Attempts |-> IF a \in b THEN None ELSE claim[a]]
        /\ stale' = [a \in Attempts |-> IF a \in b THEN FALSE ELSE stale[a]]
        /\ Idle(d)
        /\ UNCHANGED <<active, request, acked, bounds>>

\* The process dies, or its commit fails: the batch is forgotten and its rows
\* stay as they are.
Crash(d) ==
    /\ dpc[d] \in {"load", "send"}
    /\ crashes < MaxCrashes
    /\ crashes' = crashes + 1
    /\ Idle(d)
    /\ UNCHANGED <<rowvars, active, request, acked, overruns, manual>>
-----------------------------------------------------------------------------
(***************************************************************************)
(* The manual routes.  Each loads the row, then commits what it changed:   *)
(* "replay" is the admin's (attempt := 0), "retry" the user's and the API  *)
(* key's, "redeliver" the admin's that refuses a delivered row.            *)
(***************************************************************************)
ManualLoad(kind, a) ==
    /\ request = None
    /\ manual < MaxManual
    /\ status[a] # "absent"
    /\ kind = "redeliver" => status[a] # "delivered"
    /\ request' = [kind |-> kind, a |-> a, seen |-> Row(a)]
    /\ manual' = manual + 1
    /\ UNCHANGED <<rowvars, active, dvars, acked, crashes, overruns>>

ManualCommit ==
    /\ request # None
    /\ LET a == request.a
           c == request.seen
           unclaims == request.kind # "retry" /\ c.claim # None
       IN  /\ status' = [status EXCEPT ![a] = IF c.status = "pending" THEN @ ELSE "pending"]
           /\ tries' = [tries EXCEPT ![a] = IF request.kind = "replay" /\ c.tries # 0 THEN 0 ELSE @]
           /\ due' = [due EXCEPT ![a] = TRUE]
           /\ claim' = [claim EXCEPT ![a] = IF unclaims THEN None ELSE @]
           /\ stale' = [stale EXCEPT ![a] = IF unclaims THEN FALSE ELSE @]
    /\ request' = None
    /\ UNCHANGED <<active, dvars, acked, bounds>>

\* admin_update_webhook and delete_webhook.
SetActive(a, on) ==
    /\ active[a] # on
    /\ manual < MaxManual
    /\ manual' = manual + 1
    /\ active' = [active EXCEPT ![a] = on]
    /\ UNCHANGED <<rowvars, dvars, request, acked, crashes, overruns>>

DispatcherStep(d) ==
    \/ Begin(d)
    \/ \E S \in SUBSET Attempts : Claim(d, S)
    \/ ClaimNothing(d)
    \/ Load(d) \/ LoadNothing(d)
    \/ \E a \in Attempts, o \in Outcomes : Post(d, a, o)
    \/ Apply(d)

ClockStep(a) == BecomeDue(a) \/ LeaseRunsOut(a)

Manual ==
    \/ \E kind \in ManualKinds, a \in Attempts : ManualLoad(kind, a)
    \/ ManualCommit
    \/ \E a \in Attempts, on \in BOOLEAN : SetActive(a, on)
    \/ Cleanup

Next ==
    \/ \E a \in Attempts : Enqueue(a) \/ ClockStep(a)
    \/ \E d \in Dispatchers : DispatcherStep(d) \/ Crash(d)
    \/ Manual

Spec == Init /\ [][Next]_vars

\* The clock ticks, every running batch gets its answers or their timeouts,
\* and the scheduler's interval job fires again and again.
Fairness ==
    /\ \A a \in Attempts : WF_vars(ClockStep(a))
    /\ \A d \in Dispatchers : WF_vars(DispatcherStep(d))
    /\ WF_vars(ManualCommit)

FairSpec == Spec /\ Fairness
-----------------------------------------------------------------------------
\* A row is delivered only if its endpoint once answered 2xx, however late,
\* doubled or overtaken the outcome was when it was written
\* (dispatcher.py:240-277).
DeliveredWasAcked == \A a \in Attempts : status[a] = "delivered" => a \in acked

\* Holds(d, a): dispatcher d has row a and will post it or write its outcome.
Holds(d, a) == dpc[d] \in {"load", "send"} /\ a \in batch[d]

\* Two dispatchers hold one row only after its claim was broken from outside:
\* the five minutes ran out or somebody replayed it.  The docstring of
\* _claim_attempts promises disjoint sets (dispatcher.py:83-85).
ClaimsDisjoint ==
    overruns = 0 /\ manual = 0 =>
        \A d, e \in Dispatchers : d # e =>
            \A a \in Attempts : ~(Holds(d, a) /\ Holds(e, a))

\* A row left in dispatching by a batch that died carries a claim time, so that
\* reset_stuck_dispatching finds it (dispatcher.py:62-63: NULL <= threshold is
\* never true) and the row does not stay there for ever.
StuckIsFindable ==
    \A a \in Attempts :
        status[a] = "dispatching" /\ (\A d \in Dispatchers : ~Holds(d, a)) => claim[a] # None

\* The count stays within its budget, one try more for each manual request
\* (dispatcher.py:264 compares it with max_attempts).
TriesWithinBudget == \A a \in Attempts : tries[a] <= MaxAttempts + manual

\* A delivered row is not sent again: the scheduler relies on the claim for it
\* (apps/scheduler/main.py:29-30).  It holds while no claim is broken from
\* outside, crashes included.
DeliveredIsFinalUnderClaim ==
    [][overruns' = 0 /\ manual' = 0 =>
         \A a \in Attempts : status[a] = "delivered" => status'[a] = "delivered"]_vars

\* Every attempt ends, whatever crashes and overruns happened on the way: the
\* retries are bounded (dispatcher.py:264-270) and a batch that died is found
\* by the next reset (dispatcher.py:199-200).
EveryAttemptEnds ==
    \A a \in Attempts : status[a] = "pending" ~> status[a] \in {"delivered", "dead"}
=============================================================================
