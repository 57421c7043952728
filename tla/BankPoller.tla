----------------------------- MODULE BankPoller -----------------------------
(***************************************************************************)
(* The poll tasks of one bank account (apps/worker/main.py) in several     *)
(* worker processes: the supervisor that starts and cancels them, the      *)
(* Redis lock with its time to live, the login loop and the poll loop, and *)
(* the routes that change the account while a task runs.  What a poll      *)
(* reads and stores is module BankCursor; here a bank call has an outcome. *)
(* A bank call ends within the lock's time to live; the waits in the login *)
(* loop and without an order do not renew it.                              *)
(*                                                                         *)
(* Every wait has a time-out, and a published message (bank:account:added, *)
(* bank:poll:kick) may be lost: a message only brings the end of a wait    *)
(* forward, so a wait may end at any time and messages are not modelled.   *)
(* polling_status, last_error, verified_at and the time stamps of the row  *)
(* are written for the user and never read by the program.                 *)
(***************************************************************************)
EXTENDS Integers, FiniteSets

CONSTANTS
    Workers        \* worker processes

VARIABLES
    account,   \* the row of bank_accounts: what the tasks read and write
    order,     \* an unexpired pending order of the account exists
    lock,      \* the key poller:lock:<id> exists in Redis
    task,      \* the task of a worker
    lapsed     \* history: a lock ran out under a live task

bVars == <<account, order, lock, task, lapsed>>

Account ==
    [status : {"active", "deleted"}, enabled : BOOLEAN, onlyPending : BOOLEAN, session : BOOLEAN]

\* [step, the adapter has a session, onlyPending as loaded, past the login loop,
\*  acquired the lock, renewed it within the time to live]
Task ==
    [step : {"none", "check", "idle", "login", "backoff", "poll", "relogin", "rest", "done"},
     session : BOOLEAN, onlyPending : BOOLEAN, ready : BOOLEAN, held : BOOLEAN, fresh : BOOLEAN]

NoTask == [step |-> "none", session |-> FALSE, onlyPending |-> FALSE, ready |-> FALSE, held |-> FALSE, fresh |-> FALSE]

PollerTypeOK ==
    /\ account \in Account
    /\ order \in BOOLEAN /\ lock \in BOOLEAN /\ lapsed \in BOOLEAN
    /\ task \in [Workers -> Task]

\* create_bank_account of an MB account: only polled while an order is pending.
BInit ==
    /\ account = [status |-> "active", enabled |-> TRUE, onlyPending |-> TRUE, session |-> FALSE]
    /\ order = FALSE /\ lock = FALSE /\ lapsed = FALSE
    /\ task = [w \in Workers |-> NoTask]

Live(w) == task[w].step \notin {"none", "done"}
ShouldPollNow == ~account.onlyPending \/ order
Wanted == account.status = "active" /\ account.enabled
-----------------------------------------------------------------------------
(* The supervisor                                                          *)

\* Mutant: the key is deleted also by a task that did not get it.
UnlockedAlways(w) == FALSE
\* Leaving redis_lock: who once acquired the key deletes it, whoever has it now.
Unlocked(w) == lock /\ ~task[w].held

\* Mutant: every task that exists counts as running.
RespawnedNever(w) == task[w].step = "none"
\* existing is None or existing.done().
Respawned(w) == task[w].step \in {"none", "done"}

\* Mutant: tasks of removed accounts are left alone.
CancelledNever(w) == FALSE
\* The account is no longer listed and a task is registered for it.
Cancelled(w) == ~Wanted /\ task[w].step # "none"

\* Mutant: SET without NX.
AcquiredAlways == TRUE
\* SET key NX EX ttl.
Acquired == ~lock

\* _supervised: the task gets the row as it is now and tries the lock; if it
\* is busy the task ends.
Supervised(w) ==
    IF Acquired
    THEN /\ lock' = TRUE
         /\ task' = [task EXCEPT ![w] = [NoTask EXCEPT !.step = "check", !.session = account.session,
                                                       !.onlyPending = account.onlyPending,
                                                       !.held = TRUE, !.fresh = TRUE]]
    ELSE /\ lock' = Unlocked(w)
         /\ task' = [task EXCEPT ![w] = [NoTask EXCEPT !.step = "done"]]

\* One turn of run_poller_loop, on a message or after RESCAN_INTERVAL_SEC.
\* A cancelled task leaves redis_lock.
ReconcileAccounts(w) ==
    /\ \/ Cancelled(w) /\ lock' = Unlocked(w) /\ task' = [task EXCEPT ![w] = NoTask]
       \/ Wanted /\ Respawned(w) /\ Supervised(w)
    /\ UNCHANGED <<account, order, lapsed>>

\* The key runs out when no task renewed it within its time to live.
LockExpires ==
    /\ lock /\ \A w \in Workers : ~task[w].fresh
    /\ lock' = FALSE
    /\ lapsed' = (lapsed \/ \E w \in Workers : task[w].held)
    /\ UNCHANGED <<account, order, task>>

\* A worker process dies while its task holds the lock, and is started again
\* (before that it leaves nothing behind).
WorkerCrash(w) ==
    /\ Live(w)
    /\ task' = [task EXCEPT ![w] = NoTask]
    /\ UNCHANGED <<account, order, lock, lapsed>>
-----------------------------------------------------------------------------
(* The task                                                                *)

Goes(w, step) == task' = [task EXCEPT ![w] = [@ EXCEPT !.step = step]]

\* _save_bank_session and the same update at the end of a poll: whatever the
\* account's credentials are by now.
Saves(session) == account' = [account EXCEPT !.session = session]

\* Mutant: the policy of the row as it was loaded.
PollsAsLoaded(w) == ~task[w].onlyPending \/ order
\* _should_poll: the current policy is read again before every decision.
ShouldPoll(w) == ~account.onlyPending \/ order

\* The conditions of the first loop (with the policy of the loaded row) and
\* the one at the head of the poll loop.
Check(w) ==
    /\ task[w].step = "check"
    /\ IF ShouldPoll(w) \/ (~task[w].ready /\ ~task[w].onlyPending)
       THEN Goes(w, IF task[w].ready THEN "poll" ELSE "login")
       ELSE task' = [task EXCEPT ![w] = [@ EXCEPT !.step = "idle", !.fresh = FALSE]]
    /\ UNCHANGED <<account, order, lock, lapsed>>

\* The end of a turn of the poll loop.  SET key XX EX 120 renews whatever lock
\* there is.
Renews(w, session) ==
    task' = [task EXCEPT ![w] = [@ EXCEPT !.step = "check", !.session = session, !.fresh = lock]]

\* The waits for a kick or poll_interval, the sleeps of 60 and 30 seconds, and
\* the login back-off.
WakeUp(w) ==
    /\ \/ task[w].step = "idle" /\ Goes(w, "check")
       \/ task[w].step = "rest" /\ Renews(w, task[w].session)
       \/ task[w].step = "backoff" /\ Goes(w, "login")
    /\ UNCHANGED <<account, order, lock, lapsed>>

\* adapter.login(): an adapter with a session does not ask the bank again.
LoginAsks(w) == ~task[w].session

\* An error that the task does not catch: it ends, and leaves redis_lock.
Dies(w) ==
    /\ task' = [task EXCEPT ![w] = [NoTask EXCEPT !.step = "done"]]
    /\ lock' = Unlocked(w)

\* The login loop: accepted (the loaded policy is not read any more),
\* BankAuthError, any other error.
Login(w) ==
    /\ task[w].step = "login"
    /\ \/ /\ task' = [task EXCEPT ![w] = [@ EXCEPT !.step = "check", !.session = TRUE, !.ready = TRUE,
                                                 !.onlyPending = FALSE]]
          /\ Saves(TRUE) /\ UNCHANGED lock
       \/ /\ LoginAsks(w)
          /\ task' = [task EXCEPT ![w] = [@ EXCEPT !.step = "backoff", !.fresh = FALSE]]
          /\ UNCHANGED <<account, lock>>
       \/ LoginAsks(w) /\ Dies(w) /\ UNCHANGED account
    /\ UNCHANGED <<order, lapsed>>

\* One poll: done; BankAuthError, when the adapter may have dropped its
\* session; BankRateLimited or any other error.
Poll(w) ==
    /\ task[w].step = "poll"
    /\ \/ Goes(w, "rest") /\ Saves(task[w].session)
       \/ /\ \E session \in {FALSE, task[w].session} :
                task' = [task EXCEPT ![w] = [@ EXCEPT !.step = "relogin", !.session = session]]
          /\ UNCHANGED account
       \/ Goes(w, "rest") /\ UNCHANGED account
    /\ UNCHANGED <<order, lock, lapsed>>
\* The login after BankAuthError.  The wait for the next poll belongs to the
\* else branch of the poll: refused or not, the task goes on at once.
Relogin(w) ==
    /\ task[w].step = "relogin"
    /\ \/ Renews(w, TRUE) /\ Saves(TRUE) /\ UNCHANGED lock
       \/ LoginAsks(w) /\ Renews(w, FALSE) /\ UNCHANGED <<account, lock>>
       \/ LoginAsks(w) /\ Dies(w) /\ UNCHANGED account
    /\ UNCHANGED <<order, lapsed>>
-----------------------------------------------------------------------------
(* The routes                                                              *)

Found == account.status # "deleted"

\* update_bank_account: nothing happens when nothing changes.
UpdateBankAccount(enabled, onlyPending) ==
    /\ Found
    /\ <<enabled, onlyPending>> # <<account.enabled, account.onlyPending>>
    /\ account' = [account EXCEPT !.enabled = enabled, !.onlyPending = onlyPending]
    /\ UNCHANGED <<order, lock, task, lapsed>>
\* rotate_bank_credentials: the session is dropped; a running task keeps its
\* adapter.  The administrator's route changes nothing that is modelled.
RotateBankCredentials ==
    /\ Found
    /\ account' = [account EXCEPT !.session = FALSE]
    /\ UNCHANGED <<order, lock, task, lapsed>>
\* verify_bank_account logs in with the stored session; a refusal or another
\* error changes nothing that is read.
VerifyBankAccount ==
    /\ Found /\ Saves(TRUE)
    /\ UNCHANGED <<order, lock, task, lapsed>>
\* delete_bank_account: not while an order is pending.
DeleteBankAccount ==
    /\ Found /\ ~order
    /\ account' = [account EXCEPT !.status = "deleted", !.enabled = FALSE]
    /\ UNCHANGED <<order, lock, task, lapsed>>
\* The administrator's routes: a deleted row is still found.
AdminUpdateBankAccount ==
    /\ \E enabled \in BOOLEAN : account' = [account EXCEPT !.enabled = enabled]
    /\ UNCHANGED <<order, lock, task, lapsed>>
AdminSoftDeleteBank ==
    /\ account' = [account EXCEPT !.status = "deleted", !.enabled = FALSE]
    /\ UNCHANGED <<order, lock, task, lapsed>>
\* An order of the account is created or ends (module PaymentOrders).
OrderCreated ==
    /\ Found /\ ~order /\ order' = TRUE
    /\ UNCHANGED <<account, lock, task, lapsed>>
OrderEnds ==
    /\ order /\ order' = FALSE
    /\ UNCHANGED <<account, lock, task, lapsed>>

TaskStep(w) == Check(w) \/ WakeUp(w) \/ Login(w) \/ Poll(w) \/ Relogin(w)
Routes ==
    \/ \E e, p \in BOOLEAN : UpdateBankAccount(e, p)
    \/ RotateBankCredentials \/ VerifyBankAccount \/ DeleteBankAccount
    \/ AdminUpdateBankAccount \/ AdminSoftDeleteBank
    \/ OrderCreated \/ OrderEnds
BNext ==
    \/ \E w \in Workers : TaskStep(w) \/ ReconcileAccounts(w) \/ WorkerCrash(w)
    \/ LockExpires \/ Routes

\* The event loop runs every task, the supervisor wakes every 30 seconds, and
\* Redis drops a key that ran out.
BFairness ==
    /\ \A w \in Workers : WF_bVars(TaskStep(w)) /\ WF_bVars(ReconcileAccounts(w))
    /\ WF_bVars(LockExpires)
BSpec == BInit /\ [][BNext]_bVars /\ BFairness
-----------------------------------------------------------------------------
\* Two tasks poll the account at the same time only after a lock ran out, or
\* was deleted, under a task that was still alive (redis_lock in _supervised).
OnePollerPerLease ==
    \/ lapsed
    \/ \A v, w \in Workers : Live(v) /\ Live(w) => v = w

\* A task that believes it holds the lock finds it in Redis, until one lapses:
\* no refusal of the lock and no release by another task takes it away.
LeaseIsHeld == lapsed \/ \A w \in Workers : task[w].held => lock

\* When polling is paused or the account is deleted, every worker drops its
\* task, also when the message to it is lost (update_bank_account: the user's
\* own session at the bank must not be pushed out).
PauseIsHeard == \A w \in Workers : ~Wanted ~> Wanted \/ task[w].step = "none"

\* An account that is to be polled has a running task again and again, whatever
\* becomes of the worker that held the lock: the lock runs out, and a task that
\* found it busy or died is started anew.
AccountIsServed == []<>(~Wanted \/ \E w \in Workers : Live(w))

\* A task that waits for an order goes on to the bank when there is one, or when
\* the policy was changed, also when the kick is lost (_should_poll).
OrderWakesPoller ==
    \A w \in Workers :
        (ShouldPollNow /\ task[w].step = "idle") ~> (~ShouldPollNow \/ task[w].step \notin {"idle", "check"})

\* Until a lease lapses, one task polls, and it holds the lock (redis_lock).
LeaseHolds == PollerTypeOK /\ OnePollerPerLease /\ LeaseIsHeld
=============================================================================
