--------------------------- MODULE PaymentOrders ---------------------------
(***************************************************************************)
(* Payment orders of one bank account: their creation with a reserved      *)
(* transfer name (packages/db/models.py), the ingest of bank transactions  *)
(* and the matcher (packages/core), the expiry job, and the routes of the  *)
(* user, the API key, the admin and the Telegram bot that change an order  *)
(* or a transaction by hand.                                               *)
(*                                                                         *)
(* Each of them loads rows and commits later.  The commit updates, by      *)
(* primary key, the columns that got a value other than the one loaded:    *)
(* nothing is locked and nothing is read again in between.                 *)
(*                                                                         *)
(* A transaction's content is the set of names and codes that              *)
(* find_order_match finds in the normalised text.  Time is a small clock;  *)
(* a request may see one tick pass, no more.                               *)
(***************************************************************************)
EXTENDS Integers, FiniteSets

CONSTANTS
    Orders,        \* orders; an order stands for its own Order.code too
    Topups,        \* the orders of kind topup: they have a user
    Txs,           \* transactions the bank will report (bank_ref_no)
    Names,         \* _payment_names()
    Requests,      \* concurrent HTTP requests and bot callbacks
    Ops,           \* the manual operations in use, of ManualOps
    Price,         \* Order.amount_vnd
    TxAmounts,     \* amounts a transaction may have
    Contents,      \* contents a transaction may have
    Reliable,      \* values of timestamp_reliable, a property of the bank's adapter
    TTL,           \* ttl_seconds, at most one day
    Cooldown,      \* seven days
    MaxTime, MaxAborts, MaxFailures, MaxManual,   \* bounds
    None

ASSUME PriceAssumption == Price \in [Orders -> Nat \ {0}]
ASSUME TxAmountsAssumption == TxAmounts \subseteq Int
ASSUME TimeAssumption == TTL \in Nat \ {0} /\ Cooldown \in Nat \ {0, 1} /\ TTL < Cooldown
ASSUME BoundsAssumption ==
    MaxTime \in Nat /\ MaxAborts \in Nat /\ MaxFailures \in Nat /\ MaxManual \in Nat
ASSUME SetsAssumption ==
    /\ Topups \subseteq Orders
    /\ Reliable \subseteq BOOLEAN
    /\ Contents \subseteq SUBSET (Names \cup Orders)
    /\ Requests \cap {"poller", "scheduler"} = {}
    /\ None \notin Orders \cup Txs \cup Names

VARIABLES
    now,
    status, name, created, expires, paidTx,   \* orders
    reserved,      \* payment_name_reservations.reserved_until; 0: no row
    bank,          \* what the bank reports of a transaction, None before
    state, matched,   \* transactions
    credited,      \* orders with a wallet row under the key topup:{order.id}
    refunds,       \* transactions -> wallet rows admin-refund-tx:{tx.id}:...
    events,        \* webhook attempts inserted, as <<order, transaction>>
    job,           \* what each process has loaded and not yet committed
    aborts, failures, manual   \* how much of each bound is used

ordervars == <<status, name, created, expires, paidTx>>
txvars == <<state, matched>>
money == <<credited, refunds>>
bounds == <<aborts, failures, manual>>
vars == <<now, ordervars, reserved, bank, txvars, money, events, job, bounds>>

Procs == {"poller", "scheduler"} \cup Requests
ManualOps == {"create", "cancel", "apicancel", "confirm", "force", "match", "rematch",
              "reject", "refund"}
OrderStatuses == {"absent", "pending", "paid", "expired", "canceled", "refunded"}
TxStates == {"absent", "new", "matched", "unmatched", "review", "rejected", "refunded"}

ASSUME OpsAssumption == Ops \subseteq ManualOps

\* What a process remembers: when it loaded, the rows it works on, the sets it
\* read (free names, matching orders, overdue orders), the columns as loaded.
Jobs == [op : ManualOps \cup {"ingest", "expire"}, at : Nat,
         o : Orders \cup {None}, t : Txs \cup {None}, S : SUBSET (Orders \cup Names),
         status : OrderStatuses \cup {None}, paidTx : Txs \cup {None},
         state : TxStates \cup {None}, matched : Orders \cup {None}]

TypeOK ==
    /\ now \in 0 .. MaxTime
    /\ status \in [Orders -> OrderStatuses]
    /\ name \in [Orders -> Names \cup {None}]
    /\ created \in [Orders -> Nat] /\ expires \in [Orders -> Nat]
    /\ paidTx \in [Orders -> Txs \cup {None}]
    /\ reserved \in [Names -> Nat]
    /\ bank \in [Txs -> [amount : TxAmounts, content : Contents, at : Nat, reliable : BOOLEAN]
                        \cup {None}]
    /\ state \in [Txs -> TxStates]
    /\ matched \in [Txs -> Orders \cup {None}]
    /\ credited \subseteq Topups
    /\ refunds \in [Txs -> Nat]
    /\ events \subseteq Orders \X Txs
    /\ job \in [Procs -> Jobs \cup {None}]
    /\ aborts \in 0 .. MaxAborts /\ failures \in 0 .. MaxFailures /\ manual \in 0 .. MaxManual

Init ==
    /\ now = 0
    /\ status = [o \in Orders |-> "absent"]
    /\ name = [o \in Orders |-> None]
    /\ created = [o \in Orders |-> 0] /\ expires = [o \in Orders |-> 0]
    /\ paidTx = [o \in Orders |-> None]
    /\ reserved = [n \in Names |-> 0]
    /\ bank = [t \in Txs |-> None]
    /\ state = [t \in Txs |-> "absent"]
    /\ matched = [t \in Txs |-> None]
    /\ credited = {} /\ refunds = [t \in Txs |-> 0] /\ events = {}
    /\ job = [p \in Procs |-> None]
    /\ aborts = 0 /\ failures = 0 /\ manual = 0
-----------------------------------------------------------------------------
\* Process p has loaded order o, transaction t and the set S, and has not yet
\* committed.
Loads(p, op, o, t, S) ==
    /\ job[p] = None
    /\ job' = [job EXCEPT ![p] =
         [op |-> op, at |-> now, o |-> o, t |-> t, S |-> S,
          status  |-> IF o = None THEN None ELSE status[o],
          paidTx  |-> IF o = None THEN None ELSE paidTx[o],
          state   |-> IF t = None THEN None ELSE state[t],
          matched |-> IF t = None THEN None ELSE matched[t]]]

Commits(p, op) ==
    /\ job[p] # None /\ job[p].op = op
    /\ job' = [job EXCEPT ![p] = None]

\* A column is written only if the value differs from the one loaded.
Put(f, x, loaded, new) == IF new = loaded THEN f ELSE [f EXCEPT ![x] = new]
-----------------------------------------------------------------------------
\* allocate_order, first part: read the names that nobody reserves.
Free == {n \in Names : reserved[n] <= now}

CreateLoad(p, o) ==
    /\ status[o] = "absent"
    /\ \A q \in Procs : job[q] # None => job[q].o # o
    /\ now + TTL <= MaxTime
    /\ Loads(p, "create", o, None, Free)

\* Mutant: the reservation is taken on what was read before.
TakesStale(p, n) == n \in job[p].S

\* A name is taken by an INSERT on its key or by an UPDATE under the condition
\* that it is still free: a name taken since the read is skipped.
Takes(p, n) == n \in job[p].S /\ reserved[n] <= job[p].at

\* reserved_until of a name whose order ends at a time: seven days more.
Until(end) == end + Cooldown

\* create_topup and OrderRepository.create_order.
CreateCommit(p, n) ==
    LET o == job[p].o
        end == job[p].at + TTL
    IN  /\ Commits(p, "create")
        /\ Takes(p, n)
        /\ reserved' = [reserved EXCEPT ![n] = Until(end)]
        /\ status' = [status EXCEPT ![o] = "pending"]
        /\ name' = [name EXCEPT ![o] = n]
        /\ created' = [created EXCEPT ![o] = now]
        /\ expires' = [expires EXCEPT ![o] = end]
        /\ UNCHANGED <<now, paidTx, bank, txvars, money, events, bounds>>

\* PaymentNamePoolFull.
CreateFull(p) ==
    /\ Commits(p, "create")
    /\ \A n \in Names : ~Takes(p, n)
    /\ UNCHANGED <<now, ordervars, reserved, bank, txvars, money, events, bounds>>
-----------------------------------------------------------------------------
\* The bank books a transfer.  The poller sees it whenever the bank lists it.
BankPost(t, amount, content, reliable) ==
    /\ bank[t] = None
    /\ bank' = [bank EXCEPT ![t] = [amount |-> amount, content |-> content, at |-> now,
                                    reliable |-> reliable]]
    /\ UNCHANGED <<now, ordervars, reserved, txvars, money, events, job, bounds>>

\* find_order_match over the orders in C, by the text the caller takes as code.
FindOrderMatch(t, C, code) ==
    {o \in C : /\ expires[o] > now
               /\ Price[o] = bank[t].amount
               /\ code[o] \in bank[t].content}

\* Mutants: no look at when the money was sent; no look at the status.
CandidatesAnyTime(t) ==
    {o \in Orders : status[o] = "pending" /\ Price[o] = bank[t].amount}
CandidatesAnyStatus(t) ==
    {o \in Orders : /\ status[o] # "absent"
                    /\ Price[o] = bank[t].amount
                    /\ bank[t].reliable
                    /\ created[o] <= bank[t].at /\ bank[t].at < expires[o]}

\* The pending orders of _try_match_transaction: same amount, and the transfer
\* was made, by a reliable clock, while the order was open.
Candidates(t) ==
    {o \in Orders : /\ status[o] = "pending"
                    /\ Price[o] = bank[t].amount
                    /\ bank[t].reliable
                    /\ created[o] <= bank[t].at /\ bank[t].at < expires[o]}

Matches(t) ==
    IF bank[t].amount > 0 THEN FindOrderMatch(t, Candidates(t), name) ELSE {}

\* ingest_transaction up to its writes.  A transaction that is already stored
\* is returned as it is.
IngestLoad(t) ==
    /\ bank[t] # None
    /\ state[t] = "absent"
    /\ Loads("poller", "ingest", None, t, Matches(t))
    /\ UNCHANGED <<now, ordervars, reserved, bank, txvars, money, events, bounds>>

\* Nothing matched, or more than one order did.
IngestUnmatched ==
    LET t == job["poller"].t
        S == job["poller"].S
    IN  /\ Commits("poller", "ingest")
        /\ Cardinality(S) # 1
        /\ state' = [state EXCEPT ![t] = CASE bank[t].amount <= 0 -> "new"
                                           [] bank[t].amount > 0 /\ S = {} -> "unmatched"
                                           [] OTHER -> "review"]
        /\ UNCHANGED <<now, ordervars, reserved, bank, matched, money, events, bounds>>

\* Mutant: the topup order is marked paid and its wallet is left alone.
CreditNothing(o, ok) == credited' = credited /\ failures' = failures

\* credit_wallet_for_topup, under the key topup:{order.id}.  An exception in it
\* is logged and the rest of the ingest goes on.
Credit(o, ok) ==
    IF o \notin Topups THEN UNCHANGED <<credited, failures>>
    ELSE \/ ok /\ credited' = credited \cup {o} /\ failures' = failures
         \/ ~ok /\ failures < MaxFailures /\ failures' = failures + 1 /\ credited' = credited

\* One order matched: it is paid, its name is reserved for seven more days, its
\* user is credited and its webhooks are queued, in one commit.
IngestMatched(o, ok) ==
    LET t == job["poller"].t
        at == job["poller"].at
    IN  /\ Commits("poller", "ingest")
        /\ job["poller"].S = {o}
        /\ status' = [status EXCEPT ![o] = "paid"]
        /\ paidTx' = [paidTx EXCEPT ![o] = t]
        /\ reserved' = [reserved EXCEPT ![name[o]] = Until(at)]
        /\ state' = [state EXCEPT ![t] = "matched"]
        /\ matched' = [matched EXCEPT ![t] = o]
        /\ Credit(o, ok)
        /\ events' = events \cup {<<o, t>>}
        /\ UNCHANGED <<now, name, created, expires, bank, refunds, aborts, manual>>
-----------------------------------------------------------------------------
\* Mutant: the comparison turned round.
OverdueReversed == {o \in Orders : status[o] = "pending" /\ expires[o] > now}

Overdue == {o \in Orders : status[o] = "pending" /\ expires[o] <= now}

\* expire_overdue_orders, which reconcile runs first; the rest of reconcile reads.
ExpireLoad ==
    /\ Overdue # {}
    /\ Loads("scheduler", "expire", None, None, Overdue)
    /\ UNCHANGED <<now, ordervars, reserved, bank, txvars, money, events, bounds>>

ExpireCommit ==
    /\ Commits("scheduler", "expire")
    /\ status' = [o \in Orders |-> IF o \in job["scheduler"].S THEN "expired" ELSE status[o]]
    /\ UNCHANGED <<now, name, created, expires, paidTx, reserved, bank, txvars, money, events,
                   bounds>>
-----------------------------------------------------------------------------
\* What the manual operations check when they load.
ManualGuard(op, o, t) ==
    CASE op \in {"cancel", "apicancel", "confirm"} -> t = None /\ o # None /\ status[o] = "pending"
      [] op \in {"force", "match"} -> o # None /\ t # None /\ status[o] # "absent"
      [] op = "rematch" ->
           LET code == [x \in Orders |-> x]
               pending == {x \in Orders : status[x] = "pending"}
           IN  o # None /\ t # None /\ FindOrderMatch(t, pending, code) = {o}
      [] op = "reject" -> o = None /\ t # None
      [] op = "refund" ->
           t # None /\ o # None /\ matched[t] = o /\ o \in Topups /\ bank[t].amount > 0
      [] OTHER -> FALSE

ManualLoad(p, op, o, t) ==
    /\ manual < MaxManual
    /\ t # None => state[t] # "absent"
    /\ ManualGuard(op, o, t)
    /\ Loads(p, op, o, t, {})
    /\ manual' = manual + 1
    /\ UNCHANGED <<now, ordervars, reserved, bank, txvars, money, events, aborts, failures>>

\* The order that process p loaded gets a status, whatever it has by now.
SetStatus(p, new) ==
    /\ status' = [status EXCEPT ![job[p].o] = new]
    /\ UNCHANGED <<now, name, created, expires, paidTx, bank, txvars, money, events, bounds>>

\* Mutant: a status that no other code knows.
CancelMisspelt(p) ==
    /\ Commits(p, "cancel")
    /\ SetStatus(p, "cancelled")
    /\ UNCHANGED reserved

\* cancel_pending_topup, admin_cancel_order and the bot's cancel button.
Cancel(p) ==
    /\ Commits(p, "cancel")
    /\ SetStatus(p, "canceled")
    /\ UNCHANGED reserved

\* OrderRepository.cancel_order also moves the end of the reservation.
ApiCancel(p) ==
    /\ Commits(p, "apicancel")
    /\ SetStatus(p, "canceled")
    /\ reserved' = [reserved EXCEPT ![name[job[p].o]] = Until(job[p].at)]

\* The bot's confirm button.
Confirm(p) ==
    /\ Commits(p, "confirm")
    /\ SetStatus(p, "paid")
    /\ UNCHANGED reserved

\* The transaction of process p is booked on its order, and pays it or not.
Books(p, pays) ==
    LET j == job[p]
    IN  /\ status' = IF pays THEN Put(status, j.o, j.status, "paid") ELSE status
        /\ paidTx' = IF pays THEN Put(paidTx, j.o, j.paidTx, j.t) ELSE paidTx
        /\ state' = Put(state, j.t, j.state, "matched")
        /\ matched' = Put(matched, j.t, j.matched, j.o)
        /\ UNCHANGED <<now, name, created, expires, reserved, bank, money, events, bounds>>

\* admin_force_match_order pays the order whatever its status.
ForceMatch(p) == Commits(p, "force") /\ Books(p, TRUE)

\* admin_match_transaction pays a pending order and books on any other.
Match(p) == Commits(p, "match") /\ Books(p, job[p].status = "pending")

\* admin_rematch_transaction only finds pending orders.
Rematch(p) == Commits(p, "rematch") /\ Books(p, TRUE)

\* admin_reject_transaction.
Reject(p) ==
    LET j == job[p]
    IN  /\ Commits(p, "reject")
        /\ state' = Put(state, j.t, j.state, "rejected")
        /\ matched' = Put(matched, j.t, j.matched, None)
        /\ UNCHANGED <<now, ordervars, reserved, bank, money, events, bounds>>

\* admin_refund_transaction: the wallet key is random, so every refund counts.
Refund(p) ==
    LET j == job[p]
    IN  /\ Commits(p, "refund")
        /\ refunds' = [refunds EXCEPT ![j.t] = @ + 1]
        /\ state' = Put(state, j.t, j.state, "refunded")
        /\ status' = Put(status, j.o, j.status, "refunded")
        /\ UNCHANGED <<now, name, created, expires, paidTx, reserved, bank, matched, credited,
                       events, bounds>>
-----------------------------------------------------------------------------
\* A process dies, its client goes away or its transaction fails.
Abort(p) ==
    /\ job[p] # None
    /\ aborts < MaxAborts
    /\ aborts' = aborts + 1
    /\ job' = [job EXCEPT ![p] = None]
    /\ UNCHANGED <<now, ordervars, reserved, bank, txvars, money, events, failures, manual>>

Tick ==
    /\ now < MaxTime
    /\ \A p \in Procs : job[p] # None => job[p].at = now
    /\ now' = now + 1
    /\ UNCHANGED <<ordervars, reserved, bank, txvars, money, events, job, bounds>>

Finish(p) ==
    \/ (\E n \in Names : CreateCommit(p, n)) \/ CreateFull(p)
    \/ Cancel(p) \/ ApiCancel(p) \/ Confirm(p)
    \/ ForceMatch(p) \/ Match(p) \/ Rematch(p)
    \/ Reject(p) \/ Refund(p)

Poller ==
    \/ \E t \in Txs : IngestLoad(t)
    \/ IngestUnmatched
    \/ \E o \in Orders, ok \in BOOLEAN : IngestMatched(o, ok)

Scheduler == ExpireLoad \/ ExpireCommit

Create(p) ==
    /\ "create" \in Ops
    /\ \E o \in Orders : CreateLoad(p, o)
    /\ UNCHANGED <<now, ordervars, reserved, bank, txvars, money, events, bounds>>

Request(p) ==
    \/ Create(p)
    \/ \E op \in Ops, o \in Orders \cup {None}, t \in Txs \cup {None} : ManualLoad(p, op, o, t)
    \/ Finish(p)

Next ==
    \/ Tick
    \/ \E t \in Txs, a \in TxAmounts, c \in Contents, r \in Reliable : BankPost(t, a, c, r)
    \/ Poller \/ Scheduler
    \/ \E p \in Requests : Request(p)
    \/ \E p \in Procs : Abort(p)

Spec == Init /\ [][Next]_vars

\* The clock runs, the scheduler's job fires every five minutes, and a request
\* that was started ends.
Fairness ==
    /\ WF_vars(Tick)
    /\ WF_vars(Scheduler)
    /\ WF_vars(Poller)
    /\ \A p \in Requests : WF_vars(Finish(p))

FairSpec == Spec /\ Fairness
-----------------------------------------------------------------------------
\* The transfer t was made while the order o was open.
Within(t, o) == created[o] <= bank[t].at /\ bank[t].at < expires[o]

\* Two orders with the same transfer name are never open at the same time:
\* the reservation outlasts the order, however the order ends and whichever
\* requests race for the name (models.py:145-223).
WindowsDisjoint ==
    \A o, p \in Orders :
        o # p /\ name[o] # None /\ name[o] = name[p] =>
            expires[o] <= created[p] \/ expires[p] <= created[o]

\* A transfer that names one order, made while that order was open, is never
\* booked by the ingest on another order (ingest.py:126-164).
PaymentReachesItsOrder ==
    \A e \in events : \A o \in Orders :
        name[o] # None /\ bank[e[2]].content = {name[o]} /\ Within(e[2], o) => o = e[1]

\* The ingest books each transfer on one order and each order on one transfer,
\* whatever cancels, expiries and admins do meanwhile; so no order is announced
\* to its webhooks twice (ingest.py:170-213).
BookedOnce ==
    \A e, f \in events : e[1] = f[1] <=> e[2] = f[2]

\* topup.py:3: when a topup is matched (paid), the wallet is credited; so it is,
\* while no admin books by hand and no credit raises.
PaidTopupIsCredited == \A o \in Topups : status[o] = "paid" => o \in credited

\* An order does not stay pending for ever: it is paid or canceled, or the
\* reconcile job expires it (reconcile_runner.py:13-26).
PendingEnds ==
    \A o \in Orders : status[o] = "pending" ~> status[o] # "pending"
=============================================================================
