------------------------------- MODULE Wallet -------------------------------
(***************************************************************************)
(* packages/billing/wallet.py: the wallet ledger, used by concurrent       *)
(* database sessions.                                                      *)
(*                                                                         *)
(* A session is one SQLAlchemy AsyncSession, that is one database          *)
(* transaction and one identity map.  Each call of credit, debit, refund   *)
(* or adjust runs _apply, which is three database round trips: look the    *)
(* idempotency key up, lock and read the user, flush the new balance with  *)
(* the new row.  Between two round trips any other session may run.  The   *)
(* caller commits; until then the rows are the session's own.              *)
(*                                                                         *)
(* Isolation is READ COMMITTED: a statement sees what is committed when it *)
(* starts and what its own session wrote.  What the model keeps of the     *)
(* identity map is the user's balance: an object that the session has      *)
(* loaded is handed back as it is by a later SELECT, FOR UPDATE included.  *)
(***************************************************************************)
EXTENDS Integers, Sequences

CONSTANTS
    Users,       \* ids of existing users
    Keys,        \* idempotency keys the callers use
    Sessions,    \* database sessions that may run concurrently
    Amounts,     \* amounts callers pass, the illegal ones included
    Preloaded,   \* sessions whose caller loads the User before it calls wallet
    Postgres,    \* the dialect: TRUE postgresql, FALSE sqlite
    None         \* no user, holder, cached balance, request or answer

ASSUME AmountsAssumption == Amounts \subseteq Int
ASSUME PreloadedAssumption == Preloaded \subseteq Sessions
ASSUME PostgresAssumption == Postgres \in BOOLEAN
ASSUME NoneAssumption == None \notin Int /\ None \notin Sessions /\ None \notin Users

VARIABLES
    balance,     \* users.balance_vnd, committed
    ledger,      \* wallet_transactions of a user, committed, in commit order
    lock,        \* who holds the write lock on a row of users
    pc,          \* where a session is: closed, open, lock, flush
    who,         \* the user whose wallet the session moves
    cached,      \* that user's balance in the session's identity map
    req,         \* arguments of the call in progress
    pend,        \* rows flushed by the session and not committed
    answer       \* the row the last call returned

dbvars == <<balance, ledger>>
vars == <<balance, ledger, lock, pc, who, cached, req, pend, answer>>

Types == {"topup", "debit", "refund", "adjust"}

\* The sign convention of credit, debit, refund and adjust.
Signed(type, a) == IF type = "debit" THEN -a ELSE a

\* The ValueError checks at the head of the four entry points and of _apply.
LegalAmount(type, a) == IF type = "adjust" THEN a # 0 ELSE a > 0

Row == [user : Users, type : Types, amt : Int, key : Keys, after : Int]
Request == [type : Types, amt : Int, key : Keys]

Elements(rows) == {rows[i] : i \in DOMAIN rows}

\* wallet_transactions as every session sees it, and as session s sees it.
Committed == UNION {Elements(ledger[u]) : u \in Users}
Visible(s) == Committed \cup Elements(pend[s])

TypeOK ==
    /\ balance \in [Users -> Int]
    /\ ledger \in [Users -> Seq(Row)]
    /\ lock \in [Users -> Sessions \cup {None}]
    /\ pc \in [Sessions -> {"closed", "open", "lock", "flush"}]
    /\ who \in [Sessions -> Users \cup {None}]
    /\ cached \in [Sessions -> Int \cup {None}]
    /\ req \in [Sessions -> Request \cup {None}]
    /\ pend \in [Sessions -> Seq(Row)]
    /\ answer \in [Sessions -> Row \cup {None}]

Init ==
    /\ balance = [u \in Users |-> 0]
    /\ ledger = [u \in Users |-> <<>>]
    /\ lock = [u \in Users |-> None]
    /\ pc = [s \in Sessions |-> "closed"]
    /\ who = [s \in Sessions |-> None]
    /\ cached = [s \in Sessions |-> None]
    /\ req = [s \in Sessions |-> None]
    /\ pend = [s \in Sessions |-> <<>>]
    /\ answer = [s \in Sessions |-> None]
-----------------------------------------------------------------------------
(***************************************************************************)
(* A request handler or a job opens its session.  The callers that hold    *)
(* the User before they reach the wallet (credit_wallet_for_topup, the     *)
(* purchase route, the admin wallet routes) read its balance here.         *)
(***************************************************************************)
Open(s, u) ==
    /\ pc[s] = "closed"
    /\ pc' = [pc EXCEPT ![s] = "open"]
    /\ who' = [who EXCEPT ![s] = u]
    /\ cached' = [cached EXCEPT ![s] = IF s \in Preloaded THEN balance[u] ELSE None]
    /\ UNCHANGED <<balance, ledger, lock, req, pend, answer>>

\* A call that raised: the session is as it was and the caller decides.
Raise(s) ==
    /\ pc' = [pc EXCEPT ![s] = "open"]
    /\ req' = [req EXCEPT ![s] = None]
    /\ answer' = [answer EXCEPT ![s] = None]

\* The row a call asks for, whatever balance it leaves.
Answers(r, u, q) == r.user = u /\ r.type = q.type /\ r.amt = q.amt

(***************************************************************************)
(* credit, debit, refund, adjust and _apply as far as the key lookup.      *)
(***************************************************************************)
IllegalAmount(s, type, a) ==
    /\ pc[s] = "open"
    /\ ~LegalAmount(type, a)
    /\ Raise(s)
    /\ UNCHANGED <<balance, ledger, lock, who, cached, pend>>

\* The key is known: the same payload gets the old row, another one an
\* IdempotencyConflictError.
KnownKey(s, type, a, k) ==
    /\ pc[s] = "open"
    /\ LegalAmount(type, a)
    /\ LET q == [type |-> type, amt |-> Signed(type, a), key |-> k]
       IN  \E r \in Visible(s) :
              /\ r.key = k
              /\ answer' = [answer EXCEPT ![s] = IF Answers(r, who[s], q) THEN r ELSE None]
    /\ UNCHANGED <<balance, ledger, lock, pc, who, cached, req, pend>>

NewKey(s, type, a, k) ==
    /\ pc[s] = "open"
    /\ LegalAmount(type, a)
    /\ \A r \in Visible(s) : r.key # k
    /\ req' = [req EXCEPT ![s] = [type |-> type, amt |-> Signed(type, a), key |-> k]]
    /\ pc' = [pc EXCEPT ![s] = "lock"]
    /\ answer' = [answer EXCEPT ![s] = None]
    /\ UNCHANGED <<balance, ledger, lock, who, cached, pend>>

\* MUTANT of LockUser: SELECT without FOR UPDATE.
LockUserUnlocked(s) ==
    LET seen == IF cached[s] = None THEN balance[who[s]] ELSE cached[s]
    IN  /\ pc[s] = "lock"
        /\ seen + req[s].amt >= 0
        /\ cached' = [cached EXCEPT ![s] = seen]
        /\ pc' = [pc EXCEPT ![s] = "flush"]
        /\ UNCHANGED <<balance, ledger, lock, who, req, pend, answer>>

(***************************************************************************)
(* _lock_user and the InsufficientFundsError check.  On PostgreSQL the     *)
(* SELECT ... FOR UPDATE waits for the row; on SQLite session.get takes no *)
(* lock.  Either way a User that is already loaded keeps its balance.      *)
(***************************************************************************)
LockUser(s) ==
    LET u == who[s]
        seen == IF cached[s] = None THEN balance[u] ELSE cached[s]
    IN  /\ pc[s] = "lock"
        /\ Postgres => lock[u] \in {None, s}
        /\ lock' = IF Postgres THEN [lock EXCEPT ![u] = s] ELSE lock
        /\ cached' = [cached EXCEPT ![s] = seen]
        /\ \/ /\ seen + req[s].amt >= 0
              /\ pc' = [pc EXCEPT ![s] = "flush"]
              /\ UNCHANGED <<req, answer>>
           \/ /\ seen + req[s].amt < 0
              /\ Raise(s)
        /\ UNCHANGED <<balance, ledger, who, pend>>

\* UPDATE users takes the row lock on PostgreSQL, the database lock on SQLite.
MayWrite(s) ==
    IF Postgres THEN lock[who[s]] \in {None, s}
                ELSE \A v \in Users : lock[v] \in {None, s}

\* The unique index makes an INSERT wait for the one that holds its key.
KeyBusy(s) ==
    \E t \in Sessions \ {s} : \E r \in Elements(pend[t]) : r.key = req[s].key

\* Every lock of session s is given up.
Released(s) == [u \in Users |-> IF lock[u] = s THEN None ELSE lock[u]]

\* MUTANT of Flush: idempotency_key is not UNIQUE.
FlushAnyKey(s) ==
    LET new == cached[s] + req[s].amt
        row == [user |-> who[s], type |-> req[s].type, amt |-> req[s].amt,
                key |-> req[s].key, after |-> new]
    IN  /\ pc[s] = "flush"
        /\ MayWrite(s)
        /\ lock' = [lock EXCEPT ![who[s]] = s]
        /\ cached' = [cached EXCEPT ![s] = new]
        /\ pend' = [pend EXCEPT ![s] = Append(@, row)]
        /\ answer' = [answer EXCEPT ![s] = row]
        /\ req' = [req EXCEPT ![s] = None]
        /\ pc' = [pc EXCEPT ![s] = "open"]
        /\ UNCHANGED <<balance, ledger, who>>

(***************************************************************************)
(* session.flush(): the balance and the row are written.                   *)
(***************************************************************************)
Flush(s) ==
    LET new == cached[s] + req[s].amt
        row == [user |-> who[s], type |-> req[s].type, amt |-> req[s].amt,
                key |-> req[s].key, after |-> new]
    IN  /\ pc[s] = "flush"
        /\ MayWrite(s)
        /\ ~KeyBusy(s)
        /\ \A r \in Committed : r.key # req[s].key
        /\ lock' = [lock EXCEPT ![who[s]] = s]
        /\ cached' = [cached EXCEPT ![s] = new]
        /\ pend' = [pend EXCEPT ![s] = Append(@, row)]
        /\ answer' = [answer EXCEPT ![s] = row]
        /\ req' = [req EXCEPT ![s] = None]
        /\ pc' = [pc EXCEPT ![s] = "open"]
        /\ UNCHANGED <<balance, ledger, who>>

\* MUTANT of FlushDuplicate: returns the record that was never stored.
FlushDuplicateReturnsRecord(s) ==
    /\ pc[s] = "flush"
    /\ MayWrite(s)
    /\ ~KeyBusy(s)
    /\ \E r \in Committed : r.key = req[s].key
    /\ answer' = [answer EXCEPT ![s] =
                     [user |-> who[s], type |-> req[s].type, amt |-> req[s].amt,
                      key |-> req[s].key, after |-> cached[s] + req[s].amt]]
    /\ lock' = Released(s)
    /\ cached' = [cached EXCEPT ![s] = None]
    /\ pend' = [pend EXCEPT ![s] = <<>>]
    /\ req' = [req EXCEPT ![s] = None]
    /\ pc' = [pc EXCEPT ![s] = "open"]
    /\ UNCHANGED <<balance, ledger, who>>

\* MUTANT of FlushDuplicate: the session is not rolled back.
FlushDuplicateKeepsWork(s) ==
    /\ pc[s] = "flush"
    /\ MayWrite(s)
    /\ ~KeyBusy(s)
    /\ \E r \in Committed : /\ r.key = req[s].key
                            /\ answer' = [answer EXCEPT ![s] = r]
    /\ cached' = [cached EXCEPT ![s] = @ + req[s].amt]
    /\ req' = [req EXCEPT ![s] = None]
    /\ pc' = [pc EXCEPT ![s] = "open"]
    /\ UNCHANGED <<balance, ledger, lock, who, pend>>

(***************************************************************************)
(* The flush meets a committed row with its key: IntegrityError, the whole *)
(* session is rolled back (its identity map expires), the row is fetched   *)
(* again and returned.                                                     *)
(***************************************************************************)
FlushDuplicate(s) ==
    /\ pc[s] = "flush"
    /\ MayWrite(s)
    /\ ~KeyBusy(s)
    /\ \E r \in Committed : /\ r.key = req[s].key
                            /\ answer' = [answer EXCEPT ![s] = r]
    /\ lock' = Released(s)
    /\ cached' = [cached EXCEPT ![s] = None]
    /\ pend' = [pend EXCEPT ![s] = <<>>]
    /\ req' = [req EXCEPT ![s] = None]
    /\ pc' = [pc EXCEPT ![s] = "open"]
    /\ UNCHANGED <<balance, ledger, who>>
-----------------------------------------------------------------------------
\* What is left of a session that ended.
Close(s) ==
    /\ lock' = Released(s)
    /\ pc' = [pc EXCEPT ![s] = "closed"]
    /\ cached' = [cached EXCEPT ![s] = None]
    /\ pend' = [pend EXCEPT ![s] = <<>>]
    /\ who' = [who EXCEPT ![s] = None]
    /\ req' = [req EXCEPT ![s] = None]
    /\ answer' = [answer EXCEPT ![s] = None]

\* The caller commits: the rows and the balance become visible together.
Commit(s) ==
    /\ pc[s] = "open"
    /\ ledger' = [ledger EXCEPT ![who[s]] = @ \o pend[s]]
    /\ balance' = [balance EXCEPT ![who[s]] = IF pend[s] = <<>> THEN @ ELSE cached[s]]
    /\ Close(s)

\* The caller gives up, the process dies, the statement times out or the
\* database breaks a deadlock: the transaction is rolled back.
Rollback(s) ==
    /\ pc[s] # "closed"
    /\ Close(s)
    /\ UNCHANGED dbvars

Step(s) ==
    \/ \E u \in Users : Open(s, u)
    \/ \E type \in Types, a \in Amounts :
          \/ IllegalAmount(s, type, a)
          \/ \E k \in Keys : KnownKey(s, type, a, k) \/ NewKey(s, type, a, k)
    \/ LockUser(s)
    \/ Flush(s)
    \/ FlushDuplicate(s)
    \/ Commit(s)
    \/ Rollback(s)

Next == \E s \in Sessions : Step(s)

Spec == Init /\ [][Next]_vars
-----------------------------------------------------------------------------
\* The abstract ledger sees what is committed: the two tables, and none of
\* the sessions' state.
Book == INSTANCE Ledger WITH Users <- Users, balance <- balance, ledger <- ledger

\* The callers for which FOR UPDATE really serializes: PostgreSQL, and no
\* session that holds the User before it calls the wallet.
Serialized == Postgres /\ Preloaded = {}

\* An idempotency key stands for one committed row, whichever sessions raced
\* with it and whichever user it is for (wallet.py:5, the UNIQUE key).
KeysUsedOnce ==
    \A u, v \in Users :
        \A i \in DOMAIN ledger[u], j \in DOMAIN ledger[v] :
            ledger[u][i].key = ledger[v][j].key => u = v /\ i = j

\* No committed balance and no committed balance_after is negative, also when
\* two sessions spend at the same time (wallet.py:84-88).
NoOverdraft ==
    \A u \in Users :
        /\ balance[u] >= 0
        /\ \A i \in DOMAIN ledger[u] : ledger[u][i].after >= 0

\* The row that a call returned is in the database, committed or in the
\* session's own transaction: also after the IntegrityError path rolled the
\* session back (wallet.py:103-111).
AnswerOnRecord ==
    \A s \in Sessions : answer[s] # None => answer[s] \in Visible(s)

\* Each row of the ledger starts from the balance that the row before it
\* left, and users.balance_vnd is where the last row ends (wallet.py:11-12).
LedgerChain ==
    \A u \in Users :
        /\ \A i \in DOMAIN ledger[u] :
              ledger[u][i].after = Book!BalanceBefore(ledger[u], i) + ledger[u][i].amt
        /\ balance[u] = Book!ClosingBalance(ledger[u])

\* Whatever the interleaving, committed transactions post to the ledger as
\* if they ran one after the other: what wallet.py:3-12 promises.
PostsSerially == Book!LSpec
=============================================================================
