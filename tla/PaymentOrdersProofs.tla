------------------------ MODULE PaymentOrdersProofs ------------------------
(***************************************************************************)
(* What holds of payment orders for any number of orders, names, transfers *)
(* and requests, and whatever is done by hand.                             *)
(***************************************************************************)
EXTENDS PaymentOrders, TLAPS

\* The rows a process has loaded.  What it is about to create is absent and
\* nobody else's; what it is about to change exists.
JobInv(p) ==
    job[p] # None =>
        /\ job[p].op = "create" =>
             /\ job[p].o \in Orders /\ status[job[p].o] = "absent"
             /\ \A q \in Procs : q # p /\ job[q] # None => job[q].o # job[p].o
        /\ job[p].op \notin {"create", "ingest", "expire", "reject"} =>
             job[p].o \in Orders /\ status[job[p].o] # "absent"
        /\ job[p].op \in {"force", "match", "rematch", "reject", "refund"} =>
             job[p].t \in Txs /\ state[job[p].t] # "absent"
        /\ job[p].op = "ingest" =>
             p = "poller" /\ job[p].t \in Txs /\ bank[job[p].t] # None
                          /\ state[job[p].t] = "absent"
        /\ job[p].op \in {"ingest", "expire"} =>
             \A o \in job[p].S : o \in Orders /\ status[o] # "absent"

LoadedInv == \A p \in Procs : JobInv(p)

\* What no step does: an order or a transaction that exists goes away, is
\* renamed, moved in time or becomes pending again; and the rows that a process
\* is about to create are created by nobody else.
RowsStay ==
    /\ \A o \in Orders : status[o] # "absent" =>
         /\ status'[o] # "absent" /\ name'[o] = name[o]
         /\ created'[o] = created[o] /\ expires'[o] = expires[o]
         /\ status[o] # "pending" => status'[o] # "pending"
    /\ \A t \in Txs : bank[t] # None => bank'[t] = bank[t]
    /\ \A t \in Txs : state[t] # "absent" => state'[t] # "absent"
    /\ \A p \in Procs : job[p] # None /\ job'[p] = job[p] =>
         /\ job[p].op = "create" => status'[job[p].o] = "absent"
         /\ job[p].op = "ingest" => state'[job[p].t] = "absent"

\* A transaction is booked on an order that exists.
MatchedInv == \A t \in Txs : matched[t] # None => status[matched[t]] # "absent"

\* Nothing is from the future, and a process has seen one tick at most.
ClockInv ==
    /\ \A o \in Orders : created[o] <= now /\ expires[o] <= created[o] + TTL
    /\ \A p \in Procs : job[p] # None => job[p].at <= now /\ now <= job[p].at + 1

\* A name is reserved beyond the end of all orders that had it.
ReservedInv == \A o \in Orders : name[o] # None => expires[o] <= reserved[name[o]]

\* What the ingest relies on when it books transfer t on order o.
Fits(t, o) == name[o] # None /\ name[o] \in bank[t].content /\ Within(t, o)

\* What was booked fits, is over, and was not loaded again.
BookedInv ==
    /\ \A e \in events : /\ bank[e[2]] # None /\ state[e[2]] # "absent"
                         /\ status[e[1]] \notin {"absent", "pending"}
                         /\ Fits(e[2], e[1])
    /\ job["poller"] # None /\ job["poller"].op = "ingest" =>
         \A o \in job["poller"].S :
             Fits(job["poller"].t, o) /\ \A e \in events : e[1] # o

\* Without manual operations and failing credits, only the ingest pays.
CreditInv ==
    /\ manual = 0 => \A p \in Procs :
         job[p] # None => job[p].op \in {"create", "ingest", "expire"}
    /\ manual = 0 /\ failures = 0 => PaidTopupIsCredited

\* The inductive invariant.
OrdersInv ==
    /\ TypeOK /\ LoadedInv /\ MatchedInv /\ ClockInv
    /\ ReservedInv /\ WindowsDisjoint /\ BookedInv /\ BookedOnce /\ CreditInv
-----------------------------------------------------------------------------
LEMMA OrdersInit == Init => OrdersInv
<1> SUFFICES ASSUME Init PROVE OrdersInv
  OBVIOUS
<1> USE DEF Init
<1>1. TypeOK
  BY BoundsAssumption DEF TypeOK, OrderStatuses, TxStates
<1>2. LoadedInv /\ MatchedInv
  BY DEF LoadedInv, JobInv, MatchedInv
<1>3. ClockInv
  BY TimeAssumption DEF ClockInv
<1>4. ReservedInv /\ WindowsDisjoint
  BY DEF ReservedInv, WindowsDisjoint
<1>5. BookedInv /\ BookedOnce
  BY DEF BookedInv, BookedOnce, Procs
<1>6. CreditInv
  BY SetsAssumption DEF CreditInv, PaidTopupIsCredited
<1>7. QED
  BY <1>1, <1>2, <1>3, <1>4, <1>5, <1>6 DEF OrdersInv

\* A load writes a job of its type and nothing else.
LEMMA LoadsType ==
    ASSUME TypeOK, NEW p \in Procs, NEW op \in ManualOps \cup {"ingest", "expire"},
           NEW o \in Orders \cup {None}, NEW t \in Txs \cup {None},
           NEW S \in SUBSET (Orders \cup Names), Loads(p, op, o, t, S)
    PROVE  job' \in [Procs -> Jobs \cup {None}]
<1>1. now \in Nat
  BY BoundsAssumption DEF TypeOK
<1>2. (IF o = None THEN None ELSE status[o]) \in OrderStatuses \cup {None}
  BY DEF TypeOK
<1>3. (IF o = None THEN None ELSE paidTx[o]) \in Txs \cup {None}
  BY DEF TypeOK
<1>4. (IF t = None THEN None ELSE state[t]) \in TxStates \cup {None}
  BY DEF TypeOK
<1>5. (IF t = None THEN None ELSE matched[t]) \in Orders \cup {None}
  BY DEF TypeOK
<1>6. [op |-> op, at |-> now, o |-> o, t |-> t, S |-> S,
       status  |-> IF o = None THEN None ELSE status[o],
       paidTx  |-> IF o = None THEN None ELSE paidTx[o],
       state   |-> IF t = None THEN None ELSE state[t],
       matched |-> IF t = None THEN None ELSE matched[t]] \in Jobs
  BY <1>1, <1>2, <1>3, <1>4, <1>5 DEF Jobs
<1>7. QED
  BY <1>6 DEF Loads, TypeOK

\* A commit or an abort leaves a job of its type.
LEMMA EndType ==
    ASSUME TypeOK, NEW p \in Procs, job' = [job EXCEPT ![p] = None]
    PROVE  job' \in [Procs -> Jobs \cup {None}]
  BY DEF TypeOK

\* Writing a column keeps its type.
LEMMA PutType ==
    ASSUME NEW X, NEW Y, NEW f \in [X -> Y], NEW x, NEW a, NEW b \in Y
    PROVE  Put(f, x, a, b) \in [X -> Y]
  BY DEF Put

LEMMA TypeStep == TypeOK /\ LoadedInv /\ [Next]_vars => TypeOK'
<1> SUFFICES ASSUME TypeOK, LoadedInv, [Next]_vars PROVE TypeOK'
  OBVIOUS
<1> now \in Nat
  BY BoundsAssumption DEF TypeOK
<1> USE DEF ordervars, txvars, money, bounds
<1>1. CASE UNCHANGED vars
  BY <1>1 DEF TypeOK, vars
<1>2. CASE Tick
  BY <1>2, BoundsAssumption DEF TypeOK, Tick
<1>3. ASSUME NEW t \in Txs, NEW a \in TxAmounts, NEW c \in Contents, NEW r \in Reliable,
             BankPost(t, a, c, r)
      PROVE  TypeOK'
  <2>1. r \in BOOLEAN
    BY SetsAssumption
  <2>2. [amount |-> a, content |-> c, at |-> now, reliable |-> r]
          \in [amount : TxAmounts, content : Contents, at : Nat, reliable : BOOLEAN]
    BY <2>1
  <2>3. QED
    BY <1>3, <2>2 DEF TypeOK, BankPost
<1>4. ASSUME NEW t \in Txs, IngestLoad(t) PROVE TypeOK'
  <2>1. Matches(t) \in SUBSET (Orders \cup Names)
    BY DEF Matches, FindOrderMatch, Candidates
  <2>2. "poller" \in Procs /\ "ingest" \in ManualOps \cup {"ingest", "expire"}
    BY DEF Procs
  <2>3. job' \in [Procs -> Jobs \cup {None}]
    BY <1>4, <2>1, <2>2, LoadsType DEF IngestLoad
  <2>4. QED
    BY <1>4, <2>3 DEF TypeOK, IngestLoad
<1>5. CASE IngestUnmatched
  <2> DEFINE s == CASE bank[job["poller"].t].amount <= 0 -> "new"
                    [] bank[job["poller"].t].amount > 0 /\ job["poller"].S = {} -> "unmatched"
                    [] OTHER -> "review"
  <2>1. s \in TxStates
    BY DEF TxStates
  <2> HIDE DEF s
  <2>2. state' = [state EXCEPT ![job["poller"].t] = s]
    BY <1>5 DEF IngestUnmatched, s
  <2>3. state' \in [Txs -> TxStates]
    BY <2>1, <2>2 DEF TypeOK
  <2>4. job' \in [Procs -> Jobs \cup {None}]
    BY <1>5, EndType DEF IngestUnmatched, Commits, Procs
  <2>5. QED
    BY <1>5, <2>3, <2>4 DEF TypeOK, IngestUnmatched
<1>6. ASSUME NEW o \in Orders, NEW ok \in BOOLEAN, IngestMatched(o, ok) PROVE TypeOK'
  <2>1. "poller" \in Procs /\ job["poller"] # None /\ job["poller"].op = "ingest"
    BY <1>6 DEF IngestMatched, Commits, Procs
  <2>2. job["poller"].t \in Txs /\ job["poller"].at \in Nat
    BY <2>1 DEF LoadedInv, JobInv, TypeOK, Jobs
  <2>3. Until(job["poller"].at) \in Nat
    BY <2>2, TimeAssumption DEF Until
  <2>4. job' \in [Procs -> Jobs \cup {None}]
    BY <1>6, <2>1, EndType DEF IngestMatched, Commits
  <2>5. credited' \subseteq Topups /\ failures' \in 0 .. MaxFailures
    BY <1>6, BoundsAssumption DEF IngestMatched, Credit, TypeOK
  <2>6. /\ status' \in [Orders -> OrderStatuses] /\ state' \in [Txs -> TxStates]
        /\ paidTx' \in [Orders -> Txs \cup {None}] /\ matched' \in [Txs -> Orders \cup {None}]
    BY <1>6, <2>2 DEF IngestMatched, TypeOK, OrderStatuses, TxStates
  <2>7. reserved' \in [Names -> Nat]
    BY <1>6, <2>3 DEF IngestMatched, TypeOK
  <2>8. events' \subseteq Orders \X Txs
    BY <1>6, <2>2 DEF IngestMatched, TypeOK
  <2>9. QED
    BY <1>6, <2>4, <2>5, <2>6, <2>7, <2>8 DEF TypeOK, IngestMatched
<1>7. CASE ExpireLoad
  <2>1. Overdue \in SUBSET (Orders \cup Names)
    BY DEF Overdue
  <2>2. "scheduler" \in Procs /\ "expire" \in ManualOps \cup {"ingest", "expire"}
    BY DEF Procs
  <2>3. job' \in [Procs -> Jobs \cup {None}]
    BY <1>7, <2>1, <2>2, LoadsType DEF ExpireLoad
  <2>4. QED
    BY <1>7, <2>3 DEF TypeOK, ExpireLoad
<1>8. CASE ExpireCommit
  <2>1. job' \in [Procs -> Jobs \cup {None}]
    BY <1>8, EndType DEF ExpireCommit, Commits, Procs
  <2>2. status' \in [Orders -> OrderStatuses]
    BY <1>8 DEF ExpireCommit, TypeOK, OrderStatuses
  <2>3. QED
    BY <1>8, <2>1, <2>2 DEF TypeOK, ExpireCommit
<1>9. ASSUME NEW p \in Procs, Abort(p) PROVE TypeOK'
  <2>1. job' \in [Procs -> Jobs \cup {None}]
    BY <1>9, EndType DEF Abort
  <2>2. QED
    BY <1>9, <2>1, BoundsAssumption DEF TypeOK, Abort
<1>10. ASSUME NEW p \in Requests, Create(p) PROVE TypeOK'
  <2>1. Free \in SUBSET (Orders \cup Names) /\ "create" \in ManualOps \cup {"ingest", "expire"}
    BY DEF Free, ManualOps
  <2>2. PICK o \in Orders : CreateLoad(p, o)
    BY <1>10 DEF Create
  <2>3. job' \in [Procs -> Jobs \cup {None}]
    BY <2>1, <2>2, LoadsType DEF CreateLoad, Procs
  <2>4. QED
    BY <1>10, <2>3 DEF TypeOK, Create
<1>11. ASSUME NEW p \in Requests, NEW op \in Ops, NEW o \in Orders \cup {None},
              NEW t \in Txs \cup {None}, ManualLoad(p, op, o, t)
       PROVE  TypeOK'
  <2>1. job' \in [Procs -> Jobs \cup {None}]
    BY <1>11, LoadsType, OpsAssumption DEF ManualLoad, Procs
  <2>2. QED
    BY <1>11, <2>1, BoundsAssumption DEF TypeOK, ManualLoad
<1>12. ASSUME NEW p \in Requests, Finish(p) PROVE TypeOK'
  <2>p. p \in Procs
    BY DEF Procs
  <2>j. job[p] # None => job[p] \in Jobs
    BY <2>p DEF TypeOK
  <2>n. job' \in [Procs -> Jobs \cup {None}]
    BY <1>12, <2>p, EndType DEF Finish, CreateCommit, CreateFull, Cancel, ApiCancel, Confirm,
       ForceMatch, Match, Rematch, Reject, Refund, Commits
  <2>1. ASSUME NEW n \in Names, CreateCommit(p, n) PROVE TypeOK'
    <3>1. job[p].at \in Nat
      BY <2>1, <2>j DEF CreateCommit, Commits, Jobs
    <3>2. job[p].at + TTL \in Nat /\ Until(job[p].at + TTL) \in Nat
      BY <3>1, TimeAssumption DEF Until
    <3>3. reserved' \in [Names -> Nat]
      BY <2>1, <3>2 DEF CreateCommit, TypeOK
    <3>4. /\ status' \in [Orders -> OrderStatuses] /\ name' \in [Orders -> Names \cup {None}]
          /\ created' \in [Orders -> Nat] /\ expires' \in [Orders -> Nat]
      BY <2>1, <3>2 DEF CreateCommit, TypeOK, OrderStatuses
    <3>5. QED
      BY <2>1, <2>n, <3>3, <3>4 DEF CreateCommit, TypeOK
  <2>2. CASE CreateFull(p)
    BY <2>2, <2>n DEF CreateFull, TypeOK
  <2>3. CASE Cancel(p) \/ Confirm(p)
    <3>1. status' \in [Orders -> OrderStatuses]
      BY <2>3 DEF Cancel, Confirm, SetStatus, TypeOK, OrderStatuses
    <3>2. QED
      BY <2>3, <2>n, <3>1 DEF Cancel, Confirm, SetStatus, TypeOK
  <2>4. CASE ApiCancel(p)
    <3>1. status' \in [Orders -> OrderStatuses]
      BY <2>4 DEF ApiCancel, SetStatus, TypeOK, OrderStatuses
    <3>2. Until(job[p].at) \in Nat
      BY <2>4, <2>j, TimeAssumption DEF ApiCancel, Commits, Jobs, Until
    <3>3. reserved' \in [Names -> Nat]
      BY <2>4, <3>2 DEF ApiCancel, TypeOK
    <3>4. QED
      BY <2>4, <2>n, <3>1, <3>3 DEF ApiCancel, SetStatus, TypeOK
  <2>5. CASE ForceMatch(p) \/ Match(p) \/ Rematch(p)
    <3>1. job[p] # None /\ job[p].op \in {"force", "match", "rematch"}
      BY <2>5 DEF ForceMatch, Match, Rematch, Commits
    <3>2. job[p].o \in Orders /\ job[p].t \in Txs
      BY <3>1, <2>p DEF LoadedInv, JobInv
    <3>3. PICK pays \in BOOLEAN : Books(p, pays)
      BY <2>5 DEF ForceMatch, Match, Rematch
    <3>4. "paid" \in OrderStatuses /\ "matched" \in TxStates
      BY DEF OrderStatuses, TxStates
    <3>5. status' \in [Orders -> OrderStatuses] /\ paidTx' \in [Orders -> Txs \cup {None}]
      BY <3>2, <3>3, <3>4, PutType DEF Books, TypeOK
    <3>6. state' \in [Txs -> TxStates] /\ matched' \in [Txs -> Orders \cup {None}]
      BY <3>2, <3>3, <3>4, PutType DEF Books, TypeOK
    <3>7. QED
      BY <2>n, <3>3, <3>5, <3>6 DEF Books, TypeOK
  <2>6. CASE Reject(p)
    <3>1. "rejected" \in TxStates
      BY DEF TxStates
    <3>2. state' \in [Txs -> TxStates] /\ matched' \in [Txs -> Orders \cup {None}]
      BY <2>6, <3>1, PutType DEF Reject, TypeOK
    <3>3. QED
      BY <2>6, <2>n, <3>2 DEF Reject, TypeOK
  <2>7. CASE Refund(p)
    <3>1. "refunded" \in TxStates /\ "refunded" \in OrderStatuses
      BY DEF TxStates, OrderStatuses
    <3>2. state' \in [Txs -> TxStates] /\ status' \in [Orders -> OrderStatuses]
      BY <2>7, <3>1, PutType DEF Refund, TypeOK
    <3>t. job[p].t \in Txs
      BY <2>7, <2>p DEF Refund, Commits, LoadedInv, JobInv
    <3>3. refunds' \in [Txs -> Nat]
      BY <2>7, <3>t DEF Refund, TypeOK
    <3>4. QED
      BY <2>7, <2>n, <3>2, <3>3 DEF Refund, TypeOK
  <2>8. QED
    BY <1>12, <2>1, <2>2, <2>3, <2>4, <2>5, <2>6, <2>7 DEF Finish
<1>13. QED
  BY <1>1, <1>2, <1>3, <1>4, <1>5, <1>6, <1>7, <1>8, <1>9, <1>10, <1>11, <1>12
     DEF Next, Poller, Scheduler, Request

LEMMA RowsStayStep == TypeOK /\ LoadedInv /\ [Next]_vars => RowsStay
<1> SUFFICES ASSUME TypeOK, LoadedInv, [Next]_vars PROVE RowsStay
  OBVIOUS
<1> USE DEF ordervars, txvars, money, bounds
<1>q. "poller" \in Procs /\ "scheduler" \in Procs
  BY DEF Procs
<1>0. ASSUME UNCHANGED <<ordervars, bank, txvars>> PROVE RowsStay
  BY <1>0 DEF RowsStay, LoadedInv, JobInv
<1>1. CASE UNCHANGED vars
  BY <1>0, <1>1 DEF vars
<1>2. CASE Tick
  BY <1>0, <1>2 DEF Tick
<1>3. ASSUME NEW t \in Txs, NEW a \in TxAmounts, NEW c \in Contents, NEW r \in Reliable,
             BankPost(t, a, c, r)
      PROVE  RowsStay
  BY <1>3 DEF RowsStay, LoadedInv, JobInv, BankPost, TypeOK
<1>4. ASSUME NEW t \in Txs, IngestLoad(t) PROVE RowsStay
  BY <1>0, <1>4 DEF IngestLoad
<1>5. CASE IngestUnmatched
  <2> DEFINE s == CASE bank[job["poller"].t].amount <= 0 -> "new"
                    [] bank[job["poller"].t].amount > 0 /\ job["poller"].S = {} -> "unmatched"
                    [] OTHER -> "review"
  <2>1. s # "absent"
    OBVIOUS
  <2> HIDE DEF s
  <2>2. state' = [state EXCEPT ![job["poller"].t] = s]
    BY <1>5 DEF IngestUnmatched, s
  <2>3. UNCHANGED <<ordervars, bank>> /\ Commits("poller", "ingest")
    BY <1>5 DEF IngestUnmatched
  <2>4. \A p \in Procs : job[p] # None /\ job'[p] = job[p] => p # "poller"
    BY <1>q, <2>3 DEF Commits, TypeOK
  <2>5. QED
    BY <2>1, <2>2, <2>3, <2>4 DEF RowsStay, LoadedInv, JobInv, TypeOK
<1>6. ASSUME NEW o \in Orders, NEW ok \in BOOLEAN, IngestMatched(o, ok) PROVE RowsStay
  <2>1. Commits("poller", "ingest") /\ UNCHANGED <<name, created, expires, bank>>
    BY <1>6 DEF IngestMatched
  <2>2. \A p \in Procs : job[p] # None /\ job'[p] = job[p] => p # "poller"
    BY <1>q, <2>1 DEF Commits, TypeOK
  <2>3. o \in job["poller"].S /\ status[o] # "absent"
    BY <1>6, <1>q, <2>1 DEF IngestMatched, Commits, LoadedInv, JobInv
  <2>4. /\ status' = [status EXCEPT ![o] = "paid"]
        /\ state' = [state EXCEPT ![job["poller"].t] = "matched"]
    BY <1>6 DEF IngestMatched
  <2>5. QED
    BY <2>1, <2>2, <2>3, <2>4 DEF RowsStay, LoadedInv, JobInv, TypeOK
<1>7. CASE ExpireLoad
  BY <1>0, <1>7 DEF ExpireLoad
<1>8. CASE ExpireCommit
  <2>1. \A o \in job["scheduler"].S : status[o] # "absent"
    BY <1>8, <1>q DEF ExpireCommit, Commits, LoadedInv, JobInv
  <2>2. QED
    BY <1>8, <2>1 DEF ExpireCommit, RowsStay, LoadedInv, JobInv, TypeOK
<1>9. ASSUME NEW p \in Procs, Abort(p) PROVE RowsStay
  BY <1>0, <1>9 DEF Abort
<1>10. ASSUME NEW p \in Requests, Create(p) PROVE RowsStay
  BY <1>0, <1>10 DEF Create
<1>11. ASSUME NEW p \in Requests, NEW op \in Ops, NEW o \in Orders \cup {None},
              NEW t \in Txs \cup {None}, ManualLoad(p, op, o, t)
       PROVE  RowsStay
  BY <1>0, <1>11 DEF ManualLoad
<1>12. ASSUME NEW p \in Requests, Finish(p) PROVE RowsStay
  <2>p. p \in Procs
    BY DEF Procs
  <2>n. \A q \in Procs : job[p] # None /\ job' = [job EXCEPT ![p] = None]
                           /\ job[q] # None /\ job'[q] = job[q] => q # p
    BY <2>p DEF TypeOK
  <2>1. ASSUME NEW n \in Names, CreateCommit(p, n) PROVE RowsStay
    <3>1. /\ job[p].o \in Orders /\ status[job[p].o] = "absent"
          /\ \A q \in Procs : q # p /\ job[q] # None => job[q].o # job[p].o
      BY <2>1, <2>p DEF CreateCommit, Commits, LoadedInv, JobInv
    <3>2. QED
      BY <2>1, <2>n, <3>1 DEF CreateCommit, Commits, RowsStay, LoadedInv, JobInv, TypeOK
  <2>2. CASE CreateFull(p)
    BY <1>0, <2>2 DEF CreateFull
  <2>3. CASE Cancel(p) \/ ApiCancel(p) \/ Confirm(p)
    <3>1. job[p].o \in Orders /\ status[job[p].o] # "absent"
      BY <2>3, <2>p DEF Cancel, ApiCancel, Confirm, Commits, LoadedInv, JobInv
    <3>2. PICK s \in {"canceled", "paid"} : SetStatus(p, s)
      BY <2>3 DEF Cancel, ApiCancel, Confirm
    <3>3. QED
      BY <3>1, <3>2 DEF SetStatus, RowsStay, LoadedInv, JobInv, TypeOK
  <2>4. CASE ForceMatch(p) \/ Match(p) \/ Rematch(p)
    <3>1. /\ job[p].o \in Orders /\ status[job[p].o] # "absent"
          /\ job[p].t \in Txs /\ state[job[p].t] # "absent"
      BY <2>4, <2>p DEF ForceMatch, Match, Rematch, Commits, LoadedInv, JobInv
    <3>2. PICK pays \in BOOLEAN : Books(p, pays)
      BY <2>4 DEF ForceMatch, Match, Rematch
    <3>3. QED
      BY <3>1, <3>2 DEF Books, Put, RowsStay, LoadedInv, JobInv, TypeOK
  <2>5. CASE Reject(p)
    <3>1. job[p].t \in Txs /\ state[job[p].t] # "absent"
      BY <2>5, <2>p DEF Reject, Commits, LoadedInv, JobInv
    <3>2. QED
      BY <2>5, <3>1 DEF Reject, Put, RowsStay, LoadedInv, JobInv, TypeOK
  <2>6. CASE Refund(p)
    <3>1. /\ job[p].o \in Orders /\ status[job[p].o] # "absent"
          /\ job[p].t \in Txs /\ state[job[p].t] # "absent"
      BY <2>6, <2>p DEF Refund, Commits, LoadedInv, JobInv
    <3>2. QED
      BY <2>6, <3>1 DEF Refund, Put, RowsStay, LoadedInv, JobInv, TypeOK
  <2>7. QED
    BY <1>12, <2>1, <2>2, <2>3, <2>4, <2>5, <2>6 DEF Finish
<1>13. QED
  BY <1>1, <1>2, <1>3, <1>4, <1>5, <1>6, <1>7, <1>8, <1>9, <1>10, <1>11, <1>12
     DEF Next, Poller, Scheduler, Request

\* How the jobs change in a step.
LEMMA JobCases ==
    [Next]_vars =>
        \/ UNCHANGED job
        \/ \E p \in Procs : job[p] # None /\ job' = [job EXCEPT ![p] = None]
        \/ \E t \in Txs : IngestLoad(t)
        \/ ExpireLoad
        \/ \E p \in Requests : Create(p)
        \/ \E p \in Requests, op \in Ops, o \in Orders \cup {None}, t \in Txs \cup {None} :
             ManualLoad(p, op, o, t)
<1>1. \A p \in Requests : Finish(p) => job[p] # None /\ job' = [job EXCEPT ![p] = None]
  BY DEF Finish, CreateCommit, CreateFull, Cancel, ApiCancel, Confirm, ForceMatch, Match,
         Rematch, Reject, Refund, Commits
<1>2. \A o \in Orders, ok \in BOOLEAN :
        IngestMatched(o, ok) => job["poller"] # None /\ job' = [job EXCEPT !["poller"] = None]
  BY DEF IngestMatched, Commits
<1>3. IngestUnmatched => job["poller"] # None /\ job' = [job EXCEPT !["poller"] = None]
  BY DEF IngestUnmatched, Commits
<1>4. ExpireCommit => job["scheduler"] # None /\ job' = [job EXCEPT !["scheduler"] = None]
  BY DEF ExpireCommit, Commits
<1>5. \A p \in Procs : Abort(p) => job[p] # None /\ job' = [job EXCEPT ![p] = None]
  BY DEF Abort
<1>6. Tick => UNCHANGED job
  BY DEF Tick
<1>7. \A t \in Txs, a \in TxAmounts, c \in Contents, r \in Reliable :
        BankPost(t, a, c, r) => UNCHANGED job
  BY DEF BankPost
<1>8. UNCHANGED vars => UNCHANGED job
  BY DEF vars
<1>9. QED
  BY <1>1, <1>2, <1>3, <1>4, <1>5, <1>6, <1>7, <1>8
     DEF Next, Poller, Scheduler, Request, Procs

\* A job that a step leaves alone stays in order.
LEMMA KeptJob ==
    ASSUME TypeOK, LoadedInv, RowsStay, NEW p \in Procs, job'[p] = job[p],
           \A q \in Procs : q # p /\ job'[q] # None =>
               job'[q] = job[q] \/ job[p].op # "create" \/ job'[q].o # job[p].o
    PROVE  JobInv(p)'
<1> SUFFICES ASSUME job[p] # None PROVE JobInv(p)'
  BY DEF JobInv
<1>1. JobInv(p)
  BY DEF LoadedInv
<1>2. QED
  BY <1>1 DEF JobInv, RowsStay

\* The job of a process that has just loaded.
LEMMA NewJob ==
    ASSUME TypeOK, NEW p \in Procs, NEW op, NEW o, NEW t, NEW S, Loads(p, op, o, t, S)
    PROVE  /\ job'[p].op = op /\ job'[p].at = now /\ job'[p].o = o /\ job'[p].t = t
           /\ job'[p].S = S
           /\ \A q \in Procs : q # p => job'[q] = job[q]
  BY DEF Loads, TypeOK

LEMMA LoadedStep == TypeOK /\ LoadedInv /\ MatchedInv /\ [Next]_vars => LoadedInv'
<1> SUFFICES ASSUME TypeOK, LoadedInv, MatchedInv, [Next]_vars PROVE LoadedInv'
  OBVIOUS
<1>r. RowsStay
  BY RowsStayStep
<1>0. ASSUME UNCHANGED job PROVE LoadedInv'
  BY <1>r, <1>0, KeptJob DEF LoadedInv
<1>1. ASSUME NEW r \in Procs, job' = [job EXCEPT ![r] = None] PROVE LoadedInv'
  <2>1. job'[r] = None /\ \A p \in Procs : p # r => job'[p] = job[p]
    BY <1>1 DEF TypeOK
  <2>2. JobInv(r)'
    BY <2>1 DEF JobInv
  <2>3. \A p \in Procs : p # r => JobInv(p)'
    BY <1>r, <2>1, KeptJob
  <2>4. QED
    BY <2>2, <2>3 DEF LoadedInv
<1>2. ASSUME NEW t \in Txs, IngestLoad(t) PROVE LoadedInv'
  <2>1. "poller" \in Procs /\ Loads("poller", "ingest", None, t, Matches(t))
    BY <1>2 DEF IngestLoad, Procs
  <2>2. /\ job'["poller"].op = "ingest" /\ job'["poller"].o = None /\ job'["poller"].t = t
        /\ job'["poller"].S = Matches(t) /\ \A q \in Procs : q # "poller" => job'[q] = job[q]
    BY <2>1, NewJob
  <2>3. \A o \in Matches(t) : o \in Orders /\ status[o] # "absent"
    BY DEF Matches, FindOrderMatch, Candidates
  <2>4. UNCHANGED <<status, bank, state>>
    BY <1>2 DEF IngestLoad, ordervars, txvars
  <2>5. JobInv("poller")'
    BY <1>2, <2>2, <2>3, <2>4 DEF JobInv, IngestLoad
  <2>6. ASSUME NEW p \in Procs, p # "poller" PROVE JobInv(p)'
    <3>1. job[p] # None /\ job[p].op = "create" => job[p].o # None
      BY SetsAssumption DEF LoadedInv, JobInv
    <3>2. CASE job[p] = None
      BY <2>2, <2>6, <3>2 DEF JobInv
    <3>3. CASE job[p] # None
      BY <1>r, <2>2, <2>6, <3>1, <3>3, KeptJob
    <3>4. QED
      BY <3>2, <3>3
  <2>7. QED
    BY <2>5, <2>6 DEF LoadedInv
<1>3. CASE ExpireLoad
  <2>1. "scheduler" \in Procs /\ Loads("scheduler", "expire", None, None, Overdue)
    BY <1>3 DEF ExpireLoad, Procs
  <2>2. /\ job'["scheduler"].op = "expire" /\ job'["scheduler"].o = None
        /\ job'["scheduler"].S = Overdue
        /\ \A q \in Procs : q # "scheduler" => job'[q] = job[q]
    BY <2>1, NewJob
  <2>3. \A o \in Overdue : o \in Orders /\ status[o] # "absent"
    BY DEF Overdue
  <2>4. UNCHANGED <<status, bank, state>>
    BY <1>3 DEF ExpireLoad, ordervars, txvars
  <2>5. JobInv("scheduler")'
    BY <2>2, <2>3, <2>4 DEF JobInv
  <2>6. ASSUME NEW p \in Procs, p # "scheduler" PROVE JobInv(p)'
    <3>1. job[p] # None /\ job[p].op = "create" => job[p].o # None
      BY SetsAssumption DEF LoadedInv, JobInv
    <3>2. CASE job[p] = None
      BY <2>2, <2>6, <3>2 DEF JobInv
    <3>3. CASE job[p] # None
      BY <1>r, <2>2, <2>6, <3>1, <3>3, KeptJob
    <3>4. QED
      BY <3>2, <3>3
  <2>7. QED
    BY <2>5, <2>6 DEF LoadedInv
<1>4. ASSUME NEW r \in Requests, Create(r) PROVE LoadedInv'
  <2>1. PICK o \in Orders : CreateLoad(r, o)
    BY <1>4 DEF Create
  <2>2. r \in Procs /\ Loads(r, "create", o, None, Free)
    BY <2>1 DEF CreateLoad, Procs
  <2>3. /\ job'[r].op = "create" /\ job'[r].o = o
        /\ \A q \in Procs : q # r => job'[q] = job[q]
    BY <2>2, NewJob
  <2>4. UNCHANGED <<status, bank, state>>
    BY <1>4 DEF Create, ordervars, txvars
  <2>5. JobInv(r)'
    BY <2>1, <2>3, <2>4 DEF JobInv, CreateLoad
  <2>6. ASSUME NEW p \in Procs, p # r PROVE JobInv(p)'
    <3>1. CASE job[p] = None
      BY <2>3, <2>6, <3>1 DEF JobInv
    <3>2. CASE job[p] # None
      BY <1>r, <2>1, <2>3, <2>6, <3>2, KeptJob DEF CreateLoad
    <3>3. QED
      BY <3>1, <3>2
  <2>7. QED
    BY <2>5, <2>6 DEF LoadedInv
<1>5. ASSUME NEW r \in Requests, NEW op \in Ops, NEW o \in Orders \cup {None},
             NEW t \in Txs \cup {None}, ManualLoad(r, op, o, t)
      PROVE  LoadedInv'
  <2>1. r \in Procs /\ Loads(r, op, o, t, {})
    BY <1>5 DEF ManualLoad, Procs
  <2>2. /\ job'[r].op = op /\ job'[r].o = o /\ job'[r].t = t
        /\ \A q \in Procs : q # r => job'[q] = job[q]
    BY <2>1, NewJob
  <2>3. UNCHANGED <<status, bank, state>>
    BY <1>5 DEF ManualLoad, ordervars, txvars
  <2>4. /\ op \in {"cancel", "apicancel", "confirm", "force", "match", "rematch", "reject", "refund"}
        /\ o # None => status[o] # "absent"
        /\ op # "reject" => o # None
        /\ op \in {"force", "match", "rematch", "reject", "refund"} => t # None
    BY <1>5 DEF ManualLoad, ManualGuard, MatchedInv, FindOrderMatch
  <2>5. t # None => state[t] # "absent"
    BY <1>5 DEF ManualLoad
  <2>6. JobInv(r)'
    BY <2>2, <2>3, <2>4, <2>5 DEF JobInv
  <2>7. ASSUME NEW p \in Procs, p # r PROVE JobInv(p)'
    <3>1. job[p] # None /\ job[p].op = "create" => job[p].o # None /\ status[job[p].o] = "absent"
      BY SetsAssumption DEF LoadedInv, JobInv
    <3>2. CASE job[p] = None
      BY <2>2, <2>7, <3>2 DEF JobInv
    <3>3. CASE job[p] # None
      BY <1>r, <2>2, <2>4, <2>7, <3>1, <3>3, KeptJob
    <3>4. QED
      BY <3>2, <3>3
  <2>8. QED
    BY <2>6, <2>7 DEF LoadedInv
<1>6. QED
  BY <1>0, <1>1, <1>2, <1>3, <1>4, <1>5, JobCases

LEMMA MatchedStep == TypeOK /\ LoadedInv /\ MatchedInv /\ [Next]_vars => MatchedInv'
<1> SUFFICES ASSUME TypeOK, LoadedInv, MatchedInv, [Next]_vars PROVE MatchedInv'
  OBVIOUS
<1>r. RowsStay
  BY RowsStayStep
<1>0. ASSUME UNCHANGED matched PROVE MatchedInv'
  BY <1>r, <1>0 DEF MatchedInv, RowsStay, TypeOK
<1>1. ASSUME NEW o \in Orders, NEW ok \in BOOLEAN, IngestMatched(o, ok) PROVE MatchedInv'
  BY <1>r, <1>1 DEF IngestMatched, MatchedInv, RowsStay, TypeOK
<1>2. ASSUME NEW p \in Requests, ForceMatch(p) \/ Match(p) \/ Rematch(p) PROVE MatchedInv'
  <2>1. job[p].o \in Orders /\ status[job[p].o] # "absent"
    BY <1>2 DEF ForceMatch, Match, Rematch, Commits, LoadedInv, JobInv, Procs
  <2>2. matched' = Put(matched, job[p].t, job[p].matched, job[p].o)
    BY <1>2 DEF ForceMatch, Match, Rematch, Books
  <2>3. QED
    BY <1>r, <2>1, <2>2 DEF MatchedInv, RowsStay, Put, TypeOK
<1>3. ASSUME NEW p \in Requests, Reject(p) PROVE MatchedInv'
  <2>1. matched' = Put(matched, job[p].t, job[p].matched, None)
    BY <1>3 DEF Reject
  <2>2. QED
    BY <1>r, <2>1 DEF MatchedInv, RowsStay, Put, TypeOK
<1>4. \/ UNCHANGED matched
      \/ \E o \in Orders, ok \in BOOLEAN : IngestMatched(o, ok)
      \/ \E p \in Requests : ForceMatch(p) \/ Match(p) \/ Rematch(p) \/ Reject(p)
  BY DEF Next, vars, Poller, Scheduler, Request, Finish, Tick, BankPost, IngestLoad,
         IngestUnmatched, ExpireLoad, ExpireCommit, Create, ManualLoad, Abort, CreateCommit,
         CreateFull, Cancel, ApiCancel, Confirm, SetStatus, Refund, txvars
<1>5. QED
  BY <1>0, <1>1, <1>2, <1>3, <1>4

\* How orders and reservations change: a name, once given, stays.
LEMMA NameCases ==
    [Next]_vars =>
        \/ UNCHANGED <<name, created, expires, reserved>>
        \/ /\ UNCHANGED <<name, created, expires, now>>
           /\ \E p \in Procs : \E n : job[p] # None
                 /\ reserved' = [reserved EXCEPT ![n] = Until(job[p].at)]
        \/ \E p \in Requests, n \in Names : CreateCommit(p, n)
<1> SUFFICES ASSUME [Next]_vars
             PROVE  \/ UNCHANGED <<name, created, expires, reserved>>
                    \/ /\ UNCHANGED <<name, created, expires, now>>
                       /\ \E p \in Procs : \E n : job[p] # None
                             /\ reserved' = [reserved EXCEPT ![n] = Until(job[p].at)]
                    \/ \E p \in Requests, n \in Names : CreateCommit(p, n)
  OBVIOUS
<1>1. ASSUME NEW o \in Orders, NEW ok \in BOOLEAN, IngestMatched(o, ok)
      PROVE  /\ UNCHANGED <<name, created, expires, now>>
             /\ job["poller"] # None /\ "poller" \in Procs
             /\ reserved' = [reserved EXCEPT ![name[o]] = Until(job["poller"].at)]
  BY <1>1 DEF IngestMatched, Commits, Procs
<1>2. ASSUME NEW p \in Requests, ApiCancel(p)
      PROVE  /\ UNCHANGED <<name, created, expires, now>>
             /\ job[p] # None /\ p \in Procs
             /\ reserved' = [reserved EXCEPT ![name[job[p].o]] = Until(job[p].at)]
  BY <1>2 DEF ApiCancel, SetStatus, Commits, Procs
<1>3. \/ UNCHANGED <<name, created, expires, reserved>>
      \/ \E o \in Orders, ok \in BOOLEAN : IngestMatched(o, ok)
      \/ \E p \in Requests : ApiCancel(p) \/ \E n \in Names : CreateCommit(p, n)
  BY DEF Next, vars, Poller, Scheduler, Request, Finish, Tick, BankPost, IngestLoad,
         IngestUnmatched, ExpireLoad, ExpireCommit, Create, ManualLoad, Abort,
         CreateFull, Cancel, Confirm, SetStatus, ForceMatch, Match, Rematch, Books, Reject,
         Refund, ordervars
<1>4. QED
  BY <1>1, <1>2, <1>3

LEMMA ClockStep == TypeOK /\ ClockInv /\ [Next]_vars => ClockInv'
<1> SUFFICES ASSUME TypeOK, ClockInv, [Next]_vars PROVE ClockInv'
  OBVIOUS
<1>n. now \in Nat /\ now <= now' /\ now' \in Nat /\ (now' = now \/ Tick)
  <2>1. now \in Nat
    BY BoundsAssumption DEF TypeOK
  <2>2. now' = now \/ Tick
    BY ZenonT(40) DEF Next, vars, Poller, Scheduler, Request, Finish, BankPost, IngestLoad,
         IngestUnmatched, IngestMatched, ExpireLoad, ExpireCommit, Create, ManualLoad, Abort,
         CreateCommit, CreateFull, Cancel, ApiCancel, Confirm, SetStatus, ForceMatch, Match,
         Rematch, Books, Reject, Refund
  <2>3. QED
    BY <2>1, <2>2 DEF Tick
<1>1. \A o \in Orders : created'[o] <= now' /\ expires'[o] <= created'[o] + TTL
  <2>1. CASE UNCHANGED <<created, expires>>
    BY <1>n, <2>1 DEF ClockInv, TypeOK
  <2>2. ASSUME NEW p \in Requests, NEW n \in Names, CreateCommit(p, n)
        PROVE  \A o \in Orders : created'[o] <= now' /\ expires'[o] <= created'[o] + TTL
    <3>1. job[p].at \in Nat /\ job[p].at <= now
      BY <2>2 DEF CreateCommit, Commits, ClockInv, Procs, TypeOK, Jobs
    <3>2. QED
      BY <1>n, <2>2, <3>1, TimeAssumption DEF CreateCommit, ClockInv, TypeOK
  <2>3. QED
    BY <2>1, <2>2, NameCases
<1>2. ASSUME NEW p \in Procs, job'[p] # None PROVE job'[p].at <= now' /\ now' <= job'[p].at + 1
  <2>1. CASE Tick
    BY <1>n, <1>2, <2>1 DEF Tick
  <2>2. CASE now' = now /\ job'[p] = job[p]
    BY <1>2, <2>2 DEF ClockInv
  <2>3. ASSUME NEW q \in Procs, NEW op, NEW o, NEW t, NEW S, Loads(q, op, o, t, S), now' = now,
               job'[p] # job[p]
        PROVE  job'[p].at <= now' /\ now' <= job'[p].at + 1
    <3>1. p = q /\ job'[p].at = now
      BY <2>3, NewJob
    <3>2. QED
      BY <1>n, <2>3, <3>1
  <2>4. ASSUME job'[p] # job[p]
        PROVE  \E q \in Procs : \E op, o, t, S : Loads(q, op, o, t, S)
    <3>1. ~UNCHANGED job /\ ~\E q \in Procs : job' = [job EXCEPT ![q] = None]
      BY <1>2, <2>4 DEF TypeOK
    <3>2. QED
      BY <3>1, JobCases DEF IngestLoad, ExpireLoad, Create, CreateLoad, ManualLoad, Procs
  <2>5. QED
    BY <1>n, <2>1, <2>2, <2>3, <2>4
<1>3. QED
  BY <1>1, <1>2 DEF ClockInv

\* A name is free for a new order only when the old one is over, and what cuts
\* a reservation short leaves it longer than any order lasts.
LEMMA WindowsStep ==
    TypeOK /\ ClockInv /\ ReservedInv /\ WindowsDisjoint /\ [Next]_vars
        => ReservedInv' /\ WindowsDisjoint'
<1> SUFFICES ASSUME TypeOK, ClockInv, ReservedInv, WindowsDisjoint, [Next]_vars
             PROVE  ReservedInv' /\ WindowsDisjoint'
  OBVIOUS
<1>t. now \in Nat /\ \A o \in Orders : created[o] \in Nat /\ expires[o] \in Nat
                                       /\ (name[o] # None => name[o] \in Names)
  BY BoundsAssumption DEF TypeOK
<1>1. CASE UNCHANGED <<name, created, expires, reserved>>
  BY <1>1 DEF ReservedInv, WindowsDisjoint
<1>2. ASSUME UNCHANGED <<name, created, expires, now>>, NEW p \in Procs, job[p] # None, NEW n,
             reserved' = [reserved EXCEPT ![n] = Until(job[p].at)]
      PROVE  ReservedInv' /\ WindowsDisjoint'
  <2>1. job[p].at \in Nat /\ now <= job[p].at + 1
    BY <1>2 DEF ClockInv, TypeOK, Jobs
  <2>2. \A o \in Orders : expires[o] <= Until(job[p].at)
    BY <1>t, <2>1, TimeAssumption DEF ClockInv, Until
  <2>3. ASSUME NEW o \in Orders, name[o] # None PROVE expires[o] <= reserved'[name[o]]
    BY <1>2, <1>t, <2>2, <2>3 DEF ReservedInv, TypeOK
  <2>4. QED
    BY <1>2, <2>3 DEF ReservedInv, WindowsDisjoint
<1>3. ASSUME NEW p \in Requests, NEW n \in Names, CreateCommit(p, n)
      PROVE  ReservedInv' /\ WindowsDisjoint'
  <2> DEFINE x == job[p].o
  <2>1. job[p] # None /\ job[p].at \in Nat /\ job[p].at <= now
    BY <1>3 DEF CreateCommit, Commits, ClockInv, Procs, TypeOK, Jobs
  <2>2. reserved[n] \in Nat /\ reserved[n] <= job[p].at
    BY <1>3 DEF CreateCommit, Takes, TypeOK
  <2>3. /\ reserved' = [reserved EXCEPT ![n] = Until(job[p].at + TTL)]
        /\ name' = [name EXCEPT ![x] = n] /\ created' = [created EXCEPT ![x] = now]
        /\ expires' = [expires EXCEPT ![x] = job[p].at + TTL]
    BY <1>3 DEF CreateCommit
  <2>4. \A o \in Orders : name[o] = n => expires[o] <= job[p].at
    BY <1>t, <2>1, <2>2, SetsAssumption DEF ReservedInv
  <2>5. \A o \in Orders : o # x => name'[o] = name[o] /\ created'[o] = created[o] /\ expires'[o] = expires[o]
    BY <2>3 DEF TypeOK
  <2>6. x \in Orders => name'[x] = n /\ created'[x] = now /\ expires'[x] = job[p].at + TTL
    BY <2>3 DEF TypeOK
  <2>7. /\ reserved'[n] = job[p].at + TTL + Cooldown
        /\ \A m \in Names : m # n => reserved'[m] = reserved[m]
    BY <2>3 DEF TypeOK, Until
  <2> HIDE DEF x
  <2>8. ReservedInv'
    <3> SUFFICES ASSUME NEW o \in Orders, name'[o] # None PROVE expires'[o] <= reserved'[name'[o]]
      BY DEF ReservedInv
    <3>1. CASE o = x
      BY <2>1, <2>6, <2>7, <3>1, TimeAssumption
    <3>2. CASE o # x /\ name[o] = n
      BY <1>t, <2>1, <2>4, <2>5, <2>7, <3>2, TimeAssumption
    <3>3. CASE o # x /\ name[o] # n
      BY <1>t, <2>5, <2>7, <3>3 DEF ReservedInv
    <3>4. QED
      BY <3>1, <3>2, <3>3
  <2>9. WindowsDisjoint'
    <3> SUFFICES ASSUME NEW o \in Orders, NEW q \in Orders, o # q, name'[o] # None, name'[o] = name'[q]
                 PROVE  expires'[o] <= created'[q] \/ expires'[q] <= created'[o]
      BY DEF WindowsDisjoint
    <3>1. CASE o # x /\ q # x
      BY <2>5, <3>1 DEF WindowsDisjoint
    <3>2. CASE o = x
      BY <1>t, <2>1, <2>4, <2>5, <2>6, <3>2
    <3>3. CASE q = x
      BY <1>t, <2>1, <2>4, <2>5, <2>6, <3>3
    <3>4. QED
      BY <3>1, <3>2, <3>3
  <2>10. QED
    BY <2>8, <2>9
<1>4. QED
  BY <1>1, <1>2, <1>3, NameCases

\* Only the ingest announces payments.
LEMMA EventCases ==
    [Next]_vars => \/ UNCHANGED events
                   \/ \E o \in Orders, ok \in BOOLEAN : IngestMatched(o, ok)
  BY DEF Next, vars, Poller, Scheduler, Request, Finish, Tick, BankPost, IngestLoad,
         IngestUnmatched, ExpireLoad, ExpireCommit, Create, ManualLoad, Abort, CreateCommit,
         CreateFull, Cancel, ApiCancel, Confirm, SetStatus, ForceMatch, Match, Rematch, Books,
         Reject, Refund

\* What fits goes on fitting.
LEMMA FitsStays ==
    ASSUME RowsStay, NEW t \in Txs, NEW o \in Orders, bank[t] # None, status[o] # "absent",
           Fits(t, o)
    PROVE  Fits(t, o)'
  BY DEF RowsStay, Fits, Within

LEMMA BookedStep ==
    TypeOK /\ LoadedInv /\ BookedInv /\ BookedOnce /\ [Next]_vars => BookedInv' /\ BookedOnce'
<1> SUFFICES ASSUME TypeOK, LoadedInv, BookedInv, BookedOnce, [Next]_vars
             PROVE  BookedInv' /\ BookedOnce'
  OBVIOUS
<1> DEFINE Booked(e) == /\ bank[e[2]] # None /\ state[e[2]] # "absent"
                        /\ status[e[1]] \notin {"absent", "pending"}
                        /\ Fits(e[2], e[1])
<1>r. RowsStay
  BY RowsStayStep
<1>q. "poller" \in Procs /\ "poller" \notin Requests /\ "poller" # "scheduler"
  BY SetsAssumption DEF Procs
<1>e. \A e \in events : e[1] \in Orders /\ e[2] \in Txs
  BY DEF TypeOK
<1>1. ASSUME NEW e \in events PROVE Booked(e)'
  <2>1. Booked(e) /\ e[1] \in Orders /\ e[2] \in Txs
    BY <1>e DEF BookedInv
  <2>2. Fits(e[2], e[1])'
    BY <1>r, <2>1, FitsStays
  <2>3. QED
    BY <1>r, <2>1, <2>2 DEF RowsStay
<1>2. ASSUME NEW o \in Orders, NEW ok \in BOOLEAN, IngestMatched(o, ok)
      PROVE  BookedInv' /\ BookedOnce'
  <2>1. /\ job["poller"] # None /\ job["poller"].op = "ingest" /\ o \in job["poller"].S
        /\ job'["poller"] = None
    BY <1>2, <1>q DEF IngestMatched, Commits, TypeOK
  <2>2. PICK t \in Txs : t = job["poller"].t
    BY <1>q, <2>1 DEF LoadedInv, JobInv
  <2>3. bank[t] # None /\ state[t] = "absent" /\ status[o] # "absent"
    BY <1>q, <2>1, <2>2 DEF LoadedInv, JobInv
  <2>4. Fits(t, o) /\ \A e \in events : e[1] # o
    BY <2>1, <2>2 DEF BookedInv
  <2>5. Fits(t, o)'
    BY <1>r, <2>3, <2>4, FitsStays
  <2>6. status'[o] = "paid" /\ state'[t] = "matched" /\ bank'[t] # None
    BY <1>2, <2>2, <2>3 DEF IngestMatched, TypeOK
  <2>7. events' = events \cup {<<o, t>>}
    BY <1>2, <2>2 DEF IngestMatched
  <2>8. \A e \in events' : Booked(e)'
    BY <1>1, <2>5, <2>6, <2>7
  <2>9. BookedInv'
    BY <2>1, <2>8 DEF BookedInv
  <2>10. \A e \in events : e[1] # o /\ e[2] # t
    BY <2>3, <2>4 DEF BookedInv
  <2>11. BookedOnce'
    BY <2>7, <2>10 DEF BookedOnce
  <2>12. QED
    BY <2>9, <2>11
<1>3. CASE UNCHANGED events
  <2>1. \A e \in events' : Booked(e)'
    BY <1>1, <1>3
  <2>2. BookedOnce'
    BY <1>3 DEF BookedOnce
  <2>3. ASSUME job'["poller"] # None, job'["poller"].op = "ingest", NEW o \in job'["poller"].S
        PROVE  (Fits(job["poller"].t, o) /\ \A e \in events : e[1] # o)'
    <3>1. CASE job'["poller"] = job["poller"]
      <4>1. job["poller"] # None /\ job["poller"].op = "ingest" /\ o \in job["poller"].S
        BY <2>3, <3>1
      <4>2. PICK t \in Txs : t = job["poller"].t
        BY <1>q, <4>1 DEF LoadedInv, JobInv
      <4>3. bank[t] # None /\ o \in Orders /\ status[o] # "absent"
        BY <1>q, <4>1, <4>2 DEF LoadedInv, JobInv
      <4>4. Fits(t, o) /\ \A e \in events : e[1] # o
        BY <4>1, <4>2 DEF BookedInv
      <4>5. Fits(t, o)' /\ job'["poller"].t = t
        BY <1>r, <3>1, <4>2, <4>3, <4>4, FitsStays
      <4>6. QED
        BY <1>3, <4>4, <4>5 DEF Fits, Within
    <3>2. ASSUME NEW t \in Txs, IngestLoad(t)
          PROVE  (Fits(job["poller"].t, o) /\ \A e \in events : e[1] # o)'
      <4>1. Loads("poller", "ingest", None, t, Matches(t))
        BY <3>2 DEF IngestLoad
      <4>2. job'["poller"].t = t /\ job'["poller"].S = Matches(t)
        BY <1>q, <4>1, NewJob
      <4>3. o \in Matches(t)
        BY <2>3, <4>2
      <4>4. o \in Orders /\ status[o] = "pending" /\ name[o] \in bank[t].content /\ Within(t, o)
        BY <4>3 DEF Matches, FindOrderMatch, Candidates, Within
      <4>5. name[o] # None
        <5>1. bank[t].content \in Contents
          BY <3>2 DEF IngestLoad, TypeOK
        <5>2. QED
          BY <4>4, <5>1, SetsAssumption
      <4>6. \A e \in events : e[1] # o
        BY <4>4 DEF BookedInv
      <4>7. UNCHANGED <<name, created, expires, bank, events>>
        BY <3>2 DEF IngestLoad, ordervars
      <4>8. QED
        BY <4>2, <4>4, <4>5, <4>6, <4>7 DEF Fits, Within
    <3>3. job'["poller"] = job["poller"] \/ \E t \in Txs : IngestLoad(t)
      <4>1. \A p \in Procs : job' = [job EXCEPT ![p] = None] => p # "poller"
        BY <1>q, <2>3 DEF TypeOK
      <4>2. \A p \in Procs : \A op, o1, t, S :
              Loads(p, op, o1, t, S) /\ p # "poller" => job'["poller"] = job["poller"]
        BY <1>q, NewJob
      <4>3. ExpireLoad => job'["poller"] = job["poller"]
        BY <1>q, <4>2 DEF ExpireLoad, Procs
      <4>4. \A p \in Requests : Create(p) => job'["poller"] = job["poller"]
        BY <1>q, <4>2 DEF Create, CreateLoad, Procs
      <4>5. \A p \in Requests, op \in Ops, o1 \in Orders \cup {None}, t \in Txs \cup {None} :
              ManualLoad(p, op, o1, t) => job'["poller"] = job["poller"]
        BY <1>q, <4>2 DEF ManualLoad, Procs
      <4>6. \A p \in Procs : job' = [job EXCEPT ![p] = None] => job'["poller"] = job["poller"]
        BY <1>q, <4>1 DEF TypeOK
      <4>7. QED
        BY <4>3, <4>4, <4>5, <4>6, JobCases
    <3>4. QED
      BY <3>1, <3>2, <3>3
  <2>4. QED
    BY <2>1, <2>2, <2>3 DEF BookedInv
<1>4. QED
  BY <1>2, <1>3, EventCases

LEMMA CreditStep == TypeOK /\ CreditInv /\ [Next]_vars => CreditInv'
<1> SUFFICES ASSUME TypeOK, CreditInv, [Next]_vars PROVE CreditInv'
  OBVIOUS
<1> USE DEF ordervars, money, bounds
<1>t. manual \in Nat /\ failures \in Nat
  BY BoundsAssumption DEF TypeOK
<1>m. manual' # 0 \/ (manual' = manual /\ ~\E p \in Requests, op \in Ops,
        o \in Orders \cup {None}, t \in Txs \cup {None} : ManualLoad(p, op, o, t))
  <2>1. \A p \in Requests, op \in Ops, o \in Orders \cup {None}, t \in Txs \cup {None} :
          ManualLoad(p, op, o, t) => manual' # 0
    BY <1>t DEF ManualLoad
  <2>2. manual' = manual \/ \E p \in Requests, op \in Ops,
          o \in Orders \cup {None}, t \in Txs \cup {None} : ManualLoad(p, op, o, t)
    BY DEF Next, vars, Poller, Scheduler, Request, Finish, Tick, BankPost, IngestLoad,
         IngestUnmatched, IngestMatched, ExpireLoad, ExpireCommit, Create, Abort, CreateCommit,
         CreateFull, Cancel, ApiCancel, Confirm, SetStatus, ForceMatch, Match, Rematch, Books,
         Reject, Refund
  <2>3. QED
    BY <2>1, <2>2
<1>1. ASSUME manual' = 0, NEW p \in Procs, job'[p] # None
      PROVE  job'[p].op \in {"create", "ingest", "expire"}
  <2>1. manual = 0 /\ ~\E q \in Requests, op \in Ops, o \in Orders \cup {None},
                         t \in Txs \cup {None} : ManualLoad(q, op, o, t)
    BY <1>1, <1>m
  <2>2. CASE job'[p] = job[p]
    BY <1>1, <2>1, <2>2 DEF CreditInv
  <2>3. CASE job'[p] # job[p]
    <3>1. ~UNCHANGED job /\ ~\E q \in Procs : job' = [job EXCEPT ![q] = None]
      BY <1>1, <2>3 DEF TypeOK
    <3>2. \E q \in Procs : \E op \in {"create", "ingest", "expire"} : \E o, t, S : Loads(q, op, o, t, S)
      BY <2>1, <3>1, JobCases DEF IngestLoad, ExpireLoad, Create, CreateLoad, Procs
    <3>3. QED
      BY <2>3, <3>2, NewJob
  <2>4. QED
    BY <2>2, <2>3
<1>2. ASSUME manual' = 0, failures' = 0 PROVE PaidTopupIsCredited'
  <2>1. manual = 0 /\ \A p \in Procs : job[p] # None => job[p].op \in {"create", "ingest", "expire"}
    BY <1>2, <1>m DEF CreditInv
  <2>2. ASSUME failures = 0, UNCHANGED <<status, credited>> PROVE PaidTopupIsCredited'
    BY <2>1, <2>2 DEF CreditInv, PaidTopupIsCredited
  <2>3. ASSUME NEW o \in Orders, NEW ok \in BOOLEAN, IngestMatched(o, ok)
        PROVE  PaidTopupIsCredited'
    <3>1. /\ o \in Topups => credited' = credited \cup {o}
          /\ o \notin Topups => credited' = credited
          /\ failures = 0
      BY <1>2, <1>t, <2>3 DEF IngestMatched, Credit
    <3>2. status' = [status EXCEPT ![o] = "paid"]
      BY <2>3 DEF IngestMatched
    <3>3. QED
      BY <2>1, <3>1, <3>2, SetsAssumption DEF CreditInv, PaidTopupIsCredited, TypeOK
  <2>4. ASSUME NEW p \in Requests, NEW n \in Names, CreateCommit(p, n) PROVE PaidTopupIsCredited'
    BY <1>2, <2>1, <2>4, SetsAssumption DEF CreateCommit, CreditInv, PaidTopupIsCredited, TypeOK
  <2>5. CASE ExpireCommit
    BY <1>2, <2>1, <2>5, SetsAssumption DEF ExpireCommit, CreditInv, PaidTopupIsCredited, TypeOK
  <2>6. \/ failures' = failures /\ UNCHANGED <<status, credited>>
        \/ \E o \in Orders, ok \in BOOLEAN : IngestMatched(o, ok)
        \/ \E p \in Requests, n \in Names : CreateCommit(p, n)
        \/ ExpireCommit
    <3>1. \A p \in Requests : ~(Cancel(p) \/ ApiCancel(p) \/ Confirm(p) \/ ForceMatch(p)
                                \/ Match(p) \/ Rematch(p) \/ Reject(p) \/ Refund(p))
      BY <2>1 DEF Cancel, ApiCancel, Confirm, ForceMatch, Match, Rematch, Reject, Refund,
                  Commits, Procs
    <3>2. QED
      BY <3>1 DEF Next, vars, Poller, Scheduler, Request, Finish, Tick, BankPost, IngestLoad,
         IngestUnmatched, ExpireLoad, Create, ManualLoad, Abort, CreateFull
  <2>7. QED
    BY <1>2, <2>2, <2>3, <2>4, <2>5, <2>6
<1>3. QED
  BY <1>1, <1>2 DEF CreditInv
-----------------------------------------------------------------------------
LEMMA OrdersStep == OrdersInv /\ [Next]_vars => OrdersInv'
  BY TypeStep, LoadedStep, MatchedStep, ClockStep, WindowsStep, BookedStep, CreditStep
     DEF OrdersInv

LEMMA OrdersInvariant == Spec => []OrdersInv
  BY OrdersInit, OrdersStep, PTL DEF Spec

\* Every variable keeps its type, whatever requests, ingest, expiry and aborts do.
THEOREM OrdersTypeCorrect == Spec => []TypeOK
<1>1. OrdersInv => TypeOK
  BY DEF OrdersInv
<1>2. QED
  BY <1>1, OrdersInvariant, PTL

\* Two orders with one transfer name are never open together, for any number of
\* names, orders and requests that race for a name, cancel or pay an order.
THEOREM NameWindowsAreDisjoint == Spec => []WindowsDisjoint
<1>1. OrdersInv => WindowsDisjoint
  BY DEF OrdersInv
<1>2. QED
  BY <1>1, OrdersInvariant, PTL

\* The ingest books a transfer that names one open order on that order, however
\* late the transfer is listed and however often its name was used since.
THEOREM PaymentsReachTheirOrders == Spec => []PaymentReachesItsOrder
<1>1. OrdersInv => PaymentReachesItsOrder
  <2> SUFFICES ASSUME OrdersInv, NEW e \in events, NEW o \in Orders, name[o] # None,
                      bank[e[2]].content = {name[o]}, Within(e[2], o)
               PROVE  o = e[1]
    BY DEF PaymentReachesItsOrder
  <2>1. e[1] \in Orders /\ e[2] \in Txs
    BY DEF OrdersInv, TypeOK
  <2>2. Fits(e[2], e[1]) /\ bank[e[2]] # None
    BY DEF OrdersInv, BookedInv
  <2>3. name[e[1]] = name[o] /\ Within(e[2], e[1])
    BY <2>2 DEF Fits
  <2>4. bank[e[2]].at \in Nat
    BY <2>1, <2>2 DEF OrdersInv, TypeOK
  <2>5. /\ created[o] \in Nat /\ expires[o] \in Nat
        /\ created[e[1]] \in Nat /\ expires[e[1]] \in Nat
    BY <2>1 DEF OrdersInv, TypeOK
  <2>6. o # e[1] => expires[o] <= created[e[1]] \/ expires[e[1]] <= created[o]
    BY <2>1, <2>3 DEF OrdersInv, WindowsDisjoint
  <2>7. QED
    BY <2>3, <2>4, <2>5, <2>6 DEF Within
<1>2. QED
  BY <1>1, OrdersInvariant, PTL

\* The ingest books a transfer on one order and an order on one transfer,
\* whatever cancels, expiries and admins do between its load and its commit.
THEOREM TransfersAreBookedOnce == Spec => []BookedOnce
<1>1. OrdersInv => BookedOnce
  BY DEF OrdersInv
<1>2. QED
  BY <1>1, OrdersInvariant, PTL

\* A topup that is paid is credited, as long as nothing was done by hand and no
\* credit has failed.
THEOREM PaidTopupsAreCredited ==
    Spec => [](manual = 0 /\ failures = 0 => PaidTopupIsCredited)
<1>1. OrdersInv => (manual = 0 /\ failures = 0 => PaidTopupIsCredited)
  BY DEF OrdersInv, CreditInv
<1>2. QED
  BY <1>1, OrdersInvariant, PTL
=============================================================================
