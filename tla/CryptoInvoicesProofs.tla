------------------------ MODULE CryptoInvoicesProofs ------------------------
(***************************************************************************)
(* What holds of the crypto gateway for any number of invoices, wallets,   *)
(* transfers and sessions, any batch size and any min_confirmations.       *)
(***************************************************************************)
EXTENDS CryptoInvoices, FiniteSetTheorems, TLAPS

\* The highest block that is final: a reorganisation never reaches it.
Final == height - net

\* The chain grows from the finished configuration and keeps its final blocks.
ChainInv ==
    /\ chain \in Seq(Payments) /\ Len(chain) + edits <= MaxBlocks
    /\ Len(chain) <= height /\ height <= MaxBlocks
    /\ net = None => /\ chain = <<>> /\ height = 0 /\ ~token
                     /\ \A w \in Wallets : wallet[w] = None
                     /\ \A r \in Requests : job[r] = None
    /\ net # None => Final <= Len(chain)

\* What is stored is final.
StoredInv ==
    \A b \in 1 .. MaxBlocks : stored[b] # None =>
        /\ net # None /\ b <= Final
        /\ stored[b].to = chain[b].to /\ stored[b].amount = chain[b].amount

\* The blocks a session has inserted.
Ins(j) == {y[1] : y \in j.ins}

\* The transfer of address to, amount n and time t pays invoice i.
Pays(i, to, n, t) ==
    /\ invoice[i] # None
    /\ to = invoice[i].wallet /\ n = invoice[i].pay
    /\ t # None => t <= invoice[i].expires

\* What a session inserted is new and final.
InsInv(j) ==
    /\ j.ins # {} => j.op \in {"scan", "tron"}
    /\ \A y \in j.ins : /\ y[1] \in 1 .. MaxBlocks /\ stored[y[1]] = None
                        /\ y[1] <= Final /\ y[3] = chain[y[1]]
    /\ \A y, z \in j.ins : y[1] = z[1] => y = z

\* A scan works upwards: below what it has to do, all is stored or inserted.
ScanInv(j) ==
    /\ kind = "evm" /\ net # None
    /\ j.to \in 0 .. MaxBlocks /\ j.to <= Final /\ Len(j.todo) <= j.to
    /\ \A k \in 1 .. Len(j.todo) : j.todo[k] = j.to - Len(j.todo) + k
    /\ \A y \in j.ins : y[1] <= j.to - Len(j.todo)
    /\ \A b \in 1 .. j.to - Len(j.todo) : stored[b] # None \/ b \in Ins(j)

\* A list of TRON events is worked downwards.
TronInv(j) ==
    /\ kind = "tron" /\ net # None
    /\ Len(j.todo) <= Final /\ Len(j.todo) <= MaxBlocks
    /\ \A k \in 1 .. Len(j.todo) : j.todo[k] = Len(j.todo) + 1 - k
    /\ \A y \in j.ins : y[1] > Len(j.todo)

\* A reconcile works on stored transfers that are marked as reconciled.
ReconcileInv(j) ==
    \A k \in 1 .. Len(j.todo) : /\ j.todo[k] \in 1 .. MaxBlocks /\ j.todo[k] \in byHand
                                /\ stored[j.todo[k]] # None

TodoInv(j) ==
    /\ j.op = "scan" => ScanInv(j)
    /\ j.op = "tron" => TronInv(j)
    /\ j.op = "reconcile" => ReconcileInv(j)
    /\ j.op \in {"create", "cancel", "expire"} => j.todo = <<>>

\* The pairs of a session: the invoice is paid by the transfer, which is the
\* session's own or reconciled; one transfer per invoice, and one invoice per
\* transfer that is the session's own.
PairInv(j) ==
    /\ \A p \in j.pairs :
         \/ /\ j.op \in {"scan", "tron"}
            /\ \E y \in j.ins : y[1] = p[2] /\ Pays(p[1], y[3].to, y[3].amount, y[2])
         \/ /\ j.op = "reconcile"
            /\ p[2] \in 1 .. MaxBlocks /\ p[2] \in byHand /\ stored[p[2]] # None
            /\ Pays(p[1], stored[p[2]].to, stored[p[2]].amount, stored[p[2]].time)
    /\ \A p, q \in j.pairs : p[1] = q[1] => p = q
    /\ \A p, q \in j.pairs : j.op \in {"scan", "tron"} /\ p[2] = q[2] => p = q

\* The statuses a session sets and the invoice it creates.
SetInv(j) ==
    /\ j.set # {} => j.op \in {"cancel", "expire"}
    /\ \A x \in j.set : invoice[x[1]] # None /\ x[2] # "completed"
    /\ \A x, y \in j.set : x[1] = y[1] => x = y

NewInv(j) ==
    /\ \A i \in Invoices : j.new[i] # None =>
         /\ j.op = "create" /\ j.new[i].status = "waiting"
         /\ j.read[j.new[i].wallet] # None
    /\ \A i, k \in Invoices : j.new[i] # None /\ j.new[k] # None => i = k

\* The invoices of wallet w that the session closes.
Closes(j) == Completes(j) \cup {x[1] : x \in j.set}
ClosedAt(j, w) == {i \in Closes(j) : invoice[i].wallet = w}

\* The counters a session has loaded: one more for an invoice it creates, one
\* less for each that it closes, and never below zero.
SlotInv(j) ==
    \A w \in Wallets :
        /\ j.view[w] \in Nat
        /\ j.read[w] = None => /\ ClosedAt(j, w) = {}
                               /\ \A i \in Invoices : j.new[i] # None => j.new[i].wallet # w
        /\ j.read[w] # None =>
             /\ wallet[w] = None => j.op = "create" /\ j.read[w] = 0
             /\ j.op = "create" =>
                  /\ j.view[w] = j.read[w] + 1
                  /\ \E i \in Invoices : j.new[i] # None /\ j.new[i].wallet = w
             /\ j.op # "create" =>
                  j.view[w] = IF j.read[w] < Cardinality(ClosedAt(j, w)) THEN 0
                              ELSE j.read[w] - Cardinality(ClosedAt(j, w))

JobInv(j) == InsInv(j) /\ TodoInv(j) /\ PairInv(j) /\ SetInv(j) /\ NewInv(j) /\ SlotInv(j)

\* What the sessions hold, and no transfer is inserted by two of them.
SessionsInv ==
    /\ \A r \in Requests : job[r] # None => JobInv(job[r])
    /\ \A r, q \in Requests : r # q /\ job[r] # None /\ job[q] # None =>
         Ins(job[r]) \cap Ins(job[q]) = {}

\* An invoice names a wallet that is there.
WalletInv == \A i \in Invoices : invoice[i] # None => wallet[invoice[i].wallet] # None

\* A match is of a stored transfer that pays the invoice; without an admin the
\* transfer has no other.
MatchInv ==
    /\ \A m \in matches :
         /\ stored[m[2]] # None /\ stored[m[2]].status = "matched"
         /\ Pays(m[1], stored[m[2]].to, stored[m[2]].amount, stored[m[2]].time)
    /\ \A m, n \in matches : m[2] = n[2] /\ m[2] \notin byHand => m = n

\* A credit is for an invoice with a match, completed if nothing overlapped.
CreditInv ==
    \A k \in credits : \E m \in matches :
        k = <<m[1]>> /\ (overlap \/ invoice[m[1]].status = "completed")

\* The EVM watcher stores without gaps, and its cursor is within.
PrefixInv ==
    kind = "evm" =>
        /\ \A b, c \in 1 .. MaxBlocks : stored[b] # None /\ c <= b => stored[c] # None
        /\ \A b \in 1 .. cursor : stored[b] # None

\* The inductive invariant.
GatewayInv ==
    /\ TypeOK /\ ChainInv /\ StoredInv /\ SessionsInv /\ WalletInv /\ MatchInv
    /\ CreditInv /\ PrefixInv /\ SlotsAreOpenInvoices
-----------------------------------------------------------------------------
\* What no step does: a row goes away or is another invoice's, wallet's or
\* transfer's; a final block changes.
RowsStay ==
    /\ kind' = kind
    /\ net # None => net' = net
    /\ height' \in Nat /\ height <= height'
    /\ \A b \in 1 .. MaxBlocks : net # None /\ b <= Final => chain'[b] = chain[b]
    /\ \A i \in Invoices : invoice[i] # None =>
         /\ invoice'[i] # None /\ invoice'[i].wallet = invoice[i].wallet
         /\ invoice'[i].pay = invoice[i].pay /\ invoice'[i].expires = invoice[i].expires
    /\ \A w \in Wallets : wallet[w] # None => wallet'[w] # None
    /\ \A b \in 1 .. MaxBlocks : stored[b] # None =>
         /\ stored'[b] # None /\ stored'[b].to = stored[b].to
         /\ stored'[b].amount = stored[b].amount /\ stored'[b].time = stored[b].time
         /\ stored[b].status = "matched" => stored'[b].status = "matched"
    /\ byHand \subseteq byHand'

\* The amounts to pay are numbers of the token's smallest unit.
LEMMA PayAmountsType == PayAmounts \subseteq Nat
<1>1. ASSUME NEW s \in Dusts
      PROVE  (Amount \div DustUnit) * DustUnit + s * DustUnit \in Nat
  <2>1. \A a \in Nat, d \in Nat \ {0} : a \div d \in Nat
    OBVIOUS
  <2>2. \A a, d \in Nat : a * d \in Nat
    OBVIOUS
  <2>3. \A a, d \in Nat : a + d \in Nat
    OBVIOUS
  <2>4. s \in Nat /\ Amount \in Nat /\ DustUnit \in Nat /\ DustUnit \in Nat \ {0}
    BY AmountsAssumption
  <2> QED BY <2>1, <2>2, <2>3, <2>4, Zenon
<1> QED BY <1>1, Zenon DEF PayAmounts

\* The fields of a session.
LEMMA JobFields ==
    ASSUME NEW j \in Job
    PROVE  /\ j.op \in {"create", "cancel", "expire", "scan", "tron", "reconcile"}
           /\ j.todo \in Seq(Nat) /\ j.to \in Nat
           /\ j.ins \subseteq Nat \X (Nat \cup {None}) \X Payments
           /\ j.pairs \subseteq Invoices \X Nat /\ j.set \subseteq Invoices \X Events
           /\ j.read \in [Wallets -> Nat \cup {None}] /\ j.view \in [Wallets -> Int]
           /\ j.new \in [Invoices -> InvoiceRow \cup {None}]
  BY DEF Job

LEMMA IdleFields ==
    /\ Idle \in Job
    /\ Idle.op = "create" /\ Idle.todo = <<>> /\ Idle.ins = {} /\ Idle.pairs = {} /\ Idle.set = {}
    /\ Idle.read = [w \in Wallets |-> None] /\ Idle.view = [w \in Wallets |-> 0]
    /\ Idle.new = [i \in Invoices |-> None] /\ Idle.to = 0
  BY DEF Idle, Job

\* The invariant holds of the empty database.
LEMMA GatewayInit == Init => GatewayInv
<1> SUFFICES ASSUME Init PROVE GatewayInv
  OBVIOUS
<1> USE DEF Init
<1>1. TypeOK
  <2>1. /\ now \in 0 .. MaxTime /\ kind \in {"evm", "tron"}
        /\ cursor \in 0 .. MaxBlocks /\ height \in Nat
        /\ edits \in 0 .. MaxEdits /\ sessions \in 0 .. MaxSessions
    BY BoundsAssumption
  <2>4. net \in Confs \cup {None} /\ token \in BOOLEAN /\ rpc \in BOOLEAN /\ overlap \in BOOLEAN
    BY Zenon
  <2>2. /\ wallet \in [Wallets -> WalletRow \cup {None}]
        /\ invoice \in [Invoices -> InvoiceRow \cup {None}]
        /\ stored \in [1 .. MaxBlocks -> TransferRow \cup {None}]
        /\ job \in [Requests -> Job \cup {None}] /\ chain \in Seq(Transfer)
    OBVIOUS
  <2>3. /\ matches \subseteq Invoices \X (1 .. MaxBlocks)
        /\ credits \subseteq Seq(Invoices \cup (1 .. MaxBlocks))
        /\ callbacks \subseteq Invoices \X Events /\ byHand \subseteq 1 .. MaxBlocks
    OBVIOUS
  <2> QED BY <2>1, <2>2, <2>3, <2>4 DEF TypeOK
<1>2. ChainInv
  BY BoundsAssumption DEF ChainInv
<1>3. StoredInv /\ WalletInv /\ MatchInv /\ CreditInv
  BY DEF StoredInv, WalletInv, MatchInv, CreditInv
<1>5. SessionsInv
  BY DEF SessionsInv
<1>6. PrefixInv
  BY DEF PrefixInv
<1>4. SlotsAreOpenInvoices
  BY DEF SlotsAreOpenInvoices
<1> QED BY <1>1, <1>2, <1>3, <1>4, <1>5, <1>6 DEF GatewayInv
-----------------------------------------------------------------------------
\* An open session whose rows stay, and whose inserts nobody else has stored,
\* keeps what it relies on.
LEMMA JobKept ==
    ASSUME TypeOK, RowsStay, NEW j \in Job, JobInv(j),
           \A y \in j.ins : stored'[y[1]] = None
    PROVE  JobInv(j)'
<1> USE JobFields
<1>0. net # None => Final \in Int /\ Final' \in Int /\ Final <= Final' /\ net' = net
  <2>1. net # None => net \in Nat
    BY ChainAssumption DEF TypeOK
  <2>2. height \in Nat /\ height' \in Nat /\ height <= height' /\ (net # None => net' = net)
    BY DEF TypeOK, RowsStay
  <2> QED BY <2>1, <2>2 DEF Final
<1>1. InsInv(j)'
  <2>1. j.ins # {} => net # None
    BY DEF JobInv, InsInv, TodoInv, ScanInv, TronInv
  <2>2. ASSUME NEW y \in j.ins
        PROVE  /\ y[1] \in 1 .. MaxBlocks /\ y[1] <= Final' /\ y[3] = chain'[y[1]]
    <3>1. y[1] \in 1 .. MaxBlocks /\ y[1] <= Final /\ y[3] = chain[y[1]] /\ net # None
      BY <2>1 DEF JobInv, InsInv
    <3>2. chain'[y[1]] = chain[y[1]]
      BY <3>1 DEF RowsStay
    <3>3. y[1] <= Final'
      BY <1>0, <3>1, BoundsAssumption
    <3> QED BY <3>1, <3>2, <3>3
  <2> QED BY <2>2 DEF JobInv, InsInv
<1>2. TodoInv(j)'
  <2>1. ASSUME j.op = "scan" PROVE ScanInv(j)'
    <3>1. ScanInv(j)
      BY <2>1 DEF JobInv, TodoInv
    <3>2. j.to <= Final'
      BY <1>0, <3>1, BoundsAssumption DEF ScanInv
    <3>3. \A b \in 1 .. j.to - Len(j.todo) : stored'[b] # None \/ b \in Ins(j)
      <4>1. \A b \in 1 .. j.to - Len(j.todo) : b \in 1 .. MaxBlocks
        BY <3>1, BoundsAssumption DEF ScanInv
      <4> QED BY <3>1, <4>1 DEF ScanInv, RowsStay
    <3>4. kind' = "evm" /\ net' # None
      BY <1>0, <3>1 DEF ScanInv, RowsStay
    <3> QED BY <3>1, <3>2, <3>3, <3>4 DEF ScanInv, Ins
  <2>2. ASSUME j.op = "tron" PROVE TronInv(j)'
    <3>1. TronInv(j)
      BY <2>2 DEF JobInv, TodoInv
    <3>2. Len(j.todo) <= Final'
      BY <1>0, <3>1 DEF TronInv
    <3>3. kind' = "tron" /\ net' # None
      BY <1>0, <3>1 DEF TronInv, RowsStay
    <3> QED BY <3>1, <3>2, <3>3 DEF TronInv
  <2>3. ASSUME j.op = "reconcile" PROVE ReconcileInv(j)'
    BY <2>3 DEF JobInv, TodoInv, ReconcileInv, RowsStay
  <2> QED BY <2>1, <2>2, <2>3 DEF JobInv, TodoInv
<1>3. PairInv(j)'
  <2>1. PairInv(j) /\ j.pairs \subseteq Invoices \X Nat
    BY DEF JobInv
  <2>2. ASSUME NEW i \in Invoices, NEW to, NEW n, NEW t, Pays(i, to, n, t)
        PROVE  Pays(i, to, n, t)'
    BY <2>2 DEF Pays, RowsStay
  <2>3. \A p \in j.pairs : p[1] \in Invoices
    BY <2>1
  <2>4. ASSUME NEW p \in j.pairs, j.op \in {"scan", "tron"}
        PROVE  \E y \in j.ins : y[1] = p[2] /\ Pays(p[1], y[3].to, y[3].amount, y[2])'
    BY <2>1, <2>2, <2>3, <2>4 DEF PairInv
  <2>5. ASSUME NEW p \in j.pairs, j.op = "reconcile"
        PROVE  /\ p[2] \in 1 .. MaxBlocks /\ p[2] \in byHand' /\ stored'[p[2]] # None
               /\ Pays(p[1], stored[p[2]].to, stored[p[2]].amount, stored[p[2]].time)'
    <3>1. /\ p[2] \in 1 .. MaxBlocks /\ p[2] \in byHand /\ stored[p[2]] # None
          /\ Pays(p[1], stored[p[2]].to, stored[p[2]].amount, stored[p[2]].time)
      BY <2>1, <2>5 DEF PairInv
    <3>2. /\ stored'[p[2]] # None /\ stored'[p[2]].to = stored[p[2]].to
          /\ stored'[p[2]].amount = stored[p[2]].amount /\ stored'[p[2]].time = stored[p[2]].time
          /\ p[2] \in byHand'
      BY <3>1 DEF RowsStay
    <3> QED BY <2>3, <3>1, <3>2 DEF Pays, RowsStay
  <2> QED BY <2>1, <2>4, <2>5 DEF PairInv
<1>4. SetInv(j)' /\ NewInv(j)'
  BY DEF JobInv, SetInv, NewInv, RowsStay
<1>5. \A w \in Wallets : ClosedAt(j, w)' = ClosedAt(j, w)
  BY DEF JobInv, SetInv, PairInv, Pays, RowsStay, ClosedAt, Closes, Completes
<1>6. SlotInv(j)'
  BY <1>5 DEF JobInv, SlotInv, RowsStay
<1> QED BY <1>1, <1>2, <1>3, <1>4, <1>6 DEF JobInv

\* What a commit does to invoices and wallets.
LEMMA CommitRows ==
    ASSUME TypeOK, NEW r \in Requests, NEW j \in Job, j = job[r], JobInv(j), Commit(r)
    PROVE  /\ \A i \in Invoices :
                /\ j.new[i] # None => invoice[i] = None /\ invoice'[i] = j.new[i]
                /\ j.new[i] = None /\ invoice[i] = None => invoice'[i] = None
                /\ invoice[i] # None => invoice'[i] = [invoice[i] EXCEPT !.status = NewStatus(j, i)]
           /\ \A w \in Wallets :
                wallet'[w] = IF j.read[w] = None THEN wallet[w]
                             ELSE IF wallet[w] = None THEN [count |-> j.view[w], max |-> Slots]
                             ELSE IF j.view[w] = j.read[w] THEN wallet[w]
                             ELSE [wallet[w] EXCEPT !.count = j.view[w]]
<1>1. \A i \in Invoices : invoice[i] # None => j.new[i] = None
  BY DEF Commit
<1>2. invoice' = [i \in Invoices |->
         IF j.new[i] # None THEN j.new[i]
         ELSE IF invoice[i] = None THEN None
         ELSE [invoice[i] EXCEPT !.status = NewStatus(j, i)]]
  BY DEF Commit
<1>3. wallet' = [w \in Wallets |->
             IF j.read[w] = None THEN wallet[w]
             ELSE IF wallet[w] = None THEN [count |-> j.view[w], max |-> Slots]
             ELSE IF j.view[w] = j.read[w] THEN wallet[w]
             ELSE [wallet[w] EXCEPT !.count = j.view[w]]]
  BY DEF Commit
<1> QED BY <1>1, <1>2, <1>3

\* The status a commit writes.
LEMMA NewStatusFacts ==
    ASSUME TypeOK, NEW j \in Job, JobInv(j), NEW i \in Invoices, invoice[i] # None
    PROVE  /\ NewStatus(j, i) \in {"waiting", "completed", "canceled", "expired"}
           /\ i \in Completes(j) => NewStatus(j, i) = "completed"
           /\ i \in Closes(j) => NewStatus(j, i) # "waiting"
           /\ i \notin Closes(j) => NewStatus(j, i) = invoice[i].status
<1> USE JobFields
<1>1. CASE i \in Completes(j)
  BY <1>1 DEF NewStatus, Closes
<1>2. CASE i \notin Completes(j) /\ \E e \in Events : <<i, e>> \in j.set
  <2> DEFINE x == CHOOSE x \in j.set : x[1] = i
  <2>1. x \in j.set /\ x[1] = i
    <3>1. \E y \in j.set : y[1] = i
      BY <1>2
    <3> QED BY <3>1
  <2>2. x[2] \in Events
    BY <2>1
  <2>3. NewStatus(j, i) = x[2]
    BY <1>2 DEF NewStatus
  <2> QED BY <1>2, <2>2, <2>3 DEF Events, Closes
<1>3. CASE i \notin Completes(j) /\ ~ \E e \in Events : <<i, e>> \in j.set
  <2>1. i \notin Closes(j)
    BY <1>3, SMTT(30) DEF Closes
  <2>2. invoice[i].status \in {"waiting", "completed", "canceled", "expired"}
    BY DEF TypeOK, InvoiceRow
  <2> QED BY <1>3, <2>1, <2>2 DEF NewStatus
<1> QED BY <1>1, <1>2, <1>3

\* The transfers a commit stores and marks.
LEMMA CommitTransfers ==
    ASSUME TypeOK, NEW r \in Requests, NEW j \in Job, j = job[r], JobInv(j), Commit(r)
    PROVE  /\ \A b \in 1 .. MaxBlocks : b \notin Ins(j) =>
                stored'[b] = IF \E i \in Invoices : <<i, b>> \in j.pairs
                             THEN [stored[b] EXCEPT !.status = "matched"] ELSE stored[b]
           /\ \A y \in j.ins :
                stored'[y[1]] = [to |-> y[3].to, amount |-> y[3].amount, time |-> y[2],
                                 status |-> IF \E i \in Invoices : <<i, y[1]>> \in j.pairs
                                            THEN "matched" ELSE "confirmed"]
<1> USE JobFields
<1> DEFINE blk(b) == {y \in j.ins : y[1] = b}
           mark(b, row) == IF \E i \in Invoices : <<i, b>> \in j.pairs
                           THEN [row EXCEPT !.status = "matched"] ELSE row
           made(y) == [to |-> y[3].to, amount |-> y[3].amount, status |-> "confirmed", time |-> y[2]]
<1>1. \A b \in 1 .. MaxBlocks :
        stored'[b] = mark(b, IF blk(b) = {} THEN stored[b] ELSE made(CHOOSE y \in blk(b) : TRUE))
  BY SMTT(30) DEF Commit
<1>2. ASSUME NEW b \in 1 .. MaxBlocks, b \notin Ins(j)
      PROVE  stored'[b] = mark(b, stored[b])
  <2>1. blk(b) = {}
    BY <1>2 DEF Ins
  <2> QED BY <1>1, <2>1
<1>3. ASSUME NEW y \in j.ins
      PROVE  y[1] \in 1 .. MaxBlocks /\ stored'[y[1]] = mark(y[1], made(y))
  <2>1. y[1] \in 1 .. MaxBlocks
    BY DEF JobInv, InsInv
  <2>2. blk(y[1]) = {y}
    BY DEF JobInv, InsInv
  <2>3. (CHOOSE z \in blk(y[1]) : TRUE) = y
    BY <2>2
  <2> QED BY <1>1, <2>1, <2>2, <2>3
<1>4. ASSUME NEW y \in j.ins
      PROVE  stored'[y[1]] = [to |-> y[3].to, amount |-> y[3].amount, time |-> y[2],
                              status |-> IF \E i \in Invoices : <<i, y[1]>> \in j.pairs
                                         THEN "matched" ELSE "confirmed"]
  <2>1. stored'[y[1]] = mark(y[1], made(y))
    BY <1>3
  <2>2. [made(y) EXCEPT !.status = "matched"] =
          [to |-> y[3].to, amount |-> y[3].amount, time |-> y[2], status |-> "matched"]
    OBVIOUS
  <2>3. made(y) = [to |-> y[3].to, amount |-> y[3].amount, time |-> y[2], status |-> "confirmed"]
    OBVIOUS
  <2>4. CASE \E i \in Invoices : <<i, y[1]>> \in j.pairs
    <3>1. mark(y[1], made(y)) = [made(y) EXCEPT !.status = "matched"]
      BY <2>4, Zenon
    <3> HIDE DEF made, mark
    <3> QED BY <2>1, <2>2, <2>4, <3>1, Zenon
  <2>5. CASE ~ \E i \in Invoices : <<i, y[1]>> \in j.pairs
    <3>1. mark(y[1], made(y)) = made(y)
      BY <2>5, Zenon
    <3> HIDE DEF made, mark
    <3> QED BY <2>1, <2>3, <2>5, <3>1, Zenon
  <2> QED BY <2>4, <2>5
<1> QED BY <1>2, <1>4, Zenon

\* The steps that open a session change its entry, and count; a step of a
\* session that is not its last one changes the entry only.
OpenStep(r) ==
    \/ \E i \in Invoices, address \in New \cup {None}, f \in Forms,
          w \in Wallets, pay \in PayAmounts \cup {Amount} :
            CreateInvoice(r, i, address, f, w, pay)
    \/ \E i \in Invoices : CancelInvoice(r, i) \/ ReconcileInvoice(r, i)
    \/ ExpireDueInvoices(r) \/ ScanLoad(r) \/ TronLoad(r)
    \/ \E b \in 1 .. MaxBlocks : ReconcileTxHash(r, b)
LogStep(r) == ScanTokenLog(r) \/ IngestTronEvent(r) \/ ReconcileLog(r)

LEMMA OpenFrame ==
    ASSUME NEW r \in Requests, OpenStep(r)
    PROVE  /\ UNCHANGED <<now, setup, tables, chain, height>>
           /\ sessions < MaxSessions /\ sessions' = sessions + 1 /\ job[r] = None
           /\ \/ UNCHANGED <<edits, byHand>>
              \/ /\ CanEdit /\ edits' = edits + 1
                 /\ \E S \in SUBSET (1 .. MaxBlocks) : byHand' = byHand \cup S
<1> USE DEF Open
<1>1. CASE \E i \in Invoices, address \in New \cup {None}, f \in Forms,
              w \in Wallets, pay \in PayAmounts \cup {Amount} :
                CreateInvoice(r, i, address, f, w, pay)
  BY <1>1 DEF CreateInvoice
<1>2. CASE \E i \in Invoices : CancelInvoice(r, i)
  BY <1>2 DEF CancelInvoice
<1>3. ASSUME NEW i \in Invoices, ReconcileInvoice(r, i)
      PROVE  /\ UNCHANGED <<now, setup, tables, chain, height>>
             /\ sessions < MaxSessions /\ sessions' = sessions + 1 /\ job[r] = None
             /\ CanEdit /\ edits' = edits + 1
             /\ \E S \in SUBSET (1 .. MaxBlocks) : byHand' = byHand \cup S
  BY <1>3 DEF ReconcileInvoice
<1>4. CASE ExpireDueInvoices(r)
  BY <1>4 DEF ExpireDueInvoices
<1>5. CASE ScanLoad(r)
  BY <1>5 DEF ScanLoad
<1>6. CASE TronLoad(r)
  BY <1>6 DEF TronLoad
<1>7. ASSUME NEW b \in 1 .. MaxBlocks, ReconcileTxHash(r, b)
      PROVE  /\ UNCHANGED <<now, setup, tables, chain, height>>
             /\ sessions < MaxSessions /\ sessions' = sessions + 1 /\ job[r] = None
             /\ CanEdit /\ edits' = edits + 1
             /\ \E S \in SUBSET (1 .. MaxBlocks) : byHand' = byHand \cup S
  BY <1>7 DEF ReconcileTxHash
<1> QED BY <1>1, <1>2, <1>3, <1>4, <1>5, <1>6, <1>7 DEF OpenStep

LEMMA LogFrame ==
    ASSUME NEW r \in Requests, LogStep(r) \/ JobFails(r)
    PROVE  UNCHANGED <<now, setup, tables, chain, height, edits, sessions, byHand>>
  BY DEF LogStep, ScanTokenLog, IngestTronEvent, ReconcileLog, WatchLog, JobFails

\* The chain grows, and loses blocks that are not final.
LEMMA ChainSteps ==
    ASSUME TypeOK, ChainInv
    PROVE  /\ \A x \in Payments : Pay(x) =>
                /\ chain' \in Seq(Payments) /\ Len(chain') = Len(chain) + 1
                /\ \A b \in 1 .. Len(chain) : chain'[b] = chain[b]
                /\ height' \in Nat /\ height <= height' /\ height' <= MaxBlocks
                /\ Len(chain') <= height'
                /\ height' = height \/ height' = Len(chain')
                /\ net # None
           /\ Reorg =>
                /\ chain' \in Seq(Payments) /\ Len(chain') = Len(chain) - 1
                /\ \A b \in 1 .. Len(chain) - 1 : chain'[b] = chain[b]
                /\ height' = height /\ net # None /\ Final <= Len(chain')
<1>0. chain \in Seq(Payments) /\ Len(chain) \in Nat /\ height \in Nat /\ edits \in Nat
  BY BoundsAssumption DEF TypeOK, ChainInv
<1>1. ASSUME NEW x \in Payments, Pay(x)
      PROVE  /\ chain' \in Seq(Payments) /\ Len(chain') = Len(chain) + 1
             /\ \A b \in 1 .. Len(chain) : chain'[b] = chain[b]
             /\ height' \in Nat /\ height <= height' /\ height' <= MaxBlocks
             /\ Len(chain') <= height'
             /\ height' = height \/ height' = Len(chain')
             /\ net # None
  <2>1. chain' = Append(chain, x) /\ Len(chain) + edits < MaxBlocks
    BY <1>1 DEF Pay
  <2>2. chain' \in Seq(Payments) /\ Len(chain') = Len(chain) + 1
    BY <1>0, <2>1
  <2>3. \A b \in 1 .. Len(chain) : chain'[b] = chain[b]
    BY <1>0, <2>1
  <2>4. height' = IF Len(chain) + 1 > height THEN Len(chain) + 1 ELSE height
    BY <1>1 DEF Pay
  <2>5. height <= MaxBlocks /\ MaxBlocks \in Nat
    BY BoundsAssumption DEF ChainInv
  <2>6. height' \in Nat /\ height <= height' /\ height' <= MaxBlocks /\ Len(chain') <= height'
        /\ (height' = height \/ height' = Len(chain'))
    BY <1>0, <2>1, <2>2, <2>4, <2>5
  <2>7. net # None
    BY <1>1, ChainAssumption DEF Pay, ChainInv, Transfer
  <2> QED BY <2>2, <2>3, <2>6, <2>7
<1>2. ASSUME Reorg
      PROVE  /\ chain' \in Seq(Payments) /\ Len(chain') = Len(chain) - 1
             /\ \A b \in 1 .. Len(chain) - 1 : chain'[b] = chain[b]
             /\ height' = height /\ net # None /\ Final <= Len(chain')
  <2>1. Len(chain) > 0 /\ Len(chain) > height - net /\ height' = height
        /\ chain' = SubSeq(chain, 1, Len(chain) - 1)
    BY <1>2 DEF Reorg
  <2>2. chain' \in Seq(Payments) /\ Len(chain') = Len(chain) - 1
    <3>1. \A b \in 1 .. Len(chain) - 1 : chain[b] \in Payments
      BY <1>0
    <3>2. chain' = [b \in 1 .. Len(chain) - 1 |-> chain[b]] /\ Len(chain) - 1 \in Nat
      BY <1>0, <2>1
    <3> QED BY <3>1, <3>2
  <2>3. \A b \in 1 .. Len(chain) - 1 : chain'[b] = chain[b]
    BY <1>0, <2>1
  <2>4. net # None
    <3>1. net = None => chain = <<>>
      BY DEF ChainInv
    <3>2. chain = <<>> => Len(chain) = 0
      OBVIOUS
    <3> QED BY <1>0, <2>1, <3>1, <3>2
  <2>5. net \in Nat
    BY <2>4, ChainAssumption DEF TypeOK
  <2>6. Final <= Len(chain')
    BY <1>0, <2>1, <2>2, <2>5 DEF Final
  <2> QED BY <2>1, <2>2, <2>3, <2>4, <2>6
<1> QED BY <1>1, <1>2

\* No step takes a row away or changes what it is for.
LEMMA RowsStayStep ==
    ASSUME TypeOK, ChainInv, SessionsInv, [Next]_vars
    PROVE  RowsStay
<1> USE DEF setup, tables
<1>0. height \in Nat /\ chain \in Seq(Payments) /\ Len(chain) \in Nat
  BY DEF TypeOK, ChainInv
<1>1. ASSUME UNCHANGED <<kind, net, chain, height, invoice, wallet, stored>>, byHand \subseteq byHand'
      PROVE  RowsStay
  BY <1>0, <1>1 DEF RowsStay
<1>2. CASE Tick \/ AdminCreateToken \/ AdminCreateRpc
  BY <1>1, <1>2 DEF Tick, AdminCreateToken, AdminCreateRpc
<1>3. ASSUME NEW c \in Confs, AdminCreateNetwork(c) PROVE RowsStay
  BY <1>0, <1>3 DEF AdminCreateNetwork, RowsStay
<1>4. ASSUME NEW w \in Wallets, AdminCreateWallet(w) PROVE RowsStay
  <2>1. \A v \in Wallets : wallet[v] # None => wallet'[v] # None
    BY <1>4 DEF AdminCreateWallet, TypeOK
  <2> QED BY <1>0, <1>4, <2>1 DEF AdminCreateWallet, RowsStay
<1>5. ASSUME NEW x \in Payments, Pay(x) PROVE RowsStay
  <2>1. /\ \A b \in 1 .. Len(chain) : chain'[b] = chain[b]
        /\ height' \in Nat /\ height <= height' /\ net # None
    BY <1>5, ChainSteps
  <2>2. net # None => Final <= Len(chain) /\ Final \in Int
    BY <1>0, ChainAssumption DEF ChainInv, TypeOK, Final
  <2>3. \A b \in 1 .. MaxBlocks : b <= Final => b \in 1 .. Len(chain)
    BY <1>0, <2>1, <2>2, BoundsAssumption
  <2> QED BY <1>5, <2>1, <2>3 DEF Pay, RowsStay
<1>6. CASE Reorg
  <2>1. /\ \A b \in 1 .. Len(chain) - 1 : chain'[b] = chain[b]
        /\ height' = height /\ net # None /\ Final <= Len(chain') /\ Len(chain') = Len(chain) - 1
    BY <1>6, ChainSteps
  <2>2. Final \in Int
    BY <1>0, <2>1, ChainAssumption DEF TypeOK, Final
  <2>3. \A b \in 1 .. MaxBlocks : b <= Final => b \in 1 .. Len(chain) - 1
    BY <1>0, <2>1, <2>2, BoundsAssumption
  <2> QED BY <1>0, <1>6, <2>1, <2>3 DEF Reorg, RowsStay
<1>7. ASSUME NEW r \in Requests, OpenStep(r) PROVE RowsStay
  BY <1>1, <1>7, OpenFrame
<1>8. ASSUME NEW r \in Requests, LogStep(r) \/ JobFails(r) PROVE RowsStay
  BY <1>1, <1>8, LogFrame
<1>9. ASSUME NEW i \in Invoices, AdminForceComplete(i) PROVE RowsStay
  <2>1. \A k \in Invoices : invoice[k] # None => invoice[k] \in InvoiceRow
    BY DEF TypeOK
  <2>2. invoice' = [invoice EXCEPT ![i].status = "completed"] /\ invoice[i] # None
    BY <1>9 DEF AdminForceComplete
  <2>3. invoice'[i] \in InvoiceRow
    BY <2>1, <2>2 DEF TypeOK, InvoiceRow
  <2>4. \A k \in Invoices : invoice[k] # None =>
         /\ invoice'[k] # None /\ invoice'[k].wallet = invoice[k].wallet
         /\ invoice'[k].pay = invoice[k].pay /\ invoice'[k].expires = invoice[k].expires
    BY <2>1, <2>2, <2>3, NoneAssumption DEF TypeOK, InvoiceRow
  <2> QED BY <1>0, <1>9, <2>4 DEF AdminForceComplete, RowsStay
<1>10. ASSUME NEW r \in Requests, Commit(r) PROVE RowsStay
  <2>0. PICK j \in Job : j = job[r]
    BY <1>10 DEF Commit, TypeOK
  <2>1. JobInv(j)
    BY <1>10, <2>0 DEF Commit, SessionsInv
  <2>2. \A k \in Invoices : invoice[k] # None =>
         /\ invoice'[k] # None /\ invoice'[k].wallet = invoice[k].wallet
         /\ invoice'[k].pay = invoice[k].pay /\ invoice'[k].expires = invoice[k].expires
    <3> SUFFICES ASSUME NEW k \in Invoices, invoice[k] # None
                 PROVE  /\ invoice'[k] # None /\ invoice'[k].wallet = invoice[k].wallet
                        /\ invoice'[k].pay = invoice[k].pay
                        /\ invoice'[k].expires = invoice[k].expires
      OBVIOUS
    <3>1. invoice'[k] = [invoice[k] EXCEPT !.status = NewStatus(j, k)] /\ invoice[k] \in InvoiceRow
      BY <1>10, <2>0, <2>1, CommitRows DEF TypeOK
    <3>2. NewStatus(j, k) \in {"waiting", "completed", "canceled", "expired"}
      BY <2>1, NewStatusFacts
    <3>3. invoice'[k] \in InvoiceRow
      BY <3>1, <3>2 DEF InvoiceRow
    <3> QED BY <3>1, <3>3, NoneAssumption DEF InvoiceRow
  <2>3. \A w \in Wallets : wallet[w] # None => wallet'[w] # None
    <3> SUFFICES ASSUME NEW w \in Wallets, wallet[w] # None PROVE wallet'[w] # None
      OBVIOUS
    <3>1. wallet[w] \in WalletRow /\ j.view[w] \in Nat
      BY <2>1 DEF TypeOK, JobInv, SlotInv
    <3>2. wallet'[w] \in WalletRow
      <4>1. wallet'[w] \in {wallet[w], [wallet[w] EXCEPT !.count = j.view[w]]}
        BY <1>10, <2>0, <2>1, CommitRows
      <4> QED BY <3>1, <4>1 DEF WalletRow
    <3> QED BY <3>2, NoneAssumption
  <2>4. \A b \in 1 .. MaxBlocks : stored[b] # None =>
         /\ stored'[b] # None /\ stored'[b].to = stored[b].to
         /\ stored'[b].amount = stored[b].amount /\ stored'[b].time = stored[b].time
         /\ stored[b].status = "matched" => stored'[b].status = "matched"
    <3> SUFFICES ASSUME NEW b \in 1 .. MaxBlocks, stored[b] # None
                 PROVE  /\ stored'[b] # None /\ stored'[b].to = stored[b].to
                        /\ stored'[b].amount = stored[b].amount /\ stored'[b].time = stored[b].time
                        /\ stored[b].status = "matched" => stored'[b].status = "matched"
      OBVIOUS
    <3>1. b \notin Ins(j)
      BY <2>1 DEF JobInv, InsInv, Ins
    <3>2. stored[b] \in TransferRow
      BY DEF TypeOK
    <3>3. stored'[b] = stored[b] \/ stored'[b] = [stored[b] EXCEPT !.status = "matched"]
      BY <1>10, <2>0, <2>1, <3>1, CommitTransfers
    <3>4. stored'[b] \in TransferRow
      BY <3>2, <3>3 DEF TransferRow
    <3> QED BY <3>2, <3>3, <3>4, NoneAssumption DEF TransferRow
  <2>5. UNCHANGED <<kind, net, chain, height, byHand>>
    BY <1>10 DEF Commit
  <2> QED BY <1>0, <2>2, <2>3, <2>4, <2>5 DEF RowsStay
<1>11. CASE UNCHANGED vars
  BY <1>1, <1>11 DEF vars
<1> QED BY <1>2, <1>3, <1>4, <1>5, <1>6, <1>7, <1>8, <1>9, <1>10, <1>11 DEF Next, OpenStep, LogStep
-----------------------------------------------------------------------------
\* A session that has loaded no counter and changed nothing.
Untouched(j) ==
    /\ j.ins = {} /\ j.pairs = {} /\ j.set = {}
    /\ \A w \in Wallets : j.read[w] = None /\ j.view[w] = 0
    /\ \A i \in Invoices : j.new[i] = None

LEMMA UntouchedJob ==
    ASSUME NEW j \in Job, Untouched(j)
    PROVE  /\ InsInv(j) /\ PairInv(j) /\ SetInv(j) /\ NewInv(j) /\ SlotInv(j)
           /\ (InsInv(j) /\ PairInv(j) /\ SetInv(j) /\ NewInv(j) /\ SlotInv(j))'
<1> USE DEF Untouched
<1>1. InsInv(j) /\ PairInv(j) /\ SetInv(j) /\ NewInv(j)
  BY DEF InsInv, PairInv, SetInv, NewInv
<1>2. (InsInv(j) /\ PairInv(j) /\ SetInv(j) /\ NewInv(j))'
  BY DEF InsInv, PairInv, SetInv, NewInv
<1>3. \A w \in Wallets : ClosedAt(j, w) = {} /\ ClosedAt(j, w)' = {}
  BY DEF ClosedAt, Closes, Completes
<1>4. SlotInv(j) /\ SlotInv(j)'
  BY <1>3 DEF SlotInv
<1> QED BY <1>1, <1>2, <1>4

\* The counters of a session that only closes invoices.
Counters(j) ==
    \A w \in Wallets :
        /\ j.view[w] \in Nat
        /\ j.read[w] = None => ClosedAt(j, w) = {}
        /\ j.read[w] # None =>
             /\ wallet[w] # None
             /\ j.view[w] = IF j.read[w] < Cardinality(ClosedAt(j, w)) THEN 0
                            ELSE j.read[w] - Cardinality(ClosedAt(j, w))

\* release_wallet_slot takes one from the counter, which never falls below zero.
LEMMA ReleaseFacts ==
    ASSUME TypeOK, WalletInv, NEW j \in Job, NEW i \in Invoices, invoice[i] # None,
           NEW w \in Wallets, w = invoice[i].wallet, \A v \in Wallets : j.view[v] \in Nat,
           NEW k, k = ReleaseSlot(j, i)
    PROVE  /\ k \in Job /\ k.op = j.op /\ k.todo = j.todo /\ k.ins = j.ins /\ k.pairs = j.pairs
           /\ k.set = j.set /\ k.new = j.new /\ k.to = j.to
           /\ wallet[w] \in WalletRow
           /\ \A v \in Wallets \ {w} : k.read[v] = j.read[v] /\ k.view[v] = j.view[v]
           /\ k.read[w] = IF j.read[w] = None THEN wallet[w].count ELSE j.read[w]
           /\ k.view[w] = IF Count(j, w) > 0 THEN Count(j, w) - 1 ELSE 0
           /\ Count(j, w) \in Nat
<1>1. wallet[w] \in WalletRow
  BY DEF WalletInv, TypeOK
<1>2. wallet[w].count \in Nat
  BY <1>1 DEF WalletRow
<1>3. Count(j, w) \in Nat
  BY <1>2 DEF Count
<1> DEFINE d == IF Count(j, w) > 0 THEN -1 ELSE 0
<1>4. k = Counter(j, w, d)
  BY DEF ReleaseSlot
<1>5. d \in Int /\ Count(j, w) + d \in Nat
      /\ Count(j, w) + d = IF Count(j, w) > 0 THEN Count(j, w) - 1 ELSE 0
  BY <1>3
<1>6. PICK e \in Int : e = Count(j, w) + d
  BY <1>5
<1>7. PICK c \in Nat \cup {None} : c = IF j.read[w] = None THEN wallet[w].count ELSE j.read[w]
  BY <1>2, JobFields
<1>8. k = [j EXCEPT !.read[w] = c, !.view[w] = e]
  BY <1>4, <1>6, <1>7 DEF Counter
<1> HIDE DEF d
<1>9. /\ k \in Job /\ k.op = j.op /\ k.todo = j.todo /\ k.ins = j.ins /\ k.pairs = j.pairs
      /\ k.set = j.set /\ k.new = j.new /\ k.to = j.to
      /\ k.read = [j.read EXCEPT ![w] = c] /\ k.view = [j.view EXCEPT ![w] = e]
  <2>1. PICK rd \in [Wallets -> Nat \cup {None}] : rd = [j.read EXCEPT ![w] = c]
    BY JobFields
  <2>2. PICK vw \in [Wallets -> Int] : vw = [j.view EXCEPT ![w] = e]
    BY JobFields
  <2>3. k = [[j EXCEPT !.read = rd] EXCEPT !.view = vw]
    BY <1>8, <2>1, <2>2 DEF Job
  <2>4. /\ k \in Job /\ k.op = j.op /\ k.todo = j.todo /\ k.ins = j.ins /\ k.pairs = j.pairs
        /\ k.set = j.set /\ k.new = j.new /\ k.to = j.to /\ k.read = rd /\ k.view = vw
    BY <2>3 DEF Job
  <2> QED BY <2>1, <2>2, <2>4
<1>10. /\ \A v \in Wallets \ {w} : k.read[v] = j.read[v] /\ k.view[v] = j.view[v]
       /\ k.read[w] = c /\ k.view[w] = e
  BY <1>9, JobFields
<1> QED BY <1>1, <1>3, <1>5, <1>6, <1>7, <1>9, <1>10

\* ... so it keeps the counters in step with the invoices that are closed.
LEMMA CountersAfterRelease ==
    ASSUME TypeOK, WalletInv, NEW j \in Job, Counters(j), NEW i \in Invoices, invoice[i] # None,
           i \notin Closes(j), NEW k \in Job, Closes(k) = Closes(j) \cup {i},
           Closes(j) \subseteq Invoices,
           k.read = ReleaseSlot(j, i).read, k.view = ReleaseSlot(j, i).view
    PROVE  Counters(k)
<1>0. PICK w \in Wallets : w = invoice[i].wallet
  BY DEF TypeOK, InvoiceRow
<1>1. PICK k1 : k1 = ReleaseSlot(j, i)
  OBVIOUS
<1>2. /\ k1.read = k.read /\ k1.view = k.view
      /\ \A v \in Wallets : j.view[v] \in Nat
  BY <1>1 DEF Counters
<1>3. /\ wallet[w] \in WalletRow
      /\ \A v \in Wallets \ {w} : k.read[v] = j.read[v] /\ k.view[v] = j.view[v]
      /\ k.read[w] = IF j.read[w] = None THEN wallet[w].count ELSE j.read[w]
      /\ k.view[w] = IF Count(j, w) > 0 THEN Count(j, w) - 1 ELSE 0
      /\ Count(j, w) \in Nat
  BY <1>0, <1>1, <1>2, ReleaseFacts
<1>4. \A v \in Wallets \ {w} : ClosedAt(k, v) = ClosedAt(j, v)
  BY <1>0 DEF ClosedAt
<1>5. ClosedAt(k, w) = ClosedAt(j, w) \cup {i} /\ i \notin ClosedAt(j, w)
  BY <1>0 DEF ClosedAt
<1>6. IsFiniteSet(ClosedAt(j, w))
  <2>1. ClosedAt(j, w) \in SUBSET Invoices
    BY DEF ClosedAt
  <2> QED BY <2>1, FS_Subset, InvoicesAssumption
<1>7. PICK n \in Nat : n = Cardinality(ClosedAt(j, w))
  BY <1>6, FS_CardinalityType
<1>8. Cardinality(ClosedAt(k, w)) = n + 1
  BY <1>5, <1>6, <1>7, FS_AddElement
<1>9. ASSUME NEW v \in Wallets, v # w
      PROVE  /\ k.view[v] \in Nat
             /\ k.read[v] = None => ClosedAt(k, v) = {}
             /\ k.read[v] # None =>
                  /\ wallet[v] # None
                  /\ k.view[v] = IF k.read[v] < Cardinality(ClosedAt(k, v)) THEN 0
                                 ELSE k.read[v] - Cardinality(ClosedAt(k, v))
  <2>1. k.read[v] = j.read[v] /\ k.view[v] = j.view[v] /\ ClosedAt(k, v) = ClosedAt(j, v)
    BY <1>3, <1>4, <1>9
  <2> QED BY <2>1 DEF Counters
<1>10. /\ k.view[w] \in Nat /\ k.read[w] # None /\ wallet[w] # None
       /\ k.view[w] = IF k.read[w] < n + 1 THEN 0 ELSE k.read[w] - (n + 1)
  <2>1. wallet[w].count \in Nat /\ wallet[w] # None
    BY <1>3, NoneAssumption DEF WalletRow
  <2>2. CASE j.read[w] = None
    <3>1. n = 0
      BY <1>7, <2>2, FS_EmptySet DEF Counters
    <3>2. k.read[w] = wallet[w].count /\ Count(j, w) = wallet[w].count
      BY <1>3, <2>2 DEF Count
    <3> QED BY <1>3, <2>1, <3>1, <3>2, NoneAssumption
  <2>3. CASE j.read[w] # None
    <3>1. /\ k.read[w] = j.read[w] /\ Count(j, w) = j.view[w] /\ j.read[w] \in Nat
          /\ j.view[w] = IF j.read[w] < n THEN 0 ELSE j.read[w] - n
      BY <1>3, <1>7, <2>3, JobFields DEF Count, Counters
    <3> QED BY <1>3, <2>1, <2>3, <3>1, <1>7
  <2> QED BY <2>2, <2>3
<1> QED BY <1>8, <1>9, <1>10 DEF Counters

\* Without an invoice in the making, SlotInv is about the counters.
LEMMA SlotsOfCounters ==
    ASSUME NEW j \in Job, j.op # "create", NewInv(j)
    PROVE  SlotInv(j) <=> Counters(j)
  BY DEF SlotInv, Counters, NewInv

\* A session opens with what it relies on.
Opens(r) == \E j \in Job : job' = [job EXCEPT ![r] = j] /\ j.ins = {} /\ JobInv(j)'

LEMMA OpensCreate ==
    ASSUME TypeOK, RowsStay, NEW r \in Requests, NEW i \in Invoices,
           NEW address \in New \cup {None}, NEW f \in Forms, NEW w \in Wallets,
           NEW pay \in PayAmounts \cup {Amount}, CreateInvoice(r, i, address, f, w, pay)
    PROVE  Opens(r)
<1>1. now + Life \in Nat /\ now \in Nat /\ pay \in Nat
  BY PayAmountsType, AmountsAssumption, BoundsAssumption DEF TypeOK
<1>2. PICK row \in InvoiceRow :
        row = [wallet |-> w, pay |-> pay, vnd |-> f.vnd, hook |-> f.hook, created |-> now,
               expires |-> now + Life, status |-> "waiting"]
  BY <1>1, InvoicesAssumption DEF InvoiceRow
<1>3. PICK old \in Nat : old = IF wallet[w] = None THEN 0 ELSE wallet[w].count
  BY DEF TypeOK, WalletRow
<1>4. PICK j : j = [Idle EXCEPT !.new[i] = row, !.read[w] = old, !.view[w] = old + 1]
  OBVIOUS
<1>5. job' = [job EXCEPT ![r] = j]
  BY <1>2, <1>3, <1>4 DEF CreateInvoice, Open
<1>6. PICK new \in [Invoices -> InvoiceRow \cup {None}] :
        new = [[k \in Invoices |-> None] EXCEPT ![i] = row]
  OBVIOUS
<1>7. PICK rd \in [Wallets -> Nat \cup {None}] : rd = [[v \in Wallets |-> None] EXCEPT ![w] = old]
  OBVIOUS
<1>8. PICK vw \in [Wallets -> Int] : vw = [[v \in Wallets |-> 0] EXCEPT ![w] = old + 1]
  <2>1. PICK e \in Int : e = old + 1
    OBVIOUS
  <2>2. [[v \in Wallets |-> 0] EXCEPT ![w] = e] \in [Wallets -> Int]
    OBVIOUS
  <2> QED BY <2>1, <2>2
<1>9. j = [op |-> "create", todo |-> <<>>, ins |-> {}, pairs |-> {}, set |-> {},
           read |-> rd, view |-> vw, new |-> new, to |-> 0]
  BY <1>4, <1>6, <1>7, <1>8 DEF Idle
<1>10. j \in Job
  BY <1>9 DEF Job
<1>11. row.wallet = w /\ row.status = "waiting" /\ row # None
  BY <1>2, NoneAssumption
<1>12. /\ \A k \in Invoices : j.new[k] = IF k = i THEN row ELSE None
       /\ \A v \in Wallets : /\ j.read[v] = IF v = w THEN old ELSE None
                             /\ j.view[v] = IF v = w THEN old + 1 ELSE 0
       /\ j.op = "create" /\ j.todo = <<>> /\ j.ins = {} /\ j.pairs = {} /\ j.set = {}
  BY <1>6, <1>7, <1>8, <1>9
<1>13. InsInv(j) /\ TodoInv(j) /\ PairInv(j) /\ SetInv(j)
  BY <1>12 DEF InsInv, TodoInv, PairInv, SetInv
<1>14. NewInv(j)
  BY <1>11, <1>12, NoneAssumption DEF NewInv
<1>15. SlotInv(j)
  <2>1. \A v \in Wallets : ClosedAt(j, v) = {}
    BY <1>12 DEF ClosedAt, Closes, Completes
  <2>2. wallet[w] = None => old = 0
    BY <1>3
  <2> QED BY <1>3, <1>11, <1>12, <2>1, <2>2, NoneAssumption DEF SlotInv
<1>16. JobInv(j)'
  BY <1>10, <1>12, <1>13, <1>14, <1>15, JobKept DEF JobInv
<1> QED BY <1>5, <1>10, <1>12, <1>16 DEF Opens

LEMMA OpensCancel ==
    ASSUME TypeOK, WalletInv, RowsStay, NEW r \in Requests, NEW i \in Invoices, CancelInvoice(r, i)
    PROVE  Opens(r)
<1>0. invoice[i] # None
  BY DEF CancelInvoice, Waiting
<1>1. PICK w \in Wallets : w = invoice[i].wallet
  BY <1>0 DEF TypeOK, InvoiceRow
<1>2. PICK k : k = ReleaseSlot(Idle, i)
  OBVIOUS
<1>3. \A v \in Wallets : Idle.view[v] \in Nat
  BY IdleFields
<1>4. /\ k \in Job /\ k.todo = <<>> /\ k.ins = {} /\ k.pairs = {}
      /\ k.new = [x \in Invoices |-> None]
  BY <1>0, <1>1, <1>2, <1>3, IdleFields, ReleaseFacts
<1>5. PICK S \in SUBSET (Invoices \X Events) : S = {<<i, "canceled">>}
  <2>1. <<i, "canceled">> \in Invoices \X Events
    BY DEF Events
  <2> QED BY <2>1
<1>a. PICK j : j = [k EXCEPT !.op = "cancel", !.set = S]
  OBVIOUS
<1>6. job' = [job EXCEPT ![r] = j]
  BY <1>2, <1>5, <1>a DEF CancelInvoice, Open
<1>7. /\ j.op = "cancel" /\ j.todo = <<>> /\ j.ins = {} /\ j.pairs = {} /\ j.set = S
      /\ j.read = k.read /\ j.view = k.view /\ j.new = [x \in Invoices |-> None]
      /\ j \in Job
  BY <1>4, <1>a DEF Job
<1>8. InsInv(j) /\ TodoInv(j) /\ PairInv(j) /\ NewInv(j)
  BY <1>7 DEF InsInv, TodoInv, PairInv, NewInv
<1>9. SetInv(j)
  BY <1>0, <1>5, <1>7 DEF SetInv
<1>10. Counters(Idle) /\ Closes(Idle) = {}
  <2>1. Closes(Idle) = {}
    BY IdleFields DEF Closes, Completes
  <2> QED BY <2>1, <1>3, IdleFields DEF Counters, ClosedAt
<1>11. Closes(j) = {i}
  BY <1>5, <1>7 DEF Closes, Completes
<1>12. Counters(j)
  BY <1>0, <1>2, <1>7, <1>10, <1>11, IdleFields, CountersAfterRelease
<1>13. SlotInv(j)
  BY <1>7, <1>8, <1>12, SlotsOfCounters
<1>14. JobInv(j)'
  BY <1>7, <1>8, <1>9, <1>13, JobKept DEF JobInv
<1> QED BY <1>6, <1>7, <1>14 DEF Opens

LEMMA OpensExpire ==
    ASSUME TypeOK, WalletInv, RowsStay, NEW r \in Requests, ExpireDueInvoices(r)
    PROVE  Opens(r)
<1> DEFINE At(w) == {i \in Due : invoice[i].wallet = w}
<1>0. Due \subseteq Invoices /\ \A i \in Due : invoice[i] # None /\ invoice[i] \in InvoiceRow
  BY DEF Due, Waiting, TypeOK
<1>1. \A w \in Wallets : Cardinality(At(w)) \in Nat
  <2>1. \A w \in Wallets : At(w) \in SUBSET Invoices
    BY <1>0
  <2>2. \A S \in SUBSET Invoices : Cardinality(S) \in Nat
    BY FS_Subset, FS_CardinalityType, InvoicesAssumption
  <2> QED BY <2>1, <2>2
<1>2. \A w \in Wallets : At(w) # {} => wallet[w] # None
  BY <1>0 DEF WalletInv
<1>3. \A w \in Wallets : wallet[w] # None => wallet[w].count \in Nat
  BY DEF TypeOK, WalletRow
<1>4. PICK rd \in [Wallets -> Nat \cup {None}] :
        rd = [w \in Wallets |-> IF \E i \in Due : invoice[i].wallet = w
                                THEN wallet[w].count ELSE None]
  <2>1. \A w \in Wallets : (\E i \in Due : invoice[i].wallet = w) => wallet[w].count \in Nat
    BY <1>2, <1>3
  <2> QED BY <2>1
<1>5. PICK vw \in [Wallets -> Int] :
        vw = [w \in Wallets |->
               LET n == Cardinality({i \in Due : invoice[i].wallet = w})
               IN  IF wallet[w] = None THEN 0
                   ELSE IF wallet[w].count < n THEN 0 ELSE wallet[w].count - n]
  <2>1. ASSUME NEW w \in Wallets, NEW n \in Nat
        PROVE  (IF wallet[w] = None THEN 0
                ELSE IF wallet[w].count < n THEN 0 ELSE wallet[w].count - n) \in Int
    BY <1>3
  <2> QED BY <1>1, <2>1
<1>6. PICK S \in SUBSET (Invoices \X Events) : S = {<<i, "expired">> : i \in Due}
  <2>1. \A i \in Due : <<i, "expired">> \in Invoices \X Events
    BY <1>0 DEF Events
  <2> QED BY <2>1
<1>7. PICK j : j = [Idle EXCEPT !.op = "expire", !.set = S, !.read = rd, !.view = vw]
  OBVIOUS
<1>8. job' = [job EXCEPT ![r] = j]
  BY <1>4, <1>5, <1>6, <1>7 DEF ExpireDueInvoices, Open
<1>9. /\ j \in Job /\ j.op = "expire" /\ j.todo = <<>> /\ j.ins = {} /\ j.pairs = {} /\ j.set = S
      /\ j.read = rd /\ j.view = vw /\ j.new = [x \in Invoices |-> None]
  <2>1. j = [op |-> "expire", todo |-> <<>>, ins |-> {}, pairs |-> {}, set |-> S, read |-> rd,
             view |-> vw, new |-> [x \in Invoices |-> None], to |-> 0]
    BY <1>7 DEF Idle
  <2> QED BY <2>1 DEF Job
<1>10. InsInv(j) /\ TodoInv(j) /\ PairInv(j) /\ NewInv(j)
  BY <1>9 DEF InsInv, TodoInv, PairInv, NewInv
<1>11. SetInv(j)
  BY <1>0, <1>6, <1>9, SMTT(30) DEF SetInv
<1>12. Closes(j) = Due
  <2>1. {x[1] : x \in S} = Due
    <3>1. ASSUME NEW i \in Due PROVE \E x \in S : x[1] = i
      <4>1. <<i, "expired">> \in S /\ <<i, "expired">>[1] = i
        BY <1>6
      <4> QED BY <4>1
    <3>2. ASSUME NEW x \in S PROVE x[1] \in Due
      BY <1>6
    <3> QED BY <3>1, <3>2
  <2> QED BY <1>9, <2>1 DEF Closes, Completes
<1>13. \A w \in Wallets : ClosedAt(j, w) = At(w)
  BY <1>12 DEF ClosedAt
<1>14. Counters(j)
  <2> SUFFICES ASSUME NEW w \in Wallets
               PROVE  /\ vw[w] \in Nat
                      /\ rd[w] = None => ClosedAt(j, w) = {}
                      /\ rd[w] # None =>
                           /\ wallet[w] # None
                           /\ vw[w] = IF rd[w] < Cardinality(ClosedAt(j, w)) THEN 0
                                      ELSE rd[w] - Cardinality(ClosedAt(j, w))
    BY <1>9 DEF Counters
  <2>1. PICK n \in Nat : n = Cardinality(At(w)) /\ n = Cardinality(ClosedAt(j, w))
    BY <1>1, <1>13
  <2>2. vw[w] = IF wallet[w] = None THEN 0
                ELSE IF wallet[w].count < n THEN 0 ELSE wallet[w].count - n
    BY <1>5, <2>1
  <2>3. vw[w] \in Nat
    BY <1>3, <2>1, <2>2
  <2>4. CASE At(w) = {}
    <3>1. rd[w] = None
      BY <1>4, <2>4
    <3> QED BY <1>13, <2>3, <2>4, <3>1
  <2>5. CASE At(w) # {}
    <3>1. rd[w] = wallet[w].count /\ wallet[w] # None
      BY <1>2, <1>4, <2>5
    <3> QED BY <1>3, <2>1, <2>2, <2>3, <3>1, NoneAssumption
  <2> QED BY <2>4, <2>5
<1>15. SlotInv(j)
  BY <1>9, <1>10, <1>14, SlotsOfCounters
<1>16. JobInv(j)'
  BY <1>9, <1>10, <1>11, <1>15, JobKept DEF JobInv
<1> QED BY <1>8, <1>9, <1>16 DEF Opens

\* The sessions that only load a list of blocks.
ListJob(op, list, to) ==
    [op |-> op, todo |-> list, ins |-> {}, pairs |-> {}, set |-> {},
     read |-> [w \in Wallets |-> None], view |-> [w \in Wallets |-> 0],
     new |-> [i \in Invoices |-> None], to |-> to]

LEMMA OpensList ==
    ASSUME NEW op \in {"scan", "tron", "reconcile"}, NEW list \in Seq(Nat), NEW to \in Nat, NEW j,
           j = ListJob(op, list, to)
    PROVE  /\ j \in Job /\ j.op = op /\ j.todo = list /\ j.to = to /\ j.ins = {}
           /\ TodoInv(j) => JobInv(j)
           /\ TodoInv(j)' => JobInv(j)'
<1>1. j \in Job
  BY DEF Job, ListJob
<1>2. /\ j.op = op /\ j.todo = list /\ j.to = to
      /\ j.ins = {} /\ j.pairs = {} /\ j.set = {}
      /\ j.read = [w \in Wallets |-> None] /\ j.view = [w \in Wallets |-> 0]
      /\ j.new = [i \in Invoices |-> None]
  BY DEF ListJob
<1>3. Untouched(j)
  BY <1>2 DEF Untouched
<1> QED BY <1>1, <1>2, <1>3, UntouchedJob DEF JobInv

LEMMA OpensScan ==
    ASSUME TypeOK, RowsStay, ChainInv, PrefixInv, NEW r \in Requests, ScanLoad(r)
    PROVE  Opens(r)
<1>0. /\ kind = "evm" /\ net # None /\ net \in Nat /\ height \in Nat /\ Len(chain) \in Nat
      /\ cursor \in Nat /\ Batch \in Nat /\ MaxBlocks \in Nat
      /\ Len(chain) <= MaxBlocks /\ Len(chain) <= height
  BY ChainAssumption, BoundsAssumption DEF ScanLoad, TypeOK, ChainInv
<1>1. PICK to \in Int : to = ScanTo(cursor + 1)
  <2>1. \A a, b \in Int : (IF a < b THEN a ELSE b) \in Int
    OBVIOUS
  <2>2. (IF Len(chain) > net THEN Len(chain) - net ELSE 0) \in Int /\ cursor + 1 + Batch - 1 \in Int
    BY <1>0
  <2> QED BY <2>1, <2>2 DEF ScanTo
<1>2. to >= cursor + 1
  BY <1>1 DEF ScanLoad
<1>3. to <= Len(chain) - net
  BY <1>0, <1>1, <1>2 DEF ScanTo
<1>4. to \in 0 .. MaxBlocks /\ to <= Final /\ to \in Nat /\ to - cursor \in Nat
  BY <1>0, <1>2, <1>3 DEF Final
<1>5. PICK list : list = Blocks(cursor + 1, to)
  OBVIOUS
<1>6. list = [k \in 1 .. to - cursor |-> cursor + k]
  <2>1. to - (cursor + 1) + 1 = to - cursor
    BY <1>0, <1>4
  <2>2. \A k \in 1 .. to - cursor : cursor + 1 + k - 1 = cursor + k
    BY <1>0, <1>4
  <2> QED BY <1>5, <2>1, <2>2 DEF Blocks
<1>7. list \in Seq(Nat) /\ Len(list) = to - cursor
  BY <1>0, <1>4, <1>6
<1>a. PICK j : j = [Idle EXCEPT !.op = "scan", !.todo = list, !.to = to]
  OBVIOUS
<1>8. j = ListJob("scan", list, to)
  BY <1>a DEF Idle, ListJob
<1>9. job' = [job EXCEPT ![r] = j]
  BY <1>1, <1>5, <1>a DEF ScanLoad, Open
<1>10. /\ j \in Job /\ j.op = "scan" /\ j.todo = list /\ j.to = to /\ j.ins = {}
       /\ TodoInv(j) => JobInv(j)
  BY <1>4, <1>7, <1>8, OpensList
<1>11. ScanInv(j)
  <2>1. j.to - Len(j.todo) = cursor /\ Len(j.todo) <= j.to
    BY <1>0, <1>4, <1>7, <1>10, SMTT(30)
  <2>2. \A k \in 1 .. Len(j.todo) : j.todo[k] = cursor + k
    BY <1>6, <1>7, <1>10
  <2>3. \A b \in 1 .. cursor : stored[b] # None
    BY <1>0 DEF PrefixInv
  <2> QED BY <1>0, <1>4, <1>10, <2>1, <2>2, <2>3 DEF ScanInv
<1>12. JobInv(j)'
  BY <1>10, <1>11, JobKept DEF TodoInv
<1> QED BY <1>9, <1>10, <1>12 DEF Opens

LEMMA OpensTron ==
    ASSUME TypeOK, RowsStay, ChainInv, NEW r \in Requests, TronLoad(r)
    PROVE  Opens(r)
<1>0. /\ kind = "tron" /\ net # None /\ net \in Nat /\ height \in Nat /\ Len(chain) \in Nat
      /\ MaxBlocks \in Nat /\ Len(chain) <= MaxBlocks /\ Len(chain) <= height
  BY ChainAssumption, BoundsAssumption DEF TronLoad, TypeOK, ChainInv
<1>1. PICK last \in Int : last = Len(chain) - net
  BY <1>0
<1>2. last >= 1
  BY <1>1 DEF TronLoad
<1>3. last \in Nat /\ last <= Final /\ last <= MaxBlocks
  BY <1>0, <1>1, <1>2 DEF Final
<1>4. PICK list : list = [k \in 1 .. last |-> last + 1 - k]
  OBVIOUS
<1>5. list \in Seq(Nat) /\ Len(list) = last
  <2>1. \A k \in 1 .. last : last + 1 - k \in Nat
    BY <1>3
  <2> QED BY <1>3, <1>4, <2>1
<1>a. PICK j : j = [Idle EXCEPT !.op = "tron", !.todo = list]
  OBVIOUS
<1>6. j = ListJob("tron", list, 0)
  BY <1>a DEF Idle, ListJob
<1>7. job' = [job EXCEPT ![r] = j]
  BY <1>1, <1>4, <1>a DEF TronLoad, Open
<1>8. /\ j \in Job /\ j.op = "tron" /\ j.todo = list /\ j.ins = {}
      /\ TodoInv(j) => JobInv(j)
  BY <1>5, <1>6, OpensList
<1>9. TronInv(j)
  BY <1>0, <1>3, <1>4, <1>5, <1>8 DEF TronInv
<1>10. JobInv(j)'
  BY <1>8, <1>9, JobKept DEF TodoInv
<1> QED BY <1>7, <1>8, <1>10 DEF Opens

LEMMA OpensReconcile ==
    ASSUME TypeOK, RowsStay, NEW r \in Requests, NEW S \in SUBSET (1 .. MaxBlocks),
           NEW list \in Seq(S), \A b \in S : stored[b] # None,
           Open(r, [Idle EXCEPT !.op = "reconcile", !.todo = list]), byHand' = byHand \cup S
    PROVE  Opens(r)
<1>1. list \in Seq(Nat) /\ \A k \in 1 .. Len(list) : list[k] \in S
  BY BoundsAssumption
<1>a. PICK j : j = [Idle EXCEPT !.op = "reconcile", !.todo = list]
  OBVIOUS
<1>2. j = ListJob("reconcile", list, 0)
  BY <1>a DEF Idle, ListJob
<1>3. job' = [job EXCEPT ![r] = j]
  BY <1>a DEF Open
<1>4. /\ j \in Job /\ j.op = "reconcile" /\ j.todo = list /\ j.ins = {}
      /\ TodoInv(j)' => JobInv(j)'
  BY <1>1, <1>2, OpensList
<1>5. ReconcileInv(j)'
  BY <1>1, <1>4 DEF ReconcileInv, Open, tables
<1> QED BY <1>3, <1>4, <1>5 DEF Opens, TodoInv

\* Whatever opens a session.
LEMMA OpensStep ==
    ASSUME TypeOK, ChainInv, WalletInv, PrefixInv, RowsStay, NEW r \in Requests, OpenStep(r)
    PROVE  Opens(r)
<1>1. ASSUME NEW i \in Invoices, ReconcileInvoice(r, i) PROVE Opens(r)
  <2> DEFINE T == {b \in 1 .. MaxBlocks : /\ Known(b) /\ stored[b].status = "confirmed"
                                          /\ stored[b].to = invoice[i].wallet
                                          /\ stored[b].amount = invoice[i].pay}
  <2>1. PICK S \in SUBSET (1 .. MaxBlocks) : S = T
    OBVIOUS
  <2>2. Cardinality(S) \in Nat
    <3>1. IsFiniteSet(1 .. MaxBlocks)
      BY BoundsAssumption, FS_Interval
    <3> QED BY <3>1, FS_Subset, FS_CardinalityType
  <2>3. \A b \in S : stored[b] # None
    BY <2>1 DEF Known
  <2>4. PICK f \in [1 .. Cardinality(S) -> S] :
           Open(r, [Idle EXCEPT !.op = "reconcile", !.todo = f])
    BY <1>1, <2>1 DEF ReconcileInvoice
  <2>5. f \in Seq(S)
    BY <2>2
  <2>6. byHand' = byHand \cup S
    BY <1>1, <2>1 DEF ReconcileInvoice
  <2> QED BY <2>3, <2>4, <2>5, <2>6, OpensReconcile
<1>2. ASSUME NEW b \in 1 .. MaxBlocks, ReconcileTxHash(r, b) PROVE Opens(r)
  <2>1. PICK S \in SUBSET (1 .. MaxBlocks) : S = {b}
    OBVIOUS
  <2>2. PICK list \in Seq(S) : list = <<b>>
    <3>1. b \in S
      BY <2>1
    <3>2. <<b>> \in Seq(S)
      BY <3>1
    <3> QED BY <3>2
  <2>3. /\ Open(r, [Idle EXCEPT !.op = "reconcile", !.todo = list])
        /\ byHand' = byHand \cup S /\ \A c \in S : stored[c] # None
    BY <1>2, <2>1, <2>2 DEF ReconcileTxHash, Known
  <2> QED BY <2>3, OpensReconcile
<1> QED BY <1>1, <1>2, OpensCreate, OpensCancel, OpensExpire, OpensScan, OpensTron DEF OpenStep
-----------------------------------------------------------------------------
\* match_transfer may pair transfer b, with address and amount of x and seen at
\* time t, within session j: it is the session's own and not paired yet, or
\* reconciled.
MayMatch(j, b, x, t) ==
    \/ /\ j.op \in {"scan", "tron"}
       /\ \E y \in j.ins : y[1] = b /\ y[3] = x /\ (y[2] # None => y[2] = t)
       /\ \A p \in j.pairs : p[2] # b
    \/ /\ j.op = "reconcile"
       /\ b \in byHand /\ stored[b] # None /\ x = stored[b]
       /\ stored[b].time # None => stored[b].time = t

LEMMA MatchJob ==
    ASSUME TypeOK, WalletInv, NEW j \in Job, JobInv(j), NEW b \in 1 .. MaxBlocks, NEW x,
           NEW t \in Nat, MayMatch(j, b, x, t), NEW k \in MatchTransfer(j, b, x, t)
    PROVE  k \in Job /\ k.ins = j.ins /\ JobInv(k)
<1> USE JobFields
<1>0. CASE k = j
  BY <1>0
<1>1. CASE k # j
  <2>1. PICK i \in Oldest(Payable(j, x, t)) :
          k = [ReleaseSlot(j, i) EXCEPT !.pairs = @ \cup {<<i, b>>}]
    BY <1>1 DEF MatchTransfer
  <2>2. /\ i \in Invoices /\ Waiting(i) /\ \A c \in 1 .. MaxBlocks : <<i, c>> \notin j.pairs
        /\ invoice[i].wallet = x.to /\ invoice[i].pay = x.amount /\ t <= invoice[i].expires
    BY <2>1 DEF Oldest, Payable
  <2>3. invoice[i] # None
    BY <2>2 DEF Waiting
  <2>4. PICK w \in Wallets : w = invoice[i].wallet
    BY <2>2, <2>3 DEF TypeOK, InvoiceRow
  <2>5. \A v \in Wallets : j.view[v] \in Nat
    BY DEF JobInv, SlotInv
  <2>6. PICK k1 : k1 = ReleaseSlot(j, i)
    OBVIOUS
  <2>7. /\ k1 \in Job /\ k1.op = j.op /\ k1.todo = j.todo /\ k1.ins = j.ins /\ k1.pairs = j.pairs
        /\ k1.set = j.set /\ k1.new = j.new /\ k1.to = j.to
    BY <2>2, <2>3, <2>4, <2>5, <2>6, ReleaseFacts
  <2>8. PICK P \in SUBSET (Invoices \X Nat) : P = j.pairs \cup {<<i, b>>}
    <3>1. <<i, b>> \in Invoices \X Nat
      BY <2>2, BoundsAssumption
    <3> QED BY <3>1
  <2>9. k = [k1 EXCEPT !.pairs = P]
    BY <2>1, <2>6, <2>7, <2>8
  <2>10. /\ k \in Job /\ k.op = j.op /\ k.todo = j.todo /\ k.ins = j.ins /\ k.pairs = P
         /\ k.set = j.set /\ k.new = j.new /\ k.to = j.to
         /\ k.read = k1.read /\ k.view = k1.view
    BY <2>7, <2>9 DEF Job
  <2>11. InsInv(k)
    BY <2>10 DEF JobInv, InsInv
  <2>12. TodoInv(k)
    BY <2>10 DEF JobInv, TodoInv, ScanInv, TronInv, ReconcileInv, Ins
  <2>13. j.set = {} /\ SetInv(k) /\ NewInv(k) /\ NewInv(j) /\ j.op # "create"
         /\ \A v \in Invoices : j.new[v] = None
    BY <2>10 DEF JobInv, SetInv, NewInv, MayMatch
  <2>14. \A p \in j.pairs : p[2] \in 1 .. MaxBlocks /\ p = <<p[1], p[2]>>
    BY DEF JobInv, PairInv, InsInv
  <2>15. \A p \in j.pairs : p[1] # i
    BY <2>2, <2>14
  <2>16. PairInv(k)
    <3>1. Pays(i, x.to, x.amount, t)
      BY <2>2, <2>3 DEF Pays
    <3>2. \A p \in P : p \in j.pairs \/ (p = <<i, b>> /\ p[1] = i /\ p[2] = b)
      BY <2>8
    <3>3. ASSUME NEW p \in P
          PROVE  \/ /\ j.op \in {"scan", "tron"}
                    /\ \E y \in j.ins : y[1] = p[2] /\ Pays(p[1], y[3].to, y[3].amount, y[2])
                 \/ /\ j.op = "reconcile"
                    /\ p[2] \in 1 .. MaxBlocks /\ p[2] \in byHand /\ stored[p[2]] # None
                    /\ Pays(p[1], stored[p[2]].to, stored[p[2]].amount, stored[p[2]].time)
      <4>1. CASE p \in j.pairs
        BY <4>1 DEF JobInv, PairInv
      <4>2. CASE p = <<i, b>> /\ j.op \in {"scan", "tron"}
        BY <3>1, <4>2 DEF MayMatch, Pays
      <4>3. CASE p = <<i, b>> /\ j.op = "reconcile"
        BY <3>1, <4>3 DEF MayMatch, Pays
      <4> QED BY <3>2, <4>1, <4>2, <4>3 DEF MayMatch
    <3>4. \A p, q \in P : p[1] = q[1] => p = q
      BY <2>15, <3>2 DEF JobInv, PairInv
    <3>5. ASSUME j.op \in {"scan", "tron"} PROVE \A p, q \in P : p[2] = q[2] => p = q
      <4>1. \A p \in j.pairs : p[2] # b
        BY <3>5 DEF MayMatch
      <4> QED BY <3>2, <3>5, <4>1 DEF JobInv, PairInv
    <3> QED BY <2>10, <3>3, <3>4, <3>5 DEF PairInv
  <2>17. Completes(j) \subseteq Invoices /\ Closes(j) = Completes(j) /\ i \notin Closes(j)
    BY <2>13, <2>15 DEF Closes, Completes
  <2>18. Closes(k) = Closes(j) \cup {i}
    <3>1. Completes(k) = Completes(j) \cup {i}
      <4>1. Completes(k) = {p[1] : p \in P}
        BY <2>10 DEF Completes
      <4>2. \A p \in P : p \in j.pairs \/ p[1] = i
        BY <2>8
      <4>3. <<i, b>> \in P /\ <<i, b>>[1] = i /\ j.pairs \subseteq P
        BY <2>8
      <4> QED BY <4>1, <4>2, <4>3 DEF Completes
    <3> QED BY <2>10, <2>13, <2>17, <3>1 DEF Closes
  <2>19. Counters(j)
    BY <2>13, SlotsOfCounters DEF JobInv
  <2>20. Counters(k)
    <3>1. /\ i \in Invoices /\ invoice[i] # None /\ i \notin Closes(j) /\ k \in Job
          /\ Closes(k) = Closes(j) \cup {i} /\ Closes(j) \subseteq Invoices
          /\ k.read = ReleaseSlot(j, i).read /\ k.view = ReleaseSlot(j, i).view
      BY <2>2, <2>3, <2>6, <2>10, <2>17, <2>18, Zenon
    <3> QED BY <2>19, <3>1, CountersAfterRelease, Zenon
  <2>21. SlotInv(k)
    BY <2>10, <2>13, <2>20, SlotsOfCounters
  <2> QED BY <2>10, <2>11, <2>12, <2>13, <2>16, <2>21 DEF JobInv
<1> QED BY <1>0, <1>1

\* The first element and the rest of a list of blocks.
LEMMA ListFacts ==
    ASSUME NEW list \in Seq(Nat), list # <<>>
    PROVE  /\ Len(list) \in Nat /\ Len(list) >= 1 /\ Head(list) = list[1] /\ Head(list) \in Nat
           /\ Tail(list) \in Seq(Nat) /\ Len(Tail(list)) = Len(list) - 1
           /\ \A k \in 1 .. Len(list) - 1 : Tail(list)[k] = list[k + 1]
  OBVIOUS

\* The next block of a watcher is one of the chain's and final; whether it is
\* known or new, the list without it is what the session still has to do.
LEMMA NextBlock ==
    ASSUME TypeOK, ChainInv, PrefixInv, NEW j \in Job, JobInv(j), j.op \in {"scan", "tron"},
           j.todo # <<>>, NEW b, b = Head(j.todo)
    PROVE  /\ b \in 1 .. MaxBlocks /\ b <= Final /\ b \in 1 .. Len(chain) /\ chain[b] \in Payments
           /\ b \notin Ins(j) /\ net # None
           /\ stored[b] # None => TodoInv(ListJob(j.op, Tail(j.todo), j.to))
           /\ \A k \in Job : /\ k.op = j.op /\ k.todo = Tail(j.todo) /\ k.to = j.to
                             /\ Ins(k) = Ins(j) \cup {b}
                             => TodoInv(k)
<1> USE JobFields
<1>0. /\ Len(j.todo) \in Nat /\ Len(j.todo) >= 1 /\ b = j.todo[1]
      /\ Tail(j.todo) \in Seq(Nat) /\ Len(Tail(j.todo)) = Len(j.todo) - 1
      /\ \A k \in 1 .. Len(j.todo) - 1 : Tail(j.todo)[k] = j.todo[k + 1]
  BY ListFacts
<1>1. /\ MaxBlocks \in Nat /\ Len(chain) \in Nat /\ chain \in Seq(Payments)
      /\ (net # None => Final \in Int /\ Final <= Len(chain))
  <2>1. net # None => net \in Nat
    BY ChainAssumption DEF TypeOK
  <2> QED BY <2>1, BoundsAssumption DEF TypeOK, ChainInv, Final
<1>2. j.op = "scan" => ScanInv(j)
  BY DEF JobInv, TodoInv
<1>3. j.op = "tron" => TronInv(j)
  BY DEF JobInv, TodoInv
<1>4. /\ b \in 1 .. MaxBlocks /\ b <= Final /\ net # None
      /\ j.op = "scan" => b = j.to - Len(j.todo) + 1
      /\ j.op = "tron" => b = Len(j.todo)
  <2>1. CASE j.op = "scan"
    <3>1. b = j.to - Len(j.todo) + 1
      BY <1>0, <1>2, <2>1 DEF ScanInv
    <3> QED BY <1>0, <1>1, <1>2, <2>1, <3>1, SMTT(30) DEF ScanInv
  <2>2. CASE j.op = "tron"
    <3>1. b = Len(j.todo)
      BY <1>0, <1>3, <2>2 DEF TronInv
    <3> QED BY <1>0, <1>1, <1>3, <2>2, <3>1 DEF TronInv
  <2> QED BY <2>1, <2>2
<1>5. b \in 1 .. Len(chain) /\ chain[b] \in Payments
  <2>1. b \in 1 .. Len(chain)
    BY <1>1, <1>4
  <2> QED BY <1>1, <2>1
<1>6. b \notin Ins(j)
  <2>1. \A y \in j.ins : y[1] \in Nat /\ y[1] # b
    BY <1>0, <1>2, <1>3, <1>4 DEF ScanInv, TronInv
  <2> QED BY <2>1 DEF Ins
<1>7. ASSUME stored[b] # None PROVE TodoInv(ListJob(j.op, Tail(j.todo), j.to))
  <2>1. PICK k : k = ListJob(j.op, Tail(j.todo), j.to)
    OBVIOUS
  <2>2. k.op = j.op /\ k.todo = Tail(j.todo) /\ k.to = j.to /\ k.ins = {}
    BY <2>1 DEF ListJob
  <2>3. CASE j.op = "scan"
    <3>1. \A c \in 1 .. b : stored[c] # None
      <4>1. \A c \in 1 .. b : c \in 1 .. MaxBlocks /\ c <= b
        BY <1>1, <1>4
      <4>2. kind = "evm"
        BY <1>2, <2>3 DEF ScanInv
      <4> QED BY <1>4, <1>7, <4>1, <4>2 DEF PrefixInv
    <3>2. k.to - Len(k.todo) = b
      BY <1>0, <1>4, <2>2, <2>3
    <3>3. \A i \in 1 .. Len(k.todo) : k.todo[i] = k.to - Len(k.todo) + i
      <4>1. ASSUME NEW i \in 1 .. Len(j.todo) - 1 PROVE j.todo[i + 1] = b + i
        <5>1. i + 1 \in 1 .. Len(j.todo)
          BY <1>0
        <5>2. j.todo[i + 1] = j.to - Len(j.todo) + (i + 1)
          BY <1>2, <2>3, <5>1 DEF ScanInv
        <5>3. b = j.to - Len(j.todo) + 1
          BY <1>4, <2>3
        <5>4. \A m, n, l \in Int : m - n + (l + 1) = m - n + 1 + l
          OBVIOUS
        <5>5. j.to \in Int /\ Len(j.todo) \in Int /\ i \in Int
          BY <1>0
        <5>6. j.to - Len(j.todo) + (i + 1) = j.to - Len(j.todo) + 1 + i
          BY <5>4, <5>5, Zenon
        <5> QED BY <5>2, <5>3, <5>6, Zenon
      <4> QED BY <1>0, <2>2, <3>2, <4>1
    <3>4. ScanInv(k)
      BY <1>0, <1>2, <2>2, <2>3, <3>1, <3>2, <3>3 DEF ScanInv
    <3> QED BY <2>1, <2>2, <2>3, <3>4 DEF TodoInv
  <2>4. CASE j.op = "tron"
    <3>1. \A i \in 1 .. Len(k.todo) : k.todo[i] = Len(k.todo) + 1 - i
      <4>1. ASSUME NEW i \in 1 .. Len(j.todo) - 1 PROVE j.todo[i + 1] = Len(j.todo) - i
        <5>1. i + 1 \in 1 .. Len(j.todo)
          BY <1>0
        <5> QED BY <1>0, <1>3, <2>4, <5>1 DEF TronInv
      <4> QED BY <1>0, <2>2, <4>1
    <3>2. TronInv(k)
      BY <1>0, <1>1, <1>3, <2>2, <2>4, <3>1 DEF TronInv
    <3> QED BY <2>1, <2>2, <2>4, <3>2 DEF TodoInv
  <2> QED BY <2>3, <2>4
<1>8. ASSUME NEW k \in Job, k.op = j.op, k.todo = Tail(j.todo), k.to = j.to,
             Ins(k) = Ins(j) \cup {b}
      PROVE  TodoInv(k)
  <2>0. \A y \in k.ins : y[1] \in Ins(j) \/ y[1] = b
    BY <1>8 DEF Ins
  <2>1. CASE j.op = "scan"
    <3>1. k.to - Len(k.todo) = b /\ j.to - Len(j.todo) = b - 1
      BY <1>0, <1>4, <1>8, <2>1
    <3>2. \A i \in 1 .. Len(k.todo) : k.todo[i] = k.to - Len(k.todo) + i
      <4>1. ASSUME NEW i \in 1 .. Len(j.todo) - 1 PROVE j.todo[i + 1] = b + i
        <5>1. i + 1 \in 1 .. Len(j.todo)
          BY <1>0
        <5>2. j.todo[i + 1] = j.to - Len(j.todo) + (i + 1)
          BY <1>2, <2>1, <5>1 DEF ScanInv
        <5>3. b = j.to - Len(j.todo) + 1
          BY <1>4, <2>1
        <5>4. \A m, n, l \in Int : m - n + (l + 1) = m - n + 1 + l
          OBVIOUS
        <5>5. j.to \in Int /\ Len(j.todo) \in Int /\ i \in Int
          BY <1>0
        <5>6. j.to - Len(j.todo) + (i + 1) = j.to - Len(j.todo) + 1 + i
          BY <5>4, <5>5, Zenon
        <5> QED BY <5>2, <5>3, <5>6, Zenon
      <4> QED BY <1>0, <1>8, <3>1, <4>1
    <3>3. \A y \in k.ins : y[1] <= b
      <4>1. \A c \in Ins(j) : c \in Nat /\ c <= b - 1
        BY <1>2, <2>1, <3>1 DEF ScanInv, Ins
      <4> QED BY <1>4, <2>0, <4>1, SMTT(30)
    <3>4. \A c \in 1 .. b : stored[c] # None \/ c \in Ins(k)
      <4>1. \A c \in 1 .. b : c \in 1 .. b - 1 \/ c = b
        BY <1>4
      <4> QED BY <1>2, <1>8, <2>1, <3>1, <4>1 DEF ScanInv
    <3>5. ScanInv(k)
      BY <1>0, <1>2, <1>8, <2>1, <3>1, <3>2, <3>3, <3>4, SMTT(30) DEF ScanInv
    <3> QED BY <1>8, <2>1, <3>5 DEF TodoInv
  <2>2. CASE j.op = "tron"
    <3>1. \A i \in 1 .. Len(k.todo) : k.todo[i] = Len(k.todo) + 1 - i
      <4>1. ASSUME NEW i \in 1 .. Len(j.todo) - 1 PROVE j.todo[i + 1] = Len(j.todo) - i
        <5>1. i + 1 \in 1 .. Len(j.todo)
          BY <1>0
        <5> QED BY <1>0, <1>3, <2>2, <5>1 DEF TronInv
      <4>2. Len(k.todo) = Len(j.todo) - 1 /\ \A i \in 1 .. Len(j.todo) - 1 : k.todo[i] = j.todo[i + 1]
        BY <1>0, <1>8
      <4>3. \A i \in 1 .. Len(j.todo) - 1 : Len(j.todo) - i = Len(j.todo) - 1 + 1 - i
        BY <1>0
      <4> QED BY <4>1, <4>2, <4>3
    <3>2. \A y \in k.ins : y[1] > Len(k.todo)
      <4>1. \A c \in Ins(j) : c \in Nat /\ c > Len(j.todo)
        BY <1>3, <2>2 DEF TronInv, Ins
      <4> QED BY <1>0, <1>4, <1>8, <2>0, <2>2, <4>1
    <3>3. TronInv(k)
      BY <1>0, <1>1, <1>3, <1>8, <2>2, <3>1, <3>2 DEF TronInv
    <3> QED BY <1>8, <2>2, <3>3 DEF TodoInv
  <2> QED BY <2>1, <2>2
<1> QED BY <1>4, <1>5, <1>6, <1>7, <1>8

\* A session goes on with what it relies on, and inserts what no other has.
Advances(r) ==
    \E k \in Job : /\ job' = [job EXCEPT ![r] = k] /\ JobInv(k)
                   /\ \A q \in Requests \ {r} : job[q] # None => Ins(k) \cap Ins(job[q]) = {}

LEMMA WatchStep ==
    ASSUME TypeOK, ChainInv, WalletInv, PrefixInv, SessionsInv, NEW r \in Requests, NEW time,
           \/ Running(r, {"scan"}) /\ time = now
           \/ Running(r, {"tron"}) /\ time = None,
           WatchLog(r, time)
    PROVE  Advances(r)
<1> USE JobFields
<1>0. PICK j \in Job : j = job[r] /\ j.op \in {"scan", "tron"} /\ JobInv(j)
  BY DEF Running, TypeOK, SessionsInv
<1>1. j.todo # <<>> /\ now \in Nat /\ time \in Nat \cup {None}
  BY <1>0, BoundsAssumption DEF WatchLog, TypeOK
<1>2. PICK b : b = Head(j.todo)
  OBVIOUS
<1>3. /\ b \in 1 .. MaxBlocks /\ b <= Final /\ chain[b] \in Payments
      /\ b \notin Ins(j)
      /\ stored[b] # None => TodoInv(ListJob(j.op, Tail(j.todo), j.to))
      /\ \A k \in Job : /\ k.op = j.op /\ k.todo = Tail(j.todo) /\ k.to = j.to
                        /\ Ins(k) = Ins(j) \cup {b}
                        => TodoInv(k)
  BY <1>0, <1>1, <1>2, NextBlock
<1>4. Tail(j.todo) \in Seq(Nat) /\ b \in Nat
  BY <1>1, <1>2, ListFacts
<1>5. \A q \in Requests \ {r} : job[q] # None => b \notin Ins(job[q])
  BY <1>0, <1>2 DEF WatchLog, Ins
<1>6. \A q \in Requests \ {r} : job[q] # None => Ins(j) \cap Ins(job[q]) = {}
  BY <1>0, NoneAssumption DEF SessionsInv
<1>7. CASE Known(b)
  <2>1. PICK k : k = [Idle EXCEPT !.op = j.op, !.todo = Tail(j.todo), !.to = j.to]
    OBVIOUS
  <2>2. k = ListJob(j.op, Tail(j.todo), j.to)
    BY <2>1 DEF Idle, ListJob
  <2>3. job' = [job EXCEPT ![r] = k]
    <3>1. [j EXCEPT !.todo = Tail(j.todo)].todo = Tail(j.todo)
      BY DEF Job
    <3> QED BY <1>0, <1>2, <1>7, <2>1, <3>1 DEF WatchLog
  <2>4. k \in Job /\ k.ins = {} /\ JobInv(k)
    <3>1. TodoInv(k)
      BY <1>3, <1>7, <2>2 DEF Known
    <3>2. PICK op \in {"scan", "tron", "reconcile"} : op = j.op
      BY <1>0
    <3>3. k = ListJob(op, Tail(j.todo), j.to) /\ Tail(j.todo) \in Seq(Nat) /\ j.to \in Nat
      BY <1>4, <2>2, <3>2
    <3>4. PICK list \in Seq(Nat), to \in Nat : list = Tail(j.todo) /\ to = j.to
      BY <3>3
    <3>5. k = ListJob(op, list, to)
      BY <3>3, <3>4
    <3> QED BY <3>1, <3>5, OpensList
  <2>5. Ins(k) = {}
    BY <2>4 DEF Ins
  <2> QED BY <2>3, <2>4, <2>5 DEF Advances
<1>8. CASE ~Known(b)
  <2>1. PICK x \in Payments : x = chain[b]
    BY <1>3
  <2>2. PICK I \in SUBSET (Nat \X (Nat \cup {None}) \X Payments) : I = j.ins \cup {<<b, time, x>>}
    <3>1. <<b, time, x>> \in Nat \X (Nat \cup {None}) \X Payments
      BY <1>1, <1>4, <2>1
    <3> QED BY <3>1
  <2>3. PICK j1 : j1 = [[j EXCEPT !.todo = Tail(j.todo)] EXCEPT !.ins = I]
    OBVIOUS
  <2>4. /\ j1 \in Job /\ j1.op = j.op /\ j1.todo = Tail(j.todo) /\ j1.to = j.to /\ j1.ins = I
        /\ j1.pairs = j.pairs /\ j1.set = j.set /\ j1.read = j.read /\ j1.view = j.view
        /\ j1.new = j.new
    BY <1>4, <2>3 DEF Job
  <2>5. j1 = [[j EXCEPT !.todo = Tail(j.todo)] EXCEPT !.ins = @ \cup {<<b, time, x>>}]
    BY <2>2, <2>3 DEF Job
  <2>6. Ins(j1) = Ins(j) \cup {b}
    <3>1. \A y \in I : y \in j.ins \/ y[1] = b
      BY <2>2
    <3>2. <<b, time, x>> \in I /\ <<b, time, x>>[1] = b /\ j.ins \subseteq I
      BY <2>2
    <3> QED BY <2>4, <3>1, <3>2 DEF Ins
  <2>7. TodoInv(j1)
    BY <1>3, <2>4, <2>6
  <2>8. InsInv(j1)
    <3>1. \A y \in I : y \in j.ins \/ (y = <<b, time, x>> /\ y[1] = b /\ y[3] = chain[b])
      BY <2>1, <2>2
    <3>2. stored[b] = None
      BY <1>8 DEF Known
    <3>3. \A y \in I : /\ y[1] \in 1 .. MaxBlocks /\ stored[y[1]] = None
                       /\ y[1] <= Final /\ y[3] = chain[y[1]]
      BY <1>0, <1>3, <3>1, <3>2 DEF JobInv, InsInv
    <3>4. \A y, z \in I : y[1] = z[1] => y = z
      BY <1>0, <1>3, <3>1 DEF JobInv, InsInv, Ins
    <3> QED BY <1>0, <2>4, <3>3, <3>4 DEF InsInv
  <2>9. PairInv(j1)
    <3>1. j.ins \subseteq I
      BY <2>2
    <3> QED BY <1>0, <2>4, <3>1 DEF JobInv, PairInv
  <2>10. SetInv(j1) /\ NewInv(j1)
    BY <1>0, <2>4, SMTT(30) DEF JobInv, SetInv, NewInv
  <2>11. SlotInv(j1)
    <3>1. \A w \in Wallets : ClosedAt(j1, w) = ClosedAt(j, w)
      BY <2>4 DEF ClosedAt, Closes, Completes
    <3> QED BY <1>0, <2>4, <3>1 DEF JobInv, SlotInv
  <2>12. JobInv(j1)
    BY <2>7, <2>8, <2>9, <2>10, <2>11 DEF JobInv
  <2>13. \A p \in j.pairs : p[2] # b
    BY <1>0, <1>3 DEF JobInv, PairInv, Ins
  <2>14. MayMatch(j1, b, x, now)
    <3>1. <<b, time, x>> \in I /\ (time # None => time = now)
      BY <2>2 DEF Running
    <3>2. \E y \in I : y[1] = b /\ y[3] = x /\ (y[2] # None => y[2] = now)
      BY <3>1
    <3> QED BY <1>0, <2>4, <2>13, <3>2 DEF MayMatch
  <2>15. PICK k \in MatchTransfer(j1, b, x, now) : job' = [job EXCEPT ![r] = k]
    BY <1>0, <1>2, <1>8, <2>1, <2>5 DEF WatchLog
  <2>16. k \in Job /\ k.ins = j1.ins /\ JobInv(k)
    BY <1>1, <1>3, <2>4, <2>12, <2>14, MatchJob
  <2>17. Ins(k) = Ins(j) \cup {b}
    BY <2>6, <2>16 DEF Ins
  <2>18. \A q \in Requests \ {r} : job[q] # None => Ins(k) \cap Ins(job[q]) = {}
    BY <1>5, <1>6, <2>17
  <2> QED BY <2>15, <2>16, <2>18 DEF Advances
<1> QED BY <1>7, <1>8

LEMMA ReconcileStep ==
    ASSUME TypeOK, WalletInv, SessionsInv, NEW r \in Requests, ReconcileLog(r)
    PROVE  Advances(r)
<1> USE JobFields
<1>0. PICK j \in Job : j = job[r] /\ j.op = "reconcile" /\ JobInv(j)
  BY DEF ReconcileLog, Running, TypeOK, SessionsInv
<1>1. j.todo # <<>>
  BY <1>0 DEF ReconcileLog
<1>2. PICK b : b = Head(j.todo)
  OBVIOUS
<1>3. /\ Len(j.todo) \in Nat /\ Len(j.todo) >= 1 /\ b = j.todo[1]
      /\ Tail(j.todo) \in Seq(Nat) /\ Len(Tail(j.todo)) = Len(j.todo) - 1
      /\ \A k \in 1 .. Len(j.todo) - 1 : Tail(j.todo)[k] = j.todo[k + 1]
  BY <1>1, <1>2, ListFacts
<1>4. ReconcileInv(j) /\ 1 \in 1 .. Len(j.todo)
  BY <1>0, <1>3 DEF JobInv, TodoInv
<1>5. b \in 1 .. MaxBlocks /\ b \in byHand /\ stored[b] # None
  BY <1>3, <1>4 DEF ReconcileInv
<1>6. PICK t \in Nat : t = IF stored[b].time = None THEN now ELSE stored[b].time
  <2>1. stored[b] \in TransferRow /\ now \in Nat
    BY <1>5, BoundsAssumption DEF TypeOK
  <2>2. stored[b].time \in Nat \cup {None}
    BY <2>1 DEF TransferRow
  <2> QED BY <2>1, <2>2
<1>7. PICK j1 : j1 = [j EXCEPT !.todo = Tail(j.todo)]
  OBVIOUS
<1>8. /\ j1 \in Job /\ j1.op = j.op /\ j1.todo = Tail(j.todo) /\ j1.to = j.to /\ j1.ins = j.ins
      /\ j1.pairs = j.pairs /\ j1.set = j.set /\ j1.read = j.read /\ j1.view = j.view
      /\ j1.new = j.new
  BY <1>3, <1>7 DEF Job
<1>9. InsInv(j1) /\ PairInv(j1) /\ SetInv(j1) /\ NewInv(j1)
  BY <1>0, <1>8 DEF JobInv, InsInv, PairInv, SetInv, NewInv
<1>10. TodoInv(j1)
  <2>1. \A k \in 1 .. Len(j.todo) - 1 : k + 1 \in 1 .. Len(j.todo)
    BY <1>3
  <2> QED BY <1>0, <1>3, <1>4, <1>8, <2>1 DEF ReconcileInv, TodoInv
<1>11. SlotInv(j1)
  <2>1. \A w \in Wallets : ClosedAt(j1, w) = ClosedAt(j, w)
    BY <1>8 DEF ClosedAt, Closes, Completes
  <2> QED BY <1>0, <1>8, <2>1 DEF JobInv, SlotInv
<1>12. JobInv(j1)
  BY <1>9, <1>10, <1>11 DEF JobInv
<1>13. PICK k \in MatchTransfer(j1, b, stored[b], t) : job' = [job EXCEPT ![r] = k]
  BY <1>0, <1>2, <1>6, <1>7 DEF ReconcileLog
<1>14. k \in Job /\ k.ins = j1.ins /\ JobInv(k)
  <2>1. MayMatch(j1, b, stored[b], t)
    BY <1>0, <1>5, <1>6, <1>8 DEF MayMatch
  <2> QED BY <1>5, <1>8, <1>12, <2>1, MatchJob
<1>15. \A q \in Requests \ {r} : job[q] # None => Ins(k) \cap Ins(job[q]) = {}
  BY <1>0, <1>8, <1>14, NoneAssumption DEF SessionsInv, Ins
<1> QED BY <1>13, <1>14, <1>15 DEF Advances
-----------------------------------------------------------------------------
\* The steps outside of any session.
OutsideStep ==
    \/ \E c \in Confs : AdminCreateNetwork(c)
    \/ AdminCreateToken \/ Tick \/ Reorg
    \/ \E w \in Wallets : AdminCreateWallet(w)
    \/ AdminCreateRpc
    \/ \E x \in Payments : Pay(x)
    \/ \E i \in Invoices : AdminForceComplete(i)

LEMMA NextCases ==
    [Next]_vars => \/ OutsideStep \/ UNCHANGED vars
                   \/ \E r \in Requests : OpenStep(r) \/ LogStep(r) \/ Commit(r) \/ JobFails(r)
  BY DEF Next, OutsideStep, OpenStep, LogStep

LEMMA OutsideFrame ==
    OutsideStep => UNCHANGED <<job, stored, matches, credits, callbacks, cursor, sessions, byHand>>
<1> USE DEF setup, tables
<1>1. ASSUME NEW c \in Confs, AdminCreateNetwork(c)
      PROVE  UNCHANGED <<job, stored, matches, credits, callbacks, cursor, sessions, byHand>>
  BY <1>1 DEF AdminCreateNetwork
<1>2. ASSUME NEW w \in Wallets, AdminCreateWallet(w)
      PROVE  UNCHANGED <<job, stored, matches, credits, callbacks, cursor, sessions, byHand>>
  BY <1>2 DEF AdminCreateWallet
<1>3. ASSUME NEW x \in Payments, Pay(x)
      PROVE  UNCHANGED <<job, stored, matches, credits, callbacks, cursor, sessions, byHand>>
  BY <1>3 DEF Pay
<1>4. ASSUME NEW i \in Invoices, AdminForceComplete(i)
      PROVE  UNCHANGED <<job, stored, matches, credits, callbacks, cursor, sessions, byHand>>
  BY <1>4 DEF AdminForceComplete
<1>5. AdminCreateToken \/ Tick \/ Reorg \/ AdminCreateRpc
      => UNCHANGED <<job, stored, matches, credits, callbacks, cursor, sessions, byHand>>
  BY DEF AdminCreateToken, Tick, Reorg, AdminCreateRpc
<1> QED BY <1>1, <1>2, <1>3, <1>4, <1>5 DEF OutsideStep

\* The sessions keep what they rely on through every step, their own and the
\* ones of the others.
LEMMA SessionsStep ==
    ASSUME TypeOK, ChainInv, WalletInv, PrefixInv, SessionsInv, [Next]_vars
    PROVE  SessionsInv' /\ job' \in [Requests -> Job \cup {None}]
<1>0. RowsStay
  BY RowsStayStep
<1>1. job \in [Requests -> Job \cup {None}]
  BY DEF TypeOK
<1>2. \A q \in Requests : job[q] # None =>
        /\ job[q] \in Job /\ JobInv(job[q])
        /\ \A y \in job[q].ins : stored[y[1]] = None
  BY <1>1 DEF SessionsInv, JobInv, InsInv
<1>3. ASSUME NEW q \in Requests, job[q] # None, \A y \in job[q].ins : stored'[y[1]] = None,
             NEW k, k = job[q]
      PROVE  JobInv(k)'
  <2>1. k \in Job /\ JobInv(k) /\ \A y \in k.ins : stored'[y[1]] = None
    BY <1>2, <1>3
  <2> QED BY <1>0, <2>1, JobKept
<1>4. CASE OutsideStep \/ UNCHANGED vars
  <2>1. job' = job /\ stored' = stored
    BY <1>4, OutsideFrame DEF vars
  <2>2. ASSUME NEW q \in Requests, job'[q] # None PROVE JobInv(job[q])'
    <3>1. PICK k : k = job[q]
      OBVIOUS
    <3>2. JobInv(k)'
      BY <1>2, <1>3, <2>1, <2>2, <3>1
    <3>3. k = job'[q]
      BY <2>1, <3>1
    <3> QED BY <3>2, <3>3
  <2>3. \A q, s \in Requests : q # s /\ job'[q] # None /\ job'[s] # None =>
          Ins(job[q])' \cap Ins(job[s])' = {}
    BY <2>1 DEF SessionsInv, Ins
  <2> QED BY <1>1, <2>1, <2>2, <2>3 DEF SessionsInv
<1>5. ASSUME NEW r \in Requests, OpenStep(r) \/ LogStep(r) \/ Commit(r) \/ JobFails(r)
      PROVE  SessionsInv' /\ job' \in [Requests -> Job \cup {None}]
  <2>1. PICK k \in Job \cup {None} :
          /\ job' = [job EXCEPT ![r] = k]
          /\ k # None => JobInv(k)'
          /\ \A q \in Requests \ {r} : job[q] # None =>
               /\ k # None => Ins(k) \cap Ins(job[q]) = {}
               /\ \A y \in job[q].ins : stored'[y[1]] = None
    <3>1. CASE OpenStep(r)
      <4>1. PICK k \in Job : job' = [job EXCEPT ![r] = k] /\ k.ins = {} /\ JobInv(k)'
        BY <1>0, <3>1, OpensStep DEF Opens
      <4>2. stored' = stored
        BY <3>1, OpenFrame DEF tables
      <4>3. Ins(k) = {}
        BY <4>1 DEF Ins
      <4> QED BY <1>2, <4>1, <4>2, <4>3
    <3>2. CASE LogStep(r)
      <4>1. stored' = stored
        BY <3>2, LogFrame DEF tables
      <4>2. Advances(r)
        <5>1. CASE ScanTokenLog(r)
          BY <5>1, WatchStep DEF ScanTokenLog
        <5>2. CASE IngestTronEvent(r)
          BY <5>2, WatchStep DEF IngestTronEvent
        <5>3. CASE ReconcileLog(r)
          BY <5>3, ReconcileStep
        <5> QED BY <3>2, <5>1, <5>2, <5>3 DEF LogStep
      <4>3. PICK k \in Job :
              /\ job' = [job EXCEPT ![r] = k] /\ JobInv(k)
              /\ \A q \in Requests \ {r} : job[q] # None => Ins(k) \cap Ins(job[q]) = {}
        BY <4>2 DEF Advances
      <4>4. JobInv(k)'
        <5>1. \A y \in k.ins : stored'[y[1]] = None
          BY <4>1, <4>3 DEF JobInv, InsInv
        <5> QED BY <1>0, <4>3, <5>1, JobKept
      <4> QED BY <1>2, <4>1, <4>3, <4>4
    <3>3. CASE JobFails(r)
      <4>1. stored' = stored /\ job' = [job EXCEPT ![r] = None]
        BY <3>3 DEF JobFails, tables
      <4> QED BY <1>2, <4>1
    <3>4. CASE Commit(r)
      <4>1. PICK j \in Job : j = job[r] /\ job[r] # None
        BY <3>4 DEF Commit, TypeOK
      <4>2. job' = [job EXCEPT ![r] = None]
        BY <3>4 DEF Commit
      <4>3. ASSUME NEW q \in Requests \ {r}, job[q] # None, NEW y \in job[q].ins
            PROVE  stored'[y[1]] = None
        <5>1. y[1] \in Ins(job[q]) /\ stored[y[1]] = None
          BY <1>2, <4>3 DEF Ins
        <5>2. y[1] \in 1 .. MaxBlocks
          BY <1>2, <4>3 DEF JobInv, InsInv
        <5>3. y[1] \notin Ins(j)
          BY <4>1, <4>3, <5>1 DEF SessionsInv
        <5>4. \A i \in Invoices : <<i, y[1]>> \notin j.pairs
          BY <1>2, <4>1, <5>1, <5>3 DEF JobInv, PairInv, Ins
        <5> QED BY <1>2, <3>4, <4>1, <5>1, <5>2, <5>3, <5>4, CommitTransfers
      <4> QED BY <4>2, <4>3
    <3> QED BY <1>5, <3>1, <3>2, <3>3, <3>4
  <2>2. /\ job' \in [Requests -> Job \cup {None}] /\ job'[r] = k
        /\ \A q \in Requests \ {r} : job'[q] = job[q]
    BY <1>1, <2>1
  <2>3. ASSUME NEW q \in Requests, job'[q] # None PROVE JobInv(job[q])'
    <3>1. PICK m : m = job'[q]
      OBVIOUS
    <3>2. JobInv(m)'
      <4>1. CASE q = r
        BY <2>1, <2>2, <2>3, <3>1, <4>1
      <4>2. CASE q # r
        BY <1>3, <2>1, <2>2, <2>3, <3>1, <4>2
      <4> QED BY <4>1, <4>2
    <3> QED BY <3>1, <3>2
  <2>4. ASSUME NEW q \in Requests, NEW s \in Requests, q # s, job'[q] # None, job'[s] # None
        PROVE  Ins(job[q])' \cap Ins(job[s])' = {}
    <3>1. PICK m : m = job'[q]
      OBVIOUS
    <3>2. PICK n : n = job'[s]
      OBVIOUS
    <3>3. Ins(m) \cap Ins(n) = {}
      BY <2>1, <2>2, <2>4, <3>1, <3>2 DEF SessionsInv
    <3> QED BY <3>1, <3>2, <3>3 DEF Ins
  <2> QED BY <2>2, <2>3, <2>4 DEF SessionsInv
<1> QED BY <1>4, <1>5, NextCases
-----------------------------------------------------------------------------
\* The chain and the configuration.
LEMMA ChainStep ==
    ASSUME TypeOK, ChainInv, StoredInv, WalletInv, [Next]_vars
    PROVE  ChainInv'
<1> USE DEF setup, tables
<1>0. /\ height \in Nat /\ chain \in Seq(Payments) /\ Len(chain) \in Nat /\ edits \in Nat
      /\ MaxBlocks \in Nat /\ (net # None => net \in Nat)
  BY BoundsAssumption, ChainAssumption DEF TypeOK, ChainInv
<1>1. ASSUME UNCHANGED <<net, chain, height>>, edits' = edits \/ (CanEdit /\ edits' = edits + 1),
             net # None \/ UNCHANGED <<wallet, token, job>>
      PROVE  ChainInv'
  <2>1. Len(chain) + edits' <= MaxBlocks
    BY <1>0, <1>1 DEF ChainInv, CanEdit
  <2> QED BY <1>1, <2>1 DEF ChainInv, Final
<1>2. CASE UNCHANGED vars
  BY <1>1, <1>2 DEF vars
<1>3. CASE OutsideStep
  <2>1. ASSUME NEW c \in Confs, AdminCreateNetwork(c) PROVE ChainInv'
    <3>1. /\ net' = c /\ net = None /\ c \in Nat /\ c # None
          /\ UNCHANGED <<chain, height, edits>>
      BY <2>1, ChainAssumption, NoneAssumption DEF AdminCreateNetwork
    <3>2. chain = <<>> /\ height = 0 /\ Len(chain) = 0
      BY <3>1 DEF ChainInv
    <3>3. Final' <= Len(chain)'
      BY <3>1, <3>2 DEF Final
    <3> QED BY <3>1, <3>3 DEF ChainInv
  <2>2. ASSUME NEW w \in Wallets, AdminCreateWallet(w) PROVE ChainInv'
    BY <1>1, <2>2 DEF AdminCreateWallet
  <2>3. ASSUME NEW x \in Payments, Pay(x) PROVE ChainInv'
    <3>1. /\ chain' \in Seq(Payments) /\ Len(chain') = Len(chain) + 1
          /\ height' \in Nat /\ height <= height' /\ height' <= MaxBlocks
          /\ Len(chain') <= height'
          /\ height' = height \/ height' = Len(chain')
          /\ net # None
      BY <2>3, ChainSteps
    <3>2. net' = net /\ edits' = edits /\ Len(chain) + edits < MaxBlocks
      BY <2>3 DEF Pay
    <3>3. Final' <= Len(chain')
      BY <1>0, <3>1, <3>2 DEF Final, ChainInv
    <3>4. Len(chain') + edits' <= MaxBlocks
      BY <1>0, <3>1, <3>2
    <3> QED BY <3>1, <3>2, <3>3, <3>4 DEF ChainInv
  <2>4. CASE Reorg
    <3>1. /\ chain' \in Seq(Payments) /\ Len(chain') = Len(chain) - 1
          /\ height' = height /\ net # None /\ Final <= Len(chain')
      BY <2>4, ChainSteps
    <3>2. net' = net /\ edits' = edits
      BY <2>4 DEF Reorg
    <3>3. Len(chain') + edits' <= MaxBlocks /\ Len(chain') <= height' /\ height' <= MaxBlocks
      BY <1>0, <3>1, <3>2 DEF ChainInv
    <3>4. Final' = Final
      BY <3>1, <3>2 DEF Final
    <3> QED BY <3>1, <3>2, <3>3, <3>4 DEF ChainInv
  <2>5. ASSUME NEW i \in Invoices, AdminForceComplete(i) PROVE ChainInv'
    BY <1>1, <2>5 DEF AdminForceComplete
  <2>6. CASE AdminCreateToken \/ Tick \/ AdminCreateRpc
    BY <1>1, <2>6 DEF AdminCreateToken, Tick, AdminCreateRpc
  <2> QED BY <1>3, <2>1, <2>2, <2>3, <2>4, <2>5, <2>6 DEF OutsideStep
<1>4. ASSUME NEW r \in Requests, OpenStep(r) PROVE ChainInv'
  <2>1. /\ UNCHANGED <<net, chain, height>>
        /\ edits' = edits \/ (CanEdit /\ edits' = edits + 1)
    BY <1>4, OpenFrame
  <2>2. ASSUME NEW i \in Invoices, invoice[i] # None PROVE net # None
    <3>1. invoice[i].wallet \in Wallets
      BY <2>2 DEF TypeOK, InvoiceRow
    <3> QED BY <2>2, <3>1 DEF WalletInv, ChainInv
  <2>3. ASSUME NEW b \in 1 .. MaxBlocks, stored[b] # None PROVE net # None
    BY <2>3 DEF StoredInv
  <2>4. token => net # None
    BY DEF ChainInv
  <2>5. net # None
    <3>1. CASE \E i \in Invoices, address \in New \cup {None}, f \in Forms,
                  w \in Wallets, pay \in PayAmounts \cup {Amount} :
                    CreateInvoice(r, i, address, f, w, pay)
      BY <3>1 DEF CreateInvoice
    <3>2. CASE \E i \in Invoices : CancelInvoice(r, i)
      BY <2>2, <3>2 DEF CancelInvoice, Waiting
    <3>3. CASE \E i \in Invoices : ReconcileInvoice(r, i)
      BY <2>2, <3>3 DEF ReconcileInvoice
    <3>4. CASE ExpireDueInvoices(r)
      BY <2>2, <3>4 DEF ExpireDueInvoices, Due, Waiting
    <3>5. CASE ScanLoad(r) \/ TronLoad(r)
      BY <2>4, <3>5 DEF ScanLoad, TronLoad
    <3>6. CASE \E b \in 1 .. MaxBlocks : ReconcileTxHash(r, b)
      BY <2>3, <3>6 DEF ReconcileTxHash, Known
    <3> QED BY <1>4, <3>1, <3>2, <3>3, <3>4, <3>5, <3>6 DEF OpenStep
  <2> QED BY <1>1, <2>1, <2>5
<1>5. ASSUME NEW r \in Requests, LogStep(r) \/ Commit(r) \/ JobFails(r) PROVE ChainInv'
  <2>1. job[r] # None
    BY <1>5 DEF LogStep, Commit, JobFails, ScanTokenLog, IngestTronEvent, ReconcileLog, Running
  <2>2. UNCHANGED <<net, chain, height, edits>>
    BY <1>5, LogFrame DEF Commit
  <2> QED BY <1>1, <2>1, <2>2 DEF ChainInv
<1> QED BY <1>2, <1>3, <1>4, <1>5, NextCases

\* What a commit leaves and writes besides invoices, wallets and transfers.
LEMMA CommitRest ==
    ASSUME TypeOK, SessionsInv, NEW r \in Requests, Commit(r)
    PROVE  \E j \in Job :
             /\ j = job[r] /\ JobInv(j) /\ j.todo = <<>>
             /\ j.pairs \cap matches = {} /\ matches' = matches \cup j.pairs
             /\ credits' = credits \cup {CreditKey(p[1], p[2]) :
                                             p \in {q \in j.pairs : invoice[q[1]].vnd}}
             /\ callbacks' = callbacks \cup {x \in j.set \cup (Completes(j) \X {"completed"}) :
                                                 invoice[x[1]].hook}
             /\ cursor' = IF j.op = "scan" THEN j.to ELSE cursor
             /\ overlap' \in BOOLEAN
             /\ ~overlap' =>
                  /\ ~overlap
                  /\ \A w \in Wallets : j.read[w] # None /\ wallet[w] # None =>
                       wallet[w].count = j.read[w]
                  /\ \A i \in Closes(j) : Waiting(i)
             /\ UNCHANGED <<now, kind, net, token, rpc, chain, height, edits, sessions, byHand>>
<1>1. PICK j \in Job : j = job[r] /\ job[r] # None
  BY DEF Commit, TypeOK
<1>2. JobInv(j) /\ j.todo = <<>>
  BY <1>1 DEF SessionsInv, Commit
<1>3. /\ j.pairs \cap matches = {} /\ matches' = matches \cup j.pairs
      /\ credits' = credits \cup {CreditKey(p[1], p[2]) :
                                      p \in {q \in j.pairs : invoice[q[1]].vnd}}
      /\ callbacks' = callbacks \cup {x \in j.set \cup (Completes(j) \X {"completed"}) :
                                          invoice[x[1]].hook}
      /\ cursor' = IF j.op = "scan" THEN j.to ELSE cursor
  BY <1>1 DEF Commit
<1>4. overlap' = (overlap \/ (\E w \in {w \in Wallets : j.read[w] # None} :
                                 wallet[w] # None /\ wallet[w].count # j.read[w])
                   \/ \E i \in Completes(j) \cup {x[1] : x \in j.set} : ~Waiting(i))
  BY <1>1, Zenon DEF Commit
<1>5. overlap' \in BOOLEAN
  BY <1>4, Zenon
<1>6. ~overlap' => /\ ~overlap
                   /\ \A w \in Wallets : j.read[w] # None /\ wallet[w] # None =>
                        wallet[w].count = j.read[w]
                   /\ \A i \in Closes(j) : Waiting(i)
  BY <1>4, Zenon DEF Closes
<1>7. UNCHANGED <<now, kind, net, token, rpc, chain, height, edits, sessions, byHand>>
  BY DEF Commit, setup
<1> QED BY <1>1, <1>2, <1>3, <1>5, <1>6, <1>7

\* The rows after a commit are of their types.
LEMMA CommitTypes ==
    ASSUME TypeOK, ChainInv, SessionsInv, NEW r \in Requests, Commit(r)
    PROVE  /\ wallet' \in [Wallets -> WalletRow \cup {None}]
           /\ invoice' \in [Invoices -> InvoiceRow \cup {None}]
           /\ stored' \in [1 .. MaxBlocks -> TransferRow \cup {None}]
           /\ matches' \subseteq Invoices \X (1 .. MaxBlocks)
           /\ credits' \subseteq Seq(Invoices \cup (1 .. MaxBlocks))
           /\ callbacks' \subseteq Invoices \X Events
           /\ cursor' \in 0 .. MaxBlocks
<1> USE JobFields
<1>1. PICK j \in Job :
        /\ j = job[r] /\ JobInv(j) /\ j.todo = <<>>
        /\ matches' = matches \cup j.pairs
        /\ credits' = credits \cup {CreditKey(p[1], p[2]) :
                                        p \in {q \in j.pairs : invoice[q[1]].vnd}}
        /\ callbacks' = callbacks \cup {x \in j.set \cup (Completes(j) \X {"completed"}) :
                                            invoice[x[1]].hook}
        /\ cursor' = IF j.op = "scan" THEN j.to ELSE cursor
  BY CommitRest
<1>2. wallet' \in [Wallets -> WalletRow \cup {None}]
  <2>1. \A w \in Wallets : wallet'[w] \in WalletRow \cup {None}
    <3> SUFFICES ASSUME NEW w \in Wallets PROVE wallet'[w] \in WalletRow \cup {None}
      OBVIOUS
    <3>1. j.view[w] \in Nat /\ wallet[w] \in WalletRow \cup {None}
      BY <1>1 DEF JobInv, SlotInv, TypeOK
    <3>2. \/ wallet'[w] = wallet[w]
          \/ wallet'[w] = [count |-> j.view[w], max |-> Slots]
          \/ wallet[w] # None /\ wallet'[w] = [wallet[w] EXCEPT !.count = j.view[w]]
      BY <1>1, CommitRows
    <3> QED BY <3>1, <3>2, AmountsAssumption, SMTT(30) DEF WalletRow
  <2>2. DOMAIN wallet' = Wallets /\ wallet' = [w \in Wallets |-> wallet'[w]]
    BY DEF Commit
  <2> QED BY <2>1, <2>2
<1>3. invoice' \in [Invoices -> InvoiceRow \cup {None}]
  <2>1. \A i \in Invoices : invoice'[i] \in InvoiceRow \cup {None}
    <3> SUFFICES ASSUME NEW i \in Invoices PROVE invoice'[i] \in InvoiceRow \cup {None}
      OBVIOUS
    <3>1. CASE invoice[i] = None
      <4>1. invoice'[i] = j.new[i] \/ invoice'[i] = None
        BY <1>1, <3>1, CommitRows, ZenonT(30)
      <4> QED BY <1>1, <4>1, JobFields
    <3>2. CASE invoice[i] # None
      <4>1. invoice[i] \in InvoiceRow
        BY <3>2 DEF TypeOK
      <4>2. NewStatus(j, i) \in {"waiting", "completed", "canceled", "expired"}
        BY <1>1, <3>2, NewStatusFacts
      <4>3. invoice'[i] = [invoice[i] EXCEPT !.status = NewStatus(j, i)]
        BY <1>1, <3>2, CommitRows
      <4> QED BY <4>1, <4>2, <4>3 DEF InvoiceRow
    <3> QED BY <3>1, <3>2
  <2>2. DOMAIN invoice' = Invoices /\ invoice' = [i \in Invoices |-> invoice'[i]]
    BY DEF Commit
  <2> QED BY <2>1, <2>2
<1>4. stored' \in [1 .. MaxBlocks -> TransferRow \cup {None}]
  <2>1. \A b \in 1 .. MaxBlocks : stored'[b] \in TransferRow \cup {None}
    <3> SUFFICES ASSUME NEW b \in 1 .. MaxBlocks PROVE stored'[b] \in TransferRow \cup {None}
      OBVIOUS
    <3>1. CASE b \in Ins(j)
      <4>1. PICK y \in j.ins : y[1] = b
        BY <3>1 DEF Ins
      <4>2. stored'[b] = [to |-> y[3].to, amount |-> y[3].amount, time |-> y[2],
                          status |-> IF \E i \in Invoices : <<i, y[1]>> \in j.pairs
                                     THEN "matched" ELSE "confirmed"]
        BY <1>1, <4>1, CommitTransfers
      <4>3. y[3] \in Transfer /\ y[2] \in Nat \cup {None}
        BY <4>1, ChainAssumption
      <4>4. y[3].to \in Wallets /\ y[3].amount \in Nat
        BY <4>3 DEF Transfer
      <4> QED BY <4>2, <4>3, <4>4 DEF TransferRow
    <3>2. CASE b \notin Ins(j)
      <4>1. stored'[b] = IF \E i \in Invoices : <<i, b>> \in j.pairs
                         THEN [stored[b] EXCEPT !.status = "matched"] ELSE stored[b]
        BY <1>1, <3>2, CommitTransfers
      <4>2. (\E i \in Invoices : <<i, b>> \in j.pairs) => stored[b] # None
        BY <1>1, <3>2 DEF JobInv, PairInv, Ins
      <4>3. stored[b] \in TransferRow \cup {None}
        BY DEF TypeOK
      <4> QED BY <4>1, <4>2, <4>3 DEF TransferRow
    <3> QED BY <3>1, <3>2
  <2>2. DOMAIN stored' = 1 .. MaxBlocks /\ stored' = [b \in 1 .. MaxBlocks |-> stored'[b]]
    BY DEF Commit
  <2> QED BY <2>1, <2>2
<1>5. matches' \subseteq Invoices \X (1 .. MaxBlocks)
  <2>1. \A p \in j.pairs : p \in Invoices \X (1 .. MaxBlocks)
    <3> SUFFICES ASSUME NEW p \in j.pairs PROVE p \in Invoices \X (1 .. MaxBlocks)
      OBVIOUS
    <3>1. p \in Invoices \X Nat
      OBVIOUS
    <3>2. p[2] \in 1 .. MaxBlocks
      BY <1>1 DEF JobInv, PairInv, InsInv
    <3> QED BY <3>1, <3>2
  <2> QED BY <1>1, <2>1 DEF TypeOK
<1>6. credits' \subseteq Seq(Invoices \cup (1 .. MaxBlocks))
  <2>1. \A i \in Invoices : <<i>> \in Seq(Invoices \cup (1 .. MaxBlocks))
    OBVIOUS
  <2>2. \A p \in j.pairs : CreditKey(p[1], p[2]) \in Seq(Invoices \cup (1 .. MaxBlocks))
    BY <2>1 DEF CreditKey
  <2> QED BY <1>1, <2>2 DEF TypeOK
<1>7. callbacks' \subseteq Invoices \X Events
  <2>1. j.set \cup (Completes(j) \X {"completed"}) \subseteq Invoices \X Events
    BY DEF Completes, Events
  <2> QED BY <1>1, <2>1 DEF TypeOK
<1>8. cursor' \in 0 .. MaxBlocks
  BY <1>1 DEF TypeOK, JobInv, TodoInv, ScanInv
<1> QED BY <1>2, <1>3, <1>4, <1>5, <1>6, <1>7, <1>8

LEMMA TypeStep ==
    ASSUME TypeOK, ChainInv, WalletInv, PrefixInv, SessionsInv, [Next]_vars, ChainInv',
           job' \in [Requests -> Job \cup {None}]
    PROVE  TypeOK'
<1> USE DEF setup, tables
<1>0. chain' \in Seq(Transfer) /\ height' \in Nat
  <2>1. chain' \in Seq(Payments)
    BY DEF ChainInv
  <2>2. chain' \in Seq(Transfer)
    BY <2>1, ChainAssumption
  <2>3. height' \in Nat
    BY RowsStayStep DEF RowsStay
  <2> QED BY <2>2, <2>3
<1>1. ASSUME now' \in 0 .. MaxTime, kind' = kind, net' \in Confs \cup {None}, token' \in BOOLEAN,
             rpc' \in BOOLEAN, wallet' \in [Wallets -> WalletRow \cup {None}],
             invoice' \in [Invoices -> InvoiceRow \cup {None}],
             stored' \in [1 .. MaxBlocks -> TransferRow \cup {None}],
             matches' \subseteq Invoices \X (1 .. MaxBlocks),
             credits' \subseteq Seq(Invoices \cup (1 .. MaxBlocks)),
             callbacks' \subseteq Invoices \X Events, cursor' \in 0 .. MaxBlocks,
             edits' \in 0 .. MaxEdits, sessions' \in 0 .. MaxSessions, overlap' \in BOOLEAN,
             byHand' \subseteq 1 .. MaxBlocks
      PROVE  TypeOK'
  <2>1. kind' \in {"evm", "tron"}
    BY <1>1 DEF TypeOK
  <2> QED BY <1>0, <1>1, <2>1, Zenon DEF TypeOK
<1>2. CASE UNCHANGED vars
  BY <1>1, <1>2, Zenon DEF TypeOK, vars
<1>3. CASE OutsideStep
  <2>1. ASSUME NEW c \in Confs, AdminCreateNetwork(c) PROVE TypeOK'
    BY <1>1, <2>1, Zenon DEF TypeOK, AdminCreateNetwork
  <2>2. ASSUME NEW w \in Wallets, AdminCreateWallet(w) PROVE TypeOK'
    <3>1. wallet' \in [Wallets -> WalletRow \cup {None}]
      BY <2>2, AmountsAssumption DEF TypeOK, AdminCreateWallet, WalletRow
    <3> QED BY <1>1, <2>2, <3>1, Zenon DEF TypeOK, AdminCreateWallet
  <2>3. ASSUME NEW x \in Payments, Pay(x) PROVE TypeOK'
    BY <1>1, <2>3, Zenon DEF TypeOK, Pay
  <2>4. CASE Reorg
    BY <1>1, <2>4, Zenon DEF TypeOK, Reorg
  <2>5. ASSUME NEW i \in Invoices, AdminForceComplete(i) PROVE TypeOK'
    <3>1. invoice' \in [Invoices -> InvoiceRow \cup {None}]
      BY <2>5, SMTT(30) DEF TypeOK, AdminForceComplete, InvoiceRow
    <3>2. edits' \in 0 .. MaxEdits
      BY <2>5, BoundsAssumption DEF TypeOK, AdminForceComplete, CanEdit
    <3>3. overlap' \in BOOLEAN
      BY <2>5, Zenon DEF AdminForceComplete
    <3> QED BY <1>1, <2>5, <3>1, <3>2, <3>3, Zenon DEF TypeOK, AdminForceComplete
  <2>6. CASE AdminCreateToken
    BY <1>1, <2>6, Zenon DEF TypeOK, AdminCreateToken
  <2>7. CASE AdminCreateRpc
    BY <1>1, <2>7, Zenon DEF TypeOK, AdminCreateRpc
  <2>8. CASE Tick
    <3>1. now' \in 0 .. MaxTime
      BY <2>8, BoundsAssumption DEF TypeOK, Tick
    <3> QED BY <1>1, <2>8, <3>1, Zenon DEF TypeOK, Tick
  <2> QED BY <1>3, <2>1, <2>2, <2>3, <2>4, <2>5, <2>6, <2>7, <2>8 DEF OutsideStep
<1>4. ASSUME NEW r \in Requests, OpenStep(r) PROVE TypeOK'
  <2>1. UNCHANGED <<now, setup, tables, chain, height>>
    BY <1>4, OpenFrame
  <2>2. sessions' \in 0 .. MaxSessions
    BY <1>4, OpenFrame, BoundsAssumption DEF TypeOK
  <2>3. edits' \in 0 .. MaxEdits /\ byHand' \subseteq 1 .. MaxBlocks
    <3>1. \/ UNCHANGED <<edits, byHand>>
          \/ /\ CanEdit /\ edits' = edits + 1
             /\ \E S \in SUBSET (1 .. MaxBlocks) : byHand' = byHand \cup S
      BY <1>4, OpenFrame
    <3>2. byHand' \subseteq 1 .. MaxBlocks
      BY <3>1 DEF TypeOK
    <3>3. edits \in 0 .. MaxEdits /\ (edits' = edits \/ (edits < MaxEdits /\ edits' = edits + 1))
      BY <3>1 DEF TypeOK, CanEdit
    <3> QED BY <3>2, <3>3, BoundsAssumption
  <2> QED BY <1>1, <2>1, <2>2, <2>3, Zenon DEF TypeOK
<1>5. ASSUME NEW r \in Requests, LogStep(r) \/ JobFails(r) PROVE TypeOK'
  <2>1. UNCHANGED <<now, setup, tables, chain, height, edits, sessions, byHand>>
    BY <1>5, LogFrame
  <2> QED BY <1>1, <2>1, Zenon DEF TypeOK
<1>6. ASSUME NEW r \in Requests, Commit(r) PROVE TypeOK'
  <2>1. /\ UNCHANGED <<now, kind, net, token, rpc, chain, height, edits, sessions, byHand>>
        /\ overlap' \in BOOLEAN
    BY <1>6, CommitRest
  <2>2. /\ wallet' \in [Wallets -> WalletRow \cup {None}]
        /\ invoice' \in [Invoices -> InvoiceRow \cup {None}]
        /\ stored' \in [1 .. MaxBlocks -> TransferRow \cup {None}]
        /\ matches' \subseteq Invoices \X (1 .. MaxBlocks)
        /\ credits' \subseteq Seq(Invoices \cup (1 .. MaxBlocks))
        /\ callbacks' \subseteq Invoices \X Events
        /\ cursor' \in 0 .. MaxBlocks
    BY <1>6, CommitTypes
  <2> QED BY <1>1, <2>1, <2>2, Zenon DEF TypeOK
<1> QED BY <1>2, <1>3, <1>4, <1>5, <1>6, NextCases
-----------------------------------------------------------------------------
\* Only a commit writes transfers, matches, credits and the cursor.
LEMMA OnlyCommitWrites ==
    ASSUME [Next]_vars, \A r \in Requests : ~Commit(r)
    PROVE  UNCHANGED <<stored, matches, credits, cursor>>
<1>1. CASE OutsideStep \/ UNCHANGED vars
  BY <1>1, OutsideFrame DEF vars
<1>2. ASSUME NEW r \in Requests, OpenStep(r) PROVE UNCHANGED <<stored, matches, credits, cursor>>
  BY <1>2, OpenFrame DEF tables
<1>3. ASSUME NEW r \in Requests, LogStep(r) \/ JobFails(r)
      PROVE  UNCHANGED <<stored, matches, credits, cursor>>
  BY <1>3, LogFrame DEF tables
<1> QED BY <1>1, <1>2, <1>3, NextCases

\* A transfer that a commit stores is one its session inserted.
LEMMA NewTransfer ==
    ASSUME TypeOK, SessionsInv, NEW r \in Requests, Commit(r), NEW j \in Job, j = job[r],
           NEW b \in 1 .. MaxBlocks, stored[b] = None, stored'[b] # None
    PROVE  \E y \in j.ins : y[1] = b
<1>1. JobInv(j)
  BY CommitRest
<1>2. SUFFICES ASSUME b \notin Ins(j) PROVE FALSE
  BY DEF Ins
<1>3. \A i \in Invoices : <<i, b>> \notin j.pairs
  BY <1>1, <1>2 DEF JobInv, PairInv, Ins
<1> QED BY <1>1, <1>2, <1>3, CommitTransfers

\* What is stored stays final.
LEMMA StoredStep ==
    ASSUME TypeOK, ChainInv, StoredInv, SessionsInv, [Next]_vars
    PROVE  StoredInv'
<1>0. RowsStay
  BY RowsStayStep
<1>1. net # None => /\ net' = net /\ Final \in Int /\ Final' \in Int /\ Final <= Final'
  <2>1. net # None => net \in Nat
    BY ChainAssumption DEF TypeOK
  <2>2. height \in Nat /\ height' \in Nat /\ height <= height' /\ (net # None => net' = net)
    BY <1>0 DEF TypeOK, RowsStay
  <2> QED BY <2>1, <2>2 DEF Final
<1>2. ASSUME NEW b \in 1 .. MaxBlocks, stored'[b] # None
      PROVE  /\ net # None /\ b <= Final
             /\ stored'[b].to = chain[b].to /\ stored'[b].amount = chain[b].amount
  <2>1. CASE stored[b] # None
    BY <1>0, <2>1 DEF StoredInv, RowsStay
  <2>2. CASE stored[b] = None
    <3>1. PICK r \in Requests : Commit(r)
      BY <1>2, <2>2, OnlyCommitWrites
    <3>2. PICK j \in Job : j = job[r] /\ JobInv(j)
      BY <3>1, CommitRest
    <3>3. PICK y \in j.ins : y[1] = b
      BY <1>2, <2>2, <3>1, <3>2, NewTransfer
    <3>4. b <= Final /\ y[3] = chain[b]
      BY <3>2, <3>3 DEF JobInv, InsInv
    <3>5. stored'[b].to = y[3].to /\ stored'[b].amount = y[3].amount
      <4>1. stored'[y[1]] = [to |-> y[3].to, amount |-> y[3].amount, time |-> y[2],
                             status |-> IF \E i \in Invoices : <<i, y[1]>> \in j.pairs
                                        THEN "matched" ELSE "confirmed"]
        BY <3>1, <3>2, CommitTransfers
      <4> QED BY <3>3, <4>1
    <3>6. net # None
      BY <3>1, <3>2, NoneAssumption DEF ChainInv
    <3> QED BY <3>4, <3>5, <3>6
  <2> QED BY <2>1, <2>2
<1>3. ASSUME NEW b \in 1 .. MaxBlocks, stored'[b] # None
      PROVE  /\ net' # None /\ b <= Final'
             /\ stored'[b].to = chain'[b].to /\ stored'[b].amount = chain'[b].amount
  <2>1. chain'[b] = chain[b]
    BY <1>0, <1>2, <1>3 DEF RowsStay
  <2>2. b \in Int /\ b <= Final /\ net # None
    BY <1>2, <1>3, BoundsAssumption
  <2>3. b <= Final' /\ net' # None
    BY <1>1, <2>2
  <2> QED BY <1>2, <1>3, <2>1, <2>3
<1> QED BY <1>3 DEF StoredInv

\* The EVM watcher leaves no gap.
LEMMA PrefixStep ==
    ASSUME TypeOK, ChainInv, SessionsInv, PrefixInv, [Next]_vars
    PROVE  PrefixInv'
<1>0. RowsStay /\ kind' = kind
  BY RowsStayStep DEF RowsStay
<1>1. SUFFICES ASSUME kind = "evm"
               PROVE  /\ \A b, c \in 1 .. MaxBlocks : stored'[b] # None /\ c <= b => stored'[c] # None
                      /\ \A b \in 1 .. cursor' : stored'[b] # None
  BY <1>0 DEF PrefixInv
<1>2. CASE \A r \in Requests : ~Commit(r)
  <2>1. stored' = stored /\ cursor' = cursor
    BY <1>2, OnlyCommitWrites
  <2> QED BY <1>1, <2>1 DEF PrefixInv
<1>3. ASSUME NEW r \in Requests, Commit(r)
      PROVE  /\ \A b, c \in 1 .. MaxBlocks : stored'[b] # None /\ c <= b => stored'[c] # None
             /\ \A b \in 1 .. cursor' : stored'[b] # None
  <2>1. PICK j \in Job : /\ j = job[r] /\ JobInv(j) /\ j.todo = <<>>
                         /\ cursor' = IF j.op = "scan" THEN j.to ELSE cursor
    BY <1>3, CommitRest
  <2>2. \A b \in 1 .. MaxBlocks : stored[b] # None => stored'[b] # None
    BY <1>0 DEF RowsStay
  <2>3. \A b \in 1 .. MaxBlocks : b \in Ins(j) => stored'[b] # None
    <3> SUFFICES ASSUME NEW b \in 1 .. MaxBlocks, NEW y \in j.ins, y[1] = b PROVE stored'[b] # None
      BY DEF Ins
    <3>1. stored'[b] = [to |-> y[3].to, amount |-> y[3].amount, time |-> y[2],
                        status |-> IF \E i \in Invoices : <<i, y[1]>> \in j.pairs
                                   THEN "matched" ELSE "confirmed"]
      BY <1>3, <2>1, CommitTransfers
    <3>2. y[3] \in Transfer /\ y[2] \in Nat \cup {None}
      BY JobFields, ChainAssumption
    <3>3. stored'[b] \in TransferRow
      BY <3>1, <3>2 DEF Transfer, TransferRow
    <3> QED BY <3>3, NoneAssumption
  <2>4. CASE j.op = "scan"
    <3>1. /\ j.to \in 0 .. MaxBlocks /\ Len(j.todo) = 0
          /\ \A y \in j.ins : y[1] <= j.to
          /\ \A b \in 1 .. j.to : stored[b] # None \/ b \in Ins(j)
      <4>1. ScanInv(j) /\ Len(j.todo) = 0
        BY <2>1, <2>4 DEF JobInv, TodoInv
      <4>2. j.to - Len(j.todo) = j.to
        BY <4>1, JobFields
      <4> QED BY <4>1, <4>2 DEF ScanInv
    <3>2. \A b \in 1 .. j.to : b \in 1 .. MaxBlocks /\ stored'[b] # None
      <4>1. \A b \in 1 .. j.to : b \in 1 .. MaxBlocks
        BY <3>1, BoundsAssumption
      <4> QED BY <2>2, <2>3, <3>1, <4>1
    <3>3. ASSUME NEW b \in 1 .. MaxBlocks, NEW c \in 1 .. MaxBlocks, stored'[b] # None, c <= b
          PROVE  stored'[c] # None
      <4>1. CASE stored[b] # None
        BY <1>1, <2>2, <3>3, <4>1 DEF PrefixInv
      <4>2. CASE stored[b] = None
        <5>1. PICK y \in j.ins : y[1] = b
          BY <1>3, <2>1, <3>3, <4>2, NewTransfer
        <5>2. b <= j.to
          BY <3>1, <5>1
        <5>3. c \in 1 .. j.to
          BY <3>1, <3>3, <5>2, BoundsAssumption
        <5> QED BY <3>2, <5>3
      <4> QED BY <4>1, <4>2
    <3> QED BY <2>1, <2>4, <3>2, <3>3
  <2>5. CASE j.op # "scan"
    <3>1. j.ins = {}
      BY <1>1, <2>1, <2>5 DEF JobInv, InsInv, TodoInv, TronInv
    <3>2. \A b \in 1 .. MaxBlocks : stored'[b] # None => stored[b] # None
      BY <1>3, <2>1, <3>1, NewTransfer
    <3>3. cursor' = cursor /\ \A b \in 1 .. cursor : b \in 1 .. MaxBlocks
      BY <2>1, <2>5, BoundsAssumption DEF TypeOK
    <3> QED BY <1>1, <2>2, <3>2, <3>3 DEF PrefixInv
  <2> QED BY <2>4, <2>5
<1> QED BY <1>2, <1>3

\* An invoice is created with its wallet.
LEMMA WalletStep ==
    ASSUME TypeOK, ChainInv, SessionsInv, WalletInv, [Next]_vars
    PROVE  WalletInv'
<1>0. RowsStay
  BY RowsStayStep
<1>1. ASSUME NEW i \in Invoices, invoice'[i] # None, invoice[i] # None
      PROVE  wallet'[invoice'[i].wallet] # None
  <2>1. invoice'[i].wallet = invoice[i].wallet /\ invoice[i].wallet \in Wallets
    BY <1>0, <1>1 DEF RowsStay, TypeOK, InvoiceRow
  <2> QED BY <1>0, <1>1, <2>1 DEF WalletInv, RowsStay
<1>2. ASSUME NEW r \in Requests, Commit(r), NEW i \in Invoices, invoice'[i] # None, invoice[i] = None
      PROVE  wallet'[invoice'[i].wallet] # None
  <2>1. PICK j \in Job : j = job[r] /\ JobInv(j)
    BY <1>2, CommitRest
  <2>2. j.new[i] # None /\ invoice'[i] = j.new[i]
    BY <1>2, <2>1, CommitRows
  <2>3. PICK w \in Wallets : w = j.new[i].wallet
    BY <2>2, JobFields DEF InvoiceRow
  <2>4. j.read[w] # None /\ j.view[w] \in Nat
    BY <2>1, <2>2, <2>3 DEF JobInv, NewInv, SlotInv
  <2>5. wallet[w] = None => wallet'[w] = [count |-> j.view[w], max |-> Slots]
    BY <1>2, <2>1, <2>4, CommitRows
  <2>6. [count |-> j.view[w], max |-> Slots] \in WalletRow
    BY <2>4, AmountsAssumption DEF WalletRow
  <2>7. wallet'[w] # None
    BY <1>0, <2>5, <2>6, NoneAssumption DEF RowsStay
  <2> QED BY <2>2, <2>3, <2>7
<1>3. ASSUME \A r \in Requests : ~Commit(r), NEW i \in Invoices, invoice'[i] # None
      PROVE  invoice[i] # None
  <2>1. CASE UNCHANGED vars
    BY <1>3, <2>1 DEF vars
  <2>2. ASSUME NEW r \in Requests, OpenStep(r) PROVE invoice[i] # None
    BY <1>3, <2>2, OpenFrame DEF tables
  <2>3. ASSUME NEW r \in Requests, LogStep(r) \/ JobFails(r) PROVE invoice[i] # None
    BY <1>3, <2>3, LogFrame DEF tables
  <2>4. CASE OutsideStep
    <3>1. ASSUME NEW k \in Invoices, AdminForceComplete(k) PROVE invoice[i] # None
      BY <1>3, <3>1 DEF AdminForceComplete, TypeOK
    <3>2. CASE ~ \E k \in Invoices : AdminForceComplete(k)
      <4>1. invoice' = invoice
        BY <2>4, <3>2 DEF OutsideStep, AdminCreateNetwork, AdminCreateToken, Tick, Reorg,
                          AdminCreateWallet, AdminCreateRpc, Pay, tables
      <4> QED BY <1>3, <4>1
    <3> QED BY <3>1, <3>2
  <2> QED BY <1>3, <2>1, <2>2, <2>3, <2>4, NextCases
<1> QED BY <1>1, <1>2, <1>3 DEF WalletInv
-----------------------------------------------------------------------------
\* A pair that a commit stores: the transfer is marked and pays the invoice; it
\* was stored before only if an admin reconciled it.
LEMMA NewMatch ==
    ASSUME TypeOK, ChainInv, SessionsInv, RowsStay, NEW r \in Requests, Commit(r), NEW j \in Job,
           j = job[r], JobInv(j), NEW p \in j.pairs
    PROVE  /\ p[1] \in Invoices /\ invoice[p[1]] # None
           /\ stored'[p[2]] # None /\ stored'[p[2]].status = "matched"
           /\ Pays(p[1], stored[p[2]].to, stored[p[2]].amount, stored[p[2]].time)'
           /\ stored[p[2]] # None => p[2] \in byHand
           /\ p[2] \notin byHand => j.op \in {"scan", "tron"}
<1> USE JobFields
<1>0. p \in Invoices \X Nat /\ p[1] \in Invoices /\ p = <<p[1], p[2]>>
  OBVIOUS
<1>1. \E i \in Invoices : <<i, p[2]>> \in j.pairs
  BY <1>0
<1>2. ASSUME NEW to, NEW n, NEW t, Pays(p[1], to, n, t) PROVE Pays(p[1], to, n, t)'
  BY <1>0, <1>2 DEF Pays, RowsStay
<1>3. CASE j.op \in {"scan", "tron"}
  <2>1. PICK y \in j.ins : y[1] = p[2] /\ Pays(p[1], y[3].to, y[3].amount, y[2])
    BY <1>3 DEF JobInv, PairInv
  <2>2. stored'[p[2]] = [to |-> y[3].to, amount |-> y[3].amount, time |-> y[2], status |-> "matched"]
    <3>1. stored'[y[1]] = [to |-> y[3].to, amount |-> y[3].amount, time |-> y[2],
                           status |-> IF \E i \in Invoices : <<i, y[1]>> \in j.pairs
                                      THEN "matched" ELSE "confirmed"]
      BY CommitTransfers
    <3> QED BY <1>1, <2>1, <3>1
  <2>3. y[3] \in Transfer /\ y[2] \in Nat \cup {None}
    BY ChainAssumption
  <2>4. stored'[p[2]] \in TransferRow
    BY <2>2, <2>3 DEF Transfer, TransferRow
  <2>5. stored[p[2]] = None
    BY <2>1 DEF JobInv, InsInv
  <2>6. /\ stored'[p[2]].to = y[3].to /\ stored'[p[2]].amount = y[3].amount
        /\ stored'[p[2]].time = y[2] /\ stored'[p[2]].status = "matched"
    BY <2>2
  <2>7. Pays(p[1], stored[p[2]].to, stored[p[2]].amount, stored[p[2]].time)'
    BY <1>2, <2>1, <2>6 DEF Pays
  <2>8. invoice[p[1]] # None
    BY <2>1 DEF Pays
  <2> QED BY <1>0, <1>3, <2>4, <2>5, <2>6, <2>7, <2>8, NoneAssumption
<1>4. CASE j.op \notin {"scan", "tron"}
  <2>1. /\ p[2] \in 1 .. MaxBlocks /\ p[2] \in byHand /\ stored[p[2]] # None
        /\ Pays(p[1], stored[p[2]].to, stored[p[2]].amount, stored[p[2]].time)
    BY <1>4 DEF JobInv, PairInv
  <2>2. stored[p[2]] \in TransferRow
    BY <2>1 DEF TypeOK
  <2>3. p[2] \notin Ins(j)
    BY <2>1 DEF JobInv, InsInv, Ins
  <2>4. stored'[p[2]] = [stored[p[2]] EXCEPT !.status = "matched"]
    BY <1>1, <2>1, <2>3, CommitTransfers
  <2>5. stored'[p[2]] \in TransferRow
    BY <2>2, <2>4 DEF TransferRow
  <2>6. /\ stored'[p[2]].to = stored[p[2]].to /\ stored'[p[2]].amount = stored[p[2]].amount
        /\ stored'[p[2]].time = stored[p[2]].time /\ stored'[p[2]].status = "matched"
    BY <2>2, <2>4 DEF TransferRow
  <2>7. Pays(p[1], stored[p[2]].to, stored[p[2]].amount, stored[p[2]].time)'
    BY <1>2, <2>1, <2>6 DEF Pays
  <2>8. invoice[p[1]] # None
    BY <2>1 DEF Pays
  <2> QED BY <1>0, <2>1, <2>5, <2>6, <2>7, <2>8, NoneAssumption
<1> QED BY <1>3, <1>4

\* Matches are of payments, one for each transfer.
LEMMA MatchStep ==
    ASSUME TypeOK, ChainInv, SessionsInv, MatchInv, [Next]_vars
    PROVE  MatchInv'
<1>0. RowsStay
  BY RowsStayStep
<1>1. ASSUME NEW m \in matches
      PROVE  /\ stored'[m[2]] # None /\ stored'[m[2]].status = "matched"
             /\ Pays(m[1], stored[m[2]].to, stored[m[2]].amount, stored[m[2]].time)'
  <2>1. m[1] \in Invoices /\ m[2] \in 1 .. MaxBlocks
    BY DEF TypeOK
  <2>2. /\ stored[m[2]] # None /\ stored[m[2]].status = "matched"
        /\ Pays(m[1], stored[m[2]].to, stored[m[2]].amount, stored[m[2]].time)
    BY DEF MatchInv
  <2>3. /\ stored'[m[2]] # None /\ stored'[m[2]].to = stored[m[2]].to
        /\ stored'[m[2]].amount = stored[m[2]].amount /\ stored'[m[2]].time = stored[m[2]].time
        /\ stored'[m[2]].status = "matched"
    BY <1>0, <2>1, <2>2 DEF RowsStay
  <2> QED BY <1>0, <2>1, <2>2, <2>3 DEF Pays, RowsStay
<1>2. ASSUME NEW m \in matches, NEW n \in matches, m[2] = n[2], m[2] \notin byHand'
      PROVE  m = n
  BY <1>0, <1>2 DEF MatchInv, RowsStay
<1>3. CASE \A r \in Requests : ~Commit(r)
  <2>1. matches' = matches
    BY <1>3, OnlyCommitWrites
  <2> QED BY <1>1, <1>2, <2>1 DEF MatchInv
<1>4. ASSUME NEW r \in Requests, Commit(r) PROVE MatchInv'
  <2>1. PICK j \in Job : /\ j = job[r] /\ JobInv(j) /\ matches' = matches \cup j.pairs
                         /\ byHand' = byHand
    BY <1>4, CommitRest
  <2>2. ASSUME NEW p \in j.pairs
        PROVE  /\ stored'[p[2]] # None /\ stored'[p[2]].status = "matched"
               /\ Pays(p[1], stored[p[2]].to, stored[p[2]].amount, stored[p[2]].time)'
               /\ stored[p[2]] # None => p[2] \in byHand
               /\ p[2] \notin byHand => j.op \in {"scan", "tron"}
    BY <1>0, <1>4, <2>1, NewMatch
  <2>3. ASSUME NEW m \in matches', NEW n \in matches', m[2] = n[2], m[2] \notin byHand'
        PROVE  m = n
    <3>1. CASE m \in matches /\ n \in matches
      BY <1>2, <2>3, <3>1
    <3>2. CASE m \in j.pairs /\ n \in j.pairs
      BY <2>1, <2>2, <2>3, <3>2 DEF JobInv, PairInv
    <3>3. CASE m \in matches /\ n \in j.pairs
      BY <2>1, <2>2, <2>3, <3>3 DEF MatchInv
    <3>4. CASE m \in j.pairs /\ n \in matches
      BY <2>1, <2>2, <2>3, <3>4 DEF MatchInv
    <3> QED BY <2>1, <2>3, <3>1, <3>2, <3>3, <3>4
  <2> QED BY <1>1, <2>1, <2>2, <2>3 DEF MatchInv
<1> QED BY <1>3, <1>4

\* The history of overlaps only grows; a completed invoice stays so unless there
\* is one.
LEMMA CompletedStays ==
    ASSUME TypeOK, ChainInv, SessionsInv, [Next]_vars, NEW i \in Invoices, invoice[i] # None,
           overlap \/ invoice[i].status = "completed"
    PROVE  overlap' \/ invoice'[i].status = "completed"
<1> USE DEF setup, tables
<1>1. ASSUME UNCHANGED <<invoice, overlap>>
      PROVE  overlap' \/ invoice'[i].status = "completed"
  BY <1>1
<1>2. CASE UNCHANGED vars
  BY <1>1, <1>2 DEF vars
<1>3. CASE OutsideStep
  <2>1. CASE \E k \in Invoices : AdminForceComplete(k)
    BY <2>1 DEF AdminForceComplete
  <2>2. CASE ~ \E k \in Invoices : AdminForceComplete(k)
    <3>1. UNCHANGED <<invoice, overlap>>
      BY <1>3, <2>2 DEF OutsideStep, AdminCreateNetwork, AdminCreateToken, Tick, Reorg,
                        AdminCreateWallet, AdminCreateRpc, Pay
    <3> QED BY <1>1, <3>1
  <2> QED BY <2>1, <2>2
<1>4. ASSUME NEW r \in Requests, OpenStep(r) \/ LogStep(r) \/ JobFails(r)
      PROVE  overlap' \/ invoice'[i].status = "completed"
  BY <1>1, <1>4, OpenFrame, LogFrame
<1>5. ASSUME NEW r \in Requests, Commit(r)
      PROVE  overlap' \/ invoice'[i].status = "completed"
  <2>1. PICK j \in Job :
          /\ j = job[r] /\ JobInv(j)
          /\ ~overlap' => ~overlap /\ \A k \in Closes(j) : Waiting(k)
    BY <1>5, CommitRest
  <2>2. SUFFICES ASSUME ~overlap', invoice[i].status = "completed"
                 PROVE  invoice'[i].status = "completed"
    BY <2>1
  <2>3. i \notin Closes(j)
    BY <2>1, <2>2 DEF Waiting
  <2>4. NewStatus(j, i) = "completed"
    BY <2>1, <2>2, <2>3, NewStatusFacts
  <2>5. invoice'[i] = [invoice[i] EXCEPT !.status = NewStatus(j, i)] /\ invoice[i] \in InvoiceRow
    BY <1>5, <2>1, CommitRows DEF TypeOK
  <2> QED BY <2>4, <2>5 DEF InvoiceRow
<1> QED BY <1>2, <1>3, <1>4, <1>5, NextCases

\* Credits are for matched invoices.
LEMMA CreditStep ==
    ASSUME TypeOK, ChainInv, SessionsInv, MatchInv, CreditInv, [Next]_vars
    PROVE  CreditInv'
<1>0. RowsStay
  BY RowsStayStep
<1>1. ASSUME NEW k \in credits, matches \subseteq matches'
      PROVE  \E m \in matches' : k = <<m[1]>> /\ (overlap' \/ invoice'[m[1]].status = "completed")
  <2>1. PICK m \in matches : k = <<m[1]>> /\ (overlap \/ invoice[m[1]].status = "completed")
    BY DEF CreditInv
  <2>2. m[1] \in Invoices /\ invoice[m[1]] # None
    BY DEF TypeOK, MatchInv, Pays
  <2>3. overlap' \/ invoice'[m[1]].status = "completed"
    BY <2>1, <2>2, CompletedStays
  <2> QED BY <1>1, <2>1, <2>3
<1>2. CASE \A r \in Requests : ~Commit(r)
  <2>1. matches' = matches /\ credits' = credits
    BY <1>2, OnlyCommitWrites
  <2> QED BY <1>1, <2>1 DEF CreditInv
<1>3. ASSUME NEW r \in Requests, Commit(r) PROVE CreditInv'
  <2>1. PICK j \in Job :
          /\ j = job[r] /\ JobInv(j) /\ matches' = matches \cup j.pairs
          /\ credits' = credits \cup {CreditKey(p[1], p[2]) :
                                          p \in {q \in j.pairs : invoice[q[1]].vnd}}
    BY <1>3, CommitRest
  <2>2. ASSUME NEW p \in j.pairs
        PROVE  p \in matches' /\ invoice'[p[1]].status = "completed"
    <3>1. p[1] \in Invoices /\ invoice[p[1]] # None
      BY <1>0, <1>3, <2>1, NewMatch
    <3>2. NewStatus(j, p[1]) = "completed"
      BY <2>1, <3>1, NewStatusFacts DEF Completes
    <3>3. invoice'[p[1]] = [invoice[p[1]] EXCEPT !.status = NewStatus(j, p[1])]
          /\ invoice[p[1]] \in InvoiceRow
      <4>1. PICK i \in Invoices : i = p[1] /\ invoice[i] # None
        BY <3>1
      <4>2. invoice'[i] = [invoice[i] EXCEPT !.status = NewStatus(j, i)]
        BY <1>3, <2>1, <4>1, CommitRows
      <4> QED BY <4>1, <4>2 DEF TypeOK
    <3> QED BY <2>1, <3>2, <3>3 DEF InvoiceRow
  <2>3. \A k \in credits' : k \in credits \/ \E p \in j.pairs : k = <<p[1]>>
    BY <2>1 DEF CreditKey
  <2>4. ASSUME NEW k \in credits'
        PROVE  \E m \in matches' : k = <<m[1]>> /\ (overlap' \/ invoice'[m[1]].status = "completed")
    BY <1>1, <2>1, <2>2, <2>3
  <2> QED BY <2>4 DEF CreditInv
<1> QED BY <1>2, <1>3
-----------------------------------------------------------------------------
\* The open invoices of wallet w.
OpenAt(w) == {i \in Invoices : Waiting(i) /\ invoice[i].wallet = w}

\* The invoices a commit leaves open: without those it closes, with the one it
\* creates.
LEMMA OpenAfterCommit ==
    ASSUME TypeOK, SessionsInv, NEW r \in Requests, Commit(r), NEW j \in Job, j = job[r], JobInv(j),
           NEW w \in Wallets
    PROVE  OpenAt(w)' = (OpenAt(w) \ ClosedAt(j, w))
                        \cup {i \in Invoices : j.new[i] # None /\ j.new[i].wallet = w}
<1> USE JobFields
<1>1. ASSUME NEW i \in Invoices, invoice[i] # None
      PROVE  i \in OpenAt(w)' <=> i \in OpenAt(w) \ ClosedAt(j, w)
  <2>1. invoice[i] \in InvoiceRow
    BY <1>1 DEF TypeOK
  <2>2. invoice'[i] = [invoice[i] EXCEPT !.status = NewStatus(j, i)]
    BY <1>1, CommitRows
  <2>3. NewStatus(j, i) \in {"waiting", "completed", "canceled", "expired"}
        /\ (i \in Closes(j) => NewStatus(j, i) # "waiting")
        /\ (i \notin Closes(j) => NewStatus(j, i) = invoice[i].status)
    BY <1>1, NewStatusFacts
  <2>4. /\ invoice'[i] \in InvoiceRow /\ invoice'[i].status = NewStatus(j, i)
        /\ invoice'[i].wallet = invoice[i].wallet
    BY <2>1, <2>2, <2>3 DEF InvoiceRow
  <2>5. i \in OpenAt(w)' <=> NewStatus(j, i) = "waiting" /\ invoice[i].wallet = w
    BY <2>4, NoneAssumption DEF OpenAt, Waiting
  <2>6. i \in OpenAt(w) <=> invoice[i].status = "waiting" /\ invoice[i].wallet = w
    BY <1>1 DEF OpenAt, Waiting
  <2>7. i \in ClosedAt(j, w) <=> i \in Closes(j) /\ invoice[i].wallet = w
    BY DEF ClosedAt
  <2> QED BY <2>3, <2>5, <2>6, <2>7
<1>2. ASSUME NEW i \in Invoices, invoice[i] = None
      PROVE  i \in OpenAt(w)' <=> j.new[i] # None /\ j.new[i].wallet = w
  <2>1. CASE j.new[i] = None
    BY <1>2, <2>1, CommitRows DEF OpenAt, Waiting
  <2>2. CASE j.new[i] # None
    <3>1. invoice'[i] = j.new[i]
      BY <2>2, CommitRows, ZenonT(30)
    <3>2. j.new[i].status = "waiting"
      BY <2>2 DEF JobInv, NewInv
    <3> QED BY <2>2, <3>1, <3>2 DEF OpenAt, Waiting
  <2> QED BY <2>1, <2>2
<1>3. \A i \in Invoices : invoice[i] # None => j.new[i] = None
  BY CommitRows
<1>4. \A i \in Invoices : invoice[i] = None => i \notin OpenAt(w)
  BY DEF OpenAt, Waiting
<1>5. \A i : i \in OpenAt(w) \/ i \in OpenAt(w)' => i \in Invoices
  BY DEF OpenAt
<1> QED BY <1>1, <1>2, <1>3, <1>4, <1>5

\* The counter of a wallet follows its open invoices through a commit that
\* overlaps with no other.
LEMMA SlotsCommit ==
    ASSUME TypeOK, WalletInv, SessionsInv, SlotsAreOpenInvoices, NEW r \in Requests, Commit(r),
           ~overlap', NEW w \in Wallets, wallet'[w] # None
    PROVE  wallet'[w].count = Cardinality(OpenAt(w)')
<1> USE JobFields
<1>1. PICK j \in Job :
        /\ j = job[r] /\ JobInv(j) /\ ~overlap
        /\ \A v \in Wallets : j.read[v] # None /\ wallet[v] # None => wallet[v].count = j.read[v]
        /\ \A i \in Closes(j) : Waiting(i)
  BY CommitRest
<1> DEFINE N == {i \in Invoices : j.new[i] # None /\ j.new[i].wallet = w}
<1>2. OpenAt(w)' = (OpenAt(w) \ ClosedAt(j, w)) \cup N
  BY <1>1, OpenAfterCommit
<1>3. wallet[w] # None => wallet[w] \in WalletRow /\ wallet[w].count = Cardinality(OpenAt(w))
  BY <1>1 DEF SlotsAreOpenInvoices, OpenAt, TypeOK
<1>4. wallet[w] = None => OpenAt(w) = {}
  BY DEF WalletInv, OpenAt, Waiting
<1>5. IsFiniteSet(OpenAt(w)) /\ Cardinality(OpenAt(w)) \in Nat
  <2>1. OpenAt(w) \subseteq Invoices
    BY DEF OpenAt
  <2> QED BY <2>1, FS_Subset, FS_CardinalityType, InvoicesAssumption
<1>6. ClosedAt(j, w) \subseteq OpenAt(w)
  <2>1. Closes(j) \subseteq Invoices
    BY DEF Closes, Completes
  <2> QED BY <1>1, <2>1 DEF ClosedAt, OpenAt
<1>7. wallet'[w] = IF j.read[w] = None THEN wallet[w]
                   ELSE IF wallet[w] = None THEN [count |-> j.view[w], max |-> Slots]
                   ELSE IF j.view[w] = j.read[w] THEN wallet[w]
                   ELSE [wallet[w] EXCEPT !.count = j.view[w]]
  BY <1>1, CommitRows
<1>8. CASE j.read[w] = None
  <2>1. ClosedAt(j, w) = {} /\ N = {}
    BY <1>1, <1>8 DEF JobInv, SlotInv
  <2>2. OpenAt(w)' = OpenAt(w)
    BY <1>2, <2>1
  <2> QED BY <1>3, <1>7, <1>8, <2>2
<1>9. CASE j.read[w] # None
  <2>1. wallet'[w].count = j.view[w]
    <3>1. j.view[w] \in Int /\ j.read[w] \in Nat
      BY <1>9
    <3>2. CASE wallet[w] = None
      BY <1>7, <1>9, <3>2
    <3>3. CASE wallet[w] # None
      <4>1. wallet[w].count = j.read[w] /\ wallet[w] \in WalletRow
        BY <1>1, <1>3, <1>9, <3>3
      <4> QED BY <1>7, <1>9, <3>3, <4>1 DEF WalletRow
    <3> QED BY <3>2, <3>3
  <2>2. CASE j.op = "create"
    <3>1. j.view[w] = j.read[w] + 1 /\ (wallet[w] = None => j.read[w] = 0)
      BY <1>1, <1>9, <2>2 DEF JobInv, SlotInv
    <3>2. PICK i \in Invoices : j.new[i] # None /\ j.new[i].wallet = w
      BY <1>1, <1>9, <2>2 DEF JobInv, SlotInv
    <3>3. N = {i}
      BY <1>1, <3>2 DEF JobInv, NewInv
    <3>4. ClosedAt(j, w) = {}
      BY <1>1, <2>2 DEF JobInv, PairInv, SetInv, ClosedAt, Closes, Completes
    <3>5. i \notin OpenAt(w)
      <4>1. invoice[i] = None
        BY <1>1, <3>2, CommitRows, ZenonT(30)
      <4> QED BY <4>1 DEF OpenAt, Waiting
    <3>6. OpenAt(w)' = OpenAt(w) \cup {i}
      BY <1>2, <3>3, <3>4
    <3>7. Cardinality(OpenAt(w) \cup {i}) = Cardinality(OpenAt(w)) + 1
      BY <1>5, <3>5, FS_AddElement
    <3>8. j.read[w] = Cardinality(OpenAt(w))
      <4>1. CASE wallet[w] = None
        BY <1>4, <3>1, <4>1, FS_EmptySet
      <4>2. CASE wallet[w] # None
        BY <1>1, <1>3, <1>9, <4>2
      <4> QED BY <4>1, <4>2
    <3> QED BY <2>1, <3>1, <3>6, <3>7, <3>8
  <2>3. CASE j.op # "create"
    <3>1. N = {} /\ wallet[w] # None
      <4>1. N = {}
        BY <1>1, <2>3 DEF JobInv, NewInv
      <4>2. wallet[w] # None
        BY <1>1, <1>9, <2>3 DEF JobInv, SlotInv
      <4> QED BY <4>1, <4>2
    <3>2. j.read[w] = Cardinality(OpenAt(w))
      BY <1>1, <1>3, <1>9, <3>1
    <3>3. /\ IsFiniteSet(ClosedAt(j, w)) /\ Cardinality(ClosedAt(j, w)) \in Nat
          /\ Cardinality(ClosedAt(j, w)) <= Cardinality(OpenAt(w))
      BY <1>5, <1>6, FS_Subset, FS_CardinalityType
    <3>4. j.view[w] = Cardinality(OpenAt(w)) - Cardinality(ClosedAt(j, w))
      <4>1. j.view[w] = IF j.read[w] < Cardinality(ClosedAt(j, w)) THEN 0
                        ELSE j.read[w] - Cardinality(ClosedAt(j, w))
        BY <1>1, <1>9, <2>3 DEF JobInv, SlotInv
      <4> QED BY <1>5, <3>2, <3>3, <4>1
    <3>5. Cardinality(OpenAt(w) \ ClosedAt(j, w))
            = Cardinality(OpenAt(w)) - Cardinality(ClosedAt(j, w))
      <4>1. OpenAt(w) \cap ClosedAt(j, w) = ClosedAt(j, w)
        BY <1>6
      <4>2. Cardinality(OpenAt(w) \ ClosedAt(j, w))
              = Cardinality(OpenAt(w)) - Cardinality(OpenAt(w) \cap ClosedAt(j, w))
        BY <1>5, FS_Difference
      <4> QED BY <4>1, <4>2
    <3>6. OpenAt(w)' = OpenAt(w) \ ClosedAt(j, w)
      BY <1>2, <3>1
    <3> QED BY <2>1, <3>4, <3>5, <3>6
  <2> QED BY <2>2, <2>3
<1> QED BY <1>8, <1>9

LEMMA SlotsStep ==
    ASSUME TypeOK, WalletInv, SessionsInv, SlotsAreOpenInvoices, [Next]_vars
    PROVE  SlotsAreOpenInvoices'
<1> USE DEF setup, tables
<1>1. ASSUME UNCHANGED <<wallet, invoice, overlap>> PROVE SlotsAreOpenInvoices'
  BY <1>1 DEF SlotsAreOpenInvoices, Waiting
<1>2. CASE UNCHANGED vars
  BY <1>1, <1>2 DEF vars
<1>3. CASE OutsideStep
  <2>1. CASE \E i \in Invoices : AdminForceComplete(i)
    BY <2>1 DEF AdminForceComplete, SlotsAreOpenInvoices
  <2>2. ASSUME NEW w \in Wallets, AdminCreateWallet(w) PROVE SlotsAreOpenInvoices'
    <3>1. /\ wallet[w] = None /\ UNCHANGED <<invoice, overlap>>
          /\ wallet' = [wallet EXCEPT ![w] = [count |-> 0, max |-> Slots]]
      BY <2>2 DEF AdminCreateWallet
    <3>2. {i \in Invoices : Waiting(i) /\ invoice[i].wallet = w} = {}
      BY <3>1 DEF WalletInv, Waiting
    <3>3. wallet'[w].count = Cardinality({i \in Invoices : Waiting(i) /\ invoice[i].wallet = w})
      BY <3>1, <3>2, FS_EmptySet DEF TypeOK
    <3>4. \A v \in Wallets \ {w} : wallet'[v] = wallet[v]
      BY <3>1 DEF TypeOK
    <3> QED BY <3>1, <3>3, <3>4 DEF SlotsAreOpenInvoices, Waiting
  <2>3. CASE /\ ~ \E i \in Invoices : AdminForceComplete(i)
             /\ ~ \E w \in Wallets : AdminCreateWallet(w)
    <3>1. UNCHANGED <<wallet, invoice, overlap>>
      BY <1>3, <2>3 DEF OutsideStep, AdminCreateNetwork, AdminCreateToken, Tick, Reorg,
                        AdminCreateRpc, Pay
    <3> QED BY <1>1, <3>1
  <2> QED BY <2>1, <2>2, <2>3
<1>4. ASSUME NEW r \in Requests, OpenStep(r) \/ LogStep(r) \/ JobFails(r)
      PROVE  SlotsAreOpenInvoices'
  BY <1>1, <1>4, OpenFrame, LogFrame
<1>5. ASSUME NEW r \in Requests, Commit(r) PROVE SlotsAreOpenInvoices'
  <2>1. ASSUME ~overlap', NEW w \in Wallets, wallet'[w] # None
        PROVE  wallet'[w].count = Cardinality(OpenAt(w)')
    BY <1>5, <2>1, SlotsCommit
  <2> QED BY <2>1 DEF SlotsAreOpenInvoices, OpenAt
<1> QED BY <1>2, <1>3, <1>4, <1>5, NextCases
-----------------------------------------------------------------------------
\* Every step keeps the invariant.
LEMMA GatewayStep == GatewayInv /\ [Next]_vars => GatewayInv'
<1> SUFFICES ASSUME GatewayInv, [Next]_vars PROVE GatewayInv'
  OBVIOUS
<1> USE DEF GatewayInv
<1>1. SessionsInv' /\ job' \in [Requests -> Job \cup {None}]
  BY SessionsStep
<1>2. ChainInv'
  BY ChainStep
<1>3. TypeOK'
  BY <1>1, <1>2, TypeStep
<1>4. StoredInv' /\ WalletInv'
  BY StoredStep, WalletStep
<1>5. MatchInv' /\ CreditInv' /\ PrefixInv'
  BY MatchStep, CreditStep, PrefixStep
<1>6. SlotsAreOpenInvoices'
  BY SlotsStep
<1> QED BY <1>1, <1>2, <1>3, <1>4, <1>5, <1>6

LEMMA GatewayAlways == Spec => []GatewayInv
  BY GatewayInit, GatewayStep, PTL DEF Spec

\* Every table, session and counter of the gateway keeps its type: no counter
\* of a wallet becomes negative and no status leaves its range.
THEOREM GatewayTypeCorrect == Spec => []TypeOK
<1>1. GatewayInv => TypeOK
  BY DEF GatewayInv
<1> QED BY <1>1, GatewayAlways, PTL

\* What the invariant says of credits.
LEMMA CreditsFromInv == GatewayInv => CreditsHold
<1> SUFFICES ASSUME GatewayInv PROVE CreditsHold
  OBVIOUS
<1>0. TypeOK /\ MatchInv /\ CreditInv
  BY DEF GatewayInv
<1>1. CreditedOnce
  <2> SUFFICES ASSUME NEW i \in Invoices PROVE Cardinality({k \in credits : k[1] = i}) <= 1
    BY DEF CreditedOnce
  <2>1. {k \in credits : k[1] = i} \subseteq {<<i>>}
    <3>1. \A k \in credits : k = <<k[1]>>
      BY <1>0 DEF CreditInv
    <3> QED BY <3>1
  <2>2. IsFiniteSet({<<i>>}) /\ Cardinality({<<i>>}) = 1
    BY FS_Singleton
  <2> QED BY <2>1, <2>2, FS_Subset
<1>2. OnePaymentOneInvoice
  <2> SUFFICES ASSUME NEW b \in 1 .. MaxBlocks, b \notin byHand
               PROVE  Cardinality({i \in Invoices : <<i, b>> \in matches}) <= 1
    BY DEF OnePaymentOneInvoice
  <2> DEFINE S == {i \in Invoices : <<i, b>> \in matches}
  <2>1. \A i, k \in S : i = k
    <3> SUFFICES ASSUME NEW i \in S, NEW k \in S PROVE i = k
      OBVIOUS
    <3>1. <<i, b>> = <<k, b>>
      BY <1>0 DEF MatchInv
    <3> QED BY <3>1
  <2>2. CASE S = {}
    <3>1. \A T : T = {} => Cardinality(T) = 0
      BY FS_EmptySet
    <3>2. Cardinality(S) = 0
      BY <2>2, <3>1
    <3> QED BY <3>2
  <2>3. CASE S # {}
    <3>1. PICK i \in S : TRUE
      BY <2>3
    <3>2. S = {i}
      BY <2>1, <3>1
    <3>3. Cardinality({i}) = 1
      BY FS_Singleton
    <3>4. \A T : T = {i} => Cardinality(T) = 1
      BY <3>3
    <3>5. Cardinality(S) = 1
      BY <3>2, <3>4
    <3> QED BY <3>5
  <2> QED BY <2>2, <2>3
<1>3. CreditIsPaid
  <2> SUFFICES ASSUME NEW k \in credits
               PROVE  /\ \E b \in 1 .. MaxBlocks :
                           /\ <<k[1], b>> \in matches /\ stored[b].status = "matched"
                           /\ stored[b].to = invoice[k[1]].wallet
                           /\ stored[b].amount = invoice[k[1]].pay
                           /\ stored[b].time # None => stored[b].time <= invoice[k[1]].expires
                      /\ overlap \/ invoice[k[1]].status = "completed"
    BY DEF CreditIsPaid
  <2>1. PICK m \in matches : k = <<m[1]>> /\ (overlap \/ invoice[m[1]].status = "completed")
    BY <1>0 DEF CreditInv
  <2>2. k[1] = m[1] /\ m = <<m[1], m[2]>> /\ m[2] \in 1 .. MaxBlocks
    BY <1>0, <2>1 DEF TypeOK
  <2>3. /\ stored[m[2]].status = "matched"
        /\ Pays(m[1], stored[m[2]].to, stored[m[2]].amount, stored[m[2]].time)
    BY <1>0 DEF MatchInv
  <2>4. <<k[1], m[2]>> \in matches
    BY <2>2
  <2> QED BY <2>1, <2>2, <2>3, <2>4 DEF Pays
<1> QED BY <1>1, <1>2, <1>3 DEF CreditsHold

\* Whatever sessions of watchers, merchants and admins interleave, crash or are
\* repeated, an invoice is credited at most once, a transfer pays for one invoice
\* unless an admin reconciles it, and a credit is for a transfer of the right
\* amount to the right address in time (match_transfer,
\* credit_wallet_for_crypto_invoice).
THEOREM CreditsAreForPayments == Spec => []CreditsHold
  BY CreditsFromInv, GatewayAlways, PTL

\* The EVM cursor, written blindly by watchers that may overlap and roll back,
\* passes no transfer that is not stored, and what is stored the chain keeps
\* through every reorganisation (run_evm_once, ingest_tron_events).
THEOREM WatchersFollowTheChain == Spec => []ChainIsFollowed
<1>1. GatewayInv => ChainIsFollowed
  <2> SUFFICES ASSUME GatewayInv PROVE ChainIsFollowed
    OBVIOUS
  <2>1. NoTransferSkipped
    BY DEF GatewayInv, PrefixInv, NoTransferSkipped
  <2>2. StoredIsFinal
    <3> SUFFICES ASSUME NEW b \in 1 .. MaxBlocks, stored[b] # None
                 PROVE  /\ b <= Len(chain)
                        /\ stored[b].to = chain[b].to /\ stored[b].amount = chain[b].amount
      BY DEF StoredIsFinal
    <3>1. /\ net # None /\ b <= Final
          /\ stored[b].to = chain[b].to /\ stored[b].amount = chain[b].amount
      BY DEF GatewayInv, StoredInv
    <3>2. Final <= Len(chain) /\ Final \in Int /\ Len(chain) \in Nat /\ b \in Int
      BY <3>1, ChainAssumption, BoundsAssumption DEF GatewayInv, ChainInv, TypeOK, Final
    <3>3. b <= Len(chain)
      BY <3>1, <3>2
    <3> QED BY <3>1, <3>3
  <2> QED BY <2>1, <2>2 DEF ChainIsFollowed
<1> QED BY <1>1, GatewayAlways, PTL

\* As long as no two sessions overlap in a row and no invoice is completed by
\* hand, a wallet's counter is the number of its open invoices, through creation,
\* cancellation, expiry in bulk and payment (invoices.py, release_wallet_slot).
THEOREM CountersFollowOpenInvoices == Spec => []SlotsAreOpenInvoices
<1>1. GatewayInv => SlotsAreOpenInvoices
  BY DEF GatewayInv
<1> QED BY <1>1, GatewayAlways, PTL
=============================================================================
