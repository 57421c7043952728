--------------------------- MODULE CryptoInvoices ---------------------------
(***************************************************************************)
(* The crypto gateway: invoices that are paid by an exact amount to an     *)
(* address, the watchers that read transfers from a chain and match them   *)
(* with an invoice, the wallet credit of a completed invoice, and the      *)
(* routes of the merchant and the admin (packages/crypto, routes/crypto.py *)
(* and admin_crypto.py).                                                   *)
(*                                                                         *)
(* Every operation is a database session: it reads rows, changes them in   *)
(* memory or by flush, and its writes become visible with the commit.      *)
(* Nothing is locked against a read, so job holds what a session has read  *)
(* and is about to write.  One network with one token; its kind is EVM or  *)
(* TRON.  A transfer is named by its block; a block has one transfer.      *)
(***************************************************************************)
EXTENDS Integers, Sequences, FiniteSets

CONSTANTS
    Invoices,      \* pairs of merchant and request_id
    Wallets, System,   \* addresses; the ones an admin registers
    Requests,      \* concurrent sessions
    Amount,        \* the requested amount, in the token's smallest unit
    DustUnit, Dusts,   \* 10^-dust_precision in that unit, the random suffixes
    Slots,         \* max_active_invoices of a registered wallet
    Life,          \* expire_minutes
    Forms,         \* whether an invoice names an amount in dong, a callback URL
    Payments,      \* the transfers that may happen on the chain
    HasKeys,       \* the installation has Fernet keys
    Confs, Batch,  \* values of min_confirmations; scan_batch_size
    MaxTime, MaxBlocks, MaxEdits, MaxSessions,   \* bounds
    None

VARIABLES
    now, kind,
    net,               \* min_confirmations of the network's row, or None
    token, rpc,        \* do the rows exist
    wallet,            \* [count, max] or None
    invoice,           \* rows or None
    chain, height,     \* the chain, and the highest block it ever had
    stored,            \* crypto_chain_transfers by block, or None
    matches,           \* crypto_invoice_matches: <<invoice, block>>
    credits,           \* wallet transactions, by idempotency key
    callbacks,         \* crypto_callbacks: <<invoice, event>>
    cursor,            \* last_scanned_block
    job,
    edits, sessions,   \* manual changes and sessions so far
    overlap,           \* history: a session overwrote what another had changed
    byHand             \* history: the transfers an admin reconciled

vars == <<now, kind, net, token, rpc, wallet, invoice, chain, height, stored, matches,
          credits, callbacks, cursor, job, edits, sessions, overlap, byHand>>
setup == <<kind, net, token, rpc>>
tables == <<wallet, invoice, stored, matches, credits, callbacks, cursor, overlap>>

WalletRow == [count : Nat, max : Nat]
InvoiceRow == [wallet : Wallets, pay : Nat, vnd : BOOLEAN, hook : BOOLEAN,
               created : Nat, expires : Nat,
               status : {"waiting", "completed", "canceled", "expired"}]
Transfer == [to : Wallets, amount : Nat]
TransferRow == [to : Wallets, amount : Nat, time : Nat \cup {None},
                status : {"confirmed", "matched"}]
Events == {"completed", "canceled", "expired"}

\* A session: the blocks it still has to look at, the rows it inserted, the
\* pairs it matched, the statuses it set, the counter of every wallet it loaded
\* with its present value, the invoice it creates and the cursor it will write.
Job == [op : {"create", "cancel", "expire", "scan", "tron", "reconcile"},
        todo : Seq(Nat), ins : SUBSET (Nat \X (Nat \cup {None}) \X Payments), pairs : SUBSET (Invoices \X Nat),
        set : SUBSET (Invoices \X Events), read : [Wallets -> Nat \cup {None}],
        view : [Wallets -> Int], new : [Invoices -> InvoiceRow \cup {None}], to : Nat]

ASSUME InvoicesAssumption == IsFiniteSet(Invoices) /\ Forms \subseteq [vnd : BOOLEAN, hook : BOOLEAN]
ASSUME AmountsAssumption ==
    /\ Amount \in Nat /\ DustUnit \in Nat \ {0} /\ Dusts \subseteq Nat
    /\ Slots \in Nat /\ Life \in Nat
ASSUME ChainAssumption ==
    Payments \subseteq Transfer /\ Confs \subseteq Nat /\ Batch \in Nat \ {0}
ASSUME BoundsAssumption ==
    MaxTime \in Nat /\ MaxBlocks \in Nat /\ MaxEdits \in Nat /\ MaxSessions \in Nat
ASSUME NoneAssumption ==
    None \notin Nat \cup Wallets \cup WalletRow \cup InvoiceRow \cup TransferRow \cup Job

TypeOK ==
    /\ now \in 0 .. MaxTime /\ kind \in {"evm", "tron"}
    /\ net \in Confs \cup {None} /\ token \in BOOLEAN /\ rpc \in BOOLEAN
    /\ wallet \in [Wallets -> WalletRow \cup {None}]
    /\ invoice \in [Invoices -> InvoiceRow \cup {None}]
    /\ chain \in Seq(Transfer) /\ height \in Nat
    /\ stored \in [1 .. MaxBlocks -> TransferRow \cup {None}]
    /\ matches \subseteq Invoices \X (1 .. MaxBlocks)
    /\ credits \subseteq Seq(Invoices \cup (1 .. MaxBlocks))
    /\ callbacks \subseteq Invoices \X Events
    /\ cursor \in 0 .. MaxBlocks
    /\ job \in [Requests -> Job \cup {None}]
    /\ edits \in 0 .. MaxEdits /\ sessions \in 0 .. MaxSessions /\ overlap \in BOOLEAN /\ byHand \subseteq 1 .. MaxBlocks

Init ==
    /\ now = 0 /\ kind \in {"evm", "tron"}
    /\ net = None /\ token = FALSE /\ rpc = FALSE
    /\ wallet = [w \in Wallets |-> None]
    /\ invoice = [i \in Invoices |-> None]
    /\ chain = <<>> /\ height = 0
    /\ stored = [b \in 1 .. MaxBlocks |-> None]
    /\ matches = {} /\ credits = {} /\ callbacks = {}
    /\ cursor = 0
    /\ job = [r \in Requests |-> None]
    /\ edits = 0 /\ sessions = 0 /\ overlap = FALSE /\ byHand = {}
-----------------------------------------------------------------------------
\* The configuration; a row that exists is refused by a unique constraint.
AdminCreateNetwork(c) ==
    /\ net = None /\ net' = c
    /\ UNCHANGED <<now, kind, token, rpc, tables, chain, height, job, edits, sessions, byHand>>

AdminCreateToken ==
    /\ net # None /\ ~token /\ token' = TRUE
    /\ UNCHANGED <<now, kind, net, rpc, tables, chain, height, job, edits, sessions, byHand>>

AdminCreateWallet(w) ==
    /\ net # None /\ w \in System /\ wallet[w] = None
    /\ wallet' = [wallet EXCEPT ![w] = [count |-> 0, max |-> Slots]]
    /\ UNCHANGED <<now, setup, invoice, stored, matches, credits, callbacks, cursor, overlap,
                   chain, height, job, edits, sessions, byHand>>

AdminCreateRpc ==
    /\ net # None /\ kind = "evm" /\ ~rpc /\ rpc' = TRUE
    /\ UNCHANGED <<now, kind, net, token, tables, chain, height, job, edits, sessions, byHand>>
-----------------------------------------------------------------------------
Idle == [op |-> "create", todo |-> <<>>, ins |-> {}, pairs |-> {}, set |-> {},
         read |-> [w \in Wallets |-> None], view |-> [w \in Wallets |-> 0],
         new |-> [i \in Invoices |-> None], to |-> 0]

Open(r, j) ==
    /\ job[r] = None /\ sessions < MaxSessions
    /\ job' = [job EXCEPT ![r] = j]
    /\ sessions' = sessions + 1
    /\ UNCHANGED <<now, setup, tables, chain, height>>

Running(r, ops) == job[r] # None /\ job[r].op \in ops

Waiting(i) == invoice[i] # None /\ invoice[i].status = "waiting"

\* session.get(CryptoWallet) reads the row once per session; then the counter is
\* changed in Python.
Count(j, w) == IF j.read[w] = None THEN wallet[w].count ELSE j.view[w]
Counter(j, w, d) ==
    [j EXCEPT !.read[w] = IF @ = None THEN wallet[w].count ELSE @, !.view[w] = Count(j, w) + d]

\* Mutant: the slot is not given back.
ReleaseSlotForgotten(j, i) == j
\* Mutant: the counter may fall below zero.
ReleaseSlotUnguarded(j, i) == Counter(j, invoice[i].wallet, -1)
\* release_wallet_slot.
ReleaseSlot(j, i) ==
    LET w == invoice[i].wallet
    IN  IF Count(j, w) > 0 THEN Counter(j, w, -1) ELSE Counter(j, w, 0)

\* _suffix_amount: cut to the dust unit, then a random number of units more.
PayAmounts == {(Amount \div DustUnit) * DustUnit + s * DustUnit : s \in Dusts}

\* choose_wallet: the given address, registered on the way, whatever its number
\* of invoices; else the wallet with the fewest open invoices below its limit,
\* whoever owns it.
Free == {w \in Wallets : wallet[w] # None /\ wallet[w].count < wallet[w].max}
ChooseWallet(address) ==
    IF address # None THEN {address}
    ELSE {w \in Free : \A v \in Free : wallet[w].count <= wallet[v].count}

\* create_invoice.  A request_id that exists returns its invoice, or an error if
\* the payload differs: nothing changes.
CreateInvoice(r, i, address, f, w, pay) ==
    LET row == [wallet |-> w, pay |-> pay, vnd |-> f.vnd, hook |-> f.hook, created |-> now,
                expires |-> now + Life, status |-> "waiting"]
        old == IF wallet[w] = None THEN 0 ELSE wallet[w].count
    IN  /\ invoice[i] = None
        /\ net # None /\ token
        /\ w \in ChooseWallet(address)
        /\ pay \in IF address = None THEN PayAmounts ELSE {Amount}
        /\ Open(r, [Idle EXCEPT !.new[i] = row, !.read[w] = old, !.view[w] = old + 1])
        /\ UNCHANGED <<edits, byHand>>

\* cancel_invoice.
CancelInvoice(r, i) ==
    /\ Waiting(i)
    /\ Open(r, [ReleaseSlot(Idle, i) EXCEPT !.op = "cancel", !.set = {<<i, "canceled">>}])
    /\ UNCHANGED <<edits, byHand>>

\* expire_due_invoices; its caller is outside the repository.  With two due
\* invoices it frees two slots of one loaded wallet row.
Due == {i \in Invoices : Waiting(i) /\ invoice[i].expires < now}
ExpireDueInvoices(r) ==
    /\ Due # {}
    /\ Open(r, [Idle EXCEPT
         !.op = "expire", !.set = {<<i, "expired">> : i \in Due},
         !.read = [w \in Wallets |-> IF \E i \in Due : invoice[i].wallet = w
                                     THEN wallet[w].count ELSE None],
         !.view = [w \in Wallets |->
             LET n == Cardinality({i \in Due : invoice[i].wallet = w})
             IN  IF wallet[w] = None THEN 0
                 ELSE IF wallet[w].count < n THEN 0 ELSE wallet[w].count - n]])
    /\ UNCHANGED <<edits, byHand>>
-----------------------------------------------------------------------------
\* The chain: a block is added, or the newest ones are replaced, never one that
\* has min_confirmations blocks on top.
Pay(x) ==
    /\ Len(chain) + edits < MaxBlocks /\ wallet[x.to] # None
    /\ chain' = Append(chain, x)
    /\ height' = IF Len(chain) + 1 > height THEN Len(chain) + 1 ELSE height
    /\ UNCHANGED <<now, setup, tables, job, edits, sessions, byHand>>
Reorg ==
    /\ Len(chain) > 0 /\ Len(chain) > height - net
    /\ chain' = SubSeq(chain, 1, Len(chain) - 1)
    /\ UNCHANGED <<now, setup, height, tables, job, edits, sessions, byHand>>

\* Mutant: the first block of the batch is left out.
BlocksAfter(a, b) == [k \in 1 .. b - a |-> a + k]
\* The blocks from a to b, in order.
Blocks(a, b) == [k \in 1 .. b - a + 1 |-> a + k - 1]

\* Mutant: the newest blocks are scanned too.
ScanToUnconfirmed(from) == IF Len(chain) < from + Batch - 1 THEN Len(chain) ELSE from + Batch - 1
\* finalized, and the end of the batch.
ScanTo(from) ==
    LET finalized == IF Len(chain) > net THEN Len(chain) - net ELSE 0
    IN  IF finalized < from + Batch - 1 THEN finalized ELSE from + Batch - 1

\* run_evm_once up to the answer of eth_getLogs.  eth_blockNumber is asked with
\* the stored URL, which fails if it is encrypted, as it is with Fernet keys.
ScanLoad(r) ==
    LET from == cursor + 1 IN
    /\ kind = "evm" /\ token /\ rpc /\ ~HasKeys
    /\ ScanTo(from) >= from
    /\ Open(r, [Idle EXCEPT !.op = "scan", !.todo = Blocks(from, ScanTo(from)), !.to = ScanTo(from)])
    /\ UNCHANGED <<edits, byHand>>

\* ingest_tron_events: a list of confirmed events, the newest first, which
\* also names events that are known.
TronLoad(r) ==
    LET last == Len(chain) - net IN
    /\ kind = "tron" /\ token /\ last >= 1
    /\ Open(r, [Idle EXCEPT !.op = "tron", !.todo = [k \in 1 .. last |-> last + 1 - k]])
    /\ UNCHANGED <<edits, byHand>>

\* Mutant: the amount is not compared.
PayableAnyAmount(j, x, t) ==
    {i \in Invoices : /\ Waiting(i) /\ \A b \in 1 .. MaxBlocks : <<i, b>> \notin j.pairs
                      /\ invoice[i].wallet = x.to
                      /\ invoice[i].created <= t /\ t <= invoice[i].expires}
\* The invoices match_transfer takes first.
Payable(j, x, t) ==
    {i \in Invoices : /\ Waiting(i) /\ \A b \in 1 .. MaxBlocks : <<i, b>> \notin j.pairs
                      /\ invoice[i].wallet = x.to /\ invoice[i].pay = x.amount
                      /\ invoice[i].created <= t /\ t <= invoice[i].expires}
Oldest(S) == {i \in S : \A k \in S : invoice[i].created <= invoice[k].created}

\* match_transfer within session j.  The amount equals pay_amount, so the
\* invoice is completed at once and "partial" never occurs.
MatchTransfer(j, b, x, t) ==
    LET S == Oldest(Payable(j, x, t))
    IN  IF S = {} THEN {j}
        ELSE {IF <<i, b>> \in matches THEN j
              ELSE [ReleaseSlot(j, i) EXCEPT !.pairs = @ \cup {<<i, b>>}] : i \in S}

\* Mutant: a log that was stored already is taken as new.
KnownNever(b) == FALSE
\* uq_crypto_transfer_log.
Known(b) == stored[b] # None

\* One log of the watcher: insert, flush, match.  A known one rolls back the
\* whole session and goes on with the next.  An insert waits for a session that
\* has inserted the same transfer.
WatchLog(r, time) ==
    LET j == job[r]
        b == Head(j.todo)
        x == chain[b]
        rest == [j EXCEPT !.todo = Tail(j.todo)]
    IN  /\ j.todo # <<>> /\ b <= Len(chain)
        /\ \A q \in Requests \ {r} : job[q] # None => \A y \in job[q].ins : y[1] # b
        /\ job' \in {[job EXCEPT ![r] = k] :
             k \in IF Known(b) THEN {[Idle EXCEPT !.op = j.op, !.todo = rest.todo, !.to = j.to]}
                   ELSE MatchTransfer([rest EXCEPT !.ins = @ \cup {<<b, time, x>>}], b, x, now)}
        /\ UNCHANGED <<now, setup, tables, chain, height, edits, sessions, byHand>>

CanEdit == edits < MaxEdits /\ Len(chain) + edits < MaxBlocks

\* scan_token_logs takes the time of the scan as block_time, ingest_tron_events none.
ScanTokenLog(r) == Running(r, {"scan"}) /\ WatchLog(r, now)
IngestTronEvent(r) == Running(r, {"tron"}) /\ WatchLog(r, None)

\* admin_reconcile with an invoice: the transfers of its amount that are not
\* matched; with a hash: the transfer, matched or not.
ReconcileInvoice(r, i) ==
    LET S == {b \in 1 .. MaxBlocks : /\ Known(b) /\ stored[b].status = "confirmed"
                                     /\ stored[b].to = invoice[i].wallet
                                     /\ stored[b].amount = invoice[i].pay}
    IN  /\ CanEdit /\ invoice[i] # None /\ S # {}
        /\ \E f \in [1 .. Cardinality(S) -> S] :
             /\ \A b \in S : \E k \in DOMAIN f : f[k] = b
             /\ Open(r, [Idle EXCEPT !.op = "reconcile", !.todo = f])
        /\ edits' = edits + 1 /\ byHand' = byHand \cup S

ReconcileTxHash(r, b) ==
    /\ CanEdit /\ Known(b)
    /\ Open(r, [Idle EXCEPT !.op = "reconcile", !.todo = <<b>>])
    /\ edits' = edits + 1 /\ byHand' = byHand \cup {b}

ReconcileLog(r) ==
    LET j == job[r]
        b == Head(j.todo)
        t == IF stored[b].time = None THEN now ELSE stored[b].time
    IN  /\ Running(r, {"reconcile"}) /\ j.todo # <<>>
        /\ job' \in {[job EXCEPT ![r] = k] :
                        k \in MatchTransfer([j EXCEPT !.todo = Tail(@)], b, stored[b], t)}
        /\ UNCHANGED <<now, setup, tables, chain, height, edits, sessions, byHand>>

\* admin_force_complete_invoice: the status only; no slot, credit or callback.
AdminForceComplete(i) ==
    /\ CanEdit /\ invoice[i] # None /\ invoice[i].status # "completed"
    /\ invoice' = [invoice EXCEPT ![i].status = "completed"]
    /\ edits' = edits + 1 /\ overlap' = TRUE
    /\ UNCHANGED <<now, setup, wallet, stored, matches, credits, callbacks, cursor,
                   chain, height, job, sessions, byHand>>
-----------------------------------------------------------------------------
\* Mutant: the key names the transfer instead of the invoice.
CreditKeyByTransfer(i, b) == <<i, b>>
\* credit_wallet_for_crypto_invoice: "crypto-topup:{invoice.id}".
CreditKey(i, b) == <<i>>

\* The invoices a session completes, and all whose status it writes.
Completes(j) == {p[1] : p \in j.pairs}
NewStatus(j, i) ==
    IF i \in Completes(j) THEN "completed"
    ELSE IF \E e \in Events : <<i, e>> \in j.set THEN (CHOOSE x \in j.set : x[1] = i)[2]
    ELSE invoice[i].status

\* The commit at the end of a route or a watcher run.  A wallet registered on
\* the way, a request_id or a match that another session has inserted
\* meanwhile violates a unique constraint: see JobFails.
Commit(r) ==
    LET j == job[r]
        blk(b) == {y \in j.ins : y[1] = b}
        used == {w \in Wallets : j.read[w] # None}
        made == {i \in Invoices : j.new[i] # None}
    IN  /\ job[r] # None /\ j.todo = <<>>
        /\ \A i \in made : invoice[i] = None
        /\ j.pairs \cap matches = {}
        /\ invoice' = [i \in Invoices |->
             IF i \in made THEN j.new[i]
             ELSE IF invoice[i] = None THEN None
             ELSE [invoice[i] EXCEPT !.status = NewStatus(j, i)]]
        /\ wallet' = [w \in Wallets |->
             IF w \notin used THEN wallet[w]
             ELSE IF wallet[w] = None THEN [count |-> j.view[w], max |-> Slots]
             ELSE IF j.view[w] = j.read[w] THEN wallet[w]
             ELSE [wallet[w] EXCEPT !.count = j.view[w]]]
        /\ stored' = [b \in 1 .. MaxBlocks |->
             LET row == IF blk(b) = {} THEN stored[b]
                        ELSE LET y == CHOOSE y \in blk(b) : TRUE
                             IN  [to |-> y[3].to, amount |-> y[3].amount, status |-> "confirmed",
                                  time |-> y[2]]
             IN  IF \E i \in Invoices : <<i, b>> \in j.pairs THEN [row EXCEPT !.status = "matched"]
                 ELSE row]
        /\ matches' = matches \cup j.pairs
        /\ credits' = credits \cup {CreditKey(p[1], p[2]) : p \in {q \in j.pairs : invoice[q[1]].vnd}}
        /\ callbacks' = callbacks \cup {x \in j.set \cup (Completes(j) \X {"completed"}) :
                                            invoice[x[1]].hook}
        /\ cursor' = IF j.op = "scan" THEN j.to ELSE cursor
        /\ overlap' = (overlap \/ (\E w \in used : wallet[w] # None /\ wallet[w].count # j.read[w])
                        \/ \E i \in Completes(j) \cup {x[1] : x \in j.set} : ~Waiting(i))
        /\ job' = [job EXCEPT ![r] = None]
        /\ UNCHANGED <<now, setup, chain, height, edits, sessions, byHand>>

\* An error of the RPC, a unique constraint, a crash: nothing is written.
JobFails(r) ==
    /\ job[r] # None
    /\ job' = [job EXCEPT ![r] = None]
    /\ UNCHANGED <<now, setup, tables, chain, height, edits, sessions, byHand>>

Tick == now < MaxTime /\ now' = now + 1
        /\ UNCHANGED <<setup, tables, chain, height, job, edits, sessions, byHand>>
-----------------------------------------------------------------------------
\* The addresses merchants give are new ones; a second invoice may use them.
New == {w \in Wallets : wallet[w] = None}

Next ==
    \/ \E c \in Confs : AdminCreateNetwork(c)
    \/ AdminCreateToken \/ Tick \/ Reorg
    \/ \E w \in Wallets : AdminCreateWallet(w)
    \/ AdminCreateRpc
    \/ \E x \in Payments : Pay(x)
    \/ \E r \in Requests :
         \/ \E i \in Invoices, address \in New \cup {None}, f \in Forms,
               w \in Wallets, pay \in PayAmounts \cup {Amount} :
                 CreateInvoice(r, i, address, f, w, pay)
         \/ \E i \in Invoices : CancelInvoice(r, i) \/ ReconcileInvoice(r, i)
         \/ ExpireDueInvoices(r) \/ ScanLoad(r) \/ TronLoad(r)
         \/ ScanTokenLog(r) \/ IngestTronEvent(r) \/ ReconcileLog(r)
         \/ \E b \in 1 .. MaxBlocks : ReconcileTxHash(r, b)
         \/ Commit(r) \/ JobFails(r)
    \/ \E i \in Invoices : AdminForceComplete(i)

Spec == Init /\ [][Next]_vars
-----------------------------------------------------------------------------
\* An invoice is credited at most once, also when two sessions match it with
\* two transfers of the same amount at the same time (topup.py).
CreditedOnce ==
    \A i \in Invoices : Cardinality({k \in credits : k[1] = i}) <= 1

\* A transfer pays for one invoice, whatever watchers run at the same time and
\* however often they are given it; only a reconcile by an admin can use it for
\* another one (match_transfer does not look at the transfer's status).
OnePaymentOneInvoice ==
    \A b \in 1 .. MaxBlocks :
        Cardinality({i \in Invoices : <<i, b>> \in matches}) <= 1 \/ b \in byHand

\* The wallet's counter is the number of its open invoices, as long as no two
\* sessions overlap in a row and no invoice is completed by hand (invoices.py,
\* choose_wallet reads it).
SlotsAreOpenInvoices ==
    ~overlap => \A w \in Wallets : wallet[w] # None =>
        wallet[w].count = Cardinality({i \in Invoices : Waiting(i) /\ invoice[i].wallet = w})

\* The EVM cursor passes no transfer that is not stored, although it is written
\* blindly, may go back and a batch may roll back (run_evm_once).
NoTransferSkipped ==
    kind = "evm" => \A b \in 1 .. cursor : stored[b] # None

\* A stored transfer is one the chain has and will keep (min_confirmations).
StoredIsFinal ==
    \A b \in 1 .. MaxBlocks : stored[b] # None =>
        /\ b <= Len(chain)
        /\ stored[b].to = chain[b].to /\ stored[b].amount = chain[b].amount

\* Money and status agree: a credited invoice has a transfer of its amount, made
\* to its address and seen before it ran out, and is completed unless sessions
\* overlapped.
CreditIsPaid ==
    \A k \in credits :
        /\ \E b \in 1 .. MaxBlocks :
             /\ <<k[1], b>> \in matches /\ stored[b].status = "matched"
             /\ stored[b].to = invoice[k[1]].wallet /\ stored[b].amount = invoice[k[1]].pay
             /\ stored[b].time # None => stored[b].time <= invoice[k[1]].expires
        /\ overlap \/ invoice[k[1]].status = "completed"

\* Money is credited once, for one transfer, and for a payment that was made
\* (topup.py, match_transfer).
CreditsHold == CreditedOnce /\ OnePaymentOneInvoice /\ CreditIsPaid

\* The watchers follow the chain: nothing final is passed over, nothing is
\* stored that the chain may drop.
ChainIsFollowed == NoTransferSkipped /\ StoredIsFinal
=============================================================================
