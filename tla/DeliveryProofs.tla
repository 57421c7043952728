--------------------------- MODULE DeliveryProofs ---------------------------
(***************************************************************************)
(* What holds of the ways a result reaches somebody: the check of a top-up *)
(* for any number of requests and looks, crypto callbacks for any number   *)
(* of rows, dispatchers and tries, the streams of a user for any number of *)
(* connections, notifications for any number of rows and tries, and the    *)
(* usage meter for any number of processes, calls and faults.  Liveness is *)
(* left to TLC.                                                            *)
(***************************************************************************)
EXTENDS TopupCheck, CryptoCallbacks, TopupStream, Notifications, UsageMeter,
        FiniteSetTheorems, SequenceTheorems, TLAPS

-----------------------------------------------------------------------------
(* POST /topups/{id}:check                                                 *)

Request == [pc : {"idle", "user", "waiting", "paid", "answered"}, balance : BOOLEAN,
            looks : 0..MaxLooks, status : Ended \union {"pending"}]

\* An order paid by the ingest has its credit.
Credited == wallet \/ byHand

\* A request that found the order paid does so after its commit, and one that
\* has not looked yet counts no look.
RequestInv(c) ==
    /\ check[c].pc \in {"idle", "user"} => check[c].looks = 0
    /\ check[c].pc = "waiting" => check[c].looks < MaxLooks
    /\ check[c].pc = "paid" => topup = "paid"
    /\ check[c].pc = "answered" /\ check[c].status = "paid" /\ check[c].looks > 0
          => check[c].balance \/ byHand

CheckInv ==
    /\ check \in [Checks -> Request]
    /\ topup \in Ended \union {"pending"}
    /\ wallet \in BOOLEAN /\ transfer \in BOOLEAN /\ kicked \in BOOLEAN /\ byHand \in BOOLEAN
    /\ topup = "pending" => ~byHand
    /\ topup = "paid" => Credited
    /\ \A c \in Checks : RequestInv(c)

LEMMA CheckInit == TInit => CheckInv
<1> SUFFICES ASSUME TInit PROVE CheckInv
  OBVIOUS
<1>1. /\ wallet \in BOOLEAN /\ transfer \in BOOLEAN /\ kicked \in BOOLEAN /\ byHand \in BOOLEAN
      /\ ~byHand
  BY Zenon DEF TInit
<1>2. check \in [Checks -> Request] /\ topup = "pending"
  BY LooksAssumption DEF TInit, Request, NoCheck, Ended
<1>3. \A c \in Checks : check[c].pc = "idle" /\ check[c].looks = 0
  BY DEF TInit, NoCheck
<1>4. QED
  BY <1>1, <1>2, <1>3 DEF CheckInv, RequestInv

\* A step of one request leaves the others and the tables as they are.
LEMMA OneRequest ==
    ASSUME CheckInv, NEW c \in Checks, NEW q \in Request, check' = [check EXCEPT ![c] = q],
           kicked' \in BOOLEAN, UNCHANGED <<topup, wallet, transfer, byHand>>,
           q.pc \in {"idle", "user"} => q.looks = 0,
           q.pc = "waiting" => q.looks < MaxLooks,
           q.pc = "paid" => topup = "paid",
           q.pc = "answered" /\ q.status = "paid" /\ q.looks > 0 => q.balance \/ byHand
    PROVE  CheckInv'
<1>1. check' \in [Checks -> Request]
  BY DEF CheckInv
<1>2. check'[c] = q /\ \A d \in Checks \ {c} : check'[d] = check[d]
  BY DEF CheckInv
<1>3. ASSUME NEW d \in Checks PROVE RequestInv(d)'
  <2>1. CASE d = c
    BY <1>2, <2>1 DEF RequestInv
  <2>2. CASE d # c
    BY <1>2, <2>2 DEF CheckInv, RequestInv
  <2>3. QED
    BY <2>1, <2>2
<1>4. QED
  BY <1>1, <1>3 DEF CheckInv, Credited

\* A step of the tables leaves the requests as they are.
LEMMA TableStep ==
    ASSUME CheckInv, UNCHANGED check,
           topup' \in Ended \union {"pending"},
           wallet' \in BOOLEAN /\ transfer' \in BOOLEAN /\ kicked' \in BOOLEAN /\ byHand' \in BOOLEAN,
           topup' = "pending" => ~byHand',
           topup' = "paid" => wallet' \/ byHand',
           topup = "paid" => topup' = "paid",
           byHand => byHand'
    PROVE  CheckInv'
<1>1. \A d \in Checks : RequestInv(d)'
  BY DEF CheckInv, RequestInv
<1>2. QED
  BY <1>1 DEF CheckInv, Credited

\* Each action keeps the invariant.
LEMMA CheckStepInv == CheckInv /\ [TNext]_tcVars => CheckInv'
<1> SUFFICES ASSUME CheckInv, [TNext]_tcVars PROVE CheckInv'
  OBVIOUS
<1>t. /\ topup \in Ended \union {"pending"} /\ check \in [Checks -> Request]
      /\ wallet \in BOOLEAN /\ transfer \in BOOLEAN /\ kicked \in BOOLEAN /\ byHand \in BOOLEAN
      /\ topup = "pending" => ~byHand
      /\ topup = "paid" => wallet \/ byHand
      /\ \A c \in Checks : RequestInv(c)
  BY DEF CheckInv, Credited
<1>0. CASE UNCHANGED tcVars
  BY <1>0, <1>t, TableStep DEF tcVars
<1>1. CASE BankLists
  BY <1>1, <1>t, TableStep DEF BankLists
<1>2. CASE Poll
  <2>1. CASE transfer /\ topup = "pending"
    BY <1>2, <1>t, <2>1, TableStep DEF Poll, Ended
  <2>2. CASE ~(transfer /\ topup = "pending")
    BY <1>2, <1>t, <2>2, TableStep DEF Poll
  <2>3. QED
    BY <2>1, <2>2
<1>3. ASSUME NEW s \in Ended, EndsOtherwise(s) PROVE CheckInv'
  BY <1>3, <1>t, TableStep DEF EndsOtherwise, Ended
<1>4. ASSUME NEW c \in Checks, CurrentUser(c) PROVE CheckInv'
  <2> DEFINE q == [check[c] EXCEPT !.pc = "user", !.balance = wallet]
  <2>1. q \in Request /\ q.pc = "user" /\ q.looks = check[c].looks
    BY <1>t DEF Request
  <2>2. check[c].looks = 0
    BY <1>4, <1>t DEF CurrentUser, RequestInv
  <2>3. check' = [check EXCEPT ![c] = q] /\ UNCHANGED <<topup, wallet, transfer, kicked, byHand>>
    BY <1>4 DEF CurrentUser
  <2> HIDE DEF q
  <2>4. QED
    BY <1>t, <2>1, <2>2, <2>3, OneRequest
<1>5. ASSUME NEW c \in Checks, ReadOrder(c) PROVE CheckInv'
  <2>0. /\ check[c].looks = 0 /\ check[c] \in Request
        /\ UNCHANGED <<topup, wallet, transfer, byHand>>
    BY <1>5, <1>t DEF ReadOrder, RequestInv
  <2>1. CASE topup \in Ended
    <3> DEFINE q == [check[c] EXCEPT !.pc = "answered", !.status = topup]
    <3>1. q \in Request /\ q.pc = "answered" /\ q.looks = 0
      BY <2>0, <2>1 DEF Request
    <3>2. check' = [check EXCEPT ![c] = q] /\ UNCHANGED kicked
      BY <1>5, <2>1 DEF ReadOrder
    <3> HIDE DEF q
    <3>3. QED
      <4>1. ~(q.looks > 0) /\ kicked' \in BOOLEAN
        BY <1>t, <3>1, <3>2
      <4>2. QED
        BY <2>0, <3>1, <3>2, <4>1, OneRequest
  <2>2. CASE topup \notin Ended
    <3> DEFINE q == [check[c] EXCEPT !.pc = "waiting"]
    <3>1. q \in Request /\ q.pc = "waiting" /\ q.looks = 0
      BY <2>0 DEF Request
    <3>2. check' = [check EXCEPT ![c] = q] /\ kicked' = TRUE
      BY <1>5, <2>2 DEF ReadOrder
    <3> HIDE DEF q
    <3>3. QED
      <4>1. q.looks < MaxLooks
        BY <3>1, LooksAssumption
      <4>2. kicked' \in BOOLEAN
        BY <3>2
      <4>3. QED
        BY <2>0, <3>1, <3>2, <4>1, <4>2, OneRequest
  <2>3. QED
    BY <2>1, <2>2
<1>6. ASSUME NEW c \in Checks, Look(c) PROVE CheckInv'
  <2> DEFINE n == check[c].looks + 1
             next == CASE topup = "paid" -> "paid"
                       [] topup = "pending" /\ n < MaxLooks -> "waiting"
                       [] OTHER -> "answered"
             q == [check[c] EXCEPT !.pc = next, !.looks = n, !.status = topup]
  <2>0. /\ check[c] \in Request /\ check[c].looks < MaxLooks
        /\ check' = [check EXCEPT ![c] = q]
        /\ UNCHANGED <<topup, wallet, transfer, kicked, byHand>>
    BY <1>6, <1>t DEF Look, LooksAfter, RequestInv
  <2>1. n \in 0..MaxLooks
    BY <2>0, LooksAssumption DEF Request
  <2>2. /\ next \in {"paid", "waiting", "answered"}
        /\ next = "paid" => topup = "paid"
        /\ next = "waiting" => n < MaxLooks
        /\ next = "answered" => topup # "paid"
    OBVIOUS
  <2> HIDE DEF next, n
  <2>3. q \in Request /\ q.pc = next /\ q.looks = n /\ q.status = topup
    BY <1>t, <2>0, <2>1, <2>2 DEF Request
  <2> HIDE DEF q
  <2>4. QED
    BY <1>t, <2>0, <2>2, <2>3, OneRequest
<1>7. ASSUME NEW c \in Checks, AnswerPaid(c) PROVE CheckInv'
  <2> DEFINE q == [check[c] EXCEPT !.pc = "answered", !.balance = wallet]
  <2>1. /\ topup = "paid" /\ check' = [check EXCEPT ![c] = q]
        /\ UNCHANGED <<topup, wallet, transfer, kicked, byHand>>
    BY <1>7, <1>t DEF AnswerPaid, Refreshed, RequestInv
  <2>2. q \in Request /\ q.pc = "answered" /\ q.balance = wallet
    BY <1>t DEF Request
  <2> HIDE DEF q
  <2>3. QED
    BY <1>t, <2>1, <2>2, OneRequest
<1>8. QED
  BY <1>0, <1>1, <1>2, <1>3, <1>4, <1>5, <1>6, <1>7 DEF TNext, CheckStep

\* A request that waited and answers "paid" shows a balance with the credit,
\* unless the order was marked paid by hand (me.py, check_pending_topup): the
\* user is refreshed after the order was seen paid, and the ingest commits
\* both together.
THEOREM WaitedAnswerIsCredited == TSpec => []ChecksHold
<1>1. CheckInv => ChecksHold
  BY DEF CheckInv, RequestInv, Request, ChecksHold, CheckTypeOK, PaidAnswerIsCredited
<1>2. QED
  BY <1>1, CheckInit, CheckStepInv, PTL DEF TSpec
-----------------------------------------------------------------------------
(* Crypto callbacks                                                        *)

\* A dispatcher has row k in its batch.
HasRow(d, k) == batch[d] # None /\ batch[d][k] # None

OpenRow(r) == r.state \in {"pending", "failed"}

\* What a row, as it is stored or as a dispatcher will write it, says of p
\* requests and a acceptances, whoever else had it.
SaysNoMore(r, p, a) ==
    /\ r.attempts <= p
    /\ r.state = "sent" => a > 0
    /\ OpenRow(r) => r.attempts < MaxAttempts

\* What it says when no dispatcher overlapped and none died.
SaysAll(r, p, a) ==
    /\ r.attempts = p
    /\ r.state # "sent" => a = 0
    /\ r.state = "dead_letter" => r.attempts = MaxAttempts

\* What a dispatcher has not posted is a row of its batch that is to be sent.
TodoInv ==
    \A d \in Dispatchers :
        /\ batch[d] = None => todo[d] = {}
        /\ \A k \in todo[d] : HasRow(d, k) /\ OpenRow(batch[d][k])

\* No writer says more than what happened.
RecordInv ==
    \A k \in Callbacks :
        /\ row[k] = None => posts[k] = 0 /\ acks[k] = 0
        /\ row[k] # None => SaysNoMore(row[k], posts[k], acks[k])
        /\ \A d \in Dispatchers :
              HasRow(d, k) => row[k] # None /\ SaysNoMore(batch[d][k], posts[k], acks[k])

\* Without overlap a row has one holder, who knows everything about it; the
\* row of nobody says everything itself.
HolderInv ==
    ~overlap => \A k \in Callbacks :
        /\ \A d \in Dispatchers : HasRow(d, k) =>
              /\ OpenRow(row[k]) /\ SaysAll(batch[d][k], posts[k], acks[k])
              /\ \A e \in Dispatchers : HasRow(e, k) => e = d
        /\ row[k] # None /\ (\A d \in Dispatchers : ~HasRow(d, k))
              => SaysAll(row[k], posts[k], acks[k])

CallbackInv == CallbackTypeOK /\ TodoInv /\ RecordInv /\ HolderInv

LEMMA CallbackInit == CbInit => CallbackInv
<1> SUFFICES ASSUME CbInit PROVE CallbackInv
  OBVIOUS
<1>0. 0 \in 0 .. PostCap /\ 0 \in 0 .. MaxCrashes
  BY CallbackAssumption DEF PostCap
<1>1. CallbackTypeOK
  <2>1. row \in CallbackRows /\ batch \in [Dispatchers -> CallbackRows \cup {None}]
        /\ todo \in [Dispatchers -> SUBSET Callbacks]
    BY DEF CbInit, CallbackRows
  <2>2. posts \in [Callbacks -> 0 .. PostCap] /\ acks \in [Callbacks -> 0 .. PostCap]
        /\ crashes \in 0 .. MaxCrashes
    BY <1>0 DEF CbInit
  <2>3. overlap \in BOOLEAN
    BY Zenon DEF CbInit
  <2> QED BY <2>1, <2>2, <2>3 DEF CallbackTypeOK
<1>2. \A d \in Dispatchers : batch[d] = None /\ todo[d] = {}
  BY DEF CbInit
<1>3. \A k \in Callbacks : row[k] = None /\ posts[k] = 0 /\ acks[k] = 0
  BY DEF CbInit
<1> QED BY <1>1, <1>2, <1>3 DEF CallbackInv, TodoInv, RecordInv, HolderInv, HasRow

LEMMA CallbackRowFields ==
    ASSUME CallbackInv
    PROVE  /\ \A k \in Callbacks : row[k] \in CallbackRow \cup {None}
           /\ \A d \in Dispatchers, k \in Callbacks : batch[d] # None => batch[d][k] \in CallbackRow \cup {None}
           /\ \A k \in Callbacks : posts[k] \in 0 .. PostCap /\ acks[k] \in 0 .. PostCap
           /\ \A d \in Dispatchers : todo[d] \subseteq Callbacks
  BY DEF CallbackInv, CallbackTypeOK, CallbackRows

LEMMA EnqueueKeeps ==
    ASSUME CallbackInv, NEW k \in Callbacks, EnqueueInvoiceCallback(k)
    PROVE  CallbackInv'
<1> PICK new : new = [state |-> "pending", attempts |-> 0, wait |-> 0]
  OBVIOUS
<1>1. new \in CallbackRow /\ new # None /\ new.state = "pending" /\ new.attempts = 0
  <2>1. 0 \in 0 .. MaxAttempts
    BY CallbackAssumption
  <2> QED BY <2>1, CallbackAssumption DEF CallbackRow
<1>2. row[k] = None /\ row' = [row EXCEPT ![k] = new]
      /\ UNCHANGED <<batch, todo, posts, acks, crashes, overlap>>
  BY DEF EnqueueInvoiceCallback
<1>3. row'[k] = new /\ \A j \in Callbacks : j # k => row'[j] = row[j]
  BY <1>2 DEF CallbackInv, CallbackTypeOK, CallbackRows
<1>4. CallbackTypeOK'
  BY <1>1, <1>2 DEF CallbackInv, CallbackTypeOK, CallbackRows
<1>5. \A d \in Dispatchers, j \in Callbacks : HasRow(d, j)' = HasRow(d, j)
  BY <1>2 DEF HasRow
<1>6. \A d \in Dispatchers : ~HasRow(d, k)
  BY <1>2 DEF CallbackInv, RecordInv
<1>7. posts[k] = 0 /\ acks[k] = 0
  BY <1>2 DEF CallbackInv, RecordInv
<1>8. TodoInv'
  BY <1>2, <1>5, CallbackRowFields DEF CallbackInv, TodoInv
<1>9. SaysNoMore(new, 0, 0) /\ SaysAll(new, 0, 0)
  BY <1>1, CallbackAssumption DEF SaysNoMore, SaysAll
<1>10. RecordInv'
  BY <1>1, <1>2, <1>3, <1>5, <1>6, <1>7, <1>9 DEF CallbackInv, RecordInv
<1>11. HolderInv'
  BY <1>1, <1>2, <1>3, <1>5, <1>6, <1>7, <1>9 DEF CallbackInv, HolderInv
<1> QED BY <1>4, <1>8, <1>10, <1>11 DEF CallbackInv

LEMMA LoadKeeps ==
    ASSUME CallbackInv, NEW d \in Dispatchers, DispatchLoad(d)
    PROVE  CallbackInv'
<1> PICK new : new = [k \in Callbacks |-> IF k \in DueCallbacks THEN row[k] ELSE None]
  OBVIOUS
<1>1. new \in CallbackRows /\ new # None
  BY CallbackAssumption DEF CallbackInv, CallbackTypeOK, CallbackRows
<1>2. batch[d] = None /\ batch' = [batch EXCEPT ![d] = new] /\ todo' = [todo EXCEPT ![d] = DueCallbacks]
      /\ UNCHANGED <<row, posts, acks, crashes>>
  BY DEF DispatchLoad
<1>3. \A k \in DueCallbacks : k \in Callbacks /\ row[k] # None /\ OpenRow(row[k]) /\ new[k] = row[k]
  BY DEF DueCallbacks, OpenRow
<1>4. \A k \in Callbacks : k \notin DueCallbacks => new[k] = None
  OBVIOUS
<1>5. batch'[d] = new /\ todo'[d] = DueCallbacks
      /\ \A e \in Dispatchers : e # d => batch'[e] = batch[e] /\ todo'[e] = todo[e]
  BY <1>2 DEF CallbackInv, CallbackTypeOK
<1>6. ~overlap' => /\ ~overlap
                   /\ \A e \in Dispatchers, k \in DueCallbacks : e # d => ~HasRow(e, k)
  BY DEF DispatchLoad, HasRow
<1>7. CallbackTypeOK'
  <2>1. overlap' \in BOOLEAN
    BY Zenon DEF DispatchLoad
  <2>2. DueCallbacks \subseteq Callbacks
    BY <1>3
  <2> QED BY <1>1, <1>2, <2>1, <2>2 DEF CallbackInv, CallbackTypeOK
<1>8. \A e \in Dispatchers, k \in Callbacks : e # d => HasRow(e, k)' = HasRow(e, k)
  BY <1>5 DEF HasRow
<1>9. \A k \in Callbacks : /\ HasRow(d, k)' = (k \in DueCallbacks)
                           /\ ~HasRow(d, k)
  BY <1>1, <1>2, <1>3, <1>4, <1>5 DEF HasRow
<1>10. TodoInv'
  <2> SUFFICES ASSUME NEW e \in Dispatchers
               PROVE  /\ batch'[e] = None => todo'[e] = {}
                      /\ \A k \in todo'[e] : HasRow(e, k)' /\ OpenRow(batch'[e][k])
    BY DEF TodoInv
  <2>1. CASE e = d
    BY <2>1, <1>1, <1>3, <1>5, <1>9
  <2>2. CASE e # d
    BY <2>2, <1>5, <1>8, CallbackRowFields DEF CallbackInv, TodoInv
  <2> QED BY <2>1, <2>2
<1>11. RecordInv'
  <2> SUFFICES ASSUME NEW k \in Callbacks
               PROVE  /\ row[k] = None => posts[k] = 0 /\ acks[k] = 0
                      /\ row[k] # None => SaysNoMore(row[k], posts[k], acks[k])
                      /\ \A e \in Dispatchers : HasRow(e, k)' =>
                            row[k] # None /\ SaysNoMore(batch'[e][k], posts[k], acks[k])
    BY <1>2 DEF RecordInv
  <2>1. ASSUME NEW e \in Dispatchers, HasRow(e, k)'
        PROVE  row[k] # None /\ SaysNoMore(batch'[e][k], posts[k], acks[k])
    <3>1. CASE e = d
      BY <2>1, <3>1, <1>3, <1>5, <1>9 DEF CallbackInv, RecordInv
    <3>2. CASE e # d
      BY <2>1, <3>2, <1>5, <1>8 DEF CallbackInv, RecordInv
    <3> QED BY <3>1, <3>2
  <2> QED BY <2>1 DEF CallbackInv, RecordInv
<1>12. HolderInv'
  <2> SUFFICES ASSUME ~overlap', NEW k \in Callbacks
               PROVE  /\ \A e \in Dispatchers : HasRow(e, k)' =>
                            /\ OpenRow(row[k]) /\ SaysAll(batch'[e][k], posts[k], acks[k])
                            /\ \A f \in Dispatchers : HasRow(f, k)' => f = e
                      /\ row[k] # None /\ (\A e \in Dispatchers : ~HasRow(e, k)')
                            => SaysAll(row[k], posts[k], acks[k])
    BY <1>2 DEF HolderInv
  <2>1. /\ \A e \in Dispatchers : HasRow(e, k) =>
              /\ OpenRow(row[k]) /\ SaysAll(batch[e][k], posts[k], acks[k])
              /\ \A f \in Dispatchers : HasRow(f, k) => f = e
        /\ row[k] # None /\ (\A e \in Dispatchers : ~HasRow(e, k))
              => SaysAll(row[k], posts[k], acks[k])
    BY <1>6 DEF CallbackInv, HolderInv
  <2>2. CASE k \in DueCallbacks
    <3>1. \A e \in Dispatchers : ~HasRow(e, k)
      BY <2>2, <1>6, <1>9
    <3>2. \A e \in Dispatchers : HasRow(e, k)' => e = d
      BY <3>1, <1>8
    <3>3. OpenRow(row[k]) /\ row[k] # None /\ SaysAll(row[k], posts[k], acks[k]) /\ batch'[d][k] = row[k]
      BY <2>1, <2>2, <3>1, <1>3, <1>5
    <3>4. HasRow(d, k)'
      BY <2>2, <1>9
    <3> QED BY <3>2, <3>3, <3>4
  <2>3. CASE k \notin DueCallbacks
    <3>1. \A e \in Dispatchers : HasRow(e, k)' <=> HasRow(e, k)
      <4>1. ~HasRow(d, k)' /\ ~HasRow(d, k)
        BY <2>3, <1>9
      <4> QED BY <4>1, <1>8
    <3>2. \A e \in Dispatchers : HasRow(e, k) => batch'[e] = batch[e]
      BY <1>5, <1>9
    <3> QED BY <2>1, <3>1, <3>2
  <2> QED BY <2>2, <2>3
<1> QED BY <1>7, <1>10, <1>11, <1>12 DEF CallbackInv

\* Without the row of an answer in it: what the answer leaves.
LEMMA AnsweredRow ==
    ASSUME NEW r \in CallbackRow, OpenRow(r), r.attempts < MaxAttempts, NEW ok \in BOOLEAN
    PROVE  /\ Answered(r, ok) \in CallbackRow
           /\ Answered(r, ok).attempts = r.attempts + 1
           /\ ok => Answered(r, ok).state = "sent"
           /\ ~ok /\ r.attempts + 1 < MaxAttempts => Answered(r, ok).state = "failed"
           /\ ~ok /\ r.attempts + 1 >= MaxAttempts => Answered(r, ok).state = "dead_letter"
<1>1. r.attempts \in Nat /\ r.attempts + 1 \in 0 .. MaxAttempts /\ r.wait \in Nat
  BY CallbackAssumption DEF CallbackRow
<1>2. Delay(r.attempts + 1) \in Nat
  <2>1. Least(r.attempts + 1, Len(Delays)) \in 1 .. Len(Delays)
    BY <1>1, CallbackAssumption DEF Least
  <2> QED BY <2>1, CallbackAssumption DEF Delay
<1>3. CASE ok
  <2>1. Answered(r, ok) = [r EXCEPT !.state = "sent", !.attempts = r.attempts + 1]
    BY <1>3 DEF Answered
  <2>2. "sent" \in {"pending", "failed", "sent", "dead_letter"}
    OBVIOUS
  <2>3. Answered(r, ok).attempts = r.attempts + 1 /\ Answered(r, ok).state = "sent"
    BY <2>1 DEF CallbackRow
  <2>4. Answered(r, ok) \in CallbackRow
    BY <2>1, <2>2, <1>1 DEF CallbackRow
  <2> QED BY <2>3, <2>4, <1>3
<1>4. CASE ~ok /\ r.attempts + 1 >= MaxAttempts
  <2>1. Answered(r, ok) = [r EXCEPT !.state = "dead_letter", !.attempts = r.attempts + 1]
    BY <1>4 DEF Answered
  <2>2. Answered(r, ok).attempts = r.attempts + 1 /\ Answered(r, ok).state = "dead_letter"
    BY <2>1 DEF CallbackRow
  <2>3. Answered(r, ok) \in CallbackRow
    BY <2>1, <1>1 DEF CallbackRow
  <2> QED BY <2>2, <2>3, <1>1, <1>4, CallbackAssumption
<1>5. CASE ~ok /\ ~(r.attempts + 1 >= MaxAttempts)
  <2>1. Answered(r, ok) = [r EXCEPT !.state = "failed", !.attempts = r.attempts + 1, !.wait = Delay(r.attempts + 1)]
    BY <1>5 DEF Answered
  <2>2. Answered(r, ok).attempts = r.attempts + 1 /\ Answered(r, ok).state = "failed"
    BY <2>1 DEF CallbackRow
  <2>3. Answered(r, ok) \in CallbackRow
    BY <2>1, <1>1, <1>2 DEF CallbackRow
  <2> QED BY <2>2, <2>3, <1>1, <1>5, CallbackAssumption
<1> QED BY <1>3, <1>4, <1>5

\* The answer says no more, and if the row said all, it says all again.
LEMMA AnsweredSays ==
    ASSUME NEW r \in CallbackRow, OpenRow(r), NEW ok \in BOOLEAN,
           NEW p \in 0 .. PostCap, NEW a \in 0 .. PostCap, NEW p2, NEW a2,
           p2 = Least(p + 1, PostCap), a2 = IF ok THEN Least(a + 1, PostCap) ELSE a,
           SaysNoMore(r, p, a)
    PROVE  /\ SaysNoMore(Answered(r, ok), p2, a2)
           /\ SaysAll(r, p, a) => SaysAll(Answered(r, ok), p2, a2)
<1>0. r.attempts < MaxAttempts /\ r.attempts \in Nat /\ r.attempts <= p /\ PostCap = MaxAttempts + 2
      /\ MaxAttempts \in Nat /\ MaxAttempts > 0
  BY CallbackAssumption DEF SaysNoMore, CallbackRow, PostCap
<1> PICK n : n = Answered(r, ok)
  OBVIOUS
<1>1. /\ n \in CallbackRow /\ n.attempts = r.attempts + 1
      /\ ok => n.state = "sent"
      /\ ~ok /\ r.attempts + 1 < MaxAttempts => n.state = "failed"
      /\ ~ok /\ r.attempts + 1 >= MaxAttempts => n.state = "dead_letter"
  BY <1>0, AnsweredRow
<1>2. p2 \in Nat /\ r.attempts + 1 <= p2 /\ (p = r.attempts => p2 = r.attempts + 1)
  BY <1>0 DEF Least
<1>3. ok => a2 > 0
  BY <1>0 DEF Least
<1>4. ~ok => a2 = a
  OBVIOUS
<1>5. SaysNoMore(n, p2, a2)
  <2>1. n.state = "sent" => ok
    BY <1>0, <1>1
  <2>2. OpenRow(n) => r.attempts + 1 < MaxAttempts
    BY <1>0, <1>1 DEF OpenRow
  <2> QED BY <1>1, <1>2, <1>3, <2>1, <2>2 DEF SaysNoMore
<1>6. SaysAll(r, p, a) => SaysAll(n, p2, a2)
  <2> SUFFICES ASSUME SaysAll(r, p, a) PROVE SaysAll(n, p2, a2)
    OBVIOUS
  <2>1. r.attempts = p /\ a = 0
    BY DEF SaysAll, OpenRow
  <2>2. n.state # "sent" => a2 = 0
    BY <1>1, <1>4, <2>1
  <2>3. n.state = "dead_letter" => n.attempts = MaxAttempts
    BY <1>0, <1>1
  <2> QED BY <1>1, <1>2, <2>1, <2>2, <2>3 DEF SaysAll
<1> QED BY <1>5, <1>6

LEMMA PostKeeps ==
    ASSUME CallbackInv, NEW d \in Dispatchers, NEW k \in Callbacks, NEW ok \in BOOLEAN, Post(d, k, ok)
    PROVE  CallbackInv'
<1> PICK old : old = batch[d][k]
  OBVIOUS
<1> PICK new : new = Answered(old, ok)
  OBVIOUS
<1> PICK p : p = Least(posts[k] + 1, PostCap)
  OBVIOUS
<1> PICK a : a = IF ok THEN Least(acks[k] + 1, PostCap) ELSE acks[k]
  OBVIOUS
<1>1. HasRow(d, k) /\ OpenRow(old) /\ k \in todo[d]
  BY DEF Post, CallbackInv, TodoInv
<1>2. old \in CallbackRow /\ SaysNoMore(old, posts[k], acks[k]) /\ row[k] # None
  BY <1>1, CallbackRowFields DEF HasRow, CallbackInv, RecordInv
<1>3. posts[k] \in 0 .. PostCap /\ acks[k] \in 0 .. PostCap
  BY CallbackRowFields
<1>4. /\ SaysNoMore(new, p, a)
      /\ SaysAll(old, posts[k], acks[k]) => SaysAll(new, p, a)
  BY <1>1, <1>2, <1>3, AnsweredSays
<1>5. new \in CallbackRow /\ new # None
  BY <1>1, <1>2, AnsweredRow, CallbackAssumption DEF SaysNoMore
<1>6. p \in 0 .. PostCap /\ a \in 0 .. PostCap /\ posts[k] <= p /\ acks[k] <= a
  <2>1. PostCap \in Nat
    BY CallbackAssumption DEF PostCap
  <2>2. p \in 0 .. PostCap /\ posts[k] <= p
    BY <2>1, <1>3 DEF Least
  <2>3. CASE ok
    BY <2>1, <2>2, <2>3, <1>3 DEF Least
  <2>4. CASE ~ok
    BY <2>1, <2>2, <2>4, <1>3
  <2> QED BY <2>3, <2>4
<1>7. /\ posts' = [posts EXCEPT ![k] = p] /\ acks' = [acks EXCEPT ![k] = a]
      /\ batch' = [batch EXCEPT ![d][k] = new] /\ todo' = [todo EXCEPT ![d] = @ \ {k}]
      /\ UNCHANGED <<row, crashes, overlap>>
  BY DEF Post
<1>8. batch[d] \in CallbackRows /\ batch[d] # None
  BY <1>1 DEF HasRow, CallbackInv, CallbackTypeOK
<1> PICK held : held = [batch[d] EXCEPT ![k] = new]
  OBVIOUS
<1>9. held \in CallbackRows /\ held # None /\ held[k] = new /\ \A j \in Callbacks : j # k => held[j] = batch[d][j]
  BY <1>5, <1>8, CallbackAssumption DEF CallbackRows
<1>10. batch' = [batch EXCEPT ![d] = held]
  BY <1>7
<1>11. batch'[d] = held /\ todo'[d] = todo[d] \ {k}
       /\ \A e \in Dispatchers : e # d => batch'[e] = batch[e] /\ todo'[e] = todo[e]
  BY <1>7, <1>10 DEF CallbackInv, CallbackTypeOK
<1>12. posts'[k] = p /\ acks'[k] = a
       /\ \A j \in Callbacks : j # k => posts'[j] = posts[j] /\ acks'[j] = acks[j]
  BY <1>7 DEF CallbackInv, CallbackTypeOK
<1>13. CallbackTypeOK'
  <2>1. batch' \in [Dispatchers -> CallbackRows \cup {None}]
    BY <1>9, <1>10 DEF CallbackInv, CallbackTypeOK
  <2>2. posts' \in [Callbacks -> 0 .. PostCap] /\ acks' \in [Callbacks -> 0 .. PostCap]
    BY <1>6, <1>7 DEF CallbackInv, CallbackTypeOK
  <2>3. todo' \in [Dispatchers -> SUBSET Callbacks]
    BY <1>7 DEF CallbackInv, CallbackTypeOK
  <2> QED BY <1>7, <2>1, <2>2, <2>3 DEF CallbackInv, CallbackTypeOK
<1>14. \A e \in Dispatchers, j \in Callbacks : HasRow(e, j)' = HasRow(e, j)
  <2> SUFFICES ASSUME NEW e \in Dispatchers, NEW j \in Callbacks PROVE HasRow(e, j)' = HasRow(e, j)
    OBVIOUS
  <2>1. CASE e # d
    BY <2>1, <1>11 DEF HasRow
  <2>2. CASE e = d /\ j = k
    BY <2>2, <1>1, <1>5, <1>9, <1>11 DEF HasRow
  <2>3. CASE e = d /\ j # k
    BY <2>3, <1>8, <1>9, <1>11 DEF HasRow
  <2> QED BY <2>1, <2>2, <2>3
<1>15. \A e \in Dispatchers, j \in Callbacks : e # d \/ j # k => batch'[e][j] = batch[e][j]
  <2>1. \A e \in Dispatchers, j \in Callbacks : e # d => batch'[e][j] = batch[e][j]
    BY <1>11
  <2>2. \A j \in Callbacks : j # k => batch'[d][j] = batch[d][j]
    BY <1>9, <1>11
  <2> QED BY <2>1, <2>2
<1>16. batch'[d][k] = new
  BY <1>9, <1>11
<1>17. TodoInv'
  <2> SUFFICES ASSUME NEW e \in Dispatchers
               PROVE  /\ batch'[e] = None => todo'[e] = {}
                      /\ \A j \in todo'[e] : HasRow(e, j)' /\ OpenRow(batch'[e][j])
    BY DEF TodoInv
  <2>1. CASE e = d
    BY <2>1, <1>9, <1>11, <1>14, <1>15, CallbackRowFields DEF CallbackInv, TodoInv
  <2>2. CASE e # d
    BY <2>2, <1>11, <1>14, <1>15, CallbackRowFields DEF CallbackInv, TodoInv
  <2> QED BY <2>1, <2>2
<1>18. RecordInv'
  <2> SUFFICES ASSUME NEW j \in Callbacks
               PROVE  /\ row[j] = None => posts'[j] = 0 /\ acks'[j] = 0
                      /\ row[j] # None => SaysNoMore(row[j], posts'[j], acks'[j])
                      /\ \A e \in Dispatchers : HasRow(e, j) =>
                            row[j] # None /\ SaysNoMore(batch'[e][j], posts'[j], acks'[j])
    BY <1>7, <1>14 DEF RecordInv
  <2>1. CASE j # k
    BY <2>1, <1>12, <1>15 DEF CallbackInv, RecordInv
  <2>2. CASE j = k
    <3>1. ASSUME NEW r \in CallbackRow, SaysNoMore(r, posts[k], acks[k]) PROVE SaysNoMore(r, p, a)
      <4>1. r.attempts \in Nat /\ r.attempts <= posts[k] /\ (r.state = "sent" => acks[k] > 0)
            /\ (OpenRow(r) => r.attempts < MaxAttempts)
        BY <3>1, CallbackAssumption DEF SaysNoMore, CallbackRow
      <4>2. posts[k] \in Nat /\ acks[k] \in Nat /\ p \in Nat /\ a \in Nat /\ posts[k] <= p /\ acks[k] <= a
        BY <1>3, <1>6, CallbackAssumption DEF PostCap
      <4> QED BY <4>1, <4>2 DEF SaysNoMore
    <3>2. SaysNoMore(row[k], p, a)
      BY <1>2, <3>1, CallbackRowFields DEF CallbackInv, RecordInv
    <3>3. ASSUME NEW e \in Dispatchers, HasRow(e, k) PROVE SaysNoMore(batch'[e][k], p, a)
      <4>1. CASE e = d
        BY <4>1, <1>4, <1>16
      <4>2. CASE e # d
        <5>1. batch[e][k] \in CallbackRow /\ SaysNoMore(batch[e][k], posts[k], acks[k])
          BY <3>3, CallbackRowFields DEF HasRow, CallbackInv, RecordInv
        <5> QED BY <4>2, <5>1, <3>1, <1>15
      <4> QED BY <4>1, <4>2
    <3> QED BY <2>2, <3>2, <3>3, <1>2, <1>12
  <2> QED BY <2>1, <2>2
<1>19. HolderInv'
  <2> SUFFICES ASSUME ~overlap, NEW j \in Callbacks
               PROVE  /\ \A e \in Dispatchers : HasRow(e, j) =>
                            /\ OpenRow(row[j]) /\ SaysAll(batch'[e][j], posts'[j], acks'[j])
                            /\ \A f \in Dispatchers : HasRow(f, j) => f = e
                      /\ row[j] # None /\ (\A e \in Dispatchers : ~HasRow(e, j))
                            => SaysAll(row[j], posts'[j], acks'[j])
    BY <1>7, <1>14 DEF HolderInv
  <2>1. CASE j # k
    BY <2>1, <1>12, <1>15 DEF CallbackInv, HolderInv
  <2>2. CASE j = k
    <3>1. OpenRow(row[k]) /\ SaysAll(old, posts[k], acks[k]) /\ \A f \in Dispatchers : HasRow(f, k) => f = d
      BY <1>1 DEF CallbackInv, HolderInv
    <3> QED BY <2>2, <3>1, <1>1, <1>4, <1>12, <1>16
  <2> QED BY <2>1, <2>2
<1> QED BY <1>13, <1>17, <1>18, <1>19 DEF CallbackInv

LEMMA CommitKeeps ==
    ASSUME CallbackInv, NEW d \in Dispatchers, DispatchCommit(d)
    PROVE  CallbackInv'
<1>1. /\ batch[d] # None /\ todo[d] = {} /\ batch' = [batch EXCEPT ![d] = None]
      /\ row' = [k \in Callbacks |-> IF batch[d][k] = None THEN row[k] ELSE batch[d][k]]
      /\ UNCHANGED <<todo, posts, acks, crashes, overlap>>
  BY DEF DispatchCommit
<1>2. batch'[d] = None /\ \A e \in Dispatchers : e # d => batch'[e] = batch[e]
  BY <1>1 DEF CallbackInv, CallbackTypeOK
<1>3. \A k \in Callbacks : row'[k] = IF HasRow(d, k) THEN batch[d][k] ELSE row[k]
  BY <1>1 DEF HasRow
<1>4. \A k \in Callbacks : HasRow(d, k) => row[k] # None /\ batch[d][k] # None
  BY DEF HasRow, CallbackInv, RecordInv
<1>5. \A e \in Dispatchers, k \in Callbacks : HasRow(e, k)' = (e # d /\ HasRow(e, k))
  BY <1>2 DEF HasRow
<1>6. CallbackTypeOK'
  <2>1. row' \in CallbackRows
    BY <1>1, CallbackRowFields DEF CallbackRows
  <2>2. batch' \in [Dispatchers -> CallbackRows \cup {None}]
    BY <1>1 DEF CallbackInv, CallbackTypeOK
  <2> QED BY <2>1, <2>2, <1>1 DEF CallbackInv, CallbackTypeOK
<1>7. TodoInv'
  BY <1>1, <1>2, <1>5, CallbackRowFields DEF CallbackInv, TodoInv
<1>8. RecordInv'
  <2> SUFFICES ASSUME NEW k \in Callbacks
               PROVE  /\ row'[k] = None => posts[k] = 0 /\ acks[k] = 0
                      /\ row'[k] # None => SaysNoMore(row'[k], posts[k], acks[k])
                      /\ \A e \in Dispatchers : HasRow(e, k)' =>
                            row'[k] # None /\ SaysNoMore(batch'[e][k], posts[k], acks[k])
    BY <1>1 DEF RecordInv
  <2>1. /\ row'[k] = None => posts[k] = 0 /\ acks[k] = 0
        /\ row'[k] # None => SaysNoMore(row'[k], posts[k], acks[k])
        /\ row[k] # None => row'[k] # None
    BY <1>3, <1>4 DEF CallbackInv, RecordInv
  <2>2. ASSUME NEW e \in Dispatchers, HasRow(e, k)'
        PROVE  row'[k] # None /\ SaysNoMore(batch'[e][k], posts[k], acks[k])
    BY <2>1, <2>2, <1>2, <1>5 DEF CallbackInv, RecordInv
  <2> QED BY <2>1, <2>2
<1>9. HolderInv'
  <2> SUFFICES ASSUME ~overlap, NEW k \in Callbacks
               PROVE  /\ \A e \in Dispatchers : HasRow(e, k)' =>
                            /\ OpenRow(row'[k]) /\ SaysAll(batch'[e][k], posts[k], acks[k])
                            /\ \A f \in Dispatchers : HasRow(f, k)' => f = e
                      /\ row'[k] # None /\ (\A e \in Dispatchers : ~HasRow(e, k)')
                            => SaysAll(row'[k], posts[k], acks[k])
    BY <1>1 DEF HolderInv
  <2>1. /\ \A e \in Dispatchers : HasRow(e, k) =>
              /\ OpenRow(row[k]) /\ SaysAll(batch[e][k], posts[k], acks[k])
              /\ \A f \in Dispatchers : HasRow(f, k) => f = e
        /\ row[k] # None /\ (\A e \in Dispatchers : ~HasRow(e, k))
              => SaysAll(row[k], posts[k], acks[k])
    BY DEF CallbackInv, HolderInv
  <2>2. CASE HasRow(d, k)
    <3>1. \A e \in Dispatchers : ~HasRow(e, k)'
      BY <2>1, <2>2, <1>5
    <3>2. SaysAll(row'[k], posts[k], acks[k])
      BY <2>1, <2>2, <1>3
    <3> QED BY <3>1, <3>2
  <2>3. CASE ~HasRow(d, k)
    <3>1. row'[k] = row[k] /\ \A e \in Dispatchers : HasRow(e, k)' <=> HasRow(e, k)
      <4>1. row'[k] = row[k]
        BY <2>3, <1>3
      <4>2. ~HasRow(d, k)'
        BY <1>5
      <4>3. \A e \in Dispatchers : e # d => (HasRow(e, k)' <=> HasRow(e, k))
        BY <1>5
      <4> QED BY <2>3, <4>1, <4>2, <4>3
    <3>2. \A e \in Dispatchers : HasRow(e, k) => batch'[e] = batch[e]
      BY <2>3, <1>2
    <3> QED BY <2>1, <3>1, <3>2
  <2> QED BY <2>2, <2>3
<1> QED BY <1>6, <1>7, <1>8, <1>9 DEF CallbackInv

LEMMA CallbackCrashKeeps ==
    ASSUME CallbackInv, NEW d \in Dispatchers, DispatchCrash(d)
    PROVE  CallbackInv'
<1>1. /\ batch' = [batch EXCEPT ![d] = None] /\ todo' = [todo EXCEPT ![d] = {}]
      /\ crashes' = crashes + 1 /\ crashes < MaxCrashes /\ UNCHANGED <<row, posts, acks>>
  BY DEF DispatchCrash
<1>2. /\ batch'[d] = None /\ todo'[d] = {}
      /\ \A e \in Dispatchers : e # d => batch'[e] = batch[e] /\ todo'[e] = todo[e]
  BY <1>1 DEF CallbackInv, CallbackTypeOK
<1>3. overlap' = TRUE
  BY Zenon DEF DispatchCrash
<1>4. \A e \in Dispatchers, k \in Callbacks : HasRow(e, k)' = (e # d /\ HasRow(e, k))
  BY <1>2 DEF HasRow
<1>5. CallbackTypeOK'
  <2>1. crashes' \in 0 .. MaxCrashes
    BY <1>1, CallbackAssumption DEF CallbackInv, CallbackTypeOK
  <2>2. overlap' \in BOOLEAN
    BY <1>3, Zenon
  <2> QED BY <1>1, <2>1, <2>2 DEF CallbackInv, CallbackTypeOK
<1>6. TodoInv'
  BY <1>2, <1>4, CallbackRowFields DEF CallbackInv, TodoInv
<1>7. RecordInv'
  BY <1>1, <1>2, <1>4 DEF CallbackInv, RecordInv
<1>8. HolderInv'
  BY <1>3 DEF HolderInv
<1> QED BY <1>5, <1>6, <1>7, <1>8 DEF CallbackInv

LEMMA CbTickKeeps == ASSUME CallbackInv, CbTick PROVE CallbackInv'
<1>1. /\ row' = [k \in Callbacks |-> IF row[k] # None /\ row[k].wait > 0
                                    THEN [row[k] EXCEPT !.wait = row[k].wait - 1] ELSE row[k]]
      /\ UNCHANGED <<batch, todo, posts, acks, crashes, overlap>>
  BY DEF CbTick
<1>2. ASSUME NEW k \in Callbacks, row[k] # None
      PROVE  /\ row'[k] \in CallbackRow /\ row'[k] # None
             /\ row'[k].state = row[k].state /\ row'[k].attempts = row[k].attempts
  <2>1. row[k] \in CallbackRow
    BY <1>2, CallbackRowFields
  <2>2. CASE row[k].wait > 0
    <3> PICK new : new = [row[k] EXCEPT !.wait = row[k].wait - 1]
      OBVIOUS
    <3>1. new \in CallbackRow /\ new.state = row[k].state /\ new.attempts = row[k].attempts
      BY <2>1, <2>2 DEF CallbackRow
    <3> QED BY <3>1, <2>2, <1>1, <1>2, CallbackAssumption
  <2>3. CASE ~(row[k].wait > 0)
    BY <2>1, <2>3, <1>1, <1>2
  <2> QED BY <2>2, <2>3
<1>3. \A k \in Callbacks : row[k] = None => row'[k] = None
  BY <1>1
<1>4. CallbackTypeOK'
  <2>1. \A k \in Callbacks : row'[k] \in CallbackRow \cup {None}
    BY <1>2, <1>3
  <2>2. row' \in CallbackRows
    BY <1>1, <2>1 DEF CallbackRows
  <2> QED BY <1>1, <2>2 DEF CallbackInv, CallbackTypeOK
<1>5. \A e \in Dispatchers, k \in Callbacks : HasRow(e, k)' = HasRow(e, k)
  BY <1>1 DEF HasRow
<1>6. TodoInv'
  BY <1>1, <1>5, CallbackRowFields DEF CallbackInv, TodoInv
<1>7. ASSUME NEW k \in Callbacks, row[k] # None
      PROVE  /\ SaysNoMore(row[k], posts[k], acks[k]) => SaysNoMore(row'[k], posts[k], acks[k])
             /\ SaysAll(row[k], posts[k], acks[k]) => SaysAll(row'[k], posts[k], acks[k])
             /\ OpenRow(row[k]) => OpenRow(row'[k])
  BY <1>2, <1>7 DEF SaysNoMore, SaysAll, OpenRow
<1>8. RecordInv'
  BY <1>1, <1>2, <1>3, <1>5, <1>7 DEF CallbackInv, RecordInv
<1>9. HolderInv'
  <2> SUFFICES ASSUME ~overlap, NEW k \in Callbacks
               PROVE  /\ \A e \in Dispatchers : HasRow(e, k) =>
                            /\ OpenRow(row'[k]) /\ SaysAll(batch[e][k], posts[k], acks[k])
                            /\ \A f \in Dispatchers : HasRow(f, k) => f = e
                      /\ row'[k] # None /\ (\A e \in Dispatchers : ~HasRow(e, k))
                            => SaysAll(row'[k], posts[k], acks[k])
    BY <1>1, <1>5 DEF HolderInv
  <2>1. CASE row[k] = None
    BY <2>1, <1>3 DEF CallbackInv, RecordInv
  <2>2. CASE row[k] # None
    BY <2>2, <1>7 DEF CallbackInv, HolderInv
  <2> QED BY <2>1, <2>2
<1> QED BY <1>4, <1>6, <1>8, <1>9 DEF CallbackInv

LEMMA CallbackStep == CallbackInv /\ [CbNext]_cbVars => CallbackInv'
<1> SUFFICES ASSUME CallbackInv, [CbNext]_cbVars PROVE CallbackInv'
  OBVIOUS
<1>1. CASE CbTick
  BY <1>1, CbTickKeeps
<1>2. ASSUME NEW k \in Callbacks, EnqueueInvoiceCallback(k) PROVE CallbackInv'
  BY <1>2, EnqueueKeeps
<1>3. ASSUME NEW d \in Dispatchers, DispatchLoad(d) PROVE CallbackInv'
  BY <1>3, LoadKeeps
<1>4. ASSUME NEW d \in Dispatchers, DispatchCommit(d) PROVE CallbackInv'
  BY <1>4, CommitKeeps
<1>5. ASSUME NEW d \in Dispatchers, DispatchCrash(d) PROVE CallbackInv'
  BY <1>5, CallbackCrashKeeps
<1>6. ASSUME NEW d \in Dispatchers, NEW k \in Callbacks, NEW ok \in BOOLEAN, Post(d, k, ok)
      PROVE  CallbackInv'
  BY <1>6, PostKeeps
<1>7. CASE UNCHANGED cbVars
  BY <1>7 DEF cbVars, CallbackInv, CallbackTypeOK, TodoInv, RecordInv, HolderInv, HasRow
<1> QED BY <1>1, <1>2, <1>3, <1>4, <1>5, <1>6, <1>7 DEF CbNext

LEMMA CallbackConclusion == CallbackInv => CallbacksHold
<1> SUFFICES ASSUME CallbackInv PROVE CallbacksHold
  OBVIOUS
<1>1. SentWasAccepted
  BY DEF CallbackInv, RecordInv, SaysNoMore, SentWasAccepted
<1>2. ASSUME NEW k \in Callbacks, row[k] # None
      PROVE  /\ row[k].attempts <= posts[k]
             /\ overlap \/ row[k].attempts = posts[k] \/ \E d \in Dispatchers : batch[d] # None
  <2>1. row[k].attempts <= posts[k]
    BY <1>2 DEF CallbackInv, RecordInv, SaysNoMore
  <2>2. ASSUME ~overlap, \A d \in Dispatchers : batch[d] = None PROVE row[k].attempts = posts[k]
    BY <1>2, <2>2 DEF CallbackInv, HolderInv, HasRow, SaysAll
  <2> QED BY <2>1, <2>2
<1>3. ASSUME NEW k \in Callbacks, row[k] # None, row[k].state = "dead_letter", ~overlap
      PROVE  posts[k] = MaxAttempts /\ acks[k] = 0
  <2>1. ~OpenRow(row[k])
    BY <1>3 DEF OpenRow
  <2>2. \A d \in Dispatchers : ~HasRow(d, k)
    BY <1>3, <2>1 DEF CallbackInv, HolderInv
  <2>3. SaysAll(row[k], posts[k], acks[k])
    BY <1>3, <2>2 DEF CallbackInv, HolderInv
  <2> QED BY <1>3, <2>3 DEF SaysAll
<1>4. AttemptsAreRequests
  BY <1>2 DEF AttemptsAreRequests
<1>5. DeadLetterWasRefused
  BY <1>3 DEF DeadLetterWasRefused
<1> QED BY <1>1, <1>4, <1>5 DEF CallbackInv, CallbacksHold

\* The row of a callback says what happened between dispatcher and merchant:
\* sent was accepted, an attempt was a request, and, unless dispatchers
\* overlapped or one died, a dead letter was refused max_attempts times
\* (dispatch_due_callbacks).
THEOREM CallbacksAreTrue == CbSpec => []CallbacksHold
<1>1. CbInit => CallbackInv
  BY CallbackInit
<1>2. CallbackInv /\ [CbNext]_cbVars => CallbackInv'
  BY CallbackStep
<1>3. CallbackInv => CallbacksHold
  BY CallbackConclusion
<1> QED BY <1>1, <1>2, <1>3, PTL DEF CbSpec
-----------------------------------------------------------------------------
(* The event streams of top-ups                                            *)

\* The connections that have a slot.
Slots == {s \in Streams : Opened(s)} \cup leaked

\* A connection that kept its slot has ended and is never opened again.
LeakInv == \A s \in leaked : s \in Streams /\ stream[s] # None /\ ~Opened(s)

\* A connection knows the status as it is or as it was while the order was
\* pending: an order leaves "pending" once.
LastInv == \A s \in Streams : stream[s] # None => stream[s].last \in {"pending", order}

StreamInv == StreamsHold /\ LeakInv /\ LastInv

LEMMA StreamInit == SInit => StreamInv
<1> SUFFICES ASSUME SInit PROVE StreamInv
  OBVIOUS
<1>1. redis \in BOOLEAN
  BY Zenon DEF SInit
<1>2. StreamTypeOK
  BY <1>1 DEF SInit, StreamTypeOK
<1>3. \A s \in Streams : stream[s] = None /\ told[s] = "nothing"
  BY DEF SInit
<1>4. {s \in Streams : Opened(s)} \cup leaked = {}
  BY <1>3 DEF SInit, Opened
<1>5. SlotsAreStreams
  BY <1>4, FS_EmptySet DEF SInit, SlotsAreStreams
<1>6. ToldIsTrue /\ LastInv
  BY <1>3 DEF ToldIsTrue, LastInv
<1>7. LeakInv
  BY DEF SInit, LeakInv
<1> QED BY <1>2, <1>5, <1>6, <1>7 DEF StreamInv, StreamsHold

LEMMA StreamFields ==
    ASSUME StreamInv, NEW s \in Streams
    PROVE  /\ stream[s] = None \/ stream[s] \in StreamState
           /\ told[s] \in {"nothing", "hello", "paid", "expired", "timeout"}
           /\ stream[s] # None => /\ stream[s].last \in {"pending", "paid", "expired"}
                                  /\ stream[s].step \in {"opened", "hello", "subscribed", "ended"}
                                  /\ stream[s].pubsub \in BOOLEAN
  BY DEF StreamInv, StreamsHold, StreamTypeOK, StreamState

LEMMA SlotsAreFinite ==
    ASSUME StreamInv
    PROVE  IsFiniteSet(Slots) /\ Cardinality(Slots) \in Nat /\ Slots \subseteq Streams /\ active = Cardinality(Slots)
<1>1. Slots \subseteq Streams
  BY DEF StreamInv, StreamsHold, StreamTypeOK, Slots
<1>2. IsFiniteSet(Slots)
  BY <1>1, FS_Subset, StreamAssumption
<1>3. active = Cardinality(Slots)
  BY DEF StreamInv, StreamsHold, SlotsAreStreams, Slots
<1> QED BY <1>1, <1>2, <1>3, FS_CardinalityType

\* The counter follows the slot of connection s.
Counted(s) ==
    /\ (s \in Slots <=> s \in Slots') => active' = active
    /\ s \in Slots /\ s \notin Slots' => active' = active - 1
    /\ s \notin Slots /\ s \in Slots' => active' = active + 1

\* One connection goes to a new state, is told something or not, and takes,
\* keeps or gives back its slot as the new state says.
LEMMA OneStream ==
    ASSUME StreamInv, NEW s \in Streams, NEW new \in StreamState, NEW event,
           stream' = [stream EXCEPT ![s] = new], told' = [told EXCEPT ![s] = event],
           event \in {"nothing", "hello", "paid", "expired", "timeout"},
           event \in {"paid", "expired"} => order = event,
           new.last \in {"pending", order}, order' = order, redis' = redis,
           message' \subseteq Streams,
           leaked \subseteq leaked', leaked' \subseteq leaked \cup {s},
           s \in leaked' => new.step = "ended", Counted(s)
    PROVE  StreamInv'
<1>1. /\ stream'[s] = new /\ told'[s] = event /\ new # None
      /\ \A t \in Streams : t # s => stream'[t] = stream[t] /\ told'[t] = told[t]
  BY StreamAssumption DEF StreamInv, StreamsHold, StreamTypeOK
<1>2. Opened(s)' = (new.step # "ended") /\ \A t \in Streams : t # s => Opened(t)' = Opened(t)
  BY <1>1 DEF Opened
<1>3. /\ leaked \subseteq Streams /\ leaked' \subseteq leaked \cup {s} /\ leaked \subseteq leaked'
  BY DEF StreamInv, StreamsHold, StreamTypeOK
<1>4. \A t \in Streams : t # s => (t \in Slots' <=> t \in Slots)
  BY <1>2, <1>3 DEF Slots
<1>5. Slots' \subseteq Streams
  BY <1>3 DEF Slots
<1>6. active' = Cardinality(Slots') /\ active' \in Nat
  <2>1. CASE s \in Slots /\ s \in Slots'
    <3>1. \A t \in Streams : t \in Slots' <=> t \in Slots
      BY <2>1, <1>4
    <3>2. Slots' = Slots
      BY <3>1, <1>5, SlotsAreFinite
    <3> QED BY <2>1, <3>2, SlotsAreFinite DEF Counted
  <2>2. CASE s \notin Slots /\ s \notin Slots'
    <3>1. \A t \in Streams : t \in Slots' <=> t \in Slots
      BY <2>2, <1>4
    <3>2. Slots' = Slots
      BY <3>1, <1>5, SlotsAreFinite
    <3> QED BY <2>2, <3>2, SlotsAreFinite DEF Counted
  <2>3. CASE s \in Slots /\ s \notin Slots'
    <3>1. Slots' = Slots \ {s}
      BY <2>3, <1>4, <1>5, SlotsAreFinite
    <3>2. IsFiniteSet(Slots') /\ Cardinality(Slots') = Cardinality(Slots) - 1
      BY <2>3, <3>1, SlotsAreFinite, FS_RemoveElement
    <3> QED BY <2>3, <3>2, SlotsAreFinite, FS_CardinalityType DEF Counted
  <2>4. CASE s \notin Slots /\ s \in Slots'
    <3>1. Slots' = Slots \cup {s}
      BY <2>4, <1>4, <1>5, SlotsAreFinite
    <3>2. Cardinality(Slots') = Cardinality(Slots) + 1
      BY <2>4, <3>1, SlotsAreFinite, FS_AddElement
    <3> QED BY <2>4, <3>2, SlotsAreFinite DEF Counted
  <2> QED BY <2>1, <2>2, <2>3, <2>4
<1>7. StreamTypeOK'
  <2>1. stream' \in [Streams -> StreamState \cup {None}]
        /\ told' \in [Streams -> {"nothing", "hello", "paid", "expired", "timeout"}]
    BY DEF StreamInv, StreamsHold, StreamTypeOK
  <2> QED BY <2>1, <1>3, <1>6 DEF StreamInv, StreamsHold, StreamTypeOK
<1>8. SlotsAreStreams'
  BY <1>6 DEF SlotsAreStreams, Slots
<1>9. ToldIsTrue'
  BY <1>1 DEF ToldIsTrue, StreamInv, StreamsHold
<1>10. LastInv'
  BY <1>1 DEF LastInv, StreamInv
<1>11. LeakInv'
  <2> SUFFICES ASSUME NEW t \in leaked' PROVE t \in Streams /\ stream'[t] # None /\ ~Opened(t)'
    BY DEF LeakInv
  <2>1. CASE t = s
    BY <2>1, <1>1, <1>2, <1>3
  <2>2. CASE t # s
    BY <2>2, <1>1, <1>2, <1>3 DEF StreamInv, LeakInv
  <2> QED BY <2>1, <2>2
<1> QED BY <1>7, <1>8, <1>9, <1>10, <1>11 DEF StreamInv, StreamsHold

\* The slot of an open connection.
LEMMA OpenHasSlot ==
    ASSUME StreamInv, NEW s \in Streams, Opened(s)
    PROVE  s \in Slots /\ s \notin leaked /\ active \in Nat /\ active >= 1 /\ Release = active - 1
           /\ stream[s] \in StreamState
<1>1. s \in Slots /\ s \notin leaked
  BY DEF Slots, StreamInv, LeakInv
<1>2. active \in Nat /\ active # 0
  BY <1>1, SlotsAreFinite, FS_EmptySet
<1>3. Release = active - 1
  BY <1>2 DEF Release
<1> QED BY <1>1, <1>2, <1>3, StreamFields DEF Opened

LEMMA OpenStreamKeeps == ASSUME StreamInv, NEW s \in Streams, OpenStream(s) PROVE StreamInv'
<1> PICK new : new = [step |-> "opened", last |-> order, pubsub |-> FALSE]
  OBVIOUS
<1>1. new \in StreamState /\ new.step = "opened" /\ new.last = order
  BY DEF StreamState, StreamInv, StreamsHold, StreamTypeOK
<1>2. /\ stream[s] = None /\ stream' = [stream EXCEPT ![s] = new] /\ active' = active + 1
      /\ UNCHANGED <<order, redis, message, told, leaked>>
  BY DEF OpenStream
<1>3. told' = [told EXCEPT ![s] = told[s]] /\ (told[s] \in {"paid", "expired"} => order = told[s])
      /\ message' \subseteq Streams
  BY <1>2 DEF StreamInv, StreamsHold, StreamTypeOK, ToldIsTrue
<1>4. s \notin leaked /\ s \notin Slots
  BY <1>2 DEF StreamInv, LeakInv, Slots, Opened
<1>5. stream'[s] = new /\ new # None
  BY <1>1, <1>2, StreamAssumption DEF StreamInv, StreamsHold, StreamTypeOK
<1>6. s \in Slots'
  BY <1>1, <1>5 DEF Slots, Opened
<1>7. Counted(s) /\ leaked' = leaked /\ s \notin leaked'
  BY <1>2, <1>4, <1>6 DEF Counted
<1> QED BY <1>1, <1>2, <1>3, <1>7, StreamFields, OneStream

LEMMA HelloKeeps == ASSUME StreamInv, NEW s \in Streams, Hello(s) PROVE StreamInv'
<1>0. Opened(s) /\ stream[s] # None
  BY DEF Hello, Step, Opened
<1> PICK new : new = [stream[s] EXCEPT !.step = "hello"]
  OBVIOUS
<1>1. new \in StreamState /\ new.step = "hello" /\ new.last = stream[s].last
  BY <1>0, OpenHasSlot DEF StreamState
<1>2. /\ stream' = [stream EXCEPT ![s] = new] /\ told' = [told EXCEPT ![s] = "hello"]
      /\ UNCHANGED <<order, active, redis, message, leaked>>
  BY DEF Hello
<1>3. new.last \in {"pending", order} /\ message' \subseteq Streams
  BY <1>0, <1>1, <1>2 DEF StreamInv, LastInv, StreamsHold, StreamTypeOK
<1>4. stream'[s] = new /\ new # None
  BY <1>1, <1>2, StreamAssumption DEF StreamInv, StreamsHold, StreamTypeOK
<1>5. s \in Slots' /\ s \in Slots /\ s \notin leaked
  BY <1>0, <1>1, <1>4, OpenHasSlot DEF Slots, Opened
<1>6. Counted(s) /\ leaked' = leaked /\ s \notin leaked'
  BY <1>2, <1>5 DEF Counted
<1> QED BY <1>1, <1>2, <1>3, <1>6, OneStream

LEMMA LostBeforeHelloKeeps == ASSUME StreamInv, NEW s \in Streams, LostBeforeHello(s) PROVE StreamInv'
<1>0. Opened(s) /\ stream[s] # None
  BY DEF LostBeforeHello, Step, Opened
<1> PICK new : new = [stream[s] EXCEPT !.step = "ended"]
  OBVIOUS
<1>1. new \in StreamState /\ new.step = "ended" /\ new.last = stream[s].last
  BY <1>0, OpenHasSlot DEF StreamState
<1>2. /\ stream' = [stream EXCEPT ![s] = new] /\ leaked' = leaked \cup {s}
      /\ UNCHANGED <<order, active, redis, message, told>>
  BY DEF LostBeforeHello
<1>3. told' = [told EXCEPT ![s] = told[s]] /\ (told[s] \in {"paid", "expired"} => order = told[s])
      /\ message' \subseteq Streams /\ new.last \in {"pending", order}
  BY <1>0, <1>1, <1>2 DEF StreamInv, StreamsHold, StreamTypeOK, ToldIsTrue, LastInv
<1>4. s \in Slots' /\ s \in Slots /\ s \notin leaked
  BY <1>0, <1>2, OpenHasSlot DEF Slots
<1>5. Counted(s) /\ leaked \subseteq leaked' /\ leaked' \subseteq leaked \cup {s}
  BY <1>2, <1>4 DEF Counted
<1> QED BY <1>1, <1>2, <1>3, <1>5, StreamFields, OneStream

\* fetch_status_and_emit keeps what is claimed, whatever it was called for.
LEMMA FetchKeeps ==
    ASSUME StreamInv, NEW s \in Streams, NEW m \in BOOLEAN, Opened(s), Fetch(s, "subscribed", m),
           message' \subseteq Streams, UNCHANGED <<order, redis, leaked>>
    PROVE  StreamInv'
<1>0. stream[s] \in StreamState /\ stream[s] # None /\ s \in Slots /\ s \notin leaked /\ Release = active - 1
  BY OpenHasSlot DEF Opened
<1>1. CASE order = stream[s].last
  <2> PICK new : new = [[stream[s] EXCEPT !.step = "subscribed"] EXCEPT !.pubsub = m]
    OBVIOUS
  <2>1. new \in StreamState /\ new.step = "subscribed" /\ new.last = stream[s].last
    BY <1>0 DEF StreamState
  <2>2. stream' = [stream EXCEPT ![s].step = "subscribed", ![s].pubsub = m] /\ UNCHANGED <<told, active>>
    BY <1>1 DEF Fetch
  <2>3. stream' = [stream EXCEPT ![s] = new]
    BY <2>2 DEF StreamInv, StreamsHold, StreamTypeOK
  <2>4. told' = [told EXCEPT ![s] = told[s]] /\ (told[s] \in {"paid", "expired"} => order = told[s])
    BY <2>2 DEF StreamInv, StreamsHold, StreamTypeOK, ToldIsTrue
  <2>5. stream'[s] = new /\ new # None
    BY <2>1, <2>3, StreamAssumption DEF StreamInv, StreamsHold, StreamTypeOK
  <2>6. s \in Slots'
    BY <2>1, <2>5 DEF Slots, Opened
  <2>7. Counted(s) /\ leaked' = leaked /\ s \notin leaked'
    BY <1>0, <2>2, <2>6 DEF Counted
  <2>8. new.last \in {"pending", order} /\ order' = order /\ redis' = redis
    BY <1>1, <2>1
  <2> QED BY <2>1, <2>3, <2>4, <2>7, <2>8, StreamFields, OneStream
<1>2. CASE order # stream[s].last
  <2> PICK new : new = [[stream[s] EXCEPT !.step = "ended"] EXCEPT !.last = order]
    OBVIOUS
  <2>1. order \in {"paid", "expired"}
    BY <1>0, <1>2 DEF StreamInv, LastInv, StreamsHold, StreamTypeOK
  <2>2. new \in StreamState /\ new.step = "ended" /\ new.last = order
    BY <1>0, <2>1 DEF StreamState
  <2>3. /\ stream' = [stream EXCEPT ![s].step = "ended", ![s].last = order]
        /\ told' = [told EXCEPT ![s] = order] /\ active' = Release
    BY <1>2 DEF Fetch
  <2>4. stream' = [stream EXCEPT ![s] = new]
    BY <2>3 DEF StreamInv, StreamsHold, StreamTypeOK
  <2>5. stream'[s] = new /\ new # None
    BY <2>2, <2>4, StreamAssumption DEF StreamInv, StreamsHold, StreamTypeOK
  <2>6. s \notin Slots'
    BY <2>2, <2>5, <1>0 DEF Slots, Opened
  <2>7. Counted(s) /\ leaked' = leaked /\ s \notin leaked'
    BY <1>0, <2>3, <2>6 DEF Counted
  <2> QED BY <2>1, <2>2, <2>3, <2>4, <2>7, OneStream
<1> QED BY <1>1, <1>2

LEMMA EndStreamKeeps ==
    ASSUME StreamInv, NEW s \in Streams, NEW event \in {"gone", "timeout"}, EndStream(s, event)
    PROVE  StreamInv'
<1>0. Opened(s) /\ stream[s] # None
  BY DEF EndStream, Step, Opened
<1> PICK new : new = [stream[s] EXCEPT !.step = "ended"]
  OBVIOUS
<1> PICK tells : tells = IF event = "timeout" THEN event ELSE told[s]
  OBVIOUS
<1>1. new \in StreamState /\ new.step = "ended" /\ new.last = stream[s].last
  BY <1>0, OpenHasSlot DEF StreamState
<1>2. /\ stream' = [stream EXCEPT ![s] = new] /\ told' = [told EXCEPT ![s] = tells]
      /\ active' = Release /\ UNCHANGED <<order, redis, message, leaked>>
  BY DEF EndStream
<1>3. /\ tells \in {"nothing", "hello", "paid", "expired", "timeout"}
      /\ (tells \in {"paid", "expired"} => order = tells)
      /\ message' \subseteq Streams /\ new.last \in {"pending", order}
  BY <1>0, <1>1, <1>2 DEF StreamInv, StreamsHold, StreamTypeOK, ToldIsTrue, LastInv
<1>4. stream'[s] = new
  BY <1>1, <1>2 DEF StreamInv, StreamsHold, StreamTypeOK
<1>5. s \notin Slots' /\ s \in Slots /\ s \notin leaked /\ Release = active - 1
  BY <1>0, <1>1, <1>2, <1>4, OpenHasSlot DEF Slots, Opened
<1>6. Counted(s) /\ leaked' = leaked /\ s \notin leaked'
  BY <1>2, <1>5 DEF Counted
<1> QED BY <1>1, <1>2, <1>3, <1>6, OneStream

\* The order and Redis change without the connections.
LEMMA OrderChangesKeeps ==
    ASSUME StreamInv, UNCHANGED <<active, stream, told, leaked>>, message' \subseteq Streams, redis' \in BOOLEAN,
           order' = order \/ (order = "pending" /\ order' \in {"paid", "expired"})
    PROVE  StreamInv'
<1>1. StreamTypeOK'
  BY DEF StreamInv, StreamsHold, StreamTypeOK
<1>2. \A s \in Streams : Opened(s)' = Opened(s)
  BY DEF Opened
<1>3. SlotsAreStreams'
  <2>1. {s \in Streams : Opened(s)}' = {s \in Streams : Opened(s)}
    BY DEF Opened
  <2> QED BY <2>1 DEF StreamInv, StreamsHold, SlotsAreStreams
<1>4. ToldIsTrue'
  BY DEF StreamInv, StreamsHold, ToldIsTrue
<1>5. LeakInv'
  BY <1>2 DEF StreamInv, LeakInv
<1>6. LastInv'
  BY DEF StreamInv, LastInv
<1> QED BY <1>1, <1>3, <1>4, <1>5, <1>6 DEF StreamInv, StreamsHold

LEMMA StreamStep == StreamInv /\ [SNext]_sVars => StreamInv'
<1> SUFFICES ASSUME StreamInv, [SNext]_sVars PROVE StreamInv'
  OBVIOUS
<1>0. message \subseteq Streams /\ redis \in BOOLEAN
  BY DEF StreamInv, StreamsHold, StreamTypeOK
<1>1. CASE OrderExpired
  BY <1>0, <1>1, OrderChangesKeeps DEF OrderExpired
<1>2. CASE RedisChanges
  <2>1. redis' \in BOOLEAN
    BY <1>2, Zenon DEF RedisChanges
  <2>2. UNCHANGED <<order, active, stream, message, told, leaked>>
    BY <1>2 DEF RedisChanges
  <2> QED BY <1>0, <2>1, <2>2, OrderChangesKeeps
<1>3. ASSUME NEW R \in SUBSET Streams, OrderPaid(R) PROVE StreamInv'
  <2>1. message' \subseteq Streams
    BY <1>3 DEF OrderPaid
  <2> QED BY <1>0, <1>3, <2>1, OrderChangesKeeps DEF OrderPaid
<1>4. ASSUME NEW s \in Streams, OpenStream(s) PROVE StreamInv'
  BY <1>4, OpenStreamKeeps
<1>5. ASSUME NEW s \in Streams, Hello(s) PROVE StreamInv'
  BY <1>5, HelloKeeps
<1>6. ASSUME NEW s \in Streams, LostBeforeHello(s) PROVE StreamInv'
  BY <1>6, LostBeforeHelloKeeps
<1>7. ASSUME NEW s \in Streams, Subscribe(s) PROVE StreamInv'
  <2>1. Opened(s)
    BY <1>7 DEF Subscribe, Step, Opened
  <2> QED BY <1>0, <1>7, <2>1, FetchKeeps DEF Subscribe
<1>8. ASSUME NEW s \in Streams, OnMessage(s) PROVE StreamInv'
  <2>1. Opened(s) /\ stream[s].pubsub \in BOOLEAN
    BY <1>8, StreamFields DEF OnMessage, Step, Opened
  <2>2. message' \subseteq Streams
    BY <1>0, <1>8 DEF OnMessage
  <2> QED BY <1>8, <2>1, <2>2, FetchKeeps DEF OnMessage
<1>9. ASSUME NEW s \in Streams, SafetyPoll(s) PROVE StreamInv'
  <2>1. Opened(s) /\ stream[s].pubsub \in BOOLEAN
    BY <1>9, StreamFields DEF SafetyPoll, Step, Opened
  <2> QED BY <1>0, <1>9, <2>1, FetchKeeps DEF SafetyPoll
<1>10. ASSUME NEW s \in Streams, NEW event \in {"gone", "timeout"}, EndStream(s, event) PROVE StreamInv'
  BY <1>10, EndStreamKeeps
<1>11. CASE UNCHANGED sVars
  <2>1. UNCHANGED <<order, active, stream, redis, message, told, leaked>>
    BY <1>11 DEF sVars
  <2>2. redis' \in BOOLEAN
    BY <1>0, <2>1, Zenon
  <2> QED BY <1>0, <2>1, <2>2, OrderChangesKeeps
<1> QED BY <1>1, <1>2, <1>3, <1>4, <1>5, <1>6, <1>7, <1>8, <1>9, <1>10, <1>11 DEF SNext

\* The counter of a user's streams is the number of connections that are open
\* or ended before their first event, and a stream tells the status the order
\* has (topup_events), for any number of connections.
THEOREM StreamsAreTrue == SSpec => []StreamsHold
<1>1. SInit => StreamInv
  BY StreamInit
<1>2. StreamInv /\ [SNext]_sVars => StreamInv'
  BY StreamStep
<1>3. StreamInv => StreamsHold
  BY DEF StreamInv
<1> QED BY <1>1, <1>2, <1>3, PTL DEF SSpec
-----------------------------------------------------------------------------
(* Notifications                                                           *)

\* What row r says of d deliveries.
TrueOf(r, d) ==
    /\ r.channel # "in_app" /\ r.status = "sent" => d > 0
    /\ r.status = "dead" => r.attempt = MaxTries
    /\ r.status = "pending" => r.attempt < MaxTries

\* The dispatcher has rows that are pending in the table, and has not changed
\* those it has not sent; what it will write is true.
BatchInv ==
    /\ nbatch = None => ntodo = {}
    /\ nbatch # None =>
          /\ nbatch \in [DOMAIN nbatch -> NotificationRow]
          /\ DOMAIN nbatch \subseteq DOMAIN inbox /\ ntodo \subseteq DOMAIN nbatch
          /\ \A n \in DOMAIN nbatch :
                /\ inbox[n].status = "pending" /\ nbatch[n].channel # "in_app"
                /\ n \in ntodo => nbatch[n].status = "pending"
                /\ TrueOf(nbatch[n], delivered[n])

InBatch(n) == nbatch # None /\ n \in DOMAIN nbatch

\* Every copy but the one of a row that counts as sent is a crash or a lost
\* answer.
CopiesInv ==
    \A n \in 1 .. MaxRows :
        /\ delivered[n] <= 1 + ncrashes + lost
        /\ n \notin DOMAIN inbox => delivered[n] = 0
        /\ n \in DOMAIN inbox /\ inbox[n].status # "sent" /\ ~InBatch(n) => delivered[n] <= ncrashes + lost
        /\ InBatch(n) /\ nbatch[n].status # "sent" => delivered[n] <= ncrashes + lost

InboxInv ==
    /\ Len(inbox) <= MaxRows
    /\ \A n \in DOMAIN inbox : TrueOf(inbox[n], delivered[n])

NotifyInv == NotificationTypeOK /\ InboxInv /\ BatchInv /\ CopiesInv

LEMMA NotifyInit == NInit => NotifyInv
<1> SUFFICES ASSUME NInit PROVE NotifyInv
  OBVIOUS
<1>1. pref \in [Kinds -> [Channels -> BOOLEAN \cup {None}]]
  BY DEF NInit
<1>2. chat \in BOOLEAN
  BY Zenon DEF NInit
<1>3. inbox \in Seq(NotificationRow) /\ inbox = <<>> /\ Len(inbox) = 0 /\ DOMAIN inbox = {}
  BY DEF NInit
<1>4. delivered \in [1 .. MaxRows -> Nat] /\ \A n \in 1 .. MaxRows : delivered[n] = 0
  BY DEF NInit
<1>5. ncrashes = 0 /\ lost = 0 /\ 0 \in 0 .. MaxNCrashes /\ 0 \in 0 .. MaxLost /\ 0 \in 0 .. MaxPrefs
      /\ prefEdits = 0 /\ nbatch = None /\ ntodo = {}
  BY NotificationAssumption DEF NInit
<1>6. NotificationTypeOK
  BY <1>1, <1>2, <1>3, <1>4, <1>5 DEF NotificationTypeOK
<1>7. InboxInv
  BY <1>3, NotificationAssumption DEF InboxInv
<1>8. BatchInv
  BY <1>5 DEF BatchInv
<1>9. CopiesInv
  BY <1>3, <1>4, <1>5 DEF CopiesInv, InBatch
<1> QED BY <1>6, <1>7, <1>8, <1>9 DEF NotifyInv

LEMMA InboxFields ==
    ASSUME NotifyInv
    PROVE  /\ inbox \in Seq(NotificationRow) /\ Len(inbox) \in Nat /\ Len(inbox) <= MaxRows
           /\ DOMAIN inbox = 1 .. Len(inbox) /\ DOMAIN inbox \subseteq 1 .. MaxRows
           /\ \A n \in DOMAIN inbox : inbox[n] \in NotificationRow
           /\ \A n \in 1 .. MaxRows : delivered[n] \in Nat
           /\ ncrashes \in Nat /\ lost \in Nat
<1>1. inbox \in Seq(NotificationRow) /\ Len(inbox) <= MaxRows
  BY DEF NotifyInv, NotificationTypeOK, InboxInv
<1>2. Len(inbox) \in Nat /\ DOMAIN inbox = 1 .. Len(inbox) /\ \A n \in DOMAIN inbox : inbox[n] \in NotificationRow
  BY <1>1
<1>3. DOMAIN inbox \subseteq 1 .. MaxRows
  BY <1>1, <1>2, NotificationAssumption
<1>4. \A n \in 1 .. MaxRows : delivered[n] \in Nat
  BY DEF NotifyInv, NotificationTypeOK
<1>5. ncrashes \in Nat /\ lost \in Nat
  BY NotificationAssumption DEF NotifyInv, NotificationTypeOK
<1> QED BY <1>1, <1>2, <1>3, <1>4, <1>5

LEMMA RowFields ==
    ASSUME NEW r \in NotificationRow
    PROVE  /\ r.channel \in Channels /\ r.kind \in Kinds /\ r.status \in {"pending", "sent", "dead"}
           /\ r.attempt \in 0 .. MaxTries /\ r.attempt \in Nat /\ r.wait \in Nat
           /\ r.read \in BOOLEAN /\ r.recent \in BOOLEAN
<1>1. MaxTries \in Nat
  BY NotificationAssumption DEF MaxTries
<1> QED BY <1>1 DEF NotificationRow

LEMMA TriesPositive == MaxTries \in Nat /\ MaxTries > 0
  BY NotificationAssumption, EmptySeq, LenProperties DEF MaxTries

\* A function on the rows of the table is a table.
LEMMA TableOf ==
    ASSUME NotifyInv, NEW f \in [DOMAIN inbox -> NotificationRow]
    PROVE  f \in Seq(NotificationRow) /\ Len(f) = Len(inbox) /\ DOMAIN f = DOMAIN inbox
<1>1. f \in [1 .. Len(inbox) -> NotificationRow] /\ Len(inbox) \in Nat
  BY InboxFields
<1>2. f \in Seq(NotificationRow)
  BY <1>1, SeqDef, Zenon
<1>3. DOMAIN f = 1 .. Len(f) /\ Len(f) \in Nat /\ DOMAIN f = 1 .. Len(inbox)
  BY <1>1, <1>2
<1>4. Len(f) = Len(inbox)
  BY <1>1, <1>3
<1> QED BY <1>2, <1>3, <1>4, InboxFields

\* Steps that leave the dispatcher and what it reads of the rows alone.
LEMMA ColumnsKept ==
    ASSUME NotifyInv, UNCHANGED sending, NEW f \in [DOMAIN inbox -> NotificationRow], inbox' = f,
           \A n \in DOMAIN inbox : /\ f[n].channel = inbox[n].channel /\ f[n].status = inbox[n].status
                                   /\ f[n].attempt = inbox[n].attempt,
           pref' \in [Kinds -> [Channels -> BOOLEAN \cup {None}]], chat' \in BOOLEAN,
           prefEdits' \in 0 .. MaxPrefs
    PROVE  NotifyInv'
<1>1. inbox' \in Seq(NotificationRow) /\ Len(inbox') = Len(inbox) /\ DOMAIN inbox' = DOMAIN inbox
  BY TableOf
<1>2. UNCHANGED <<nbatch, ntodo, delivered, ncrashes, lost>>
  BY DEF sending
<1>3. NotificationTypeOK'
  BY <1>1, <1>2 DEF NotifyInv, NotificationTypeOK
<1>4. InboxInv'
  BY <1>1, <1>2 DEF NotifyInv, InboxInv, TrueOf
<1>5. BatchInv'
  BY <1>1, <1>2 DEF NotifyInv, BatchInv
<1>6. CopiesInv'
  BY <1>1, <1>2 DEF NotifyInv, CopiesInv, InBatch
<1> QED BY <1>3, <1>4, <1>5, <1>6 DEF NotifyInv

LEMMA SameInbox == ASSUME NotifyInv PROVE inbox \in [DOMAIN inbox -> NotificationRow]
<1>1. inbox \in Seq(NotificationRow)
  BY InboxFields
<1>2. inbox \in [1 .. Len(inbox) -> NotificationRow] /\ DOMAIN inbox = 1 .. Len(inbox)
  BY <1>1, LenProperties
<1> QED BY <1>2

LEMMA UserFields ==
    ASSUME NotifyInv
    PROVE  pref \in [Kinds -> [Channels -> BOOLEAN \cup {None}]] /\ chat \in BOOLEAN /\ prefEdits \in 0 .. MaxPrefs
  BY DEF NotifyInv, NotificationTypeOK

\* The user's preferences and chat: the table is as it was.
LEMMA UserStepKeeps ==
    ASSUME NotifyInv, UNCHANGED sending, inbox' = inbox,
           pref' \in [Kinds -> [Channels -> BOOLEAN \cup {None}]], chat' \in BOOLEAN, prefEdits' \in 0 .. MaxPrefs
    PROVE  NotifyInv'
  BY SameInbox, ColumnsKept

LEMMA UpdatePreferencesKeeps ==
    ASSUME NotifyInv, NEW k \in Kinds, NEW c \in Channels, NEW on \in BOOLEAN,
           UpdatePreferences(k, [x \in {c} |-> on])
    PROVE  NotifyInv'
<1> PICK new : new = [x \in Channels |-> IF x \in DOMAIN [y \in {c} |-> on] THEN [y \in {c} |-> on][x] ELSE pref[k][x]]
  OBVIOUS
<1>1. new \in [Channels -> BOOLEAN \cup {None}]
  <2>1. ASSUME NEW x \in Channels PROVE new[x] \in BOOLEAN \cup {None}
    <3>1. pref[k][x] \in BOOLEAN \cup {None}
      BY UserFields
    <3>2. CASE x = c
      <4>1. new[x] = on
        BY <3>2
      <4> QED BY <4>1, Zenon
    <3>3. CASE x # c
      <4>1. new[x] = pref[k][x]
        BY <3>3
      <4> QED BY <3>1, <4>1
    <3> QED BY <3>2, <3>3
  <2> QED BY <2>1
<1>2. pref' = [pref EXCEPT ![k] = new] /\ prefEdits < MaxPrefs /\ prefEdits' = prefEdits + 1
      /\ UNCHANGED <<chat, inbox, sending>>
  BY DEF UpdatePreferences
<1>3. pref' \in [Kinds -> [Channels -> BOOLEAN \cup {None}]]
  BY <1>1, <1>2, UserFields
<1>4. prefEdits' \in 0 .. MaxPrefs
  BY <1>2, UserFields, NotificationAssumption
<1>5. chat' \in BOOLEAN
  BY <1>2, UserFields, Zenon
<1> QED BY <1>2, <1>3, <1>4, <1>5, UserStepKeeps

LEMMA MuteKeeps ==
    ASSUME NotifyInv, NEW k \in Kinds, NEW c \in Channels, MuteNotification(k, c)
    PROVE  NotifyInv'
<1> PICK on : on = IF pref[k][c] = None THEN TRUE ELSE pref[k][c]
  OBVIOUS
<1>1. pref[k] \in [Channels -> BOOLEAN \cup {None}]
  BY UserFields
<1>2. pref[k][c] \in BOOLEAN \cup {None}
  BY <1>1
<1>3. on \in BOOLEAN \cup {None}
  <2>1. CASE pref[k][c] = None
    <3>1. on = TRUE
      BY <2>1
    <3> QED BY <3>1, Zenon
  <2>2. CASE pref[k][c] # None
    <3>1. on = pref[k][c]
      BY <2>2
    <3> QED BY <1>2, <3>1
  <2> QED BY <2>1, <2>2
<1>4. pref' = [pref EXCEPT ![k][c] = on] /\ prefEdits < MaxPrefs /\ prefEdits' = prefEdits + 1
      /\ UNCHANGED <<chat, inbox, sending>>
  BY DEF MuteNotification
<1> PICK new : new = [pref[k] EXCEPT ![c] = on]
  OBVIOUS
<1>5. new \in [Channels -> BOOLEAN \cup {None}]
  BY <1>1, <1>3
<1>6. pref' = [pref EXCEPT ![k] = new]
  BY <1>4
<1>7. pref' \in [Kinds -> [Channels -> BOOLEAN \cup {None}]]
  BY <1>5, <1>6, UserFields
<1>8. prefEdits' \in 0 .. MaxPrefs
  BY <1>4, UserFields, NotificationAssumption
<1>9. chat' \in BOOLEAN
  BY <1>4, UserFields, Zenon
<1> QED BY <1>4, <1>7, <1>8, <1>9, UserStepKeeps

LEMMA ChatChangesKeeps == ASSUME NotifyInv, ChatChanges PROVE NotifyInv'
<1>1. UNCHANGED <<pref, prefEdits, inbox, sending>>
  BY DEF ChatChanges
<1>2. chat' \in BOOLEAN
  BY Zenon DEF ChatChanges
<1> QED BY <1>1, <1>2, UserFields, UserStepKeeps

\* The inbox routes and time: read, wait and recent are all they change, and
\* nothing that was read is unread after them.
OnlyMarks ==
    /\ UNCHANGED <<user, sending>>
    /\ inbox' \in [DOMAIN inbox -> NotificationRow]
    /\ \A n \in DOMAIN inbox :
          /\ inbox'[n].channel = inbox[n].channel /\ inbox'[n].status = inbox[n].status
          /\ inbox'[n].attempt = inbox[n].attempt
          /\ inbox[n].read => inbox'[n].read

LEMMA OnlyMarksKeeps == ASSUME NotifyInv, OnlyMarks PROVE NotifyInv'
<1>1. UNCHANGED <<pref, chat, prefEdits>> /\ UNCHANGED sending
  BY DEF OnlyMarks, user
<1>2. chat' \in BOOLEAN
  BY <1>1, UserFields, Zenon
<1>3. \A n \in DOMAIN inbox : /\ inbox'[n].channel = inbox[n].channel /\ inbox'[n].status = inbox[n].status
                              /\ inbox'[n].attempt = inbox[n].attempt
  BY DEF OnlyMarks
<1>4. inbox' \in [DOMAIN inbox -> NotificationRow]
  BY DEF OnlyMarks
<1> QED BY <1>1, <1>2, <1>3, <1>4, UserFields, ColumnsKept

LEMMA MarkReadMarks == ASSUME NotifyInv, NEW n \in DOMAIN inbox, MarkRead(n) PROVE OnlyMarks
<1> PICK new : new = [inbox[n] EXCEPT !.read = TRUE]
  OBVIOUS
<1>1. inbox[n] \in NotificationRow
  BY InboxFields
<1>2. /\ new \in NotificationRow /\ new.read
      /\ new.channel = inbox[n].channel /\ new.status = inbox[n].status /\ new.attempt = inbox[n].attempt
  <2>1. new \in NotificationRow /\ new.read
    BY <1>1 DEF NotificationRow
  <2>2. new.channel = inbox[n].channel /\ new.status = inbox[n].status /\ new.attempt = inbox[n].attempt
    BY <1>1 DEF NotificationRow
  <2> QED BY <2>1, <2>2
<1>3. inbox' = [inbox EXCEPT ![n] = new] /\ UNCHANGED <<user, sending>>
  BY DEF MarkRead
<1>4. inbox' \in [DOMAIN inbox -> NotificationRow] /\ inbox'[n] = new
      /\ \A m \in DOMAIN inbox : m # n => inbox'[m] = inbox[m]
  BY <1>2, <1>3, SameInbox
<1> QED BY <1>2, <1>3, <1>4 DEF OnlyMarks

LEMMA MarkAllReadMarks == ASSUME NotifyInv, MarkAllRead PROVE OnlyMarks
<1>1. /\ UNCHANGED <<user, sending>>
      /\ inbox' = [n \in DOMAIN inbox |-> IF inbox[n].channel = "in_app"
                                         THEN [inbox[n] EXCEPT !.read = TRUE] ELSE inbox[n]]
  BY DEF MarkAllRead
<1>2. ASSUME NEW n \in DOMAIN inbox
      PROVE  /\ inbox'[n] \in NotificationRow /\ (inbox[n].read => inbox'[n].read)
             /\ inbox'[n].channel = inbox[n].channel /\ inbox'[n].status = inbox[n].status
             /\ inbox'[n].attempt = inbox[n].attempt
  <2>1. inbox[n] \in NotificationRow
    BY InboxFields
  <2>2. CASE inbox[n].channel = "in_app"
    <3> PICK new : new = [inbox[n] EXCEPT !.read = TRUE]
      OBVIOUS
    <3>1. inbox'[n] = new
      BY <1>1, <2>2
    <3>2. new \in NotificationRow /\ new.read
      BY <2>1 DEF NotificationRow
    <3>3. new.channel = inbox[n].channel /\ new.status = inbox[n].status /\ new.attempt = inbox[n].attempt
      BY <2>1 DEF NotificationRow
    <3> QED BY <3>1, <3>2, <3>3
  <2>3. CASE inbox[n].channel # "in_app"
    <3>1. inbox'[n] = inbox[n]
      BY <1>1, <2>3
    <3> QED BY <2>1, <3>1
  <2> QED BY <2>2, <2>3
<1>3. inbox' \in [DOMAIN inbox -> NotificationRow]
  BY <1>1, <1>2
<1> QED BY <1>1, <1>2, <1>3 DEF OnlyMarks

LEMMA NTickMarks == ASSUME NotifyInv, NTick PROVE OnlyMarks
<1>1. /\ UNCHANGED <<user, sending>>
      /\ inbox' = [n \in DOMAIN inbox |-> IF inbox[n].wait > 0
                      THEN [inbox[n] EXCEPT !.wait = inbox[n].wait - 1] ELSE inbox[n]]
  BY DEF NTick
<1>2. ASSUME NEW n \in DOMAIN inbox
      PROVE  /\ inbox'[n] \in NotificationRow /\ (inbox[n].read => inbox'[n].read)
             /\ inbox'[n].channel = inbox[n].channel /\ inbox'[n].status = inbox[n].status
             /\ inbox'[n].attempt = inbox[n].attempt
  <2>1. inbox[n] \in NotificationRow /\ inbox[n].wait \in Nat
    BY InboxFields, RowFields
  <2>2. CASE inbox[n].wait > 0
    <3>1. inbox'[n] = [inbox[n] EXCEPT !.wait = inbox[n].wait - 1]
      BY <1>1, <2>2
    <3> PICK w \in Nat : w = inbox[n].wait - 1
      BY <2>1, <2>2
    <3> PICK new : new = [inbox[n] EXCEPT !.wait = w]
      OBVIOUS
    <3>2. new \in NotificationRow /\ new.read = inbox[n].read
      BY <2>1 DEF NotificationRow
    <3>3. new.channel = inbox[n].channel /\ new.status = inbox[n].status /\ new.attempt = inbox[n].attempt
      BY <2>1 DEF NotificationRow
    <3> QED BY <3>1, <3>2, <3>3
  <2>3. CASE ~(inbox[n].wait > 0)
    <3>1. inbox'[n] = inbox[n]
      BY <1>1, <2>3
    <3> QED BY <2>1, <3>1
  <2> QED BY <2>2, <2>3
<1>3. inbox' \in [DOMAIN inbox -> NotificationRow]
  BY <1>1, <1>2
<1> QED BY <1>1, <1>2, <1>3 DEF OnlyMarks

LEMMA AgeMarks == ASSUME NotifyInv, Age PROVE OnlyMarks
<1>1. /\ UNCHANGED <<user, sending>>
      /\ inbox' = [n \in DOMAIN inbox |-> [inbox[n] EXCEPT !.recent = FALSE]]
  BY DEF Age
<1>2. ASSUME NEW n \in DOMAIN inbox
      PROVE  /\ inbox'[n] \in NotificationRow /\ (inbox[n].read => inbox'[n].read)
             /\ inbox'[n].channel = inbox[n].channel /\ inbox'[n].status = inbox[n].status
             /\ inbox'[n].attempt = inbox[n].attempt
  <2>1. inbox[n] \in NotificationRow
    BY InboxFields
  <2> PICK new : new = [inbox[n] EXCEPT !.recent = FALSE]
    OBVIOUS
  <2>2. inbox'[n] = new
    BY <1>1
  <2>3. new \in NotificationRow /\ new.read = inbox[n].read
    BY <2>1 DEF NotificationRow
  <2>4. new.channel = inbox[n].channel /\ new.status = inbox[n].status /\ new.attempt = inbox[n].attempt
    BY <2>1 DEF NotificationRow
  <2> QED BY <2>2, <2>3, <2>4
<1>3. inbox' \in [DOMAIN inbox -> NotificationRow]
  BY <1>1, <1>2
<1> QED BY <1>1, <1>2, <1>3 DEF OnlyMarks

\* Rows as notify adds them.
FreshRow ==
    {r \in NotificationRow : /\ r.attempt = 0
                             /\ r.status = IF r.channel = "in_app" THEN "sent" ELSE "pending"}

LEMMA ChannelRowsFresh ==
    ASSUME NotifyInv, NEW k \in Kinds, NEW c \in Channels
    PROVE  ChannelRows(k, c) \in Seq(FreshRow)
<1> PICK new : new = NewRow(k, c)
  OBVIOUS
<1>1. new \in NotificationRow
  <2>1. 0 \in 0 .. MaxTries
    BY TriesPositive
  <2> QED BY <2>1 DEF NewRow, NotificationRow
<1>2. new.attempt = 0 /\ new.channel = c /\ new.status = IF c = "in_app" THEN "sent" ELSE "pending"
  BY DEF NewRow
<1>3. new \in FreshRow
  BY <1>1, <1>2 DEF FreshRow
<1>4. <<new>> \in Seq(FreshRow) /\ <<>> \in Seq(FreshRow)
  BY <1>3
<1> QED BY <1>4 DEF ChannelRows

LEMMA NotifyRowsFresh ==
    ASSUME NotifyInv, NEW k \in Kinds
    PROVE  NotifyRows(k) \in Seq(FreshRow)
<1>1. /\ ChannelRows(k, "in_app") \in Seq(FreshRow) /\ ChannelRows(k, "email") \in Seq(FreshRow)
      /\ ChannelRows(k, "telegram") \in Seq(FreshRow)
  BY ChannelRowsFresh DEF Channels
<1>2. ChannelRows(k, "in_app") \o ChannelRows(k, "email") \in Seq(FreshRow)
  BY <1>1, ConcatProperties
<1> QED BY <1>1, <1>2, ConcatProperties DEF NotifyRows

\* What notify does to the table.
LEMMA NotifyAppends ==
    ASSUME NotifyInv, NEW k \in Kinds, Notify(k)
    PROVE  /\ inbox' \in Seq(NotificationRow) /\ Len(inbox') <= MaxRows /\ Len(inbox) <= Len(inbox')
           /\ Len(inbox') \in Nat /\ DOMAIN inbox' = 1 .. Len(inbox') /\ DOMAIN inbox \subseteq DOMAIN inbox'
           /\ \A n \in DOMAIN inbox : inbox'[n] = inbox[n]
           /\ \A n \in DOMAIN inbox' \ DOMAIN inbox : inbox'[n] \in FreshRow
           /\ UNCHANGED <<user, sending>>
<1> PICK rows : rows = NotifyRows(k)
  OBVIOUS
<1>1. rows \in Seq(FreshRow) /\ Len(rows) \in Nat /\ Len(inbox) + Len(rows) <= MaxRows /\ inbox' = inbox \o rows
      /\ UNCHANGED <<user, sending>>
  BY NotifyRowsFresh, LenProperties DEF Notify
<1>2. rows \in Seq(NotificationRow)
  BY <1>1 DEF FreshRow
<1>3. inbox \in Seq(NotificationRow) /\ Len(inbox) \in Nat /\ DOMAIN inbox = 1 .. Len(inbox)
  BY InboxFields
<1>4. /\ inbox' \in Seq(NotificationRow) /\ Len(inbox') = Len(inbox) + Len(rows)
      /\ \A i \in 1 .. Len(inbox) + Len(rows) :
            inbox'[i] = IF i <= Len(inbox) THEN inbox[i] ELSE rows[i - Len(inbox)]
  BY <1>1, <1>2, <1>3, ConcatProperties
<1>5. DOMAIN inbox' = 1 .. Len(inbox')
  BY <1>4
<1>6. \A n \in DOMAIN inbox' \ DOMAIN inbox : inbox'[n] \in FreshRow
  <2> SUFFICES ASSUME NEW n \in DOMAIN inbox' \ DOMAIN inbox PROVE inbox'[n] \in FreshRow
    OBVIOUS
  <2>1. n - Len(inbox) \in 1 .. Len(rows) /\ inbox'[n] = rows[n - Len(inbox)]
    BY <1>1, <1>3, <1>4, <1>5
  <2> QED BY <1>1, <2>1, ElementOfSeq
<1>7. \A n \in DOMAIN inbox : inbox'[n] = inbox[n] /\ n \in DOMAIN inbox'
  BY <1>1, <1>3, <1>4, <1>5
<1> QED BY <1>1, <1>3, <1>4, <1>5, <1>6, <1>7

LEMMA NotifyKeeps == ASSUME NotifyInv, NEW k \in Kinds, Notify(k) PROVE NotifyInv'
<1>1. UNCHANGED <<pref, chat, prefEdits>> /\ UNCHANGED <<nbatch, ntodo, delivered, ncrashes, lost>>
  BY NotifyAppends DEF user, sending
<1>2. DOMAIN inbox \subseteq DOMAIN inbox' /\ \A n \in DOMAIN inbox : inbox'[n] = inbox[n]
  BY NotifyAppends
<1>3. ASSUME NEW n \in DOMAIN inbox' \ DOMAIN inbox
      PROVE  /\ n \in 1 .. MaxRows /\ delivered[n] = 0 /\ ~InBatch(n)
             /\ TrueOf(inbox'[n], delivered[n])
  <2>1. n \in 1 .. MaxRows
    BY NotifyAppends, NotificationAssumption
  <2>2. delivered[n] = 0 /\ ~InBatch(n)
    BY <2>1 DEF NotifyInv, CopiesInv, InBatch, BatchInv
  <2>3. inbox'[n] \in FreshRow
    BY NotifyAppends
  <2>4. TrueOf(inbox'[n], delivered[n])
    BY <2>3, TriesPositive DEF FreshRow, TrueOf
  <2> QED BY <2>1, <2>2, <2>4
<1>4. NotificationTypeOK'
  <2>1. ntodo' \subseteq DOMAIN inbox'
    BY <1>1, <1>2 DEF NotifyInv, NotificationTypeOK
  <2>2. inbox' \in Seq(NotificationRow)
    BY NotifyAppends
  <2> QED BY <1>1, <2>1, <2>2 DEF NotifyInv, NotificationTypeOK
<1>5. InboxInv'
  <2>1. \A n \in DOMAIN inbox' : TrueOf(inbox'[n], delivered[n])
    BY <1>2, <1>3 DEF NotifyInv, InboxInv
  <2> QED BY <1>1, <2>1, NotifyAppends DEF InboxInv
<1>6. BatchInv'
  BY <1>1, <1>2 DEF NotifyInv, BatchInv
<1>7. CopiesInv'
  <2> SUFFICES ASSUME NEW n \in 1 .. MaxRows
               PROVE  /\ delivered[n] <= 1 + ncrashes + lost
                      /\ n \notin DOMAIN inbox' => delivered[n] = 0
                      /\ n \in DOMAIN inbox' /\ inbox'[n].status # "sent" /\ ~InBatch(n) => delivered[n] <= ncrashes + lost
                      /\ InBatch(n) /\ nbatch[n].status # "sent" => delivered[n] <= ncrashes + lost
    BY <1>1 DEF CopiesInv, InBatch
  <2>1. CASE n \in DOMAIN inbox' \ DOMAIN inbox
    BY <2>1, <1>3, InboxFields
  <2>2. CASE n \in DOMAIN inbox
    BY <2>2, <1>2 DEF NotifyInv, CopiesInv
  <2>3. CASE n \notin DOMAIN inbox'
    BY <2>3, <1>2 DEF NotifyInv, CopiesInv
  <2> QED BY <2>1, <2>2, <2>3
<1> QED BY <1>4, <1>5, <1>6, <1>7 DEF NotifyInv

\* The dispatcher loads what is pending.
LEMMA DispatchKeeps == ASSUME NotifyInv, DispatchNotifications PROVE NotifyInv'
<1> PICK new : new = [n \in PendingRows |-> inbox[n]]
  OBVIOUS
<1>1. /\ nbatch = None /\ nbatch' = new /\ ntodo' = PendingRows
      /\ UNCHANGED <<user, inbox, delivered, ncrashes, lost>>
  BY DEF DispatchNotifications
<1>2. UNCHANGED <<pref, chat, prefEdits>>
  BY <1>1 DEF user
<1>3. PendingRows \subseteq DOMAIN inbox
      /\ \A n \in PendingRows : inbox[n].status = "pending" /\ inbox[n].channel # "in_app"
  BY DEF PendingRows
<1>4. DOMAIN new = PendingRows /\ \A n \in PendingRows : new[n] = inbox[n]
  OBVIOUS
<1>5. new \in [PendingRows -> NotificationRow]
  BY <1>3, InboxFields
<1>6. new # None
  <2>1. PendingRows \in SUBSET (1 .. MaxRows)
    BY <1>3, InboxFields
  <2> QED BY <2>1, <1>5, NotificationAssumption
<1>7. NotificationTypeOK'
  <2>1. \A n \in DOMAIN new : new[n] \in NotificationRow
    BY <1>4, <1>5
  <2> QED BY <1>1, <1>2, <1>3, <2>1 DEF NotifyInv, NotificationTypeOK
<1>8. InboxInv'
  BY <1>1 DEF NotifyInv, InboxInv
<1>9. BatchInv'
  <2>1. \A n \in DOMAIN new : TrueOf(new[n], delivered[n])
    BY <1>3, <1>4 DEF NotifyInv, InboxInv
  <2>2. new \in [DOMAIN new -> NotificationRow]
    BY <1>4, <1>5
  <2> QED BY <1>1, <1>3, <1>4, <1>6, <2>1, <2>2 DEF BatchInv
<1>10. CopiesInv'
  <2> SUFFICES ASSUME NEW n \in 1 .. MaxRows
               PROVE  /\ delivered[n] <= 1 + ncrashes + lost
                      /\ n \notin DOMAIN inbox => delivered[n] = 0
                      /\ n \in DOMAIN inbox /\ inbox[n].status # "sent" /\ n \notin PendingRows => delivered[n] <= ncrashes + lost
                      /\ n \in PendingRows /\ new[n].status # "sent" => delivered[n] <= ncrashes + lost
    BY <1>1, <1>4, <1>6 DEF CopiesInv, InBatch
  <2>1. ~InBatch(n)
    BY <1>1 DEF InBatch
  <2> QED BY <2>1, <1>3, <1>4 DEF NotifyInv, CopiesInv
<1> QED BY <1>7, <1>8, <1>9, <1>10 DEF NotifyInv

\* The row after a delivery.
LEMMA TriedRow ==
    ASSUME NEW r \in NotificationRow, r.status = "pending", r.attempt < MaxTries, NEW ok \in BOOLEAN
    PROVE  /\ Tried(r, ok) \in NotificationRow /\ Tried(r, ok).channel = r.channel
           /\ ok => Tried(r, ok).status = "sent"
           /\ ~ok => Tried(r, ok).status # "sent"
           /\ Tried(r, ok).status = "dead" => Tried(r, ok).attempt = MaxTries
           /\ Tried(r, ok).status = "pending" => Tried(r, ok).attempt < MaxTries
<1>1. r.attempt \in Nat /\ r.attempt + 1 \in 1 .. MaxTries /\ r.attempt + 1 \in 0 .. MaxTries
  BY RowFields, TriesPositive
<1>2. RetryTicks[r.attempt + 1] \in Nat
  <2>1. RetryTicks \in Seq(Nat)
    BY NotificationAssumption
  <2> QED BY <1>1, <2>1 DEF MaxTries
<1>3. CASE ok
  <2>1. Tried(r, ok) = [r EXCEPT !.status = "sent"]
    BY <1>3 DEF Tried
  <2>2. [r EXCEPT !.status = "sent"] \in NotificationRow
    BY DEF NotificationRow
  <2>3. [r EXCEPT !.status = "sent"].status = "sent" /\ [r EXCEPT !.status = "sent"].channel = r.channel
    BY DEF NotificationRow
  <2> QED BY <1>3, <2>1, <2>2, <2>3
<1>4. CASE ~ok /\ r.attempt + 1 >= MaxTries
  <2> PICK new : new = [[r EXCEPT !.attempt = r.attempt + 1] EXCEPT !.status = "dead"]
    OBVIOUS
  <2>1. Tried(r, ok) = new
    BY <1>4 DEF Tried
  <2>2. new \in NotificationRow
    BY <1>1 DEF NotificationRow
  <2>3. new.status = "dead" /\ new.channel = r.channel /\ new.attempt = r.attempt + 1
    BY DEF NotificationRow
  <2>4. r.attempt + 1 = MaxTries
    BY <1>1, <1>4, TriesPositive
  <2> QED BY <1>4, <2>1, <2>2, <2>3, <2>4
<1>5. CASE ~ok /\ ~(r.attempt + 1 >= MaxTries)
  <2> PICK new : new = [[r EXCEPT !.attempt = r.attempt + 1] EXCEPT !.wait = RetryTicks[r.attempt + 1]]
    OBVIOUS
  <2>1. Tried(r, ok) = new
    BY <1>5 DEF Tried
  <2>2. new \in NotificationRow
    BY <1>1, <1>2 DEF NotificationRow
  <2>3. new.status = r.status /\ new.channel = r.channel /\ new.attempt = r.attempt + 1
    BY DEF NotificationRow
  <2>4. r.attempt + 1 < MaxTries
    BY <1>1, <1>5, TriesPositive
  <2> QED BY <1>5, <2>1, <2>2, <2>3, <2>4
<1> QED BY <1>3, <1>4, <1>5

LEMMA DeliverKeeps ==
    ASSUME NotifyInv, NEW n \in 1 .. MaxRows, NEW arrives \in BOOLEAN, NEW ok \in BOOLEAN,
           Deliver(n, arrives, ok)
    PROVE  NotifyInv'
<1> PICK new : new = Tried(nbatch[n], ok)
  OBVIOUS
<1> PICK d : d = IF arrives THEN delivered[n] + 1 ELSE delivered[n]
  OBVIOUS
<1>1. /\ n \in ntodo /\ (ok => arrives) /\ (arrives /\ ~ok => lost < MaxLost)
      /\ nbatch' = [nbatch EXCEPT ![n] = new] /\ ntodo' = ntodo \ {n}
      /\ delivered' = [delivered EXCEPT ![n] = d]
      /\ lost' = IF arrives /\ ~ok THEN lost + 1 ELSE lost
      /\ UNCHANGED <<user, inbox, ncrashes>>
  BY DEF Deliver
<1>2. UNCHANGED <<pref, chat, prefEdits>>
  BY <1>1 DEF user
<1>3. /\ nbatch # None /\ nbatch \in [DOMAIN nbatch -> NotificationRow] /\ n \in DOMAIN nbatch
      /\ DOMAIN nbatch \subseteq DOMAIN inbox /\ ntodo \subseteq DOMAIN nbatch
      /\ nbatch[n].status = "pending" /\ nbatch[n].channel # "in_app" /\ TrueOf(nbatch[n], delivered[n])
  BY <1>1 DEF NotifyInv, BatchInv
<1>4. nbatch[n] \in NotificationRow /\ nbatch[n].attempt < MaxTries
  BY <1>3 DEF TrueOf
<1>5. /\ new \in NotificationRow /\ new.channel # "in_app"
      /\ ok => new.status = "sent"
      /\ ~ok => new.status # "sent"
      /\ new.status = "dead" => new.attempt = MaxTries
      /\ new.status = "pending" => new.attempt < MaxTries
  BY <1>3, <1>4, TriedRow
<1>6. DOMAIN nbatch' = DOMAIN nbatch /\ nbatch'[n] = new /\ nbatch' \in [DOMAIN nbatch -> NotificationRow]
      /\ \A m \in DOMAIN nbatch : m # n => nbatch'[m] = nbatch[m]
  BY <1>1, <1>3, <1>5
<1>7. nbatch' # None
  <2>1. DOMAIN nbatch \in SUBSET (1 .. MaxRows)
    BY <1>3, InboxFields
  <2> QED BY <1>6, <2>1, NotificationAssumption
<1>8. d \in Nat /\ delivered'[n] = d /\ delivered[n] <= d
      /\ \A m \in 1 .. MaxRows : m # n => delivered'[m] = delivered[m]
  BY <1>1, InboxFields DEF NotifyInv, NotificationTypeOK
<1>9. InBatch(n) /\ delivered[n] <= ncrashes + lost
  BY <1>3 DEF NotifyInv, CopiesInv, InBatch
<1>10. lost' \in 0 .. MaxLost /\ lost <= lost' /\ (arrives /\ ~ok => lost' = lost + 1)
  <2>1. lost \in 0 .. MaxLost /\ MaxLost \in Nat /\ lost \in Nat
    BY NotificationAssumption DEF NotifyInv, NotificationTypeOK
  <2>2. CASE arrives /\ ~ok
    <3>1. lost' = lost + 1 /\ lost < MaxLost
      BY <1>1, <2>2
    <3> QED BY <2>1, <2>2, <3>1
  <2>3. CASE ~(arrives /\ ~ok)
    <3>1. lost' = lost
      BY <1>1, <2>3
    <3> QED BY <2>1, <2>3, <3>1
  <2> QED BY <2>2, <2>3
<1>11. /\ d <= 1 + ncrashes + lost'
       /\ new.status # "sent" => d <= ncrashes + lost'
       /\ new.status = "sent" => d > 0
  <2>0. delivered[n] \in Nat /\ ncrashes \in Nat /\ lost \in Nat /\ lost' \in Nat
    BY <1>10, InboxFields
  <2>1. CASE ok
    <3>1. d = delivered[n] + 1 /\ new.status = "sent"
      BY <2>1, <1>1, <1>5
    <3> QED BY <2>0, <3>1, <1>9, <1>10
  <2>2. CASE ~ok /\ arrives
    <3>1. d = delivered[n] + 1 /\ new.status # "sent" /\ lost' = lost + 1
      BY <2>2, <1>5, <1>10
    <3> QED BY <2>0, <3>1, <1>9
  <2>3. CASE ~ok /\ ~arrives
    <3>1. d = delivered[n] /\ new.status # "sent"
      BY <2>3, <1>5
    <3> QED BY <2>0, <3>1, <1>9, <1>10
  <2> QED BY <2>1, <2>2, <2>3
<1>12. NotificationTypeOK'
  <2>1. delivered' \in [1 .. MaxRows -> Nat]
    BY <1>1, <1>8 DEF NotifyInv, NotificationTypeOK
  <2>2. \A m \in DOMAIN nbatch' : nbatch'[m] \in NotificationRow
    BY <1>6
  <2>3. ntodo' \subseteq DOMAIN inbox
    BY <1>1, <1>3
  <2> QED BY <1>1, <1>2, <1>10, <2>1, <2>2, <2>3 DEF NotifyInv, NotificationTypeOK
<1>13. InboxInv'
  <2>1. ASSUME NEW m \in DOMAIN inbox PROVE TrueOf(inbox[m], delivered'[m])
    <3>1. TrueOf(inbox[m], delivered[m]) /\ m \in 1 .. MaxRows
      BY InboxFields DEF NotifyInv, InboxInv
    <3>2. CASE m # n
      BY <3>1, <3>2, <1>8
    <3>3. CASE m = n
      BY <3>1, <3>3, <1>8, InboxFields DEF TrueOf
    <3> QED BY <3>2, <3>3
  <2> QED BY <1>1, <2>1, InboxFields DEF InboxInv
<1>14. BatchInv'
  <2> SUFFICES ASSUME NEW m \in DOMAIN nbatch
               PROVE  /\ inbox[m].status = "pending" /\ nbatch'[m].channel # "in_app"
                      /\ m \in ntodo' => nbatch'[m].status = "pending"
                      /\ TrueOf(nbatch'[m], delivered'[m])
    BY <1>1, <1>3, <1>6, <1>7 DEF BatchInv
  <2>1. /\ inbox[m].status = "pending" /\ nbatch[m].channel # "in_app" /\ m \in 1 .. MaxRows
        /\ m \in ntodo => nbatch[m].status = "pending"
        /\ TrueOf(nbatch[m], delivered[m])
    BY <1>3, InboxFields DEF NotifyInv, BatchInv
  <2>2. CASE m # n
    BY <2>1, <2>2, <1>1, <1>6, <1>8
  <2>3. CASE m = n
    BY <2>1, <2>3, <1>1, <1>5, <1>6, <1>8, <1>11 DEF TrueOf
  <2> QED BY <2>2, <2>3
<1>15. CopiesInv'
  <2>1. \A m \in 1 .. MaxRows : InBatch(m)' <=> InBatch(m)
    BY <1>3, <1>6, <1>7 DEF InBatch
  <2> SUFFICES ASSUME NEW m \in 1 .. MaxRows
               PROVE  /\ delivered'[m] <= 1 + ncrashes + lost'
                      /\ m \notin DOMAIN inbox => delivered'[m] = 0
                      /\ m \in DOMAIN inbox /\ inbox[m].status # "sent" /\ ~InBatch(m) => delivered'[m] <= ncrashes + lost'
                      /\ InBatch(m) /\ nbatch'[m].status # "sent" => delivered'[m] <= ncrashes + lost'
    BY <2>1, <1>1 DEF CopiesInv
  <2>2. CASE m = n
    BY <2>2, <1>3, <1>6, <1>8, <1>9, <1>11
  <2>3. CASE m # n
    <3>1. delivered'[m] = delivered[m] /\ (InBatch(m) => nbatch'[m] = nbatch[m])
      BY <2>3, <1>6, <1>8 DEF InBatch
    <3>2. /\ delivered[m] <= 1 + ncrashes + lost
          /\ m \notin DOMAIN inbox => delivered[m] = 0
          /\ m \in DOMAIN inbox /\ inbox[m].status # "sent" /\ ~InBatch(m) => delivered[m] <= ncrashes + lost
          /\ InBatch(m) /\ nbatch[m].status # "sent" => delivered[m] <= ncrashes + lost
      BY DEF NotifyInv, CopiesInv
    <3>3. delivered[m] \in Nat /\ ncrashes \in Nat /\ lost \in Nat /\ lost' \in Nat
      BY <1>10, InboxFields
    <3> QED BY <3>1, <3>2, <3>3, <1>10
  <2> QED BY <2>2, <2>3
<1> QED BY <1>12, <1>13, <1>14, <1>15 DEF NotifyInv

\* The columns the dispatcher writes are those of its batch.
LEMMA WrittenRow ==
    ASSUME NotifyInv, NEW n \in DOMAIN inbox, nbatch # None, n \in DOMAIN nbatch
    PROVE  /\ Written(n) \in NotificationRow /\ Written(n).read = inbox[n].read
           /\ Written(n).channel = nbatch[n].channel /\ Written(n).status = nbatch[n].status
           /\ Written(n).attempt = nbatch[n].attempt
<1>1. nbatch[n] \in NotificationRow /\ inbox[n].read \in BOOLEAN /\ inbox[n].recent \in BOOLEAN
  BY InboxFields, RowFields DEF NotifyInv, BatchInv
<1> PICK new : new = [[nbatch[n] EXCEPT !.read = inbox[n].read] EXCEPT !.recent = inbox[n].recent]
  OBVIOUS
<1>2. Written(n) = new
  BY DEF Written
<1>3. new \in NotificationRow
  BY <1>1 DEF NotificationRow
<1>4. /\ new.read = inbox[n].read /\ new.channel = nbatch[n].channel /\ new.status = nbatch[n].status
      /\ new.attempt = nbatch[n].attempt
  BY <1>1 DEF NotificationRow
<1> QED BY <1>2, <1>3, <1>4

LEMMA CommitNotificationsKeeps == ASSUME NotifyInv, DispatchNotificationsCommit PROVE NotifyInv'
<1>1. /\ nbatch # None /\ ntodo = {} /\ nbatch' = None
      /\ inbox' = [n \in DOMAIN inbox |-> IF n \in DOMAIN nbatch THEN Written(n) ELSE inbox[n]]
      /\ UNCHANGED <<user, ntodo, delivered, ncrashes, lost>>
  BY DEF DispatchNotificationsCommit
<1>2. UNCHANGED <<pref, chat, prefEdits>>
  BY <1>1 DEF user
<1>3. ASSUME NEW n \in DOMAIN inbox
      PROVE  /\ inbox'[n] \in NotificationRow /\ TrueOf(inbox'[n], delivered[n])
             /\ inbox'[n].status # "sent" => delivered[n] <= ncrashes + lost
  <2>0. n \in 1 .. MaxRows
    BY InboxFields
  <2>1. CASE n \in DOMAIN nbatch
    <3>1. inbox'[n] = Written(n) /\ InBatch(n)
      BY <1>1, <2>1 DEF InBatch
    <3>2. TrueOf(nbatch[n], delivered[n]) /\ (nbatch[n].status # "sent" => delivered[n] <= ncrashes + lost)
      BY <2>0, <2>1, <3>1 DEF InBatch, NotifyInv, BatchInv, CopiesInv
    <3> QED BY <1>1, <2>1, <3>1, <3>2, WrittenRow DEF TrueOf
  <2>2. CASE n \notin DOMAIN nbatch
    <3>1. inbox'[n] = inbox[n] /\ ~InBatch(n)
      BY <1>1, <2>2 DEF InBatch
    <3> QED BY <2>0, <3>1, InboxFields DEF NotifyInv, InboxInv, CopiesInv
  <2> QED BY <2>1, <2>2
<1>4. inbox' \in [DOMAIN inbox -> NotificationRow]
  BY <1>1, <1>3
<1>5. inbox' \in Seq(NotificationRow) /\ Len(inbox') = Len(inbox) /\ DOMAIN inbox' = DOMAIN inbox
  BY <1>4, TableOf
<1>6. NotificationTypeOK'
  BY <1>1, <1>2, <1>5 DEF NotifyInv, NotificationTypeOK
<1>7. InboxInv'
  BY <1>1, <1>3, <1>5 DEF NotifyInv, InboxInv
<1>8. BatchInv'
  BY <1>1 DEF BatchInv
<1>9. CopiesInv'
  <2>1. \A n \in 1 .. MaxRows : ~InBatch(n)'
    BY <1>1 DEF InBatch
  <2>2. \A n \in 1 .. MaxRows : delivered[n] <= 1 + ncrashes + lost /\ (n \notin DOMAIN inbox => delivered[n] = 0)
    BY DEF NotifyInv, CopiesInv
  <2> QED BY <1>1, <1>3, <1>5, <2>1, <2>2 DEF CopiesInv
<1> QED BY <1>6, <1>7, <1>8, <1>9 DEF NotifyInv

LEMMA SchedulerCrashKeeps == ASSUME NotifyInv, SchedulerCrash PROVE NotifyInv'
<1>1. /\ nbatch' = None /\ ntodo' = {} /\ ncrashes < MaxNCrashes /\ ncrashes' = ncrashes + 1
      /\ UNCHANGED <<user, inbox, delivered, lost>>
  BY DEF SchedulerCrash
<1>2. UNCHANGED <<pref, chat, prefEdits>>
  BY <1>1 DEF user
<1>3. ncrashes' \in 0 .. MaxNCrashes
  BY <1>1, InboxFields, NotificationAssumption DEF NotifyInv, NotificationTypeOK
<1>4. NotificationTypeOK'
  BY <1>1, <1>2, <1>3 DEF NotifyInv, NotificationTypeOK
<1>5. InboxInv' /\ BatchInv'
  BY <1>1 DEF NotifyInv, InboxInv, BatchInv
<1>6. CopiesInv'
  <2>1. \A n \in 1 .. MaxRows : /\ delivered[n] <= 1 + ncrashes + lost /\ delivered[n] \in Nat
                                /\ n \notin DOMAIN inbox => delivered[n] = 0
    BY InboxFields DEF NotifyInv, CopiesInv
  <2>2. \A n \in 1 .. MaxRows : ~InBatch(n)'
    BY <1>1 DEF InBatch
  <2>3. ncrashes \in Nat /\ lost \in Nat
    BY InboxFields
  <2>4. \A n \in 1 .. MaxRows : delivered[n] <= ncrashes' + lost /\ delivered[n] <= 1 + ncrashes' + lost
    BY <1>1, <2>1, <2>3
  <2> QED BY <1>1, <2>1, <2>2, <2>4 DEF CopiesInv
<1> QED BY <1>4, <1>5, <1>6 DEF NotifyInv

LEMMA NotifyStep == NotifyInv /\ [NNext]_nVars => NotifyInv'
<1> SUFFICES ASSUME NotifyInv, [NNext]_nVars PROVE NotifyInv'
  OBVIOUS
<1>1. ASSUME NEW k \in Kinds, Notify(k) PROVE NotifyInv'
  BY <1>1, NotifyKeeps
<1>2. CASE SubscriptionExpiringSoon \/ BroadcastNotification \/ \E k \in Kinds : AdminNotifyUser(k)
  BY <1>1, <1>2, NotificationAssumption DEF SubscriptionExpiringSoon, BroadcastNotification, AdminNotifyUser
<1>3. CASE MarkAllRead \/ NTick \/ Age \/ \E n \in DOMAIN inbox : MarkRead(n)
  BY <1>3, MarkAllReadMarks, NTickMarks, AgeMarks, MarkReadMarks, OnlyMarksKeeps
<1>4. CASE ChatChanges
  BY <1>4, ChatChangesKeeps
<1>5. ASSUME NEW x \in Choices,
             MuteNotification(x[1], x[2]) \/ UpdatePreferences(x[1], [c \in {x[2]} |-> x[3]])
      PROVE  NotifyInv'
  <2>1. x[1] \in Kinds /\ x[2] \in Channels /\ x[3] \in BOOLEAN
    BY NotificationAssumption
  <2> QED BY <1>5, <2>1, MuteKeeps, UpdatePreferencesKeeps
<1>6. CASE DispatchNotifications
  BY <1>6, DispatchKeeps
<1>7. CASE DispatchNotificationsCommit
  BY <1>7, CommitNotificationsKeeps
<1>8. CASE SchedulerCrash
  BY <1>8, SchedulerCrashKeeps
<1>9. ASSUME NEW n \in 1 .. MaxRows, NEW arrives \in BOOLEAN, NEW ok \in BOOLEAN, Deliver(n, arrives, ok)
      PROVE  NotifyInv'
  BY <1>9, DeliverKeeps
<1>10. CASE UNCHANGED nVars
  <2>1. UNCHANGED <<pref, chat, inbox, nbatch, ntodo, delivered, ncrashes, lost, prefEdits>>
    BY <1>10 DEF nVars
  <2>2. NotificationTypeOK'
    BY <2>1 DEF NotifyInv, NotificationTypeOK
  <2>3. InboxInv' /\ BatchInv'
    BY <2>1 DEF NotifyInv, InboxInv, BatchInv
  <2>4. CopiesInv'
    BY <2>1 DEF NotifyInv, CopiesInv, InBatch
  <2> QED BY <2>2, <2>3, <2>4 DEF NotifyInv
<1> QED BY <1>2, <1>3, <1>4, <1>5, <1>6, <1>7, <1>8, <1>9, <1>10 DEF NNext

LEMMA NotifyConclusion == NotifyInv => NotificationsHold
<1> SUFFICES ASSUME NotifyInv PROVE NotificationsHold
  OBVIOUS
<1>1. OneCopyPerFault
  BY DEF NotifyInv, CopiesInv, OneCopyPerFault
<1>2. OutcomeIsTrue
  BY DEF NotifyInv, InboxInv, TrueOf, OutcomeIsTrue
<1> QED BY <1>1, <1>2 DEF NotifyInv, NotificationsHold

\* A notification reaches the user once, and once more at most for every crash
\* and every lost answer, and a row marked as sent or dead is so
\* (dispatch_pending_notifications), for any number of rows and tries.
THEOREM NotificationsAreTrue == NSpec => []NotificationsHold
<1>1. NInit => NotifyInv
  BY NotifyInit
<1>2. NotifyInv /\ [NNext]_nVars => NotifyInv'
  BY NotifyStep
<1>3. NotifyInv => NotificationsHold
  BY NotifyConclusion
<1> QED BY <1>1, <1>2, <1>3, PTL DEF NSpec

LEMMA ReadStep ==
    NotifyInv /\ [NNext]_nVars => [\A n \in DOMAIN inbox : inbox[n].read => inbox'[n].read]_nVars
<1> SUFFICES ASSUME NotifyInv, NNext, NEW n \in DOMAIN inbox, inbox[n].read PROVE inbox'[n].read
  OBVIOUS
<1>1. ASSUME NEW k \in Kinds, Notify(k) PROVE inbox'[n].read
  BY <1>1, NotifyAppends
<1>2. CASE SubscriptionExpiringSoon \/ BroadcastNotification \/ \E k \in Kinds : AdminNotifyUser(k)
  BY <1>1, <1>2, NotificationAssumption DEF SubscriptionExpiringSoon, BroadcastNotification, AdminNotifyUser
<1>3. CASE MarkAllRead \/ NTick \/ Age \/ \E m \in DOMAIN inbox : MarkRead(m)
  <2>1. OnlyMarks
    BY <1>3, MarkAllReadMarks, NTickMarks, AgeMarks, MarkReadMarks
  <2> QED BY <2>1 DEF OnlyMarks
<1>4. CASE DispatchNotificationsCommit
  <2>1. /\ nbatch # None
        /\ inbox' = [m \in DOMAIN inbox |-> IF m \in DOMAIN nbatch THEN Written(m) ELSE inbox[m]]
    BY <1>4 DEF DispatchNotificationsCommit
  <2>2. CASE n \in DOMAIN nbatch
    BY <2>1, <2>2, WrittenRow
  <2>3. CASE n \notin DOMAIN nbatch
    BY <2>1, <2>3
  <2> QED BY <2>2, <2>3
<1>5. CASE inbox' = inbox
  BY <1>5
<1>6. ASSUME NEW x \in Choices,
             MuteNotification(x[1], x[2]) \/ UpdatePreferences(x[1], [c \in {x[2]} |-> x[3]])
      PROVE  inbox' = inbox
  BY <1>6 DEF MuteNotification, UpdatePreferences
<1>7. ChatChanges \/ DispatchNotifications \/ SchedulerCrash => inbox' = inbox
  BY DEF ChatChanges, DispatchNotifications, SchedulerCrash
<1>8. ASSUME NEW m \in 1 .. MaxRows, NEW arrives \in BOOLEAN, NEW ok \in BOOLEAN, Deliver(m, arrives, ok)
      PROVE  inbox' = inbox
  BY <1>8 DEF Deliver
<1> QED BY <1>2, <1>3, <1>4, <1>5, <1>6, <1>7, <1>8 DEF NNext

\* What the user has marked as read stays so, although the dispatcher writes
\* rows it has loaded before (mark_notification_read).
THEOREM ReadMarksStay == NSpec => ReadStaysRead
<1>1. NInit => NotifyInv
  BY NotifyInit
<1>2. NotifyInv /\ [NNext]_nVars => NotifyInv'
  BY NotifyStep
<1>3. NotifyInv /\ [NNext]_nVars => [\A n \in DOMAIN inbox : inbox[n].read => inbox'[n].read]_nVars
  BY ReadStep
<1> QED BY <1>1, <1>2, <1>3, PTL DEF NSpec, ReadStaysRead
\* The rows of three tables that follow one another are rows of one of them.
LEMMA ThreeTables ==
    ASSUME NEW S, NEW a \in Seq(S), NEW b \in Seq(S), NEW d \in Seq(S),
           NEW n \in 1 .. Len(a \o b \o d)
    PROVE  \/ n \in 1 .. Len(a) /\ (a \o b \o d)[n] = a[n]
           \/ n - Len(a) \in 1 .. Len(b) /\ (a \o b \o d)[n] = b[n - Len(a)]
           \/ n - Len(a) - Len(b) \in 1 .. Len(d) /\ (a \o b \o d)[n] = d[n - Len(a) - Len(b)]
  OBVIOUS

LEMMA OnlyOne == ASSUME NEW l \in 0 .. 1, NEW m \in 1 .. l PROVE m = 1 /\ l = 1
  OBVIOUS

\* notify adds at most one row for a channel.
LEMMA OneRowPerChannel ==
    ASSUME NotifyInv, NEW k \in Kinds,
           NEW i \in 1 .. Len(NotifyRows(k)), NEW j \in 1 .. Len(NotifyRows(k)),
           NotifyRows(k)[i].channel = NotifyRows(k)[j].channel
    PROVE  i = j
<1> DEFINE a == ChannelRows(k, "in_app")
           b == ChannelRows(k, "email")
           d == ChannelRows(k, "telegram")
           s == NotifyRows(k)
<1>1. a \in Seq(FreshRow) /\ b \in Seq(FreshRow) /\ d \in Seq(FreshRow)
  BY ChannelRowsFresh DEF Channels
<1>2. /\ Len(a) = 0 \/ (Len(a) = 1 /\ a[1].channel = "in_app")
      /\ Len(b) = 0 \/ (Len(b) = 1 /\ b[1].channel = "email")
      /\ Len(d) = 0 \/ (Len(d) = 1 /\ d[1].channel = "telegram")
  BY DEF ChannelRows, NewRow
<1>3. s = a \o b \o d
  BY DEF NotifyRows
<1> HIDE DEF a, b, d, s
<1>4. ASSUME NEW n \in 1 .. Len(s)
      PROVE  \/ n \in 1 .. Len(a) /\ s[n] = a[n]
             \/ n - Len(a) \in 1 .. Len(b) /\ s[n] = b[n - Len(a)]
             \/ n - Len(a) - Len(b) \in 1 .. Len(d) /\ s[n] = d[n - Len(a) - Len(b)]
  BY <1>1, <1>3, <1>4, ThreeTables
<1>5. ASSUME NEW n \in 1 .. Len(s)
      PROVE  \/ n = 1 /\ s[n].channel = "in_app"
             \/ n = Len(a) + 1 /\ s[n].channel = "email"
             \/ n = Len(a) + Len(b) + 1 /\ s[n].channel = "telegram"
  <2>1. Len(a) \in 0 .. 1 /\ Len(b) \in 0 .. 1 /\ Len(d) \in 0 .. 1 /\ n \in Int
    BY <1>2
  <2>2. CASE n \in 1 .. Len(a) /\ s[n] = a[n]
    <3>1. n = 1 /\ Len(a) = 1
      BY <2>1, <2>2, OnlyOne
    <3> QED BY <1>2, <2>2, <3>1
  <2>3. CASE n - Len(a) \in 1 .. Len(b) /\ s[n] = b[n - Len(a)]
    <3>1. n - Len(a) = 1 /\ Len(b) = 1
      BY <2>1, <2>3, OnlyOne
    <3> QED BY <1>2, <2>1, <2>3, <3>1
  <2>4. CASE n - Len(a) - Len(b) \in 1 .. Len(d) /\ s[n] = d[n - Len(a) - Len(b)]
    <3>1. n - Len(a) - Len(b) = 1 /\ Len(d) = 1
      BY <2>1, <2>4, OnlyOne
    <3> QED BY <1>2, <2>1, <2>4, <3>1
  <2> QED BY <1>4, <2>2, <2>3, <2>4
<1>6. i \in 1 .. Len(s) /\ j \in 1 .. Len(s) /\ s[i].channel = s[j].channel
  BY DEF s
<1> QED BY <1>5, <1>6

LEMMA ToldStep ==
    ASSUME NotifyInv, SubscriptionExpiringSoon, NEW c \in Channels
    PROVE  Cardinality({n \in DOMAIN inbox' : inbox'[n].kind = Expiring /\ inbox'[n].channel = c
                                              /\ inbox'[n].recent}) <= 1
<1> DEFINE rows == NotifyRows(Expiring)
           recent3 == {n \in DOMAIN inbox' : inbox'[n].kind = Expiring /\ inbox'[n].channel = c /\ inbox'[n].recent}
<1>1. Expiring \in Kinds /\ Notify(Expiring) /\ NotYetTold
  BY NotificationAssumption DEF SubscriptionExpiringSoon
<1>2. rows \in Seq(FreshRow) /\ Len(rows) \in Nat
  BY <1>1, NotifyRowsFresh, LenProperties
<1>3. inbox \in Seq(NotificationRow) /\ Len(inbox) \in Nat /\ DOMAIN inbox = 1 .. Len(inbox)
  BY InboxFields
<1>4. inbox' = inbox \o rows
  BY <1>1 DEF Notify
<1>5. /\ DOMAIN inbox' = 1 .. Len(inbox) + Len(rows)
      /\ \A n \in 1 .. Len(inbox) : inbox'[n] = inbox[n]
      /\ \A n \in 1 .. Len(inbox) + Len(rows) : n > Len(inbox) => inbox'[n] = rows[n - Len(inbox)]
  BY <1>2, <1>3, <1>4
<1>6. \A n \in recent3 : n - Len(inbox) \in 1 .. Len(rows) /\ rows[n - Len(inbox)].channel = c
  BY <1>1, <1>2, <1>3, <1>5 DEF NotYetTold
<1>7. \A n, m \in recent3 : n = m
  <2> SUFFICES ASSUME NEW n \in recent3, NEW m \in recent3 PROVE n = m
    OBVIOUS
  <2>1. n - Len(inbox) = m - Len(inbox)
    BY <1>1, <1>6, OneRowPerChannel
  <2> QED BY <1>2, <1>3, <1>5, <2>1
<1>8. recent3 = {} \/ \E n : recent3 = {n}
  BY <1>7
<1>9. Cardinality(recent3) \in {0, 1}
  BY <1>8, FS_EmptySet, FS_Singleton
<1> QED BY <1>9

\* The job tells the user of the end of a plan at most once in three days on
\* each channel, whatever else the inbox holds (subscription_expiring_soon_job).
THEOREM ExpiryIsToldOnce == NSpec => ToldOnceInThreeDays
<1>1. NInit => NotifyInv
  BY NotifyInit
<1>2. NotifyInv /\ [NNext]_nVars => NotifyInv'
  BY NotifyStep
<1>3. NotifyInv /\ [NNext]_nVars =>
        [SubscriptionExpiringSoon => \A c \in Channels :
           Cardinality({n \in DOMAIN inbox' : inbox'[n].kind = Expiring /\ inbox'[n].channel = c
                                              /\ inbox'[n].recent}) <= 1]_nVars
  BY ToldStep
<1> QED BY <1>1, <1>2, <1>3, PTL DEF NSpec, ToldOnceInThreeDays
-----------------------------------------------------------------------------
(* The usage meter                                                         *)

\* A process without a transaction has swapped nothing out.
SwapInv == \A p \in Procs \ flushing : snapshot[p] = Nothing

\* Finitely many calls wait.
FiniteInv ==
    \A k \in Buckets : IsFiniteSet(Numbered(Waiting(k))) /\ IsFiniteSet(Numbered(WaitingErrors(k)))

UsageInv == UsageHolds /\ SwapInv /\ FiniteInv

LEMMA NumberedRow ==
    ASSUME NEW p, NEW n \in Nat
    PROVE  IsFiniteSet({p} \X (1 .. n)) /\ Cardinality({p} \X (1 .. n)) = n
<1>1. IsFiniteSet(1 .. n) /\ Cardinality(1 .. n) = n
  BY FS_Interval
<1>2. IsFiniteSet({p}) /\ Cardinality({p}) = 1
  BY FS_Singleton
<1>3. IsFiniteSet({p} \X (1 .. n)) /\ Cardinality({p} \X (1 .. n)) = Cardinality({p}) * Cardinality(1 .. n)
  BY <1>1, <1>2, FS_Product, Zenon
<1> QED BY <1>1, <1>2, <1>3

\* When the number of one process changes, the sum changes by as much.
LEMMA NumberedChange ==
    ASSUME NEW f \in [Procs -> Nat], NEW g \in [Procs -> Nat], NEW p \in Procs,
           \A q \in Procs : q # p => g[q] = f[q], IsFiniteSet(Numbered(f))
    PROVE  /\ IsFiniteSet(Numbered(g))
           /\ Cardinality(Numbered(f)) \in Nat /\ Cardinality(Numbered(g)) \in Nat
           /\ Cardinality(Numbered(g)) + f[p] = Cardinality(Numbered(f)) + g[p]
<1>0. PICK others : others = UNION {{q} \X (1 .. f[q]) : q \in Procs \ {p}}
  OBVIOUS
<1>1. PICK old, new : old = {p} \X (1 .. f[p]) /\ new = {p} \X (1 .. g[p])
  OBVIOUS
<1>2. Numbered(f) = others \cup old
  BY <1>0, <1>1 DEF Numbered
<1>3. Numbered(g) = others \cup new
  BY <1>0, <1>1 DEF Numbered
<1>4. others \cap old = {} /\ others \cap new = {}
  BY <1>0, <1>1
<1>5. IsFiniteSet(others)
  BY <1>2, FS_Subset
<1>6. IsFiniteSet(old) /\ Cardinality(old) = f[p] /\ IsFiniteSet(new) /\ Cardinality(new) = g[p]
  BY <1>1, NumberedRow
<1>7. Cardinality(others) \in Nat /\ Cardinality({}) = 0
  BY <1>5, FS_CardinalityType, FS_EmptySet
<1>8. Cardinality(others \cup old) = Cardinality(others) + Cardinality(old) - Cardinality(others \cap old)
  BY <1>5, <1>6, FS_Union
<1>9. /\ IsFiniteSet(others \cup new)
      /\ Cardinality(others \cup new) = Cardinality(others) + Cardinality(new) - Cardinality(others \cap new)
  BY <1>5, <1>6, FS_Union
<1>10. Cardinality(Numbered(f)) = Cardinality(others) + f[p] /\ Cardinality(Numbered(g)) = Cardinality(others) + g[p]
  <2>1. Cardinality(others \cap old) = 0 /\ Cardinality(others \cap new) = 0
    BY <1>4, <1>7
  <2>2. f[p] \in Nat /\ g[p] \in Nat
    OBVIOUS
  <2>3. Cardinality(others \cup old) = Cardinality(others) + f[p]
    BY <1>6, <1>7, <1>8, <2>1, <2>2
  <2>4. Cardinality(others \cup new) = Cardinality(others) + g[p]
    BY <1>6, <1>7, <1>9, <2>1, <2>2
  <2> QED BY <1>2, <1>3, <2>3, <2>4
<1> QED BY <1>3, <1>7, <1>9, <1>10

LEMMA PlusCounts ==
    ASSUME NEW a \in Counts, NEW b \in Counts
    PROVE  /\ Plus(a, b) \in Counts
           /\ \A k \in Buckets : /\ Plus(a, b)[k].count = a[k].count + b[k].count
                                 /\ Plus(a, b)[k].errors = a[k].errors + b[k].errors
  BY DEF Plus, Counts

LEMMA NothingCounts ==
    Nothing \in Counts /\ \A k \in Buckets : Nothing[k].count = 0 /\ Nothing[k].errors = 0
  BY DEF Nothing, Zero, Counts

LEMMA OneCounts == ASSUME NEW k \in Buckets, NEW error \in BOOLEAN PROVE One(k, error) \in Counts
<1>1. [count |-> 1, errors |-> IF error THEN 1 ELSE 0] \in [count : Nat, errors : Nat]
  OBVIOUS
<1> QED BY <1>1, NothingCounts DEF One, Counts

LEMMA CountFields ==
    ASSUME NEW a \in Counts, NEW k \in Buckets
    PROVE  a[k].count \in Nat /\ a[k].errors \in Nat
  BY DEF Counts

\* What enters and leaves buffer and snapshot of a process is what the table
\* and the histories say.
Moves(p, b, s) ==
    \A k \in Buckets :
        /\ usage'[k].count + b[k].count + s[k].count + gone'[k].count + made[k].count + twice[k].count
             = usage[k].count + buffer[p][k].count + snapshot[p][k].count + gone[k].count + made'[k].count + twice'[k].count
        /\ usage'[k].errors + b[k].errors + s[k].errors + gone'[k].errors + made[k].errors + twice[k].errors
             = usage[k].errors + buffer[p][k].errors + snapshot[p][k].errors + gone[k].errors + made'[k].errors + twice'[k].errors

\* A step that moves calls of one process keeps the sums.
LEMMA OneProcessMoves ==
    ASSUME UsageInv, NEW p \in Procs, NEW b \in Counts, NEW s \in Counts,
           buffer' = [buffer EXCEPT ![p] = b], snapshot' = [snapshot EXCEPT ![p] = s],
           usage' \in Counts, made' \in Counts, gone' \in Counts, twice' \in Counts, Moves(p, b, s),
           flushing' \subseteq up', up' \subseteq Procs, calls' \in 0 .. MaxCalls, faults' \in 0 .. MaxFaults,
           SwapInv'
    PROVE  UsageInv'
<1>1. /\ buffer \in [Procs -> Counts] /\ snapshot \in [Procs -> Counts]
      /\ usage \in Counts /\ made \in Counts /\ gone \in Counts /\ twice \in Counts
  BY DEF UsageInv, UsageHolds, UsageTypeOK
<1>2. /\ buffer' \in [Procs -> Counts] /\ snapshot' \in [Procs -> Counts]
      /\ buffer'[p] = b /\ snapshot'[p] = s
      /\ \A q \in Procs : q # p => buffer'[q] = buffer[q] /\ snapshot'[q] = snapshot[q]
  BY <1>1
<1>3. UsageTypeOK'
  BY <1>2 DEF UsageTypeOK
<1>4. ASSUME NEW k \in Buckets
      PROVE  /\ IsFiniteSet(Numbered(Waiting(k))')
             /\ usage'[k].count + Cardinality(Numbered(Waiting(k))') + gone'[k].count = made'[k].count + twice'[k].count
  <2>1. PICK f, g : f = Waiting(k) /\ g = Waiting(k)'
    OBVIOUS
  <2>2. /\ f \in [Procs -> Nat] /\ g \in [Procs -> Nat] /\ \A q \in Procs : q # p => g[q] = f[q]
        /\ f[p] = buffer[p][k].count + snapshot[p][k].count /\ g[p] = b[k].count + s[k].count
    BY <1>1, <1>2, <1>4, <2>1, CountFields DEF Waiting
  <2>3. IsFiniteSet(Numbered(f)) /\ usage[k].count + Cardinality(Numbered(f)) + gone[k].count = made[k].count + twice[k].count
    BY <1>4, <2>1 DEF UsageInv, UsageHolds, FiniteInv, UsageAddsUp
  <2>4. /\ IsFiniteSet(Numbered(g)) /\ Cardinality(Numbered(f)) \in Nat /\ Cardinality(Numbered(g)) \in Nat
        /\ Cardinality(Numbered(g)) + f[p] = Cardinality(Numbered(f)) + g[p]
    BY <2>2, <2>3, NumberedChange
  <2>5. /\ usage[k].count \in Nat /\ gone[k].count \in Nat /\ made[k].count \in Nat /\ twice[k].count \in Nat
        /\ usage'[k].count \in Nat /\ gone'[k].count \in Nat /\ made'[k].count \in Nat /\ twice'[k].count \in Nat
        /\ b[k].count \in Nat /\ s[k].count \in Nat /\ buffer[p][k].count \in Nat /\ snapshot[p][k].count \in Nat
    BY <1>1, <1>4, CountFields
  <2>6. usage'[k].count + Cardinality(Numbered(g)) + gone'[k].count = made'[k].count + twice'[k].count
    <3> DEFINE u == usage[k].count + gone[k].count
               v == usage'[k].count + gone'[k].count
               w == buffer[p][k].count + snapshot[p][k].count
               x == b[k].count + s[k].count
               y == made[k].count + twice[k].count
               z == made'[k].count + twice'[k].count
               c == Cardinality(Numbered(f))
               d == Cardinality(Numbered(g))
    <3>1. u \in Nat /\ v \in Nat /\ w \in Nat /\ x \in Nat /\ y \in Nat /\ z \in Nat /\ c \in Nat /\ d \in Nat
      BY <2>4, <2>5
    <3>2. v + x + y = u + w + z
      BY <1>4, <2>5 DEF Moves
    <3>3. u + c = y
      BY <2>3, <2>4, <2>5
    <3>4. d + w = c + x
      BY <2>2, <2>4
    <3> HIDE DEF u, v, w, x, y, z, c, d
    <3>5. v + d = z
      BY <3>1, <3>2, <3>3, <3>4
    <3> QED BY <2>4, <2>5, <3>5 DEF v, d, z
  <2>7. Numbered(Waiting(k))' = Numbered(g)
    BY <2>1 DEF Numbered
  <2> QED BY <2>4, <2>6, <2>7
<1>5. ASSUME NEW k \in Buckets
      PROVE  /\ IsFiniteSet(Numbered(WaitingErrors(k))')
             /\ usage'[k].errors + Cardinality(Numbered(WaitingErrors(k))') + gone'[k].errors = made'[k].errors + twice'[k].errors
  <2>1. PICK f, g : f = WaitingErrors(k) /\ g = WaitingErrors(k)'
    OBVIOUS
  <2>2. /\ f \in [Procs -> Nat] /\ g \in [Procs -> Nat] /\ \A q \in Procs : q # p => g[q] = f[q]
        /\ f[p] = buffer[p][k].errors + snapshot[p][k].errors /\ g[p] = b[k].errors + s[k].errors
    BY <1>1, <1>2, <1>5, <2>1, CountFields DEF WaitingErrors
  <2>3. IsFiniteSet(Numbered(f)) /\ usage[k].errors + Cardinality(Numbered(f)) + gone[k].errors = made[k].errors + twice[k].errors
    BY <1>5, <2>1 DEF UsageInv, UsageHolds, FiniteInv, UsageAddsUp
  <2>4. /\ IsFiniteSet(Numbered(g)) /\ Cardinality(Numbered(f)) \in Nat /\ Cardinality(Numbered(g)) \in Nat
        /\ Cardinality(Numbered(g)) + f[p] = Cardinality(Numbered(f)) + g[p]
    BY <2>2, <2>3, NumberedChange
  <2>5. /\ usage[k].errors \in Nat /\ gone[k].errors \in Nat /\ made[k].errors \in Nat /\ twice[k].errors \in Nat
        /\ usage'[k].errors \in Nat /\ gone'[k].errors \in Nat /\ made'[k].errors \in Nat /\ twice'[k].errors \in Nat
        /\ b[k].errors \in Nat /\ s[k].errors \in Nat /\ buffer[p][k].errors \in Nat /\ snapshot[p][k].errors \in Nat
    BY <1>1, <1>5, CountFields
  <2>6. usage'[k].errors + Cardinality(Numbered(g)) + gone'[k].errors = made'[k].errors + twice'[k].errors
    <3> DEFINE u == usage[k].errors + gone[k].errors
               v == usage'[k].errors + gone'[k].errors
               w == buffer[p][k].errors + snapshot[p][k].errors
               x == b[k].errors + s[k].errors
               y == made[k].errors + twice[k].errors
               z == made'[k].errors + twice'[k].errors
               c == Cardinality(Numbered(f))
               d == Cardinality(Numbered(g))
    <3>1. u \in Nat /\ v \in Nat /\ w \in Nat /\ x \in Nat /\ y \in Nat /\ z \in Nat /\ c \in Nat /\ d \in Nat
      BY <2>4, <2>5
    <3>2. v + x + y = u + w + z
      BY <1>5, <2>5 DEF Moves
    <3>3. u + c = y
      BY <2>3, <2>4, <2>5
    <3>4. d + w = c + x
      BY <2>2, <2>4
    <3> HIDE DEF u, v, w, x, y, z, c, d
    <3>5. v + d = z
      BY <3>1, <3>2, <3>3, <3>4
    <3> QED BY <2>4, <2>5, <3>5 DEF v, d, z
  <2>7. Numbered(WaitingErrors(k))' = Numbered(g)
    BY <2>1 DEF Numbered
  <2> QED BY <2>4, <2>6, <2>7
<1>6. UsageAddsUp' /\ FiniteInv'
  BY <1>4, <1>5 DEF UsageAddsUp, FiniteInv
<1> QED BY <1>3, <1>6 DEF UsageInv, UsageHolds

LEMMA UsageInit == UInit => UsageInv
<1> SUFFICES ASSUME UInit PROVE UsageInv
  OBVIOUS
<1>1. UsageTypeOK
  BY NothingCounts, UsageAssumption DEF UInit, UsageTypeOK
<1>2. SwapInv
  BY DEF UInit, SwapInv
<1>3. ASSUME NEW k \in Buckets PROVE Numbered(Waiting(k)) = {} /\ Numbered(WaitingErrors(k)) = {}
  <2>1. \A p \in Procs : Waiting(k)[p] = 0 /\ WaitingErrors(k)[p] = 0
    BY <1>3, NothingCounts DEF UInit, Waiting, WaitingErrors
  <2>2. 1 .. 0 = {}
    OBVIOUS
  <2> QED BY <2>1, <2>2 DEF Numbered
<1>4. FiniteInv
  BY <1>3, FS_EmptySet DEF FiniteInv
<1>5. UsageAddsUp
  BY <1>3, FS_EmptySet, NothingCounts DEF UsageAddsUp, UInit
<1> QED BY <1>1, <1>2, <1>4, <1>5 DEF UsageInv, UsageHolds

LEMMA UsageFields ==
    ASSUME UsageInv
    PROVE  /\ buffer \in [Procs -> Counts] /\ snapshot \in [Procs -> Counts]
           /\ usage \in Counts /\ made \in Counts /\ gone \in Counts /\ twice \in Counts
           /\ flushing \subseteq up /\ up \subseteq Procs /\ calls \in 0 .. MaxCalls /\ faults \in 0 .. MaxFaults
           /\ SwapInv
  BY DEF UsageInv, UsageHolds, UsageTypeOK

LEMMA RecordKeeps ==
    ASSUME UsageInv, NEW p \in Procs, NEW k \in Buckets, NEW error \in BOOLEAN, Record(p, k, error)
    PROVE  UsageInv'
<1>1. PICK one : one = One(k, error) /\ one \in Counts
  BY OneCounts
<1>2. /\ buffer' = [buffer EXCEPT ![p] = Plus(buffer[p], one)] /\ made' = Plus(made, one)
      /\ calls < MaxCalls /\ calls' = calls + 1
      /\ UNCHANGED <<snapshot, flushing, usage, up, faults, gone, twice>>
  BY <1>1 DEF Record
<1>3. buffer[p] \in Counts /\ snapshot[p] \in Counts
  BY UsageFields
<1>4. snapshot' = [snapshot EXCEPT ![p] = snapshot[p]]
  BY <1>2, UsageFields
<1>5. Plus(buffer[p], one) \in Counts /\ made' \in Counts
  BY <1>1, <1>2, <1>3, UsageFields, PlusCounts
<1>6. calls' \in 0 .. MaxCalls
  BY <1>2, UsageFields, UsageAssumption
<1>7. SwapInv'
  BY <1>2, UsageFields DEF SwapInv
<1>8. Moves(p, Plus(buffer[p], one), snapshot[p])
  <2> SUFFICES ASSUME NEW j \in Buckets
      PROVE  /\ usage[j].count + Plus(buffer[p], one)[j].count + snapshot[p][j].count + gone[j].count + made[j].count + twice[j].count
                  = usage[j].count + buffer[p][j].count + snapshot[p][j].count + gone[j].count + made'[j].count + twice[j].count
             /\ usage[j].errors + Plus(buffer[p], one)[j].errors + snapshot[p][j].errors + gone[j].errors + made[j].errors + twice[j].errors
                  = usage[j].errors + buffer[p][j].errors + snapshot[p][j].errors + gone[j].errors + made'[j].errors + twice[j].errors
    BY <1>2 DEF Moves
  <2>1. /\ Plus(buffer[p], one)[j].count = buffer[p][j].count + one[j].count
        /\ Plus(buffer[p], one)[j].errors = buffer[p][j].errors + one[j].errors
        /\ made'[j].count = made[j].count + one[j].count /\ made'[j].errors = made[j].errors + one[j].errors
    BY <1>1, <1>2, <1>3, UsageFields, PlusCounts
  <2>2. /\ one[j].count \in Nat /\ one[j].errors \in Nat
        /\ \A a \in {usage, made, gone, twice, buffer[p], snapshot[p]} : a[j].count \in Nat /\ a[j].errors \in Nat
    BY <1>1, <1>3, UsageFields, CountFields
  <2> QED BY <1>2, <2>1, <2>2
<1> QED BY <1>2, <1>3, <1>4, <1>5, <1>6, <1>7, <1>8, UsageFields, OneProcessMoves
\* What a process, the table and the histories count of a bucket are numbers.
LEMMA UsageNumbers ==
    ASSUME UsageInv, NEW p \in Procs, NEW k \in Buckets
    PROVE  /\ usage[k].count \in Nat /\ gone[k].count \in Nat /\ made[k].count \in Nat /\ twice[k].count \in Nat
           /\ usage[k].errors \in Nat /\ gone[k].errors \in Nat /\ made[k].errors \in Nat /\ twice[k].errors \in Nat
           /\ buffer[p][k].count \in Nat /\ snapshot[p][k].count \in Nat
           /\ buffer[p][k].errors \in Nat /\ snapshot[p][k].errors \in Nat
<1>1. buffer[p] \in Counts /\ snapshot[p] \in Counts
  BY UsageFields
<1> QED BY <1>1, UsageFields, CountFields

LEMMA FlushBeginKeeps == ASSUME UsageInv, NEW p \in Procs, FlushBegin(p) PROVE UsageInv'
<1>1. /\ buffer' = [buffer EXCEPT ![p] = Nothing] /\ snapshot' = [snapshot EXCEPT ![p] = buffer[p]]
      /\ p \in up /\ p \notin flushing /\ flushing' = flushing \cup {p}
      /\ UNCHANGED <<usage, up, calls, faults, made, gone, twice>>
  BY DEF FlushBegin, LoopRuns
<1>2. buffer[p] \in Counts /\ snapshot[p] = Nothing
  BY <1>1, UsageFields DEF SwapInv
<1>3. SwapInv'
  BY <1>1, UsageFields DEF SwapInv
<1>4. Moves(p, Nothing, buffer[p])
  BY <1>1, <1>2, UsageNumbers, NothingCounts DEF Moves
<1> QED BY <1>1, <1>2, <1>3, <1>4, UsageFields, NothingCounts, OneProcessMoves

LEMMA FlushCommitKeeps == ASSUME UsageInv, NEW p \in Procs, FlushCommit(p) PROVE UsageInv'
<1>1. /\ usage' = Plus(usage, snapshot[p]) /\ snapshot' = [snapshot EXCEPT ![p] = Nothing]
      /\ flushing' = flushing \ {p}
      /\ UNCHANGED <<buffer, up, calls, faults, made, gone, twice>>
  BY DEF FlushCommit, Upsert
<1>2. buffer[p] \in Counts /\ snapshot[p] \in Counts /\ buffer' = [buffer EXCEPT ![p] = buffer[p]]
  BY <1>1, UsageFields
<1>3. /\ usage' \in Counts
      /\ \A k \in Buckets : /\ usage'[k].count = usage[k].count + snapshot[p][k].count
                            /\ usage'[k].errors = usage[k].errors + snapshot[p][k].errors
  BY <1>1, <1>2, UsageFields, PlusCounts
<1>4. SwapInv'
  BY <1>1, UsageFields DEF SwapInv
<1>5. Moves(p, buffer[p], Nothing)
  BY <1>1, <1>3, UsageNumbers, NothingCounts DEF Moves
<1> QED BY <1>1, <1>2, <1>3, <1>4, <1>5, UsageFields, NothingCounts, OneProcessMoves

LEMMA FlushFailsKeeps ==
    ASSUME UsageInv, NEW p \in Procs, NEW committed \in BOOLEAN, FlushFails(p, committed)
    PROVE  UsageInv'
<1>1. PICK done : done = IF committed THEN snapshot[p] ELSE Nothing
  OBVIOUS
<1>2. buffer[p] \in Counts /\ snapshot[p] \in Counts /\ done \in Counts
  BY <1>1, UsageFields, NothingCounts
<1>3. /\ buffer' = [buffer EXCEPT ![p] = Plus(buffer[p], snapshot[p])]
      /\ snapshot' = [snapshot EXCEPT ![p] = Nothing] /\ flushing' = flushing \ {p}
      /\ faults < MaxFaults /\ faults' = faults + 1
      /\ UNCHANGED <<up, calls, made, gone>>
  BY DEF FlushFails, PutBack
<1>4. /\ usage' \in Counts /\ twice' \in Counts
      /\ \A k \in Buckets : /\ usage'[k].count = usage[k].count + done[k].count
                            /\ usage'[k].errors = usage[k].errors + done[k].errors
                            /\ twice'[k].count = twice[k].count + done[k].count
                            /\ twice'[k].errors = twice[k].errors + done[k].errors
  <2>1. CASE committed
    <3>1. usage' = Plus(usage, done) /\ twice' = Plus(twice, done)
      BY <1>1, <2>1 DEF FlushFails, Upsert
    <3> QED BY <1>2, <3>1, UsageFields, PlusCounts
  <2>2. CASE ~committed
    <3>1. usage' = usage /\ twice' = twice /\ done = Nothing
      BY <1>1, <2>2 DEF FlushFails
    <3> QED BY <3>1, UsageFields, UsageNumbers, NothingCounts
  <2> QED BY <2>1, <2>2
<1>5. /\ Plus(buffer[p], snapshot[p]) \in Counts
      /\ \A k \in Buckets : /\ Plus(buffer[p], snapshot[p])[k].count = buffer[p][k].count + snapshot[p][k].count
                            /\ Plus(buffer[p], snapshot[p])[k].errors = buffer[p][k].errors + snapshot[p][k].errors
                            /\ done[k].count \in Nat /\ done[k].errors \in Nat
  BY <1>2, PlusCounts, CountFields
<1>6. SwapInv'
  BY <1>3, UsageFields DEF SwapInv
<1>7. Moves(p, Plus(buffer[p], snapshot[p]), Nothing)
  BY <1>3, <1>4, <1>5, UsageNumbers, NothingCounts DEF Moves
<1>8. faults' \in 0 .. MaxFaults
  BY <1>3, UsageFields, UsageAssumption
<1> QED BY <1>3, <1>4, <1>5, <1>6, <1>7, <1>8, UsageFields, NothingCounts, OneProcessMoves

LEMMA ProcessEndsKeeps ==
    ASSUME UsageInv, NEW p \in Procs, NEW committed \in BOOLEAN, NEW flushed \in BOOLEAN,
           ProcessEnds(p, committed, flushed)
    PROVE  UsageInv'
<1>1. PICK done1, gone1 : /\ done1 = IF committed THEN snapshot[p] ELSE Nothing
                          /\ gone1 = IF committed THEN Nothing ELSE snapshot[p]
  OBVIOUS
<1>2. PICK done2, gone2 : /\ done2 = IF flushed THEN buffer[p] ELSE Nothing
                          /\ gone2 = IF flushed THEN Nothing ELSE buffer[p]
  OBVIOUS
<1>3. buffer[p] \in Counts /\ snapshot[p] \in Counts /\ Nothing \in Counts
  BY UsageFields, NothingCounts
<1>4. done1 \in Counts /\ gone1 \in Counts /\ done2 \in Counts /\ gone2 \in Counts
  BY <1>1, <1>2, <1>3
<1>5. /\ usage' = Plus(usage, Plus(done1, done2)) /\ gone' = Plus(gone, Plus(gone1, gone2))
      /\ buffer' = [buffer EXCEPT ![p] = Nothing] /\ snapshot' = [snapshot EXCEPT ![p] = Nothing]
      /\ flushing' = flushing \ {p} /\ up' = up \ {p} /\ faults < MaxFaults /\ faults' = faults + 1
      /\ UNCHANGED <<calls, made, twice>>
  BY <1>1, <1>2 DEF ProcessEnds, Upsert
<1>6. Plus(done1, done2) \in Counts /\ Plus(gone1, gone2) \in Counts
  BY <1>4, PlusCounts
<1>7. /\ usage' \in Counts /\ gone' \in Counts
      /\ \A k \in Buckets : /\ usage'[k].count = usage[k].count + (done1[k].count + done2[k].count)
                            /\ usage'[k].errors = usage[k].errors + (done1[k].errors + done2[k].errors)
                            /\ gone'[k].count = gone[k].count + (gone1[k].count + gone2[k].count)
                            /\ gone'[k].errors = gone[k].errors + (gone1[k].errors + gone2[k].errors)
  BY <1>4, <1>5, <1>6, UsageFields, PlusCounts
<1>8. ASSUME NEW k \in Buckets
      PROVE  /\ done1[k].count + gone1[k].count = snapshot[p][k].count
             /\ done1[k].errors + gone1[k].errors = snapshot[p][k].errors
             /\ done2[k].count + gone2[k].count = buffer[p][k].count
             /\ done2[k].errors + gone2[k].errors = buffer[p][k].errors
  BY <1>1, <1>2, UsageNumbers, NothingCounts
<1>9. ASSUME NEW k \in Buckets
      PROVE  /\ done1[k].count \in Nat /\ gone1[k].count \in Nat /\ done2[k].count \in Nat /\ gone2[k].count \in Nat
             /\ done1[k].errors \in Nat /\ gone1[k].errors \in Nat /\ done2[k].errors \in Nat /\ gone2[k].errors \in Nat
  BY <1>4, CountFields
<1>10. Moves(p, Nothing, Nothing)
  BY <1>5, <1>7, <1>8, <1>9, UsageNumbers, NothingCounts DEF Moves
<1>11. SwapInv'
  BY <1>5, UsageFields DEF SwapInv
<1>12. faults' \in 0 .. MaxFaults /\ flushing' \subseteq up' /\ up' \subseteq Procs
  BY <1>5, UsageFields, UsageAssumption
<1> QED BY <1>3, <1>5, <1>7, <1>10, <1>11, <1>12, UsageFields, OneProcessMoves

\* Steps that move no call.
LEMMA NoCallMoves ==
    ASSUME UsageInv, UNCHANGED <<buffer, snapshot, flushing, usage, calls, faults, made, gone, twice>>,
           up \subseteq up', up' \subseteq Procs
    PROVE  UsageInv'
<1>1. UsageTypeOK'
  BY UsageFields DEF UsageTypeOK
<1>2. UsageAddsUp' /\ FiniteInv' /\ SwapInv'
  <2>1. SwapInv'
    BY UsageFields DEF SwapInv
  <2>2. \A k \in Buckets : Waiting(k)' = Waiting(k) /\ WaitingErrors(k)' = WaitingErrors(k)
    BY DEF Waiting, WaitingErrors
  <2>3. \A k \in Buckets : /\ Numbered(Waiting(k))' = Numbered(Waiting(k))
                            /\ Numbered(WaitingErrors(k))' = Numbered(WaitingErrors(k))
    BY <2>2 DEF Numbered
  <2>4. FiniteInv'
    BY <2>3 DEF UsageInv, FiniteInv
  <2>5. UsageAddsUp'
    BY <2>3 DEF UsageInv, UsageHolds, UsageAddsUp
  <2> QED BY <2>1, <2>4, <2>5
<1> QED BY <1>1, <1>2 DEF UsageInv, UsageHolds

LEMMA UsageStep == UsageInv /\ [UNext]_umVars => UsageInv'
<1> SUFFICES ASSUME UsageInv, [UNext]_umVars PROVE UsageInv'
  OBVIOUS
<1>1. CASE UNCHANGED umVars
  BY <1>1, UsageFields, NoCallMoves DEF umVars
<1>2. ASSUME NEW p \in Procs, Restart(p) PROVE UsageInv'
  BY <1>2, UsageFields, NoCallMoves DEF Restart
<1>3. CASE UNext
  BY <1>2, <1>3, RecordKeeps, FlushBeginKeeps, FlushCommitKeeps, FlushFailsKeeps, ProcessEndsKeeps DEF UNext
<1> QED BY <1>1, <1>3

\* However many processes count, swap out, put back and end: the table and
\* the buffers hold what was recorded, less what went with a process and plus
\* what a commit added whose answer was lost (usage_metering.py, _flush).
THEOREM UsageIsCounted == USpec => []UsageHolds
<1>1. UInit => UsageInv
  BY UsageInit
<1>2. UsageInv /\ [UNext]_umVars => UsageInv'
  BY UsageStep
<1>3. UsageInv => UsageHolds
  BY DEF UsageInv
<1> QED BY <1>1, <1>2, <1>3, PTL DEF USpec
=============================================================================
