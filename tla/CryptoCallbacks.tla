-------------------------- MODULE CryptoCallbacks --------------------------
(***************************************************************************)
(* The delivery of crypto callbacks (packages/crypto/callbacks.py).  A     *)
(* dispatcher loads the due rows without claiming them, posts one after    *)
(* the other and writes all results at the end.  It is called from outside *)
(* the repository, by one process or several, again and again.             *)
(***************************************************************************)
EXTENDS Integers, Sequences, Absent

CONSTANTS
    Callbacks,     \* rows that may be enqueued
    Dispatchers,
    Delays,        \* RETRY_DELAYS, in ticks
    MaxAttempts,
    MaxCrashes     \* bound

VARIABLES
    row,       \* crypto_callbacks: [state, attempts, wait] or None
    batch,     \* what a dispatcher has loaded: a function, or None
    todo,      \* the rows of its batch it has not posted
    posts, acks,   \* history: requests made and answered with 2xx, up to the cap
    crashes,
    overlap    \* history: two dispatchers had the same row, or one crashed

cbVars == <<row, batch, todo, posts, acks, crashes, overlap>>

PostCap == MaxAttempts + 2   \* the histories count up to here
CallbackRow == [state : {"pending", "failed", "sent", "dead_letter"},
                attempts : 0 .. MaxAttempts, wait : Nat]
CallbackRows == [Callbacks -> CallbackRow \cup {None}]

ASSUME CallbackAssumption ==
    /\ MaxAttempts \in Nat \ {0} /\ MaxCrashes \in Nat
    /\ Delays \in Seq(Nat) /\ Delays # <<>>
    /\ None \notin CallbackRow /\ None \notin CallbackRows

CallbackTypeOK ==
    /\ row \in CallbackRows /\ batch \in [Dispatchers -> CallbackRows \cup {None}]
    /\ todo \in [Dispatchers -> SUBSET Callbacks]
    /\ posts \in [Callbacks -> 0 .. PostCap] /\ acks \in [Callbacks -> 0 .. PostCap]
    /\ crashes \in 0 .. MaxCrashes /\ overlap \in BOOLEAN

CbInit ==
    /\ row = [k \in Callbacks |-> None]
    /\ batch = [d \in Dispatchers |-> None]
    /\ todo = [d \in Dispatchers |-> {}]
    /\ posts = [k \in Callbacks |-> 0] /\ acks = [k \in Callbacks |-> 0]
    /\ crashes = 0 /\ overlap = FALSE

\* enqueue_invoice_callback, for an invoice with a callback URL.
EnqueueInvoiceCallback(k) ==
    /\ row[k] = None
    /\ row' = [row EXCEPT ![k] = [state |-> "pending", attempts |-> 0, wait |-> 0]]
    /\ UNCHANGED <<batch, todo, posts, acks, crashes, overlap>>

\* The rows dispatch_due_callbacks selects.
DueCallbacks ==
    {k \in Callbacks : row[k] # None /\ row[k].state \in {"pending", "failed"} /\ row[k].wait = 0}

DispatchLoad(d) ==
    /\ batch[d] = None /\ DueCallbacks # {}
    /\ batch' = [batch EXCEPT ![d] = [k \in Callbacks |-> IF k \in DueCallbacks THEN row[k] ELSE None]]
    /\ todo' = [todo EXCEPT ![d] = DueCallbacks]
    /\ overlap' = (overlap \/ \E e \in Dispatchers \ {d}, k \in DueCallbacks :
                                  batch[e] # None /\ batch[e][k] # None)
    /\ UNCHANGED <<row, posts, acks, crashes>>

Least(a, b) == IF a < b THEN a ELSE b

\* RETRY_DELAYS[min(attempt_count - 1, len - 1)].
Delay(n) == Delays[Least(n, Len(Delays))]

\* Mutant: an answer other than 2xx ends the retries.
AnsweredOnce(r, ok) ==
    IF ok THEN [r EXCEPT !.state = "sent", !.attempts = @ + 1]
    ELSE [r EXCEPT !.state = "dead_letter", !.attempts = @ + 1]
\* Mutant: the attempt is counted only when it fails without an answer.
AnsweredUncounted(r, ok) ==
    IF ok THEN [r EXCEPT !.state = "sent"]
    ELSE [r EXCEPT !.state = "failed", !.wait = Delay(1)]
\* Mutant: any answer counts as sent.
AnsweredAlways(r, ok) == [r EXCEPT !.state = "sent", !.attempts = @ + 1]
\* The row after the answer.
Answered(r, ok) ==
    LET n == r.attempts + 1
    IN  IF ok THEN [r EXCEPT !.state = "sent", !.attempts = n]
        ELSE IF n >= MaxAttempts THEN [r EXCEPT !.state = "dead_letter", !.attempts = n]
        ELSE [r EXCEPT !.state = "failed", !.attempts = n, !.wait = Delay(n)]

\* One post, answered with 2xx or not; an exception counts as not.  invoice and
\* callback_url are never removed, so the branch that looks for them is left out.
Post(d, k, ok) ==
    /\ k \in todo[d]
    /\ posts' = [posts EXCEPT ![k] = Least(@ + 1, PostCap)]
    /\ acks' = [acks EXCEPT ![k] = IF ok THEN Least(@ + 1, PostCap) ELSE @]
    /\ batch' = [batch EXCEPT ![d][k] = Answered(batch[d][k], ok)]
    /\ todo' = [todo EXCEPT ![d] = @ \ {k}]
    /\ UNCHANGED <<row, crashes, overlap>>

\* The flush at the end, and the caller's commit.
DispatchCommit(d) ==
    /\ batch[d] # None /\ todo[d] = {}
    /\ row' = [k \in Callbacks |-> IF batch[d][k] = None THEN row[k] ELSE batch[d][k]]
    /\ batch' = [batch EXCEPT ![d] = None]
    /\ UNCHANGED <<todo, posts, acks, crashes, overlap>>

\* The process dies with the results of its posts in memory.
DispatchCrash(d) ==
    /\ batch[d] # None /\ crashes < MaxCrashes
    /\ batch' = [batch EXCEPT ![d] = None] /\ todo' = [todo EXCEPT ![d] = {}]
    /\ crashes' = crashes + 1 /\ overlap' = TRUE
    /\ UNCHANGED <<row, posts, acks>>

\* Time passes for every row that waits for a retry.
CbTick ==
    /\ \E k \in Callbacks : row[k] # None /\ row[k].wait > 0
    /\ row' = [k \in Callbacks |-> IF row[k] # None /\ row[k].wait > 0
                                   THEN [row[k] EXCEPT !.wait = @ - 1] ELSE row[k]]
    /\ UNCHANGED <<batch, todo, posts, acks, crashes, overlap>>

CbNext ==
    \/ CbTick
    \/ \E k \in Callbacks : EnqueueInvoiceCallback(k)
    \/ \E d \in Dispatchers : \/ DispatchLoad(d) \/ DispatchCommit(d) \/ DispatchCrash(d)
                              \/ \E k \in Callbacks, ok \in BOOLEAN : Post(d, k, ok)

\* The caller runs the dispatcher again and again, and a run comes to its end:
\* every post has a timeout of ten seconds.
CbFairness ==
    /\ WF_cbVars(CbTick)
    /\ \A d \in Dispatchers :
         /\ WF_cbVars(DispatchLoad(d)) /\ WF_cbVars(DispatchCommit(d))
         /\ WF_cbVars(\E k \in Callbacks, ok \in BOOLEAN : Post(d, k, ok))

CbSpec == CbInit /\ [][CbNext]_cbVars /\ CbFairness
-----------------------------------------------------------------------------
\* A callback marked as sent was accepted by the merchant, also when two
\* dispatchers write the row one after the other.
SentWasAccepted ==
    \A k \in Callbacks : row[k] # None /\ row[k].state = "sent" => acks[k] > 0

\* Every attempt on record is a request that was made; none is missing unless
\* dispatchers overlapped or one died.
AttemptsAreRequests ==
    \A k \in Callbacks : row[k] # None =>
        /\ row[k].attempts <= posts[k]
        /\ overlap \/ row[k].attempts = posts[k] \/ \E d \in Dispatchers : batch[d] # None

\* A dead letter was refused as often as max_attempts allows; the merchant had
\* accepted it only if dispatchers overlapped or one died.
DeadLetterWasRefused ==
    \A k \in Callbacks : row[k] # None /\ row[k].state = "dead_letter" =>
        /\ overlap \/ posts[k] = MaxAttempts
        /\ overlap \/ acks[k] = 0

\* Every enqueued callback is sent or given up in the end, in spite of crashes
\* and of dispatchers that overwrite each other's results.
CallbackSettles ==
    \A k \in Callbacks : row[k] # None ~> row[k] # None /\ row[k].state \in {"sent", "dead_letter"}

\* The row of a callback says what happened between dispatcher and merchant.
CallbacksHold ==
    /\ CallbackTypeOK
    /\ SentWasAccepted
    /\ AttemptsAreRequests
    /\ DeadLetterWasRefused
=============================================================================
