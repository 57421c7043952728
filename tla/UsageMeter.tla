----------------------------- MODULE UsageMeter -----------------------------
(***************************************************************************)
(* Counting calls of the public API                                        *)
(* (apps/api/middleware/usage_metering.py): every process adds up in       *)
(* memory, and a loop moves what it has to api_usage_daily.  The buffer is *)
(* swapped out before the transaction and put back when it fails; calls go *)
(* on being recorded meanwhile.                                            *)
(***************************************************************************)
EXTENDS Integers, FiniteSets

CONSTANTS
    Procs,      \* processes of the API
    Buckets,    \* day, user, API key and endpoint group
    MaxCalls,   \* bound: calls recorded
    MaxFaults   \* bound: failures of the database and ends of a process

ASSUME UsageAssumption == MaxCalls \in Nat /\ MaxFaults \in Nat

VARIABLES
    buffer,     \* _buffer: buffer[p][k] = [count, error_count]
    snapshot,   \* what a flush of p has swapped out
    flushing,   \* processes with a transaction under way
    usage,      \* api_usage_daily
    up,         \* processes that run
    calls, faults,
    made,       \* history: calls recorded
    gone,       \* history: calls that went with a process
    twice       \* history: calls added by a commit that reported a failure

umVars == <<buffer, snapshot, flushing, usage, up, calls, faults, made, gone, twice>>

Zero == [count |-> 0, errors |-> 0]
Nothing == [k \in Buckets |-> Zero]
Plus(a, b) == [k \in Buckets |-> [count |-> a[k].count + b[k].count, errors |-> a[k].errors + b[k].errors]]

Counts == [Buckets -> [count : Nat, errors : Nat]]
UsageTypeOK ==
    /\ buffer \in [Procs -> Counts] /\ snapshot \in [Procs -> Counts]
    /\ usage \in Counts /\ made \in Counts /\ gone \in Counts /\ twice \in Counts
    /\ flushing \subseteq up /\ up \subseteq Procs /\ calls \in 0..MaxCalls /\ faults \in 0..MaxFaults

UInit ==
    /\ buffer = [p \in Procs |-> Nothing] /\ snapshot = [p \in Procs |-> Nothing]
    /\ flushing = {} /\ usage = Nothing /\ up = Procs /\ calls = 0 /\ faults = 0
    /\ made = Nothing /\ gone = Nothing /\ twice = Nothing
-----------------------------------------------------------------------------
One(k, error) == [Nothing EXCEPT ![k] = [count |-> 1, errors |-> IF error THEN 1 ELSE 0]]

\* _record: after the response, for a request with an API key.
Record(p, k, error) ==
    /\ p \in up /\ calls < MaxCalls /\ calls' = calls + 1
    /\ buffer' = [buffer EXCEPT ![p] = Plus(@, One(k, error))]
    /\ made' = Plus(made, One(k, error))
    /\ UNCHANGED <<snapshot, flushing, usage, up, faults, gone, twice>>

\* Mutant: the loop ends with the first failure.
LoopRunsUntilFault(p) == p \in up \ flushing /\ buffer[p] # Nothing /\ faults = 0
\* The loop of a process flushes one buffer at a time.
LoopRuns(p) == p \in up \ flushing /\ buffer[p] # Nothing

\* _flush: the buffer is swapped out under the lock.
FlushBegin(p) ==
    /\ LoopRuns(p)
    /\ snapshot' = [snapshot EXCEPT ![p] = buffer[p]]
    /\ buffer' = [buffer EXCEPT ![p] = Nothing]
    /\ flushing' = flushing \union {p}
    /\ UNCHANGED <<usage, up, calls, faults, made, gone, twice>>

\* Mutant: the row of the day takes the value instead of adding it.
UpsertReplaces(s) == [k \in Buckets |-> IF s[k] = Zero THEN usage[k] ELSE s[k]]
\* ON CONFLICT DO UPDATE SET count = count + excluded.count.
Upsert(s) == Plus(usage, s)

FlushCommit(p) ==
    /\ p \in flushing
    /\ usage' = Upsert(snapshot[p])
    /\ snapshot' = [snapshot EXCEPT ![p] = Nothing] /\ flushing' = flushing \ {p}
    /\ UNCHANGED <<buffer, up, calls, faults, made, gone, twice>>

\* The except branch: the snapshot joins what was recorded meanwhile.
PutBack(p) == Plus(buffer[p], snapshot[p])

\* The transaction fails, or it is committed and the answer is lost.
FlushFails(p, committed) ==
    /\ p \in flushing /\ faults < MaxFaults /\ faults' = faults + 1
    /\ buffer' = [buffer EXCEPT ![p] = PutBack(p)]
    /\ usage' = IF committed THEN Upsert(snapshot[p]) ELSE usage
    /\ twice' = IF committed THEN Plus(twice, snapshot[p]) ELSE twice
    /\ snapshot' = [snapshot EXCEPT ![p] = Nothing] /\ flushing' = flushing \ {p}
    /\ UNCHANGED <<up, calls, made, gone>>

\* The process dies, or the loop is cancelled when the server stops; then
\* what is in the buffer goes into one more flush, which may fail too.
\* CancelledError is not an Exception: a snapshot under way is not put back,
\* and its transaction is committed or not.
ProcessEnds(p, committed, flushed) ==
    LET done == Plus(IF committed THEN snapshot[p] ELSE Nothing, IF flushed THEN buffer[p] ELSE Nothing)
        rest == Plus(IF committed THEN Nothing ELSE snapshot[p], IF flushed THEN Nothing ELSE buffer[p])
    IN
    /\ p \in up /\ faults < MaxFaults /\ faults' = faults + 1
    /\ usage' = Upsert(done) /\ gone' = Plus(gone, rest)
    /\ buffer' = [buffer EXCEPT ![p] = Nothing] /\ snapshot' = [snapshot EXCEPT ![p] = Nothing]
    /\ flushing' = flushing \ {p} /\ up' = up \ {p}
    /\ UNCHANGED <<calls, made, twice>>

\* The server is started again; the first request starts the loop.
Restart(p) ==
    /\ p \notin up /\ up' = up \union {p}
    /\ UNCHANGED <<buffer, snapshot, flushing, usage, calls, faults, made, gone, twice>>

UNext ==
    \E p \in Procs :
        \/ \E k \in Buckets, error \in BOOLEAN : Record(p, k, error)
        \/ FlushBegin(p) \/ FlushCommit(p) \/ Restart(p)
        \/ \E committed \in BOOLEAN :
            FlushFails(p, committed) \/ (\E flushed \in BOOLEAN : ProcessEnds(p, committed, flushed))

\* The loop runs every minute, and a transaction ends.
UFairness == \A p \in Procs : WF_umVars(FlushBegin(p)) /\ WF_umVars(FlushCommit(p))
USpec == UInit /\ [][UNext]_umVars /\ UFairness
-----------------------------------------------------------------------------
\* What waits in the processes, each call as its process and its number there.
Numbered(f) == UNION {{p} \X (1 .. f[p]) : p \in Procs}
Waiting(k) == [p \in Procs |-> buffer[p][k].count + snapshot[p][k].count]
WaitingErrors(k) == [p \in Procs |-> buffer[p][k].errors + snapshot[p][k].errors]

(* No call is forgotten or counted more than once by the swapping, putting *)
(* back and adding up of several processes: the table and the buffers hold *)
(* what was recorded, less what went with a process and plus what a commit *)
(* added whose answer was lost.                                            *)
UsageAddsUp ==
    \A k \in Buckets :
        /\ usage[k].count + Cardinality(Numbered(Waiting(k))) + gone[k].count = made[k].count + twice[k].count
        /\ usage[k].errors + Cardinality(Numbered(WaitingErrors(k))) + gone[k].errors = made[k].errors + twice[k].errors

(* What a process has recorded leaves its buffer, whatever fails on the    *)
(* way: the loop tries again and calls recorded meanwhile do not keep it.  *)
BufferEmpties == \A p \in Procs : []<>(buffer[p] = Nothing /\ snapshot[p] = Nothing)

\* The meter loses and doubles nothing but what it must (usage_metering.py).
UsageHolds == UsageTypeOK /\ UsageAddsUp
=============================================================================
