---------------------------- MODULE WorkerProofs ----------------------------
(***************************************************************************)
(* What holds of the processes that work in the background: the webhook    *)
(* outbox for any number of rows, dispatchers, tries, crashes and          *)
(* overruns, the poller's lock for any number of workers, and the cursor   *)
(* for any number of pollers, transfers, days and failed polls.            *)
(***************************************************************************)
EXTENDS WebhookOutbox, BankPoller, BankCursor, TLAPS

-----------------------------------------------------------------------------
(* The webhook outbox                                                      *)

\* A dispatcher that sends has loaded the columns of its rows.
SeenInv ==
    \A d \in Dispatchers : \A a \in Attempts :
        dpc[d] = "send" /\ a \in batch[d] => seen[d][a] \in Columns

\* An outcome "ok" is an answer 2xx.
AckInv ==
    /\ \A d \in Dispatchers : \A a \in Attempts : outcome[d][a] = "ok" => a \in acked
    /\ \A a \in Attempts : status[a] = "delivered" => a \in acked

\* A pending manual request has used some of its bound.
RequestInv == request # None => manual > 0

\* Nothing has broken a claim from outside: no lease ran out on a running
\* batch, and the first manual request, if there is one, is not committed yet.
Unbroken == overruns = 0 /\ (manual = 0 \/ (manual = 1 /\ request # None))

\* Until then it is the batch that holds the row.
HoldInv ==
    Unbroken =>
        \A d \in Dispatchers : \A a \in Attempts :
            Holds(d, a) => claim[a] = d /\ status[a] = "dispatching" /\ ~stale[a]

\* What every row satisfies while there is no manual request, crashes and
\* overruns included.
RowInv(a) ==
    /\ status[a] = "dispatching" <=> claim[a] # None
    /\ status[a] \in {"pending", "dispatching"} => tries[a] < MaxAttempts
    /\ status[a] = "absent" => tries[a] = 0
    /\ tries[a] <= MaxAttempts

\* ... and what a dispatcher that sends it has loaded.
LoadedInv(d, a) ==
    dpc[d] = "send" /\ a \in batch[d] =>
        seen[d][a].status = "dispatching" /\ seen[d][a].tries < MaxAttempts

BudgetInv ==
    manual = 0 =>
        /\ \A a \in Attempts : RowInv(a)
        /\ \A d \in Dispatchers : \A a \in Attempts : LoadedInv(d, a)

\* Every manual request grants one try more, once it is committed.
Granted == MaxAttempts + manual - (IF request = None THEN 0 ELSE 1)

\* With manual requests too: what is claimed is on its way, and a row on its
\* way, in the table or in a batch, has a try left.
GrantRow(a) ==
    /\ tries[a] <= Granted
    /\ status[a] \notin {"delivered", "dead"} => tries[a] < Granted
    /\ claim[a] # None => status[a] \in {"pending", "dispatching"}
GrantLoaded(d, a) ==
    dpc[d] = "send" /\ a \in batch[d] =>
        seen[d][a].status \in {"pending", "dispatching"} /\ seen[d][a].tries < Granted
GrantInv ==
    /\ \A a \in Attempts : GrantRow(a)
    /\ \A d \in Dispatchers : \A a \in Attempts : GrantLoaded(d, a)

\* With at most one request of an admin: a row is claimed exactly while it is
\* being dispatched, and whoever loaded it has seen it so.  A request that found
\* a row at its end finds it there again when it commits.
ClaimedRow(a) == status[a] = "dispatching" <=> claim[a] # None
ClaimedLoaded(d, a) == dpc[d] = "send" /\ a \in batch[d] => seen[d][a].status = "dispatching"
ClaimedRequest ==
    request # None =>
        LET c == request.seen IN
        /\ request.kind # "retry" /\ c.status # "absent"
        /\ c.status = "dispatching" <=> c.claim # None
        /\ c.status \in {"delivered", "dead"} => status[request.a] = c.status
ClaimedInv ==
    "retry" \notin ManualKinds /\ overruns = 0 /\ manual <= 1 =>
        /\ \A a \in Attempts : ClaimedRow(a)
        /\ \A d \in Dispatchers : \A a \in Attempts : ClaimedLoaded(d, a)
        /\ ClaimedRequest

\* The inductive invariant.
OutboxInv ==
    /\ TypeOK /\ SeenInv /\ AckInv /\ RequestInv /\ HoldInv
    /\ BudgetInv /\ GrantInv /\ ClaimedInv
-----------------------------------------------------------------------------
\* The outcome decides the new status; a row goes back only within its budget.
LEMMA NewColumns ==
    ASSUME NEW c \in Columns, NEW o \in Outcomes
    PROVE  /\ NewStatus(c, o) \in {"dead", "delivered", "pending"}
           /\ NewTries(c, o) \in Nat
           /\ NewTries(c, o) <= c.tries + 1
           /\ NewStatus(c, o) = "delivered" => o = "ok"
           /\ NewStatus(c, o) = "pending" => o # "fatal" /\ NewTries(c, o) < MaxAttempts
    BY MaxAttemptsAssumption DEF Columns, Outcomes, NewStatus, NewTries

\* The columns of a row have their types.
LEMMA RowType ==
    ASSUME TypeOK, NEW a \in Attempts
    PROVE  Row(a) \in Columns
    BY DEF TypeOK, Row, Columns

\* What a reset does to each row.
LEMMA ResetFacts ==
    ASSUME TypeOK, ResetStuck
    PROVE  /\ status' \in [Attempts -> Statuses]
           /\ claim' \in [Attempts -> Dispatchers \cup {None}]
           /\ stale' \in [Attempts -> BOOLEAN]
           /\ tries' = tries /\ due' = due
           /\ \A a \in Attempts :
                \/ /\ status[a] = "dispatching" /\ stale[a]
                   /\ status'[a] = "pending" /\ claim'[a] = None
                \/ /\ status'[a] = status[a] /\ claim'[a] = claim[a] /\ stale'[a] = stale[a]
    BY DEF TypeOK, ResetStuck, Stuck, Statuses

\* What leaving a batch does to the dispatchers.
LEMMA IdleFacts ==
    ASSUME TypeOK, NEW d \in Dispatchers, Idle(d)
    PROVE  /\ dpc' \in [Dispatchers -> {"idle", "claim", "load", "send"}]
           /\ batch' \in [Dispatchers -> SUBSET Attempts]
           /\ seen' \in [Dispatchers -> [Attempts -> Columns \cup {None}]]
           /\ outcome' \in [Dispatchers -> [Attempts -> Outcomes \cup {None}]]
           /\ dpc'[d] = "idle"
           /\ \A a \in Attempts : outcome'[d][a] = None
           /\ \A e \in Dispatchers \ {d} :
                /\ dpc'[e] = dpc[e] /\ batch'[e] = batch[e]
                /\ seen'[e] = seen[e] /\ outcome'[e] = outcome[e]
    BY DEF TypeOK, Idle

\* What applying the outcomes does to each row.
LEMMA ApplyFacts ==
    ASSUME TypeOK, SeenInv, NEW d \in Dispatchers, Apply(d)
    PROVE  /\ status' \in [Attempts -> Statuses]
           /\ tries' \in [Attempts -> Nat]
           /\ due' \in [Attempts -> BOOLEAN]
           /\ claim' \in [Attempts -> Dispatchers \cup {None}]
           /\ stale' \in [Attempts -> BOOLEAN]
           /\ \A a \in batch[d] :
                /\ outcome[d][a] \in Outcomes /\ seen[d][a] \in Columns
                /\ status'[a] = IF NewStatus(seen[d][a], outcome[d][a]) # seen[d][a].status
                                THEN NewStatus(seen[d][a], outcome[d][a]) ELSE status[a]
                /\ tries'[a] = IF outcome[d][a] # "fatal"
                               THEN NewTries(seen[d][a], outcome[d][a]) ELSE tries[a]
                /\ claim'[a] = None
           /\ \A a \in Attempts \ batch[d] :
                /\ status'[a] = status[a] /\ tries'[a] = tries[a]
                /\ claim'[a] = claim[a] /\ stale'[a] = stale[a]
<1>1. batch[d] \subseteq Attempts /\ dpc[d] = "send"
    BY DEF TypeOK, Apply
<1>2. \A a \in batch[d] : outcome[d][a] \in Outcomes /\ seen[d][a] \in Columns
    BY <1>1 DEF TypeOK, SeenInv, Apply
<1>3. \A a \in batch[d] :
        /\ NewStatus(seen[d][a], outcome[d][a]) \in Statuses
        /\ NewTries(seen[d][a], outcome[d][a]) \in Nat
    BY <1>2, NewColumns DEF Statuses
<1>4. status' \in [Attempts -> Statuses]
    BY <1>1, <1>3 DEF TypeOK, Apply
<1>5. tries' \in [Attempts -> Nat]
    BY <1>1, <1>3 DEF TypeOK, Apply
<1>6. /\ due' \in [Attempts -> BOOLEAN]
      /\ claim' \in [Attempts -> Dispatchers \cup {None}]
      /\ stale' \in [Attempts -> BOOLEAN]
    BY DEF TypeOK, Apply
<1>7. \A a \in batch[d] :
        /\ status'[a] = IF NewStatus(seen[d][a], outcome[d][a]) # seen[d][a].status
                        THEN NewStatus(seen[d][a], outcome[d][a]) ELSE status[a]
        /\ tries'[a] = IF outcome[d][a] # "fatal"
                       THEN NewTries(seen[d][a], outcome[d][a]) ELSE tries[a]
        /\ claim'[a] = None
    BY <1>1 DEF Apply
<1>8. \A a \in Attempts \ batch[d] :
        /\ status'[a] = status[a] /\ tries'[a] = tries[a]
        /\ claim'[a] = claim[a] /\ stale'[a] = stale[a]
    BY DEF Apply
<1> QED BY <1>2, <1>4, <1>5, <1>6, <1>7, <1>8
-----------------------------------------------------------------------------
\* The dispatchers' variables keep their types, and SeenInv, in every step.
LEMMA TypeStep ==
    ASSUME TypeOK, SeenInv, [Next]_vars
    PROVE  TypeOK' /\ SeenInv'
<1> USE DEF bounds
<1>1. ASSUME NEW a \in Attempts, Enqueue(a) PROVE TypeOK' /\ SeenInv'
    BY <1>1 DEF TypeOK, SeenInv, Enqueue, dvars, Statuses
<1>2. ASSUME NEW a \in Attempts, BecomeDue(a) PROVE TypeOK' /\ SeenInv'
    BY <1>2 DEF TypeOK, SeenInv, BecomeDue, dvars
<1>3. ASSUME NEW a \in Attempts, LeaseRunsOut(a) PROVE TypeOK' /\ SeenInv'
    BY <1>3, BoundsAssumption DEF TypeOK, SeenInv, LeaseRunsOut, dvars
<1>4. ASSUME NEW d \in Dispatchers, Begin(d) PROVE TypeOK' /\ SeenInv'
    BY <1>4, ResetFacts DEF TypeOK, SeenInv, Begin
<1>5. ASSUME NEW d \in Dispatchers, NEW S \in SUBSET Attempts, Claim(d, S)
      PROVE  TypeOK' /\ SeenInv'
    BY <1>5 DEF TypeOK, SeenInv, Claim, Statuses
<1>6. ASSUME NEW d \in Dispatchers, ClaimNothing(d) PROVE TypeOK' /\ SeenInv'
    BY <1>6, IdleFacts DEF TypeOK, SeenInv, ClaimNothing, rowvars
<1>7. ASSUME NEW d \in Dispatchers, Load(d) PROVE TypeOK' /\ SeenInv'
    BY <1>7, RowType DEF TypeOK, SeenInv, Load, rowvars
<1>8. ASSUME NEW d \in Dispatchers, LoadNothing(d) PROVE TypeOK' /\ SeenInv'
    BY <1>8, IdleFacts DEF TypeOK, SeenInv, LoadNothing, rowvars
<1>9. ASSUME NEW d \in Dispatchers, NEW a \in Attempts, NEW o \in Outcomes, Post(d, a, o)
      PROVE  TypeOK' /\ SeenInv'
    BY <1>9 DEF TypeOK, SeenInv, Post, rowvars
<1>10. ASSUME NEW d \in Dispatchers, Apply(d) PROVE TypeOK' /\ SeenInv'
    <2>1. Idle(d) /\ UNCHANGED <<active, request, acked, bounds>>
        BY <1>10 DEF Apply
    <2>2. /\ status' \in [Attempts -> Statuses]
          /\ tries' \in [Attempts -> Nat]
          /\ due' \in [Attempts -> BOOLEAN]
          /\ claim' \in [Attempts -> Dispatchers \cup {None}]
          /\ stale' \in [Attempts -> BOOLEAN]
        BY <1>10, ApplyFacts
    <2>3. TypeOK'
        BY <2>1, <2>2, IdleFacts DEF TypeOK
    <2>4. SeenInv'
        BY <2>1, IdleFacts DEF SeenInv
    <2> QED BY <2>3, <2>4
<1>11. ASSUME NEW d \in Dispatchers, Crash(d) PROVE TypeOK' /\ SeenInv'
    <2>1. Idle(d)
        BY <1>11 DEF Crash
    <2>2. TypeOK'
        BY <1>11, <2>1, IdleFacts, BoundsAssumption DEF TypeOK, Crash, rowvars
    <2>3. SeenInv'
        BY <2>1, IdleFacts DEF SeenInv
    <2> QED BY <2>2, <2>3
<1>12. ASSUME NEW kind \in ManualKinds, NEW a \in Attempts, ManualLoad(kind, a)
       PROVE  TypeOK' /\ SeenInv'
    BY <1>12, RowType, ManualKindsAssumption, BoundsAssumption
       DEF TypeOK, SeenInv, ManualLoad, rowvars, dvars
<1>13. ASSUME ManualCommit PROVE TypeOK' /\ SeenInv'
    BY <1>13 DEF TypeOK, SeenInv, ManualCommit, dvars, Columns, Statuses
<1>14. ASSUME NEW a \in Attempts, NEW on \in BOOLEAN, SetActive(a, on)
       PROVE  TypeOK' /\ SeenInv'
    BY <1>14, BoundsAssumption DEF TypeOK, SeenInv, SetActive, rowvars, dvars
<1>15. ASSUME Cleanup PROVE TypeOK' /\ SeenInv'
    BY <1>15, ResetFacts DEF TypeOK, SeenInv, Cleanup, dvars
<1>16. CASE UNCHANGED vars
    BY <1>16 DEF vars, TypeOK, SeenInv, rowvars, dvars
<1> QED
    BY <1>1, <1>2, <1>3, <1>4, <1>5, <1>6, <1>7, <1>8, <1>9, <1>10, <1>11, <1>12,
       <1>13, <1>14, <1>15, <1>16
       DEF Next, ClockStep, DispatcherStep, Manual

\* No step forgets an answer, and only an "ok" makes a row delivered.
LEMMA AckStep ==
    ASSUME TypeOK, SeenInv, AckInv, [Next]_vars
    PROVE  AckInv'
<1> USE DEF AckInv
<1>1. ASSUME NEW a \in Attempts, Enqueue(a) PROVE AckInv'
    BY <1>1 DEF TypeOK, Enqueue, dvars
<1>2. ASSUME NEW a \in Attempts, ClockStep(a) PROVE AckInv'
    BY <1>2 DEF ClockStep, BecomeDue, LeaseRunsOut, dvars
<1>3. ASSUME NEW d \in Dispatchers, Begin(d) PROVE AckInv'
    BY <1>3, ResetFacts DEF Begin
<1>4. ASSUME NEW d \in Dispatchers, NEW S \in SUBSET Attempts, Claim(d, S) PROVE AckInv'
    BY <1>4 DEF TypeOK, Claim
<1>5. ASSUME NEW d \in Dispatchers, ClaimNothing(d) \/ LoadNothing(d) \/ Crash(d) PROVE AckInv'
    <2>1. Idle(d) /\ UNCHANGED <<status, acked>>
        BY <1>5 DEF ClaimNothing, LoadNothing, Crash, rowvars
    <2> QED BY <2>1, IdleFacts, NoneAssumption DEF Outcomes
<1>6. ASSUME NEW d \in Dispatchers, Load(d) PROVE AckInv'
    BY <1>6 DEF Load, rowvars
<1>7. ASSUME NEW d \in Dispatchers, NEW a \in Attempts, NEW o \in Outcomes, Post(d, a, o)
      PROVE  AckInv'
    BY <1>7 DEF TypeOK, Post, rowvars
<1>8. ASSUME NEW d \in Dispatchers, Apply(d) PROVE AckInv'
    <2>1. Idle(d) /\ UNCHANGED acked
        BY <1>8 DEF Apply
    <2>2. \A e \in Dispatchers : \A a \in Attempts : outcome'[e][a] = "ok" => a \in acked
        BY <2>1, IdleFacts, NoneAssumption DEF Outcomes
    <2>3. ASSUME NEW a \in Attempts, status'[a] = "delivered" PROVE a \in acked
        <3>1. CASE a \in batch[d]
            BY <1>8, <2>3, <3>1, ApplyFacts, NewColumns
        <3>2. CASE a \notin batch[d]
            BY <1>8, <2>3, <3>2, ApplyFacts
        <3> QED BY <3>1, <3>2
    <2> QED BY <2>1, <2>2, <2>3
<1>9. ASSUME Manual PROVE AckInv'
    <2>1. CASE \E kind \in ManualKinds, a \in Attempts : ManualLoad(kind, a)
        BY <2>1 DEF ManualLoad, rowvars, dvars
    <2>2. CASE ManualCommit
        BY <2>2 DEF TypeOK, ManualCommit, dvars
    <2>3. CASE \E a \in Attempts, on \in BOOLEAN : SetActive(a, on)
        BY <2>3 DEF SetActive, rowvars, dvars
    <2>4. CASE Cleanup
        BY <2>4, ResetFacts DEF Cleanup, dvars
    <2> QED BY <1>9, <2>1, <2>2, <2>3, <2>4 DEF Manual
<1>10. CASE UNCHANGED vars
    BY <1>10 DEF vars, rowvars, dvars
<1> QED
    BY <1>1, <1>2, <1>3, <1>4, <1>5, <1>6, <1>7, <1>8, <1>9, <1>10 DEF Next, DispatcherStep

\* The bounds only grow, and a request is pending only after ManualLoad.
LEMMA BoundStep ==
    ASSUME TypeOK, RequestInv, [Next]_vars
    PROVE  /\ RequestInv'
           /\ manual' = 0 => manual = 0 /\ request = None
           /\ overruns' = 0 => overruns = 0
           /\ manual' <= 1 => manual <= 1
           /\ Unbroken' => Unbroken
<1> USE DEF RequestInv, TypeOK, bounds
<1>1. ASSUME NEW a \in Attempts, Enqueue(a) \/ ClockStep(a)
      PROVE  /\ request' = request /\ manual' = manual
             /\ overruns' = overruns \/ overruns' = overruns + 1
    BY <1>1 DEF Enqueue, ClockStep, BecomeDue, LeaseRunsOut
<1>2. ASSUME NEW d \in Dispatchers, DispatcherStep(d) \/ Crash(d)
      PROVE  request' = request /\ manual' = manual /\ overruns' = overruns
    BY <1>2 DEF DispatcherStep, Begin, Claim, ClaimNothing, Load, LoadNothing, Post, Apply, Crash
<1>3. ASSUME Manual
      PROVE  /\ overruns' = overruns
             /\ \/ manual' = manual + 1
                \/ manual' = manual /\ request # None /\ request' = None
                \/ manual' = manual /\ request' = request
    BY <1>3 DEF Manual, ManualLoad, ManualCommit, SetActive, Cleanup
<1>4. /\ overruns' = overruns \/ overruns' = overruns + 1
      /\ \/ manual' = manual + 1
         \/ manual' = manual /\ request # None /\ request' = None
         \/ manual' = manual /\ request' = request
    BY <1>1, <1>2, <1>3 DEF Next, vars
<1>5. manual \in Nat /\ overruns \in Nat /\ MaxManual \in Nat
    BY BoundsAssumption
<1>6. /\ manual' = 0 => manual = 0 /\ request = None
      /\ overruns' = 0 => overruns = 0
      /\ manual' <= 1 => manual <= 1
    BY <1>4, <1>5
<1>7. RequestInv'
    BY <1>4, <1>5
<1>8. Unbroken' => Unbroken
    BY <1>4, <1>5 DEF Unbroken
<1> QED BY <1>6, <1>7, <1>8

\* A claim that nothing breaks from outside stays with its batch.
LEMMA HoldStep ==
    ASSUME TypeOK, SeenInv, RequestInv, HoldInv, [Next]_vars
    PROVE  HoldInv'
<1> SUFFICES ASSUME Unbroken',
                    NEW d \in Dispatchers, NEW a \in Attempts, Holds(d, a)'
             PROVE  claim'[a] = d /\ status'[a] = "dispatching" /\ ~stale'[a]
    BY DEF HoldInv
<1>0. Unbroken /\ overruns' = 0
    BY BoundStep DEF Unbroken
<1>1. \A e \in Dispatchers : \A b \in Attempts :
        Holds(e, b) => claim[b] = e /\ status[b] = "dispatching" /\ ~stale[b]
    BY <1>0 DEF HoldInv
<1> USE DEF Holds
<1>2. ASSUME NEW b \in Attempts, Enqueue(b)
      PROVE  claim'[a] = d /\ status'[a] = "dispatching" /\ ~stale'[a]
    BY <1>1, <1>2 DEF TypeOK, Enqueue, dvars
<1>3. ASSUME NEW b \in Attempts, BecomeDue(b)
      PROVE  claim'[a] = d /\ status'[a] = "dispatching" /\ ~stale'[a]
    BY <1>1, <1>3 DEF BecomeDue, dvars
<1>4. ASSUME NEW b \in Attempts, LeaseRunsOut(b)
      PROVE  claim'[a] = d /\ status'[a] = "dispatching" /\ ~stale'[a]
    <2>1. Holds(d, a) /\ claim' = claim /\ status' = status
        BY <1>4 DEF LeaseRunsOut, dvars
    <2>2. b # a
        BY <1>0, <1>1, <1>4, <2>1, NoneAssumption DEF LeaseRunsOut, Unbroken
    <2> QED BY <1>1, <1>4, <2>1, <2>2 DEF TypeOK, LeaseRunsOut
<1>5. ASSUME NEW e \in Dispatchers, Begin(e)
      PROVE  claim'[a] = d /\ status'[a] = "dispatching" /\ ~stale'[a]
    BY <1>1, <1>5, ResetFacts DEF TypeOK, Begin
<1>6. ASSUME NEW e \in Dispatchers, NEW S \in SUBSET Attempts, Claim(e, S)
      PROVE  claim'[a] = d /\ status'[a] = "dispatching" /\ ~stale'[a]
    BY <1>1, <1>6 DEF TypeOK, Claim, Claimable
<1>7. ASSUME NEW e \in Dispatchers, ClaimNothing(e) \/ LoadNothing(e) \/ Crash(e)
      PROVE  claim'[a] = d /\ status'[a] = "dispatching" /\ ~stale'[a]
    <2>1. Idle(e) /\ UNCHANGED <<status, claim, stale>>
        BY <1>7 DEF ClaimNothing, LoadNothing, Crash, rowvars
    <2> QED BY <1>1, <2>1, IdleFacts
<1>8. ASSUME NEW e \in Dispatchers, Load(e)
      PROVE  claim'[a] = d /\ status'[a] = "dispatching" /\ ~stale'[a]
    BY <1>1, <1>8 DEF TypeOK, Load, rowvars
<1>9. ASSUME NEW e \in Dispatchers, NEW b \in Attempts, NEW o \in Outcomes, Post(e, b, o)
      PROVE  claim'[a] = d /\ status'[a] = "dispatching" /\ ~stale'[a]
    BY <1>1, <1>9 DEF Post, rowvars
<1>10. ASSUME NEW e \in Dispatchers, Apply(e)
       PROVE  claim'[a] = d /\ status'[a] = "dispatching" /\ ~stale'[a]
    <2>1. Idle(e) /\ dpc[e] = "send"
        BY <1>10 DEF Apply
    <2>2. d # e /\ Holds(d, a)
        BY <2>1, IdleFacts
    <2>3. a \notin batch[e]
        BY <1>1, <2>1, <2>2
    <2> QED BY <1>1, <1>10, <2>2, <2>3, ApplyFacts
<1>11. ASSUME Manual
       PROVE  claim'[a] = d /\ status'[a] = "dispatching" /\ ~stale'[a]
    <2>1. ~ManualCommit
        BY BoundStep DEF Unbroken, ManualCommit
    <2>2. CASE Cleanup
        BY <1>1, <2>2, ResetFacts DEF TypeOK, Cleanup, dvars
    <2>3. CASE \E kind \in ManualKinds, b \in Attempts : ManualLoad(kind, b)
        BY <1>1, <2>3 DEF ManualLoad, rowvars, dvars
    <2>4. CASE \E b \in Attempts, on \in BOOLEAN : SetActive(b, on)
        BY <1>1, <2>4 DEF SetActive, rowvars, dvars
    <2> QED BY <1>11, <2>1, <2>2, <2>3, <2>4 DEF Manual
<1>12. CASE UNCHANGED vars
    BY <1>1, <1>12 DEF vars, rowvars, dvars
<1> QED
    BY <1>2, <1>3, <1>4, <1>5, <1>6, <1>7, <1>8, <1>9, <1>10, <1>11, <1>12
       DEF Next, ClockStep, DispatcherStep

\* Without manual requests every row stays claimed exactly while it is being
\* dispatched, and within its budget.
LEMMA BudgetStep ==
    ASSUME TypeOK, SeenInv, RequestInv, BudgetInv, [Next]_vars
    PROVE  BudgetInv'
<1> DEFINE Goal == /\ \A a \in Attempts : RowInv(a)'
                   /\ \A d \in Dispatchers : \A a \in Attempts : LoadedInv(d, a)'
<1> SUFFICES ASSUME manual' = 0 PROVE Goal
    BY DEF BudgetInv
<1>0. manual = 0 /\ request = None
    BY BoundStep
<1>1. /\ \A a \in Attempts : RowInv(a)
      /\ \A d \in Dispatchers : \A a \in Attempts : LoadedInv(d, a)
    BY <1>0 DEF BudgetInv
<1>2. ASSUME NEW b \in Attempts, Enqueue(b) PROVE Goal
    BY <1>1, <1>2, MaxAttemptsAssumption DEF TypeOK, Enqueue, dvars, RowInv, LoadedInv
<1>3. ASSUME NEW b \in Attempts, BecomeDue(b) \/ LeaseRunsOut(b) PROVE Goal
    BY <1>1, <1>3 DEF BecomeDue, LeaseRunsOut, dvars, RowInv, LoadedInv
<1>4. ASSUME ResetStuck PROVE \A a \in Attempts : RowInv(a)'
    BY <1>1, <1>4, ResetFacts DEF RowInv
<1>5. ASSUME NEW e \in Dispatchers, Begin(e) PROVE Goal
    BY <1>1, <1>4, <1>5 DEF TypeOK, Begin, LoadedInv
<1>6. ASSUME NEW e \in Dispatchers, NEW S \in SUBSET Attempts, Claim(e, S) PROVE Goal
    <2>1. \A a \in Attempts : RowInv(a)'
        BY <1>1, <1>6, NoneAssumption DEF TypeOK, Claim, Claimable, RowInv
    <2>2. \A d \in Dispatchers : \A a \in Attempts : LoadedInv(d, a)'
        BY <1>1, <1>6 DEF TypeOK, Claim, LoadedInv
    <2> QED BY <2>1, <2>2
<1>7. ASSUME NEW e \in Dispatchers, Idle(e)
      PROVE  \A d \in Dispatchers : \A a \in Attempts : LoadedInv(d, a)'
    BY <1>1, <1>7, IdleFacts DEF LoadedInv
<1>8. ASSUME NEW e \in Dispatchers, ClaimNothing(e) \/ LoadNothing(e) \/ Crash(e) PROVE Goal
    <2>1. Idle(e) /\ UNCHANGED <<status, claim, tries>>
        BY <1>8 DEF ClaimNothing, LoadNothing, Crash, rowvars
    <2>2. \A a \in Attempts : RowInv(a)'
        BY <1>1, <2>1 DEF RowInv
    <2> QED BY <1>7, <2>1, <2>2
<1>9. ASSUME NEW e \in Dispatchers, Load(e) PROVE Goal
    <2>1. \A a \in Attempts : RowInv(a)'
        BY <1>1, <1>9 DEF Load, rowvars, RowInv
    <2>2. \A a \in batch'[e] : a \in Attempts /\ claim[a] = e /\ seen'[e][a] = Row(a)
        BY <1>9 DEF TypeOK, Load
    <2>3. ASSUME NEW a \in batch'[e]
          PROVE  seen'[e][a].status = "dispatching" /\ seen'[e][a].tries < MaxAttempts
        <3>1. claim[a] # None
            BY <2>2, NoneAssumption
        <3>2. status[a] = "dispatching" /\ tries[a] < MaxAttempts
            BY <1>1, <2>2, <3>1 DEF RowInv
        <3>3. Row(a).status = status[a] /\ Row(a).tries = tries[a]
            BY DEF Row
        <3> QED BY <2>2, <3>2, <3>3
    <2>4. \A d \in Dispatchers \ {e} :
            dpc'[d] = dpc[d] /\ batch'[d] = batch[d] /\ seen'[d] = seen[d]
        BY <1>9 DEF TypeOK, Load
    <2>5. \A d \in Dispatchers : \A a \in Attempts : LoadedInv(d, a)'
        BY <1>1, <2>3, <2>4 DEF LoadedInv
    <2> QED BY <2>1, <2>5
<1>10. ASSUME NEW e \in Dispatchers, NEW b \in Attempts, NEW o \in Outcomes, Post(e, b, o)
       PROVE  Goal
    BY <1>1, <1>10 DEF Post, rowvars, RowInv, LoadedInv
<1>11. ASSUME NEW e \in Dispatchers, Apply(e) PROVE Goal
    <2>1. Idle(e) /\ dpc[e] = "send"
        BY <1>11 DEF Apply
    <2>2. ASSUME NEW a \in Attempts PROVE RowInv(a)'
        <3>1. CASE a \notin batch[e]
            BY <1>1, <1>11, <3>1, ApplyFacts DEF RowInv
        <3>2. CASE a \in batch[e]
            <4>1. /\ outcome[e][a] \in Outcomes /\ seen[e][a] \in Columns
                  /\ seen[e][a].status = "dispatching" /\ seen[e][a].tries < MaxAttempts
                BY <1>1, <1>11, <2>1, <3>2, ApplyFacts DEF LoadedInv
            <4>2. /\ status'[a] = NewStatus(seen[e][a], outcome[e][a])
                  /\ tries'[a] = IF outcome[e][a] # "fatal"
                                 THEN NewTries(seen[e][a], outcome[e][a]) ELSE tries[a]
                  /\ claim'[a] = None
                BY <1>11, <3>2, <4>1, ApplyFacts, NewColumns
            <4>3. seen[e][a].tries \in Nat /\ tries[a] \in Nat
                BY <4>1 DEF TypeOK, Columns
            <4>4. tries'[a] <= MaxAttempts
                BY <1>1, <4>1, <4>2, <4>3, NewColumns, MaxAttemptsAssumption DEF RowInv
            <4> QED BY <4>1, <4>2, <4>4, NewColumns DEF RowInv
        <3> QED BY <3>1, <3>2
    <2> QED BY <1>7, <2>1, <2>2
<1>12. ASSUME Manual PROVE Goal
    <2>1. Cleanup
        BY <1>0, <1>12, NoneAssumption DEF Manual, ManualLoad, ManualCommit, SetActive, TypeOK
    <2>2. ResetStuck /\ UNCHANGED dvars
        BY <2>1 DEF Cleanup
    <2> QED BY <1>1, <1>4, <2>2 DEF LoadedInv, dvars
<1>13. CASE UNCHANGED vars
    BY <1>1, <1>13 DEF vars, rowvars, dvars, RowInv, LoadedInv
<1> QED
    BY <1>2, <1>3, <1>5, <1>6, <1>8, <1>9, <1>10, <1>11, <1>12, <1>13
       DEF Next, ClockStep, DispatcherStep

\* What has been granted is never taken back.
LEMMA GrantedGrows ==
    ASSUME TypeOK, RequestInv, [Next]_vars
    PROVE  /\ Granted \in Int /\ Granted' \in Int /\ MaxAttempts <= Granted
           /\ Granted <= Granted'
           /\ ManualCommit => Granted' = Granted + 1
<1> USE MaxAttemptsAssumption DEF RequestInv, TypeOK, bounds, Granted
<1>1. ASSUME NEW a \in Attempts, Enqueue(a) \/ ClockStep(a)
      PROVE  request' = request /\ manual' = manual
    BY <1>1 DEF Enqueue, ClockStep, BecomeDue, LeaseRunsOut
<1>2. ASSUME NEW d \in Dispatchers, DispatcherStep(d) \/ Crash(d)
      PROVE  request' = request /\ manual' = manual
    BY <1>2 DEF DispatcherStep, Begin, Claim, ClaimNothing, Load, LoadNothing, Post, Apply, Crash
<1>3. ASSUME Manual
      PROVE  \/ manual' = manual + 1 /\ request = None
             \/ manual' = manual + 1 /\ request' = request
             \/ manual' = manual /\ request # None /\ request' = None
             \/ manual' = manual /\ request' = request
    BY <1>3 DEF Manual, ManualLoad, ManualCommit, SetActive, Cleanup
<1>4. ASSUME UNCHANGED vars
      PROVE  request' = request /\ manual' = manual
    BY <1>4 DEF vars
<1>5. ManualCommit => request # None /\ request' = None /\ manual' = manual
    BY DEF ManualCommit
<1>6. \/ manual' = manual + 1 /\ request = None
      \/ manual' = manual + 1 /\ request' = request
      \/ manual' = manual /\ request # None /\ request' = None
      \/ manual' = manual /\ request' = request
    BY <1>1, <1>2, <1>3, <1>4 DEF Next
<1>7. /\ manual \in Nat /\ manual' \in Nat /\ MaxAttempts \in Nat
      /\ request # None => manual > 0
    BY <1>6
<1>8. /\ request = None => Granted = MaxAttempts + manual
      /\ request # None => Granted = MaxAttempts + manual - 1
      /\ request' = None => Granted' = MaxAttempts + manual'
      /\ request' # None => Granted' = MaxAttempts + manual' - 1
    BY <1>7
<1> HIDE DEF TypeOK, RequestInv, Granted
<1> QED BY <1>5, <1>6, <1>7, <1>8

\* A row on its way has a try left, manual requests included.
LEMMA GrantStep ==
    ASSUME TypeOK, SeenInv, RequestInv, GrantInv, [Next]_vars
    PROVE  GrantInv'
<1> DEFINE Goal == /\ \A a \in Attempts : GrantRow(a)'
                   /\ \A d \in Dispatchers : \A a \in Attempts : GrantLoaded(d, a)'
<1> SUFFICES Goal
    BY DEF GrantInv
<1>0. /\ Granted \in Int /\ Granted' \in Int /\ MaxAttempts <= Granted
      /\ Granted <= Granted'
      /\ ManualCommit => Granted' = Granted + 1
    BY GrantedGrows
<1>1. /\ \A a \in Attempts : GrantRow(a) /\ tries[a] \in Nat
      /\ \A d \in Dispatchers : \A a \in Attempts :
            /\ GrantLoaded(d, a)
            /\ dpc[d] = "send" /\ a \in batch[d] => seen[d][a].tries \in Nat
    BY DEF GrantInv, TypeOK, SeenInv, Columns
<1>2. ASSUME UNCHANGED <<tries, claim>>, \A a \in Attempts :
                status'[a] = status[a] \/ (status[a] = "absent" /\ status'[a] = "pending")
      PROVE  \A a \in Attempts : GrantRow(a)'
    BY <1>0, <1>1, <1>2 DEF GrantRow
<1>3. ASSUME UNCHANGED dvars
      PROVE  \A d \in Dispatchers : \A a \in Attempts : GrantLoaded(d, a)'
    BY <1>0, <1>1, <1>3 DEF GrantLoaded, dvars
<1>4. ASSUME ResetStuck PROVE \A a \in Attempts : GrantRow(a)'
    BY <1>0, <1>1, <1>4, ResetFacts DEF GrantRow
<1>5. ASSUME NEW e \in Dispatchers, Idle(e)
      PROVE  \A d \in Dispatchers : \A a \in Attempts : GrantLoaded(d, a)'
    BY <1>0, <1>1, <1>5, IdleFacts DEF GrantLoaded
<1>6. ASSUME NEW b \in Attempts, Enqueue(b) \/ ClockStep(b) PROVE Goal
    BY <1>2, <1>3, <1>6 DEF TypeOK, Enqueue, ClockStep, BecomeDue, LeaseRunsOut
<1>7. ASSUME NEW e \in Dispatchers, Begin(e) PROVE Goal
    <2>1. \A d \in Dispatchers : \A a \in Attempts : GrantLoaded(d, a)'
        BY <1>0, <1>1, <1>7 DEF TypeOK, Begin, GrantLoaded
    <2> QED BY <1>4, <1>7, <2>1 DEF Begin
<1>8. ASSUME NEW e \in Dispatchers, NEW S \in SUBSET Attempts, Claim(e, S) PROVE Goal
    <2>1. \A a \in Attempts : GrantRow(a)'
        BY <1>0, <1>1, <1>8 DEF TypeOK, Claim, Claimable, GrantRow
    <2>2. \A d \in Dispatchers : \A a \in Attempts : GrantLoaded(d, a)'
        BY <1>0, <1>1, <1>8 DEF TypeOK, Claim, GrantLoaded
    <2> QED BY <2>1, <2>2
<1>9. ASSUME NEW e \in Dispatchers, ClaimNothing(e) \/ LoadNothing(e) \/ Crash(e) PROVE Goal
    <2>1. Idle(e) /\ UNCHANGED <<status, claim, tries>>
        BY <1>9 DEF ClaimNothing, LoadNothing, Crash, rowvars
    <2> QED BY <1>2, <1>5, <2>1
<1>10. ASSUME NEW e \in Dispatchers, Load(e) PROVE Goal
    <2>1. \A a \in Attempts : GrantRow(a)'
        BY <1>2, <1>10 DEF Load, rowvars
    <2>2. \A a \in batch'[e] : a \in Attempts /\ claim[a] = e /\ seen'[e][a] = Row(a)
        BY <1>10 DEF TypeOK, Load
    <2>3. ASSUME NEW a \in batch'[e]
          PROVE  seen'[e][a].status \in {"pending", "dispatching"} /\ seen'[e][a].tries < Granted'
        <3>1. claim[a] # None
            BY <2>2, NoneAssumption
        <3>2. status[a] \in {"pending", "dispatching"} /\ tries[a] < Granted'
            BY <1>0, <1>1, <2>2, <3>1 DEF GrantRow
        <3>3. Row(a).status = status[a] /\ Row(a).tries = tries[a]
            BY DEF Row
        <3> QED BY <2>2, <3>2, <3>3
    <2>4. \A d \in Dispatchers \ {e} :
            dpc'[d] = dpc[d] /\ batch'[d] = batch[d] /\ seen'[d] = seen[d]
        BY <1>10 DEF TypeOK, Load
    <2>5. \A d \in Dispatchers : \A a \in Attempts : GrantLoaded(d, a)'
        BY <1>0, <1>1, <2>3, <2>4 DEF GrantLoaded
    <2> QED BY <2>1, <2>5
<1>11. ASSUME NEW e \in Dispatchers, NEW b \in Attempts, NEW o \in Outcomes, Post(e, b, o)
       PROVE  Goal
    <2>1. \A d \in Dispatchers : \A a \in Attempts : GrantLoaded(d, a)'
        BY <1>0, <1>1, <1>11 DEF Post, GrantLoaded
    <2> QED BY <1>2, <1>11, <2>1 DEF Post, rowvars
<1>12. ASSUME NEW e \in Dispatchers, Apply(e) PROVE Goal
    <2>1. Idle(e) /\ dpc[e] = "send"
        BY <1>12 DEF Apply
    <2>2. ASSUME NEW a \in Attempts PROVE GrantRow(a)'
        <3>1. CASE a \notin batch[e]
            BY <1>0, <1>1, <1>12, <3>1, ApplyFacts DEF GrantRow
        <3>2. CASE a \in batch[e]
            <4> DEFINE c == seen[e][a]
                       o == outcome[e][a]
            <4>1. /\ o \in Outcomes /\ c \in Columns /\ c.tries \in Nat
                  /\ c.status \in {"pending", "dispatching"} /\ c.tries < Granted
                BY <1>1, <1>12, <2>1, <3>2, ApplyFacts DEF GrantLoaded
            <4>2. /\ status'[a] = IF NewStatus(c, o) # c.status THEN NewStatus(c, o) ELSE status[a]
                  /\ tries'[a] = IF o # "fatal" THEN NewTries(c, o) ELSE tries[a]
                  /\ claim'[a] = None
                BY <1>12, <3>2, ApplyFacts
            <4>3. /\ NewStatus(c, o) \in {"dead", "delivered", "pending"}
                  /\ NewTries(c, o) \in Nat /\ NewTries(c, o) <= c.tries + 1
                  /\ NewStatus(c, o) = "pending" => o # "fatal" /\ NewTries(c, o) < MaxAttempts
                BY <4>1, NewColumns
            <4>4. tries'[a] <= Granted'
                BY <1>0, <1>1, <4>1, <4>2, <4>3 DEF GrantRow
            <4>5. CASE NewStatus(c, o) = "pending"
                BY <1>0, <4>2, <4>3, <4>4, <4>5, MaxAttemptsAssumption DEF GrantRow
            <4>6. CASE NewStatus(c, o) # "pending"
                BY <4>1, <4>2, <4>3, <4>4, <4>6 DEF GrantRow
            <4> QED BY <4>5, <4>6
        <3> QED BY <3>1, <3>2
    <2> QED BY <1>5, <2>1, <2>2
<1>13. ASSUME Manual PROVE Goal
    <2>1. CASE \E kind \in ManualKinds, a \in Attempts : ManualLoad(kind, a)
        BY <1>2, <1>3, <2>1 DEF ManualLoad, rowvars
    <2>2. CASE ManualCommit
        <3>1. /\ UNCHANGED dvars
              /\ \A a \in Attempts : tries'[a] \in {0, tries[a]}
              /\ \A a \in Attempts : claim'[a] \in {None, claim[a]}
              /\ \A a \in Attempts : status'[a] \in {"pending", status[a]}
            BY <2>2 DEF ManualCommit, TypeOK
        <3>2. \A a \in Attempts : GrantRow(a)'
            BY <1>0, <1>1, <2>2, <3>1, MaxAttemptsAssumption DEF GrantRow
        <3> QED BY <1>3, <3>1, <3>2
    <2>3. CASE \E a \in Attempts, on \in BOOLEAN : SetActive(a, on)
        BY <1>2, <1>3, <2>3 DEF SetActive, rowvars
    <2>4. CASE Cleanup
        BY <1>3, <1>4, <2>4 DEF Cleanup
    <2> QED BY <1>13, <2>1, <2>2, <2>3, <2>4 DEF Manual
<1>14. CASE UNCHANGED vars
    BY <1>2, <1>3, <1>14 DEF vars, rowvars
<1> QED
    BY <1>6, <1>7, <1>8, <1>9, <1>10, <1>11, <1>12, <1>13, <1>14
       DEF Next, DispatcherStep

\* With one request of an admin, claims and statuses still move together.
LEMMA ClaimedStep ==
    ASSUME TypeOK, SeenInv, RequestInv, HoldInv, ClaimedInv, [Next]_vars
    PROVE  ClaimedInv'
<1> DEFINE Rows == \A a \in Attempts : ClaimedRow(a)'
           Loaded == \A d \in Dispatchers : \A a \in Attempts : ClaimedLoaded(d, a)'
           Goal == Rows /\ Loaded /\ ClaimedRequest'
<1> SUFFICES ASSUME "retry" \notin ManualKinds, overruns' = 0, manual' <= 1
             PROVE  Goal
    BY DEF ClaimedInv
<1>0. overruns = 0 /\ manual <= 1
    BY BoundStep
<1>1. /\ \A a \in Attempts : ClaimedRow(a)
      /\ \A d \in Dispatchers : \A a \in Attempts : ClaimedLoaded(d, a)
      /\ ClaimedRequest
    BY <1>0 DEF ClaimedInv
<1>2. request # None => /\ request.a \in Attempts
                        /\ \A d \in Dispatchers : Holds(d, request.a) =>
                                status[request.a] = "dispatching"
    BY <1>0 DEF TypeOK, RequestInv, HoldInv, Unbroken
\* A step that leaves the rows at their end alone does not disturb a request.
<1>3. ASSUME request' = request,
             request # None /\ status[request.a] \in {"delivered", "dead"} =>
                status'[request.a] = status[request.a]
      PROVE  ClaimedRequest'
    BY <1>1, <1>3 DEF ClaimedRequest
<1>4. ASSUME UNCHANGED <<dpc, batch, seen>> PROVE Loaded
    BY <1>1, <1>4 DEF ClaimedLoaded
<1>5. ASSUME UNCHANGED <<status, claim>> PROVE Rows
    BY <1>1, <1>5 DEF ClaimedRow
<1>6. ASSUME NEW b \in Attempts, Enqueue(b) PROVE Goal
    <2>1. Rows
        BY <1>1, <1>6 DEF TypeOK, Enqueue, ClaimedRow
    <2>2. ClaimedRequest'
        BY <1>2, <1>3, <1>6 DEF TypeOK, Enqueue
    <2> QED BY <1>4, <1>6, <2>1, <2>2 DEF Enqueue, dvars
<1>7. ASSUME NEW b \in Attempts, BecomeDue(b) \/ LeaseRunsOut(b) PROVE Goal
    BY <1>3, <1>4, <1>5, <1>7 DEF BecomeDue, LeaseRunsOut, dvars
<1>8. ASSUME ResetStuck, request' = request PROVE Rows /\ ClaimedRequest'
    <2>1. Rows
        BY <1>1, <1>8, ResetFacts DEF ClaimedRow
    <2> QED BY <1>2, <1>3, <1>8, <2>1, ResetFacts
<1>9. ASSUME NEW e \in Dispatchers, Begin(e) PROVE Goal
    <2>1. Loaded
        BY <1>1, <1>9 DEF TypeOK, Begin, ClaimedLoaded
    <2> QED BY <1>8, <1>9, <2>1 DEF Begin
<1>10. ASSUME NEW e \in Dispatchers, NEW S \in SUBSET Attempts, Claim(e, S) PROVE Goal
    <2>1. Rows
        BY <1>1, <1>10, NoneAssumption DEF TypeOK, Claim, Claimable, ClaimedRow
    <2>2. Loaded
        BY <1>1, <1>10 DEF TypeOK, Claim, ClaimedLoaded
    <2>3. ClaimedRequest'
        BY <1>2, <1>3, <1>10 DEF TypeOK, Claim, Claimable
    <2> QED BY <2>1, <2>2, <2>3
<1>11. ASSUME NEW e \in Dispatchers, Idle(e) PROVE Loaded
    BY <1>1, <1>11, IdleFacts DEF ClaimedLoaded
<1>12. ASSUME NEW e \in Dispatchers, ClaimNothing(e) \/ LoadNothing(e) \/ Crash(e) PROVE Goal
    <2>1. Idle(e) /\ UNCHANGED <<status, claim, request>>
        BY <1>12 DEF ClaimNothing, LoadNothing, Crash, rowvars
    <2> QED BY <1>3, <1>5, <1>11, <2>1
<1>13. ASSUME NEW e \in Dispatchers, Load(e) PROVE Goal
    <2>1. UNCHANGED <<status, claim, request>>
        BY <1>13 DEF Load, rowvars
    <2>2. \A a \in batch'[e] : a \in Attempts /\ claim[a] = e /\ seen'[e][a] = Row(a)
        BY <1>13 DEF TypeOK, Load
    <2>3. \A a \in batch'[e] : seen'[e][a].status = "dispatching"
        <3> SUFFICES ASSUME NEW a \in batch'[e] PROVE seen'[e][a].status = "dispatching"
            OBVIOUS
        <3>1. claim[a] # None /\ a \in Attempts
            BY <2>2, NoneAssumption
        <3>2. status[a] = "dispatching"
            BY <1>1, <3>1 DEF ClaimedRow
        <3>3. Row(a).status = status[a]
            BY DEF Row
        <3> QED BY <2>2, <3>2, <3>3
    <2>4. \A d \in Dispatchers \ {e} :
            dpc'[d] = dpc[d] /\ batch'[d] = batch[d] /\ seen'[d] = seen[d]
        BY <1>13 DEF TypeOK, Load
    <2>5. Loaded
        BY <1>1, <2>3, <2>4 DEF ClaimedLoaded
    <2> QED BY <1>3, <1>5, <2>1, <2>5
<1>14. ASSUME NEW e \in Dispatchers, NEW b \in Attempts, NEW o \in Outcomes, Post(e, b, o)
       PROVE  Goal
    BY <1>3, <1>4, <1>5, <1>14 DEF Post, rowvars
<1>15. ASSUME NEW e \in Dispatchers, Apply(e) PROVE Goal
    <2>1. Idle(e) /\ dpc[e] = "send" /\ request' = request
        BY <1>15 DEF Apply
    <2>2. ASSUME NEW a \in Attempts PROVE ClaimedRow(a)'
        <3>1. CASE a \notin batch[e]
            BY <1>1, <1>15, <3>1, ApplyFacts DEF ClaimedRow
        <3>2. CASE a \in batch[e]
            <4>1. /\ outcome[e][a] \in Outcomes /\ seen[e][a] \in Columns
                  /\ seen[e][a].status = "dispatching"
                BY <1>1, <1>15, <2>1, <3>2, ApplyFacts DEF ClaimedLoaded
            <4>2. status'[a] # "dispatching" /\ claim'[a] = None
                BY <1>15, <3>2, <4>1, ApplyFacts, NewColumns
            <4> QED BY <4>2 DEF ClaimedRow
        <3> QED BY <3>1, <3>2
    <2>3. ASSUME request # None, status[request.a] \in {"delivered", "dead"}
          PROVE  status'[request.a] = status[request.a]
        <3>1. request.a \in Attempts \ batch[e]
            BY <1>2, <2>1, <2>3 DEF Holds
        <3> QED BY <1>15, <3>1, ApplyFacts
    <2> QED BY <1>3, <1>11, <2>1, <2>2, <2>3
<1>16. ASSUME NEW kind \in ManualKinds, NEW b \in Attempts, ManualLoad(kind, b) PROVE Goal
    <2>1. /\ UNCHANGED <<status, claim, dpc, batch, seen>>
          /\ request' = [kind |-> kind, a |-> b, seen |-> Row(b)] /\ status[b] # "absent"
        BY <1>16 DEF ManualLoad, rowvars, dvars
    <2>2. ClaimedRequest'
        BY <1>1, <2>1 DEF ClaimedRequest, ClaimedRow, Row
    <2> QED BY <1>4, <1>5, <2>1, <2>2
<1>17. ASSUME ManualCommit PROVE Goal
    <2> PICK a \in Attempts, c \in Columns : request # None /\ a = request.a /\ c = request.seen
        BY <1>17 DEF ManualCommit, TypeOK
    <2>1. /\ request' = None /\ UNCHANGED dvars
          /\ c.status \in Statuses
          /\ request.kind # "retry" /\ c.status # "absent"
          /\ c.status = "dispatching" <=> c.claim # None
          /\ c.status \in {"delivered", "dead"} => status[a] = c.status
        BY <1>1, <1>17 DEF ManualCommit, TypeOK, Columns, ClaimedRequest
    <2>2. /\ status'[a] = IF c.status = "pending" THEN status[a] ELSE "pending"
          /\ claim'[a] = IF c.claim # None THEN None ELSE claim[a]
          /\ \A b \in Attempts \ {a} : status'[b] = status[b] /\ claim'[b] = claim[b]
        BY <1>17, <2>1 DEF ManualCommit, TypeOK
    <2>3. ClaimedRow(a)'
        BY <1>1, <2>1, <2>2 DEF ClaimedRow, Statuses
    <2>4. Rows
        BY <1>1, <2>2, <2>3 DEF ClaimedRow
    <2> QED BY <1>4, <2>1, <2>4 DEF dvars, ClaimedRequest
<1>18. ASSUME NEW b \in Attempts, NEW on \in BOOLEAN, SetActive(b, on) PROVE Goal
    BY <1>3, <1>4, <1>5, <1>18 DEF SetActive, rowvars, dvars
<1>19. ASSUME Cleanup PROVE Goal
    BY <1>4, <1>8, <1>19 DEF Cleanup, dvars
<1>20. CASE UNCHANGED vars
    BY <1>3, <1>4, <1>5, <1>20 DEF vars, rowvars, dvars
<1> QED
    BY <1>6, <1>7, <1>9, <1>10, <1>12, <1>13, <1>14, <1>15, <1>16, <1>17, <1>18, <1>19, <1>20
       DEF Next, ClockStep, DispatcherStep, Manual
-----------------------------------------------------------------------------
\* The invariant holds initially ...
LEMMA InitOutbox ==
    ASSUME Init
    PROVE  OutboxInv
<1>1. TypeOK
    BY BoundsAssumption DEF Init, TypeOK, Statuses
<1>2. SeenInv /\ AckInv /\ RequestInv /\ HoldInv
    BY NoneAssumption
       DEF Init, SeenInv, AckInv, RequestInv, HoldInv, Unbroken, Holds, Outcomes
<1>3. BudgetInv
    BY MaxAttemptsAssumption DEF Init, BudgetInv, RowInv, LoadedInv
<1>4. GrantInv
    BY MaxAttemptsAssumption DEF Init, GrantInv, GrantRow, GrantLoaded, Granted
<1>5. ClaimedInv
    BY DEF Init, ClaimedInv, ClaimedRow, ClaimedLoaded, ClaimedRequest
<1> QED BY <1>1, <1>2, <1>3, <1>4, <1>5 DEF OutboxInv

\* ... and every step preserves it.
LEMMA StepOutbox ==
    ASSUME OutboxInv, [Next]_vars
    PROVE  OutboxInv'
    BY TypeStep, AckStep, BoundStep, HoldStep, BudgetStep, GrantStep, ClaimedStep DEF OutboxInv

\* So it holds throughout.
LEMMA OutboxAlways == Spec => []OutboxInv
    BY InitOutbox, StepOutbox, PTL DEF Spec

\* The type invariant, for every instance of the constants.
THEOREM OutboxTypeCorrect == Spec => []TypeOK
<1>1. OutboxInv => TypeOK
    BY DEF OutboxInv
<1> QED BY <1>1, OutboxAlways, PTL

\* dispatch_due_attempts marks a row delivered only if its endpoint answered
\* 2xx, whatever crashes, overruns and replays came between the claim and the
\* write.
THEOREM DeliveredMeansAcked == Spec => []DeliveredWasAcked
<1>1. OutboxInv => DeliveredWasAcked
    BY DEF OutboxInv, AckInv, DeliveredWasAcked
<1> QED BY <1>1, OutboxAlways, PTL

\* The docstring of _claim_attempts: concurrent dispatchers hold disjoint sets,
\* as long as no lease ran out on a running batch and nobody replayed by hand.
THEOREM ClaimsAreDisjoint == Spec => []ClaimsDisjoint
<1>1. OutboxInv => ClaimsDisjoint
    BY DEF OutboxInv, HoldInv, Unbroken, ClaimsDisjoint
<1> QED BY <1>1, OutboxAlways, PTL

\* No row is tried more often than max_attempts times and once more for each
\* manual request, also when a request is committed while its row is being
\* sent and counted (dispatcher.py:264; the routes that retry and replay).
THEOREM TriesStayWithinBudget == Spec => []TriesWithinBudget
<1>1. OutboxInv => TriesWithinBudget
    BY MaxAttemptsAssumption
       DEF OutboxInv, GrantInv, GrantRow, Granted, TriesWithinBudget, TypeOK
<1> QED BY <1>1, OutboxAlways, PTL

\* Until somebody uses a manual route, a row that a dead batch left behind can
\* be found by reset_stuck_dispatching and no row is tried more than
\* max_attempts times, crashes and overruns included.
THEOREM BudgetAndRecovery == Spec => [](manual = 0 => StuckIsFindable /\ TriesWithinBudget)
<1>1. OutboxInv => (manual = 0 => StuckIsFindable /\ TriesWithinBudget)
    BY MaxAttemptsAssumption
       DEF OutboxInv, BudgetInv, RowInv, StuckIsFindable, TriesWithinBudget, TypeOK
<1> QED BY <1>1, OutboxAlways, PTL

\* A batch that died under an admin's replay or redelivery leaves no row behind
\* that reset_stuck_dispatching cannot find: one such request, committed at any
\* moment of any batch, clears the status and the claim together
\* (dispatcher.py:62-63).
THEOREM StuckRowsAreFindable ==
    "retry" \notin ManualKinds => (Spec => [](overruns = 0 /\ manual <= 1 => StuckIsFindable))
<1> SUFFICES ASSUME "retry" \notin ManualKinds
             PROVE  Spec => [](overruns = 0 /\ manual <= 1 => StuckIsFindable)
    OBVIOUS
<1>1. OutboxInv => (overruns = 0 /\ manual <= 1 => StuckIsFindable)
    BY DEF OutboxInv, ClaimedInv, ClaimedRow, StuckIsFindable
<1> QED BY <1>1, OutboxAlways, PTL

\* While no claim is broken from outside, no step of any dispatcher takes a
\* delivered row back (apps/scheduler/main.py:28-30).
THEOREM DeliveredStays == Spec => DeliveredIsFinalUnderClaim
<1>1. ASSUME OutboxInv, [Next]_vars
      PROVE  [overruns' = 0 /\ manual' = 0 =>
                \A a \in Attempts : status[a] = "delivered" => status'[a] = "delivered"]_vars
    <2> SUFFICES ASSUME overruns' = 0, manual' = 0,
                        NEW a \in Attempts, status[a] = "delivered"
                 PROVE  status'[a] = "delivered"
        OBVIOUS
    <2> USE <1>1 DEF OutboxInv
    <2>0. overruns = 0 /\ manual = 0 /\ request = None
        BY BoundStep
    <2>1. \A e \in Dispatchers : ~Holds(e, a)
        BY <2>0 DEF HoldInv, Unbroken
    <2>2. CASE \E b \in Attempts : Enqueue(b) \/ ClockStep(b)
        BY <2>2 DEF TypeOK, Enqueue, ClockStep, BecomeDue, LeaseRunsOut
    <2>3. CASE ResetStuck
        BY <2>3, ResetFacts
    <2>4. ASSUME NEW e \in Dispatchers, NEW S \in SUBSET Attempts, Claim(e, S)
          PROVE  status'[a] = "delivered"
        BY <2>4 DEF TypeOK, Claim, Claimable
    <2>5. ASSUME NEW e \in Dispatchers, Apply(e) PROVE status'[a] = "delivered"
        <3>1. a \notin batch[e]
            BY <2>1, <2>5 DEF Holds, Apply
        <3> QED BY <2>5, <3>1, ApplyFacts
    <2>6. ASSUME NEW e \in Dispatchers, DispatcherStep(e) \/ Crash(e)
          PROVE  status'[a] = "delivered"
        BY <2>3, <2>4, <2>5, <2>6
           DEF DispatcherStep, Begin, ClaimNothing, Load, LoadNothing, Post, Crash, rowvars
    <2>7. CASE Manual
        BY <2>0, <2>3, <2>7
           DEF Manual, ManualLoad, ManualCommit, SetActive, Cleanup, TypeOK
    <2>8. CASE UNCHANGED vars
        BY <2>8 DEF vars, rowvars
    <2> QED BY <2>2, <2>6, <2>7, <2>8 DEF Next
<1> QED BY <1>1, OutboxAlways, PTL DEF Spec, DeliveredIsFinalUnderClaim
-----------------------------------------------------------------------------
(* The lock and the cursor of the bank poller                              *)

\* Who holds the lock is alive, and who is alive holds it: a task that found it
\* busy has ended.
HeldIsLive == \A w \in Workers : task[w].held = Live(w)

LeaseInv == LeaseHolds /\ HeldIsLive

LEMMA TaskFields ==
    ASSUME PollerTypeOK, NEW w \in Workers
    PROVE  /\ task[w] \in Task /\ task[w].session \in BOOLEAN /\ task[w].held \in BOOLEAN
           /\ task[w].step \in {"none", "check", "idle", "login", "backoff", "poll", "relogin",
                                "rest", "done"}
  BY DEF PollerTypeOK, Task

\* A step of a task that stays alive keeps its lock.
Keeps(w, new) ==
    /\ new \in Task /\ new.held = task[w].held /\ new.step \notin {"none", "done"}
    /\ Live(w) /\ task' = [task EXCEPT ![w] = new] /\ lock' = lock /\ lapsed' = lapsed

LEMMA KeepsLease ==
    ASSUME LeaseInv, NEW w \in Workers, NEW new, Keeps(w, new), account' \in Account, order' \in BOOLEAN
    PROVE  LeaseInv'
<1>1. task'[w] = new /\ \A v \in Workers : v # w => task'[v] = task[v]
  BY DEF LeaseInv, LeaseHolds, PollerTypeOK, Keeps
<1>2. PollerTypeOK'
  BY DEF LeaseInv, LeaseHolds, PollerTypeOK, Keeps
<1>3. \A v \in Workers : Live(v)' = Live(v) /\ task'[v].held = task[v].held
  BY <1>1 DEF Keeps, Live
<1> QED BY <1>2, <1>3 DEF LeaseInv, LeaseHolds, OnePollerPerLease, LeaseIsHeld, HeldIsLive, Keeps

\* A task that ends leaves the lock to nobody.
Ends(w, new) ==
    /\ new \in Task /\ ~new.held /\ new.step \in {"none", "done"}
    /\ task' = [task EXCEPT ![w] = new] /\ lapsed' = lapsed
    /\ lock' \in BOOLEAN /\ (~task[w].held => lock' = lock)

LEMMA EndsLease ==
    ASSUME LeaseInv, NEW w \in Workers, NEW new, Ends(w, new), account' = account, order' = order
    PROVE  LeaseInv'
<1> USE DEF LeaseInv, LeaseHolds
<1>1. task'[w] = new /\ \A v \in Workers : v # w => task'[v] = task[v]
  BY DEF PollerTypeOK, Ends
<1>2. PollerTypeOK'
  BY DEF PollerTypeOK, Ends
<1>3. new.held = FALSE
  BY Zenon DEF Ends, Task
<1>4. \A v \in Workers : /\ Live(v)' => v # w /\ Live(v)
                         /\ task'[v].held => v # w /\ task[v].held
  BY <1>1, <1>3 DEF Ends, Live
<1>5. HeldIsLive'
  <2>1. Live(w)' = FALSE /\ task'[w].held = FALSE
    BY <1>1, <1>3 DEF Ends, Live
  <2>2. \A v \in Workers : v # w => Live(v)' = Live(v) /\ task'[v].held = task[v].held
    BY <1>1 DEF Live
  <2>3. ASSUME NEW v \in Workers PROVE task'[v].held = Live(v)'
    <3>1. CASE v = w
      BY <2>1, <3>1, Zenon DEF Live
    <3>2. CASE v # w
      BY <2>2, <3>2, Zenon DEF HeldIsLive
    <3> QED BY <3>1, <3>2
  <2> QED BY <2>3 DEF HeldIsLive
<1>6. OnePollerPerLease'
  BY <1>4 DEF OnePollerPerLease, Ends
<1>7. LeaseIsHeld'
  <2>1. SUFFICES ASSUME ~lapsed, NEW v \in Workers, task'[v].held PROVE lock'
    BY DEF LeaseIsHeld, Ends
  <2>2. v # w /\ Live(v) /\ lock
    BY <1>4, <2>1 DEF HeldIsLive, LeaseIsHeld
  <2>3. ~Live(w)
    BY <2>1, <2>2 DEF OnePollerPerLease
  <2>4. ~task[w].held
    BY <2>3 DEF HeldIsLive
  <2> QED BY <2>2, <2>4 DEF Ends
<1> QED BY <1>2, <1>5, <1>6, <1>7

LEMMA NoTaskFacts ==
    /\ NoTask \in Task /\ ~NoTask.held /\ NoTask.step = "none"
    /\ [NoTask EXCEPT !.step = "done"] \in Task /\ ~[NoTask EXCEPT !.step = "done"].held
    /\ [NoTask EXCEPT !.step = "done"].step = "done"
  BY DEF NoTask, Task

LEMMA DiesLease ==
    ASSUME LeaseInv, NEW w \in Workers, Dies(w), UNCHANGED <<account, order, lapsed>>
    PROVE  LeaseInv'
<1>1. lock' \in BOOLEAN /\ (~task[w].held => lock' = lock)
  BY Zenon DEF Dies, Unlocked, LeaseInv, LeaseHolds, PollerTypeOK
<1>2. Ends(w, [NoTask EXCEPT !.step = "done"])
  BY <1>1, NoTaskFacts DEF Dies, Ends
<1> QED BY <1>2, EndsLease

\* One step of a task.
LEMMA TaskLease ==
    ASSUME LeaseInv, NEW w \in Workers, TaskStep(w)
    PROVE  LeaseInv'
<1> USE DEF LeaseInv, LeaseHolds
<1>1. PICK t \in Task : t = task[w] /\ t.session \in BOOLEAN /\ t.held \in BOOLEAN
  BY TaskFields
<1>2. lock \in BOOLEAN /\ account \in Account /\ order \in BOOLEAN /\ task \in [Workers -> Task]
  BY DEF PollerTypeOK
<1>3. ASSUME NEW new \in Task, new.held = t.held, new.step \notin {"none", "done"},
             task' = [task EXCEPT ![w] = new], Live(w), UNCHANGED <<lock, lapsed, order>>,
             account' \in Account
      PROVE  LeaseInv'
  <2>1. Keeps(w, new)
    BY <1>1, <1>3 DEF Keeps
  <2> QED BY <1>2, <1>3, <2>1, KeepsLease
<1>4. t.step \notin {"none", "done"} => Live(w)
  BY <1>1 DEF Live
<1>5. \A session \in BOOLEAN : [account EXCEPT !.session = session] \in Account
  BY <1>2 DEF Account
<1>6. ASSUME NEW step \in {"check", "idle", "login", "backoff", "poll", "relogin", "rest"},
             Goes(w, step), Live(w), UNCHANGED <<lock, lapsed, order>>, account' \in Account
      PROVE  LeaseInv'
  <2>1. PICK new : new = [t EXCEPT !.step = step]
    OBVIOUS
  <2>2. new \in Task /\ new.held = t.held /\ new.step = step
    BY <2>1 DEF Task
  <2>3. task' = [task EXCEPT ![w] = new]
    BY <1>1, <1>6, <2>1 DEF Goes
  <2> QED BY <1>3, <1>6, <2>2, <2>3
<1>7. ASSUME NEW session \in BOOLEAN, Renews(w, session), Live(w), UNCHANGED <<lock, lapsed, order>>,
             account' \in Account
      PROVE  LeaseInv'
  <2>1. PICK new : new = [t EXCEPT !.step = "check", !.session = session, !.fresh = lock]
    OBVIOUS
  <2>2. new \in Task /\ new.held = t.held /\ new.step = "check"
    BY <1>2, <2>1 DEF Task
  <2>3. task' = [task EXCEPT ![w] = new]
    BY <1>1, <1>7, <2>1 DEF Renews
  <2> QED BY <1>3, <1>7, <2>2, <2>3
<1>8. CASE Check(w)
  <2>1. Live(w) /\ UNCHANGED <<account, order, lock, lapsed>>
    BY <1>1, <1>4, <1>8 DEF Check
  <2>2. PICK new : new = [t EXCEPT !.step = "idle", !.fresh = FALSE]
    OBVIOUS
  <2>3. \/ Goes(w, "poll") \/ Goes(w, "login") \/ task' = [task EXCEPT ![w] = new]
    BY <1>1, <1>8, <2>2 DEF Check
  <2>4. new \in Task /\ new.held = t.held /\ new.step = "idle"
    BY <2>2 DEF Task
  <2> QED BY <1>2, <1>3, <1>6, <2>1, <2>3, <2>4
<1>9. CASE WakeUp(w)
  <2>1. Live(w) /\ UNCHANGED <<account, order, lock, lapsed>>
    BY <1>1, <1>4, <1>9 DEF WakeUp
  <2>2. Goes(w, "check") \/ Renews(w, t.session) \/ Goes(w, "login")
    BY <1>1, <1>9 DEF WakeUp
  <2> QED BY <1>1, <1>2, <1>6, <1>7, <2>1, <2>2
<1>10. CASE Login(w)
  <2>1. Live(w) /\ UNCHANGED <<order, lapsed>>
    BY <1>1, <1>4, <1>10 DEF Login
  <2>2. PICK in : in = [t EXCEPT !.step = "check", !.session = TRUE, !.ready = TRUE,
                                 !.onlyPending = FALSE]
    OBVIOUS
  <2>3. PICK off : off = [t EXCEPT !.step = "backoff", !.fresh = FALSE]
    OBVIOUS
  <2>4. \/ task' = [task EXCEPT ![w] = in] /\ Saves(TRUE) /\ UNCHANGED lock
        \/ task' = [task EXCEPT ![w] = off] /\ UNCHANGED <<account, lock>>
        \/ Dies(w) /\ UNCHANGED account
    BY <1>1, <1>10, <2>2, <2>3 DEF Login
  <2>5. in \in Task /\ in.held = t.held /\ in.step = "check"
    BY <2>2 DEF Task
  <2>6. off \in Task /\ off.held = t.held /\ off.step = "backoff"
    BY <2>3 DEF Task
  <2>7. CASE task' = [task EXCEPT ![w] = in] /\ Saves(TRUE) /\ UNCHANGED lock
    <3>1. account' \in Account
      BY <1>5, <2>7 DEF Saves
    <3> QED BY <1>3, <2>1, <2>5, <2>7, <3>1
  <2>8. CASE task' = [task EXCEPT ![w] = off] /\ UNCHANGED <<account, lock>>
    BY <1>2, <1>3, <2>1, <2>6, <2>8
  <2>9. CASE Dies(w) /\ UNCHANGED account
    BY <2>1, <2>9, DiesLease
  <2> QED BY <2>4, <2>7, <2>8, <2>9
<1>11. CASE Poll(w)
  <2>1. Live(w) /\ UNCHANGED <<order, lock, lapsed>>
    BY <1>1, <1>4, <1>11 DEF Poll
  <2>2. account' \in Account
    BY <1>1, <1>2, <1>5, <1>11 DEF Poll, Saves
  <2>3. \/ Goes(w, "rest")
        \/ \E session \in {FALSE, t.session} :
                task' = [task EXCEPT ![w] = [t EXCEPT !.step = "relogin", !.session = session]]
    BY <1>1, <1>11 DEF Poll
  <2>4. ASSUME NEW session \in {FALSE, t.session},
               task' = [task EXCEPT ![w] = [t EXCEPT !.step = "relogin", !.session = session]]
        PROVE  LeaseInv'
    <3>1. PICK new : new = [t EXCEPT !.step = "relogin", !.session = session]
      OBVIOUS
    <3>2. new \in Task /\ new.held = t.held /\ new.step = "relogin"
      BY <1>1, <3>1 DEF Task
    <3>3. task' = [task EXCEPT ![w] = new]
      BY <2>4, <3>1
    <3> QED BY <1>3, <2>1, <2>2, <3>2, <3>3
  <2> QED BY <1>6, <2>1, <2>2, <2>3, <2>4
<1>12. CASE Relogin(w)
  <2>1. Live(w) /\ UNCHANGED <<order, lapsed>>
    BY <1>1, <1>4, <1>12 DEF Relogin
  <2>2. \/ Renews(w, TRUE) /\ Saves(TRUE) /\ UNCHANGED lock
        \/ Renews(w, FALSE) /\ UNCHANGED <<account, lock>>
        \/ Dies(w) /\ UNCHANGED account
    BY <1>12 DEF Relogin
  <2>3. CASE Renews(w, TRUE) /\ Saves(TRUE) /\ UNCHANGED lock
    <3>1. account' \in Account
      BY <1>5, <2>3 DEF Saves
    <3> QED BY <1>7, <2>1, <2>3, <3>1
  <2>4. CASE Renews(w, FALSE) /\ UNCHANGED <<account, lock>>
    BY <1>2, <1>7, <2>1, <2>4
  <2>5. CASE Dies(w) /\ UNCHANGED account
    BY <2>1, <2>5, DiesLease
  <2> QED BY <2>2, <2>3, <2>4, <2>5
<1> QED BY <1>8, <1>9, <1>10, <1>11, <1>12 DEF TaskStep

\* One turn of the supervisor.
LEMMA ReconcileLease ==
    ASSUME LeaseInv, NEW w \in Workers, ReconcileAccounts(w)
    PROVE  LeaseInv'
<1>1. UNCHANGED <<account, order, lapsed>>
  BY DEF ReconcileAccounts
<1>2. (lock /\ ~task[w].held) \in BOOLEAN /\ (~task[w].held => (lock /\ ~task[w].held) = lock)
  BY Zenon DEF LeaseInv, LeaseHolds, PollerTypeOK
<1>3. CASE lock' = Unlocked(w) /\ task' = [task EXCEPT ![w] = NoTask]
  BY <1>1, <1>2, <1>3, NoTaskFacts, EndsLease DEF Ends, Unlocked
<1>4. CASE Supervised(w)
  <2>1. CASE ~Acquired
    <3>1. lock' = Unlocked(w) /\ task' = [task EXCEPT ![w] = [NoTask EXCEPT !.step = "done"]]
      BY <1>4, <2>1 DEF Supervised
    <3> QED BY <1>1, <1>2, <3>1, NoTaskFacts, EndsLease DEF Ends, Unlocked
  <2>2. CASE Acquired
    <3>1. PICK new : /\ task' = [task EXCEPT ![w] = new] /\ lock' = TRUE
                     /\ new = [step |-> "check", session |-> account.session,
                               onlyPending |-> account.onlyPending, ready |-> FALSE,
                               held |-> TRUE, fresh |-> TRUE]
      BY <1>4, <2>2 DEF Supervised, NoTask
    <3>2. new \in Task /\ new.held = TRUE /\ new.step = "check"
      BY <3>1 DEF LeaseInv, LeaseHolds, PollerTypeOK, Account, Task
    <3>3. task'[w] = new /\ \A v \in Workers : v # w => task'[v] = task[v]
      BY <3>1 DEF LeaseInv, LeaseHolds, PollerTypeOK
    <3>4. lapsed \/ \A v \in Workers : ~Live(v)
      <4>1. lapsed \/ \A v \in Workers : ~task[v].held
        BY <2>2 DEF Acquired, LeaseInv, LeaseHolds, LeaseIsHeld
      <4> QED BY <4>1 DEF LeaseInv, HeldIsLive
    <3>5. PollerTypeOK'
      BY <1>1, <3>1, <3>2 DEF LeaseInv, LeaseHolds, PollerTypeOK
    <3>6. HeldIsLive'
      <4>1. Live(w)' /\ task'[w].held
        BY <3>2, <3>3 DEF Live
      <4>2. \A v \in Workers : v # w => Live(v)' = Live(v) /\ task'[v].held = task[v].held
        BY <3>3 DEF Live
      <4>3. Live(w)' = TRUE /\ task'[w].held = TRUE
        BY <3>2, <3>3 DEF Live
      <4> QED BY <4>2, <4>3 DEF LeaseInv, HeldIsLive
    <3>7. OnePollerPerLease'
      <4>1. \A v \in Workers : Live(v)' /\ v # w => Live(v)
        BY <3>3 DEF Live
      <4> QED BY <1>1, <3>4, <4>1 DEF OnePollerPerLease
    <3>8. LeaseIsHeld'
      BY <1>1, <3>1 DEF LeaseIsHeld
    <3> QED BY <3>5, <3>6, <3>7, <3>8 DEF LeaseInv, LeaseHolds
  <2> QED BY <2>1, <2>2
<1> QED BY <1>3, <1>4 DEF ReconcileAccounts

\* A crash leaves the lock in Redis.
LEMMA CrashLease ==
    ASSUME LeaseInv, NEW w \in Workers, WorkerCrash(w)
    PROVE  LeaseInv'
<1>1. lock \in BOOLEAN
  BY DEF LeaseInv, LeaseHolds, PollerTypeOK
<1> QED BY <1>1, NoTaskFacts, EndsLease DEF WorkerCrash, Ends

\* The lock runs out: of a dead task, or under a live one, which lapsed records.
LEMMA ExpiryLease ==
    ASSUME LeaseInv, LockExpires
    PROVE  LeaseInv'
<1>1. /\ UNCHANGED <<account, order, task>> /\ lock' = FALSE
      /\ lapsed' = (lapsed \/ \E w \in Workers : task[w].held)
  BY DEF LockExpires
<1>2. (lapsed \/ \E w \in Workers : task[w].held) \in BOOLEAN
  BY Zenon DEF LeaseInv, LeaseHolds, PollerTypeOK
<1>3. PollerTypeOK'
  BY <1>1, <1>2 DEF LeaseInv, LeaseHolds, PollerTypeOK
<1>4. \A v \in Workers : Live(v)' = Live(v) /\ task'[v].held = task[v].held
  BY <1>1 DEF Live
<1>5. HeldIsLive'
  BY <1>4 DEF LeaseInv, HeldIsLive
<1>6. OnePollerPerLease'
  BY <1>1, <1>4 DEF LeaseInv, LeaseHolds, OnePollerPerLease
<1>7. LeaseIsHeld'
  BY <1>1, <1>4 DEF LeaseIsHeld
<1> QED BY <1>3, <1>5, <1>6, <1>7 DEF LeaseInv, LeaseHolds

\* The routes change the row and the orders, never a task or the lock.
LEMMA RoutesLease ==
    ASSUME LeaseInv, Routes
    PROVE  LeaseInv'
<1>1. UNCHANGED <<lock, task, lapsed>>
  BY DEF Routes, UpdateBankAccount, RotateBankCredentials, VerifyBankAccount, DeleteBankAccount,
         AdminUpdateBankAccount, AdminSoftDeleteBank, OrderCreated, OrderEnds
<1>2. account \in Account /\ order \in BOOLEAN
  BY DEF LeaseInv, LeaseHolds, PollerTypeOK
<1>3. order' \in BOOLEAN
  BY <1>2 DEF Routes, UpdateBankAccount, RotateBankCredentials, VerifyBankAccount, DeleteBankAccount,
         AdminUpdateBankAccount, AdminSoftDeleteBank, OrderCreated, OrderEnds
<1>4. account' \in Account
  BY <1>2 DEF Routes, UpdateBankAccount, RotateBankCredentials, VerifyBankAccount, Saves, DeleteBankAccount,
         AdminUpdateBankAccount, AdminSoftDeleteBank, OrderCreated, OrderEnds, Account
<1>5. PollerTypeOK'
  BY <1>1, <1>3, <1>4 DEF LeaseInv, LeaseHolds, PollerTypeOK
<1>6. \A v \in Workers : Live(v)' = Live(v) /\ task'[v].held = task[v].held
  BY <1>1 DEF Live
<1> QED
  BY <1>1, <1>5, <1>6 DEF LeaseInv, LeaseHolds, HeldIsLive, OnePollerPerLease, LeaseIsHeld

LEMMA LeaseStep == LeaseInv /\ [BNext]_bVars => LeaseInv'
<1> SUFFICES ASSUME LeaseInv, [BNext]_bVars PROVE LeaseInv'
  OBVIOUS
<1>1. CASE UNCHANGED bVars
  <2>1. \A v \in Workers : Live(v)' = Live(v) /\ task'[v].held = task[v].held
    BY <1>1 DEF Live, bVars
  <2> QED
    BY <1>1, <2>1 DEF bVars, LeaseInv, LeaseHolds, PollerTypeOK, HeldIsLive, OnePollerPerLease,
                      LeaseIsHeld
<1> QED
  BY <1>1, TaskLease, ReconcileLease, CrashLease, ExpiryLease, RoutesLease DEF BNext

LEMMA LeaseInit == BInit => LeaseInv
<1> SUFFICES ASSUME BInit PROVE LeaseInv
  OBVIOUS
<1>1. \A w \in Workers : task[w] = NoTask /\ task[w].held = FALSE /\ ~Live(w)
  BY DEF BInit, Live, NoTask
<1>2. PollerTypeOK
  BY NoTaskFacts DEF BInit, PollerTypeOK, Account
<1>3. HeldIsLive
  BY <1>1 DEF HeldIsLive, Live
<1> QED BY <1>1, <1>2, <1>3 DEF LeaseInv, LeaseHolds, OnePollerPerLease, LeaseIsHeld

\* However many workers run, until a lease lapses under a live task one task
\* polls the account, and the lock that it holds is in Redis.
THEOREM LeasesHold == BSpec => []LeaseHolds
<1>1. LeaseInv => LeaseHolds
  BY DEF LeaseInv
<1> QED BY <1>1, LeaseInit, LeaseStep, PTL DEF BSpec
-----------------------------------------------------------------------------
(* The cursor                                                              *)

\* Nothing is from the future, and what is not listed is not prompt.
DatesInv ==
    /\ cursor # None => cursor <= day
    /\ \A t \in Transfers : transfer[t] # None =>
          /\ transfer[t].posted <= day
          /\ transfer[t].prompt => transfer[t].listed
    /\ \A w \in Pollers : poll[w] # None => poll[w].end <= day

\* A prompt transfer from before the cursor is stored, or it is too old for the
\* next window whatever the cursor is.
CursorInv ==
    cursor # None => \A t \in Transfers \ stored :
                        Prompt(t) => transfer[t].posted >= cursor \/ Overdue(t)

\* A poll still has to store what its cursor will pass.
PollInv ==
    \A w \in Pollers : poll[w] # None => \A t \in Transfers \ stored :
        Prompt(t) /\ transfer[t].posted < poll[w].end => t \in poll[w].todo \/ Overdue(t)

WindowInv == CursorTypeOK /\ DatesInv /\ CursorInv /\ PollInv

LEMMA CursorTypes ==
    ASSUME CursorTypeOK
    PROVE  /\ day \in Int /\ day >= 0 /\ day <= MaxDay /\ day \in Days
           /\ cursor # None => cursor \in Int /\ cursor \in Days
           /\ \A t \in Transfers : transfer[t] # None =>
                /\ transfer[t] \in Transfer /\ transfer[t].posted \in Int
                /\ transfer[t].posted \in Days
                /\ transfer[t].listed \in BOOLEAN /\ transfer[t].prompt \in BOOLEAN
           /\ \A w \in Pollers : poll[w] # None =>
                /\ poll[w] \in Polling /\ poll[w].end \in Int /\ poll[w].end \in Days
                /\ poll[w].todo \subseteq Transfers
  BY CursorBounds DEF CursorTypeOK, Transfer, Polling, Days, Window

LEMMA CursorInit == CInit => WindowInv
<1> SUFFICES ASSUME CInit PROVE WindowInv
  OBVIOUS
<1>1. CursorTypeOK
  BY CursorBounds DEF CInit, CursorTypeOK
<1> QED BY <1>1 DEF CInit, WindowInv, DatesInv, CursorInv, PollInv, Prompt

\* What is missing is inside the next window.
LEMMA WindowCovers == WindowInv => CursorHolds
<1> SUFFICES ASSUME WindowInv PROVE NoTransferPassed
  BY DEF WindowInv, CursorHolds
<1> SUFFICES ASSUME NEW t \in Transfers \ stored, Prompt(t), ~Overdue(t)
             PROVE  transfer[t].posted >= Start
  BY DEF NoTransferPassed
<1>1. transfer[t].posted \in Int /\ transfer[t].posted >= day - Window /\ day \in Int
  BY CursorTypes DEF WindowInv, Prompt, Overdue, Window
<1>2. cursor # None => transfer[t].posted >= cursor
  BY DEF WindowInv, CursorInv
<1> QED BY <1>1, <1>2 DEF Start

\* A transfer keeps its day; the day only grows.
LEMMA StillOverdue ==
    ASSUME CursorTypeOK, NEW t \in Transfers, Overdue(t), transfer'[t] = transfer[t],
           day' \in Int, day' >= day
    PROVE  Overdue(t)'
  BY CursorTypes DEF Overdue, Window

LEMMA NextDayWindow == WindowInv /\ NextDay => WindowInv'
<1> SUFFICES ASSUME WindowInv, NextDay PROVE WindowInv'
  OBVIOUS
<1> USE DEF WindowInv
<1>1. day' = day + 1 /\ day < MaxDay /\ UNCHANGED <<transfer, cursor, stored, poll, failures>>
  BY DEF NextDay
<1>2. day \in Int /\ day' \in Int /\ day' >= day
  BY <1>1, CursorTypes
<1>3. CursorTypeOK'
  BY <1>1, CursorBounds DEF CursorTypeOK
<1>4. DatesInv'
  BY <1>1, <1>2, CursorTypes DEF DatesInv
<1>5. \A t \in Transfers : Overdue(t) => Overdue(t)'
  BY <1>1, <1>2, StillOverdue
<1>6. CursorInv'
  BY <1>1, <1>5 DEF CursorInv, Prompt
<1>7. PollInv'
  BY <1>1, <1>5 DEF PollInv, Prompt
<1> QED BY <1>3, <1>4, <1>6, <1>7

\* The bank writes a transfer: what becomes prompt now has the day of today.
LEMMA BankWindow ==
    ASSUME WindowInv, NEW t \in Transfers, NEW new \in Transfer,
           transfer' = [transfer EXCEPT ![t] = new],
           new.posted <= day, new.prompt => new.listed /\ new.posted = day,
           UNCHANGED <<day, cursor, stored, poll, failures>>
    PROVE  WindowInv'
<1> USE DEF WindowInv
<1>1. transfer'[t] = new /\ \A u \in Transfers : u # t => transfer'[u] = transfer[u]
  BY DEF CursorTypeOK
<1>2. CursorTypeOK'
  BY DEF CursorTypeOK
<1>3. DatesInv'
  BY <1>1 DEF DatesInv
<1>4. \A u \in Transfers : u # t => /\ Prompt(u)' = Prompt(u) /\ Overdue(u)' = Overdue(u)
                                    /\ transfer'[u] = transfer[u]
  BY <1>1 DEF Prompt, Overdue
<1>5. Prompt(t)' => transfer'[t].posted = day
  BY <1>1 DEF Prompt
<1>6. CursorInv'
  <2> SUFFICES ASSUME cursor # None, NEW u \in Transfers \ stored, Prompt(u)'
               PROVE  transfer'[u].posted >= cursor \/ Overdue(u)'
    BY DEF CursorInv
  <2>1. CASE u = t
    BY <1>5, <2>1, CursorTypes DEF DatesInv
  <2>2. CASE u # t
    BY <1>4, <2>2 DEF CursorInv
  <2> QED BY <2>1, <2>2
<1>7. PollInv'
  <2> SUFFICES ASSUME NEW w \in Pollers, poll[w] # None, NEW u \in Transfers \ stored, Prompt(u)',
                      transfer'[u].posted < poll[w].end
               PROVE  u \in poll[w].todo \/ Overdue(u)'
    BY DEF PollInv
  <2>1. u # t
    BY <1>5, CursorTypes DEF DatesInv
  <2> QED BY <1>4, <2>1 DEF PollInv
<1> QED BY <1>2, <1>3, <1>6, <1>7

LEMMA PostsWindow ==
    ASSUME WindowInv, NEW t \in Transfers, BankPosts(t)
    PROVE  WindowInv'
<1>1. PICK now \in BOOLEAN :
        transfer' = [transfer EXCEPT ![t] = [posted |-> day, listed |-> now, prompt |-> now]]
  BY DEF BankPosts
<1>2. PICK new : new = [posted |-> day, listed |-> now, prompt |-> now]
  OBVIOUS
<1>3. new \in Transfer /\ new.posted = day /\ new.prompt = now /\ new.listed = now /\ day \in Int
  BY <1>2, CursorTypes DEF WindowInv, Transfer
<1>4. transfer' = [transfer EXCEPT ![t] = new] /\ new.posted <= day
  BY <1>1, <1>2, <1>3
<1> QED BY <1>3, <1>4, BankWindow DEF BankPosts

LEMMA ListsWindow ==
    ASSUME WindowInv, NEW t \in Transfers, BankLists(t)
    PROVE  WindowInv'
<1>1. PICK old \in Transfer : old = transfer[t] /\ old.posted <= day
  BY CursorTypes DEF WindowInv, BankLists, DatesInv
<1>2. (old.posted = day) \in BOOLEAN
  BY Zenon
<1>3. PICK prompt \in BOOLEAN : prompt = (old.posted = day)
  BY <1>2
<1>4. PICK new : new = [old EXCEPT !.listed = TRUE, !.prompt = prompt]
  OBVIOUS
<1>5. transfer' = [transfer EXCEPT ![t] = new]
  BY <1>1, <1>3, <1>4 DEF BankLists
<1>6. new \in Transfer /\ new.posted = old.posted /\ new.listed = TRUE /\ new.prompt = prompt
  BY <1>4 DEF Transfer
<1>7. new.prompt => new.posted = day
  BY <1>3, <1>6
<1> QED BY <1>1, <1>5, <1>6, <1>7, BankWindow DEF BankLists

\* The poll is told of everything that the cursor will pass.
LEMMA ListWindow ==
    ASSUME WindowInv, NEW w \in Pollers, ListTransactions(w)
    PROVE  WindowInv'
<1> USE DEF WindowInv
<1>1. PICK todo : todo = {t \in Transfers : /\ transfer[t] # None /\ transfer[t].listed
                                            /\ transfer[t].posted \in Start .. day}
  OBVIOUS
<1>2. PICK new : new = [end |-> day, todo |-> todo]
  OBVIOUS
<1>3. poll' = [poll EXCEPT ![w] = new] /\ UNCHANGED <<day, transfer, cursor, stored, failures>>
  BY <1>1, <1>2 DEF ListTransactions
<1>4. new \in Polling /\ new.end = day /\ new.todo = todo
  BY <1>1, <1>2, CursorTypes DEF Polling
<1>5. poll'[w] = new /\ \A v \in Pollers : v # w => poll'[v] = poll[v]
  BY <1>3 DEF CursorTypeOK
<1>6. CursorTypeOK'
  BY <1>3, <1>4 DEF CursorTypeOK
<1>7. DatesInv'
  BY <1>3, <1>4, <1>5, CursorTypes DEF DatesInv
<1>8. CursorInv'
  BY <1>3 DEF CursorInv, Prompt, Overdue
<1>9. PollInv'
  <2> SUFFICES ASSUME NEW v \in Pollers, poll'[v] # None, NEW t \in Transfers \ stored, Prompt(t),
                      transfer[t].posted < poll'[v].end, ~Overdue(t)
               PROVE  t \in poll'[v].todo
    BY <1>3 DEF PollInv, Prompt, Overdue
  <2>1. CASE v # w
    BY <1>5, <2>1 DEF PollInv
  <2>2. CASE v = w
    <3>1. transfer[t].posted < day
      BY <1>4, <1>5, <2>2
    <3>2. transfer[t].posted >= Start
      BY WindowCovers DEF CursorHolds, NoTransferPassed
    <3>3. transfer[t] # None /\ transfer[t].listed /\ transfer[t].posted \in Int
      BY CursorTypes DEF Prompt, DatesInv
    <3>4. Start \in Int /\ day \in Int
      BY CursorTypes DEF Start, Window
    <3>5. transfer[t].posted \in Start .. day
      BY <3>1, <3>2, <3>3, <3>4
    <3> QED BY <1>1, <1>4, <1>5, <2>2, <3>3, <3>5
  <2> QED BY <2>1, <2>2
<1> QED BY <1>6, <1>7, <1>8, <1>9

LEMMA IngestWindow ==
    ASSUME WindowInv, NEW w \in Pollers, NEW t \in Transfers, IngestTransaction(w, t)
    PROVE  WindowInv'
<1> USE DEF WindowInv
<1>1. PICK old \in Polling : old = poll[w]
  BY CursorTypes DEF IngestTransaction
<1>2. PICK new : new = [poll[w] EXCEPT !.todo = poll[w].todo \ {t}]
  OBVIOUS
<1>3. /\ poll[w] # None /\ poll' = [poll EXCEPT ![w] = new] /\ stored' = stored \cup {t}
      /\ UNCHANGED <<day, transfer, cursor, failures>>
  BY <1>2 DEF IngestTransaction
<1>4. new \in Polling /\ new.end = old.end /\ new.todo = old.todo \ {t}
  BY <1>1, <1>2 DEF Polling
<1>5. poll'[w] = new /\ \A v \in Pollers : v # w => poll'[v] = poll[v]
  BY <1>3 DEF CursorTypeOK
<1>6. CursorTypeOK'
  BY <1>3, <1>4 DEF CursorTypeOK
<1>7. DatesInv'
  BY <1>1, <1>3, <1>4, <1>5 DEF DatesInv
<1>8. CursorInv'
  BY <1>3 DEF CursorInv, Prompt, Overdue
<1>9. PollInv'
  <2> SUFFICES ASSUME NEW v \in Pollers, poll'[v] # None, NEW u \in Transfers \ stored, u # t,
                      Prompt(u), transfer[u].posted < poll'[v].end, ~Overdue(u)
               PROVE  u \in poll'[v].todo
    BY <1>3 DEF PollInv, Prompt, Overdue
  <2>1. CASE v # w
    BY <1>5, <2>1 DEF PollInv
  <2>2. CASE v = w
    <3>1. u \in old.todo
      BY <1>1, <1>3, <1>4, <1>5, <2>2 DEF PollInv
    <3> QED BY <1>4, <1>5, <2>2, <3>1
  <2> QED BY <2>1, <2>2
<1> QED BY <1>6, <1>7, <1>8, <1>9

\* A poll ends, with its cursor saved or rolled back.
LEMMA EndWindow ==
    ASSUME WindowInv, NEW w \in Pollers, poll[w] # None, poll' = [poll EXCEPT ![w] = None],
           UNCHANGED <<day, transfer, stored>>, failures' \in 0 .. MaxFailures,
           \/ cursor' = cursor
           \/ cursor' = poll[w].end /\ poll[w].todo = {}
    PROVE  WindowInv'
<1> USE DEF WindowInv
<1>1. poll'[w] = None /\ \A v \in Pollers : v # w => poll'[v] = poll[v]
  BY DEF CursorTypeOK
<1>2. CursorTypeOK'
  BY CursorTypes DEF CursorTypeOK
<1>3. DatesInv'
  BY <1>1 DEF DatesInv
<1>4. CursorInv'
  <2> SUFFICES ASSUME cursor' # None, NEW t \in Transfers \ stored, Prompt(t), ~Overdue(t)
               PROVE  transfer[t].posted >= cursor'
    BY DEF CursorInv, Prompt, Overdue
  <2>1. CASE cursor' = cursor
    BY <2>1 DEF CursorInv
  <2>2. CASE cursor' = poll[w].end /\ poll[w].todo = {}
    <3>1. ~(transfer[t].posted < poll[w].end)
      BY <2>2 DEF PollInv
    <3> QED BY <2>2, <3>1, CursorTypes DEF Prompt
  <2> QED BY <2>1, <2>2
<1>5. PollInv'
  BY <1>1 DEF PollInv, Prompt, Overdue
<1> QED BY <1>2, <1>3, <1>4, <1>5

LEMMA CursorStep == WindowInv /\ [CNext]_cVars => WindowInv'
<1> SUFFICES ASSUME WindowInv, [CNext]_cVars PROVE WindowInv'
  OBVIOUS
<1>1. CASE UNCHANGED cVars
  BY <1>1 DEF cVars, WindowInv, CursorTypeOK, DatesInv, CursorInv, PollInv, Prompt, Overdue
<1>2. ASSUME NEW w \in Pollers, SaveCursor(w) PROVE WindowInv'
  <2>1. failures' \in 0 .. MaxFailures
    BY <1>2 DEF SaveCursor, WindowInv, CursorTypeOK
  <2> QED BY <1>2, <2>1, EndWindow DEF SaveCursor, SeenUntil
<1>3. ASSUME NEW w \in Pollers, PollFails(w) PROVE WindowInv'
  <2>1. failures' \in 0 .. MaxFailures
    BY <1>3, CursorBounds DEF PollFails, WindowInv, CursorTypeOK
  <2> QED BY <1>3, <2>1, EndWindow DEF PollFails
<1>4. CASE AdminResetPollCursor
  BY <1>4 DEF AdminResetPollCursor, WindowInv, CursorTypeOK, DatesInv, CursorInv, PollInv,
              Prompt, Overdue
<1> QED
  BY <1>1, <1>2, <1>3, <1>4, NextDayWindow, PostsWindow, ListsWindow, ListWindow, IngestWindow
     DEF CNext, PollStep

\* However many pollers share the account, whichever polls fail and whenever
\* the cursor is reset, what the bank listed on its day and is not stored is
\* inside the window of the next poll, unless it is more than two days old.
THEOREM CursorsHold == CSpec => []CursorHolds
  BY CursorInit, CursorStep, WindowCovers, PTL DEF CSpec
=============================================================================
