------------------------------- MODULE Limits -------------------------------
(***************************************************************************)
(* The counters in front of the public API, for one API key of one user:   *)
(* the fixed windows of the rate limiter (middleware/rate_limit.py,        *)
(* security/rate_limit.py) and the day and month quota of the plan         *)
(* (security/dependencies.py, billing/quota.py).  A counter is a Redis key *)
(* that names its bucket; INCR and EXPIRE are two commands.  A process     *)
(* that cannot reach Redis counts in its own memory.                       *)
(***************************************************************************)
EXTENDS Integers, FiniteSets, Processes

CONSTANTS
    Length,     \* Length[kind]: ticks in a bucket of "rate", "day" and "month"
    Limit,      \* Limit[kind]: capacity, daily_quota and monthly_quota; 0 is no limit
    Extra,      \* Extra[kind]: what the expiry adds to the length of a bucket
    MaxTime,    \* bound: ticks
    MaxHits     \* bound: requests

Kinds == {"rate", "day", "month"}

ASSUME LimitsAssumption ==
    /\ Length \in [Kinds -> Nat \ {0}] /\ Limit \in [Kinds -> Nat] /\ Extra \in [Kinds -> Nat]
    /\ MaxTime \in Nat /\ MaxHits \in Nat
    /\ IsFiniteSet(Requests) /\ "redis" \notin Servers /\ None \notin Servers

Backends == Servers \union {"redis"}

VARIABLES
    time,
    redis,      \* redis[kind][bucket] = [n, ttl]: a counter and the ticks it has left, -1 without an expiry
    memory,     \* memory[p][kind][bucket]: the counters of a process
    limiter,    \* limiter[p]: what RateLimitMiddleware uses: "untried", "redis", or "memory" until a retry
    retryAt,    \* retryAt[p]: _unavailable_until
    tracker,    \* tracker[p]: what QuotaTracker uses: "untried", "redis" or "memory"
    limitReq,   \* how far a request is, the buckets it computed and whether it is over a limit
    hits,
    admitted    \* history: admitted[backend][kind][bucket]: requests that a counter let through

lmVars == <<time, redis, memory, limiter, retryAt, tracker, limitReq, hits, admitted>>

Bucket(kind) == time \div Length[kind]
BucketsOf == 0..MaxTime
NoKey == [n |-> 0, ttl |-> -1]
NoRequest == [pc |-> "idle", proc |-> None, via |-> "untried", bucket |-> [kind \in Kinds |-> 0], over |-> FALSE,
         first |-> FALSE, late |-> {}]
Steps == {"idle", "rate", "rateExpire", "auth", "day", "dayExpire", "month", "monthExpire"}

LimitsTypeOK ==
    /\ time \in 0..MaxTime /\ hits \in 0..MaxHits
    /\ redis \in [Kinds -> [BucketsOf -> [n : Nat, ttl : Nat \union {-1}]]]
    /\ memory \in [Servers -> [Kinds -> [BucketsOf -> Nat]]]
    /\ limiter \in [Servers -> {"untried", "redis", "memory"}] /\ retryAt \in [Servers -> Nat]
    /\ tracker \in [Servers -> {"untried", "redis", "memory"}]
    /\ limitReq \in [Requests -> [pc : Steps, proc : Servers \union {None}, via : {"untried", "redis", "memory"},
                                  bucket : [Kinds -> BucketsOf], over : BOOLEAN, first : BOOLEAN, late : SUBSET Kinds]]
    /\ admitted \in [Backends -> [Kinds -> [BucketsOf -> Nat]]]

LInit ==
    /\ time = 0 /\ hits = 0
    /\ redis = [kind \in Kinds |-> [b \in BucketsOf |-> NoKey]]
    /\ memory = [p \in Servers |-> [kind \in Kinds |-> [b \in BucketsOf |-> 0]]]
    /\ limiter = [p \in Servers |-> "untried"] /\ retryAt = [p \in Servers |-> 0]
    /\ tracker = [p \in Servers |-> "untried"]
    /\ limitReq = [r \in Requests |-> NoRequest]
    /\ admitted = [x \in Backends |-> [kind \in Kinds |-> [b \in BucketsOf |-> 0]]]
-----------------------------------------------------------------------------
\* RateLimitDecision.allowed and QuotaStatus.exceeded.
Over(kind, n) == Limit[kind] # 0 /\ n > Limit[kind]

\* A hit that reached a counter after the end of its bucket is left out.
Admitted(r, x, kinds) ==
    admitted' = [admitted EXCEPT ![x] = [kind \in Kinds |-> [b \in BucketsOf |->
        IF kind \in kinds \ limitReq[r].late /\ b = limitReq[r].bucket[kind]
        THEN admitted[x][kind][b] + 1 ELSE admitted[x][kind][b]]]]

\* The buckets of the moment, for the kinds that a hit is about.
Stamp(r, kinds) == [kind \in Kinds |-> IF kind \in kinds THEN Bucket(kind) ELSE limitReq[r].bucket[kind]]

\* RateLimitMiddleware._get_limiter: Redis once it has answered; after a
\* failure memory for a window; then Redis is tried again.
Arrive(r, p, reached) ==
    /\ limitReq[r] = NoRequest /\ hits < MaxHits /\ hits' = hits + 1
    /\ IF limiter[p] = "redis" \/ (limiter[p] = "memory" /\ retryAt[p] > time)
       THEN UNCHANGED <<limiter, retryAt>>
       ELSE /\ limiter' = [limiter EXCEPT ![p] = IF reached THEN "redis" ELSE "memory"]
            /\ retryAt' = [retryAt EXCEPT ![p] = IF reached THEN @ ELSE time + 1]
    /\ limitReq' = [limitReq EXCEPT ![r] = [NoRequest EXCEPT !.pc = "rate", !.proc = p, !.via = limiter'[p],
                                                      !.bucket = Stamp(r, {"rate"})]]
    /\ UNCHANGED <<time, redis, memory, tracker, admitted>>

\* authenticated_api_key and require_scope refuse the key, or the user has no
\* active subscription; and keys with admin:* or without a user, which
\* enforce_subscription_and_quota lets pass: no quota is touched.
NoQuota(r) ==
    /\ limitReq[r].pc = "auth" /\ limitReq' = [limitReq EXCEPT ![r] = NoRequest]
    /\ UNCHANGED <<time, redis, memory, limiter, retryAt, tracker, hits, admitted>>

\* enforce_subscription_and_quota goes on to QuotaTracker.hit: the buckets of
\* the moment, and the backend that the first call of the process settled on.
EnforceQuota(r) ==
    LET p == limitReq[r].proc IN
    /\ limitReq[r].pc = "auth"
    /\ \E first \in {"redis", "memory"} : tracker' = [tracker EXCEPT ![p] = IF @ = "untried" THEN first ELSE @]
    /\ limitReq' = [limitReq EXCEPT ![r] = [@ EXCEPT !.pc = "day", !.bucket = Stamp(r, {"day", "month"})]]
    /\ UNCHANGED <<time, redis, memory, limiter, retryAt, hits, admitted>>

Follows(kind) == CASE kind = "rate" -> "rateExpire" [] kind = "day" -> "dayExpire" [] OTHER -> "monthExpire"
Uses(r, kind) == IF kind = "rate" THEN limitReq[r].via ELSE tracker[limitReq[r].proc]

\* INCR.  The first hit of a bucket goes on to EXPIRE, the others to what is
\* next: the quota after the rate, the month after the day.
Incr(r, kind) ==
    LET b == limitReq[r].bucket[kind]  n == redis[kind][b].n + 1 IN
    /\ limitReq[r].pc = kind /\ Uses(r, kind) = "redis"
    /\ redis' = [redis EXCEPT ![kind] = [@ EXCEPT ![b] = [n |-> n, ttl |-> redis[kind][b].ttl]]]
    /\ limitReq' = [limitReq EXCEPT ![r] = [@ EXCEPT !.pc = Follows(kind), !.over = limitReq[r].over \/ Over(kind, n), !.first = n = 1,
                          !.late = IF b = Bucket(kind) THEN limitReq[r].late ELSE limitReq[r].late \union {kind}]]
    /\ UNCHANGED <<time, memory, limiter, retryAt, tracker, hits, admitted>>

\* Mutant: the expiry does not wait for the end of the bucket.
ExpiryShort(kind) == Length[kind] - 1
\* window_seconds + 1, 86_400 + 60 and 86_400 * 31.
Expiry(kind) == Length[kind] + Extra[kind]

\* EXPIRE for a counter that is 1, and the decision.
ExpireAndDecide(r, kind) ==
    LET b == limitReq[r].bucket[kind] IN
    /\ limitReq[r].pc = Follows(kind) /\ Uses(r, kind) = "redis"
    /\ redis' = IF limitReq[r].first /\ redis[kind][b].n > 0 THEN [redis EXCEPT ![kind] = [@ EXCEPT ![b] = [n |-> redis[kind][b].n, ttl |-> Expiry(kind)]]]
                ELSE redis
    /\ limitReq' = [limitReq EXCEPT ![r] = IF kind = "month" \/ (kind = "rate" /\ limitReq[r].over) THEN NoRequest
                                          ELSE [@ EXCEPT !.pc = IF kind = "rate" THEN "auth" ELSE "month"]]
    /\ IF limitReq[r].over \/ kind = "day" THEN UNCHANGED admitted
       ELSE Admitted(r, "redis", IF kind = "rate" THEN {"rate"} ELSE {"day", "month"})
    /\ UNCHANGED <<time, memory, limiter, retryAt, tracker, hits>>

\* The counters of the process of r after a hit, and what the hit is told.
Counted(r, kinds) == [kind \in Kinds |-> [b \in BucketsOf |->
    IF kind \in kinds /\ b = limitReq[r].bucket[kind] THEN memory[limitReq[r].proc][kind][b] + 1
    ELSE memory[limitReq[r].proc][kind][b]]]
Exceeds(r, kind) == Over(kind, memory[limitReq[r].proc][kind][limitReq[r].bucket[kind]] + 1)

\* InMemoryRateLimiter.hit.
CountRateInMemory(r) ==
    LET p == limitReq[r].proc IN
    /\ limitReq[r].pc = "rate" /\ limitReq[r].via = "memory"
    /\ memory' = [memory EXCEPT ![p] = Counted(r, {"rate"})]
    /\ IF Exceeds(r, "rate") THEN limitReq' = [limitReq EXCEPT ![r] = NoRequest] /\ UNCHANGED admitted
       ELSE limitReq' = [limitReq EXCEPT ![r] = [@ EXCEPT !.pc = "auth"]] /\ Admitted(r, p, {"rate"})
    /\ UNCHANGED <<time, redis, limiter, retryAt, tracker, hits>>
\* The fallback of QuotaTracker.hit, under its lock.
CountQuotaInMemory(r) ==
    LET p == limitReq[r].proc IN
    /\ limitReq[r].pc = "day" /\ tracker[p] = "memory" /\ limitReq' = [limitReq EXCEPT ![r] = NoRequest]
    /\ memory' = [memory EXCEPT ![p] = Counted(r, {"day", "month"})]
    /\ IF Exceeds(r, "day") \/ Exceeds(r, "month")
       THEN UNCHANGED admitted ELSE Admitted(r, p, {"day", "month"})
    /\ UNCHANGED <<time, redis, limiter, retryAt, tracker, hits>>

\* A command of Redis raises, or the request is cancelled: it ends where it
\* is, and what it counted stays.
Ends(r) ==
    /\ limitReq[r] # NoRequest /\ limitReq' = [limitReq EXCEPT ![r] = NoRequest]
    /\ UNCHANGED <<time, redis, memory, limiter, retryAt, tracker, hits, admitted>>

\* Time passes and Redis drops the keys that expire.
WindowTick ==
    /\ time < MaxTime /\ time' = time + 1
    /\ redis' = [kind \in Kinds |-> [b \in BucketsOf |->
        IF redis[kind][b].ttl = -1 THEN redis[kind][b]
        ELSE IF redis[kind][b].ttl <= 1 THEN NoKey
        ELSE [redis[kind][b] EXCEPT !.ttl = redis[kind][b].ttl - 1]]]
    /\ UNCHANGED <<memory, limiter, retryAt, tracker, limitReq, hits, admitted>>

LNext ==
    \/ \E r \in Requests :
        \/ \E p \in Servers, reached \in BOOLEAN : Arrive(r, p, reached)
        \/ \E kind \in Kinds : Incr(r, kind) \/ ExpireAndDecide(r, kind)
        \/ NoQuota(r) \/ EnforceQuota(r) \/ CountRateInMemory(r) \/ CountQuotaInMemory(r) \/ Ends(r)
    \/ WindowTick

LSpec == LInit /\ [][LNext]_lmVars
-----------------------------------------------------------------------------
(* Redis lets through no more than the limit in a bucket, and a process    *)
(* that counts on its own no more than the limit once again: whatever      *)
(* order INCR and EXPIRE of several requests come in, with failures        *)
(* between them and Redis going away and coming back.  Hits that reach a   *)
(* counter after the end of their bucket, when its key may be gone, do not *)
(* count.                                                                  *)
WithinLimit ==
    \A x \in Backends, kind \in Kinds, b \in BucketsOf : Limit[kind] # 0 => admitted[x][kind][b] <= Limit[kind]

\* Rate limit and quota hold (rate_limit.py, quota.py).
LimitsHold == LimitsTypeOK /\ WithinLimit
=============================================================================
