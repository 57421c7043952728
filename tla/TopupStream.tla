---------------------------- MODULE TopupStream ----------------------------
(***************************************************************************)
(* The event stream of a top-up (routes/topup_stream.py) over the best     *)
(* effort pub/sub of packages/infra_pubsub.py.  A stream reads the order's *)
(* row, subscribes, and then reads the row again on a message and at least *)
(* every POLL seconds; it tells the browser when the status has changed.   *)
(***************************************************************************)
EXTENDS Integers, FiniteSets, Absent

CONSTANTS
    Streams,       \* connections a user may open
    MaxStreams     \* MAX_CONCURRENT_PER_USER

VARIABLES
    order,     \* the order's status in the database
    active,    \* _active_streams of the user
    stream,    \* [step, last, pubsub] of a connection, or None
    redis,     \* Redis answers
    message,   \* the streams a published message is under way to
    told,      \* history: the last event of a stream
    leaked     \* history: connections that ended before their first event

sVars == <<order, active, stream, redis, message, told, leaked>>

StreamState == [step : {"opened", "hello", "subscribed", "ended"}, last : {"pending", "paid", "expired"},
                pubsub : BOOLEAN]

ASSUME StreamAssumption == IsFiniteSet(Streams) /\ None \notin StreamState

StreamTypeOK ==
    /\ order \in {"pending", "paid", "expired"}
    /\ active \in Nat
    /\ stream \in [Streams -> StreamState \cup {None}]
    /\ redis \in BOOLEAN /\ message \subseteq Streams
    /\ told \in [Streams -> {"nothing", "hello", "paid", "expired", "timeout"}]
    /\ leaked \subseteq Streams

SInit ==
    /\ order = "pending" /\ active = 0
    /\ stream = [s \in Streams |-> None]
    /\ redis = TRUE /\ message = {}
    /\ told = [s \in Streams |-> "nothing"] /\ leaked = {}

\* The ingest, the expiry job or a route changes the order; a payment is
\* published after the commit, which may fail or reach only some.
OrderPaid(reached) ==
    /\ order = "pending" /\ order' = "paid"
    /\ message' = IF redis THEN {s \in reached : stream[s] # None /\ stream[s].step = "subscribed"
                                                 /\ stream[s].pubsub} ELSE {}
    /\ UNCHANGED <<active, stream, redis, told, leaked>>
OrderExpired ==
    /\ order = "pending" /\ order' = "expired"
    /\ UNCHANGED <<active, stream, redis, message, told, leaked>>
RedisChanges == redis' = ~redis /\ UNCHANGED <<order, active, stream, message, told, leaked>>

\* topup_events up to the response: the status is read, the slot is taken.
OpenStream(s) ==
    /\ stream[s] = None /\ active < MaxStreams
    /\ active' = active + 1
    /\ stream' = [stream EXCEPT ![s] = [step |-> "opened", last |-> order, pubsub |-> FALSE]]
    /\ UNCHANGED <<order, redis, message, told, leaked>>

Step(s, from) == stream[s] # None /\ stream[s].step = from

\* Mutant: the slot is given back twice.
ReleaseTwice == IF active <= 1 THEN 0 ELSE active - 2
\* The finally block.
Release == IF active <= 1 THEN 0 ELSE active - 1

\* The first event: the status that was read when the stream was opened.
Hello(s) ==
    /\ Step(s, "opened")
    /\ stream' = [stream EXCEPT ![s].step = "hello"]
    /\ told' = [told EXCEPT ![s] = "hello"]
    /\ UNCHANGED <<order, active, redis, message, leaked>>

\* The client goes away before the response was iterated: the generator has not
\* begun and its finally block does not run.
LostBeforeHello(s) ==
    /\ Step(s, "opened")
    /\ stream' = [stream EXCEPT ![s].step = "ended"]
    /\ leaked' = leaked \cup {s}
    /\ UNCHANGED <<order, active, redis, message, told>>

\* Mutant: whatever the new status is, the browser is told that it is paid.
FetchPaid(s, step, m) ==
    IF order = stream[s].last
    THEN /\ stream' = [stream EXCEPT ![s].step = step, ![s].pubsub = m]
         /\ UNCHANGED <<told, active>>
    ELSE /\ told' = [told EXCEPT ![s] = "paid"]
         /\ stream' = [stream EXCEPT ![s].step = "ended", ![s].last = order]
         /\ active' = Release

\* fetch_status_and_emit: an event if the status is another one than the last;
\* paid and expired (or canceled) end the stream.
Fetch(s, step, m) ==
    IF order = stream[s].last
    THEN /\ stream' = [stream EXCEPT ![s].step = step, ![s].pubsub = m]
         /\ UNCHANGED <<told, active>>
    ELSE /\ told' = [told EXCEPT ![s] = order]
         /\ stream' = [stream EXCEPT ![s].step = "ended", ![s].last = order]
         /\ active' = Release

\* subscribe, then the initial check.
Subscribe(s) ==
    /\ Step(s, "hello")
    /\ Fetch(s, "subscribed", redis)
    /\ UNCHANGED <<order, redis, message, leaked>>

\* wait_for_message returns one.
OnMessage(s) ==
    /\ Step(s, "subscribed") /\ s \in message
    /\ Fetch(s, "subscribed", stream[s].pubsub)
    /\ message' = message \ {s}
    /\ UNCHANGED <<order, redis, leaked>>

\* Mutant: with a subscription there is no safety poll.
PollWithoutRedis(s) ==
    /\ Step(s, "subscribed") /\ ~stream[s].pubsub
    /\ Fetch(s, "subscribed", stream[s].pubsub)
    /\ UNCHANGED <<order, redis, message, leaked>>
\* The safety poll, or the poll without Redis.
SafetyPoll(s) ==
    /\ Step(s, "subscribed")
    /\ Fetch(s, "subscribed", stream[s].pubsub)
    /\ UNCHANGED <<order, redis, message, leaked>>

\* The client has gone, MAX_DURATION_SEC is over, or the task is cancelled.
EndStream(s, event) ==
    /\ Step(s, "hello") \/ Step(s, "subscribed")
    /\ stream' = [stream EXCEPT ![s].step = "ended"]
    /\ told' = [told EXCEPT ![s] = IF event = "timeout" THEN event ELSE @]
    /\ active' = Release
    /\ UNCHANGED <<order, redis, message, leaked>>

SNext ==
    \/ OrderExpired \/ RedisChanges
    \/ \E R \in SUBSET Streams : OrderPaid(R)
    \/ \E s \in Streams :
         \/ OpenStream(s) \/ Hello(s) \/ LostBeforeHello(s) \/ Subscribe(s)
         \/ OnMessage(s) \/ SafetyPoll(s)
         \/ \E event \in {"gone", "timeout"} : EndStream(s, event)

\* The loop of a stream goes on; MAX_DURATION_SEC is far away.
SFairness ==
    \A s \in Streams : WF_sVars(Hello(s)) /\ WF_sVars(Subscribe(s)) /\ WF_sVars(SafetyPoll(s))

SSpec == SInit /\ [][SNext]_sVars /\ SFairness
-----------------------------------------------------------------------------
Opened(s) == stream[s] # None /\ stream[s].step # "ended"

\* The counter is the number of open connections plus those that ended before
\* their first event, which keep their slot for good.
SlotsAreStreams ==
    active = Cardinality({s \in Streams : Opened(s)} \cup leaked)

\* A stream tells the status the order really has.
ToldIsTrue ==
    \A s \in Streams : told[s] \in {"paid", "expired"} => order = told[s]

\* A browser that was connected while the order was pending learns of the
\* payment without any message from Redis, unless the connection ends.
PaymentIsTold ==
    \A s \in Streams :
        (Opened(s) /\ stream[s].last = "pending" /\ order # "pending")
            ~> Step(s, "ended")

\* Slots and events of the streams are true (topup_events).
StreamsHold == StreamTypeOK /\ SlotsAreStreams /\ ToldIsTrue
=============================================================================
