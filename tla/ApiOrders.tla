----------------------------- MODULE ApiOrders -----------------------------
(***************************************************************************)
(* POST /v1/orders with its Idempotency-Key (routes/orders.py:             *)
(* create_order, security/idempotency.py): the record of the key is looked *)
(* up, the order is created and committed by the repository, and the       *)
(* record with the response is committed after it.  Clients send a request *)
(* again when they get no answer, also while the first one is under way.   *)
(***************************************************************************)
EXTENDS Integers, FiniteSets, Processes

CONSTANTS
    Keys,       \* Idempotency-Keys of one API key
    Bodies,     \* request bodies, as their hashes tell them apart
    Orders      \* order ids; a bound on the orders created

\* None is no row of either table.
ASSUME NoneAssumption ==
    None \notin [body : Bodies, order : Orders] \union [key : Keys, body : Bodies]

VARIABLES
    record,     \* idempotency_keys: record[k] = None or [body, order]
    order,      \* order[o] = None or the key and body it was created for
    req,        \* how far a request is
    answers,    \* history: [key, body, order] of the answers 200 and 201
    excused     \* history: keys with overlapping requests or one that died half-way

aoVars == <<record, order, req, answers, excused>>

Idle == [pc |-> "idle", key |-> None, body |-> None, order |-> None]

ApiOrdersTypeOK ==
    /\ record \in [Keys -> [body : Bodies, order : Orders] \union {None}]
    /\ order \in [Orders -> [key : Keys, body : Bodies] \union {None}]
    /\ req \in [Requests -> [pc : {"idle", "begun", "missing", "created"}, key : Keys \union {None},
                             body : Bodies \union {None}, order : Orders \union {None}]]
    /\ answers \subseteq [key : Keys, body : Bodies, order : Orders] /\ excused \subseteq Keys

AInit ==
    /\ record = [k \in Keys |-> None] /\ order = [o \in Orders |-> None]
    /\ req = [r \in Requests |-> Idle] /\ answers = {} /\ excused = {}
-----------------------------------------------------------------------------
End(r) == req' = [req EXCEPT ![r] = Idle]
Answer(k, b, o) == answers' = answers \union {[key |-> k, body |-> b, order |-> o]}

\* The key is live, its subscription and quota allow the call, and the bank
\* account is its user's.
Begin(r, k, b) ==
    /\ req[r] = Idle
    /\ req' = [req EXCEPT ![r] = [Idle EXCEPT !.pc = "begun", !.key = k, !.body = b]]
    /\ UNCHANGED <<record, order, answers, excused>>

\* Mutant: the record of the key is not found.
UnknownAlways(k) == TRUE
\* reuse_or_create_idempotent_response: the record of the API key and the key.
Unknown(k) == record[k] = None

\* It finds nothing.
LookupMisses(r) ==
    LET k == req[r].key IN
    /\ req[r].pc = "begun" /\ Unknown(k)
    /\ req' = [req EXCEPT ![r].pc = "missing"]
    /\ excused' = IF \E s \in Requests : req[s].key = k /\ req[s].pc \in {"missing", "created"}
                  THEN excused \union {k} ELSE excused
    /\ UNCHANGED <<record, order, answers>>

\* It raises when the record is of another body; create_order answers 409.
SameRequest(r) == record[req[r].key].body = req[r].body

LookupFinds(r) ==
    /\ req[r].pc = "begun" /\ ~Unknown(req[r].key) /\ End(r)
    /\ IF SameRequest(r) THEN Answer(req[r].key, req[r].body, record[req[r].key].order) ELSE UNCHANGED answers
    /\ UNCHANGED <<record, order, excused>>

\* OrderRepository.create_order: allocate, commit, wake the poller.
CreateOrder(r) ==
    /\ req[r].pc = "missing"
    /\ \E o \in Orders :
        /\ order[o] = None
        /\ order' = [order EXCEPT ![o] = [key |-> req[r].key, body |-> req[r].body]]
        /\ req' = [req EXCEPT ![r].pc = "created", ![r].order = o]
    /\ UNCHANGED <<record, answers, excused>>
\* PaymentNamePoolFull: 503, nothing is left.
PoolFull(r) == req[r].pc = "missing" /\ End(r) /\ UNCHANGED <<record, order, answers, excused>>

\* Mutant: a second record takes the place of the first.
FreeKeyAlways(k) == TRUE
\* uq_idempotency_api_key.
FreeKey(k) == record[k] = None

\* The record and the audit entry are committed; the answer is 201.
RecordCommit(r) ==
    LET k == req[r].key IN
    /\ req[r].pc = "created" /\ FreeKey(k) /\ End(r)
    /\ record' = [record EXCEPT ![k] = [body |-> req[r].body, order |-> req[r].order]]
    /\ Answer(k, req[r].body, req[r].order)
    /\ UNCHANGED <<order, excused>>
\* IntegrityError: the request ends with 500 and its order stays.
RecordConflict(r) ==
    /\ req[r].pc = "created" /\ ~FreeKey(req[r].key) /\ End(r)
    /\ UNCHANGED <<record, order, answers, excused>>

\* The process dies, or the client is gone: the request ends where it is.
Dies(r) ==
    /\ req[r] # Idle /\ End(r)
    /\ excused' = IF req[r].pc = "created" THEN excused \union {req[r].key} ELSE excused
    /\ UNCHANGED <<record, order, answers>>

ANext ==
    \E r \in Requests :
        \/ \E k \in Keys, b \in Bodies : Begin(r, k, b)
        \/ LookupMisses(r) \/ LookupFinds(r) \/ CreateOrder(r) \/ PoolFull(r)
        \/ RecordCommit(r) \/ RecordConflict(r) \/ Dies(r)

ASpec == AInit /\ [][ANext]_aoVars
-----------------------------------------------------------------------------
(* Whatever requests overlap, die or are sent again, two answers for one   *)
(* key are for the same body and name the same order, and it is the order  *)
(* of that body.                                                           *)
AnswersAgree ==
    /\ \A x, y \in answers : x.key = y.key => x = y
    /\ \A x \in answers : order[x.order] = [key |-> x.key, body |-> x.body]

(* A key has one order, unless requests with it overlapped between the     *)
(* lookup and the record, or one died between the two commits.             *)
OneOrderPerKey ==
    \A o1, o2 \in Orders :
        o1 # o2 /\ order[o1] # None /\ order[o2] # None /\ order[o1].key = order[o2].key
            => order[o1].key \in excused

\* What the Idempotency-Key promises (create_order).
IdempotencyHolds == ApiOrdersTypeOK /\ AnswersAgree /\ OneOrderPerKey
=============================================================================
