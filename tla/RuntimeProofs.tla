--------------------------- MODULE RuntimeProofs ---------------------------
(***************************************************************************)
(* Theorems about what the processes of the API keep and share, for any    *)
(* number of processes, requests, keys, fields and edits: answers for an   *)
(* Idempotency-Key agree, the configuration served was stored, the block   *)
(* list is enforced in time, and the counters let no more through than     *)
(* the limits.                                                             *)
(***************************************************************************)
EXTENDS ApiOrders, ConfigCache, BlockList, Limits, FiniteSetTheorems, TLAPS

(* POST /v1/orders (ApiOrders). *)

OrderRow == [key : Keys, body : Bodies]
RecordRow == [body : Bodies, order : Orders]

\* A request under way has its key and body; one that created an order knows
\* it, and the order is the one it asked for.
ReqInv ==
    \A r \in Requests :
        /\ req[r].pc # "idle" => req[r].key \in Keys /\ req[r].body \in Bodies
        /\ req[r].pc = "created" =>
              req[r].order \in Orders /\ order[req[r].order] = [key |-> req[r].key, body |-> req[r].body]

\* A record is of an order that exists and was created for its key and body.
RecordInv ==
    \A k \in Keys : record[k] # None => order[record[k].order] = [key |-> k, body |-> record[k].body]

\* An answer is what the record of its key says: the record never changes.
AnswerInv ==
    \A x \in answers : record[x.key] = [body |-> x.body, order |-> x.order]

AgreeInv == ApiOrdersTypeOK /\ ReqInv /\ RecordInv /\ AnswerInv

\* Between its lookup and its record.
Working(r) == req[r].pc \in {"missing", "created"}

\* While a key is not excused, a request that works on it is alone and finds
\* the key still without a record; and an order of the key is the one on
\* record or the one of the request that has just created it.
AloneInv ==
    \A r \in Requests :
        Working(r) /\ req[r].key \notin excused =>
            /\ record[req[r].key] = None
            /\ \A s \in Requests : Working(s) /\ req[s].key = req[r].key => s = r
OwnerInv ==
    \A o \in Orders :
        order[o] # None /\ order[o].key \notin excused =>
            \/ record[order[o].key] # None /\ record[order[o].key].order = o
            \/ \E r \in Requests : req[r].pc = "created" /\ req[r].key = order[o].key /\ req[r].order = o

OnceInv == AgreeInv /\ AloneInv /\ OwnerInv
-----------------------------------------------------------------------------
\* A row of either table is not None.
LEMMA RowsAreSome ==
    /\ \A k \in Keys, b \in Bodies : [key |-> k, body |-> b] # None
    /\ \A b \in Bodies, o \in Orders : [body |-> b, order |-> o] # None
<1>1. \A k \in Keys, b \in Bodies : [key |-> k, body |-> b] \in OrderRow
  BY DEF OrderRow
<1>2. \A b \in Bodies, o \in Orders : [body |-> b, order |-> o] \in RecordRow
  BY DEF RecordRow
<1>3. QED
  BY <1>1, <1>2, NoneAssumption DEF OrderRow, RecordRow

LEMMA AgreeInit == AInit => AgreeInv
BY DEF AInit, AgreeInv, ApiOrdersTypeOK, ReqInv, RecordInv, AnswerInv, Idle

\* An order, once created, stays as it is.
LEMMA OrdersStay ==
    ASSUME ApiOrdersTypeOK, ANext
    PROVE  \A o \in Orders : order[o] # None => order'[o] = order[o]
BY DEF ApiOrdersTypeOK, ANext, Begin, LookupMisses, LookupFinds, CreateOrder, PoolFull,
       RecordCommit, RecordConflict, Dies

\* So does a record.
LEMMA RecordsStay ==
    ASSUME ApiOrdersTypeOK, ANext
    PROVE  \A k \in Keys : record[k] # None => record'[k] = record[k]
BY DEF ApiOrdersTypeOK, ANext, Begin, LookupMisses, LookupFinds, CreateOrder, PoolFull,
       RecordCommit, RecordConflict, Dies, FreeKey

\* Each action keeps AgreeInv.
LEMMA AgreeStep == AgreeInv /\ [ANext]_aoVars => AgreeInv'
<1> SUFFICES ASSUME AgreeInv, [ANext]_aoVars PROVE AgreeInv'
  OBVIOUS
<1> USE DEF AgreeInv
<1>0. CASE UNCHANGED aoVars
  BY <1>0 DEF aoVars, ApiOrdersTypeOK, ReqInv, RecordInv, AnswerInv
<1>1. CASE ANext
  <2>1. PICK r \in Requests :
            \/ \E k \in Keys, b \in Bodies : Begin(r, k, b)
            \/ LookupMisses(r) \/ LookupFinds(r) \/ CreateOrder(r) \/ PoolFull(r)
            \/ RecordCommit(r) \/ RecordConflict(r) \/ Dies(r)
    BY <1>1 DEF ANext
  <2>2. ASSUME NEW k \in Keys, NEW b \in Bodies, Begin(r, k, b) PROVE AgreeInv'
    <3>1. ApiOrdersTypeOK'
      BY <2>2 DEF Begin, ApiOrdersTypeOK, Idle
    <3>2. ReqInv'
      BY <2>2 DEF Begin, ApiOrdersTypeOK, Idle, ReqInv
    <3>3. QED
      BY <2>2, <3>1, <3>2 DEF Begin, RecordInv, AnswerInv
  <2>3. CASE LookupMisses(r)
    <3>1. ApiOrdersTypeOK'
      BY <2>3, ZenonT(40) DEF LookupMisses, ApiOrdersTypeOK, ReqInv
    <3>2. ReqInv'
      BY <2>3 DEF LookupMisses, ApiOrdersTypeOK, ReqInv
    <3>3. QED
      BY <2>3, <3>1, <3>2 DEF LookupMisses, RecordInv, AnswerInv
  <2>4. CASE LookupFinds(r)
    <3>1. /\ req[r].key \in Keys /\ req[r].body \in Bodies
          /\ record[req[r].key] \in RecordRow
      BY <2>4, ZenonT(40) DEF LookupFinds, Unknown, ApiOrdersTypeOK, ReqInv, RecordRow
    <3>2. /\ answers' \in {answers, answers \union {[key |-> req[r].key, body |-> req[r].body,
                                                    order |-> record[req[r].key].order]}}
          /\ answers' # answers => record[req[r].key].body = req[r].body
      BY <2>4 DEF LookupFinds, Answer, SameRequest
    <3>3. ApiOrdersTypeOK'
      BY <2>4, <3>1, <3>2 DEF LookupFinds, End, Idle, ApiOrdersTypeOK, RecordRow
    <3>4. ReqInv' /\ RecordInv'
      BY <2>4 DEF LookupFinds, End, Idle, ApiOrdersTypeOK, ReqInv, RecordInv
    <3>5. AnswerInv'
      <4>1. UNCHANGED record
        BY <2>4 DEF LookupFinds
      <4>2. record[req[r].key] = [body |-> record[req[r].key].body, order |-> record[req[r].key].order]
        BY <3>1 DEF RecordRow
      <4>3. ASSUME NEW x \in answers' PROVE record'[x.key] = [body |-> x.body, order |-> x.order]
        <5>1. CASE x \in answers
          BY <4>1, <5>1 DEF AnswerInv
        <5>2. CASE x \notin answers
          BY <3>2, <4>1, <4>2, <5>2
        <5>3. QED
          BY <5>1, <5>2
      <4>4. QED
        BY <4>3 DEF AnswerInv
    <3>6. QED
      BY <3>3, <3>4, <3>5
  <2>5. CASE CreateOrder(r)
    <3>1. req[r].key \in Keys /\ req[r].body \in Bodies
      BY <2>5 DEF CreateOrder, ReqInv
    <3>2. ApiOrdersTypeOK'
      <4>1. PICK o \in Orders :
                /\ order' = [order EXCEPT ![o] = [key |-> req[r].key, body |-> req[r].body]]
                /\ req' = [req EXCEPT ![r].pc = "created", ![r].order = o]
                /\ UNCHANGED <<record, answers, excused>>
        BY <2>5 DEF CreateOrder
      <4>2. order' \in [Orders -> [key : Keys, body : Bodies] \union {None}]
        BY <3>1, <4>1 DEF ApiOrdersTypeOK
      <4>3. req' \in [Requests -> [pc : {"idle", "begun", "missing", "created"}, key : Keys \union {None},
                                   body : Bodies \union {None}, order : Orders \union {None}]]
        <5> DEFINE q == [req[r] EXCEPT !.pc = "created", !.order = o]
        <5>1. q \in [pc : {"idle", "begun", "missing", "created"}, key : Keys \union {None},
                     body : Bodies \union {None}, order : Orders \union {None}]
          BY DEF ApiOrdersTypeOK
        <5>2. req' = [req EXCEPT ![r] = q]
          BY <4>1
        <5>3. QED
          BY <5>1, <5>2 DEF ApiOrdersTypeOK
      <4>4. QED
        BY <4>1, <4>2, <4>3 DEF ApiOrdersTypeOK
    <3>3. ReqInv'
      BY <2>5, <3>1, RowsAreSome DEF CreateOrder, ApiOrdersTypeOK, ReqInv
    <3>4. RecordInv'
      BY <1>1, <2>5, OrdersStay, RowsAreSome DEF CreateOrder, ApiOrdersTypeOK, RecordInv
    <3>5. QED
      BY <2>5, <3>2, <3>3, <3>4 DEF CreateOrder, AnswerInv
  <2>6. CASE PoolFull(r) \/ RecordConflict(r) \/ Dies(r)
    <3>1. req' = [req EXCEPT ![r] = Idle] /\ UNCHANGED <<record, order, answers>>
      BY <2>6 DEF PoolFull, RecordConflict, Dies, End
    <3>2. ApiOrdersTypeOK'
      <4>1. excused' \subseteq Keys
        BY <2>6 DEF PoolFull, RecordConflict, Dies, ApiOrdersTypeOK, ReqInv
      <4>2. QED
        BY <3>1, <4>1 DEF ApiOrdersTypeOK, Idle
    <3>3. ReqInv' /\ RecordInv' /\ AnswerInv'
      BY <3>1 DEF ApiOrdersTypeOK, ReqInv, RecordInv, AnswerInv, Idle
    <3>4. QED
      BY <3>2, <3>3
  <2>7. CASE RecordCommit(r)
    <3> DEFINE k == req[r].key  b == req[r].body  o == req[r].order
    <3>1. /\ k \in Keys /\ b \in Bodies /\ o \in Orders
          /\ order[o] = [key |-> k, body |-> b] /\ record[k] = None
      BY <2>7 DEF RecordCommit, FreeKey, ReqInv
    <3>2. /\ record' = [record EXCEPT ![k] = [body |-> b, order |-> o]]
          /\ answers' = answers \union {[key |-> k, body |-> b, order |-> o]}
          /\ req' = [req EXCEPT ![r] = Idle] /\ UNCHANGED <<order, excused>>
      BY <2>7 DEF RecordCommit, Answer, End
    <3> HIDE DEF k, b, o
    <3>3. ApiOrdersTypeOK'
      BY <3>1, <3>2 DEF ApiOrdersTypeOK, Idle
    <3>4. ReqInv'
      BY <3>2 DEF ApiOrdersTypeOK, ReqInv, Idle
    <3>5. RecordInv'
      BY <3>1, <3>2 DEF ApiOrdersTypeOK, RecordInv
    <3>6. AnswerInv'
      <4>1. ASSUME NEW x \in answers PROVE record'[x.key] = [body |-> x.body, order |-> x.order]
        <5>1. x.key \in Keys /\ x.body \in Bodies /\ x.order \in Orders
          BY DEF ApiOrdersTypeOK
        <5>2. record[x.key] = [body |-> x.body, order |-> x.order]
          BY DEF AnswerInv
        <5>3. record[x.key] # None
          BY <5>1, <5>2, RowsAreSome
        <5>4. QED
          BY <1>1, <5>1, <5>2, <5>3, RecordsStay
      <4>2. record'[k] = [body |-> b, order |-> o]
        BY <3>1, <3>2 DEF ApiOrdersTypeOK
      <4>3. ASSUME NEW x \in answers' PROVE record'[x.key] = [body |-> x.body, order |-> x.order]
        <5>1. CASE x \in answers
          BY <4>1, <5>1 DEF AnswerInv
        <5>2. CASE x \notin answers
          BY <3>2, <4>1, <4>2, <5>2
        <5>3. QED
          BY <5>1, <5>2
      <4>4. QED
        BY <4>3 DEF AnswerInv
    <3>7. QED
      BY <3>3, <3>4, <3>5, <3>6
  <2>8. QED
    BY <2>1, <2>2, <2>3, <2>4, <2>5, <2>6, <2>7
<1>2. QED
  BY <1>0, <1>1

\* The type invariant of order creation with an Idempotency-Key, for any
\* requests, keys, bodies and orders.
THEOREM ApiOrdersTypeCorrect == ASpec => []ApiOrdersTypeOK
<1>1. AgreeInv => ApiOrdersTypeOK
  BY DEF AgreeInv
<1>2. QED
  BY <1>1, AgreeInit, AgreeStep, PTL DEF ASpec

LEMMA AgreeInvAgrees == AgreeInv => AnswersAgree
<1> SUFFICES ASSUME AgreeInv PROVE AnswersAgree
  OBVIOUS
<1>1. ASSUME NEW x \in answers, NEW y \in answers, x.key = y.key PROVE x = y
  <2>1. [body |-> x.body, order |-> x.order] = [body |-> y.body, order |-> y.order]
    BY <1>1 DEF AgreeInv, AnswerInv
  <2>2. x.body = y.body /\ x.order = y.order
    BY <2>1
  <2>3. QED
    BY <1>1, <2>2 DEF AgreeInv, ApiOrdersTypeOK
<1>2. ASSUME NEW x \in answers PROVE order[x.order] = [key |-> x.key, body |-> x.body]
  <2>1. x.key \in Keys /\ x.body \in Bodies /\ x.order \in Orders
    BY DEF AgreeInv, ApiOrdersTypeOK
  <2>2. record[x.key] = [body |-> x.body, order |-> x.order]
    BY DEF AgreeInv, AnswerInv
  <2>3. QED
    BY <2>1, <2>2, RowsAreSome DEF AgreeInv, RecordInv
<1>3. QED
  BY <1>1, <1>2 DEF AnswersAgree

\* Two answers for one Idempotency-Key name the same order and are for the
\* same body, whatever requests overlap, die or are sent again
\* (routes/orders.py, create_order).
THEOREM AnswersForAKeyAgree == ASpec => []AnswersAgree
BY AgreeInit, AgreeStep, AgreeInvAgrees, PTL DEF ASpec
-----------------------------------------------------------------------------
LEMMA OnceInit == AInit => OnceInv
BY AgreeInit DEF AInit, OnceInv, AloneInv, OwnerInv, Working, Idle

\* A request that ends, or goes on without a new order or record, disturbs
\* nobody else's place.
LEMMA OwnerKept ==
    ASSUME OwnerInv, ApiOrdersTypeOK, NEW r \in Requests,
           UNCHANGED <<record, order>>, excused \subseteq excused',
           \A s \in Requests \ {r} : req'[s] = req[s],
           \/ req[r].pc # "created"
           \/ req[r].key \in excused'
    PROVE  OwnerInv'
BY DEF OwnerInv, ApiOrdersTypeOK

\* Likewise for the requests that work on a key.
LEMMA AloneKept ==
    ASSUME AloneInv, ApiOrdersTypeOK, NEW r \in Requests,
           UNCHANGED record, excused \subseteq excused',
           \A s \in Requests \ {r} : req'[s] = req[s],
           \/ ~ Working(r)'
           \/ Working(r) /\ req'[r].key = req[r].key
    PROVE  AloneInv'
BY DEF AloneInv, ApiOrdersTypeOK, Working

\* Each action keeps OnceInv.
LEMMA OnceStep == OnceInv /\ [ANext]_aoVars => OnceInv'
<1> SUFFICES ASSUME OnceInv, [ANext]_aoVars PROVE AloneInv' /\ OwnerInv'
  BY AgreeStep DEF OnceInv
<1>a. AgreeInv /\ ApiOrdersTypeOK /\ ReqInv /\ RecordInv /\ AloneInv /\ OwnerInv
  BY DEF OnceInv, AgreeInv
<1>0. CASE UNCHANGED aoVars
  BY <1>0, <1>a DEF aoVars, AloneInv, OwnerInv, Working
<1>1. CASE ANext
  <2>1. PICK r \in Requests :
            \/ \E k \in Keys, b \in Bodies : Begin(r, k, b)
            \/ LookupMisses(r) \/ LookupFinds(r) \/ CreateOrder(r) \/ PoolFull(r)
            \/ RecordCommit(r) \/ RecordConflict(r) \/ Dies(r)
    BY <1>1 DEF ANext
  <2>2. ASSUME NEW k \in Keys, NEW b \in Bodies, Begin(r, k, b) PROVE AloneInv' /\ OwnerInv'
    <3>1. /\ req[r].pc # "created" /\ ~ Working(r)' /\ UNCHANGED <<record, order, excused>>
          /\ \A s \in Requests \ {r} : req'[s] = req[s]
      BY <1>a, <2>2 DEF Begin, Idle, Working, ApiOrdersTypeOK
    <3>2. QED
      BY <1>a, <3>1, OwnerKept, AloneKept
  <2>3. CASE LookupFinds(r) \/ PoolFull(r)
    <3>1. /\ req[r].pc # "created" /\ ~ Working(r)' /\ UNCHANGED <<record, order, excused>>
          /\ \A s \in Requests \ {r} : req'[s] = req[s]
      BY <1>a, <2>3 DEF LookupFinds, PoolFull, End, Idle, Working, ApiOrdersTypeOK
    <3>2. QED
      BY <1>a, <3>1, OwnerKept, AloneKept
  <2>4. CASE Dies(r)
    <3>1. /\ ~ Working(r)' /\ UNCHANGED <<record, order>> /\ excused \subseteq excused'
          /\ \A s \in Requests \ {r} : req'[s] = req[s]
      BY <1>a, <2>4 DEF Dies, End, Idle, Working, ApiOrdersTypeOK
    <3>2. req[r].pc # "created" \/ req[r].key \in excused'
      BY <2>4 DEF Dies
    <3>3. QED
      BY <1>a, <3>1, <3>2, OwnerKept, AloneKept
  <2>5. CASE RecordConflict(r)
    <3>1. /\ ~ Working(r)' /\ UNCHANGED <<record, order, excused>>
          /\ \A s \in Requests \ {r} : req'[s] = req[s]
      BY <1>a, <2>5 DEF RecordConflict, End, Idle, Working, ApiOrdersTypeOK
    <3>2. req[r].key \in excused
      BY <1>a, <2>5 DEF RecordConflict, FreeKey, AloneInv, Working
    <3>3. QED
      BY <1>a, <3>1, <3>2, OwnerKept, AloneKept
  <2>6. CASE LookupMisses(r)
    <3> DEFINE k == req[r].key
    <3>1. /\ req[r].pc = "begun" /\ record[k] = None /\ UNCHANGED <<record, order>>
          /\ req' = [req EXCEPT ![r].pc = "missing"] /\ excused \subseteq excused'
          /\ k \notin excused' => ~ \E s \in Requests : Working(s) /\ req[s].key = k
      BY <2>6 DEF LookupMisses, Unknown, Working
    <3>2. /\ \A s \in Requests \ {r} : req'[s] = req[s]
          /\ req'[r].pc = "missing" /\ req'[r].key = k
      BY <1>a, <3>1 DEF ApiOrdersTypeOK
    <3>3. OwnerInv'
      BY <1>a, <3>1, <3>2, OwnerKept
    <3>4. AloneInv'
      <4> SUFFICES ASSUME NEW q \in Requests, Working(q)', req'[q].key \notin excused'
                   PROVE  /\ record'[req'[q].key] = None
                          /\ \A s \in Requests : Working(s)' /\ req'[s].key = req'[q].key => s = q
        BY DEF AloneInv
      <4>1. CASE q = r
        BY <3>1, <3>2, <4>1 DEF Working
      <4>2. CASE q # r
        <5>1. Working(q) /\ req'[q].key = req[q].key /\ req[q].key \notin excused
          BY <3>1, <3>2, <4>2 DEF Working
        <5>2. k # req[q].key
          BY <3>1, <5>1
        <5>3. QED
          BY <1>a, <3>1, <3>2, <5>1, <5>2 DEF AloneInv, Working
      <4>3. QED
        BY <4>1, <4>2
    <3>5. QED
      BY <3>3, <3>4
  <2>7. CASE CreateOrder(r)
    <3> DEFINE k == req[r].key  b == req[r].body
    <3>1. PICK o \in Orders :
              /\ order[o] = None /\ order' = [order EXCEPT ![o] = [key |-> k, body |-> b]]
              /\ req' = [req EXCEPT ![r].pc = "created", ![r].order = o]
              /\ UNCHANGED <<record, excused>>
      BY <2>7 DEF CreateOrder
    <3>2. /\ \A s \in Requests \ {r} : req'[s] = req[s]
          /\ req[r].pc = "missing" /\ req'[r].pc = "created" /\ req'[r].key = k /\ req'[r].order = o
          /\ Working(r)
      BY <1>a, <2>7, <3>1 DEF CreateOrder, ApiOrdersTypeOK, Working
    <3>3. AloneInv'
      BY <1>a, <3>1, <3>2, AloneKept
    <3>4. ASSUME NEW p \in Orders, order'[p] # None, order'[p].key \notin excused'
          PROVE  \/ record'[order'[p].key] # None /\ record'[order'[p].key].order = p
                 \/ \E s \in Requests : req'[s].pc = "created" /\ req'[s].key = order'[p].key /\ req'[s].order = p
      <4>1. CASE p = o
        <5>1. order'[p].key = k
          BY <1>a, <3>1, <4>1 DEF ApiOrdersTypeOK
        <5>2. QED
          BY <3>2, <4>1, <5>1
      <4>2. CASE p # o
        <5>1. order'[p] = order[p]
          BY <1>a, <3>1, <4>2 DEF ApiOrdersTypeOK
        <5>2. \/ record[order[p].key] # None /\ record[order[p].key].order = p
              \/ \E s \in Requests : req[s].pc = "created" /\ req[s].key = order[p].key /\ req[s].order = p
          BY <1>a, <3>1, <3>4, <5>1 DEF OwnerInv
        <5>3. ASSUME NEW s \in Requests, req[s].pc = "created" PROVE req'[s] = req[s]
          BY <3>2, <5>3
        <5>4. QED
          BY <3>1, <5>1, <5>2, <5>3
      <4>3. QED
        BY <4>1, <4>2
    <3>5. QED
      BY <3>3, <3>4 DEF OwnerInv
  <2>8. CASE RecordCommit(r)
    <3> DEFINE k == req[r].key  b == req[r].body  o == req[r].order
    <3>1. /\ req[r].pc = "created" /\ record[k] = None /\ UNCHANGED <<order, excused>>
          /\ record' = [record EXCEPT ![k] = [body |-> b, order |-> o]]
          /\ req' = [req EXCEPT ![r] = Idle]
      BY <2>8 DEF RecordCommit, FreeKey, End
    <3>2. k \in Keys /\ b \in Bodies /\ o \in Orders
      BY <1>a, <3>1 DEF ReqInv
    <3>3. /\ \A s \in Requests \ {r} : req'[s] = req[s]
          /\ ~ Working(r)' /\ req'[r].pc = "idle"
      BY <1>a, <3>1 DEF ApiOrdersTypeOK, Idle, Working
    <3>4. /\ record'[k].order = o /\ record'[k] # None
          /\ \A j \in Keys \ {k} : record'[j] = record[j]
      BY <1>a, <3>1, <3>2, RowsAreSome DEF ApiOrdersTypeOK
    <3> HIDE DEF b, o
    <3>5. AloneInv'
      <4> SUFFICES ASSUME NEW q \in Requests, Working(q)', req'[q].key \notin excused'
                   PROVE  /\ record'[req'[q].key] = None
                          /\ \A s \in Requests : Working(s)' /\ req'[s].key = req'[q].key => s = q
        BY DEF AloneInv
      <4>1. q # r /\ req'[q] = req[q] /\ Working(q) /\ req[q].key \notin excused
        BY <3>1, <3>3 DEF Working
      <4>2. /\ record[req[q].key] = None
            /\ \A s \in Requests : Working(s) /\ req[s].key = req[q].key => s = q
        BY <1>a, <4>1 DEF AloneInv
      <4>3. Working(r)
        BY <3>1 DEF Working
      <4>4. req[q].key # k /\ req[q].key \in Keys
        BY <1>a, <4>1, <4>2, <4>3 DEF ReqInv, Working
      <4>5. QED
        BY <3>3, <3>4, <4>1, <4>2, <4>4 DEF Working
    <3>6. ASSUME NEW p \in Orders, order[p] # None, order[p].key \notin excused
          PROVE  \/ record'[order[p].key] # None /\ record'[order[p].key].order = p
                 \/ \E s \in Requests : req'[s].pc = "created" /\ req'[s].key = order[p].key /\ req'[s].order = p
      <4>0. order[p].key \in Keys
        BY <1>a, <3>6 DEF ApiOrdersTypeOK
      <4>1. CASE record[order[p].key] # None /\ record[order[p].key].order = p
        BY <3>1, <3>4, <4>0, <4>1
      <4>2. ASSUME NEW s \in Requests, req[s].pc = "created", req[s].key = order[p].key, req[s].order = p
            PROVE  \/ record'[order[p].key] # None /\ record'[order[p].key].order = p
                   \/ \E q \in Requests : req'[q].pc = "created" /\ req'[q].key = order[p].key /\ req'[q].order = p
        <5>1. CASE s = r
          <6>1. order[p].key = k /\ p = o
            BY <4>2, <5>1 DEF o
          <6>2. QED
            BY <3>4, <6>1
        <5>2. CASE s # r
          BY <3>3, <4>2, <5>2
        <5>3. QED
          BY <5>1, <5>2
      <4>3. QED
        BY <1>a, <3>6, <4>1, <4>2 DEF OwnerInv
    <3>7. QED
      BY <3>1, <3>5, <3>6 DEF OwnerInv
  <2>9. QED
    BY <2>1, <2>2, <2>3, <2>4, <2>5, <2>6, <2>7, <2>8
<1>2. QED
  BY <1>0, <1>1

LEMMA OnceInvOne == OnceInv => OneOrderPerKey
<1> SUFFICES ASSUME OnceInv, NEW o1 \in Orders, NEW o2 \in Orders, o1 # o2,
                    order[o1] # None, order[o2] # None, order[o1].key = order[o2].key,
                    order[o1].key \notin excused
             PROVE  FALSE
  BY DEF OneOrderPerKey
<1>1. AloneInv /\ OwnerInv
  BY DEF OnceInv
<1>2. ASSUME NEW o \in Orders, order[o] # None, order[o].key = order[o1].key
      PROVE  \/ record[order[o1].key] # None /\ record[order[o1].key].order = o
             \/ \E r \in Requests : req[r].pc = "created" /\ req[r].key = order[o1].key /\ req[r].order = o
  BY <1>1, <1>2 DEF OwnerInv
<1>3. ASSUME NEW r \in Requests, req[r].pc = "created", req[r].key = order[o1].key
      PROVE  /\ record[order[o1].key] = None
             /\ \A s \in Requests : req[s].pc = "created" /\ req[s].key = order[o1].key => s = r
  BY <1>1, <1>3 DEF AloneInv, Working
<1>4. QED
  BY <1>2, <1>3

\* A key has one order unless requests with it overlapped between lookup and
\* record or one died between the two commits: the order is committed before
\* the idempotency record (routes/orders.py, create_order), and nothing else
\* can make a second one.
THEOREM OneOrderForAKey == ASpec => []OneOrderPerKey
BY OnceInit, OnceStep, OnceInvOne, PTL DEF ASpec

\* The three together: what the Idempotency-Key of POST /v1/orders promises.
THEOREM IdempotencyIsKept == ASpec => []IdempotencyHolds
BY ApiOrdersTypeCorrect, AnswersForAKeyAgree, OneOrderForAKey, PTL DEF IdempotencyHolds
-----------------------------------------------------------------------------
(* The block list (BlockList). *)

\* The range has not changed within the given age.
Unchanged(n, age) == \A d \in dropped : d.range = n => d.age > age

\* What a load has read is right about every range that has not changed
\* since the load began.
LoadInv ==
    \A l \in Loads :
        /\ load[l].pc # "idle" => load[l].proc \in Servers
        /\ load[l].pc = "read" =>
              \A n \in Ranges : Unchanged(n, load[l].age) => (n \in load[l].nets <=> n \in blocked)

ListInv == BlockListTypeOK /\ LoadInv /\ BlockIsEnforced

LEMMA ListInit == BInit => ListInv
<1> SUFFICES ASSUME BInit PROVE ListInv OBVIOUS
<1> USE BlockListAssumption
<1>0. ListTTL \in 0..ListTTL /\ 0 \in 0..MaxLoad OBVIOUS
<1>1. NoLoad \in [pc : {"idle", "asked", "read"}, proc : Servers \union {None}, nets : SUBSET Ranges, age : 0..MaxLoad]
  BY <1>0 DEF NoLoad
<1>2. BlockListTypeOK
  BY <1>0, <1>1 DEF BInit, BlockListTypeOK
<1>3. LoadInv
  BY DEF BInit, LoadInv, NoLoad
<1>4. BlockIsEnforced
  BY DEF BInit, BlockIsEnforced, Expired
<1> QED BY <1>2, <1>3, <1>4 DEF ListInv

\* The table changes: the change is recent for every copy and every load.
LEMMA ListEdit ==
  ASSUME ListInv, NEW n \in Ranges, AddIpBlocklist(n) \/ RemoveIpBlocklist(n)
  PROVE  ListInv'
<1> USE BlockListAssumption
<1> DEFINE new == [range |-> n, age |-> 0]
<1>1. /\ dropped' = dropped \union {new} /\ copy' = copy /\ load' = load
      /\ \A m \in Ranges : m # n => (m \in blocked' <=> m \in blocked)
      /\ blocked' \subseteq Ranges
  BY DEF AddIpBlocklist, RemoveIpBlocklist, Changed, ListInv, BlockListTypeOK
<1>2. new \in [range : Ranges, age : 0..Horizon]
  BY DEF Horizon
<1>3. BlockListTypeOK'
  BY <1>1, <1>2 DEF ListInv, BlockListTypeOK
<1>4. ASSUME NEW m \in Ranges, NEW age \in Nat, Unchanged(m, age)'
      PROVE  m # n /\ Unchanged(m, age)
  <2>1. \A d \in dropped \union {new} : d.range = m => d.age > age
    BY <1>1, <1>4 DEF Unchanged
  <2>2. new \in dropped \union {new} /\ new.range = n /\ new.age = 0
    OBVIOUS
  <2>3. m # n
    <3> HIDE DEF new
    <3> QED BY <2>1, <2>2
  <2> QED BY <2>1, <2>3 DEF Unchanged
<1>5. LoadInv'
  <2> SUFFICES ASSUME NEW l \in Loads
               PROVE  /\ load[l].pc # "idle" => load[l].proc \in Servers
                      /\ load[l].pc = "read" =>
                           \A m \in Ranges : Unchanged(m, load[l].age)' => (m \in load[l].nets <=> m \in blocked')
    BY <1>1 DEF LoadInv, Unchanged
  <2>1. load[l].age \in Nat
    BY DEF ListInv, BlockListTypeOK
  <2> QED BY <2>1, <1>4, <1>1 DEF ListInv, LoadInv
<1>6. BlockIsEnforced'
  <2> SUFFICES ASSUME NEW p \in Servers, NEW m \in Ranges, ~Expired(p), ~copy[p].failed, 
                      \A d \in dropped' : d.range = m => d.age > copy[p].age + MaxLoad
               PROVE  m \in copy[p].nets <=> m \in blocked'
    BY <1>1 DEF BlockIsEnforced, Expired
  <2>1. copy[p].age + MaxLoad \in Nat
    BY DEF ListInv, BlockListTypeOK
  <2>2. m # n /\ Unchanged(m, copy[p].age + MaxLoad)
    BY <2>1, <1>4 DEF Unchanged
  <2> QED BY <2>2, <1>1 DEF ListInv, BlockIsEnforced, Unchanged
<1> QED BY <1>3, <1>5, <1>6 DEF ListInv

\* A load begins or reads: the copies stay, and one load moves on.
LEMMA ListAsk ==
  ASSUME ListInv, NEW l \in Loads, (\E p \in Servers : LoadBegin(l, p)) \/ LoadRead(l)
  PROVE  ListInv'
<1> USE BlockListAssumption
<1>0. PICK new : /\ load' = [load EXCEPT ![l] = new] /\ copy' = copy /\ dropped' = dropped /\ blocked' = blocked
                 /\ new \in [pc : {"idle", "asked", "read"}, proc : Servers \union {None}, nets : SUBSET Ranges, age : 0..MaxLoad]
                 /\ new.proc \in Servers
                 /\ new.pc = "read" => new.nets = blocked
  <2>1. CASE LoadRead(l)
    <3>1. [load[l] EXCEPT !.pc = "read", !.nets = blocked] \in [pc : {"idle", "asked", "read"}, proc : Servers \union {None}, nets : SUBSET Ranges, age : 0..MaxLoad]
      BY DEF ListInv, BlockListTypeOK
    <3>2. load[l].proc \in Servers
      BY <2>1 DEF LoadRead, ListInv, LoadInv
    <3>3. PICK x : x = [load[l] EXCEPT !.pc = "read", !.nets = blocked]
      OBVIOUS
    <3>4. x.proc = load[l].proc /\ x.nets = blocked
      BY <3>3 DEF ListInv, BlockListTypeOK
    <3>5. load' = [load EXCEPT ![l] = x] /\ copy' = copy /\ dropped' = dropped /\ blocked' = blocked
      BY <2>1, <3>3 DEF LoadRead
    <3> QED BY <3>1, <3>2, <3>3, <3>4, <3>5
  <2>2. CASE \E p \in Servers : LoadBegin(l, p)
    <3>1. PICK p \in Servers : LoadBegin(l, p)
      BY <2>2
    <3>2. [load[l] EXCEPT !.pc = "asked", !.proc = p] \in [pc : {"idle", "asked", "read"}, proc : Servers \union {None}, nets : SUBSET Ranges, age : 0..MaxLoad]
      BY DEF ListInv, BlockListTypeOK
    <3> QED BY <3>1, <3>2 DEF LoadBegin, ListInv, BlockListTypeOK
  <2> QED BY <2>1, <2>2
<1>1. BlockListTypeOK'
  BY <1>0 DEF ListInv, BlockListTypeOK
<1>2. LoadInv'
  <2> SUFFICES ASSUME NEW k \in Loads
               PROVE  /\ load'[k].pc # "idle" => load'[k].proc \in Servers
                      /\ load'[k].pc = "read" =>
                           \A m \in Ranges : Unchanged(m, load'[k].age) => (m \in load'[k].nets <=> m \in blocked)
    BY <1>0 DEF LoadInv, Unchanged
  <2>1. load'[k] = IF k = l THEN new ELSE load[k]
    BY <1>0 DEF ListInv, BlockListTypeOK
  <2> QED BY <1>0, <2>1 DEF ListInv, LoadInv
<1>3. BlockIsEnforced'
  BY <1>0 DEF ListInv, BlockIsEnforced, Expired
<1> QED BY <1>1, <1>2, <1>3 DEF ListInv

\* A load ends: its process takes what it read, or an empty copy.
LEMMA ListStore ==
  ASSUME ListInv, NEW l \in Loads, LoadStore(l) \/ LoadFails(l)
  PROVE  ListInv'
<1> USE BlockListAssumption
<1> DEFINE p == load[l].proc
<1>0. p \in Servers /\ load[l].age \in 0..MaxLoad /\ load[l].nets \subseteq Ranges
  BY DEF ListInv, LoadInv, BlockListTypeOK, LoadStore, LoadFails
<1>1. PICK new : /\ copy' = [copy EXCEPT ![p] = new] /\ load' = [load EXCEPT ![l] = NoLoad]
                 /\ dropped' = dropped /\ blocked' = blocked
                 /\ new.failed \in BOOLEAN /\ new.age = 0
                 /\ new \in [nets : SUBSET Ranges, age : 0..ListTTL, failed : BOOLEAN]
                 /\ ~new.failed => new.nets = load[l].nets /\ load[l].pc = "read"
  <2>1. CASE LoadStore(l)
    <3>1. [nets |-> load[l].nets, age |-> 0, failed |-> FALSE] \in [nets : SUBSET Ranges, age : 0..ListTTL, failed : BOOLEAN]
      BY <1>0
    <3>2. PICK x : x = [nets |-> load[l].nets, age |-> 0, failed |-> FALSE]
      OBVIOUS
    <3>3. /\ copy' = [copy EXCEPT ![p] = x] /\ load' = [load EXCEPT ![l] = NoLoad]
          /\ dropped' = dropped /\ blocked' = blocked /\ load[l].pc = "read"
      BY <2>1, <3>2 DEF LoadStore
    <3>4. x.age = 0 /\ x.nets = load[l].nets /\ x.failed \in BOOLEAN
      BY <3>2
    <3> QED BY <3>1, <3>2, <3>3, <3>4
  <2>2. CASE LoadFails(l)
    <3>1. [nets |-> {}, age |-> 0, failed |-> TRUE] \in [nets : SUBSET Ranges, age : 0..ListTTL, failed : BOOLEAN]
      OBVIOUS
    <3> QED BY <2>2, <3>1 DEF LoadFails
  <2> QED BY <2>1, <2>2
<1>2. NoLoad \in [pc : {"idle", "asked", "read"}, proc : Servers \union {None}, nets : SUBSET Ranges, age : 0..MaxLoad]
  BY DEF NoLoad
<1>3. BlockListTypeOK'
  BY <1>0, <1>1, <1>2 DEF ListInv, BlockListTypeOK
<1>4. LoadInv'
  <2> SUFFICES ASSUME NEW k \in Loads
               PROVE  /\ load'[k].pc # "idle" => load'[k].proc \in Servers
                      /\ load'[k].pc = "read" =>
                           \A m \in Ranges : Unchanged(m, load'[k].age) => (m \in load'[k].nets <=> m \in blocked)
    BY <1>1 DEF LoadInv, Unchanged
  <2>1. load'[k] = IF k = l THEN NoLoad ELSE load[k]
    BY <1>1 DEF ListInv, BlockListTypeOK
  <2> QED BY <2>1 DEF ListInv, LoadInv, NoLoad
<1>5. BlockIsEnforced'
  <2> SUFFICES ASSUME NEW q \in Servers, NEW m \in Ranges, copy'[q].age < ListTTL, ~copy'[q].failed, 
                      \A d \in dropped : d.range = m => d.age > copy'[q].age + MaxLoad
               PROVE  m \in copy'[q].nets <=> m \in blocked
    <3>1. \A q \in Servers : copy'[q].age \in Nat
      BY <1>3 DEF BlockListTypeOK
    <3> QED BY <1>1, <3>1 DEF BlockIsEnforced, Expired
  <2>1. copy'[q] = IF q = p THEN new ELSE copy[q]
    BY <1>0, <1>1 DEF ListInv, BlockListTypeOK
  <2>2. CASE q = p
    <3>1. new.nets = load[l].nets /\ load[l].pc = "read"
      BY <2>1, <2>2, <1>1
    <3>2. Unchanged(m, load[l].age)
      BY <2>1, <2>2, <1>1, <1>0 DEF Unchanged, ListInv, BlockListTypeOK
    <3> QED BY <3>1, <3>2, <2>1, <2>2 DEF ListInv, LoadInv
  <2>3. CASE q # p
    BY <2>1, <2>3 DEF ListInv, BlockIsEnforced, Expired, BlockListTypeOK
  <2> QED BY <2>2, <2>3
<1> QED BY <1>3, <1>4, <1>5 DEF ListInv

\* Time passes: a change ages as the copies and the loads do, and one that
\* is left out is older than what any copy in use may have missed.
LEMMA ListAges ==
  ASSUME ListInv, ListTick
  PROVE  ListInv'
<1> USE BlockListAssumption
<1>0. /\ copy \in [Servers -> [nets : SUBSET Ranges, age : 0..ListTTL, failed : BOOLEAN]]
      /\ load \in [Loads -> [pc : {"idle", "asked", "read"}, proc : Servers \union {None}, nets : SUBSET Ranges, age : 0..MaxLoad]]
      /\ dropped \subseteq [range : Ranges, age : 0..Horizon]
      /\ Horizon \in Nat /\ blocked' = blocked
  BY DEF ListInv, BlockListTypeOK, Horizon, ListTick
<1>1. ASSUME NEW p \in Servers
      PROVE  /\ copy'[p] \in [nets : SUBSET Ranges, age : 0..ListTTL, failed : BOOLEAN]
             /\ copy'[p].nets = copy[p].nets /\ copy'[p].failed = copy[p].failed
             /\ copy'[p].age < ListTTL => copy'[p].age = copy[p].age + 1
  <2>1. copy'[p] = IF copy[p].age = ListTTL THEN copy[p] ELSE [copy[p] EXCEPT !.age = copy[p].age + 1]
    BY DEF ListTick
  <2>2. copy[p] \in [nets : SUBSET Ranges, age : 0..ListTTL, failed : BOOLEAN]
    BY <1>0
  <2>3. CASE copy[p].age = ListTTL
    BY <2>1, <2>2, <2>3
  <2>4. CASE copy[p].age # ListTTL
    BY <2>1, <2>2, <2>4
  <2> QED BY <2>3, <2>4
<1>2. ASSUME NEW l \in Loads
      PROVE  /\ load'[l] \in [pc : {"idle", "asked", "read"}, proc : Servers \union {None}, nets : SUBSET Ranges, age : 0..MaxLoad]
             /\ load'[l].nets = load[l].nets /\ load'[l].pc = load[l].pc /\ load'[l].proc = load[l].proc
             /\ load[l].pc # "idle" => load'[l].age = load[l].age + 1
  <2>1. load[l].age < MaxLoad /\ load'[l] = IF load[l] = NoLoad THEN NoLoad ELSE [load[l] EXCEPT !.age = load[l].age + 1]
    BY DEF ListTick
  <2>2. load[l] \in [pc : {"idle", "asked", "read"}, proc : Servers \union {None}, nets : SUBSET Ranges, age : 0..MaxLoad]
    BY <1>0
  <2>3. CASE load[l] = NoLoad
    BY <2>1, <2>2, <2>3 DEF NoLoad
  <2>4. CASE load[l] # NoLoad
    BY <2>1, <2>2, <2>4
  <2> QED BY <2>3, <2>4
<1>3. /\ dropped' \subseteq [range : Ranges, age : 0..Horizon]
      /\ \A d \in dropped : d.age < Horizon => [d EXCEPT !.age = d.age + 1] \in dropped'
  <2>1. dropped' = {[d EXCEPT !.age = d.age + 1] : d \in {x \in dropped : x.age < Horizon}}
    BY DEF ListTick
  <2>2. \A d \in dropped : d.age < Horizon => [d EXCEPT !.age = d.age + 1] \in [range : Ranges, age : 0..Horizon]
    BY <1>0
  <2> QED BY <2>1, <2>2
<1>4. ASSUME NEW n \in Ranges, NEW age \in Nat, age + 1 < Horizon, \A d \in dropped' : d.range = n => d.age > age + 1
      PROVE  Unchanged(n, age)
  <2> SUFFICES ASSUME NEW d \in dropped, d.range = n PROVE d.age > age
    BY DEF Unchanged
  <2>1. d \in [range : Ranges, age : 0..Horizon]
    BY <1>0
  <2>2. CASE d.age < Horizon
    <3>1. PICK x : x = [d EXCEPT !.age = d.age + 1] OBVIOUS
    <3>2. x.range = n /\ x.age = d.age + 1 /\ x \in dropped'
      BY <3>1, <2>1, <2>2, <1>3
    <3> QED BY <3>2, <1>4, <2>1
  <2>3. CASE d.age = Horizon
    BY <2>3, <1>4, <1>0
  <2> QED BY <2>1, <2>2, <2>3, <1>0
<1>5. BlockListTypeOK'
  <2>1. copy' \in [Servers -> [nets : SUBSET Ranges, age : 0..ListTTL, failed : BOOLEAN]]
    <3>1. copy' = [p \in Servers |-> copy'[p]]
      BY DEF ListTick
    <3> QED BY <3>1, <1>1
  <2>2. load' \in [Loads -> [pc : {"idle", "asked", "read"}, proc : Servers \union {None}, nets : SUBSET Ranges, age : 0..MaxLoad]]
    <3>1. load' = [l \in Loads |-> load'[l]]
      BY DEF ListTick
    <3> QED BY <3>1, <1>2
  <2> QED BY <2>1, <2>2, <1>3, <1>0 DEF BlockListTypeOK, ListInv
<1>6. LoadInv'
  <2> SUFFICES ASSUME NEW l \in Loads
               PROVE  /\ load'[l].pc # "idle" => load'[l].proc \in Servers
                      /\ load'[l].pc = "read" =>
                           \A m \in Ranges : (\A d \in dropped' : d.range = m => d.age > load'[l].age)
                                                => (m \in load'[l].nets <=> m \in blocked)
    BY <1>0 DEF LoadInv, Unchanged
  <2>1. load'[l].pc # "idle" => load'[l].proc \in Servers
    BY <1>2 DEF ListInv, LoadInv
  <2>2. ASSUME load'[l].pc = "read", NEW m \in Ranges, \A d \in dropped' : d.range = m => d.age > load'[l].age
        PROVE  m \in load'[l].nets <=> m \in blocked
    <3>1. load[l].age \in Nat /\ load'[l].age = load[l].age + 1
      BY <1>2, <2>2, <1>0
    <3>3. load[l].age < MaxLoad
      BY DEF ListTick
    <3>4. load[l].age + 1 < Horizon
      BY <3>1, <3>3 DEF Horizon
    <3>2. Unchanged(m, load[l].age)
      BY <1>4, <2>2, <3>1, <3>4
    <3> QED BY <3>2, <2>2, <1>2 DEF ListInv, LoadInv
  <2> QED BY <2>1, <2>2
<1>7. BlockIsEnforced'
  <2> SUFFICES ASSUME NEW p \in Servers, NEW m \in Ranges, copy'[p].age < ListTTL, ~copy'[p].failed, 
                      \A d \in dropped' : d.range = m => d.age > copy'[p].age + MaxLoad
               PROVE  m \in copy'[p].nets <=> m \in blocked
    <3>1. \A p \in Servers : copy'[p].age \in Nat
      BY <1>1
    <3> QED BY <1>0, <3>1 DEF BlockIsEnforced, Expired
  <2>1. /\ copy[p].age \in Nat /\ copy'[p].age + MaxLoad = (copy[p].age + MaxLoad) + 1
        /\ copy[p].age + MaxLoad \in Nat /\ (copy[p].age + MaxLoad) + 1 < Horizon
    BY <1>1, <1>0 DEF Horizon
  <2>2. Unchanged(m, copy[p].age + MaxLoad)
    BY <2>1, <1>4
  <2>3. ~Expired(p) /\ ~copy[p].failed
    BY <1>1, <2>1 DEF Expired, Horizon
  <2> QED BY <2>2, <2>3, <1>1 DEF ListInv, BlockIsEnforced, Unchanged
<1> QED BY <1>5, <1>6, <1>7 DEF ListInv

LEMMA ListStep == ListInv /\ [BNext]_blVars => ListInv'
<1> SUFFICES ASSUME ListInv, [BNext]_blVars PROVE ListInv' OBVIOUS
<1>1. CASE \E n \in Ranges : AddIpBlocklist(n) \/ RemoveIpBlocklist(n)
  BY <1>1, ListEdit
<1>2. CASE \E l \in Loads : (\E p \in Servers : LoadBegin(l, p)) \/ LoadRead(l)
  BY <1>2, ListAsk
<1>3. CASE \E l \in Loads : LoadStore(l) \/ LoadFails(l)
  BY <1>3, ListStore
<1>4. CASE ListTick
  BY <1>4, ListAges
<1>5. CASE UNCHANGED blVars
  BY <1>5 DEF blVars, ListInv, BlockListTypeOK, LoadInv, BlockIsEnforced, Unchanged, Expired
<1> QED BY <1>1, <1>2, <1>3, <1>4, <1>5 DEF BNext

(* A range whose row has not changed for the TTL and the time of a load is  *)
(* blocked by every process exactly if the table says so, unless the last   *)
(* load of the process failed: loads of several requests overlap, take the  *)
(* time at which they are stored, and the table changes between their query *)
(* and that time (IpBlocklistMiddleware._load).                             *)
THEOREM BlockListIsEnforced == BSpec => []BlockListHolds
<1>1. ListInv => BlockListHolds
  BY DEF ListInv, BlockListHolds
<1> QED BY <1>1, ListInit, ListStep, PTL DEF BSpec
-----------------------------------------------------------------------------
(* The counters in front of the public API (Limits). *)

LEMMA DivRange == \A t \in Nat, w \in Nat \ {0} : t \div w \in 0..t
  OBVIOUS
LEMMA DivMonotone == \A s, t \in Nat, w \in Nat \ {0} : s <= t => s \div w <= t \div w
  OBVIOUS
LEMMA DivShift == \A s, t \in Nat, w \in Nat \ {0} : s + w <= t => s \div w < t \div w
  OBVIOUS

LimitRequest == [pc : Steps, proc : Servers \union {None}, via : {"untried", "redis", "memory"},
                 bucket : [Kinds -> BucketsOf], over : BOOLEAN, first : BOOLEAN, late : SUBSET Kinds]

\* A request that a counter in Redis has let through and that has not been
\* admitted yet: it is between INCR and the decision.
Holding(q, kind, b) ==
    /\ ~q.over /\ kind \notin q.late /\ q.bucket[kind] = b
    /\ \/ kind = "rate" /\ q.pc = "rateExpire"
       \/ kind = "day" /\ q.pc \in {"dayExpire", "month", "monthExpire"}
       \/ kind = "month" /\ q.pc = "monthExpire"
Pend(kind, b) == {r \in Requests : Holding(limitReq[r], kind, b)}
Taken(kind, b) == admitted["redis"][kind][b] + Cardinality(Pend(kind, b))

\* What is admitted or may still be is within the limit; the counter of the
\* current bucket has counted all of it, and a later bucket has seen nothing.
RedisInv ==
    \A kind \in Kinds, b \in BucketsOf :
        /\ Limit[kind] # 0 => Taken(kind, b) <= Limit[kind]
        /\ b = Bucket(kind) => Taken(kind, b) <= redis[kind][b].n
        /\ b > Bucket(kind) => Taken(kind, b) = 0

\* A key expires after its bucket.
ExpiryInv ==
    \A kind \in Kinds, b \in BucketsOf :
        redis[kind][b].ttl # -1 => redis[kind][b].ttl > 0 /\ (time + redis[kind][b].ttl) \div Length[kind] > b

\* The counters in the memory of a process have counted what it admitted.
MemoryInv ==
    \A p \in Servers, kind \in Kinds, b \in BucketsOf :
        /\ admitted[p][kind][b] <= memory[p][kind][b]
        /\ Limit[kind] # 0 => admitted[p][kind][b] <= Limit[kind]

\* A request under way has a process, and its buckets are not to come.
RequestInv ==
    \A r \in Requests :
        /\ limitReq[r].pc # "idle" => limitReq[r].proc \in Servers
        /\ \A kind \in Kinds : limitReq[r].bucket[kind] <= Bucket(kind)

LimitInv == LimitsTypeOK /\ RedisInv /\ ExpiryInv /\ MemoryInv /\ RequestInv

LEMMA BucketType == ASSUME LimitsTypeOK, NEW kind \in Kinds PROVE Bucket(kind) \in BucketsOf
<1>1. Length[kind] \in Nat \ {0} /\ time \in Nat /\ time <= MaxTime /\ MaxTime \in Nat
  BY LimitsAssumption DEF LimitsTypeOK
<1>2. time \div Length[kind] \in 0..time
  BY <1>1, DivRange
<1> QED BY <1>1, <1>2 DEF Bucket, BucketsOf

LEMMA NoRequestType == NoRequest \in LimitRequest
<1>1. 0 \in BucketsOf
  BY LimitsAssumption DEF BucketsOf
<1> QED BY <1>1 DEF NoRequest, LimitRequest, Steps

LEMMA NoRequestHolds == \A kind, b : ~Holding(NoRequest, kind, b)
  BY DEF Holding, NoRequest

LEMMA PendType == \A kind, b : IsFiniteSet(Pend(kind, b)) /\ Cardinality(Pend(kind, b)) \in Nat
<1> SUFFICES ASSUME NEW kind, NEW b PROVE IsFiniteSet(Pend(kind, b)) /\ Cardinality(Pend(kind, b)) \in Nat
  OBVIOUS
<1>1. IsFiniteSet(Requests) /\ Pend(kind, b) \subseteq Requests
  BY LimitsAssumption DEF Pend
<1>2. IsFiniteSet(Pend(kind, b))
  BY <1>1, FS_Subset
<1> QED BY <1>2, FS_CardinalityType

LEMMA PendTypeNext == \A kind, b : IsFiniteSet(Pend(kind, b)') /\ Cardinality(Pend(kind, b)') \in Nat
<1> SUFFICES ASSUME NEW kind, NEW b PROVE IsFiniteSet(Pend(kind, b)') /\ Cardinality(Pend(kind, b)') \in Nat
  OBVIOUS
<1>1. IsFiniteSet(Requests) /\ Pend(kind, b)' \subseteq Requests
  BY LimitsAssumption DEF Pend
<1>2. IsFiniteSet(Pend(kind, b)')
  BY <1>1, FS_Subset
<1> QED BY <1>2, FS_CardinalityType

LEMMA LimitInit == LInit => LimitInv
<1> SUFFICES ASSUME LInit PROVE LimitInv OBVIOUS
<1> USE LimitsAssumption
<1>1. time \in 0..MaxTime /\ hits \in 0..MaxHits /\ NoKey \in [n : Nat, ttl : Nat \union {-1}]
  BY DEF LInit, NoKey
<1>2. LimitsTypeOK
  BY <1>1, NoRequestType DEF LInit, LimitsTypeOK, LimitRequest
<1>3. ASSUME NEW kind \in Kinds, NEW b \in BucketsOf PROVE Taken(kind, b) = 0
  <2>1. Pend(kind, b) = {}
    BY NoRequestHolds DEF Pend, LInit
  <2>2. Cardinality({}) = 0
    BY FS_EmptySet
  <2>3. admitted["redis"][kind][b] = 0
    BY <1>3 DEF LInit, Backends
  <2> QED BY <2>1, <2>2, <2>3 DEF Taken
<1>4. RedisInv
  <2>1. \A kind \in Kinds : Limit[kind] \in Nat
    OBVIOUS
  <2>2. \A kind \in Kinds, b \in BucketsOf : redis[kind][b].n \in Nat
    BY <1>2 DEF LimitsTypeOK
  <2> QED BY <1>3, <2>1, <2>2 DEF RedisInv
<1>5. ExpiryInv
  BY DEF ExpiryInv, LInit, NoKey
<1>6. MemoryInv
  BY DEF MemoryInv, LInit, Backends
<1>7. RequestInv
  <2>1. \A kind \in Kinds : Bucket(kind) \in BucketsOf
    BY <1>2, BucketType
  <2>2. \A r \in Requests : limitReq[r] = NoRequest
    BY DEF LInit
  <2> QED BY <2>1, <2>2 DEF RequestInv, NoRequest, BucketsOf
<1> QED BY <1>2, <1>4, <1>5, <1>6, <1>7 DEF LimitInv

\* One request moves on.  What it does to the counters of Redis is one of
\* three things: it counts within the limit of the current bucket and holds
\* a place; it turns its place into an admission; or it takes nothing.
LEMMA RedisStep ==
  ASSUME LimitInv, LimitsTypeOK', time' = time, NEW r \in Requests, NEW new,
         limitReq' = [limitReq EXCEPT ![r] = new],
         \A kind \in Kinds, b \in BucketsOf :
            \/ /\ admitted'["redis"][kind][b] = admitted["redis"][kind][b] /\ redis'[kind][b].n >= redis[kind][b].n
               /\ Holding(new, kind, b) => Holding(limitReq[r], kind, b)
            \/ /\ admitted'["redis"][kind][b] = admitted["redis"][kind][b] + 1 /\ redis'[kind][b].n >= redis[kind][b].n
               /\ Holding(limitReq[r], kind, b) /\ ~Holding(new, kind, b)
            \/ /\ admitted'["redis"][kind][b] = admitted["redis"][kind][b] /\ redis'[kind][b].n = redis[kind][b].n + 1
               /\ ~Holding(limitReq[r], kind, b) /\ Holding(new, kind, b)
               /\ b = Bucket(kind) /\ ~Over(kind, redis'[kind][b].n)
  PROVE  RedisInv'
<1> SUFFICES ASSUME NEW kind \in Kinds, NEW b \in BucketsOf
             PROVE  /\ Limit[kind] # 0 => Taken(kind, b)' <= Limit[kind]
                    /\ b = Bucket(kind) => Taken(kind, b)' <= redis'[kind][b].n
                    /\ b > Bucket(kind) => Taken(kind, b)' = 0
  BY DEF RedisInv, Bucket
<1> DEFINE P == Pend(kind, b)
           Q == Pend(kind, b)'
<1>1. \A s \in Requests : limitReq'[s] = IF s = r THEN new ELSE limitReq[s]
  BY DEF LimitInv, LimitsTypeOK
<1>2. Q = {s \in Requests : Holding(limitReq'[s], kind, b)} /\ P = {s \in Requests : Holding(limitReq[s], kind, b)}
  BY DEF Pend, Holding
<1>3. /\ Cardinality(P) \in Nat /\ Cardinality(Q) \in Nat /\ IsFiniteSet(P) /\ IsFiniteSet(Q)
      /\ admitted["redis"][kind][b] \in Nat /\ admitted'["redis"][kind][b] \in Nat
      /\ redis[kind][b].n \in Nat /\ redis'[kind][b].n \in Nat
      /\ Limit[kind] \in Nat /\ Bucket(kind) \in Nat /\ b \in Nat
  <2>1. Cardinality(P) \in Nat /\ IsFiniteSet(P)
    BY PendType
  <2>2. Cardinality(Q) \in Nat /\ IsFiniteSet(Q)
    BY PendTypeNext
  <2>3. admitted["redis"][kind][b] \in Nat /\ admitted'["redis"][kind][b] \in Nat
    BY DEF LimitInv, LimitsTypeOK, Backends
  <2>4. redis[kind][b].n \in Nat /\ redis'[kind][b].n \in Nat
    BY DEF LimitInv, LimitsTypeOK
  <2>5. Bucket(kind) \in BucketsOf
    BY BucketType DEF LimitInv
  <2> QED BY <2>1, <2>2, <2>3, <2>4, <2>5, LimitsAssumption DEF BucketsOf
<1>4. /\ Taken(kind, b) = admitted["redis"][kind][b] + Cardinality(P)
      /\ Taken(kind, b)' = admitted'["redis"][kind][b] + Cardinality(Q)
  BY DEF Taken
<1>5. /\ Limit[kind] # 0 => Taken(kind, b) <= Limit[kind]
      /\ b = Bucket(kind) => Taken(kind, b) <= redis[kind][b].n
      /\ b > Bucket(kind) => Taken(kind, b) = 0
  BY DEF LimitInv, RedisInv
<1> HIDE DEF P, Q
<1>6. CASE Holding(new, kind, b) /\ Holding(limitReq[r], kind, b)
  <2>1. P = Q
    BY <1>1, <1>2, <1>6
  <2>2. admitted'["redis"][kind][b] = admitted["redis"][kind][b] /\ redis'[kind][b].n >= redis[kind][b].n
    BY <1>6
  <2> QED BY <2>1, <2>2, <1>3, <1>4, <1>5
<1>7. CASE ~Holding(new, kind, b) /\ ~Holding(limitReq[r], kind, b)
  <2>1. P = Q
    BY <1>1, <1>2, <1>7
  <2>2. admitted'["redis"][kind][b] = admitted["redis"][kind][b] /\ redis'[kind][b].n >= redis[kind][b].n
    BY <1>7
  <2> QED BY <2>1, <2>2, <1>3, <1>4, <1>5
<1>8. CASE ~Holding(new, kind, b) /\ Holding(limitReq[r], kind, b)
  <2>1. Q = P \ {r} /\ r \in P
    BY <1>1, <1>2, <1>8
  <2>2. Cardinality(Q) = Cardinality(P) - 1
    BY <2>1, <1>3, FS_RemoveElement
  <2>3. /\ redis'[kind][b].n >= redis[kind][b].n
        /\ admitted'["redis"][kind][b] \in {admitted["redis"][kind][b], admitted["redis"][kind][b] + 1}
    BY <1>8
  <2> QED BY <2>2, <2>3, <1>3, <1>4, <1>5
<1>9. CASE Holding(new, kind, b) /\ ~Holding(limitReq[r], kind, b)
  <2>1. Q = P \union {r} /\ r \notin P
    BY <1>1, <1>2, <1>9
  <2>2. Cardinality(Q) = Cardinality(P) + 1
    BY <2>1, <1>3, FS_AddElement
  <2>3. /\ admitted'["redis"][kind][b] = admitted["redis"][kind][b] /\ redis'[kind][b].n = redis[kind][b].n + 1
        /\ b = Bucket(kind) /\ ~Over(kind, redis'[kind][b].n)
    BY <1>9
  <2>4. Limit[kind] # 0 => redis'[kind][b].n <= Limit[kind]
    BY <2>3, <1>3 DEF Over
  <2> QED BY <2>2, <2>3, <2>4, <1>3, <1>4, <1>5
<1> QED BY <1>6, <1>7, <1>8, <1>9

LEMMA RequestStep ==
  ASSUME LimitInv, time' = time, NEW r \in Requests, NEW new \in LimitRequest,
         limitReq' = [limitReq EXCEPT ![r] = new],
         new.pc # "idle" => new.proc \in Servers,
         \A kind \in Kinds : new.bucket[kind] <= Bucket(kind)
  PROVE  /\ RequestInv'
         /\ limitReq' \in [Requests -> LimitRequest]
<1>1. limitReq \in [Requests -> LimitRequest]
  BY DEF LimitInv, LimitsTypeOK, LimitRequest
<1>2. \A s \in Requests : limitReq'[s] = IF s = r THEN new ELSE limitReq[s]
  BY <1>1
<1>3. RequestInv'
  <2> SUFFICES ASSUME NEW s \in Requests
               PROVE  /\ limitReq'[s].pc # "idle" => limitReq'[s].proc \in Servers
                      /\ \A kind \in Kinds : limitReq'[s].bucket[kind] <= Bucket(kind)
    BY DEF RequestInv, Bucket
  <2> QED BY <1>2 DEF LimitInv, RequestInv
<1> QED BY <1>1, <1>3

LEMMA NoRequestBuckets ==
  ASSUME LimitInv, NEW kind \in Kinds
  PROVE  NoRequest.bucket[kind] <= Bucket(kind)
<1>1. Bucket(kind) \in BucketsOf
  BY BucketType DEF LimitInv
<1>2. NoRequest.bucket[kind] = 0
  BY DEF NoRequest
<1> QED BY <1>1, <1>2 DEF BucketsOf

\* A request that takes no place leaves the claim on Redis as it is.
LEMMA RedisKept ==
  ASSUME LimitInv, LimitsTypeOK', time' = time, NEW r \in Requests, NEW new,
         limitReq' = [limitReq EXCEPT ![r] = new],
         \A kind \in Kinds, b \in BucketsOf :
            /\ admitted'["redis"][kind][b] = admitted["redis"][kind][b] /\ redis'[kind][b].n >= redis[kind][b].n
            /\ Holding(new, kind, b) => Holding(limitReq[r], kind, b)
  PROVE  RedisInv'
  BY RedisStep, ZenonT(60)

\* A request moves to a step before any counter, or ends.
LEMMA QuietStep ==
  ASSUME LimitInv, LimitsTypeOK', UNCHANGED <<time, redis, memory, admitted>>, NEW r \in Requests, NEW new \in LimitRequest,
         limitReq' = [limitReq EXCEPT ![r] = new],
         new.pc \in {"idle", "rate", "auth", "day"},
         RequestInv'
  PROVE  LimitInv'
<1>1. \A kind, b : ~Holding(new, kind, b)
  BY DEF Holding
<1>2. \A kind \in Kinds, b \in BucketsOf : redis[kind][b].n \in Nat
  BY DEF LimitInv, LimitsTypeOK
<1>3. RedisInv'
  <2>1. \A kind \in Kinds, b \in BucketsOf :
            /\ admitted'["redis"][kind][b] = admitted["redis"][kind][b] /\ redis'[kind][b].n >= redis[kind][b].n
            /\ Holding(new, kind, b) => Holding(limitReq[r], kind, b)
    BY <1>1, <1>2
  <2> QED BY <2>1, RedisKept
<1>4. ExpiryInv'
  BY DEF LimitInv, ExpiryInv
<1>5. MemoryInv'
  BY DEF LimitInv, MemoryInv
<1> QED BY <1>3, <1>4, <1>5 DEF LimitInv

LEMMA StampType ==
  ASSUME LimitInv, NEW r \in Requests, NEW kinds
  PROVE  /\ Stamp(r, kinds) \in [Kinds -> BucketsOf]
         /\ \A kind \in Kinds : Stamp(r, kinds)[kind] <= Bucket(kind)
<1>1. \A kind \in Kinds : Bucket(kind) \in BucketsOf /\ Bucket(kind) <= Bucket(kind)
  <2>1. \A kind \in Kinds : Bucket(kind) \in BucketsOf
    BY BucketType DEF LimitInv
  <2> QED BY <2>1 DEF BucketsOf
<1>2. \A kind \in Kinds : limitReq[r].bucket[kind] \in BucketsOf /\ limitReq[r].bucket[kind] <= Bucket(kind)
  BY DEF LimitInv, LimitsTypeOK, RequestInv
<1> QED BY <1>1, <1>2 DEF Stamp

LEMMA ArriveStep ==
  ASSUME LimitInv, NEW r \in Requests, NEW p \in Servers, NEW reached \in BOOLEAN, Arrive(r, p, reached)
  PROVE  LimitInv'
<1>1. /\ limiter' \in [Servers -> {"untried", "redis", "memory"}] /\ retryAt' \in [Servers -> Nat]
  <2>1. time + 1 \in Nat
    BY LimitsAssumption DEF LimitInv, LimitsTypeOK
  <2>2. CASE UNCHANGED <<limiter, retryAt>>
    BY <2>2 DEF LimitInv, LimitsTypeOK
  <2>3. CASE /\ limiter' = [limiter EXCEPT ![p] = IF reached THEN "redis" ELSE "memory"]
             /\ retryAt' = [retryAt EXCEPT ![p] = IF reached THEN @ ELSE time + 1]
    BY <2>3, <2>1 DEF LimitInv, LimitsTypeOK
  <2> QED BY <2>2, <2>3 DEF Arrive
<1>2. PICK v \in {"untried", "redis", "memory"} : v = limiter'[p]
  BY <1>1
<1>3. PICK s \in [Kinds -> BucketsOf] : s = Stamp(r, {"rate"}) /\ \A kind \in Kinds : s[kind] <= Bucket(kind)
  BY StampType
<1>4. PICK new : new = [NoRequest EXCEPT !.pc = "rate", !.proc = p, !.via = v, !.bucket = s]
  OBVIOUS
<1>5. new.pc = "rate" /\ new.proc = p /\ new.bucket = s
  BY <1>4 DEF NoRequest
<1>6. new \in LimitRequest
  BY <1>4, NoRequestType DEF LimitRequest, Steps
<1>7. /\ limitReq' = [limitReq EXCEPT ![r] = new] /\ UNCHANGED <<time, redis, memory, tracker, admitted>>
      /\ hits < MaxHits /\ hits' = hits + 1
  BY <1>2, <1>3, <1>4 DEF Arrive
<1>8. RequestInv' /\ limitReq' \in [Requests -> LimitRequest]
  BY <1>3, <1>5, <1>6, <1>7, RequestStep
<1>9. LimitsTypeOK'
  <2>1. hits' \in 0..MaxHits
    BY <1>7, LimitsAssumption DEF LimitInv, LimitsTypeOK
  <2> QED BY <2>1, <1>1, <1>7, <1>8 DEF LimitInv, LimitsTypeOK, LimitRequest
<1> QED BY <1>5, <1>6, <1>7, <1>8, <1>9, QuietStep

LEMMA EndsStep ==
  ASSUME LimitInv, NEW r \in Requests, NoQuota(r) \/ Ends(r)
  PROVE  LimitInv'
<1>1. /\ limitReq' = [limitReq EXCEPT ![r] = NoRequest]
      /\ UNCHANGED <<time, redis, memory, limiter, retryAt, tracker, hits, admitted>>
  BY DEF NoQuota, Ends
<1>2. NoRequest.pc = "idle"
  BY DEF NoRequest
<1>3. \A kind \in Kinds : NoRequest.bucket[kind] <= Bucket(kind)
  BY NoRequestBuckets
<1>4. RequestInv' /\ limitReq' \in [Requests -> LimitRequest]
  BY <1>1, <1>2, <1>3, NoRequestType, RequestStep
<1>5. LimitsTypeOK'
  BY <1>1, <1>4 DEF LimitInv, LimitsTypeOK, LimitRequest
<1> QED BY <1>1, <1>2, <1>4, <1>5, NoRequestType, QuietStep

LEMMA EnforceStep ==
  ASSUME LimitInv, NEW r \in Requests, EnforceQuota(r)
  PROVE  LimitInv'
<1>0. limitReq[r] \in LimitRequest
  BY DEF LimitInv, LimitsTypeOK, LimitRequest
<1>1. PICK s \in [Kinds -> BucketsOf] : s = Stamp(r, {"day", "month"}) /\ \A kind \in Kinds : s[kind] <= Bucket(kind)
  BY StampType
<1>2. PICK new : new = [limitReq[r] EXCEPT !.pc = "day", !.bucket = s]
  OBVIOUS
<1>3. new.pc = "day" /\ new.proc = limitReq[r].proc /\ new.bucket = s
  BY <1>2, <1>0 DEF LimitRequest
<1>4. new \in LimitRequest
  BY <1>2, <1>0 DEF LimitRequest, Steps
<1>5. limitReq[r].proc \in Servers
  BY DEF EnforceQuota, LimitInv, RequestInv
<1>6. limitReq' = [limitReq EXCEPT ![r] = new] /\ UNCHANGED <<time, redis, memory, limiter, retryAt, hits, admitted>>
  BY <1>1, <1>2 DEF EnforceQuota
<1>7. RequestInv' /\ limitReq' \in [Requests -> LimitRequest]
  BY <1>1, <1>3, <1>4, <1>5, <1>6, RequestStep
<1>8. tracker' \in [Servers -> {"untried", "redis", "memory"}]
  <2>1. PICK first \in {"redis", "memory"} :
           tracker' = [tracker EXCEPT ![limitReq[r].proc] = IF @ = "untried" THEN first ELSE @]
    BY DEF EnforceQuota
  <2>2. tracker \in [Servers -> {"untried", "redis", "memory"}]
    BY DEF LimitInv, LimitsTypeOK
  <2> QED BY <2>1, <2>2
<1>9. LimitsTypeOK'
  BY <1>6, <1>7, <1>8 DEF LimitInv, LimitsTypeOK, LimitRequest
<1> QED BY <1>3, <1>4, <1>6, <1>7, <1>9, QuietStep

\* INCR: the hit holds a place if it came in time and is within the limits.
LEMMA IncrStep ==
  ASSUME LimitInv, NEW r \in Requests, NEW kind \in Kinds, Incr(r, kind)
  PROVE  LimitInv'
<1> DEFINE b == limitReq[r].bucket[kind]
           q == limitReq[r]
<1>0. q \in LimitRequest /\ b \in BucketsOf /\ redis[kind][b].n \in Nat /\ redis[kind][b].ttl \in Nat \union {-1}
  BY DEF LimitInv, LimitsTypeOK, LimitRequest
<1>1. PICK n \in Nat : n = redis[kind][b].n + 1
  BY <1>0
<1>2. PICK key : key = [n |-> n, ttl |-> redis[kind][b].ttl]
  OBVIOUS
<1>3. key \in [n : Nat, ttl : Nat \union {-1}] /\ key.n = n /\ key.ttl = redis[kind][b].ttl
  BY <1>0, <1>2
<1>4. PICK over \in BOOLEAN : over = (q.over \/ Over(kind, n))
  <2>1. q.over \in BOOLEAN
    BY <1>0 DEF LimitRequest
  <2> QED BY <2>1, Zenon DEF Over
<1>5. PICK first \in BOOLEAN : first = (n = 1)
  BY Zenon
<1>6. PICK late \in SUBSET Kinds : late = IF b = Bucket(kind) THEN q.late ELSE q.late \union {kind}
  BY <1>0 DEF LimitRequest
<1>7. PICK new : new = [q EXCEPT !.pc = Follows(kind), !.over = over, !.first = first, !.late = late]
  OBVIOUS
<1>8. /\ new.pc = Follows(kind) /\ new.over = over /\ new.late = late /\ new.bucket = q.bucket /\ new.proc = q.proc
      /\ new \in LimitRequest
  <2>1. Follows(kind) \in Steps /\ Follows(kind) # "idle"
    BY DEF Follows, Steps
  <2> QED BY <1>7, <1>0, <2>1 DEF LimitRequest
<1>9. /\ redis' = [redis EXCEPT ![kind] = [@ EXCEPT ![b] = key]]
      /\ limitReq' = [limitReq EXCEPT ![r] = new]
      /\ UNCHANGED <<time, memory, limiter, retryAt, tracker, hits, admitted>> /\ q.pc = kind
  BY <1>1, <1>2, <1>4, <1>5, <1>6, <1>7 DEF Incr
<1> HIDE DEF b, q
<1>10. \A k \in Kinds, c \in BucketsOf : redis'[k][c] = IF k = kind /\ c = b THEN key ELSE redis[k][c]
  BY <1>9, <1>0 DEF LimitInv, LimitsTypeOK
<1>11. RequestInv' /\ limitReq' \in [Requests -> LimitRequest]
  <2>1. q.proc \in Servers /\ \A k \in Kinds : q.bucket[k] <= Bucket(k)
    BY <1>9 DEF LimitInv, RequestInv, q, Kinds
  <2> QED BY <2>1, <1>8, <1>9, RequestStep
<1>12. LimitsTypeOK'
  <2>1. redis' \in [Kinds -> [BucketsOf -> [n : Nat, ttl : Nat \union {-1}]]]
    BY <1>9, <1>3, <1>0 DEF LimitInv, LimitsTypeOK
  <2> QED BY <1>9, <1>11, <2>1 DEF LimitInv, LimitsTypeOK, LimitRequest
<1>13. ExpiryInv'
  BY <1>10, <1>9, <1>3 DEF LimitInv, ExpiryInv
<1>14. MemoryInv'
  BY <1>9 DEF LimitInv, MemoryInv
<1>15. RedisInv'
  <2>1. ASSUME NEW k \in Kinds, NEW c \in BucketsOf, k # kind \/ c # b \/ ~Holding(new, k, c)
        PROVE  /\ admitted'["redis"][k][c] = admitted["redis"][k][c] /\ redis'[k][c].n >= redis[k][c].n
               /\ Holding(new, k, c) => Holding(limitReq[r], k, c)
    <3>1. redis[k][c].n \in Nat /\ redis'[k][c].n >= redis[k][c].n
      BY <1>10, <1>3, <1>1, <1>0 DEF LimitInv, LimitsTypeOK
    <3>2. ASSUME Holding(new, k, c) PROVE Holding(q, k, c)
      <4>1. k # kind \/ c # b
        BY <2>1, <3>2
      <4>2. ~over /\ k \notin late /\ q.bucket[k] = c
        BY <3>2, <1>8 DEF Holding
      <4>3. ~q.over /\ k \notin q.late
        BY <4>2, <1>4, <1>6
      <4>4. k # kind
        BY <4>1, <4>2 DEF b, q
      <4>5. k = "day" /\ kind = "month"
        BY <4>4, <3>2, <1>8 DEF Holding, Follows, Kinds
      <4> QED BY <4>2, <4>3, <4>5, <1>9 DEF Holding
    <3> QED BY <3>1, <3>2, <1>9 DEF q
  <2>2. ASSUME Holding(new, kind, b)
        PROVE  /\ admitted'["redis"][kind][b] = admitted["redis"][kind][b] /\ redis'[kind][b].n = redis[kind][b].n + 1
               /\ ~Holding(limitReq[r], kind, b) /\ Holding(new, kind, b)
               /\ b = Bucket(kind) /\ ~Over(kind, redis'[kind][b].n)
    <3>1. ~over /\ kind \notin late
      BY <2>2, <1>8 DEF Holding
    <3>2. b = Bucket(kind) /\ ~Over(kind, n)
      BY <3>1, <1>4, <1>6
    <3>3. redis'[kind][b].n = n
      BY <1>10, <1>0, <1>3
    <3>4. ~Holding(q, kind, b)
      BY <1>9 DEF Holding, Kinds
    <3> QED BY <2>2, <3>2, <3>3, <3>4, <1>1, <1>9 DEF q
  <2>3. ASSUME NEW k \in Kinds, NEW c \in BucketsOf
        PROVE  \/ /\ admitted'["redis"][k][c] = admitted["redis"][k][c] /\ redis'[k][c].n >= redis[k][c].n
                  /\ Holding(new, k, c) => Holding(limitReq[r], k, c)
               \/ /\ admitted'["redis"][k][c] = admitted["redis"][k][c] /\ redis'[k][c].n = redis[k][c].n + 1
                  /\ ~Holding(limitReq[r], k, c) /\ Holding(new, k, c)
                  /\ c = Bucket(k) /\ ~Over(k, redis'[k][c].n)
    <3>1. CASE k = kind /\ c = b /\ Holding(new, k, c)
      BY <3>1, <2>2
    <3>2. CASE ~(k = kind /\ c = b /\ Holding(new, k, c))
      BY <3>2, <2>1
    <3> QED BY <3>1, <3>2
  <2> QED BY <2>3, <1>9, <1>12, RedisStep
<1> QED BY <1>11, <1>12, <1>13, <1>14, <1>15 DEF LimitInv

\* What an admission adds, and to which counters.
LEMMA AdmittedIs ==
  ASSUME LimitInv, NEW r \in Requests, NEW x \in Backends, NEW kinds \in SUBSET Kinds, Admitted(r, x, kinds)
  PROVE  /\ admitted' \in [Backends -> [Kinds -> [BucketsOf -> Nat]]]
         /\ \A y \in Backends, k \in Kinds, b \in BucketsOf :
              admitted'[y][k][b] = IF y = x /\ k \in kinds /\ k \notin limitReq[r].late /\ b = limitReq[r].bucket[k]
                                   THEN admitted[y][k][b] + 1 ELSE admitted[y][k][b]
<1>1. admitted \in [Backends -> [Kinds -> [BucketsOf -> Nat]]]
  BY DEF LimitInv, LimitsTypeOK
<1>2. PICK row : row = [kind \in Kinds |-> [b \in BucketsOf |->
        IF kind \in kinds \ limitReq[r].late /\ b = limitReq[r].bucket[kind]
        THEN admitted[x][kind][b] + 1 ELSE admitted[x][kind][b]]]
  OBVIOUS
<1>3. admitted' = [admitted EXCEPT ![x] = row]
  BY <1>2 DEF Admitted
<1>4. \A k \in Kinds, b \in BucketsOf : admitted[x][k][b] \in Nat
  BY <1>1
<1>5. row \in [Kinds -> [BucketsOf -> Nat]]
  BY <1>2, <1>4
<1>6. \A y \in Backends : admitted'[y] = IF y = x THEN row ELSE admitted[y]
  BY <1>1, <1>3
<1> QED BY <1>1, <1>2, <1>3, <1>5, <1>6

\* The decision: a place becomes an admission or is given up, and the first
\* hit of a bucket sets an expiry after its end.
LEMMA DecideStep ==
  ASSUME LimitInv, NEW r \in Requests, NEW kind \in Kinds, ExpireAndDecide(r, kind)
  PROVE  LimitInv'
<1> DEFINE q == limitReq[r]
           b == q.bucket[kind]
<1>0. q \in LimitRequest /\ b \in BucketsOf /\ redis[kind][b].n \in Nat /\ redis[kind][b].ttl \in Nat \union {-1}
  BY DEF LimitInv, LimitsTypeOK, LimitRequest
<1>1. PICK new : new = IF kind = "month" \/ (kind = "rate" /\ q.over) THEN NoRequest
                       ELSE [q EXCEPT !.pc = IF kind = "rate" THEN "auth" ELSE "month"]
  OBVIOUS
<1>2. /\ limitReq' = [limitReq EXCEPT ![r] = new]
      /\ UNCHANGED <<time, memory, limiter, retryAt, tracker, hits>> /\ q.pc = Follows(kind)
  BY <1>1 DEF ExpireAndDecide
<1>3. \/ new = NoRequest /\ (kind = "month" \/ (kind = "rate" /\ q.over))
      \/ new = [q EXCEPT !.pc = "auth"] /\ kind = "rate" /\ ~q.over
      \/ new = [q EXCEPT !.pc = "month"] /\ kind = "day"
  <2>1. CASE kind = "month" \/ (kind = "rate" /\ q.over)
    BY <1>1, <2>1
  <2>2. CASE kind = "rate" /\ ~q.over
    BY <1>1, <2>2
  <2>3. CASE kind = "day"
    BY <1>1, <2>3
  <2> QED BY <2>1, <2>2, <2>3 DEF Kinds
<1>4. /\ new \in LimitRequest
      /\ new.pc # "idle" => new.proc = q.proc /\ new.bucket = q.bucket /\ new.over = q.over /\ new.late = q.late
      /\ new.pc = IF kind = "month" \/ (kind = "rate" /\ q.over) THEN "idle" ELSE IF kind = "rate" THEN "auth" ELSE "month"
      /\ new.pc = "idle" => new = NoRequest
  <2>1. CASE new = NoRequest /\ (kind = "month" \/ (kind = "rate" /\ q.over))
    BY <2>1, NoRequestType DEF NoRequest
  <2>2. CASE new = [q EXCEPT !.pc = "auth"] /\ kind = "rate" /\ ~q.over
    BY <2>2, <1>0 DEF LimitRequest, Steps
  <2>3. CASE new = [q EXCEPT !.pc = "month"] /\ kind = "day"
    BY <2>3, <1>0 DEF LimitRequest, Steps
  <2> QED BY <1>3, <2>1, <2>2, <2>3
<1>5. q.proc \in Servers /\ \A k \in Kinds : q.bucket[k] <= Bucket(k)
  <2>1. q.pc # "idle"
    BY <1>2 DEF Follows
  <2> QED BY <2>1 DEF LimitInv, RequestInv
<1>6. RequestInv' /\ limitReq' \in [Requests -> LimitRequest]
  <2>1. \A k \in Kinds : new.bucket[k] <= Bucket(k)
    BY <1>4, <1>5, NoRequestBuckets
  <2> QED BY <2>1, <1>2, <1>4, <1>5, RequestStep
<1>7. /\ redis' \in [Kinds -> [BucketsOf -> [n : Nat, ttl : Nat \union {-1}]]]
      /\ \A k \in Kinds, c \in BucketsOf :
            /\ redis'[k][c].n = redis[k][c].n
            /\ redis'[k][c].ttl # redis[k][c].ttl => k = kind /\ c = b /\ redis'[k][c].ttl = Expiry(kind)
  <2>1. CASE redis' = redis
    BY <2>1 DEF LimitInv, LimitsTypeOK
  <2>2. CASE redis' = [redis EXCEPT ![kind] = [@ EXCEPT ![b] = [n |-> redis[kind][b].n, ttl |-> Expiry(kind)]]]
    <3>1. Expiry(kind) \in Nat
      BY LimitsAssumption DEF Expiry
    <3>2. PICK key : key = [n |-> redis[kind][b].n, ttl |-> Expiry(kind)]
      OBVIOUS
    <3>3. key \in [n : Nat, ttl : Nat \union {-1}] /\ key.n = redis[kind][b].n /\ key.ttl = Expiry(kind)
      BY <3>1, <3>2, <1>0
    <3>4. redis' = [redis EXCEPT ![kind] = [@ EXCEPT ![b] = key]]
      BY <2>2, <3>2
    <3>5. redis \in [Kinds -> [BucketsOf -> [n : Nat, ttl : Nat \union {-1}]]]
      BY DEF LimitInv, LimitsTypeOK
    <3>6. redis' \in [Kinds -> [BucketsOf -> [n : Nat, ttl : Nat \union {-1}]]]
      BY <3>3, <3>4, <3>5, <1>0
    <3>7. \A k \in Kinds, c \in BucketsOf : redis'[k][c] = IF k = kind /\ c = b THEN key ELSE redis[k][c]
      BY <3>4, <3>5, <1>0
    <3> QED BY <3>3, <3>6, <3>7
  <2> QED BY <2>1, <2>2 DEF ExpireAndDecide
<1>8. /\ admitted' \in [Backends -> [Kinds -> [BucketsOf -> Nat]]]
      /\ \A p \in Servers : admitted'[p] = admitted[p]
      /\ \A k \in Kinds, c \in BucketsOf :
            \/ admitted'["redis"][k][c] = admitted["redis"][k][c]
            \/ /\ admitted'["redis"][k][c] = admitted["redis"][k][c] + 1
               /\ ~q.over /\ k \notin q.late /\ c = q.bucket[k]
               /\ (kind = "rate" /\ k = "rate") \/ (kind = "month" /\ k \in {"day", "month"})
  <2>1. CASE UNCHANGED admitted
    BY <2>1 DEF LimitInv, LimitsTypeOK
  <2>2. ASSUME NEW kinds \in SUBSET Kinds, ~q.over, Admitted(r, "redis", kinds)
        PROVE  /\ admitted' \in [Backends -> [Kinds -> [BucketsOf -> Nat]]]
               /\ \A p \in Servers : admitted'[p] = admitted[p]
               /\ \A k \in Kinds, c \in BucketsOf :
                    \/ admitted'["redis"][k][c] = admitted["redis"][k][c]
                    \/ /\ admitted'["redis"][k][c] = admitted["redis"][k][c] + 1
                       /\ k \notin q.late /\ c = q.bucket[k] /\ k \in kinds
    <3>1. "redis" \in Backends /\ "redis" \notin Servers /\ Servers \subseteq Backends
      BY LimitsAssumption DEF Backends
    <3>2. /\ admitted' \in [Backends -> [Kinds -> [BucketsOf -> Nat]]]
          /\ \A y \in Backends, k \in Kinds, c \in BucketsOf :
               admitted'[y][k][c] = IF y = "redis" /\ k \in kinds /\ k \notin limitReq[r].late /\ c = limitReq[r].bucket[k]
                                    THEN admitted[y][k][c] + 1 ELSE admitted[y][k][c]
      BY <3>1, <2>2, AdmittedIs
    <3>3. \A p \in Servers : admitted'[p] = admitted[p]
      BY <3>1, <2>2 DEF Admitted, LimitInv, LimitsTypeOK
    <3> QED BY <3>1, <3>2, <3>3
  <2>3. CASE ~q.over /\ kind = "rate" /\ Admitted(r, "redis", {"rate"})
    <3>1. {"rate"} \in SUBSET Kinds
      BY DEF Kinds
    <3> QED BY <3>1, <2>3, <2>2
  <2>4. CASE ~q.over /\ kind = "month" /\ Admitted(r, "redis", {"day", "month"})
    <3>1. {"day", "month"} \in SUBSET Kinds
      BY DEF Kinds
    <3> QED BY <3>1, <2>4, <2>2
  <2>5. \/ UNCHANGED admitted
        \/ ~q.over /\ kind = "rate" /\ Admitted(r, "redis", {"rate"})
        \/ ~q.over /\ kind = "month" /\ Admitted(r, "redis", {"day", "month"})
    <3>0. IF q.over \/ kind = "day" THEN UNCHANGED admitted
          ELSE Admitted(r, "redis", IF kind = "rate" THEN {"rate"} ELSE {"day", "month"})
      BY DEF ExpireAndDecide
    <3>1. CASE q.over \/ kind = "day"
      BY <3>0, <3>1
    <3>2. CASE ~q.over /\ kind = "rate"
      BY <3>0, <3>2
    <3>3. CASE ~q.over /\ kind = "month"
      BY <3>0, <3>3
    <3> QED BY <3>1, <3>2, <3>3 DEF Kinds
  <2> QED BY <2>1, <2>3, <2>4, <2>5
<1>9. LimitsTypeOK'
  BY <1>2, <1>6, <1>7, <1>8 DEF LimitInv, LimitsTypeOK, LimitRequest
<1>10. ExpiryInv'
  <2> SUFFICES ASSUME NEW k \in Kinds, NEW c \in BucketsOf, redis'[k][c].ttl # -1
               PROVE  redis'[k][c].ttl > 0 /\ (time + redis'[k][c].ttl) \div Length[k] > c
    BY <1>2 DEF ExpiryInv
  <2>1. CASE redis'[k][c].ttl = redis[k][c].ttl
    BY <2>1 DEF LimitInv, ExpiryInv
  <2>2. CASE redis'[k][c].ttl # redis[k][c].ttl
    <3>1. k = kind /\ c = b /\ redis'[k][c].ttl = Expiry(kind)
      BY <2>2, <1>7
    <3>2. time \in Nat /\ Length[kind] \in Nat \ {0} /\ Extra[kind] \in Nat /\ Expiry(kind) = Length[kind] + Extra[kind]
      BY LimitsAssumption DEF LimitInv, LimitsTypeOK, Expiry
    <3>3. /\ time + Expiry(kind) \in Nat /\ time + Length[kind] <= time + Expiry(kind) /\ Expiry(kind) > 0
      BY <3>2
    <3>4. time \div Length[kind] < (time + Expiry(kind)) \div Length[kind]
      BY <3>2, <3>3, DivShift
    <3>5. time \div Length[kind] \in Int /\ (time + Expiry(kind)) \div Length[kind] \in Int
      BY <3>2, <3>3, DivRange
    <3>6. b <= time \div Length[kind] /\ b \in Int
      BY <1>5, <1>0 DEF Bucket, BucketsOf
    <3>7. (time + Expiry(kind)) \div Length[kind] > b
      BY <3>4, <3>5, <3>6
    <3> QED BY <3>1, <3>3, <3>7
  <2> QED BY <2>1, <2>2
<1>11. MemoryInv'
  BY <1>2, <1>8 DEF LimitInv, MemoryInv
<1>12. RedisInv'
  <2>1. ASSUME NEW k \in Kinds, NEW c \in BucketsOf
        PROVE  \/ /\ admitted'["redis"][k][c] = admitted["redis"][k][c] /\ redis'[k][c].n >= redis[k][c].n
                  /\ Holding(new, k, c) => Holding(limitReq[r], k, c)
               \/ /\ admitted'["redis"][k][c] = admitted["redis"][k][c] + 1 /\ redis'[k][c].n >= redis[k][c].n
                  /\ Holding(limitReq[r], k, c) /\ ~Holding(new, k, c)
    <3>1. redis'[k][c].n >= redis[k][c].n
      BY <1>7 DEF LimitInv, LimitsTypeOK
    <3>2. ASSUME Holding(new, k, c) PROVE k = "day" /\ kind = "day" /\ Holding(q, k, c)
      BY <3>2, <1>2, <1>4 DEF Holding, Follows, Kinds
    <3>3. CASE admitted'["redis"][k][c] = admitted["redis"][k][c]
      BY <3>1, <3>2, <3>3
    <3>4. CASE /\ admitted'["redis"][k][c] = admitted["redis"][k][c] + 1
               /\ ~q.over /\ k \notin q.late /\ c = q.bucket[k]
               /\ (kind = "rate" /\ k = "rate") \/ (kind = "month" /\ k \in {"day", "month"})
      <4>1. Holding(q, k, c)
        BY <3>4, <1>2 DEF Holding, Follows
      <4>2. ~Holding(new, k, c)
        BY <3>2, <3>4
      <4> QED BY <3>1, <3>4, <4>1, <4>2
    <3> QED BY <3>3, <3>4, <1>8
  <2>2. limitReq' = [limitReq EXCEPT ![r] = new] /\ time' = time
    BY <1>2
  <2> HIDE DEF q, b
  <2> QED BY <2>1, <2>2, <1>9, RedisStep
<1> QED BY <1>6, <1>9, <1>10, <1>11, <1>12 DEF LimitInv

\* A process counts a hit in its own memory and admits it, for the kinds
\* that are not late, only within their limits.
LEMMA CountedStep ==
  ASSUME LimitInv, NEW r \in Requests, NEW kinds \in SUBSET Kinds, limitReq[r].proc \in Servers,
         memory' = [memory EXCEPT ![limitReq[r].proc] = Counted(r, kinds)],
         \/ UNCHANGED admitted
         \/ Admitted(r, limitReq[r].proc, kinds) /\ \A kind \in kinds : ~Exceeds(r, kind)
  PROVE  /\ MemoryInv' /\ memory' \in [Servers -> [Kinds -> [BucketsOf -> Nat]]]
         /\ admitted' \in [Backends -> [Kinds -> [BucketsOf -> Nat]]] /\ admitted'["redis"] = admitted["redis"]
<1> DEFINE p == limitReq[r].proc
<1>0. /\ p \in Servers /\ p \in Backends /\ "redis" \in Backends /\ Servers \subseteq Backends /\ p # "redis"
      /\ \A q \in Servers, k \in Kinds, b \in BucketsOf : memory[q][k][b] \in Nat /\ admitted[q][k][b] \in Nat
      /\ memory \in [Servers -> [Kinds -> [BucketsOf -> Nat]]]
      /\ admitted \in [Backends -> [Kinds -> [BucketsOf -> Nat]]]
      /\ \A k \in Kinds : Limit[k] \in Nat /\ limitReq[r].bucket[k] \in BucketsOf
  BY LimitsAssumption DEF LimitInv, LimitsTypeOK, Backends
<1>1. PICK row : row = Counted(r, kinds)
  OBVIOUS
<1>2. /\ row \in [Kinds -> [BucketsOf -> Nat]]
      /\ \A k \in Kinds, b \in BucketsOf :
            row[k][b] = IF k \in kinds /\ b = limitReq[r].bucket[k] THEN memory[p][k][b] + 1 ELSE memory[p][k][b]
  BY <1>0, <1>1 DEF Counted
<1>3. /\ memory' \in [Servers -> [Kinds -> [BucketsOf -> Nat]]]
      /\ \A q \in Servers : memory'[q] = IF q = p THEN row ELSE memory[q]
  BY <1>0, <1>1, <1>2
<1>4. /\ admitted' \in [Backends -> [Kinds -> [BucketsOf -> Nat]]]
      /\ \A q \in Backends, k \in Kinds, b \in BucketsOf :
            \/ admitted'[q][k][b] = admitted[q][k][b]
            \/ /\ q = p /\ k \in kinds /\ b = limitReq[r].bucket[k]
               /\ admitted'[q][k][b] = admitted[q][k][b] + 1 /\ ~Exceeds(r, k)
      /\ admitted'["redis"] = admitted["redis"]
  <2>1. CASE UNCHANGED admitted
    BY <2>1, <1>0
  <2>2. CASE Admitted(r, p, kinds) /\ \A kind \in kinds : ~Exceeds(r, kind)
    <3>1. /\ admitted' \in [Backends -> [Kinds -> [BucketsOf -> Nat]]]
          /\ \A y \in Backends, k \in Kinds, b \in BucketsOf :
              admitted'[y][k][b] = IF y = p /\ k \in kinds /\ k \notin limitReq[r].late /\ b = limitReq[r].bucket[k]
                                   THEN admitted[y][k][b] + 1 ELSE admitted[y][k][b]
      BY <2>2, <1>0, AdmittedIs
    <3>2. admitted'["redis"] = admitted["redis"]
      BY <2>2, <1>0 DEF Admitted
    <3> QED BY <3>1, <3>2, <2>2
  <2> QED BY <2>1, <2>2
<1>5. MemoryInv'
  <2> SUFFICES ASSUME NEW q \in Servers, NEW k \in Kinds, NEW b \in BucketsOf
               PROVE  /\ admitted'[q][k][b] <= memory'[q][k][b]
                      /\ Limit[k] # 0 => admitted'[q][k][b] <= Limit[k]
    BY DEF MemoryInv
  <2>1. /\ admitted[q][k][b] <= memory[q][k][b] /\ (Limit[k] # 0 => admitted[q][k][b] <= Limit[k])
        /\ memory[q][k][b] \in Nat /\ admitted[q][k][b] \in Nat /\ Limit[k] \in Nat
    BY <1>0 DEF LimitInv, MemoryInv
  <2>2. memory'[q][k][b] \in {memory[q][k][b], memory[q][k][b] + 1}
    BY <1>2, <1>3
  <2>3. CASE admitted'[q][k][b] = admitted[q][k][b]
    BY <2>1, <2>2, <2>3
  <2>4. CASE /\ q = p /\ k \in kinds /\ b = limitReq[r].bucket[k]
             /\ admitted'[q][k][b] = admitted[q][k][b] + 1 /\ ~Exceeds(r, k)
    <3>1. memory'[q][k][b] = memory[q][k][b] + 1
      BY <2>4, <1>2, <1>3
    <3>2. ~Over(k, memory[q][k][b] + 1)
      BY <2>4 DEF Exceeds
    <3>3. Limit[k] # 0 => memory[q][k][b] + 1 <= Limit[k]
      BY <3>2, <2>1 DEF Over
    <3>4. admitted'[q][k][b] = admitted[q][k][b] + 1
      BY <2>4
    <3> QED BY <3>1, <3>3, <3>4, <2>1
  <2>5. q \in Backends
    BY <1>0
  <2> QED BY <2>3, <2>4, <2>5, <1>4
<1> QED BY <1>3, <1>4, <1>5

\* The two calls that count in memory.
LEMMA MemoryStep ==
  ASSUME LimitInv, NEW r \in Requests, CountRateInMemory(r) \/ CountQuotaInMemory(r)
  PROVE  LimitInv'
<1> DEFINE q == limitReq[r]
<1>0. q \in LimitRequest /\ q.pc \in {"rate", "day"}
  BY DEF LimitInv, LimitsTypeOK, LimitRequest, CountRateInMemory, CountQuotaInMemory
<1>1. q.proc \in Servers /\ \A k \in Kinds : q.bucket[k] <= Bucket(k)
  BY <1>0 DEF LimitInv, RequestInv
<1>2. UNCHANGED <<time, redis, limiter, retryAt, tracker, hits>>
  BY DEF CountRateInMemory, CountQuotaInMemory
<1>3. PICK new \in LimitRequest :
        /\ limitReq' = [limitReq EXCEPT ![r] = new] /\ new.pc \in {"idle", "auth"}
        /\ new.pc # "idle" => new.proc \in Servers
        /\ \A k \in Kinds : new.bucket[k] <= Bucket(k)
  <2>1. CASE limitReq' = [limitReq EXCEPT ![r] = NoRequest]
    <3>1. NoRequest.pc = "idle"
      BY DEF NoRequest
    <3> QED BY <2>1, <3>1, NoRequestType, NoRequestBuckets
  <2>2. CASE limitReq' = [limitReq EXCEPT ![r] = [@ EXCEPT !.pc = "auth"]]
    <3>1. PICK x : x = [q EXCEPT !.pc = "auth"]
      OBVIOUS
    <3>2. x \in LimitRequest /\ x.pc = "auth" /\ x.proc = q.proc /\ x.bucket = q.bucket
      BY <3>1, <1>0 DEF LimitRequest, Steps
    <3>3. limitReq' = [limitReq EXCEPT ![r] = x]
      BY <2>2, <3>1
    <3> QED BY <3>2, <3>3, <1>1
  <2> QED BY <2>1, <2>2 DEF CountRateInMemory, CountQuotaInMemory
<1>4. /\ MemoryInv' /\ memory' \in [Servers -> [Kinds -> [BucketsOf -> Nat]]]
      /\ admitted' \in [Backends -> [Kinds -> [BucketsOf -> Nat]]] /\ admitted'["redis"] = admitted["redis"]
  <2>1. CASE CountRateInMemory(r)
    <3>1. {"rate"} \in SUBSET Kinds
      BY DEF Kinds
    <3>2. memory' = [memory EXCEPT ![limitReq[r].proc] = Counted(r, {"rate"})]
      BY <2>1 DEF CountRateInMemory
    <3>3. UNCHANGED admitted \/ (Admitted(r, limitReq[r].proc, {"rate"}) /\ \A kind \in {"rate"} : ~Exceeds(r, kind))
      BY <2>1 DEF CountRateInMemory
    <3> QED BY <3>1, <3>2, <3>3, <1>1, CountedStep
  <2>2. CASE CountQuotaInMemory(r)
    <3>1. {"day", "month"} \in SUBSET Kinds
      BY DEF Kinds
    <3>2. memory' = [memory EXCEPT ![limitReq[r].proc] = Counted(r, {"day", "month"})]
      BY <2>2 DEF CountQuotaInMemory
    <3>3. UNCHANGED admitted \/ (Admitted(r, limitReq[r].proc, {"day", "month"}) /\ \A kind \in {"day", "month"} : ~Exceeds(r, kind))
      BY <2>2 DEF CountQuotaInMemory
    <3> QED BY <3>1, <3>2, <3>3, <1>1, CountedStep
  <2> QED BY <2>1, <2>2
<1>5. RequestInv' /\ limitReq' \in [Requests -> LimitRequest]
  BY <1>2, <1>3, RequestStep
<1>6. LimitsTypeOK'
  BY <1>2, <1>4, <1>5 DEF LimitInv, LimitsTypeOK, LimitRequest
<1>7. ExpiryInv'
  BY <1>2 DEF LimitInv, ExpiryInv
<1>8. RedisInv'
  <2>1. \A k \in Kinds, c \in BucketsOf :
            /\ admitted'["redis"][k][c] = admitted["redis"][k][c] /\ redis'[k][c].n >= redis[k][c].n
            /\ Holding(new, k, c) => Holding(limitReq[r], k, c)
    <3>1. \A k, c : ~Holding(new, k, c)
      BY <1>3 DEF Holding
    <3>2. \A k \in Kinds, c \in BucketsOf : redis[k][c].n \in Nat
      BY DEF LimitInv, LimitsTypeOK
    <3> QED BY <3>1, <3>2, <1>2, <1>4
  <2>2. limitReq' = [limitReq EXCEPT ![r] = new] /\ time' = time
    BY <1>2, <1>3
  <2> HIDE DEF q
  <2> QED BY <2>1, <2>2, <1>6, RedisKept
<1> QED BY <1>4, <1>5, <1>6, <1>7, <1>8 DEF LimitInv

\* Time passes: a key that goes is of a bucket that has ended.
LEMMA WindowStep ==
  ASSUME LimitInv, WindowTick
  PROVE  LimitInv'
<1>1. /\ time' = time + 1 /\ time \in Nat /\ time' \in 0..MaxTime /\ time' \in Nat
      /\ UNCHANGED <<memory, limiter, retryAt, tracker, limitReq, hits, admitted>>
  BY LimitsAssumption DEF WindowTick, LimitInv, LimitsTypeOK
<1>2. ASSUME NEW k \in Kinds
      PROVE  /\ Length[k] \in Nat \ {0} /\ Bucket(k) \in Nat /\ Bucket(k)' \in Nat
             /\ Bucket(k) <= Bucket(k)' /\ Bucket(k)' = (time + 1) \div Length[k]
  <2>1. Length[k] \in Nat \ {0}
    BY LimitsAssumption
  <2>2. time \div Length[k] \in Nat /\ (time + 1) \div Length[k] \in Nat
    BY <2>1, <1>1, DivRange
  <2>3. time \div Length[k] <= (time + 1) \div Length[k]
    BY <2>1, <1>1, DivMonotone
  <2> QED BY <2>1, <2>2, <2>3, <1>1 DEF Bucket
<1>3. ASSUME NEW k \in Kinds, NEW b \in BucketsOf
      PROVE  /\ redis'[k][b] \in [n : Nat, ttl : Nat \union {-1}]
             /\ redis'[k][b].ttl # -1 =>
                   redis'[k][b].ttl > 0 /\ time' + redis'[k][b].ttl = time + redis[k][b].ttl /\ redis[k][b].ttl # -1
             /\ redis'[k][b].n = redis[k][b].n \/ (time + 1) \div Length[k] > b
  <2>1. redis[k][b] \in [n : Nat, ttl : Nat \union {-1}]
    BY DEF LimitInv, LimitsTypeOK
  <2>2. redis'[k][b] = IF redis[k][b].ttl = -1 THEN redis[k][b]
                       ELSE IF redis[k][b].ttl <= 1 THEN NoKey
                       ELSE [redis[k][b] EXCEPT !.ttl = redis[k][b].ttl - 1]
    BY DEF WindowTick
  <2>3. CASE redis[k][b].ttl = -1
    BY <2>1, <2>2, <2>3
  <2>4. CASE redis[k][b].ttl # -1 /\ redis[k][b].ttl <= 1
    <3>1. redis[k][b].ttl = 1 /\ (time + redis[k][b].ttl) \div Length[k] > b
      BY <2>1, <2>4 DEF LimitInv, ExpiryInv
    <3>2. redis'[k][b] = NoKey
      BY <2>2, <2>4
    <3> QED BY <3>1, <3>2 DEF NoKey
  <2>5. CASE redis[k][b].ttl # -1 /\ ~(redis[k][b].ttl <= 1)
    <3>1. PICK x : x = [redis[k][b] EXCEPT !.ttl = redis[k][b].ttl - 1]
      OBVIOUS
    <3>2. /\ x \in [n : Nat, ttl : Nat \union {-1}] /\ x.n = redis[k][b].n /\ x.ttl = redis[k][b].ttl - 1
          /\ redis[k][b].ttl \in Nat /\ redis[k][b].ttl > 1
      BY <3>1, <2>1, <2>5
    <3>3. redis'[k][b] = x
      BY <2>2, <2>5, <3>1
    <3> QED BY <3>2, <3>3, <1>1
  <2> QED BY <2>3, <2>4, <2>5
<1>4. LimitsTypeOK'
  <2>1. redis' \in [Kinds -> [BucketsOf -> [n : Nat, ttl : Nat \union {-1}]]]
    <3>1. redis' = [k \in Kinds |-> [b \in BucketsOf |-> redis'[k][b]]]
      BY DEF WindowTick
    <3> QED BY <3>1, <1>3
  <2> QED BY <1>1, <2>1 DEF LimitInv, LimitsTypeOK
<1>5. RedisInv'
  <2> SUFFICES ASSUME NEW k \in Kinds, NEW b \in BucketsOf
               PROVE  /\ Limit[k] # 0 => Taken(k, b)' <= Limit[k]
                      /\ b = Bucket(k)' => Taken(k, b)' <= redis'[k][b].n
                      /\ b > Bucket(k)' => Taken(k, b)' = 0
    BY DEF RedisInv
  <2>1. Taken(k, b)' = Taken(k, b)
    BY <1>1 DEF Taken, Pend, Holding
  <2>2. /\ Limit[k] # 0 => Taken(k, b) <= Limit[k]
        /\ b = Bucket(k) => Taken(k, b) <= redis[k][b].n
        /\ b > Bucket(k) => Taken(k, b) = 0
    BY DEF LimitInv, RedisInv
  <2>3. b \in Nat
    BY LimitsAssumption DEF BucketsOf
  <2>4. ASSUME b = Bucket(k)' PROVE Taken(k, b) <= redis'[k][b].n
    <3>1. redis'[k][b].n = redis[k][b].n /\ redis'[k][b].n \in Nat
      BY <2>4, <2>3, <1>2, <1>3
    <3>2. CASE b = Bucket(k)
      BY <3>1, <3>2, <2>2
    <3>3. CASE b > Bucket(k)
      BY <3>1, <3>3, <2>2
    <3> QED BY <3>2, <3>3, <2>4, <2>3, <1>2
  <2>5. ASSUME b > Bucket(k)' PROVE Taken(k, b) = 0
    BY <2>5, <2>2, <2>3, <1>2
  <2> QED BY <2>1, <2>2, <2>4, <2>5
<1>6. ExpiryInv'
  BY <1>3 DEF LimitInv, ExpiryInv
<1>7. MemoryInv'
  BY <1>1 DEF LimitInv, MemoryInv
<1>8. RequestInv'
  <2> SUFFICES ASSUME NEW r \in Requests
               PROVE  /\ limitReq[r].pc # "idle" => limitReq[r].proc \in Servers
                      /\ \A k \in Kinds : limitReq[r].bucket[k] <= Bucket(k)'
    BY <1>1 DEF RequestInv
  <2>1. \A k \in Kinds : limitReq[r].bucket[k] \in Nat
    BY LimitsAssumption DEF LimitInv, LimitsTypeOK, BucketsOf
  <2> QED BY <2>1, <1>2 DEF LimitInv, RequestInv
<1> QED BY <1>4, <1>5, <1>6, <1>7, <1>8 DEF LimitInv

LEMMA LimitStep == LimitInv /\ [LNext]_lmVars => LimitInv'
<1> SUFFICES ASSUME LimitInv, [LNext]_lmVars PROVE LimitInv' OBVIOUS
<1>1. CASE \E r \in Requests, p \in Servers, reached \in BOOLEAN : Arrive(r, p, reached)
  BY <1>1, ArriveStep
<1>2. CASE \E r \in Requests, kind \in Kinds : Incr(r, kind)
  BY <1>2, IncrStep
<1>3. CASE \E r \in Requests, kind \in Kinds : ExpireAndDecide(r, kind)
  BY <1>3, DecideStep
<1>4. CASE \E r \in Requests : NoQuota(r) \/ Ends(r)
  BY <1>4, EndsStep
<1>5. CASE \E r \in Requests : EnforceQuota(r)
  BY <1>5, EnforceStep
<1>6. CASE \E r \in Requests : CountRateInMemory(r) \/ CountQuotaInMemory(r)
  BY <1>6, MemoryStep
<1>7. CASE WindowTick
  BY <1>7, WindowStep
<1>8. CASE UNCHANGED lmVars
  <2>1. \A kind, b : Taken(kind, b)' = Taken(kind, b)
    BY <1>8 DEF lmVars, Taken, Pend, Holding
  <2>2. RedisInv'
    BY <1>8, <2>1 DEF lmVars, LimitInv, RedisInv, Bucket
  <2>3. LimitsTypeOK'
    BY <1>8 DEF lmVars, LimitInv, LimitsTypeOK
  <2>4. ExpiryInv' /\ MemoryInv' /\ RequestInv'
    BY <1>8 DEF lmVars, LimitInv, ExpiryInv, MemoryInv, RequestInv, Bucket
  <2> QED BY <2>2, <2>3, <2>4 DEF LimitInv
<1> QED BY <1>1, <1>2, <1>3, <1>4, <1>5, <1>6, <1>7, <1>8 DEF LNext

(* Neither Redis nor a process that counts in its own memory lets through  *)
(* more than the limit of a bucket, for any lengths, limits and expiries:   *)
(* INCR and EXPIRE of several requests interleave, requests die between     *)
(* them, keys expire, and Redis goes away and comes back (rate_limit.py,    *)
(* quota.py).                                                               *)
THEOREM LimitsAreKept == LSpec => []LimitsHold
<1>1. LimitInv => LimitsHold
  <2> SUFFICES ASSUME LimitInv PROVE WithinLimit
    BY DEF LimitInv, LimitsHold
  <2> SUFFICES ASSUME NEW x \in Backends, NEW k \in Kinds, NEW b \in BucketsOf, Limit[k] # 0
               PROVE  admitted[x][k][b] <= Limit[k]
    BY DEF WithinLimit
  <2>1. CASE x \in Servers
    BY <2>1 DEF LimitInv, MemoryInv
  <2>2. CASE x = "redis"
    <3>1. Cardinality(Pend(k, b)) \in Nat
      BY PendType
    <3>2. admitted["redis"][k][b] \in Nat /\ Limit[k] \in Nat
      BY LimitsAssumption DEF LimitInv, LimitsTypeOK, Backends
    <3>3. Taken(k, b) <= Limit[k]
      BY DEF LimitInv, RedisInv
    <3> QED BY <3>1, <3>2, <3>3, <2>2 DEF Taken
  <2> QED BY <2>1, <2>2 DEF Backends
<1> QED BY <1>1, LimitInit, LimitStep, PTL DEF LSpec
-----------------------------------------------------------------------------
(* The runtime configuration and its copies (ConfigCache). *)

EditRow == [pc : {"new", "begun", "merged", "flushed", "done"}, route : {"update", "modify"}, proc : Procs \union {None},
            names : SUBSET Fields, whole : Rows, value : Rows, insert : BOOLEAN]
ReadRows == [pc : {"idle", "asked", "read"}, proc : Procs \union {None}, row : Rows, age : 0..ConfigTTL, excused : BOOLEAN]

\* An edit that has merged will write its own fields and, of the others, what
\* is due; one that took the value before will pass on what is due.
EditOK(x, e) ==
    /\ x.pc \in {"begun", "merged", "flushed"} => x.proc \in Procs
    /\ x.pc \in {"merged", "flushed"} =>
          /\ \A f \in x.names : f \in DOMAIN x.value /\ x.value[f] = e
          /\ \A f \in DOMAIN due : f \notin x.names /\ due[f] \notin overlapped => f \in DOMAIN x.value /\ x.value[f] = due[f]
    /\ x.pc = "begun" => \A f \in DOMAIN due : f \in DOMAIN x.whole /\ due[f] \notin overlapped => x.whole[f] = due[f]
EditInv == \A e \in Edits : EditOK(edit[e], e) /\ (edit[e].pc = "flushed" <=> held = e)

\* The row is stored, or is what a request has flushed and read back, or was
\* replaced or rolled back no longer than age ago.
WasStored(row, age) ==
    \/ row = stored
    \/ held # None /\ edit[held].route = "modify" /\ row = edit[held].value
    \/ \E x \in past : x.row = row /\ x.age <= age
CopyInv ==
    /\ \A p \in Procs : Fresh(p) => WasStored(cache[p].row, cache[p].age)
    /\ \A r \in Readers :
          /\ reader[r].pc # "idle" => reader[r].proc \in Procs
          /\ reader[r].pc = "read" /\ reader[r].age < ConfigTTL => WasStored(reader[r].row, reader[r].age)

\* What nobody excuses is the stored row, and no edit has flushed since.
ReachInv ==
    /\ \A p \in Procs \ inbox : cache[p] # None /\ ~cache[p].excused => cache[p].row = stored /\ held = None
    /\ \A r \in Readers : reader[r].pc = "read" /\ ~reader[r].excused => reader[r].row = stored /\ held = None

ConfigInv == CacheTypeOK /\ EditInv /\ CopyInv /\ ReachInv /\ EditsKept

LEMMA RowsAre == \A row : row \in Rows <=> \E D \in SUBSET Fields : row \in [D -> Edits]
  BY DEF Rows

LEMMA NoRowType == NoRow \in Rows /\ DOMAIN NoRow = {}
<1>1. NoRow \in [{} -> Edits] /\ {} \in SUBSET Fields
  BY DEF NoRow
<1> QED BY <1>1, RowsAre DEF NoRow

LEMMA OwnFieldsType == ASSUME NEW names \in SUBSET Fields, NEW e \in Edits
                       PROVE  [f \in names |-> e] \in Rows
<1>1. [f \in names |-> e] \in [names -> Edits]
  OBVIOUS
<1> QED BY <1>1, RowsAre

LEMMA PatchType == \A new, old \in Rows : Patch(new, old) \in Rows /\ DOMAIN Patch(new, old) = DOMAIN new \union DOMAIN old
<1> TAKE new, old \in Rows
<1>1. PICK D \in SUBSET Fields : new \in [D -> Edits]
  BY RowsAre
<1>2. PICK E \in SUBSET Fields : old \in [E -> Edits]
  BY RowsAre
<1>3. DOMAIN new = D /\ DOMAIN old = E /\ (D \union E) \in SUBSET Fields
  BY <1>1, <1>2
<1>4. Patch(new, old) \in [D \union E -> Edits]
  BY <1>1, <1>2, <1>3 DEF Patch
<1> QED BY <1>3, <1>4, RowsAre

LEMMA PatchNew == \A new, old, f : f \in DOMAIN new => Patch(new, old)[f] = new[f]
  BY DEF Patch

LEMMA PatchOld == \A new, old, f : f \in DOMAIN old /\ f \notin DOMAIN new => Patch(new, old)[f] = old[f]
  BY DEF Patch

LEMMA EditTypes == NewEdit \in EditRow /\ EditOver \in EditRow /\ NewEdit.pc = "new" /\ EditOver.pc = "done"
  BY NoRowType DEF NewEdit, EditOver, EditRow

LEMMA NoReaderType == NoReader \in ReadRows /\ NoReader.pc = "idle"
<1>1. 0 \in 0..ConfigTTL
  BY ConfigAssumption
<1> QED BY <1>1, NoRowType DEF NoReader, ReadRows

LEMMA ConfigInit == CInit => ConfigInv
<1> SUFFICES ASSUME CInit PROVE ConfigInv OBVIOUS
<1>1. CacheTypeOK
  BY NoRowType, EditTypes, NoReaderType DEF CInit, CacheTypeOK, EditRow, ReadRows
<1>2. EditInv
  <2>1. \A e \in Edits : edit[e] = NewEdit /\ held # e
    BY ConfigAssumption DEF CInit
  <2> QED BY <2>1, EditTypes DEF EditInv, EditOK
<1>3. CopyInv
  BY NoReaderType DEF CopyInv, CInit, Fresh
<1>4. ReachInv
  BY NoReaderType DEF ReachInv, CInit
<1>5. EditsKept
  BY NoRowType DEF EditsKept, CInit
<1> QED BY <1>1, <1>2, <1>3, <1>4, <1>5 DEF ConfigInv

\* An edit moves on before its flush, or ends before it.
LEMMA EditMoves ==
  ASSUME ConfigInv, NEW e \in Edits, NEW new \in EditRow, edit' = [edit EXCEPT ![e] = new],
         UNCHANGED <<stored, held, cache, reader, inbox, past, due, overlapped>>,
         edit[e].pc # "flushed", new.pc # "flushed", EditOK(new, e)
  PROVE  ConfigInv'
<1>0. edit \in [Edits -> EditRow] /\ None \notin Edits
  BY ConfigAssumption DEF ConfigInv, CacheTypeOK, EditRow
<1>1. \A d \in Edits : edit'[d] = IF d = e THEN new ELSE edit[d]
  BY <1>0
<1>2. CacheTypeOK'
  <2>1. edit' \in [Edits -> EditRow]
    BY <1>0
  <2> QED BY <2>1 DEF ConfigInv, CacheTypeOK, EditRow
<1>3. held # e /\ (held # None => edit'[held] = edit[held])
  BY <1>0, <1>1 DEF ConfigInv, EditInv, CacheTypeOK
<1>4. EditInv'
  <2> SUFFICES ASSUME NEW d \in Edits PROVE EditOK(edit[d], d)' /\ (edit'[d].pc = "flushed" <=> held = d)
    BY DEF EditInv
  <2>1. EditOK(edit'[d], d) /\ (edit'[d].pc = "flushed" <=> held = d)
    BY <1>1, <1>3 DEF ConfigInv, EditInv
  <2> QED BY <2>1 DEF EditOK
<1>5. CopyInv'
  <2>1. \A row, age : WasStored(row, age) => WasStored(row, age)'
    BY <1>3 DEF WasStored
  <2>2. \A p \in Procs : Fresh(p)' = Fresh(p)
    BY DEF Fresh
  <2>3. UNCHANGED <<cache, reader>>
    OBVIOUS
  <2>4. (\A p \in Procs : Fresh(p) => WasStored(cache[p].row, cache[p].age))'
    BY <2>1, <2>2, <2>3 DEF ConfigInv, CopyInv
  <2>5. (\A r \in Readers :
            /\ reader[r].pc # "idle" => reader[r].proc \in Procs
            /\ reader[r].pc = "read" /\ reader[r].age < ConfigTTL => WasStored(reader[r].row, reader[r].age))'
    BY <2>1, <2>3 DEF ConfigInv, CopyInv
  <2> QED BY <2>4, <2>5 DEF CopyInv
<1>6. ReachInv' /\ EditsKept'
  BY DEF ConfigInv, ReachInv, EditsKept
<1> QED BY <1>2, <1>4, <1>5, <1>6 DEF ConfigInv

LEMMA BeginStep ==
  ASSUME ConfigInv, NEW e \in Edits, NEW p \in Procs, NEW route \in {"update", "modify"}, NEW names \in SUBSET Fields,
         NEW whole, whole = NoRow \/ whole = stored, EditBegins(e, p, route, names, whole)
  PROVE  ConfigInv'
<1>1. PICK new : new = [NewEdit EXCEPT !.pc = "begun", !.route = route, !.proc = p, !.names = names, !.whole = whole]
  OBVIOUS
<1>2. whole \in Rows
  BY NoRowType DEF ConfigInv, CacheTypeOK
<1>3. new \in EditRow /\ new.pc = "begun" /\ new.proc = p /\ new.whole = whole
  BY <1>1, <1>2, NoRowType DEF NewEdit, EditRow
<1>4. EditOK(new, e)
  <2>1. \A f \in DOMAIN due : f \in DOMAIN whole /\ due[f] \notin overlapped => whole[f] = due[f]
    BY NoRowType DEF ConfigInv, EditsKept
  <2> QED BY <1>3, <2>1 DEF EditOK
<1>5. /\ edit' = [edit EXCEPT ![e] = new] /\ UNCHANGED <<stored, held, cache, reader, inbox, past, due, overlapped>>
      /\ edit[e].pc # "flushed"
  BY <1>1 DEF EditBegins
<1> QED BY <1>3, <1>4, <1>5, EditMoves

LEMMA BeginsStep ==
  ASSUME ConfigInv, NEW e \in Edits, NEW p \in Procs \ Listeners,
         \/ \E names \in SUBSET Fields \ {{}} :
              UpdateSmtpConfig(e, p, names) \/ UpdateGoogleConfig(e, p, names) \/ UpdateTelegramConfig(e, p, names)
         \/ UpdateMaintenance(e, p) \/ UpdateAdminSecurity(e, p) \/ UpdateRetention(e, p)
         \/ \E f \in Fields :
              \/ UpdateFeatureFlag(e, p, f) \/ RegisterTelegramWebhook(e, p, f) \/ DeleteTelegramWebhook(e, p, f)
              \/ LinkTelegramChat(e, p, f) \/ UnlinkTelegramChat(e, p, f) \/ ConsumeLinkToken(e, p, f)
  PROVE  ConfigInv'
<1>1. PICK names \in SUBSET Fields : EditBegins(e, p, "update", names, NoRow) \/ EditBegins(e, p, "modify", names, stored)
  <2>1. CASE \E names \in SUBSET Fields \ {{}} :
              UpdateSmtpConfig(e, p, names) \/ UpdateGoogleConfig(e, p, names) \/ UpdateTelegramConfig(e, p, names)
    BY <2>1 DEF UpdateSmtpConfig, UpdateGoogleConfig, UpdateTelegramConfig
  <2>2. CASE UpdateMaintenance(e, p) \/ UpdateAdminSecurity(e, p) \/ UpdateRetention(e, p)
    BY <2>2 DEF UpdateMaintenance, UpdateAdminSecurity, UpdateRetention
  <2>3. CASE \E f \in Fields :
              \/ UpdateFeatureFlag(e, p, f) \/ RegisterTelegramWebhook(e, p, f) \/ DeleteTelegramWebhook(e, p, f)
              \/ LinkTelegramChat(e, p, f) \/ UnlinkTelegramChat(e, p, f) \/ ConsumeLinkToken(e, p, f)
    <3>1. PICK f \in Fields : EditBegins(e, p, "modify", {f}, stored)
      BY <2>3 DEF UpdateFeatureFlag, RegisterTelegramWebhook, DeleteTelegramWebhook, LinkTelegramChat,
                  UnlinkTelegramChat, ConsumeLinkToken
    <3> QED BY <3>1
  <2> QED BY <2>1, <2>2, <2>3
<1> QED BY <1>1, BeginStep

\* set_config reads the row and merges.
LEMMA ReadStep ==
  ASSUME ConfigInv, NEW e \in Edits, SetConfigRead(e)
  PROVE  ConfigInv'
<1> DEFINE x == edit[e]
           own == [f \in x.names |-> e]
<1>0. x \in EditRow /\ stored \in Rows
  BY DEF ConfigInv, CacheTypeOK, EditRow
<1>1. x.names \in SUBSET Fields /\ x.whole \in Rows
  BY <1>0 DEF EditRow
<1>2. own \in Rows /\ DOMAIN own = x.names /\ \A f \in x.names : own[f] = e
  <2>1. PICK names \in SUBSET Fields : names = x.names
    BY <1>1
  <2>2. [f \in names |-> e] \in Rows
    BY OwnFieldsType
  <2> QED BY <2>1, <2>2
<1> HIDE DEF own
<1>3. PICK mid : mid = Patch(own, x.whole)
  OBVIOUS
<1>4. /\ mid \in Rows /\ DOMAIN mid = x.names \union DOMAIN x.whole
      /\ \A f \in x.names : mid[f] = e
      /\ \A f \in DOMAIN x.whole : f \notin x.names => mid[f] = x.whole[f]
  <2>1. /\ mid \in Rows /\ DOMAIN mid = DOMAIN own \union DOMAIN x.whole
        /\ \A f \in DOMAIN own : mid[f] = own[f]
        /\ \A f \in DOMAIN x.whole : f \notin DOMAIN own => mid[f] = x.whole[f]
    <3>1. mid \in Rows /\ DOMAIN mid = DOMAIN own \union DOMAIN x.whole
      BY <1>1, <1>2, <1>3, PatchType
    <3>2. \A f \in DOMAIN own : mid[f] = own[f]
      BY <1>3, PatchNew
    <3>3. \A f \in DOMAIN x.whole : f \notin DOMAIN own => mid[f] = x.whole[f]
      BY <1>3, PatchOld
    <3> QED BY <3>1, <3>2, <3>3
  <2> QED BY <2>1, <1>2
<1>5. PICK value : value = Patch(mid, stored)
  OBVIOUS
<1>6. /\ value \in Rows /\ DOMAIN value = DOMAIN mid \union DOMAIN stored
      /\ \A f \in DOMAIN mid : value[f] = mid[f]
      /\ \A f \in DOMAIN stored : f \notin DOMAIN mid => value[f] = stored[f]
  <2>1. value \in Rows /\ DOMAIN value = DOMAIN mid \union DOMAIN stored
    BY <1>0, <1>4, <1>5, PatchType
  <2>2. \A f \in DOMAIN mid : value[f] = mid[f]
    BY <1>5, PatchNew
  <2>3. \A f \in DOMAIN stored : f \notin DOMAIN mid => value[f] = stored[f]
    BY <1>5, PatchOld
  <2> QED BY <2>1, <2>2, <2>3
<1>7. PICK insert \in BOOLEAN : insert = (stored = NoRow)
  BY Zenon
<1>8. PICK new : new = [x EXCEPT !.pc = "merged", !.value = value, !.insert = insert]
  OBVIOUS
<1>9. new \in EditRow /\ new.pc = "merged" /\ new.value = value /\ new.names = x.names /\ new.proc = x.proc
  BY <1>0, <1>6, <1>8 DEF EditRow
<1>10. /\ edit' = [edit EXCEPT ![e] = new] /\ UNCHANGED <<stored, held, cache, reader, inbox, past, due, overlapped>>
       /\ x.pc = "begun"
  <2>1. Merged(e, stored) = value
    BY <1>3, <1>5 DEF Merged, own
  <2> QED BY <2>1, <1>7, <1>8 DEF SetConfigRead
<1>11. EditOK(new, e)
  <2>1. EditOK(x, e)
    BY DEF ConfigInv, EditInv
  <2>2. x.proc \in Procs /\ \A f \in DOMAIN due : f \in DOMAIN x.whole /\ due[f] \notin overlapped => x.whole[f] = due[f]
    BY <2>1, <1>10 DEF EditOK
  <2>3. \A f \in x.names : f \in DOMAIN value /\ value[f] = e
    BY <1>4, <1>6
  <2>4. ASSUME NEW f \in DOMAIN due, f \notin x.names, due[f] \notin overlapped
        PROVE  f \in DOMAIN value /\ value[f] = due[f]
    <3>1. CASE f \in DOMAIN x.whole
      BY <3>1, <2>2, <2>4, <1>4, <1>6
    <3>2. CASE f \notin DOMAIN x.whole
      <4>1. f \in DOMAIN stored /\ stored[f] = due[f]
        BY <2>4 DEF ConfigInv, EditsKept
      <4> QED BY <3>2, <4>1, <2>4, <1>4, <1>6
    <3> QED BY <3>1, <3>2
  <2> QED BY <1>9, <2>2, <2>3, <2>4 DEF EditOK
<1> QED BY <1>9, <1>10, <1>11, EditMoves

LEMMA ConflictStep ==
  ASSUME ConfigInv, NEW e \in Edits, SetConfigConflict(e)
  PROVE  ConfigInv'
<1>1. EditOK(EditOver, e)
  BY EditTypes DEF EditOK
<1>2. /\ edit' = [edit EXCEPT ![e] = EditOver] /\ UNCHANGED <<stored, held, cache, reader, inbox, past, due, overlapped>>
      /\ edit[e].pc # "flushed"
  BY DEF SetConfigConflict
<1> QED BY <1>1, <1>2, EditTypes, EditMoves

\* What the clearing of a process and its message leave: an unexcused copy or
\* read is of a process with a message to handle.
LEMMA AnnounceIs ==
  ASSUME ConfigInv, NEW p \in Procs, Announce(p)
  PROVE  /\ inbox' \subseteq Listeners /\ cache' \in [Procs -> Copies \union {None}] /\ reader' \in [Readers -> ReadRows]
         /\ \A q \in Procs :
               \/ cache'[q] = None
               \/ /\ cache[q] # None /\ cache'[q].row = cache[q].row /\ cache'[q].age = cache[q].age
                  /\ q \notin inbox' => cache'[q].excused
         /\ \A r \in Readers :
               /\ reader'[r].pc = reader[r].pc /\ reader'[r].proc = reader[r].proc
               /\ reader'[r].row = reader[r].row /\ reader'[r].age = reader[r].age
               /\ reader[r].pc = "read" => reader'[r].excused
<1>1. PICK told \in SUBSET Listeners : /\ inbox' = inbox \union told
                                       /\ cache' = Cleared(p, inbox')
                                       /\ reader' = ReadersExcused
  BY DEF Announce
<1>2. cache \in [Procs -> Copies \union {None}] /\ reader \in [Readers -> ReadRows] /\ inbox \subseteq Listeners
  BY DEF ConfigInv, CacheTypeOK, ReadRows
<1>3. ASSUME NEW q \in Procs
      PROVE  /\ cache'[q] \in Copies \union {None}
             /\ \/ cache'[q] = None
                \/ /\ cache[q] # None /\ cache'[q].row = cache[q].row /\ cache'[q].age = cache[q].age
                   /\ q \notin inbox' => cache'[q].excused
  <2>1. cache'[q] = IF q = p \/ cache[q] = None THEN IF q = p THEN None ELSE cache[q]
                    ELSE IF q \in inbox' THEN cache[q] ELSE [cache[q] EXCEPT !.excused = TRUE]
    BY <1>1 DEF Cleared
  <2>2. cache[q] \in Copies \union {None}
    BY <1>2
  <2>3. CASE q = p \/ cache[q] = None \/ q \in inbox'
    BY <2>1, <2>2, <2>3
  <2>4. CASE q # p /\ cache[q] # None /\ q \notin inbox'
    <3>1. PICK x : x = [cache[q] EXCEPT !.excused = TRUE]
      OBVIOUS
    <3>2. x \in Copies /\ x.row = cache[q].row /\ x.age = cache[q].age /\ x.excused
      BY <3>1, <2>2, <2>4 DEF Copies
    <3>3. cache'[q] = x
      BY <2>1, <2>4, <3>1
    <3> QED BY <3>2, <3>3, <2>4
  <2> QED BY <2>3, <2>4
<1>4. ASSUME NEW r \in Readers
      PROVE  /\ reader'[r] \in ReadRows
             /\ reader'[r].pc = reader[r].pc /\ reader'[r].proc = reader[r].proc
             /\ reader'[r].row = reader[r].row /\ reader'[r].age = reader[r].age
             /\ reader[r].pc = "read" => reader'[r].excused
  <2>1. reader'[r] = IF reader[r].pc = "read" THEN [reader[r] EXCEPT !.excused = TRUE] ELSE reader[r]
    BY <1>1 DEF ReadersExcused
  <2>2. reader[r] \in ReadRows
    BY <1>2
  <2>3. CASE reader[r].pc = "read"
    <3>1. PICK x : x = [reader[r] EXCEPT !.excused = TRUE]
      OBVIOUS
    <3>2. /\ x \in ReadRows /\ x.row = reader[r].row /\ x.age = reader[r].age /\ x.excused
          /\ x.pc = reader[r].pc /\ x.proc = reader[r].proc
      BY <3>1, <2>2 DEF ReadRows
    <3>3. reader'[r] = x
      BY <2>1, <2>3, <3>1
    <3> QED BY <3>2, <3>3
  <2>4. CASE reader[r].pc # "read"
    BY <2>1, <2>2, <2>4
  <2> QED BY <2>3, <2>4
<1>5. cache' \in [Procs -> Copies \union {None}]
  <2>1. cache' = [q \in Procs |-> cache'[q]]
    BY <1>1 DEF Cleared
  <2> QED BY <2>1, <1>3
<1>6. reader' \in [Readers -> ReadRows]
  <2>1. reader' = [r \in Readers |-> reader'[r]]
    BY <1>1 DEF ReadersExcused
  <2> QED BY <2>1, <1>4
<1> QED BY <1>1, <1>2, <1>3, <1>4, <1>5, <1>6

\* set_config flushes, the first time or once more.
LEMMA FlushStep ==
  ASSUME ConfigInv, NEW e \in Edits, SetConfigFlush(e) \/ \E f \in Fields : SetConfigAgain(e, f)
  PROVE  ConfigInv'
<1> DEFINE x == edit[e]
<1>0. x \in EditRow /\ edit \in [Edits -> EditRow] /\ None \notin Edits /\ EditOK(x, e)
  BY ConfigAssumption DEF ConfigInv, CacheTypeOK, EditRow, EditInv
<1>1. held = None \/ held = e
  BY DEF ConfigInv, EditInv, SetConfigFlush, SetConfigAgain
<1>2. held' = e /\ UNCHANGED <<stored, past, due, overlapped>> /\ Announce(x.proc) /\ x.pc \in {"merged", "flushed"}
  <2>1. CASE SetConfigFlush(e)
    BY <2>1 DEF SetConfigFlush
  <2>2. CASE \E f \in Fields : SetConfigAgain(e, f)
    BY <2>2 DEF SetConfigAgain, ConfigInv, EditInv
  <2> QED BY <2>1, <2>2
<1>3. PICK new \in EditRow : /\ edit' = [edit EXCEPT ![e] = new] /\ new.pc = "flushed" /\ EditOK(new, e)
                             /\ held = e => new.route # "modify"
  <2>1. CASE SetConfigFlush(e)
    <3>1. PICK y : y = [x EXCEPT !.pc = "flushed"]
      OBVIOUS
    <3>2. /\ y \in EditRow /\ y.pc = "flushed" /\ y.proc = x.proc /\ y.names = x.names /\ y.value = x.value
      BY <3>1, <1>0 DEF EditRow
    <3>3. edit' = [edit EXCEPT ![e] = y] /\ held = None
      BY <2>1, <3>1 DEF SetConfigFlush
    <3>4. EditOK(y, e)
      BY <3>2, <1>0, <1>2 DEF EditOK
    <3> QED BY <3>2, <3>3, <3>4, <1>0
  <2>2. CASE \E f \in Fields : SetConfigAgain(e, f)
    <3>1. PICK f \in Fields : SetConfigAgain(e, f)
      BY <2>2
    <3>2. PICK own : own = [g \in {f} |-> e]
      OBVIOUS
    <3>3. own \in Rows /\ DOMAIN own = {f} /\ own[f] = e
      BY <3>2, OwnFieldsType
    <3>4. PICK value : value = Patch(own, x.value)
      OBVIOUS
    <3>5. x.value \in Rows
      BY <1>0 DEF EditRow
    <3>6. /\ value \in Rows /\ DOMAIN value = {f} \union DOMAIN x.value /\ value[f] = e
          /\ \A g \in DOMAIN x.value : g \notin {f} => value[g] = x.value[g]
      <4>1. /\ value \in Rows /\ DOMAIN value = DOMAIN own \union DOMAIN x.value
            /\ \A g \in DOMAIN own : value[g] = own[g]
            /\ \A g \in DOMAIN x.value : g \notin DOMAIN own => value[g] = x.value[g]
        <5>1. value \in Rows /\ DOMAIN value = DOMAIN own \union DOMAIN x.value
          BY <3>3, <3>4, <3>5, PatchType
        <5>2. \A g \in DOMAIN own : value[g] = own[g]
          BY <3>4, PatchNew
        <5>3. \A g \in DOMAIN x.value : g \notin DOMAIN own => value[g] = x.value[g]
          BY <3>4, PatchOld
        <5> QED BY <5>1, <5>2, <5>3
      <4> QED BY <4>1, <3>3
    <3>7. PICK y : y = [x EXCEPT !.names = x.names \union {f}, !.value = value]
      OBVIOUS
    <3>8. /\ y \in EditRow /\ y.pc = "flushed" /\ y.proc = x.proc /\ y.names = x.names \union {f} /\ y.value = value
          /\ y.route = "update"
      <4>1. x.pc = "flushed" /\ x.route = "update" /\ x.names \in SUBSET Fields
        BY <3>1, <1>0 DEF SetConfigAgain, EditRow
      <4>2. x.names \union {f} \in SUBSET Fields
        BY <4>1
      <4> QED BY <3>7, <3>6, <4>1, <4>2, <1>0 DEF EditRow
    <3>9. edit' = [edit EXCEPT ![e] = y]
      BY <3>1, <3>2, <3>4, <3>7 DEF SetConfigAgain
    <3>10. EditOK(y, e)
      <4>1. x.proc \in Procs /\ \A g \in x.names : g \in DOMAIN x.value /\ x.value[g] = e
        BY <1>0, <1>2 DEF EditOK
      <4>2. \A g \in DOMAIN due : g \notin x.names /\ due[g] \notin overlapped => g \in DOMAIN x.value /\ x.value[g] = due[g]
        BY <1>0, <1>2 DEF EditOK
      <4>3. \A g \in y.names : g \in DOMAIN value /\ value[g] = e
        BY <4>1, <3>6, <3>8
      <4>4. \A g \in DOMAIN due : g \notin y.names /\ due[g] \notin overlapped => g \in DOMAIN value /\ value[g] = due[g]
        BY <4>2, <3>6, <3>8
      <4> QED BY <4>1, <4>3, <4>4, <3>8 DEF EditOK
    <3> QED BY <3>8, <3>9, <3>10
  <2> QED BY <2>1, <2>2
<1>4. x.proc \in Procs
  BY <1>0, <1>2 DEF EditOK
<1>5. /\ inbox' \subseteq Listeners /\ cache' \in [Procs -> Copies \union {None}] /\ reader' \in [Readers -> ReadRows]
      /\ \A q \in Procs :
            \/ cache'[q] = None
            \/ /\ cache[q] # None /\ cache'[q].row = cache[q].row /\ cache'[q].age = cache[q].age
               /\ q \notin inbox' => cache'[q].excused
      /\ \A r \in Readers :
            /\ reader'[r].pc = reader[r].pc /\ reader'[r].proc = reader[r].proc
            /\ reader'[r].row = reader[r].row /\ reader'[r].age = reader[r].age
            /\ reader[r].pc = "read" => reader'[r].excused
  BY <1>2, <1>4, AnnounceIs
<1>6. \A d \in Edits : edit'[d] = IF d = e THEN new ELSE edit[d]
  BY <1>0, <1>3
<1>7. CacheTypeOK'
  <2>1. edit' \in [Edits -> EditRow]
    BY <1>0, <1>3
  <2>2. stored' \in Rows /\ held' \in Edits \union {None} /\ past' \subseteq [row : Rows, age : 0..ConfigTTL]
        /\ due' \in Rows /\ overlapped' \subseteq Edits
    BY <1>2 DEF ConfigInv, CacheTypeOK
  <2> QED BY <2>1, <2>2, <1>5 DEF CacheTypeOK, EditRow, ReadRows
<1>8. EditInv'
  <2> SUFFICES ASSUME NEW d \in Edits PROVE EditOK(edit[d], d)' /\ (edit'[d].pc = "flushed" <=> held' = d)
    BY DEF EditInv
  <2>1. EditOK(edit'[d], d) /\ (edit'[d].pc = "flushed" <=> e = d)
    <3>1. CASE d = e
      BY <3>1, <1>3, <1>6
    <3>2. CASE d # e
      BY <3>2, <1>1, <1>6, <1>0 DEF ConfigInv, EditInv
    <3> QED BY <3>1, <3>2
  <2> QED BY <2>1, <1>2 DEF EditOK
<1>9. ASSUME NEW row, NEW age, WasStored(row, age)
      PROVE  WasStored(row, age)'
  <2>1. row = stored \/ \E y \in past : y.row = row /\ y.age <= age
    <3>1. CASE held = None
      BY <3>1, <1>9 DEF WasStored
    <3>2. CASE held = e
      <4>1. x.route # "modify"
        BY <3>2, <1>0 DEF SetConfigFlush, SetConfigAgain
      <4> QED BY <3>2, <4>1, <1>9 DEF WasStored
    <3> QED BY <3>1, <3>2, <1>1
  <2> QED BY <2>1, <1>2 DEF WasStored
<1>10. CopyInv'
  <2>1. ASSUME NEW q \in Procs, Fresh(q)' PROVE WasStored(cache[q].row, cache[q].age)'
    <3>1. Fresh(q) /\ cache'[q].row = cache[q].row /\ cache'[q].age = cache[q].age
      BY <2>1, <1>5 DEF Fresh
    <3>2. WasStored(cache[q].row, cache[q].age)
      BY <3>1 DEF ConfigInv, CopyInv
    <3>3. PICK row, age : row = cache[q].row /\ age = cache[q].age
      OBVIOUS
    <3>4. WasStored(row, age)'
      BY <3>2, <3>3, <1>9
    <3> QED BY <3>1, <3>3, <3>4 DEF WasStored
  <2>2. ASSUME NEW r \in Readers
        PROVE  /\ reader'[r].pc # "idle" => reader'[r].proc \in Procs
               /\ reader'[r].pc = "read" /\ reader'[r].age < ConfigTTL => WasStored(reader[r].row, reader[r].age)'
    <3>1. /\ reader'[r].pc = reader[r].pc /\ reader'[r].proc = reader[r].proc
          /\ reader'[r].row = reader[r].row /\ reader'[r].age = reader[r].age
      BY <1>5
    <3>2. /\ reader[r].pc # "idle" => reader[r].proc \in Procs
          /\ reader[r].pc = "read" /\ reader[r].age < ConfigTTL => WasStored(reader[r].row, reader[r].age)
      BY DEF ConfigInv, CopyInv
    <3>3. PICK row, age : row = reader[r].row /\ age = reader[r].age
      OBVIOUS
    <3>4. WasStored(row, age) => WasStored(row, age)'
      BY <1>9
    <3> QED BY <3>1, <3>2, <3>3, <3>4 DEF WasStored
  <2> QED BY <2>1, <2>2 DEF CopyInv
<1>11. ReachInv'
  BY <1>5 DEF ReachInv
<1>12. EditsKept'
  BY <1>2 DEF ConfigInv, EditsKept
<1> QED BY <1>7, <1>8, <1>10, <1>11, <1>12 DEF ConfigInv

\* The copies of one process or one read change, and nothing else.
LEMMA CopyStep ==
  ASSUME ConfigInv, UNCHANGED <<stored, held, edit, past, due, overlapped>>,
         inbox' \subseteq Listeners, cache' \in [Procs -> Copies \union {None}], reader' \in [Readers -> ReadRows],
         \A p \in Procs : Fresh(p)' => WasStored(cache'[p].row, cache'[p].age),
         \A r \in Readers :
            /\ reader'[r].pc # "idle" => reader'[r].proc \in Procs
            /\ reader'[r].pc = "read" /\ reader'[r].age < ConfigTTL => WasStored(reader'[r].row, reader'[r].age),
         \A p \in Procs \ inbox' : cache'[p] # None /\ ~cache'[p].excused => cache'[p].row = stored /\ held = None,
         \A r \in Readers : reader'[r].pc = "read" /\ ~reader'[r].excused => reader'[r].row = stored /\ held = None
  PROVE  ConfigInv'
<1>1. CacheTypeOK'
  BY DEF ConfigInv, CacheTypeOK, ReadRows
<1>2. EditInv'
  BY DEF ConfigInv, EditInv, EditOK
<1>3. CopyInv'
  <2>1. ASSUME NEW p \in Procs, Fresh(p)' PROVE WasStored(cache[p].row, cache[p].age)'
    <3>1. WasStored(cache'[p].row, cache'[p].age)
      BY <2>1
    <3> QED BY <3>1 DEF WasStored
  <2>2. ASSUME NEW r \in Readers, reader'[r].pc = "read" /\ reader'[r].age < ConfigTTL
        PROVE  WasStored(reader[r].row, reader[r].age)'
    <3>1. WasStored(reader'[r].row, reader'[r].age)
      BY <2>2
    <3> QED BY <3>1 DEF WasStored
  <2> QED BY <2>1, <2>2 DEF CopyInv
<1>4. ReachInv'
  BY DEF ReachInv
<1>5. EditsKept'
  BY DEF ConfigInv, EditsKept
<1> QED BY <1>1, <1>2, <1>3, <1>4, <1>5 DEF ConfigInv

\* The copy of one process is replaced.
LEMMA OneCopy ==
  ASSUME ConfigInv, NEW p \in Procs, NEW new \in Copies \union {None}, cache' = [cache EXCEPT ![p] = new],
         UNCHANGED <<stored, held, edit, past, due, overlapped>>, inbox' \subseteq Listeners, inbox \subseteq inbox' \union {p},
         reader' \in [Readers -> ReadRows],
         \A r \in Readers : reader'[r] = reader[r] \/ reader'[r].pc = "idle",
         new # None /\ new.age < ConfigTTL => WasStored(new.row, new.age),
         new # None /\ ~new.excused => new.row = stored /\ held = None
  PROVE  ConfigInv'
<1>1. cache \in [Procs -> Copies \union {None}]
  BY DEF ConfigInv, CacheTypeOK
<1>2. \A q \in Procs : cache'[q] = IF q = p THEN new ELSE cache[q]
  BY <1>1
<1>3. cache' \in [Procs -> Copies \union {None}]
  BY <1>1
<1>4. ASSUME NEW q \in Procs, Fresh(q)' PROVE WasStored(cache'[q].row, cache'[q].age)
  <2>1. cache'[q] # None /\ cache'[q].age < ConfigTTL
    BY <1>4 DEF Fresh
  <2>2. CASE q = p
    BY <2>1, <2>2, <1>2
  <2>3. CASE q # p
    <3>1. cache'[q] = cache[q] /\ Fresh(q)
      BY <2>1, <2>3, <1>2 DEF Fresh
    <3> QED BY <3>1 DEF ConfigInv, CopyInv
  <2> QED BY <2>2, <2>3
<1>5. \A r \in Readers :
            /\ reader'[r].pc # "idle" => reader'[r].proc \in Procs
            /\ reader'[r].pc = "read" /\ reader'[r].age < ConfigTTL => WasStored(reader'[r].row, reader'[r].age)
  BY DEF ConfigInv, CopyInv
<1>6. \A q \in Procs \ inbox' : cache'[q] # None /\ ~cache'[q].excused => cache'[q].row = stored /\ held = None
  BY <1>2 DEF ConfigInv, ReachInv
<1>7. \A r \in Readers : reader'[r].pc = "read" /\ ~reader'[r].excused => reader'[r].row = stored /\ held = None
  BY DEF ConfigInv, ReachInv
<1> QED BY <1>3, <1>4, <1>5, <1>6, <1>7, CopyStep

LEMMA DropStep ==
  ASSUME ConfigInv, NEW p \in Procs, Hear(p) \/ CacheInvalidate(p)
  PROVE  ConfigInv'
<1>1. /\ cache' = [cache EXCEPT ![p] = None] /\ UNCHANGED <<stored, held, edit, past, due, overlapped>>
      /\ reader' = reader /\ inbox' \subseteq inbox /\ inbox \subseteq inbox' \union {p}
  BY DEF Hear, CacheInvalidate
<1>2. inbox' \subseteq Listeners /\ reader' \in [Readers -> ReadRows]
  BY <1>1 DEF ConfigInv, CacheTypeOK, ReadRows
<1> QED BY <1>1, <1>2, OneCopy

LEMMA ReplyStep ==
  ASSUME ConfigInv, NEW e \in Edits, ReplyInSession(e)
  PROVE  ConfigInv'
<1>0. edit[e] \in EditRow /\ EditOK(edit[e], e) /\ (edit[e].pc = "flushed" <=> held = e) /\ None \notin Edits
  BY ConfigAssumption DEF ConfigInv, CacheTypeOK, EditRow, EditInv
<1>1. PICK new : new = [row |-> edit[e].value, age |-> 0, excused |-> TRUE]
  OBVIOUS
<1>2. new \in Copies /\ new.row = edit[e].value /\ new.age = 0 /\ new.excused
  <2>1. edit[e].value \in Rows /\ 0 \in 0..ConfigTTL
    BY <1>0, ConfigAssumption DEF EditRow
  <2> QED BY <1>1, <2>1 DEF Copies
<1>3. PICK p \in Procs : p = edit[e].proc
  BY <1>0 DEF ReplyInSession, EditOK
<1>4. /\ cache' = [cache EXCEPT ![p] = new] /\ UNCHANGED <<stored, held, edit, reader, inbox, past, due, overlapped>>
      /\ edit[e].pc = "flushed" /\ edit[e].route = "modify"
  BY <1>1, <1>3 DEF ReplyInSession
<1>5. WasStored(new.row, new.age)
  BY <1>0, <1>2, <1>4 DEF WasStored
<1>6. inbox' \subseteq Listeners /\ reader' \in [Readers -> ReadRows]
  BY <1>4 DEF ConfigInv, CacheTypeOK, ReadRows
<1> QED BY <1>2, <1>4, <1>5, <1>6, OneCopy

LEMMA StoreStep ==
  ASSUME ConfigInv, NEW r \in Readers, StoreEntry(r)
  PROVE  ConfigInv'
<1>0. reader \in [Readers -> ReadRows] /\ reader[r] \in ReadRows /\ reader[r].pc = "read" /\ reader[r].proc \in Procs
  BY DEF ConfigInv, CacheTypeOK, ReadRows, CopyInv, StoreEntry
<1>1. PICK new : new = Entry(r)
  OBVIOUS
<1>2. new \in Copies /\ new.row = reader[r].row /\ new.age = reader[r].age /\ new.excused = reader[r].excused
  BY <1>0, <1>1 DEF Copies, Entry, ReadRows
<1>3. PICK p \in Procs : p = reader[r].proc
  BY <1>0
<1>4. /\ cache' = [cache EXCEPT ![p] = new] /\ reader' = [reader EXCEPT ![r] = NoReader]
      /\ UNCHANGED <<stored, held, edit, inbox, past, due, overlapped>>
  BY <1>1, <1>3 DEF StoreEntry
<1>5. reader' \in [Readers -> ReadRows] /\ \A s \in Readers : reader'[s] = reader[s] \/ reader'[s].pc = "idle"
  BY <1>0, <1>4, NoReaderType
<1>6. new.age < ConfigTTL => WasStored(new.row, new.age)
  BY <1>0, <1>2 DEF ConfigInv, CopyInv
<1>7. ~new.excused => new.row = stored /\ held = None
  BY <1>0, <1>2 DEF ConfigInv, ReachInv
<1>8. inbox' \subseteq Listeners
  BY <1>4 DEF ConfigInv, CacheTypeOK
<1> QED BY <1>2, <1>4, <1>5, <1>6, <1>7, <1>8, OneCopy

\* A read of the row begins or has its answer.
LEMMA ReaderStep ==
  ASSUME ConfigInv, NEW r \in Readers, (\E p \in Procs : Miss(r, p)) \/ ReadRow(r)
  PROVE  ConfigInv'
<1>0. reader \in [Readers -> ReadRows] /\ reader[r] \in ReadRows /\ stored \in Rows
  BY DEF ConfigInv, CacheTypeOK, ReadRows
<1>1. PICK new \in ReadRows :
        /\ reader' = [reader EXCEPT ![r] = new] /\ UNCHANGED <<stored, held, edit, cache, inbox, past, due, overlapped>>
        /\ new.proc \in Procs
        /\ new.pc = "read" => new.row = stored /\ (~new.excused => held = None)
  <2>1. CASE \E p \in Procs : Miss(r, p)
    <3>1. PICK p \in Procs : Miss(r, p)
      BY <2>1
    <3>2. PICK x : x = [reader[r] EXCEPT !.pc = "asked", !.proc = p]
      OBVIOUS
    <3>3. x \in ReadRows /\ x.pc = "asked" /\ x.proc = p
      BY <3>2, <1>0 DEF ReadRows
    <3>4. reader' = [reader EXCEPT ![r] = x] /\ UNCHANGED <<stored, held, edit, cache, inbox, past, due, overlapped>>
      BY <3>1, <3>2 DEF Miss
    <3> QED BY <3>3, <3>4
  <2>2. CASE ReadRow(r)
    <3>1. PICK ex \in BOOLEAN : ex = (held # None)
      BY Zenon
    <3>2. PICK x : x = [reader[r] EXCEPT !.pc = "read", !.row = stored, !.excused = ex]
      OBVIOUS
    <3>3. x \in ReadRows /\ x.row = stored /\ x.excused = ex /\ x.proc = reader[r].proc
      BY <3>2, <1>0 DEF ReadRows
    <3>4. /\ reader' = [reader EXCEPT ![r] = x] /\ UNCHANGED <<stored, held, edit, cache, inbox, past, due, overlapped>>
      BY <2>2, <3>1, <3>2 DEF ReadRow
    <3>5. reader[r].proc \in Procs
      BY <2>2 DEF ReadRow, ConfigInv, CopyInv
    <3> QED BY <3>1, <3>3, <3>4, <3>5
  <2> QED BY <2>1, <2>2
<1>2. \A s \in Readers : reader'[s] = IF s = r THEN new ELSE reader[s]
  BY <1>0, <1>1
<1>3. /\ inbox' \subseteq Listeners /\ cache' \in [Procs -> Copies \union {None}] /\ reader' \in [Readers -> ReadRows]
  BY <1>0, <1>1 DEF ConfigInv, CacheTypeOK
<1>4. \A p \in Procs : Fresh(p)' => WasStored(cache'[p].row, cache'[p].age)
  BY <1>1 DEF ConfigInv, CopyInv, Fresh
<1>5. ASSUME NEW s \in Readers
      PROVE  /\ reader'[s].pc # "idle" => reader'[s].proc \in Procs
             /\ reader'[s].pc = "read" /\ reader'[s].age < ConfigTTL => WasStored(reader'[s].row, reader'[s].age)
             /\ reader'[s].pc = "read" /\ ~reader'[s].excused => reader'[s].row = stored /\ held = None
  <2>1. CASE s = r
    <3>1. \A age : WasStored(stored, age)
      BY DEF WasStored
    <3> QED BY <2>1, <3>1, <1>1, <1>2
  <2>2. CASE s # r
    BY <2>2, <1>2 DEF ConfigInv, CopyInv, ReachInv
  <2> QED BY <2>1, <2>2
<1>6. \A p \in Procs \ inbox' : cache'[p] # None /\ ~cache'[p].excused => cache'[p].row = stored /\ held = None
  BY <1>1 DEF ConfigInv, ReachInv
<1> QED BY <1>1, <1>3, <1>4, <1>5, <1>6, CopyStep

\* An edit ends, by its commit or without it: what was stored or flushed and
\* is not any more is in the history.
LEMMA EndStep ==
  ASSUME ConfigInv, NEW e \in Edits, edit' = [edit EXCEPT ![e] = EditOver], UNCHANGED <<cache, reader, inbox>>,
         stored' \in Rows, held' = IF held = e THEN None ELSE held,
         past' \subseteq [row : Rows, age : 0..ConfigTTL], past \subseteq past',
         due' \in Rows, overlapped' \subseteq Edits,
         \A d \in Edits \ {e} : EditOK(edit[d], d)',
         EditsKept',
         held # e => stored' = stored,
         \A row \in Rows : row = stored \/ (held = e /\ row = edit[e].value)
            => row = stored' \/ \E y \in past' : y.row = row /\ y.age = 0
  PROVE  ConfigInv'
<1>0. edit \in [Edits -> EditRow] /\ None \notin Edits /\ held \in Edits \union {None} /\ ConfigTTL \in Nat
  BY ConfigAssumption DEF ConfigInv, CacheTypeOK, EditRow
<1>1. \A d \in Edits : edit'[d] = IF d = e THEN EditOver ELSE edit[d]
  BY <1>0
<1>2. CacheTypeOK'
  <2>1. edit' \in [Edits -> EditRow] /\ held' \in Edits \union {None}
    BY <1>0, EditTypes
  <2> QED BY <2>1 DEF ConfigInv, CacheTypeOK, EditRow
<1>3. EditInv'
  <2> SUFFICES ASSUME NEW d \in Edits PROVE EditOK(edit[d], d)' /\ (edit'[d].pc = "flushed" <=> held' = d)
    BY DEF EditInv
  <2>1. CASE d = e
    <3>1. edit'[d].pc = "done" /\ held' # d
      BY <2>1, <1>0, <1>1, EditTypes
    <3> QED BY <3>1 DEF EditOK
  <2>2. CASE d # e
    <3>1. edit'[d] = edit[d] /\ (edit[d].pc = "flushed" <=> held = d)
      BY <2>2, <1>1 DEF ConfigInv, EditInv
    <3>2. held' = d <=> held = d
      BY <2>2, <1>0
    <3> QED BY <2>2, <3>1, <3>2
  <2> QED BY <2>1, <2>2
<1>4. ASSUME NEW row \in Rows, NEW age \in 0..ConfigTTL, WasStored(row, age)
      PROVE  WasStored(row, age)'
  <2>1. CASE row = stored \/ (held = e /\ row = edit[e].value)
    <3>1. row = stored' \/ \E y \in past' : y.row = row /\ y.age = 0
      BY <2>1
    <3> QED BY <3>1 DEF WasStored
  <2>2. CASE held # None /\ held # e /\ edit[held].route = "modify" /\ row = edit[held].value
    <3>1. held' = held /\ edit'[held] = edit[held]
      BY <2>2, <1>0, <1>1
    <3> QED BY <2>2, <3>1 DEF WasStored
  <2>3. CASE \E y \in past : y.row = row /\ y.age <= age
    BY <2>3 DEF WasStored
  <2> QED BY <2>1, <2>2, <2>3, <1>4 DEF WasStored
<1>5. CopyInv'
  <2>1. ASSUME NEW q \in Procs, Fresh(q)' PROVE WasStored(cache[q].row, cache[q].age)'
    <3>1. Fresh(q) /\ cache[q] \in Copies
      BY <2>1 DEF Fresh, ConfigInv, CacheTypeOK
    <3>2. PICK row \in Rows, age \in 0..ConfigTTL : row = cache[q].row /\ age = cache[q].age
      BY <3>1 DEF Copies
    <3>3. WasStored(row, age)
      BY <3>1, <3>2 DEF ConfigInv, CopyInv
    <3>4. WasStored(row, age)'
      BY <3>3, <1>4
    <3> QED BY <3>2, <3>4 DEF WasStored
  <2>2. ASSUME NEW r \in Readers, reader[r].pc = "read", reader[r].age < ConfigTTL
        PROVE  WasStored(reader[r].row, reader[r].age)'
    <3>1. PICK row \in Rows, age \in 0..ConfigTTL : row = reader[r].row /\ age = reader[r].age
      BY DEF ConfigInv, CacheTypeOK
    <3>2. WasStored(row, age)
      BY <3>1, <2>2 DEF ConfigInv, CopyInv
    <3>3. WasStored(row, age)'
      BY <3>2, <1>4
    <3> QED BY <3>1, <3>3 DEF WasStored
  <2>3. \A r \in Readers : reader[r].pc # "idle" => reader[r].proc \in Procs
    BY DEF ConfigInv, CopyInv
  <2> QED BY <2>1, <2>2, <2>3 DEF CopyInv
<1>6. ReachInv'
  <2>1. CASE held = e
    <3>1. held # None
      BY <2>1, <1>0
    <3> QED BY <3>1 DEF ConfigInv, ReachInv
  <2>2. CASE held # e
    BY <2>2 DEF ConfigInv, ReachInv
  <2> QED BY <2>1, <2>2
<1> QED BY <1>2, <1>3, <1>5, <1>6 DEF ConfigInv

LEMMA FailStep ==
  ASSUME ConfigInv, NEW e \in Edits, EditFails(e)
  PROVE  ConfigInv'
<1>0. edit[e].value \in Rows /\ stored \in Rows /\ 0 \in 0..ConfigTTL
  BY ConfigAssumption DEF ConfigInv, CacheTypeOK
<1>1. PICK z : z = [row |-> edit[e].value, age |-> 0]
  OBVIOUS
<1>2. z \in [row : Rows, age : 0..ConfigTTL] /\ z.row = edit[e].value /\ z.age = 0
  BY <1>0, <1>1
<1>3. /\ edit' = [edit EXCEPT ![e] = EditOver] /\ UNCHANGED <<stored, cache, reader, inbox, due, overlapped>>
      /\ held' = IF held = e THEN None ELSE held
      /\ past' = IF held = e THEN past \union {z} ELSE past
  BY <1>1 DEF EditFails
<1>4. past' \subseteq [row : Rows, age : 0..ConfigTTL] /\ past \subseteq past'
  BY <1>2, <1>3 DEF ConfigInv, CacheTypeOK
<1>5. ASSUME NEW d \in Edits \ {e} PROVE EditOK(edit[d], d)'
  <2>1. edit'[d] = edit[d]
    BY <1>3 DEF ConfigInv, CacheTypeOK
  <2>2. EditOK(edit[d], d)
    BY DEF ConfigInv, EditInv
  <2> QED BY <2>1, <2>2, <1>3 DEF EditOK
<1>6. EditsKept' /\ due' \in Rows /\ overlapped' \subseteq Edits /\ stored' \in Rows
  BY <1>3 DEF ConfigInv, EditsKept, CacheTypeOK
<1>7. \A row \in Rows : row = stored \/ (held = e /\ row = edit[e].value)
            => row = stored' \/ \E y \in past' : y.row = row /\ y.age = 0
  BY <1>2, <1>3
<1> QED BY <1>3, <1>4, <1>5, <1>6, <1>7, EndStep

LEMMA CommitStep ==
  ASSUME ConfigInv, NEW e \in Edits, SetConfigCommit(e)
  PROVE  ConfigInv'
<1> DEFINE x == edit[e]
<1>0. x \in EditRow /\ stored \in Rows /\ due \in Rows /\ 0 \in 0..ConfigTTL /\ held = e /\ None \notin Edits
  BY ConfigAssumption DEF ConfigInv, CacheTypeOK, EditRow, EditInv, SetConfigCommit
<1>1. x.value \in Rows /\ x.names \in SUBSET Fields
  BY <1>0 DEF EditRow
<1>2. PICK z : z = [row |-> stored, age |-> 0]
  OBVIOUS
<1>3. z \in [row : Rows, age : 0..ConfigTTL] /\ z.row = stored /\ z.age = 0
  BY <1>0, <1>2
<1>4. PICK own : own = [f \in x.names |-> e]
  OBVIOUS
<1>5. own \in Rows /\ DOMAIN own = x.names /\ \A f \in x.names : own[f] = e
  <2>1. PICK names \in SUBSET Fields : names = x.names
    BY <1>1
  <2>2. [f \in names |-> e] \in Rows
    BY OwnFieldsType
  <2> QED BY <2>1, <2>2, <1>4
<1>6. /\ edit' = [edit EXCEPT ![e] = EditOver] /\ UNCHANGED <<cache, reader, inbox>>
      /\ stored' = x.value /\ held' = None /\ past' = past \union {z} /\ due' = Patch(own, due)
      /\ overlapped' = IF \E d \in Edits : HasRead(d) THEN overlapped \union {e} ELSE overlapped
      /\ x.pc = "flushed"
  BY <1>2, <1>4 DEF SetConfigCommit
<1>7. /\ due' \in Rows /\ DOMAIN due' = x.names \union DOMAIN due
      /\ \A f \in x.names : due'[f] = e
      /\ \A f \in DOMAIN due : f \notin x.names => due'[f] = due[f]
  <2>1. due' \in Rows /\ DOMAIN due' = DOMAIN own \union DOMAIN due
    BY <1>0, <1>5, <1>6, PatchType
  <2>2. \A f \in DOMAIN own : due'[f] = own[f]
    BY <1>6, PatchNew
  <2>3. \A f \in DOMAIN due : f \notin DOMAIN own => due'[f] = due[f]
    BY <1>6, PatchOld
  <2> QED BY <2>1, <2>2, <2>3, <1>5
<1>8. past' \subseteq [row : Rows, age : 0..ConfigTTL] /\ past \subseteq past' /\ overlapped' \subseteq Edits /\ overlapped \subseteq overlapped'
  BY <1>3, <1>6 DEF ConfigInv, CacheTypeOK
<1>9. ASSUME NEW d \in Edits \ {e} PROVE EditOK(edit[d], d)'
  <2>1. edit'[d] = edit[d] /\ edit[d] \in EditRow
    BY <1>6 DEF ConfigInv, CacheTypeOK, EditRow
  <2>2. EditOK(edit[d], d) /\ edit[d].pc # "flushed"
    BY <1>0 DEF ConfigInv, EditInv
  <2>3. HasRead(d) => e \in overlapped'
    BY <1>6
  <2>4. ASSUME edit[d].pc = "merged", NEW f \in DOMAIN due', f \notin edit[d].names, due'[f] \notin overlapped'
        PROVE  f \in DOMAIN edit[d].value /\ edit[d].value[f] = due'[f]
    <3>1. e \in overlapped'
      BY <2>3, <2>4 DEF HasRead
    <3>2. f \in DOMAIN due /\ due'[f] = due[f] /\ due[f] \notin overlapped
      BY <3>1, <2>4, <1>7, <1>8
    <3> QED BY <3>2, <2>2, <2>4 DEF EditOK
  <2>5. ASSUME edit[d].pc = "begun", NEW f \in DOMAIN due', f \in DOMAIN edit[d].whole, due'[f] \notin overlapped'
        PROVE  edit[d].whole[f] = due'[f]
    <3>1. edit[d].whole # NoRow
      BY <2>5, NoRowType
    <3>2. e \in overlapped'
      BY <2>3, <2>5, <3>1 DEF HasRead
    <3>3. f \in DOMAIN due /\ due'[f] = due[f] /\ due[f] \notin overlapped
      BY <3>2, <2>5, <1>7, <1>8
    <3> QED BY <3>3, <2>2, <2>5 DEF EditOK
  <2>6. edit[d].pc = "merged" => \A f \in edit[d].names : f \in DOMAIN edit[d].value /\ edit[d].value[f] = d
    BY <2>2 DEF EditOK
  <2>7. edit[d].pc \in {"begun", "merged", "flushed"} => edit[d].proc \in Procs
    BY <2>2 DEF EditOK
  <2> QED BY <2>1, <2>2, <2>4, <2>5, <2>6, <2>7 DEF EditOK
<1>10. EditsKept'
  <2> SUFFICES ASSUME NEW f \in DOMAIN due', due'[f] \notin overlapped' PROVE f \in DOMAIN x.value /\ x.value[f] = due'[f]
    BY <1>6 DEF EditsKept
  <2>1. EditOK(x, e)
    BY DEF ConfigInv, EditInv
  <2>2. CASE f \in x.names
    BY <2>1, <2>2, <1>6, <1>7 DEF EditOK
  <2>3. CASE f \notin x.names
    <3>1. f \in DOMAIN due /\ due'[f] = due[f] /\ due[f] \notin overlapped
      BY <2>3, <1>7, <1>8
    <3> QED BY <3>1, <2>1, <2>3, <1>6 DEF EditOK
  <2> QED BY <2>2, <2>3
<1>11. \A row \in Rows : row = stored \/ (held = e /\ row = edit[e].value)
            => row = stored' \/ \E y \in past' : y.row = row /\ y.age = 0
  BY <1>3, <1>6
<1>12. stored' \in Rows /\ held' = IF held = e THEN None ELSE held
  BY <1>0, <1>1, <1>6
<1> QED BY <1>0, <1>6, <1>7, <1>8, <1>9, <1>10, <1>11, <1>12, EndStep

\* Time passes: the history ages with the copies and the reads.
LEMMA CacheAges ==
  ASSUME ConfigInv, CacheTick
  PROVE  ConfigInv'
<1>0. /\ cache \in [Procs -> Copies \union {None}] /\ reader \in [Readers -> ReadRows]
      /\ past \subseteq [row : Rows, age : 0..ConfigTTL] /\ ConfigTTL \in Nat
      /\ UNCHANGED <<stored, held, edit, inbox, due, overlapped>>
  BY ConfigAssumption DEF ConfigInv, CacheTypeOK, CacheTick, ReadRows
<1>1. \A n \in 0..ConfigTTL : Older(n) \in 0..ConfigTTL /\ (Older(n) < ConfigTTL => Older(n) = n + 1)
  BY <1>0 DEF Older
<1>2. ASSUME NEW p \in Procs
      PROVE  /\ cache'[p] \in Copies \union {None}
             /\ cache'[p] = None <=> cache[p] = None
             /\ cache[p] # None => /\ cache'[p].row = cache[p].row /\ cache'[p].excused = cache[p].excused
                                   /\ cache[p].age \in 0..ConfigTTL
                                   /\ cache'[p].age < ConfigTTL => cache'[p].age = cache[p].age + 1
  <2>1. cache'[p] = IF cache[p] = None THEN None ELSE [cache[p] EXCEPT !.age = Older(cache[p].age)]
    BY DEF CacheTick
  <2>2. cache[p] \in Copies \union {None}
    BY <1>0
  <2>3. CASE cache[p] = None
    BY <2>1, <2>3
  <2>4. CASE cache[p] # None
    <3>1. PICK y : y = [cache[p] EXCEPT !.age = Older(cache[p].age)]
      OBVIOUS
    <3>2. cache[p] \in Copies /\ cache[p].age \in 0..ConfigTTL
      BY <2>2, <2>4 DEF Copies
    <3>3. PICK a : a = Older(cache[p].age)
      OBVIOUS
    <3>4. a \in 0..ConfigTTL /\ (a < ConfigTTL => a = cache[p].age + 1)
      BY <3>2, <3>3, <1>1
    <3>5. y \in Copies /\ y.row = cache[p].row /\ y.excused = cache[p].excused /\ y.age = a
      BY <3>1, <3>2, <3>3, <3>4 DEF Copies
    <3>6. cache'[p] = y
      BY <2>1, <2>4, <3>1
    <3> QED BY <2>4, <3>2, <3>4, <3>5, <3>6, CopyAssumption
  <2> QED BY <2>3, <2>4
<1>3. ASSUME NEW r \in Readers
      PROVE  /\ reader'[r] \in ReadRows /\ reader[r].age \in 0..ConfigTTL
             /\ reader'[r].pc = reader[r].pc /\ reader'[r].proc = reader[r].proc
             /\ reader'[r].row = reader[r].row /\ reader'[r].excused = reader[r].excused
             /\ reader[r].pc = "read" /\ reader'[r].age < ConfigTTL => reader'[r].age = reader[r].age + 1
  <2>1. reader'[r] = IF reader[r] = NoReader THEN NoReader ELSE [reader[r] EXCEPT !.age = Older(reader[r].age)]
    BY DEF CacheTick
  <2>2. reader[r] \in ReadRows /\ reader[r].age \in 0..ConfigTTL
    BY <1>0 DEF ReadRows
  <2>3. CASE reader[r] = NoReader
    BY <2>1, <2>2, <2>3, NoReaderType
  <2>4. CASE reader[r] # NoReader
    <3>1. PICK y : y = [reader[r] EXCEPT !.age = Older(reader[r].age)]
      OBVIOUS
    <3>2. PICK a : a = Older(reader[r].age)
      OBVIOUS
    <3>3. a \in 0..ConfigTTL /\ (a < ConfigTTL => a = reader[r].age + 1)
      BY <2>2, <3>2, <1>1
    <3>4. /\ y \in ReadRows /\ y.pc = reader[r].pc /\ y.proc = reader[r].proc /\ y.row = reader[r].row
          /\ y.excused = reader[r].excused /\ y.age = a
      BY <3>1, <2>2, <3>2, <3>3 DEF ReadRows
    <3>5. reader'[r] = y
      BY <2>1, <2>4, <3>1
    <3> QED BY <2>2, <3>3, <3>4, <3>5
  <2> QED BY <2>3, <2>4
<1>4. /\ past' \subseteq [row : Rows, age : 0..ConfigTTL]
      /\ \A x \in past : x.age < ConfigTTL => \E y \in past' : y.row = x.row /\ y.age = x.age + 1
  <2>1. past' = {[x EXCEPT !.age = x.age + 1] : x \in {y \in past : y.age < ConfigTTL}}
    BY DEF CacheTick
  <2>2. ASSUME NEW x \in past, x.age < ConfigTTL
        PROVE  /\ [x EXCEPT !.age = x.age + 1] \in [row : Rows, age : 0..ConfigTTL]
               /\ [x EXCEPT !.age = x.age + 1].row = x.row /\ [x EXCEPT !.age = x.age + 1].age = x.age + 1
    BY <2>2, <1>0
  <2> QED BY <2>1, <2>2
<1>5. CacheTypeOK'
  <2>1. cache' \in [Procs -> Copies \union {None}]
    <3>1. cache' = [p \in Procs |-> cache'[p]]
      BY DEF CacheTick
    <3> QED BY <3>1, <1>2
  <2>2. reader' \in [Readers -> ReadRows]
    <3>1. reader' = [r \in Readers |-> reader'[r]]
      BY DEF CacheTick
    <3> QED BY <3>1, <1>3
  <2> QED BY <2>1, <2>2, <1>4, <1>0 DEF ConfigInv, CacheTypeOK, ReadRows
<1>6. ASSUME NEW row, NEW age \in Nat, age + 1 < ConfigTTL, WasStored(row, age)
      PROVE  WasStored(row, age + 1)'
  <2>1. CASE row = stored \/ (held # None /\ edit[held].route = "modify" /\ row = edit[held].value)
    BY <2>1, <1>0 DEF WasStored
  <2>2. CASE \E x \in past : x.row = row /\ x.age <= age
    <3>1. PICK x \in past : x.row = row /\ x.age <= age
      BY <2>2
    <3>2. x.age \in Nat /\ x.age < ConfigTTL
      BY <3>1, <1>6, <1>0
    <3>3. PICK y \in past' : y.row = x.row /\ y.age = x.age + 1
      BY <3>2, <1>4
    <3>4. y.row = row /\ y.age <= age + 1
      BY <3>1, <3>2, <3>3
    <3> QED BY <3>4 DEF WasStored
  <2> QED BY <2>1, <2>2, <1>6 DEF WasStored
<1>7. CopyInv'
  <2>1. ASSUME NEW p \in Procs, Fresh(p)' PROVE WasStored(cache[p].row, cache[p].age)'
    <3>1. cache[p] # None /\ cache'[p].age = cache[p].age + 1 /\ cache'[p].row = cache[p].row /\ cache[p].age + 1 < ConfigTTL
      BY <2>1, <1>2 DEF Fresh
    <3>2. PICK row \in {cache[p].row}, age \in Nat : row = cache[p].row /\ age = cache[p].age
      BY <3>1, <1>2
    <3>3. age < ConfigTTL /\ age + 1 < ConfigTTL
      BY <3>1, <3>2, <1>0
    <3>4. WasStored(row, age)
      BY <3>1, <3>2, <3>3 DEF ConfigInv, CopyInv, Fresh
    <3>5. WasStored(row, age + 1)'
      BY <3>3, <3>4, <1>6
    <3> QED BY <3>1, <3>2, <3>5 DEF WasStored
  <2>2. ASSUME NEW r \in Readers, reader'[r].pc = "read", reader'[r].age < ConfigTTL
        PROVE  WasStored(reader[r].row, reader[r].age)'
    <3>1. /\ reader[r].pc = "read" /\ reader'[r].age = reader[r].age + 1 /\ reader'[r].row = reader[r].row
          /\ reader[r].age + 1 < ConfigTTL
      BY <2>2, <1>3
    <3>2. PICK row \in {reader[r].row}, age \in Nat : row = reader[r].row /\ age = reader[r].age
      BY <1>3
    <3>3. age < ConfigTTL /\ age + 1 < ConfigTTL
      BY <3>1, <3>2, <1>0
    <3>4. WasStored(row, age)
      BY <3>1, <3>2, <3>3 DEF ConfigInv, CopyInv
    <3>5. WasStored(row, age + 1)'
      BY <3>3, <3>4, <1>6
    <3> QED BY <3>1, <3>2, <3>5 DEF WasStored
  <2>3. \A r \in Readers : reader'[r].pc # "idle" => reader'[r].proc \in Procs
    BY <1>3 DEF ConfigInv, CopyInv
  <2> QED BY <2>1, <2>2, <2>3 DEF CopyInv
<1>8. ReachInv'
  BY <1>0, <1>2, <1>3 DEF ConfigInv, ReachInv
<1>9. EditInv' /\ EditsKept'
  BY <1>0 DEF ConfigInv, EditInv, EditOK, EditsKept
<1> QED BY <1>5, <1>7, <1>8, <1>9 DEF ConfigInv

LEMMA ConfigStep == ConfigInv /\ [CNext]_ccVars => ConfigInv'
<1> SUFFICES ASSUME ConfigInv, [CNext]_ccVars PROVE ConfigInv' OBVIOUS
<1>1. CASE \E e \in Edits, p \in Procs \ Listeners :
         \/ \E names \in SUBSET Fields \ {{}} :
              UpdateSmtpConfig(e, p, names) \/ UpdateGoogleConfig(e, p, names) \/ UpdateTelegramConfig(e, p, names)
         \/ UpdateMaintenance(e, p) \/ UpdateAdminSecurity(e, p) \/ UpdateRetention(e, p)
         \/ \E f \in Fields :
              \/ UpdateFeatureFlag(e, p, f) \/ RegisterTelegramWebhook(e, p, f) \/ DeleteTelegramWebhook(e, p, f)
              \/ LinkTelegramChat(e, p, f) \/ UnlinkTelegramChat(e, p, f) \/ ConsumeLinkToken(e, p, f)
  BY <1>1, BeginsStep
<1>2. CASE \E e \in Edits : SetConfigRead(e)
  BY <1>2, ReadStep
<1>3. CASE \E e \in Edits : SetConfigFlush(e) \/ \E f \in Fields : SetConfigAgain(e, f)
  BY <1>3, FlushStep
<1>4. CASE \E e \in Edits : SetConfigConflict(e)
  BY <1>4, ConflictStep
<1>5. CASE \E e \in Edits : ReplyInSession(e)
  BY <1>5, ReplyStep
<1>6. CASE \E e \in Edits : SetConfigCommit(e)
  BY <1>6, CommitStep
<1>7. CASE \E e \in Edits : EditFails(e)
  BY <1>7, FailStep
<1>8. CASE \E r \in Readers : \E p \in Procs : ResolveSmtp(r, p) \/ ResolveTelegram(r, p) \/ ResolveGoogleOauth(r, p)
  BY <1>8, ReaderStep DEF ResolveSmtp, ResolveTelegram, ResolveGoogleOauth
<1>9. CASE \E r \in Readers : ReadRow(r)
  BY <1>9, ReaderStep
<1>10. CASE \E r \in Readers : StoreEntry(r)
  BY <1>10, StoreStep
<1>11. CASE \E p \in Procs : Hear(p) \/ CacheInvalidate(p)
  BY <1>11, DropStep
<1>12. CASE CacheTick
  BY <1>12, CacheAges
<1>13. CASE UNCHANGED ccVars
  BY <1>13 DEF ccVars, ConfigInv, CacheTypeOK, EditInv, EditOK, CopyInv, WasStored, Fresh, ReachInv, EditsKept
<1> QED BY <1>1, <1>2, <1>3, <1>4, <1>5, <1>6, <1>7, <1>8, <1>9, <1>10, <1>11, <1>12, <1>13 DEF CNext

(* What a process serves was stored, or flushed by its own request, no      *)
(* longer ago than its copy is old; a process that an edit has reached      *)
(* serves the current row; and a committed change of a field stays unless   *)
(* an edit that had read the row before wrote it back (get_decrypted,       *)
(* set_config, listen_invalidations), for any number of edits and reads.    *)
THEOREM ConfigurationIsServed == CSpec => []ConfigHolds
<1>1. ConfigInv => ConfigHolds
  <2> SUFFICES ASSUME ConfigInv PROVE ServedWasStored /\ ReachedIsCurrent
    BY DEF ConfigInv, ConfigHolds
  <2>1. ServedWasStored
    BY DEF ConfigInv, CopyInv, WasStored, ServedWasStored
  <2>2. ReachedIsCurrent
    BY DEF ConfigInv, ReachInv, ReachedIsCurrent, Fresh
  <2> QED BY <2>1, <2>2
<1> QED BY <1>1, ConfigInit, ConfigStep, PTL DEF CSpec
=============================================================================
