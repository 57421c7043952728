---------------------------- MODULE WalletProofs ----------------------------
(***************************************************************************)
(* Theorems about Wallet for any users, keys, sessions and amounts.        *)
(***************************************************************************)
EXTENDS Wallet, SequenceTheorems, TLAPS

(***************************************************************************)
(* The inductive invariant, part by part.                                  *)
(***************************************************************************)

\* What the program counter of a session says about its other variables.
SessionInv ==
    \A s \in Sessions :
        /\ pc[s] = "closed" => pend[s] = <<>>
        /\ pc[s] # "closed" => who[s] \in Users
        /\ pc[s] \in {"lock", "flush"} =>
              /\ req[s] \in Request
              /\ \A i \in DOMAIN pend[s] : pend[s][i].key # req[s].key
        /\ pc[s] = "flush" => cached[s] \in Int /\ cached[s] + req[s].amt >= 0
        /\ pend[s] # <<>> => cached[s] = pend[s][Len(pend[s])].after
        /\ \A i \in DOMAIN pend[s] : pend[s][i].user = who[s] /\ pend[s][i].after >= 0

\* A session holds at most the lock of its own user, and holds it when it has
\* written.
LockInv ==
    \A s \in Sessions :
        /\ \A u \in Users : lock[u] = s => pc[s] # "closed" /\ who[s] = u
        /\ pend[s] # <<>> => lock[who[s]] = s

\* No key is in two places.
KeyInv ==
    /\ KeysUsedOnce
    /\ \A s \in Sessions : \A i \in DOMAIN pend[s] :
          /\ \A u \in Users : \A j \in DOMAIN ledger[u] : ledger[u][j].key # pend[s][i].key
          /\ \A j \in DOMAIN pend[s] : pend[s][i].key = pend[s][j].key => i = j
          /\ \A t \in Sessions \ {s} : \A j \in DOMAIN pend[t] :
                pend[t][j].key # pend[s][i].key

Inv == TypeOK /\ SessionInv /\ LockInv /\ KeyInv /\ NoOverdraft

\* What FOR UPDATE buys the sessions that had not loaded the user: a balance
\* is in the identity map only under the lock, and the session's own rows
\* continue from the committed balance.
ChainInv ==
    /\ LedgerChain
    /\ \A s \in Sessions :
          /\ cached[s] # None =>
                /\ pc[s] # "closed" /\ lock[who[s]] = s
                /\ pend[s] = <<>> => cached[s] = balance[who[s]]
          /\ \A i \in DOMAIN pend[s] :
                pend[s][i].after = (IF i = 1 THEN balance[who[s]] ELSE pend[s][i - 1].after)
                                      + pend[s][i].amt

USE AmountsAssumption, PreloadedAssumption, PostgresAssumption, NoneAssumption

(***************************************************************************)
(* The elements of a sequence of rows are rows.                            *)
(***************************************************************************)
LEMMA ElementsType ==
    ASSUME NEW rows \in Seq(Row), NEW r \in Elements(rows)
    PROVE  r \in Row /\ \E i \in DOMAIN rows : rows[i] = r
BY DEF Elements

\* The committed rows are rows.
LEMMA CommittedType ==
    ASSUME TypeOK, NEW r \in Committed
    PROVE  /\ r \in Row
           /\ \E u \in Users : \E i \in DOMAIN ledger[u] : ledger[u][i] = r
BY DEF Committed, Elements, TypeOK

\* The last row of a ledger has an integer balance.
LEMMA LastRow ==
    ASSUME NEW rows \in Seq(Row), rows # <<>>
    PROVE  /\ Len(rows) \in DOMAIN rows /\ Len(rows) \in Nat \ {0}
           /\ rows[Len(rows)] \in Row /\ rows[Len(rows)].after \in Int
<1>1. Len(rows) \in Nat \ {0}
  BY EmptySeq, Zenon
<1>2. Len(rows) \in DOMAIN rows
  BY <1>1, LenProperties
<1>3. rows[Len(rows)] \in Row
  BY <1>2, ElementOfSeq
<1> QED
  BY <1>1, <1>2, <1>3 DEF Row

\* Appending a row to a sequence of rows.
LEMMA AppendFacts ==
    ASSUME NEW rows \in Seq(Row), NEW row \in Row, NEW new, new = Append(rows, row)
    PROVE  /\ new # <<>> /\ new[Len(new)] = row
           /\ Len(new) = Len(rows) + 1 /\ new[Len(rows) + 1] = row
           /\ DOMAIN new = 1..(Len(rows) + 1)
           /\ DOMAIN rows = 1..Len(rows) /\ Len(rows) \in Nat
           /\ \A i \in DOMAIN rows : new[i] = rows[i]
           /\ \A i \in DOMAIN new : new[i] = row \/ (i \in DOMAIN rows /\ new[i] = rows[i])
<1>1. Len(new) = Len(rows) + 1 /\ DOMAIN new = 1..(Len(rows) + 1)
  OBVIOUS
<1>2. DOMAIN rows = 1..Len(rows) /\ Len(rows) \in Nat
  OBVIOUS
<1>3. new[Len(rows) + 1] = row /\ \A i \in DOMAIN rows : new[i] = rows[i]
  OBVIOUS
<1>4. new # <<>> /\ new[Len(new)] = row
  BY <1>1, <1>2, <1>3
<1>5. ASSUME NEW i \in DOMAIN new
      PROVE  new[i] = row \/ (i \in DOMAIN rows /\ new[i] = rows[i])
  <2>1. i = Len(rows) + 1 \/ i \in DOMAIN rows
    BY <1>1, <1>2
  <2> QED
    BY <2>1, <1>3
<1> QED
  BY <1>1, <1>2, <1>3, <1>4, <1>5

\* Concatenating two sequences of rows, as Commit does.
LEMMA ConcatFacts ==
    ASSUME NEW old \in Seq(Row), NEW rows \in Seq(Row), NEW new, new = old \o rows
    PROVE  /\ Len(new) = Len(old) + Len(rows) /\ Len(old) \in Nat /\ Len(rows) \in Nat
           /\ DOMAIN new = 1..(Len(old) + Len(rows))
           /\ DOMAIN old = 1..Len(old) /\ DOMAIN rows = 1..Len(rows)
           /\ \A i \in DOMAIN old : new[i] = old[i]
           /\ \A i \in DOMAIN new \ DOMAIN old :
                 i - Len(old) \in DOMAIN rows /\ new[i] = rows[i - Len(old)]
           /\ rows # <<>> => new[Len(new)] = rows[Len(rows)]
<1>1. /\ Len(new) = Len(old) + Len(rows) /\ Len(old) \in Nat /\ Len(rows) \in Nat
      /\ DOMAIN new = 1..(Len(old) + Len(rows))
      /\ DOMAIN old = 1..Len(old) /\ DOMAIN rows = 1..Len(rows)
  OBVIOUS
<1>2. \A i \in 1..(Len(old) + Len(rows)) :
         new[i] = IF i <= Len(old) THEN old[i] ELSE rows[i - Len(old)]
  BY ConcatProperties
<1>3. \A i \in DOMAIN new \ DOMAIN old :
         i - Len(old) \in DOMAIN rows /\ new[i] = rows[i - Len(old)]
  BY <1>1, <1>2
<1>4. \A i \in DOMAIN old : new[i] = old[i]
  BY <1>1, <1>2
<1>5. rows # <<>> => new[Len(new)] = rows[Len(rows)]
  BY <1>1, <1>2, LastRow
<1> QED
  BY <1>1, <1>3, <1>4, <1>5

\* A session that has flushed a row has the balance it wrote in its
\* identity map.
LEMMA CachedWhenWritten ==
    ASSUME TypeOK, SessionInv, NEW s \in Sessions, pend[s] # <<>>
    PROVE  cached[s] \in Int /\ cached[s] # None
<1>1. cached[s] = pend[s][Len(pend[s])].after
  BY DEF SessionInv
<1>2. pend[s] \in Seq(Row)
  BY DEF TypeOK
<1> QED
  BY <1>1, <1>2, LastRow

\* What a commit does to the user's ledger and balance.
CommitEffect(s, w) ==
    /\ w \in Users /\ ledger[w] \in Seq(Row) /\ pend[s] \in Seq(Row)
    /\ \A u \in Users \ {w} : ledger'[u] = ledger[u] /\ balance'[u] = balance[u]
    /\ balance'[w] = IF pend[s] = <<>> THEN balance[w] ELSE cached[s]
    /\ Len(ledger[w]) \in Nat /\ Len(pend[s]) \in Nat
    /\ DOMAIN ledger'[w] = 1..(Len(ledger[w]) + Len(pend[s]))
    /\ DOMAIN ledger[w] = 1..Len(ledger[w]) /\ DOMAIN pend[s] = 1..Len(pend[s])
    /\ Len(ledger'[w]) = Len(ledger[w]) + Len(pend[s])
    /\ \A i \in DOMAIN ledger[w] : ledger'[w][i] = ledger[w][i]
    /\ \A i \in DOMAIN ledger'[w] \ DOMAIN ledger[w] :
          /\ i - Len(ledger[w]) \in DOMAIN pend[s]
          /\ ledger'[w][i] = pend[s][i - Len(ledger[w])]
    /\ pend[s] # <<>> => /\ ledger'[w][Len(ledger'[w])] = pend[s][Len(pend[s])]
                         /\ Len(pend[s]) > 0 /\ ledger'[w] # <<>>
    /\ pend[s] = <<>> => ledger'[w] = ledger[w]
    /\ pend' = [pend EXCEPT ![s] = <<>>] /\ pend \in [Sessions -> Seq(Row)]

\* What Commit leaves: the rows of the session follow those of its user.
LEMMA CommitFacts ==
    ASSUME TypeOK, SessionInv, NEW s \in Sessions, Commit(s)
    PROVE  \E w \in Users : w = who[s] /\ CommitEffect(s, w)
<1>0. PICK w \in Users : w = who[s]
  BY DEF Commit, SessionInv
<1>1. w \in Users /\ ledger[w] \in Seq(Row) /\ pend[s] \in Seq(Row)
  BY <1>0 DEF Commit, SessionInv, TypeOK
<1>2. ledger'[w] = ledger[w] \o pend[s]
  BY <1>0, <1>1 DEF Commit, TypeOK
<1>3. balance'[w] = IF pend[s] = <<>> THEN balance[w] ELSE cached[s]
  BY <1>0, <1>1 DEF Commit, TypeOK
<1>4. \A u \in Users \ {w} : ledger'[u] = ledger[u] /\ balance'[u] = balance[u]
  BY <1>0 DEF Commit, TypeOK
<1>5. pend' = [pend EXCEPT ![s] = <<>>] /\ pend \in [Sessions -> Seq(Row)]
  BY DEF Commit, Close, TypeOK
<1>6. pend[s] = <<>> => ledger'[w] = ledger[w]
  BY <1>1, <1>2, ConcatEmptySeq
<1>7. pend[s] # <<>> => Len(pend[s]) > 0 /\ ledger'[w] # <<>>
  <2>1. pend[s] # <<>> => Len(pend[s]) > 0
    BY <1>1, LastRow
  <2>2. Len(ledger'[w]) = Len(ledger[w]) + Len(pend[s]) /\ Len(ledger[w]) \in Nat /\ Len(pend[s]) \in Nat
    BY <1>1, <1>2, ConcatFacts
  <2>3. ledger'[w] = <<>> => Len(ledger'[w]) = 0
    OBVIOUS
  <2>4. Len(pend[s]) > 0 => Len(ledger'[w]) # 0
    <3>1. \A a, b \in Nat : b > 0 => a + b # 0
      OBVIOUS
    <3> QED
      BY <2>2, <3>1, Zenon
  <2> QED
    BY <2>1, <2>3, <2>4, Zenon
<1>8. CommitEffect(s, w)
  BY <1>1, <1>2, <1>3, <1>4, <1>5, <1>6, <1>7, ConcatFacts DEF CommitEffect
<1> QED
  BY <1>0, <1>8

\* The signed amount of a call is an integer.
LEMMA SignedInt == ASSUME NEW type, NEW a \in Amounts PROVE Signed(type, a) \in Int
BY DEF Signed

(***************************************************************************)
(* Type correctness.                                                       *)
(***************************************************************************)
LEMMA TypeStep ==
    ASSUME TypeOK, SessionInv, [Next]_vars
    PROVE  TypeOK'
<1> USE DEF TypeOK
<1>1. ASSUME NEW s \in Sessions, NEW u \in Users, Open(s, u)
      PROVE  TypeOK'
  BY <1>1 DEF Open
<1>2. ASSUME NEW s \in Sessions, NEW type \in Types, NEW a \in Amounts, IllegalAmount(s, type, a)
      PROVE  TypeOK'
  BY <1>2 DEF IllegalAmount, Raise
<1>3. ASSUME NEW s \in Sessions, NEW type \in Types, NEW a \in Amounts, NEW k \in Keys,
             KnownKey(s, type, a, k)
      PROVE  TypeOK'
  <2>1. PICK r \in Visible(s) :
              answer' = [answer EXCEPT ![s] =
                 IF Answers(r, who[s], [type |-> type, amt |-> Signed(type, a), key |-> k])
                 THEN r ELSE None]
    BY <1>3 DEF KnownKey
  <2>2. r \in Row
    BY CommittedType, ElementsType DEF Visible
  <2> QED
    BY <1>3, <2>1, <2>2 DEF KnownKey
<1>4. ASSUME NEW s \in Sessions, NEW type \in Types, NEW a \in Amounts, NEW k \in Keys,
             NewKey(s, type, a, k)
      PROVE  TypeOK'
  BY <1>4, SignedInt DEF NewKey, Request
<1>5. ASSUME NEW s \in Sessions, LockUser(s)
      PROVE  TypeOK'
  <2>1. who[s] \in Users
    BY <1>5 DEF LockUser, SessionInv
  <2> QED
    BY <1>5, <2>1 DEF LockUser, Raise
<1>6. ASSUME NEW s \in Sessions, Flush(s)
      PROVE  TypeOK'
  <2> DEFINE row == [user |-> who[s], type |-> req[s].type, amt |-> req[s].amt,
                     key |-> req[s].key, after |-> cached[s] + req[s].amt]
  <2>1. who[s] \in Users /\ req[s] \in Request /\ cached[s] \in Int
    BY <1>6 DEF Flush, SessionInv
  <2>2. row \in Row /\ cached[s] + req[s].amt \in Int
    BY <2>1 DEF Row, Request
  <2>3. pend' = [pend EXCEPT ![s] = Append(@, row)] /\ answer' = [answer EXCEPT ![s] = row]
    BY <1>6 DEF Flush
  <2>4. pend' \in [Sessions -> Seq(Row)]
    BY <2>2, <2>3
  <2> QED
    BY <1>6, <2>1, <2>2, <2>3, <2>4 DEF Flush
<1>7. ASSUME NEW s \in Sessions, FlushDuplicate(s)
      PROVE  TypeOK'
  BY <1>7, CommittedType DEF FlushDuplicate, Released
<1>8. ASSUME NEW s \in Sessions, Commit(s)
      PROVE  TypeOK'
  <2>1. pend[s] # <<>> => cached[s] \in Int
    BY CachedWhenWritten
  <2>2. who[s] \in Users
    BY <1>8 DEF Commit, SessionInv
  <2>3. ledger' \in [Users -> Seq(Row)]
    BY <1>8, <2>2 DEF Commit
  <2>4. balance' \in [Users -> Int]
    BY <1>8, <2>1, <2>2 DEF Commit
  <2> QED
    BY <1>8, <2>3, <2>4 DEF Commit, Close, Released
<1>9. ASSUME NEW s \in Sessions, Rollback(s)
      PROVE  TypeOK'
  BY <1>9 DEF Rollback, Close, Released, dbvars
<1>10. CASE UNCHANGED vars
  BY <1>10 DEF vars
<1> QED
  BY <1>1, <1>2, <1>3, <1>4, <1>5, <1>6, <1>7, <1>8, <1>9, <1>10 DEF Next, Step

(***************************************************************************)
(* Sessions and locks.                                                     *)
(***************************************************************************)
LEMMA SessionStep ==
    ASSUME TypeOK, TypeOK', SessionInv, LockInv, [Next]_vars
    PROVE  SessionInv' /\ LockInv'
<1> USE DEF TypeOK, SessionInv, LockInv
<1>1. ASSUME NEW s \in Sessions, NEW u \in Users, Open(s, u)
      PROVE  SessionInv' /\ LockInv'
  BY <1>1 DEF Open
<1>2. ASSUME NEW s \in Sessions, NEW type \in Types, NEW a \in Amounts, IllegalAmount(s, type, a)
      PROVE  SessionInv' /\ LockInv'
  BY <1>2 DEF IllegalAmount, Raise
<1>3. ASSUME NEW s \in Sessions, NEW type \in Types, NEW a \in Amounts, NEW k \in Keys,
             KnownKey(s, type, a, k)
      PROVE  SessionInv' /\ LockInv'
  BY <1>3 DEF KnownKey
<1>4. ASSUME NEW s \in Sessions, NEW type \in Types, NEW a \in Amounts, NEW k \in Keys,
             NewKey(s, type, a, k)
      PROVE  SessionInv' /\ LockInv'
  BY <1>4, SignedInt DEF NewKey, Request, Visible, Elements
<1>5. ASSUME NEW s \in Sessions, LockUser(s)
      PROVE  SessionInv' /\ LockInv'
  <2> DEFINE u == who[s]
             seen == IF cached[s] = None THEN balance[u] ELSE cached[s]
  <2>1. u \in Users /\ seen \in Int /\ req[s] \in Request
    BY <1>5 DEF LockUser
  <2>2. /\ cached' = [cached EXCEPT ![s] = seen]
        /\ pc' \in {[pc EXCEPT ![s] = "flush"], [pc EXCEPT ![s] = "open"]}
        /\ pc'[s] = "flush" => seen + req[s].amt >= 0 /\ req' = req
        /\ \A t \in Sessions \ {s} : req'[t] = req[t]
        /\ lock' \in {lock, [lock EXCEPT ![u] = s]}
        /\ UNCHANGED <<who, pend>>
        /\ pc[s] = "lock" /\ (lock' # lock => lock[u] \in {None, s})
    BY <1>5 DEF LockUser, Raise
  <2>3. pend[s] # <<>> => cached[s] # None
    BY CachedWhenWritten
  <2>4. SessionInv'
    <3> SUFFICES ASSUME NEW t \in Sessions
                 PROVE  SessionInv!(t)'
      BY Zenon DEF SessionInv
    <3>1. CASE t = s
      <4>1. pend[s] # <<>> => cached'[s] = cached[s]
        BY <2>2, <2>3
      <4> QED
        BY <2>1, <2>2, <3>1, <4>1
    <3>2. CASE t # s
      BY <2>2, <3>2, SMTT(30)
    <3> QED
      BY <3>1, <3>2
  <2>5. LockInv'
    BY <2>1, <2>2, SMTT(30)
  <2> QED
    BY <2>4, <2>5
<1>6. ASSUME NEW s \in Sessions, Flush(s)
      PROVE  SessionInv' /\ LockInv'
  <2> DEFINE new == cached[s] + req[s].amt
             row == [user |-> who[s], type |-> req[s].type, amt |-> req[s].amt,
                     key |-> req[s].key, after |-> new]
  <2>1. /\ who[s] \in Users /\ req[s] \in Request /\ new \in Int /\ new >= 0
        /\ row \in Row
    BY <1>6 DEF Flush, Request, Row
  <2>2. pend' = [pend EXCEPT ![s] = Append(@, row)]
    BY <1>6 DEF Flush
  <2>3. /\ pend'[s] # <<>>
        /\ pend'[s][Len(pend'[s])] = row
        /\ \A i \in DOMAIN pend'[s] : pend'[s][i] = row \/ (i \in DOMAIN pend[s] /\ pend'[s][i] = pend[s][i])
    <3>1. pend'[s] = Append(pend[s], row) /\ pend[s] \in Seq(Row)
      BY <2>2
    <3>2. row \in Row
      BY <2>1
    <3> HIDE DEF row, TypeOK, SessionInv, LockInv
    <3> QED
      BY <3>1, <3>2, AppendFacts
  <2>4. SessionInv'
    BY <1>6, <2>1, <2>2, <2>3, SMTT(30) DEF Flush
  <2>5. LockInv'
    BY <1>6, <2>1, <2>2 DEF Flush, MayWrite
  <2> QED
    BY <2>4, <2>5
<1>7. ASSUME NEW s \in Sessions, FlushDuplicate(s)
      PROVE  SessionInv' /\ LockInv'
  BY <1>7 DEF FlushDuplicate, Released
<1>8. ASSUME NEW s \in Sessions, Commit(s)
      PROVE  SessionInv' /\ LockInv'
  BY <1>8 DEF Commit, Close, Released
<1>9. ASSUME NEW s \in Sessions, Rollback(s)
      PROVE  SessionInv' /\ LockInv'
  BY <1>9 DEF Rollback, Close, Released
<1>10. CASE UNCHANGED vars
  BY <1>10 DEF vars
<1> QED
  BY <1>1, <1>2, <1>3, <1>4, <1>5, <1>6, <1>7, <1>8, <1>9, <1>10 DEF Next, Step

(***************************************************************************)
(* Keys.  Only Flush makes a key, Commit moves it, the rest forgets it.    *)
(***************************************************************************)
LEMMA KeyStep ==
    ASSUME TypeOK, SessionInv, KeyInv, [Next]_vars
    PROVE  KeyInv'
<1> USE DEF KeyInv, KeysUsedOnce
<1>1. ASSUME UNCHANGED <<ledger, pend>>
      PROVE  KeyInv'
  BY <1>1
<1>2. ASSUME NEW s \in Sessions, UNCHANGED ledger, pend' = [pend EXCEPT ![s] = <<>>]
      PROVE  KeyInv'
  BY <1>2 DEF TypeOK
<1>3. ASSUME NEW s \in Sessions, Flush(s)
      PROVE  KeyInv'
  <2> DEFINE row == [user |-> who[s], type |-> req[s].type, amt |-> req[s].amt,
                     key |-> req[s].key, after |-> cached[s] + req[s].amt]
  <2>1. row \in Row
    BY <1>3 DEF Flush, SessionInv, Request, Row, TypeOK
  <2>2. /\ pend'[s] = Append(pend[s], row) /\ pend[s] \in Seq(Row)
        /\ \A t \in Sessions \ {s} : pend'[t] = pend[t]
        /\ ledger' = ledger
    BY <1>3 DEF Flush, TypeOK
  <2>3. /\ \A i \in DOMAIN pend[s] : pend[s][i].key # req[s].key
        /\ \A t \in Sessions \ {s} : \A i \in DOMAIN pend[t] : pend[t][i].key # req[s].key
        /\ \A u \in Users : \A i \in DOMAIN ledger[u] : ledger[u][i].key # req[s].key
    BY <1>3 DEF Flush, SessionInv, KeyBusy, Committed, Elements
  <2>4. row.key = req[s].key
    OBVIOUS
  <2> HIDE DEF row
  <2>5. /\ \A i \in DOMAIN pend'[s] :
              pend'[s][i] = row \/ (i \in DOMAIN pend[s] /\ pend'[s][i] = pend[s][i])
        /\ DOMAIN pend'[s] = 1..(Len(pend[s]) + 1) /\ DOMAIN pend[s] = 1..Len(pend[s])
        /\ Len(pend[s]) \in Nat
        /\ \A i \in DOMAIN pend[s] : pend'[s][i] = pend[s][i]
    BY <2>1, <2>2, AppendFacts
  <2>6. ASSUME NEW i \in DOMAIN pend'[s], NEW j \in DOMAIN pend'[s],
               pend'[s][i].key = pend'[s][j].key
        PROVE  i = j
    <3>1. CASE i \in DOMAIN pend[s] /\ j \in DOMAIN pend[s]
      BY <2>5, <2>6, <3>1
    <3>2. CASE i \notin DOMAIN pend[s] /\ j \notin DOMAIN pend[s]
      BY <2>5, <3>2
    <3>3. CASE i \in DOMAIN pend[s] /\ j \notin DOMAIN pend[s]
      BY <2>3, <2>4, <2>5, <2>6, <3>3
    <3>4. CASE i \notin DOMAIN pend[s] /\ j \in DOMAIN pend[s]
      BY <2>3, <2>4, <2>5, <2>6, <3>4
    <3> QED
      BY <3>1, <3>2, <3>3, <3>4
  <2>7. KeysUsedOnce'
    BY <2>2
  <2>8. ASSUME NEW t \in Sessions, NEW i \in DOMAIN pend'[t]
        PROVE  /\ \A u \in Users : \A j \in DOMAIN ledger'[u] : ledger'[u][j].key # pend'[t][i].key
               /\ \A r \in Sessions \ {t} : \A j \in DOMAIN pend'[r] :
                     pend'[r][j].key # pend'[t][i].key
    <3>1. CASE t = s
      <4>1. pend'[s][i] = row \/ (i \in DOMAIN pend[s] /\ pend'[s][i] = pend[s][i])
        BY <2>5, <3>1
      <4>2. CASE pend'[s][i] = row
        BY <2>2, <2>3, <2>4, <3>1, <4>2, SMTT(30)
      <4>3. CASE i \in DOMAIN pend[s] /\ pend'[s][i] = pend[s][i]
        BY <2>2, <3>1, <4>3
      <4> QED
        BY <4>1, <4>2, <4>3
    <3>2. CASE t # s
      <4>1. pend'[t] = pend[t]
        BY <2>2, <3>2
      <4>2. \A r \in Sessions \ {t, s} : pend'[r] = pend[r]
        BY <2>2
      <4>3. pend[t][i].key # req[s].key
        BY <2>3, <3>2, <4>1
      <4>4. \A j \in DOMAIN pend'[s] : pend'[s][j].key # pend[t][i].key
        BY <2>4, <2>5, <4>1, <4>3, <3>2
      <4> QED
        BY <2>2, <4>1, <4>2, <4>4, <3>2, SMTT(30)
    <3> QED
      BY <3>1, <3>2
  <2>9. ASSUME NEW t \in Sessions \ {s}, NEW i \in DOMAIN pend'[t], NEW j \in DOMAIN pend'[t],
               pend'[t][i].key = pend'[t][j].key
        PROVE  i = j
    BY <2>2, <2>9
  <2> QED
    BY <2>6, <2>7, <2>8, <2>9
<1>4. ASSUME NEW s \in Sessions, Commit(s)
      PROVE  KeyInv'
  <2>0. PICK w \in Users : w = who[s] /\ CommitEffect(s, w)
    BY <1>4, CommitFacts
  <2>1. /\ w \in Users
        /\ \A u \in Users \ {w} : ledger'[u] = ledger[u]
        /\ pend' = [pend EXCEPT ![s] = <<>>] /\ pend \in [Sessions -> Seq(Row)]
    BY <2>0 DEF CommitEffect
  <2>2. /\ \A i \in DOMAIN ledger[w] : ledger'[w][i] = ledger[w][i]
        /\ \A i \in DOMAIN ledger'[w] \ DOMAIN ledger[w] :
              /\ i - Len(ledger[w]) \in DOMAIN pend[s]
              /\ ledger'[w][i] = pend[s][i - Len(ledger[w])]
        /\ DOMAIN ledger'[w] = 1..(Len(ledger[w]) + Len(pend[s]))
        /\ Len(ledger[w]) \in Nat /\ Len(pend[s]) \in Nat
    BY <2>0 DEF CommitEffect
  <2>3. ASSUME NEW u \in Users, NEW i \in DOMAIN ledger'[u]
        PROVE  \/ i \in DOMAIN ledger[u] /\ ledger'[u][i] = ledger[u][i]
               \/ /\ u = w
                  /\ i - Len(ledger[w]) \in DOMAIN pend[s]
                  /\ ledger'[u][i] = pend[s][i - Len(ledger[w])]
    BY <2>1, <2>2
  <2>4. KeysUsedOnce'
    <3> SUFFICES ASSUME NEW u \in Users, NEW v \in Users,
                        NEW i \in DOMAIN ledger'[u], NEW j \in DOMAIN ledger'[v],
                        ledger'[u][i].key = ledger'[v][j].key
                 PROVE  u = v /\ i = j
      OBVIOUS
    <3>0. \A x \in Users : \A y \in DOMAIN ledger[x] : ledger'[x][y] = ledger[x][y]
      BY <2>1, <2>2
    <3>1. CASE i \in DOMAIN ledger[u] /\ j \in DOMAIN ledger[v]
      BY <3>0, <3>1
    <3>2. CASE i \notin DOMAIN ledger[u] /\ j \notin DOMAIN ledger[v]
      <4>0. u = w /\ v = w
        BY <2>3, <3>2
      <4>1. i - Len(ledger[w]) = j - Len(ledger[w])
        BY <2>3, <3>2, <4>0
      <4>2. i \in Int /\ j \in Int
        <5>1. i \in DOMAIN ledger'[w] /\ j \in DOMAIN ledger'[w]
          BY <4>0
        <5> QED
          BY <2>2, <5>1, SMT
      <4> QED
        BY <2>2, <4>0, <4>1, <4>2
    <3>3. CASE i \in DOMAIN ledger[u] /\ j \notin DOMAIN ledger[v]
      BY <2>3, <3>0, <3>3
    <3>4. CASE i \notin DOMAIN ledger[u] /\ j \in DOMAIN ledger[v]
      BY <2>3, <3>0, <3>4
    <3> QED
      BY <3>1, <3>2, <3>3, <3>4
  <2>5. ASSUME NEW t \in Sessions, NEW i \in DOMAIN pend'[t],
               NEW u \in Users, NEW j \in DOMAIN ledger'[u]
        PROVE  ledger'[u][j].key # pend'[t][i].key
    <3>1. t # s /\ pend'[t] = pend[t]
      BY <2>1, <2>5
    <3> QED
      BY <2>3, <2>5, <3>1
  <2>6. ASSUME NEW t \in Sessions, NEW i \in DOMAIN pend'[t]
        PROVE  /\ \A j \in DOMAIN pend'[t] : pend'[t][i].key = pend'[t][j].key => i = j
               /\ \A r \in Sessions \ {t} : \A j \in DOMAIN pend'[r] :
                     pend'[r][j].key # pend'[t][i].key
    BY <2>1, <2>6
  <2> QED
    BY <2>4, <2>5, <2>6
<1> QED
  <2>1. ASSUME NEW s \in Sessions, NEW u \in Users, Open(s, u) PROVE KeyInv'
    BY <1>1, <2>1 DEF Open
  <2>2. ASSUME NEW s \in Sessions, NEW type, NEW a, IllegalAmount(s, type, a) PROVE KeyInv'
    BY <1>1, <2>2 DEF IllegalAmount
  <2>3. ASSUME NEW s \in Sessions, NEW type, NEW a, NEW k, KnownKey(s, type, a, k) PROVE KeyInv'
    BY <1>1, <2>3 DEF KnownKey
  <2>4. ASSUME NEW s \in Sessions, NEW type, NEW a, NEW k, NewKey(s, type, a, k) PROVE KeyInv'
    BY <1>1, <2>4 DEF NewKey
  <2>5. ASSUME NEW s \in Sessions, LockUser(s) PROVE KeyInv'
    BY <1>1, <2>5 DEF LockUser
  <2>6. ASSUME NEW s \in Sessions, FlushDuplicate(s) PROVE KeyInv'
    BY <1>2, <2>6 DEF FlushDuplicate
  <2>7. ASSUME NEW s \in Sessions, Rollback(s) PROVE KeyInv'
    BY <1>2, <2>7 DEF Rollback, Close, dbvars
  <2>8. CASE UNCHANGED vars
    BY <1>1, <2>8 DEF vars
  <2> QED
    BY <1>3, <1>4, <2>1, <2>2, <2>3, <2>4, <2>5, <2>6, <2>7, <2>8 DEF Next, Step

(***************************************************************************)
(* Balances.  Only Commit touches them.                                    *)
(***************************************************************************)
LEMMA QuietStep ==
    ASSUME [Next]_vars
    PROVE  UNCHANGED <<ledger, balance>> \/ \E s \in Sessions : Commit(s)
<1>1. ASSUME NEW s \in Sessions, Step(s)
      PROVE  UNCHANGED <<ledger, balance>> \/ Commit(s)
  <2>1. ASSUME NEW u \in Users, Open(s, u) PROVE UNCHANGED <<ledger, balance>>
    BY <2>1 DEF Open
  <2>2. ASSUME NEW type, NEW a, IllegalAmount(s, type, a) PROVE UNCHANGED <<ledger, balance>>
    BY <2>2 DEF IllegalAmount
  <2>3. ASSUME NEW type, NEW a, NEW k, KnownKey(s, type, a, k)
        PROVE  UNCHANGED <<ledger, balance>>
    BY <2>3 DEF KnownKey
  <2>4. ASSUME NEW type, NEW a, NEW k, NewKey(s, type, a, k)
        PROVE  UNCHANGED <<ledger, balance>>
    BY <2>4 DEF NewKey
  <2>5. LockUser(s) => UNCHANGED <<ledger, balance>>
    BY DEF LockUser
  <2>6. Flush(s) \/ FlushDuplicate(s) => UNCHANGED <<ledger, balance>>
    BY DEF Flush, FlushDuplicate
  <2>7. Rollback(s) => UNCHANGED <<ledger, balance>>
    BY DEF Rollback, dbvars
  <2> QED
    BY <1>1, <2>1, <2>2, <2>3, <2>4, <2>5, <2>6, <2>7 DEF Step
<1>2. CASE UNCHANGED vars
  BY <1>2 DEF vars
<1> QED
  BY <1>1, <1>2 DEF Next

\* No step makes a committed balance or a balance_after negative.
LEMMA OverdraftStep ==
    ASSUME TypeOK, SessionInv, NoOverdraft, [Next]_vars
    PROVE  NoOverdraft'
<1>1. ASSUME UNCHANGED <<ledger, balance>>
      PROVE  NoOverdraft'
  BY <1>1 DEF NoOverdraft
<1>2. ASSUME NEW s \in Sessions, Commit(s)
      PROVE  NoOverdraft'
  <2>0. PICK w \in Users : w = who[s] /\ CommitEffect(s, w)
    BY <1>2, CommitFacts
  <2>1. /\ w \in Users /\ pend[s] \in Seq(Row)
        /\ balance'[w] = IF pend[s] = <<>> THEN balance[w] ELSE cached[s]
        /\ \A u \in Users \ {w} : ledger'[u] = ledger[u] /\ balance'[u] = balance[u]
    BY <2>0 DEF CommitEffect
  <2>2. pend[s] # <<>> => cached[s] >= 0
    BY <2>1, LastRow DEF SessionInv
  <2>3. \A i \in DOMAIN pend[s] : pend[s][i].after >= 0
    BY DEF SessionInv
  <2>4. /\ \A i \in DOMAIN ledger[w] : ledger'[w][i] = ledger[w][i]
        /\ \A i \in DOMAIN ledger'[w] \ DOMAIN ledger[w] :
              /\ i - Len(ledger[w]) \in DOMAIN pend[s]
              /\ ledger'[w][i] = pend[s][i - Len(ledger[w])]
    BY <2>0 DEF CommitEffect
  <2>5. \A i \in DOMAIN ledger'[w] : ledger'[w][i].after >= 0
    BY <2>1, <2>3, <2>4 DEF NoOverdraft
  <2>6. balance'[w] >= 0
    BY <2>1, <2>2 DEF NoOverdraft
  <2> QED
    BY <2>1, <2>5, <2>6 DEF NoOverdraft
<1> QED
  BY <1>1, <1>2, QuietStep

\* The invariant holds of the empty wallet ...
LEMMA InitInv == Init => Inv
BY DEF Init, Inv, TypeOK, SessionInv, LockInv, KeyInv, KeysUsedOnce, NoOverdraft

\* ... and every step preserves it.
LEMMA InvStep == Inv /\ [Next]_vars => Inv'
BY TypeStep, SessionStep, KeyStep, OverdraftStep DEF Inv

(***************************************************************************)
(* In every mode, preloaded callers and SQLite included, the types are     *)
(* kept (the state of wallet.py and of its sessions).                      *)
(***************************************************************************)
THEOREM TypeCorrect == Spec => []TypeOK
<1>1. Inv => TypeOK
  BY DEF Inv
<1> QED
  BY InitInv, InvStep, <1>1, PTL DEF Spec

(***************************************************************************)
(* In every mode a key is spent once and no committed balance is negative: *)
(* the UNIQUE key and the InsufficientFundsError check of _apply.          *)
(***************************************************************************)
THEOREM KeysAndOverdraft == Spec => [](KeysUsedOnce /\ NoOverdraft)
<1>1. Inv => KeysUsedOnce /\ NoOverdraft
  BY DEF Inv, KeyInv
<1> QED
  BY InitInv, InvStep, <1>1, PTL DEF Spec

(***************************************************************************)
(* In every mode the row a call answered with stays in sight of its        *)
(* session: committed rows never go, and the session's own rows go only    *)
(* with the answer.                                                        *)
(***************************************************************************)
LEMMA CommittedGrows ==
    ASSUME Inv, [Next]_vars
    PROVE  Committed \subseteq Committed'
<1> USE DEF Inv
<1>1. CASE ledger' = ledger
  BY <1>1 DEF Committed, Elements
<1>2. ASSUME NEW s \in Sessions, Commit(s)
      PROVE  Committed \subseteq Committed'
  <2>1. PICK w \in Users : CommitEffect(s, w)
    BY <1>2, CommitFacts
  <2>2. ASSUME NEW u \in Users, NEW i \in DOMAIN ledger[u]
        PROVE  i \in DOMAIN ledger'[u] /\ ledger'[u][i] = ledger[u][i]
    <3>1. CASE u # w
      BY <2>1, <2>2, <3>1 DEF CommitEffect
    <3>2. CASE u = w
      <4>1. \A a, b \in Nat : 1..a \subseteq 1..(a + b)
        OBVIOUS
      <4>2. DOMAIN ledger[w] \subseteq DOMAIN ledger'[w]
        BY <2>1, <4>1, Zenon DEF CommitEffect
      <4> QED BY <2>1, <2>2, <3>2, <4>2 DEF CommitEffect
    <3> QED BY <3>1, <3>2
  <2> QED
    BY <2>2 DEF Committed, Elements
<1>3. ledger' = ledger \/ \E s \in Sessions : Commit(s)
  <2>1. ASSUME NEW s \in Sessions, Step(s)
        PROVE  ledger' = ledger \/ Commit(s)
    BY <2>1 DEF Step, Open, IllegalAmount, KnownKey, NewKey, LockUser, Flush, FlushDuplicate,
                Rollback, dbvars
  <2>2. CASE UNCHANGED vars
    BY <2>2 DEF vars
  <2> QED BY <2>1, <2>2 DEF Next
<1> QED
  BY <1>1, <1>2, <1>3

LEMMA AnswerStep ==
    ASSUME Inv, Inv', AnswerOnRecord, [Next]_vars
    PROVE  AnswerOnRecord'
<1> SUFFICES ASSUME NEW t \in Sessions, answer'[t] # None
             PROVE  answer'[t] \in Committed' \cup Elements(pend'[t])
  BY DEF AnswerOnRecord, Visible, Elements
<1>0. /\ Committed \subseteq Committed'
      /\ answer[t] # None => answer[t] \in Committed \cup Elements(pend[t])
  BY CommittedGrows DEF AnswerOnRecord, Visible
<1> USE DEF Inv, TypeOK
<1>1. ASSUME NEW s \in Sessions, NEW u \in Users, Open(s, u)
      PROVE  answer'[t] \in Committed' \cup Elements(pend'[t])
  BY <1>0, <1>1 DEF Open
<1>2. ASSUME NEW s \in Sessions, NEW type \in Types, NEW a \in Amounts, IllegalAmount(s, type, a)
      PROVE  answer'[t] \in Committed' \cup Elements(pend'[t])
  BY <1>0, <1>2 DEF IllegalAmount, Raise
<1>3. ASSUME NEW s \in Sessions, NEW type \in Types, NEW a \in Amounts, NEW k \in Keys,
             KnownKey(s, type, a, k)
      PROVE  answer'[t] \in Committed' \cup Elements(pend'[t])
  BY <1>0, <1>3 DEF KnownKey, Visible
<1>4. ASSUME NEW s \in Sessions, NEW type \in Types, NEW a \in Amounts, NEW k \in Keys,
             NewKey(s, type, a, k)
      PROVE  answer'[t] \in Committed' \cup Elements(pend'[t])
  BY <1>0, <1>4 DEF NewKey
<1>5. ASSUME NEW s \in Sessions, LockUser(s)
      PROVE  answer'[t] \in Committed' \cup Elements(pend'[t])
  <2>1. /\ pend' = pend
        /\ answer' = answer \/ answer' = [answer EXCEPT ![s] = None]
    BY <1>5 DEF LockUser, Raise
  <2> QED BY <1>0, <2>1
<1>6. ASSUME NEW s \in Sessions, Flush(s)
      PROVE  answer'[t] \in Committed' \cup Elements(pend'[t])
  <2>1. CASE t = s
    <3> DEFINE row == [user |-> who[s], type |-> req[s].type, amt |-> req[s].amt,
                       key |-> req[s].key, after |-> cached[s] + req[s].amt]
    <3>1. pend'[s] = Append(pend[s], row) /\ answer'[s] = row
      BY <1>6 DEF Flush
    <3>2. pend[s] \in Seq(Row) /\ row \in Row
      BY <2>1, <3>1
    <3> HIDE DEF row
    <3>3. /\ DOMAIN pend'[s] = 1..(Len(pend[s]) + 1) /\ Len(pend[s]) \in Nat
          /\ pend'[s][Len(pend[s]) + 1] = row
      BY <3>1, <3>2, AppendFacts
    <3>4. Len(pend[s]) + 1 \in DOMAIN pend'[s]
      BY <3>3
    <3>5. row \in Elements(pend'[s])
      BY <3>3, <3>4, Zenon DEF Elements
    <3> QED BY <2>1, <3>1, <3>5
  <2>2. CASE t # s
    BY <1>0, <1>6, <2>2 DEF Flush
  <2> QED BY <2>1, <2>2
<1>7. ASSUME NEW s \in Sessions, FlushDuplicate(s)
      PROVE  answer'[t] \in Committed' \cup Elements(pend'[t])
  BY <1>0, <1>7 DEF FlushDuplicate
<1>8. ASSUME NEW s \in Sessions, Commit(s) \/ Rollback(s)
      PROVE  answer'[t] \in Committed' \cup Elements(pend'[t])
  <2>1. Close(s)
    BY <1>8 DEF Commit, Rollback
  <2> QED BY <1>0, <2>1 DEF Close
<1>9. CASE UNCHANGED vars
  BY <1>0, <1>9 DEF vars
<1> QED
  BY <1>1, <1>2, <1>3, <1>4, <1>5, <1>6, <1>7, <1>8, <1>9 DEF Next, Step

(***************************************************************************)
(* The row a call returned is on record, on the IntegrityError path too:   *)
(* the transaction that won the key has committed (wallet.py:103-111).     *)
(***************************************************************************)
THEOREM AnswersAreOnRecord == Spec => []AnswerOnRecord
<1>1. Init => Inv /\ AnswerOnRecord
  BY InitInv DEF Init, AnswerOnRecord
<1>2. Inv /\ AnswerOnRecord /\ [Next]_vars => (Inv /\ AnswerOnRecord)'
  BY InvStep, AnswerStep
<1> QED
  BY <1>1, <1>2, PTL DEF Spec

(***************************************************************************)
(* The serialized mode.  A row in the making continues from the balance    *)
(* that nobody else can move while the lock is held.                       *)
(***************************************************************************)
LEMMA ChainStep ==
    ASSUME Serialized, Inv, ChainInv, [Next]_vars
    PROVE  ChainInv'
<1> USE DEF Serialized, ChainInv, Inv
<1>1. ASSUME NEW s \in Sessions, NEW u \in Users, Open(s, u)
      PROVE  ChainInv'
  <2>1. pend[s] = <<>> /\ cached'[s] = None
    BY <1>1 DEF Open, SessionInv, TypeOK
  <2>2. /\ UNCHANGED <<balance, ledger, lock, pend>>
        /\ \A t \in Sessions \ {s} : pc'[t] = pc[t] /\ who'[t] = who[t] /\ cached'[t] = cached[t]
    BY <1>1 DEF Open, TypeOK
  <2> QED
    BY <2>1, <2>2 DEF LedgerChain
<1>2. ASSUME NEW s \in Sessions, NEW type \in Types, NEW a \in Amounts, IllegalAmount(s, type, a)
      PROVE  ChainInv'
  BY <1>2 DEF IllegalAmount, Raise, TypeOK, LedgerChain
<1>3. ASSUME NEW s \in Sessions, NEW type \in Types, NEW a \in Amounts, NEW k \in Keys,
             KnownKey(s, type, a, k)
      PROVE  ChainInv'
  BY <1>3 DEF KnownKey, LedgerChain
<1>4. ASSUME NEW s \in Sessions, NEW type \in Types, NEW a \in Amounts, NEW k \in Keys,
             NewKey(s, type, a, k)
      PROVE  ChainInv'
  BY <1>4 DEF NewKey, TypeOK, LedgerChain
<1>5. ASSUME NEW s \in Sessions, LockUser(s)
      PROVE  ChainInv'
  <2>1. /\ who[s] \in Users
        /\ cached[s] = None => pend[s] = <<>>
    BY <1>5, CachedWhenWritten DEF LockUser, SessionInv
  <2>2. /\ lock[who[s]] \in {None, s} /\ lock' = [lock EXCEPT ![who[s]] = s]
        /\ cached' = [cached EXCEPT ![s] = IF cached[s] = None THEN balance[who[s]] ELSE cached[s]]
        /\ pc' \in {[pc EXCEPT ![s] = "flush"], [pc EXCEPT ![s] = "open"]}
        /\ UNCHANGED <<balance, ledger, who, pend>>
    BY <1>5 DEF LockUser, Raise
  <2> QED
    BY <2>1, <2>2 DEF TypeOK, LedgerChain
<1>6. ASSUME NEW s \in Sessions, Flush(s)
      PROVE  ChainInv'
  <2> DEFINE new == cached[s] + req[s].amt
             row == [user |-> who[s], type |-> req[s].type, amt |-> req[s].amt,
                     key |-> req[s].key, after |-> new]
  <2>1. /\ who[s] \in Users /\ req[s] \in Request /\ cached[s] \in Int /\ cached[s] # None
        /\ row \in Row
    BY <1>6 DEF Flush, SessionInv, Request, Row
  <2>2. /\ pend' = [pend EXCEPT ![s] = Append(@, row)] /\ pend[s] \in Seq(Row)
        /\ cached' = [cached EXCEPT ![s] = new] /\ lock' = [lock EXCEPT ![who[s]] = s]
        /\ pc' = [pc EXCEPT ![s] = "open"] /\ UNCHANGED <<balance, ledger, who>>
        /\ lock[who[s]] = s
    BY <1>6, <2>1 DEF Flush, TypeOK
  <2>3. row.amt = req[s].amt /\ row.after = new
    OBVIOUS
  <2>4. pend'[s] = Append(pend[s], row)
    BY <2>2 DEF TypeOK
  <2> HIDE DEF row
  <2>5. /\ pend'[s] # <<>>
        /\ Len(pend[s]) \in Nat /\ pend'[s][Len(pend[s]) + 1] = row
        /\ DOMAIN pend'[s] = 1..(Len(pend[s]) + 1) /\ DOMAIN pend[s] = 1..Len(pend[s])
        /\ \A i \in DOMAIN pend[s] : pend'[s][i] = pend[s][i]
    BY <2>1, <2>2, <2>4, AppendFacts
  <2>6. cached[s] = IF Len(pend[s]) + 1 = 1 THEN balance[who[s]]
                                            ELSE pend[s][Len(pend[s])].after
    <3>1. CASE pend[s] = <<>>
      BY <2>1, <3>1
    <3>2. CASE pend[s] # <<>>
      BY <2>2, <2>5, <3>2, LastRow DEF SessionInv
    <3> QED
      BY <3>1, <3>2
  <2>7. ASSUME NEW i \in DOMAIN pend'[s]
        PROVE  pend'[s][i].after =
                  (IF i = 1 THEN balance[who[s]] ELSE pend'[s][i - 1].after) + pend'[s][i].amt
    <3>1. CASE i = Len(pend[s]) + 1
      <4>1. i # 1 => i - 1 \in DOMAIN pend[s] /\ i - 1 = Len(pend[s])
        BY <2>5, <3>1
      <4> QED
        BY <2>3, <2>5, <2>6, <3>1, <4>1
    <3>2. CASE i \in DOMAIN pend[s]
      <4>1. i # 1 => i - 1 \in DOMAIN pend[s]
        BY <2>5, <3>2
      <4> QED
        BY <2>5, <3>2, <4>1
    <3> QED
      BY <2>5, <3>1, <3>2
  <2>8. LedgerChain'
    BY <2>2 DEF LedgerChain
  <2>9. ASSUME NEW t \in Sessions, cached'[t] # None
        PROVE  /\ pc'[t] # "closed" /\ lock'[who'[t]] = t
               /\ pend'[t] = <<>> => cached'[t] = balance'[who'[t]]
    BY <2>1, <2>2, <2>5, <2>9 DEF TypeOK
  <2>10. ASSUME NEW t \in Sessions, NEW i \in DOMAIN pend'[t]
         PROVE  pend'[t][i].after =
                  (IF i = 1 THEN balance'[who'[t]] ELSE pend'[t][i - 1].after) + pend'[t][i].amt
    BY <2>2, <2>7, <2>10 DEF TypeOK
  <2> QED
    BY <2>8, <2>9, <2>10
<1>7. ASSUME NEW s \in Sessions, FlushDuplicate(s)
      PROVE  ChainInv'
  BY <1>7 DEF FlushDuplicate, Released, TypeOK, LedgerChain, SessionInv
<1>8. ASSUME NEW s \in Sessions, Commit(s)
      PROVE  ChainInv'
  <2>0. PICK w \in Users : w = who[s] /\ CommitEffect(s, w)
    BY <1>8, CommitFacts
  <2> DEFINE old == ledger[w]
             new == ledger'[w]
             n == Len(ledger[w])
  <2>1. /\ \A u \in Users \ {w} : ledger'[u] = ledger[u] /\ balance'[u] = balance[u]
        /\ n \in Nat /\ DOMAIN old = 1..n /\ DOMAIN pend[s] = 1..Len(pend[s])
        /\ Len(pend[s]) \in Nat /\ DOMAIN new = 1..(n + Len(pend[s]))
        /\ \A i \in DOMAIN old : new[i] = old[i]
        /\ \A i \in DOMAIN new \ DOMAIN old : i - n \in DOMAIN pend[s] /\ new[i] = pend[s][i - n]
    BY <2>0 DEF CommitEffect
  <2>2. /\ \A i \in DOMAIN old : old[i].after = Book!BalanceBefore(old, i) + old[i].amt
        /\ balance[w] = Book!ClosingBalance(old)
    BY <2>0 DEF LedgerChain
  <2>3. \A i \in DOMAIN pend[s] : pend[s][i].after =
           (IF i = 1 THEN balance[w] ELSE pend[s][i - 1].after) + pend[s][i].amt
    BY <2>0
  <2>4. balance[w] = IF n = 0 THEN 0 ELSE old[n].after
    <3>1. old = <<>> <=> n = 0
      <4>1. old \in Seq(Row)
        BY <2>0 DEF CommitEffect
      <4>2. old # <<>> => n # 0
        BY <4>1, LastRow
      <4> QED
        BY <4>2
    <3> QED
      BY <2>2, <3>1 DEF Book!ClosingBalance
  <2>5. ASSUME NEW i \in DOMAIN new
        PROVE  new[i].after = Book!BalanceBefore(new, i) + new[i].amt
    <3> HIDE DEF old, new, n
    <3>1. CASE i \in DOMAIN old
      <4>1. i # 1 => i - 1 \in DOMAIN old
        BY <2>1, <3>1
      <4> QED
        BY <2>1, <2>2, <3>1, <4>1 DEF Book!BalanceBefore
    <3>2. CASE i \notin DOMAIN old /\ i - n = 1
      <4>1. i - 1 = n /\ (n # 0 => n \in DOMAIN old) /\ (i = 1 <=> n = 0)
        BY <2>1, <3>2
      <4>2. new[i].after = balance[w] + new[i].amt
        BY <2>1, <2>3, <3>2
      <4> QED
        BY <2>1, <2>4, <4>1, <4>2 DEF Book!BalanceBefore
    <3>3. CASE i \notin DOMAIN old /\ i - n # 1
      <4>1. /\ i - 1 \in DOMAIN new \ DOMAIN old /\ i # 1
            /\ (i - 1) - n = (i - n) - 1
        BY <2>1, <3>3
      <4>2. new[i] = pend[s][i - n] /\ new[i - 1] = pend[s][(i - n) - 1] /\ i - n \in DOMAIN pend[s]
        BY <2>1, <3>3, <4>1
      <4> QED
        BY <2>3, <3>3, <4>1, <4>2 DEF Book!BalanceBefore
    <3> QED
      BY <3>1, <3>2, <3>3
  <2>6. balance'[w] = Book!ClosingBalance(new)
    <3>1. CASE pend[s] = <<>>
      BY <2>0, <2>2, <3>1 DEF CommitEffect
    <3>2. CASE pend[s] # <<>>
      <4>1. balance'[w] = pend[s][Len(pend[s])].after
        BY <2>0, <3>2 DEF CommitEffect, SessionInv
      <4> QED
        BY <2>0, <3>2, <4>1 DEF CommitEffect, Book!ClosingBalance
    <3> QED
      BY <3>1, <3>2
  <2>7. LedgerChain'
    <3>1. ASSUME NEW u \in Users
          PROVE  /\ \A i \in DOMAIN ledger'[u] : ledger'[u][i].after =
                       Book!BalanceBefore(ledger'[u], i) + ledger'[u][i].amt
                 /\ balance'[u] = Book!ClosingBalance(ledger'[u])
      <4>1. CASE u = w
        BY <2>5, <2>6, <4>1
      <4>2. CASE u # w
        BY <2>1, <4>2 DEF LedgerChain
      <4> QED
        BY <4>1, <4>2
    <3> QED
      BY <3>1 DEF LedgerChain
  <2>8. ASSUME NEW t \in Sessions \ {s}, cached[t] # None
        PROVE  balance'[who[t]] = balance[who[t]] /\ who[t] \in Users
    <3>1. who[t] \in Users /\ lock[who[t]] = t
      BY <2>8 DEF SessionInv
    <3>2. CASE pend[s] = <<>>
      BY <2>0, <2>1, <3>1, <3>2 DEF CommitEffect
    <3>3. CASE pend[s] # <<>>
      BY <2>0, <2>1, <3>1, <3>3 DEF LockInv
    <3> QED
      BY <3>1, <3>2, <3>3
  <2>9. /\ pend'[s] = <<>> /\ cached'[s] = None
        /\ \A t \in Sessions \ {s} : /\ pend'[t] = pend[t] /\ cached'[t] = cached[t]
                                     /\ who'[t] = who[t] /\ pc'[t] = pc[t]
        /\ \A u \in Users : lock[u] # s => lock'[u] = lock[u]
    BY <1>8 DEF Commit, Close, Released, TypeOK
  <2>10. ASSUME NEW t \in Sessions, cached'[t] # None
         PROVE  /\ pc'[t] # "closed" /\ lock'[who'[t]] = t
                /\ pend'[t] = <<>> => cached'[t] = balance'[who'[t]]
    <3>1. t # s /\ cached[t] # None
      BY <2>9, <2>10
    <3> QED
      BY <2>8, <2>9, <3>1
  <2>11. ASSUME NEW t \in Sessions, NEW i \in DOMAIN pend'[t]
         PROVE  pend'[t][i].after =
                  (IF i = 1 THEN balance'[who'[t]] ELSE pend'[t][i - 1].after) + pend'[t][i].amt
    <3>1. t # s /\ pend[t] # <<>>
      BY <2>9, <2>11
    <3>2. cached[t] # None
      BY <3>1, CachedWhenWritten
    <3> QED
      BY <2>8, <2>9, <2>11, <3>1, <3>2
  <2> QED
    BY <2>7, <2>10, <2>11
<1>9. ASSUME NEW s \in Sessions, Rollback(s)
      PROVE  ChainInv'
  BY <1>9 DEF Rollback, Close, Released, TypeOK, dbvars, LedgerChain, SessionInv
<1>10. CASE UNCHANGED vars
  BY <1>10 DEF vars, LedgerChain
<1> QED
  BY <1>1, <1>2, <1>3, <1>4, <1>5, <1>6, <1>7, <1>8, <1>9, <1>10 DEF Next, Step

\* The chain holds of the empty ledger.
LEMMA ChainInit == Init => ChainInv
BY DEF Init, ChainInv, LedgerChain, Book!ClosingBalance

(***************************************************************************)
(* For the callers that FOR UPDATE serializes, the ledger adds up to the   *)
(* balance after every commit: the docstring of wallet.py.                 *)
(***************************************************************************)
THEOREM LedgerAddsUp == Serialized => (Spec => []LedgerChain)
<1> SUFFICES ASSUME Serialized
             PROVE  Spec => []LedgerChain
  OBVIOUS
<1>1. Init => Inv /\ ChainInv
  BY InitInv, ChainInit
<1>2. Inv /\ ChainInv /\ [Next]_vars => Inv' /\ ChainInv'
  BY InvStep, ChainStep
<1>3. ChainInv => LedgerChain
  BY DEF ChainInv
<1> QED
  BY <1>1, <1>2, <1>3, PTL DEF Spec

(***************************************************************************)
(* A commit that wrote posts to the abstract ledger; every other step      *)
(* leaves it alone.                                                        *)
(***************************************************************************)
LEMMA CommitPosts ==
    ASSUME Inv, Inv', ChainInv', NEW s \in Sessions, Commit(s), pend[s] # <<>>
    PROVE  \E u \in Users : Book!Post(u)
<1>0. PICK w \in Users : w = who[s] /\ CommitEffect(s, w)
  BY CommitFacts DEF Inv
<1> DEFINE old == ledger[w]
           new == ledger'[w]
           posted == (Len(old) + 1)..Len(new)
<1>1. /\ Len(old) \in Nat /\ Len(new) \in Nat /\ Len(new) > Len(old)
      /\ DOMAIN new = 1..Len(new) /\ DOMAIN old = 1..Len(old)
  BY <1>0 DEF CommitEffect
<1>2. \A i \in 1..Len(old) : new[i] = old[i]
  BY <1>0, <1>1 DEF CommitEffect
<1>3. \A v \in Users \ {w} : balance'[v] = balance[v] /\ ledger'[v] = ledger[v]
  BY <1>0 DEF CommitEffect
<1>4. balance'[w] = new[Len(new)].after
  <2>1. new # <<>>
    BY <1>0 DEF CommitEffect
  <2> QED
    BY <2>1 DEF ChainInv, LedgerChain, Book!ClosingBalance
<1>5. ASSUME NEW i \in posted
      PROVE  /\ i \in DOMAIN new
             /\ new[i].after = Book!BalanceBefore(new, i) + new[i].amt
             /\ new[i].after >= 0
  <2>1. i \in DOMAIN new
    BY <1>1
  <2> QED
    BY <2>1 DEF ChainInv, LedgerChain, Inv, NoOverdraft
<1>6. ASSUME NEW i \in posted, NEW v \in Users
      PROVE  new[i].key \notin Book!KeysOf(ledger[v])
  <2>1. SUFFICES ASSUME NEW j \in DOMAIN ledger[v], ledger[v][j].key = new[i].key
                 PROVE  FALSE
    BY DEF Book!KeysOf
  <2>2. j \in DOMAIN ledger'[v] /\ ledger'[v][j] = ledger[v][j]
    <3>1. CASE v = w
      BY <1>1, <1>2, <3>1
    <3>2. CASE v # w
      BY <1>3, <3>2
    <3> QED
      BY <3>1, <3>2
  <2>3. v = w /\ i = j
    BY <1>5, <2>1, <2>2 DEF Inv, KeyInv, KeysUsedOnce
  <2> QED
    BY <1>1, <2>1, <2>3
<1>7. ASSUME NEW i \in posted, NEW j \in posted, i # j
      PROVE  new[i].key # new[j].key
  BY <1>5, <1>7 DEF Inv, KeyInv, KeysUsedOnce
<1>8. Book!Post(w)
  BY <1>1, <1>2, <1>3, <1>4, <1>5, <1>6, <1>7 DEF Book!Post
<1> QED
  BY <1>8

(***************************************************************************)
(* The wallet implements the abstract ledger: under FOR UPDATE with fresh  *)
(* users, concurrent sessions post as if they ran one after the other.     *)
(***************************************************************************)
THEOREM WalletImplementsLedger == Serialized => (Spec => PostsSerially)
<1> SUFFICES ASSUME Serialized
             PROVE  Spec => PostsSerially
  OBVIOUS
<1>1. Init => Inv /\ ChainInv
  BY InitInv, ChainInit
<1>2. Inv /\ ChainInv /\ [Next]_vars => Inv' /\ ChainInv'
  BY InvStep, ChainStep
<1>3. Init => Book!LInit
  BY DEF Init, Book!LInit
<1>4. ASSUME Inv, Inv', ChainInv', [Next]_vars
      PROVE  [\E u \in Users : Book!Post(u)]_(Book!lvars)
  <2>1. CASE UNCHANGED <<ledger, balance>>
    BY <2>1 DEF Book!lvars
  <2>2. ASSUME NEW s \in Sessions, Commit(s), pend[s] = <<>>
        PROVE  UNCHANGED <<ledger, balance>>
    <3>1. PICK w \in Users : w = who[s] /\ CommitEffect(s, w)
      BY <1>4, <2>2, CommitFacts DEF Inv
    <3>2. ledger'[w] = ledger[w] /\ balance'[w] = balance[w]
      BY <2>2, <3>1 DEF CommitEffect
    <3>3. \A u \in Users \ {w} : ledger'[u] = ledger[u] /\ balance'[u] = balance[u]
      BY <3>1 DEF CommitEffect
    <3>4. \A u \in Users : ledger'[u] = ledger[u] /\ balance'[u] = balance[u]
      BY <3>2, <3>3
    <3> QED
      BY <1>4, <3>4 DEF Inv, TypeOK
  <2>3. ASSUME NEW s \in Sessions, Commit(s), pend[s] # <<>>
        PROVE  \E u \in Users : Book!Post(u)
    BY <1>4, <2>3, CommitPosts
  <2> QED
    BY <1>4, <2>1, <2>2, <2>3, QuietStep DEF Book!lvars
<1> QED
  BY <1>1, <1>2, <1>3, <1>4, PTL DEF Spec, PostsSerially, Book!LSpec
=============================================================================
