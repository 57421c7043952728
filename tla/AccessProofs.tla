---------------------------- MODULE AccessProofs ----------------------------
(***************************************************************************)
(* Theorems about accounts, for any number of requests under way, rows and *)
(* addresses: what a removed account keeps, the second factor, sessions    *)
(* and lockout, and who owns an address.                                   *)
(***************************************************************************)
EXTENDS AccountRemoval, SecondFactor, SignIn, AccountMail, TLAPS

-----------------------------------------------------------------------------
(* AccountRemoval                                                          *)

\* A row that is not there is off, and a request to switch one knows its row.
RowInv ==
    /\ \A i \in Items : item[i].kind = "free" => ~item[i].on
    /\ \A c \in Clients : itemReq[c].op = "switch" => item[itemReq[c].item].kind # "free"

RemovalInv == RemovalHolds /\ RowInv

LEMMA RemovalInit == RInit => RemovalInv
  BY DEF RInit, RemovalInv, RowInv, RemovalHolds, RemovalTypeOK, RemovedIsOff, NoItem, Kinds, ItemRequest, Idle

LEMMA RemovalCreateBegin ==
    ASSUME RemovalInv, NEW c \in Clients, NEW kind \in Kinds, CreateBegin(c, kind)
    PROVE  RemovalInv'
<1>1. [op |-> "create", kind |-> kind] \in ItemRequest
  BY DEF ItemRequest
<1>2. QED
  BY <1>1 DEF RemovalInv, RowInv, RemovalHolds, RemovalTypeOK, RemovedIsOff, CreateBegin, BeginItem

LEMMA RemovalSwitchBegin ==
    ASSUME RemovalInv, NEW c \in Clients, NEW i \in Items, NEW on \in BOOLEAN, SwitchBegin(c, i, on)
    PROVE  RemovalInv'
<1>1. [op |-> "switch", item |-> i, on |-> on] \in ItemRequest
  BY DEF ItemRequest
<1>2. QED
  BY <1>1 DEF RemovalInv, RowInv, RemovalHolds, RemovalTypeOK, RemovedIsOff, SwitchBegin, BeginItem

\* A new row, or one that is switched on, is late when the account is removed.
LEMMA RemovalCreateCommit ==
    ASSUME RemovalInv, NEW c \in Clients, CreateCommit(c)
    PROVE  RemovalInv'
<1>1. Idle \in ItemRequest /\ itemReq[c] \in ItemRequest /\ itemReq[c].op = "create" /\ itemReq[c].kind \in Kinds
  BY DEF RemovalInv, RemovalHolds, RemovalTypeOK, CreateCommit, ItemRequest, Idle
<1>2. PICK i \in Items : /\ item' = [item EXCEPT ![i] = [kind |-> itemReq[c].kind, on |-> TRUE]]
                         /\ itemLate' = IF by = "none" THEN itemLate ELSE itemLate \union {i}
  BY DEF CreateCommit, ItemLate
<1>3. itemReq' = [itemReq EXCEPT ![c] = Idle] /\ UNCHANGED <<status, by>>
  BY DEF CreateCommit, EndItem
<1>4. RemovalTypeOK'
  BY <1>1, <1>2, <1>3 DEF RemovalInv, RemovalHolds, RemovalTypeOK
<1>5. RemovedIsOff'
  BY <1>1, <1>2, <1>3 DEF RemovalInv, RemovalHolds, RemovalTypeOK, RemovedIsOff
<1>6. RowInv'
  BY <1>1, <1>2, <1>3 DEF RemovalInv, RowInv, RemovalHolds, RemovalTypeOK, Idle, Kinds
<1>7. QED
  BY <1>4, <1>5, <1>6 DEF RemovalInv, RemovalHolds

LEMMA RemovalSwitchCommit ==
    ASSUME RemovalInv, NEW c \in Clients, SwitchCommit(c)
    PROVE  RemovalInv'
<1>1. /\ Idle \in ItemRequest /\ itemReq[c] \in ItemRequest /\ itemReq[c].op = "switch"
      /\ itemReq[c].item \in Items /\ itemReq[c].on \in BOOLEAN
  BY DEF RemovalInv, RemovalHolds, RemovalTypeOK, SwitchCommit, ItemRequest, Idle
<1>2. PICK i \in Items, on \in BOOLEAN : i = itemReq[c].item /\ on = itemReq[c].on
  BY <1>1
<1>3. PICK new : new = [item[i] EXCEPT !.on = on]
  OBVIOUS
<1>4. new \in [kind : Kinds \union {"free"}, on : BOOLEAN] /\ new.on = on /\ new.kind = item[i].kind
  BY <1>3 DEF RemovalInv, RemovalHolds, RemovalTypeOK
<1>5. item' = [item EXCEPT ![i] = new]
  BY <1>2, <1>3 DEF SwitchCommit, RemovalInv, RemovalHolds, RemovalTypeOK
<1>6. itemLate' = IF on /\ by # "none" THEN itemLate \union {i} ELSE itemLate
  BY <1>2 DEF SwitchCommit, ItemLate
<1>7. itemReq' = [itemReq EXCEPT ![c] = Idle] /\ UNCHANGED <<status, by>>
  BY DEF SwitchCommit, EndItem
<1>8. RemovalTypeOK'
  BY <1>1, <1>4, <1>5, <1>6, <1>7 DEF RemovalInv, RemovalHolds, RemovalTypeOK
<1>9. RemovedIsOff'
  BY <1>4, <1>5, <1>6, <1>7 DEF RemovalInv, RemovalHolds, RemovalTypeOK, RemovedIsOff
<1>10. item[i].kind # "free"
  BY <1>1, <1>2 DEF RemovalInv, RowInv
<1>11. RowInv'
  BY <1>1, <1>4, <1>5, <1>7, <1>10 DEF RemovalInv, RowInv, RemovalHolds, RemovalTypeOK, Idle
<1>12. QED
  BY <1>8, <1>9, <1>11 DEF RemovalInv, RemovalHolds

LEMMA RemovalAdmin ==
    ASSUME RemovalInv,
           NEW i \in Items,
           AdminRevokeKey(i) \/ (\E on \in BOOLEAN : AdminSwitch(i, on))
    PROVE  RemovalInv'
<1>1. PICK on \in BOOLEAN :
          /\ item' = [item EXCEPT ![i].on = on] /\ UNCHANGED <<status, itemReq, by>>
          /\ itemLate' = IF on /\ by # "none" THEN itemLate \union {i} ELSE itemLate
          /\ item[i].kind # "free"
  BY DEF AdminRevokeKey, AdminSwitch, ItemLate
<1>2. PICK new : new = [item[i] EXCEPT !.on = on]
  OBVIOUS
<1>3. new \in [kind : Kinds \union {"free"}, on : BOOLEAN] /\ new.on = on /\ new.kind = item[i].kind
  BY <1>2 DEF RemovalInv, RemovalHolds, RemovalTypeOK
<1>4. item' = [item EXCEPT ![i] = new]
  BY <1>1, <1>2 DEF RemovalInv, RemovalHolds, RemovalTypeOK
<1>5. RemovalTypeOK'
  BY <1>1, <1>3, <1>4 DEF RemovalInv, RemovalHolds, RemovalTypeOK
<1>6. RemovedIsOff'
  BY <1>1, <1>3, <1>4 DEF RemovalInv, RemovalHolds, RemovalTypeOK, RemovedIsOff
<1>7. RowInv'
  BY <1>1, <1>3, <1>4 DEF RemovalInv, RowInv, RemovalHolds, RemovalTypeOK
<1>8. QED
  BY <1>5, <1>6, <1>7 DEF RemovalInv, RemovalHolds

LEMMA RemovalAdminCreateKey ==
    ASSUME RemovalInv, AdminCreateKey
    PROVE  RemovalInv'
<1>1. PICK i \in Items : /\ item' = [item EXCEPT ![i] = [kind |-> "key", on |-> TRUE]]
                         /\ itemLate' = IF by = "none" THEN itemLate ELSE itemLate \union {i}
  BY DEF AdminCreateKey, ItemLate
<1>2. UNCHANGED <<status, itemReq, by>>
  BY DEF AdminCreateKey
<1>3. RemovalTypeOK'
  BY <1>1, <1>2 DEF RemovalInv, RemovalHolds, RemovalTypeOK, Kinds
<1>4. RemovedIsOff'
  BY <1>1, <1>2 DEF RemovalInv, RemovalHolds, RemovalTypeOK, RemovedIsOff
<1>5. RowInv'
  BY <1>1, <1>2 DEF RemovalInv, RowInv, RemovalHolds, RemovalTypeOK
<1>6. QED
  BY <1>3, <1>4, <1>5 DEF RemovalInv, RemovalHolds

\* What is switched off stays what it was.
LEMMA OffRows ==
    ASSUME RemovalTypeOK, NEW kinds
    PROVE  /\ Off(kinds) \in [Items -> [kind : Kinds \union {"free"}, on : BOOLEAN]]
           /\ \A i \in Items : /\ Off(kinds)[i].kind = item[i].kind
                               /\ Off(kinds)[i].on => item[i].on /\ item[i].kind \notin kinds
  BY DEF RemovalTypeOK, Off

\* The two removals that clean up: what they switch off is not late any more.
LEMMA RemovalDeletes ==
    ASSUME RemovalInv, DeleteMyAccount \/ AdminDelete
    PROVE  RemovalInv'
<1>0. \A c \in Clients : itemReq[c].op = "switch" => itemReq[c].item \in Items
  BY DEF RemovalInv, RemovalHolds, RemovalTypeOK, ItemRequest, Idle
<1>1. CASE DeleteMyAccount
  <2>1. PICK kinds : kinds = {"key", "hook"}
    OBVIOUS
  <2>2. /\ item' = Off(kinds) /\ itemLate' = {i \in itemLate : item'[i].on}
        /\ status' = "deleted" /\ by' = "self" /\ UNCHANGED itemReq
    BY <1>1, <2>1 DEF DeleteMyAccount, SelfRemoved
  <2>3. /\ item' \in [Items -> [kind : Kinds \union {"free"}, on : BOOLEAN]]
        /\ \A i \in Items : item'[i].kind = item[i].kind /\ (item'[i].on => item[i].on /\ item'[i].kind \notin kinds)
    BY <2>2, OffRows DEF RemovalInv, RemovalHolds
  <2>4. RemovalHolds'
    BY <2>1, <2>2, <2>3 DEF RemovalInv, RemovalHolds, RemovalTypeOK, RemovedIsOff
  <2>5. RowInv'
    BY <1>0, <2>2, <2>3 DEF RemovalInv, RowInv
  <2>6. QED
    BY <2>4, <2>5 DEF RemovalInv
<1>2. CASE AdminDelete
  <2>1. /\ item' = Off(Kinds) /\ itemLate' = {i \in itemLate : item'[i].on}
        /\ status' = "deleted" /\ by' = "admin" /\ UNCHANGED itemReq
    BY <1>2 DEF AdminDelete, AdminRemoved
  <2>2. /\ item' \in [Items -> [kind : Kinds \union {"free"}, on : BOOLEAN]]
        /\ \A i \in Items : item'[i].kind = item[i].kind /\ (item'[i].on => item[i].on /\ item'[i].kind \notin Kinds)
    BY <2>1, OffRows DEF RemovalInv, RemovalHolds
  <2>3. RowInv'
    BY <1>0, <2>1, <2>2 DEF RemovalInv, RowInv
  <2>4. \A i \in Items : ~item'[i].on
    BY <2>2, <2>3 DEF RowInv
  <2>5. RemovalHolds'
    BY <2>1, <2>2, <2>4 DEF RemovalInv, RemovalHolds, RemovalTypeOK, RemovedIsOff
  <2>6. QED
    BY <2>3, <2>5 DEF RemovalInv
<1>3. QED
  BY <1>1, <1>2

LEMMA RemovalStep == RemovalInv /\ [RNext]_rVars => RemovalInv'
<1> SUFFICES ASSUME RemovalInv, [RNext]_rVars PROVE RemovalInv'
  OBVIOUS
<1>1. CASE RNext
  <2>1. CASE \E c \in Clients, kind \in Kinds : CreateBegin(c, kind)
    BY <2>1, RemovalCreateBegin
  <2>2. CASE \E c \in Clients, i \in Items, on \in BOOLEAN : SwitchBegin(c, i, on)
    BY <2>2, RemovalSwitchBegin
  <2>3. CASE \E c \in Clients : CreateCommit(c) \/ SwitchCommit(c)
    BY <2>3, RemovalCreateCommit, RemovalSwitchCommit
  <2>4. CASE AdminCreateKey
    BY <2>4, RemovalAdminCreateKey
  <2>5. CASE DeleteMyAccount \/ AdminDelete
    BY <2>5, RemovalDeletes
  <2>6. CASE \E i \in Items : RevokeKey(i) \/ AdminRevokeKey(i) \/ (\E on \in BOOLEAN : AdminSwitch(i, on))
    BY <2>6, RemovalAdmin DEF RevokeKey
  <2>7. CASE \E st \in {"active", "suspended", "deleted"} : SetStatus(st)
    BY <2>7 DEF SetStatus, RemovalInv, RowInv, RemovalHolds, RemovalTypeOK, RemovedIsOff
  <2>8. QED
    BY <1>1, <2>1, <2>2, <2>3, <2>4, <2>5, <2>6, <2>7 DEF RNext
<1>2. CASE UNCHANGED rVars
  BY <1>2 DEF rVars, RemovalInv, RowInv, RemovalHolds, RemovalTypeOK, RemovedIsOff
<1>3. QED
  BY <1>1, <1>2

\* An account its owner removed has no usable key and no active webhook, and
\* one an administrator removed no polled bank account either, except for
\* what it was given afterwards (delete_my_account, admin_soft_delete_user).
THEOREM RemovedAccountsAreOff == RSpec => []RemovalHolds
<1>1. RemovalInv => RemovalHolds
  BY DEF RemovalInv
<1>2. QED
  BY RemovalInit, RemovalStep, <1>1, PTL DEF RSpec
-----------------------------------------------------------------------------
(* SecondFactor                                                            *)

Holds(c, t) == factorReq[c].op \in {"login", "challenge"} /\ factorReq[c].tok = t

\* A token that opened a session is marked; one that no two requests have
\* read at a time has a session opened by it or one holder, not both.
ChallengeInv ==
    \A t \in ChallengeIds :
        /\ challenge[t].uses > 0 => challenge[t].st = "used"
        /\ ~challenge[t].shared =>
              /\ challenge[t].uses <= 1
              /\ \A c, d \in Clients : Holds(c, t) /\ Holds(d, t) => c = d
              /\ \A c \in Clients : Holds(c, t) => challenge[t].uses = 0

\* As long as no request wrote over a change it had not read: no spent code is
\* among those left, none was accepted twice, and what is asked for is confirmed.
CodesInv ==
    ~raced => /\ spent \cap twofa.left = {} /\ ~again
              /\ twofa.st = "enabled" => twofa.confirmed = twofa.secret

\* enroll_2fa found the second factor not enabled.
EnrollInv == \A c \in Clients : factorReq[c].op = "enroll" => factorReq[c].two.st # "enabled"

FactorInv == FactorTypeOK /\ ChallengeInv /\ CodesInv /\ EnrollInv

LEMMA FactorInit == FInit => FactorInv
<1> SUFFICES ASSUME FInit PROVE FactorInv
  OBVIOUS
<1>1. FactorRow("none", 0, 0) \in TwoFactor /\ NoChallenge \in Challenge /\ Idle \in FactorRequest
  BY FactorAssumption DEF FactorRow, TwoFactor, NoChallenge, Challenge, Idle, FactorRequest
<1>2. FactorTypeOK
  <2>1. twofa \in TwoFactor /\ challenge \in [ChallengeIds -> Challenge] /\ factorReq \in [Clients -> FactorRequest]
    BY <1>1 DEF FInit
  <2>2. 0 \in 0..MaxPeriod /\ 0 \in 0..MaxAttempts
    BY FactorAssumption
  <2>3. QED
    BY <2>1, <2>2 DEF FInit, FactorTypeOK
<1>3. ChallengeInv /\ EnrollInv
  <2>1. \A t \in ChallengeIds : challenge[t].uses = 0
    BY DEF FInit, NoChallenge
  <2>2. \A c \in Clients : factorReq[c].op = "idle"
    BY DEF FInit, Idle
  <2>3. QED
    BY <2>1, <2>2 DEF ChallengeInv, EnrollInv, Holds
<1>4. CodesInv
  BY DEF FInit, CodesInv, FactorRow
<1>5. QED
  BY <1>2, <1>3, <1>4 DEF FactorInv

\* What a request under way knows.
LEMMA FactorRequests ==
    ASSUME FactorTypeOK, NEW c \in Clients
    PROVE  /\ Idle \in FactorRequest
           /\ factorReq[c].op \in {"enroll", "verify"} => factorReq[c].two \in TwoFactor
           /\ factorReq[c].op \in {"login", "challenge"} =>
                 /\ factorReq[c].two \in TwoFactor /\ factorReq[c].tok \in ChallengeIds
                 /\ factorReq[c].code \in {"wrong", "totp"} \union RecoveryCodes
                 /\ factorReq[c].at \in 0..MaxPeriod
  BY DEF FactorTypeOK, FactorRequest, Idle

\* A request that ends leaves the tokens to fewer holders.
LEMMA FactorEnds ==
    ASSUME FactorInv, NEW c \in Clients, EndFactor(c), UNCHANGED challenge
    PROVE  ChallengeInv' /\ EnrollInv' /\ factorReq' \in [Clients -> FactorRequest]
<1>1. factorReq' \in [Clients -> FactorRequest]
  BY FactorRequests DEF FactorInv, FactorTypeOK, EndFactor
<1>2. \A d \in Clients : factorReq'[d] = IF d = c THEN Idle ELSE factorReq[d]
  BY DEF FactorInv, FactorTypeOK, EndFactor
<1>3. ChallengeInv'
  BY <1>2 DEF FactorInv, ChallengeInv, Holds, Idle
<1>4. EnrollInv'
  BY <1>2 DEF FactorInv, EnrollInv, Idle
<1>5. QED
  BY <1>1, <1>3, <1>4

LEMMA FactorBegins ==
    ASSUME FactorInv, NEW c \in Clients, EnrollBegin(c) \/ Verify2faBegin(c)
    PROVE  FactorInv'
<1>1. PICK r : /\ r \in [op : {"enroll", "verify"}, two : TwoFactor] /\ factorReq' = [factorReq EXCEPT ![c] = r]
               /\ r.op = "enroll" => r.two.st # "enabled"
  <2>1. twofa \in TwoFactor
    BY DEF FactorInv, FactorTypeOK
  <2>2. CASE EnrollBegin(c)
    <3>1. PICK r : r = [op |-> "enroll", two |-> twofa]
      OBVIOUS
    <3>2. r \in [op : {"enroll", "verify"}, two : TwoFactor] /\ r.two.st = twofa.st
      BY <2>1, <3>1
    <3>3. QED
      BY <2>2, <3>1, <3>2 DEF EnrollBegin, BeginFactor
  <2>3. CASE Verify2faBegin(c)
    <3>1. PICK r : r = [op |-> "verify", two |-> twofa]
      OBVIOUS
    <3>2. r \in [op : {"enroll", "verify"}, two : TwoFactor] /\ r.op # "enroll"
      BY <2>1, <3>1
    <3>3. QED
      BY <2>3, <3>1, <3>2 DEF Verify2faBegin, BeginFactor
  <2>4. QED
    BY <2>2, <2>3
<1>2. UNCHANGED <<twofa, challenge, period, attempts, spent, again, raced>>
  BY DEF EnrollBegin, Verify2faBegin, factorHist
<1>3. FactorTypeOK'
  BY <1>1, <1>2 DEF FactorInv, FactorTypeOK, FactorRequest
<1>4. r.op \in {"enroll", "verify"} /\ \A d \in Clients : factorReq'[d] = IF d = c THEN r ELSE factorReq[d]
  BY <1>1 DEF FactorInv, FactorTypeOK
<1>5. ChallengeInv' /\ EnrollInv'
  BY <1>1, <1>2, <1>4 DEF FactorInv, ChallengeInv, EnrollInv, Holds
<1>6. CodesInv'
  BY <1>2 DEF FactorInv, CodesInv
<1>7. QED
  BY <1>3, <1>5, <1>6 DEF FactorInv

LEMMA FactorEnrollCommit ==
    ASSUME FactorInv, NEW c \in Clients, EnrollCommit(c)
    PROVE  FactorInv'
<1>1. /\ factorReq[c].op = "enroll" /\ EndFactor(c) /\ UNCHANGED <<challenge, period, attempts, spent, again>>
      /\ factorReq[c].two.st # "enabled"
  BY DEF EnrollCommit, FactorInv, EnrollInv
<1>2. ChallengeInv' /\ EnrollInv' /\ factorReq' \in [Clients -> FactorRequest]
  BY <1>1, FactorEnds
<1>3. CASE UNCHANGED <<twofa, raced>>
  BY <1>1, <1>2, <1>3 DEF FactorInv, FactorTypeOK, CodesInv
<1>4. CASE /\ twofa.secret < MaxSecret /\ raced' = (raced \/ factorReq[c].two # twofa)
           /\ twofa' = IF twofa.st = "none" THEN FactorRow("enrolled", twofa.secret + 1, twofa.confirmed)
                                            ELSE [twofa EXCEPT !.secret = @ + 1]
  <2>1. twofa' \in TwoFactor /\ twofa'.left \subseteq twofa.left /\ (twofa'.st = "enabled" => twofa.st = "enabled")
    BY <1>4, FactorAssumption DEF FactorInv, FactorTypeOK, TwoFactor, FactorRow
  <2>2. raced' \in BOOLEAN
    BY <1>4, Zenon DEF FactorInv, FactorTypeOK
  <2>3. FactorTypeOK'
    BY <1>1, <1>2, <2>1, <2>2 DEF FactorInv, FactorTypeOK
  <2>4. ~raced' => ~raced /\ twofa.st # "enabled"
    BY <1>1, <1>4
  <2>5. CodesInv'
    BY <1>1, <2>1, <2>4 DEF FactorInv, CodesInv
  <2>6. QED
    BY <1>2, <2>3, <2>5 DEF FactorInv
<1>5. QED
  BY <1>3, <1>4 DEF EnrollCommit

LEMMA FactorVerifyCommit ==
    ASSUME FactorInv, NEW c \in Clients, Verify2faCommit(c)
    PROVE  FactorInv'
<1>1. factorReq[c].op = "verify" /\ EndFactor(c) /\ UNCHANGED <<challenge, period, attempts, again>>
  BY DEF Verify2faCommit
<1>2. ChallengeInv' /\ EnrollInv' /\ factorReq' \in [Clients -> FactorRequest]
  BY <1>1, FactorEnds
<1>3. CASE UNCHANGED <<twofa, spent, raced>>
  BY <1>1, <1>2, <1>3 DEF FactorInv, FactorTypeOK, CodesInv
<1>4. CASE /\ twofa' = Verified(factorReq[c]) /\ spent' = {} /\ raced' = (raced \/ factorReq[c].two # twofa)
  <2>1. factorReq[c].two \in TwoFactor
    BY <1>1, FactorRequests DEF FactorInv
  <2>2. twofa' \in TwoFactor /\ twofa'.secret = twofa.secret /\ twofa'.confirmed = factorReq[c].two.secret
    BY <1>4, <2>1 DEF FactorInv, FactorTypeOK, TwoFactor, Verified
  <2>3. raced' \in BOOLEAN
    BY <1>4, Zenon DEF FactorInv, FactorTypeOK
  <2>4. FactorTypeOK'
    BY <1>1, <1>2, <1>4, <2>2, <2>3 DEF FactorInv, FactorTypeOK
  <2>5. CodesInv'
    BY <1>1, <1>4, <2>2 DEF FactorInv, CodesInv
  <2>6. QED
    BY <1>2, <2>4, <2>5 DEF FactorInv
<1>5. QED
  BY <1>3, <1>4 DEF Verify2faCommit

\* The row goes, or gets new codes.
LEMMA FactorRowChanges ==
    ASSUME FactorInv, DeleteRow \/ RegenerateCodes
    PROVE  FactorInv'
<1>1. /\ twofa' \in TwoFactor /\ spent' = {} /\ UNCHANGED <<challenge, factorReq, period, attempts, again, raced>>
      /\ twofa'.st = "enabled" => twofa.st = "enabled"
      /\ twofa'.confirmed = twofa.confirmed /\ twofa'.secret = twofa.secret
  <2>1. CASE DeleteRow
    BY <2>1, FactorAssumption DEF FactorInv, FactorTypeOK, TwoFactor, DeleteRow, FactorRow
  <2>2. CASE RegenerateCodes
    BY <2>2 DEF FactorInv, FactorTypeOK, TwoFactor, RegenerateCodes
  <2>3. QED
    BY <2>1, <2>2
<1>2. FactorTypeOK'
  BY <1>1 DEF FactorInv, FactorTypeOK
<1>3. ChallengeInv' /\ EnrollInv'
  BY <1>1 DEF FactorInv, ChallengeInv, EnrollInv, Holds
<1>4. CodesInv'
  BY <1>1 DEF FactorInv, CodesInv
<1>5. QED
  BY <1>2, <1>3, <1>4 DEF FactorInv

\* Tokens are issued and run out, and periods pass.
LEMMA FactorTokens ==
    ASSUME FactorInv,
           NextPeriod \/ \E t \in ChallengeIds : ChallengeIssued(t) \/ ChallengeExpires(t)
    PROVE  FactorInv'
<1>1. CASE NextPeriod
  <2>1. period' \in 0..MaxPeriod /\ UNCHANGED <<twofa, challenge, factorReq, attempts, spent, again, raced>>
    BY <1>1, FactorAssumption DEF NextPeriod, factorHist, FactorInv, FactorTypeOK
  <2>2. QED
    BY <2>1 DEF FactorInv, FactorTypeOK, ChallengeInv, EnrollInv, CodesInv, Holds
<1>2. CASE \E t \in ChallengeIds : ChallengeIssued(t) \/ ChallengeExpires(t)
  <2>1. PICK t \in ChallengeIds, st \in {"open", "expired"} :
            /\ challenge' = [challenge EXCEPT ![t].st = st] /\ challenge[t].st # "used"
            /\ UNCHANGED <<twofa, factorReq, period, attempts, spent, again, raced>>
    BY <1>2 DEF ChallengeIssued, ChallengeExpires, factorHist
  <2>2. PICK new : new = [challenge[t] EXCEPT !.st = st]
    OBVIOUS
  <2>3. new \in Challenge /\ new.uses = challenge[t].uses /\ new.shared = challenge[t].shared
    BY <2>2 DEF FactorInv, FactorTypeOK, Challenge
  <2>4. challenge' = [challenge EXCEPT ![t] = new]
    BY <2>1, <2>2 DEF FactorInv, FactorTypeOK
  <2>5. FactorTypeOK'
    BY <2>1, <2>3, <2>4 DEF FactorInv, FactorTypeOK
  <2>6. \A u \in ChallengeIds : challenge'[u] = IF u = t THEN new ELSE challenge[u]
    BY <2>4 DEF FactorInv, FactorTypeOK
  <2>7. challenge[t].uses \in Nat /\ ~(challenge[t].uses > 0)
    BY <2>1 DEF FactorInv, FactorTypeOK, Challenge, ChallengeInv
  <2>8. ChallengeInv'
    BY <2>1, <2>3, <2>6, <2>7 DEF FactorInv, ChallengeInv, Holds
  <2>9. CodesInv' /\ EnrollInv'
    BY <2>1 DEF FactorInv, CodesInv, EnrollInv
  <2>10. QED
    BY <2>5, <2>8, <2>9 DEF FactorInv
<1>3. QED
  BY <1>1, <1>2

\* A second request that reads an open token makes it shared.
LEMMA FactorStepTwoBegin ==
    ASSUME FactorInv, NEW c \in Clients, NEW op \in {"login", "challenge"}, NEW t \in ChallengeIds,
           NEW code \in {"wrong", "totp"} \union RecoveryCodes, StepTwoBegin(c, op, t, code)
    PROVE  FactorInv'
<1>1. PICK r : r = [op |-> op, two |-> twofa, tok |-> t, code |-> code, at |-> period]
  OBVIOUS
<1>2. r \in FactorRequest /\ r.op = op /\ r.tok = t
  BY <1>1 DEF FactorInv, FactorTypeOK, FactorRequest
<1>3. PICK shared \in BOOLEAN : shared = (challenge[t].shared \/ Holders(t) # {})
  BY Zenon
<1>4. PICK new : new = [challenge[t] EXCEPT !.shared = shared]
  OBVIOUS
<1>5. /\ new \in Challenge /\ new.shared = shared /\ new.st = challenge[t].st /\ new.uses = challenge[t].uses
      /\ challenge[t].uses \in Nat
  BY <1>4 DEF FactorInv, FactorTypeOK, Challenge
<1>6. /\ challenge[t].st = "open" /\ factorReq[c] = Idle /\ factorReq' = [factorReq EXCEPT ![c] = r]
      /\ attempts < MaxAttempts /\ attempts' = attempts + 1
      /\ challenge' = [challenge EXCEPT ![t] = new]
      /\ UNCHANGED <<twofa, period, spent, again, raced>>
  BY <1>1, <1>3, <1>4 DEF StepTwoBegin, Open, BeginFactor
<1>7. FactorTypeOK'
  BY <1>2, <1>5, <1>6, FactorAssumption DEF FactorInv, FactorTypeOK
<1>8. \A u \in ChallengeIds : challenge'[u] = IF u = t THEN new ELSE challenge[u]
  BY <1>6 DEF FactorInv, FactorTypeOK
<1>9. \A d \in Clients : factorReq'[d] = IF d = c THEN r ELSE factorReq[d]
  BY <1>6 DEF FactorInv, FactorTypeOK
<1>10. challenge[t].uses = 0
  BY <1>5, <1>6 DEF FactorInv, ChallengeInv
<1>11. ~shared => \A d \in Clients : ~Holds(d, t)
  BY <1>3 DEF Holders, Holds
<1>12. ChallengeInv'
  <2> SUFFICES ASSUME NEW u \in ChallengeIds
               PROVE  /\ challenge'[u].uses > 0 => challenge'[u].st = "used"
                      /\ ~challenge'[u].shared =>
                            /\ challenge'[u].uses <= 1
                            /\ \A d, e \in Clients : Holds(d, u)' /\ Holds(e, u)' => d = e
                            /\ \A d \in Clients : Holds(d, u)' => challenge'[u].uses = 0
    BY DEF ChallengeInv
  <2>1. CASE u = t
    <3>1. challenge'[u] = new
      BY <1>8, <2>1
    <3>2. ~shared => \A d \in Clients : Holds(d, u)' => d = c
      BY <1>9, <1>11, <2>1 DEF Holds
    <3>3. QED
      BY <1>5, <1>10, <3>1, <3>2
  <2>2. CASE u # t
    <3>1. challenge'[u] = challenge[u]
      BY <1>8, <2>2
    <3>2. \A d \in Clients : Holds(d, u)' => Holds(d, u)
      BY <1>2, <1>9, <2>2 DEF Holds
    <3>3. QED
      BY <3>1, <3>2 DEF FactorInv, ChallengeInv
  <2>3. QED
    BY <2>1, <2>2
<1>13. CodesInv'
  BY <1>6 DEF FactorInv, CodesInv
<1>14. EnrollInv'
  BY <1>2, <1>9 DEF FactorInv, EnrollInv
<1>15. QED
  BY <1>7, <1>12, <1>13, <1>14 DEF FactorInv

\* The token is marked, by a request that ends; uses of it may go up by one.
LEMMA FactorMarks ==
    ASSUME FactorInv, NEW c \in Clients, StepTwo(c), EndFactor(c),
           NEW t \in ChallengeIds, t = factorReq[c].tok, NEW new \in Challenge,
           new.st = "used", new.shared = challenge[t].shared, new.uses \in {challenge[t].uses, challenge[t].uses + 1},
           challenge' = [challenge EXCEPT ![t] = new]
    PROVE  /\ ChallengeInv' /\ EnrollInv' /\ factorReq' \in [Clients -> FactorRequest]
           /\ challenge' \in [ChallengeIds -> Challenge]
<1>3. challenge[t].uses \in Nat
  BY DEF FactorInv, FactorTypeOK, Challenge
<1>5. challenge' \in [ChallengeIds -> Challenge] /\ \A u \in ChallengeIds : challenge'[u] = IF u = t THEN new ELSE challenge[u]
  BY DEF FactorInv, FactorTypeOK
<1>6. factorReq' \in [Clients -> FactorRequest] /\ \A d \in Clients : factorReq'[d] = IF d = c THEN Idle ELSE factorReq[d]
  BY FactorRequests DEF FactorInv, FactorTypeOK, EndFactor
<1>7. EnrollInv'
  BY <1>6 DEF FactorInv, EnrollInv, Idle
<1>8. \A d \in Clients, u \in ChallengeIds : Holds(d, u)' => d # c /\ Holds(d, u)
  BY <1>6 DEF Holds, Idle
<1>9. Holds(c, t)
  BY DEF StepTwo, Holds
<1>10. ChallengeInv'
  <2> SUFFICES ASSUME NEW u \in ChallengeIds
               PROVE  /\ challenge'[u].uses > 0 => challenge'[u].st = "used"
                      /\ ~challenge'[u].shared =>
                            /\ challenge'[u].uses <= 1
                            /\ \A d, e \in Clients : Holds(d, u)' /\ Holds(e, u)' => d = e
                            /\ \A d \in Clients : Holds(d, u)' => challenge'[u].uses = 0
    BY DEF ChallengeInv
  <2>1. CASE u = t
    <3>1. challenge'[u] = new
      BY <1>5, <2>1
    <3>2. ~challenge[t].shared => challenge[t].uses = 0 /\ \A d \in Clients : ~Holds(d, t)'
      BY <1>8, <1>9 DEF FactorInv, ChallengeInv
    <3>3. QED
      BY <1>3, <2>1, <3>1, <3>2
  <2>2. CASE u # t
    <3>1. challenge'[u] = challenge[u]
      BY <1>5, <2>2
    <3>2. QED
      BY <1>8, <3>1 DEF FactorInv, ChallengeInv
  <2>3. QED
    BY <2>1, <2>2
<1>11. QED
  BY <1>5, <1>6, <1>7, <1>10

LEMMA FactorRefused ==
    ASSUME FactorInv, NEW c \in Clients, CodeRefused(c) \/ CodeRaises(c)
    PROVE  FactorInv'
<1>1. EndFactor(c) /\ UNCHANGED <<twofa, period, attempts, spent, again, raced>>
  BY DEF CodeRefused, CodeRaises, factorHist
<1>2. /\ ChallengeInv' /\ EnrollInv' /\ factorReq' \in [Clients -> FactorRequest]
      /\ challenge' \in [ChallengeIds -> Challenge]
  <2>1. CASE CodeRaises(c)
    BY <1>1, <2>1, FactorEnds DEF CodeRaises, FactorInv, FactorTypeOK
  <2>2. CASE CodeRefused(c)
    <3>1. PICK t \in ChallengeIds : t = factorReq[c].tok
      BY <2>2, FactorRequests DEF CodeRefused, StepTwo, FactorInv
    <3>2. PICK new : new = [challenge[t] EXCEPT !.st = "used"]
      OBVIOUS
    <3>3. new \in Challenge /\ new.st = "used" /\ new.shared = challenge[t].shared /\ new.uses = challenge[t].uses
      BY <3>2 DEF FactorInv, FactorTypeOK, Challenge
    <3>4. StepTwo(c) /\ challenge' = [challenge EXCEPT ![t] = new]
      BY <2>2, <3>1, <3>2 DEF CodeRefused
    <3>5. QED
      BY <1>1, <3>1, <3>3, <3>4, FactorMarks
  <2>3. QED
    BY <2>1, <2>2
<1>3. FactorTypeOK' /\ CodesInv'
  BY <1>1, <1>2 DEF FactorInv, FactorTypeOK, CodesInv
<1>4. QED
  BY <1>2, <1>3 DEF FactorInv

LEMMA FactorAccepted ==
    ASSUME FactorInv, NEW c \in Clients, CodeAccepted(c)
    PROVE  FactorInv'
<1>1. PICK r : r = factorReq[c]
  OBVIOUS
<1>2. /\ r.two \in TwoFactor /\ r.code \in {"wrong", "totp"} \union RecoveryCodes /\ r.at \in 0..MaxPeriod
      /\ r.tok \in ChallengeIds
  BY <1>1, FactorRequests DEF FactorInv, CodeAccepted, StepTwo
<1>3. /\ StepTwo(c) /\ Accepted(r) /\ EndFactor(c) /\ twofa' = CodeUsed(r)
      /\ challenge' = [challenge EXCEPT ![r.tok] = [@ EXCEPT !.st = "used", !.uses = challenge[r.tok].uses + 1]]
      /\ spent' = IF r.code = "totp" THEN spent ELSE spent \union {r.code}
      /\ again' = (again \/ r.code \in spent)
      /\ raced' = (raced \/ r.two # twofa)
      /\ UNCHANGED <<period, attempts>>
  BY <1>1 DEF CodeAccepted
<1>4. /\ ChallengeInv' /\ EnrollInv' /\ factorReq' \in [Clients -> FactorRequest]
      /\ challenge' \in [ChallengeIds -> Challenge]
  <2>1. PICK t \in ChallengeIds : t = r.tok
    BY <1>2
  <2>2. challenge[t] \in Challenge /\ challenge[t].uses \in Nat
    BY DEF FactorInv, FactorTypeOK, Challenge
  <2>3. PICK n \in Nat : n = challenge[t].uses + 1
    BY <2>2
  <2>4. PICK new : new = [challenge[t] EXCEPT !.st = "used", !.uses = n]
    OBVIOUS
  <2>5. new \in Challenge /\ new.st = "used" /\ new.shared = challenge[t].shared /\ new.uses = n
    BY <2>2, <2>4 DEF Challenge
  <2>6. challenge' = [challenge EXCEPT ![t] = new]
    BY <1>3, <2>1, <2>3, <2>4
  <2>7. t = factorReq[c].tok /\ new.uses \in {challenge[t].uses, challenge[t].uses + 1}
    BY <1>1, <2>1, <2>3, <2>5
  <2>8. QED
    BY <1>3, <2>5, <2>6, <2>7, FactorMarks, Zenon
<1>5. again' \in BOOLEAN /\ raced' \in BOOLEAN
  BY <1>3, Zenon DEF FactorInv, FactorTypeOK
<1>6. r.code = "totp" \/ (r.code \in RecoveryCodes /\ r.code # "totp" /\ r.code \in r.two.left)
  BY <1>3, FactorAssumption DEF Accepted
<1>7. /\ twofa' \in TwoFactor /\ twofa'.st = twofa.st /\ twofa'.confirmed = twofa.confirmed /\ twofa'.secret = twofa.secret
      /\ twofa'.left = IF r.code = "totp" THEN twofa.left ELSE r.two.left \ {r.code}
  <2>1. CASE r.code = "totp"
    BY <1>2, <1>3, <2>1 DEF CodeUsed, FactorInv, FactorTypeOK, TwoFactor
  <2>2. CASE r.code # "totp"
    <3>1. r.two.left \ {r.code} \in SUBSET RecoveryCodes /\ r.two.form \in {"hashed", "encrypted"}
      BY <1>2 DEF TwoFactor
    <3>2. QED
      BY <1>3, <2>2, <3>1 DEF CodeUsed, FactorInv, FactorTypeOK, TwoFactor
  <2>3. QED
    BY <2>1, <2>2
<1>8. FactorTypeOK'
  BY <1>2, <1>3, <1>4, <1>5, <1>6, <1>7 DEF FactorInv, FactorTypeOK
<1>9. CodesInv'
  <2> SUFFICES ASSUME ~raced' PROVE /\ spent' \cap twofa'.left = {} /\ ~again'
                                    /\ twofa'.st = "enabled" => twofa'.confirmed = twofa'.secret
    BY DEF CodesInv
  <2>1. ~raced /\ r.two = twofa
    BY <1>3
  <2>2. /\ spent \cap twofa.left = {} /\ ~again /\ (twofa.st = "enabled" => twofa.confirmed = twofa.secret)
        /\ spent \subseteq RecoveryCodes /\ "totp" \notin RecoveryCodes
    BY <2>1, FactorAssumption DEF FactorInv, CodesInv, FactorTypeOK
  <2>3. r.code \notin spent
    BY <1>6, <2>1, <2>2
  <2>4. spent' \cap twofa'.left = {}
    BY <1>3, <1>7, <2>1, <2>2
  <2>5. QED
    BY <1>3, <1>7, <2>2, <2>3, <2>4
<1>10. QED
  BY <1>4, <1>8, <1>9 DEF FactorInv

LEMMA FactorStep == FactorInv /\ [FNext]_fVars => FactorInv'
<1> SUFFICES ASSUME FactorInv, [FNext]_fVars PROVE FactorInv'
  OBVIOUS
<1>1. CASE FNext
  <2>1. CASE \E c \in Clients : EnrollBegin(c) \/ Verify2faBegin(c)
    BY <2>1, FactorBegins
  <2>2. CASE \E c \in Clients : EnrollCommit(c) \/ Verify2faCommit(c)
    BY <2>2, FactorEnrollCommit, FactorVerifyCommit
  <2>3. CASE \E c \in Clients, op \in {"login", "challenge"}, t \in ChallengeIds,
                code \in {"wrong", "totp"} \union RecoveryCodes : StepTwoBegin(c, op, t, code)
    BY <2>3, FactorStepTwoBegin
  <2>4. CASE \E c \in Clients : CodeRefused(c) \/ CodeRaises(c)
    BY <2>4, FactorRefused
  <2>5. CASE \E c \in Clients : CodeAccepted(c)
    BY <2>5, FactorAccepted
  <2>6. CASE Disable2fa \/ AdminDisable2fa \/ RegenerateCodes
    BY <2>6, FactorRowChanges DEF Disable2fa, AdminDisable2fa
  <2>7. CASE NextPeriod \/ \E t \in ChallengeIds : ChallengeIssued(t) \/ ChallengeExpires(t)
    BY <2>7, FactorTokens
  <2>8. QED
    BY <1>1, <2>1, <2>2, <2>3, <2>4, <2>5, <2>6, <2>7 DEF FNext
<1>2. CASE UNCHANGED fVars
  BY <1>2 DEF fVars, FactorInv, FactorTypeOK, ChallengeInv, CodesInv, EnrollInv, Holds
<1>3. QED
  BY <1>1, <1>2

\* A challenge opens one session unless two requests held it at a time, and,
\* unless requests wrote the row over each other, a recovery code serves once
\* and the secret that is asked for was confirmed (_verify_2fa_code, enroll_2fa).
THEOREM SecondFactorServesOnce == FSpec => []SecondFactorHolds
<1>1. FactorInv => SecondFactorHolds
  <2> SUFFICES ASSUME FactorInv PROVE SecondFactorHolds
    OBVIOUS
  <2>1. ChallengeOnce
    BY DEF FactorInv, FactorTypeOK, Challenge, ChallengeInv, ChallengeOnce
  <2>2. RecoveryCodeOnce /\ EnabledIsConfirmed
    BY DEF FactorInv, CodesInv, RecoveryCodeOnce, EnabledIsConfirmed
  <2>3. QED
    BY <2>1, <2>2 DEF SecondFactorHolds, FactorInv
<1>2. QED
  BY FactorInit, FactorStep, <1>1, PTL DEF FSpec
-----------------------------------------------------------------------------
(* SignIn                                                                  *)

\* A change of the password that has run its UPDATE of sessions.
Revoked(c) == signReq[c].op \in {"reset", "change"} /\ signReq[c].step = "revoked"
Standing(s) == sess[s].st \in {"live", "left"}

\* The UPDATE has every session that was there; one that was opened since is
\* marked as raced.
RevokeInv ==
    \A c \in Clients : Revoked(c) =>
        \A s \in SessIds : Standing(s) => s \in signReq[c].keep \union signReq[c].rev \/ sess[s].raced
SessionInv == \A s \in SessIds : Standing(s) => sess[s].pw = user.pw \/ sess[s].raced
FailureInv == ~stale => user.fails = wrong /\ (user.fails >= Threshold => user.locked # 0)
\* A wrong attempt is within the bound, so that it can be counted.
WrongInv ==
    \A c \in Clients : signReq[c].op \in {"login", "challenge"} /\ ~signReq[c].right => signReq[c].fails < bound.fails

SignInv == SignInTypeOK /\ RevokeInv /\ SessionInv /\ FailureInv /\ WrongInv

LEMMA SignInit == SInit => SignInv
<1> SUFFICES ASSUME SInit PROVE SignInv
  OBVIOUS
<1>1. /\ bound \in Bounds /\ bound.clock \in Nat /\ bound.fails \in Nat /\ bound.pw \in Nat
      /\ bound.sessions \in Nat /\ bound.requests \in Nat
  BY SignInAssumption DEF SInit
<1>2. user \in User /\ NoSession \in Session /\ Idle \in SignRequest
  BY <1>1 DEF SInit, User, NoSession, Session, Idle, SignRequest
<1>3. clock \in 0..bound.clock /\ begun \in 0..bound.requests /\ wrong \in Nat
  BY <1>1 DEF SInit
<1>4. SignInTypeOK
  BY <1>1, <1>2, <1>3 DEF SInit, SignInTypeOK
<1>5. (\A c \in Clients : signReq[c].op = "idle") /\ (\A s \in SessIds : sess[s].st = "free")
  BY DEF SInit, Idle, NoSession
<1>6. RevokeInv /\ SessionInv /\ WrongInv
  BY <1>5 DEF RevokeInv, SessionInv, WrongInv, Revoked, Standing
<1>7. FailureInv
  BY SignInAssumption DEF SInit, FailureInv
<1>8. QED
  BY <1>4, <1>6, <1>7 DEF SignInv

\* What the limits and a request under way are.
LEMMA SignTypes ==
    ASSUME SignInTypeOK
    PROVE  /\ bound.clock \in Nat /\ bound.fails \in Nat /\ bound.pw \in Nat
           /\ bound.sessions \in Nat /\ bound.requests \in Nat
           /\ clock \in Nat /\ user.fails \in Nat /\ user.locked \in Nat /\ user.pw \in Nat
           /\ \A c \in Clients :
                /\ signReq[c].op \in {"login", "challenge"} =>
                      /\ signReq[c].right \in BOOLEAN /\ signReq[c].pw \in 0..bound.pw
                      /\ signReq[c].fails \in 0..bound.fails /\ signReq[c].locked \in Nat /\ signReq[c].at \in Nat
                /\ signReq[c].op \in {"reset", "change"} =>
                      /\ signReq[c].step \in {"read", "revoked"}
                      /\ signReq[c].fails \in 0..bound.fails /\ signReq[c].locked \in Nat
                      /\ signReq[c].keep \in SUBSET SessIds /\ signReq[c].rev \in SUBSET SessIds
<1>1. bound \in [clock : Nat, fails : Nat, pw : Nat, sessions : Nat, requests : Nat]
  BY SignInAssumption DEF SignInTypeOK
<1>2. bound.clock \in Nat /\ bound.fails \in Nat /\ bound.pw \in Nat /\ bound.sessions \in Nat /\ bound.requests \in Nat
  BY <1>1
<1>3. clock \in Nat /\ user.fails \in Nat /\ user.locked \in Nat /\ user.pw \in Nat
  BY <1>2 DEF SignInTypeOK, User
<1>4. \A c \in Clients :
                /\ signReq[c].op \in {"login", "challenge"} =>
                      /\ signReq[c].right \in BOOLEAN /\ signReq[c].pw \in 0..bound.pw
                      /\ signReq[c].fails \in 0..bound.fails /\ signReq[c].locked \in Nat /\ signReq[c].at \in Nat
                /\ signReq[c].op \in {"reset", "change"} =>
                      /\ signReq[c].step \in {"read", "revoked"}
                      /\ signReq[c].fails \in 0..bound.fails /\ signReq[c].locked \in Nat
                      /\ signReq[c].keep \in SUBSET SessIds /\ signReq[c].rev \in SUBSET SessIds
  BY DEF SignInTypeOK, SignRequest, Idle
<1>5. QED
  BY <1>2, <1>3, <1>4

LEMMA LockoutPositive ==
    ASSUME NEW fails \in Nat
    PROVE  NextLockout(fails) \in Nat /\ NextLockout(fails) # 0
<1>1. Len(Durations) \in Nat /\ Len(Durations) # 0
  BY SignInAssumption
<1>2. \A i \in 1..Len(Durations) : Durations[i] \in Nat \ {0}
  BY SignInAssumption
<1>3. PICK over \in Nat : over = IF fails > Threshold THEN fails - Threshold ELSE 0
  <2>1. PICK n \in Nat : n = Threshold
    BY SignInAssumption
  <2>2. (IF fails > n THEN fails - n ELSE 0) \in Nat
    OBVIOUS
  <2>3. QED
    BY <2>1, <2>2
<1>4. PICK i \in 1..Len(Durations) : i = IF over < Len(Durations) THEN over + 1 ELSE Len(Durations)
  BY <1>1
<1>5. NextLockout(fails) = Durations[i]
  BY <1>3, <1>4 DEF NextLockout
<1>6. QED
  BY <1>2, <1>5

\* No session is added and the password stays; no change of it runs its UPDATE.
LEMMA SessionsFewer ==
    ASSUME SignInv, user'.pw = user.pw,
           \A s \in SessIds : Standing(s)' => Standing(s) /\ sess'[s].pw = sess[s].pw /\ sess'[s].raced = sess[s].raced,
           \A c \in Clients : Revoked(c)' => signReq'[c] = signReq[c]
    PROVE  RevokeInv' /\ SessionInv'
<1>1. SessionInv'
  BY DEF SignInv, SessionInv
<1>2. RevokeInv'
  <2> SUFFICES ASSUME NEW c \in Clients, Revoked(c)', NEW s \in SessIds, Standing(s)'
               PROVE  s \in signReq'[c].keep \union signReq'[c].rev \/ sess'[s].raced
    BY DEF RevokeInv
  <2>1. signReq'[c] = signReq[c] /\ Revoked(c)
    BY DEF Revoked
  <2>2. QED
    BY <2>1 DEF SignInv, RevokeInv
<1>3. QED
  BY <1>1, <1>2

\* A request that ends.
LEMMA SignEnds ==
    ASSUME SignInv, NEW c \in Clients, EndSign(c), UNCHANGED bound
    PROVE  /\ signReq' \in [Clients -> SignRequest'] /\ begun' = begun /\ WrongInv'
           /\ \A d \in Clients : signReq'[d] = IF d = c THEN Idle ELSE signReq[d]
           /\ \A d \in Clients : Revoked(d)' => d # c /\ signReq'[d] = signReq[d]
<1>1. Idle \in SignRequest
  BY DEF SignRequest
<1>2. SignRequest' = SignRequest
  BY DEF SignRequest
<1>3. /\ signReq' \in [Clients -> SignRequest'] /\ begun' = begun
      /\ \A d \in Clients : signReq'[d] = IF d = c THEN Idle ELSE signReq[d]
  BY <1>1, <1>2 DEF EndSign, SignInv, SignInTypeOK
<1>4. WrongInv' /\ \A d \in Clients : Revoked(d)' => d # c /\ signReq'[d] = signReq[d]
  BY <1>3 DEF WrongInv, SignInv, Idle, Revoked
<1>5. QED
  BY <1>3, <1>4

\* A request that begins, with the record r.
LEMMA SignBegins ==
    ASSUME SignInv, NEW c \in Clients, NEW r \in SignRequest, BeginSign(c, r),
           r.op \in {"login", "challenge"} => r.right \/ r.fails < bound.fails,
           r.op \in {"reset", "change"} => r.step = "read",
           UNCHANGED <<user, sess, token, clock, wrong, stale, bound>>
    PROVE  SignInv'
<1>1. SignRequest' = SignRequest /\ User' = User /\ Session' = Session
  BY DEF SignRequest, User, Session
<1>2. signReq' = [signReq EXCEPT ![c] = r] /\ begun' \in 0..bound.requests
  <2>1. bound.requests \in Nat /\ begun \in 0..bound.requests
    BY SignTypes DEF SignInv, SignInTypeOK
  <2>2. QED
    BY <2>1 DEF BeginSign
<1>3. SignInTypeOK'
  BY <1>1, <1>2 DEF SignInv, SignInTypeOK
<1>4. \A d \in Clients : signReq'[d] = IF d = c THEN r ELSE signReq[d]
  BY <1>2 DEF SignInv, SignInTypeOK
<1>5. \A d \in Clients : Revoked(d)' => signReq'[d] = signReq[d]
  BY <1>4 DEF Revoked
<1>6. RevokeInv' /\ SessionInv'
  BY <1>5, SessionsFewer DEF Standing
<1>7. WrongInv'
  BY <1>4 DEF SignInv, WrongInv
<1>8. FailureInv'
  BY DEF SignInv, FailureInv
<1>9. QED
  BY <1>3, <1>6, <1>7, <1>8 DEF SignInv

LEMMA SignBeginSteps ==
    ASSUME SignInv, UNCHANGED bound, NEW c \in Clients,
           \/ \E op \in {"login", "challenge"}, right \in BOOLEAN : LoginBegin(c, op, right)
           \/ ResetBegin(c) \/ (\E s \in SessIds : ChangeBegin(c, s))
    PROVE  SignInv'
<1>0. /\ user.pw \in 0..bound.pw /\ user.fails \in 0..bound.fails /\ user.locked \in Nat /\ clock \in Nat
      /\ 0 \in 0..bound.fails
  BY SignTypes DEF SignInv, SignInTypeOK, User
<1>1. CASE \E op \in {"login", "challenge"}, right \in BOOLEAN : LoginBegin(c, op, right)
  <2>1. PICK op \in {"login", "challenge"}, right \in BOOLEAN : LoginBegin(c, op, right)
    BY <1>1
  <2>2. PICK r : r = [op |-> op, right |-> right, pw |-> user.pw, fails |-> user.fails, locked |-> user.locked, at |-> clock]
    OBVIOUS
  <2>3. r \in SignRequest /\ r.op = op /\ r.right = right /\ r.fails = user.fails
    BY <1>0, <2>2 DEF SignRequest
  <2>4. BeginSign(c, r) /\ (right \/ user.fails < bound.fails) /\ UNCHANGED <<user, sess, token, clock, wrong, stale, bound>>
    BY <2>1, <2>2 DEF LoginBegin
  <2>5. QED
    BY <2>3, <2>4, SignBegins
<1>2. CASE ResetBegin(c)
  <2>1. PICK r : r = [op |-> "reset", step |-> "read", fails |-> user.fails, locked |-> user.locked, keep |-> {}, rev |-> {}]
    OBVIOUS
  <2>2. r \in SignRequest /\ r.op = "reset" /\ r.step = "read"
    BY <1>0, <2>1 DEF SignRequest
  <2>3. BeginSign(c, r) /\ UNCHANGED <<user, sess, token, clock, wrong, stale, bound>>
    BY <1>2, <2>1 DEF ResetBegin
  <2>4. QED
    BY <2>2, <2>3, SignBegins
<1>3. CASE \E s \in SessIds : ChangeBegin(c, s)
  <2>1. PICK s \in SessIds : ChangeBegin(c, s)
    BY <1>3
  <2>2. PICK r : r = [op |-> "change", step |-> "read", fails |-> 0, locked |-> 0, keep |-> {s}, rev |-> {}]
    OBVIOUS
  <2>3. r \in SignRequest /\ r.op = "change" /\ r.step = "read"
    BY <1>0, <2>2 DEF SignRequest
  <2>4. BeginSign(c, r) /\ UNCHANGED <<user, sess, token, clock, wrong, stale, bound>>
    BY <2>1, <2>2 DEF ChangeBegin
  <2>5. QED
    BY <2>3, <2>4, SignBegins
<1>4. QED
  BY <1>1, <1>2, <1>3

\* A refused attempt, and an account that is cleared: the count and the lock
\* are right when the request had read them as they are.
LEMMA SignCounts ==
    ASSUME SignInv, NEW r, r.fails \in 0..bound.fails, r.locked \in Nat
    PROVE  /\ Cleared(r) \in User /\ Cleared(r).pw = user.pw
           /\ ~Outdated(r) => ~stale /\ Cleared(r).fails = 0
           /\ r.fails < bound.fails /\ r.at \in Nat =>
                /\ Failed(r) \in User /\ Failed(r).pw = user.pw
                /\ ~Outdated(r) => /\ ~stale /\ Failed(r).fails = user.fails + 1
                                   /\ Failed(r).fails >= Threshold => Failed(r).locked # 0
<1>1. /\ bound.fails \in Nat /\ user \in User /\ user.fails \in Nat /\ user.locked \in Nat /\ r.fails \in Nat
      /\ 0 \in 0..bound.fails
  BY SignTypes DEF SignInv, SignInTypeOK
<1>2. PICK f, l : f = (IF r.fails # 0 THEN 0 ELSE user.fails) /\ l = (IF r.locked # 0 THEN 0 ELSE user.locked)
  OBVIOUS
<1>3. f \in 0..bound.fails /\ l \in Nat
  BY <1>1, <1>2 DEF User
<1>4. Cleared(r) = [user EXCEPT !.fails = f, !.locked = l]
  BY <1>2 DEF Cleared
<1>5. Cleared(r) \in User /\ Cleared(r).pw = user.pw /\ Cleared(r).fails = f
  BY <1>1, <1>3, <1>4 DEF User
<1>6. ~Outdated(r) => ~stale /\ Cleared(r).fails = 0
  BY <1>2, <1>5 DEF Outdated
<1>7. ASSUME r.fails < bound.fails, r.at \in Nat
      PROVE  /\ Failed(r) \in User /\ Failed(r).pw = user.pw
             /\ ~Outdated(r) => /\ ~stale /\ Failed(r).fails = user.fails + 1
                                /\ Failed(r).fails >= Threshold => Failed(r).locked # 0
  <2>1. PICK g \in 0..bound.fails : g = r.fails + 1
    BY <1>1, <1>7
  <2>2. PICK k \in Nat : k = (IF g >= Threshold THEN r.at + NextLockout(g) ELSE user.locked) /\ (g >= Threshold => k # 0)
    BY <1>1, <1>7, LockoutPositive
  <2>3. Failed(r) = [user EXCEPT !.fails = g, !.locked = k]
    BY <2>1, <2>2 DEF Failed
  <2>4. Failed(r) \in User /\ Failed(r).pw = user.pw /\ Failed(r).fails = g /\ Failed(r).locked = k
    BY <1>1, <2>3 DEF User
  <2>5. QED
    BY <2>1, <2>2, <2>4 DEF Outdated
<1>8. QED
  BY <1>5, <1>6, <1>7

LEMMA OutdatedType == ASSUME SignInv, NEW r PROVE Outdated(r) \in BOOLEAN
  BY Zenon DEF Outdated, SignInv, SignInTypeOK

LEMMA SignRefused ==
    ASSUME SignInv, UNCHANGED bound, NEW c \in Clients, LoginRefused(c)
    PROVE  SignInv'
<1>1. /\ signReq[c].op \in {"login", "challenge"} /\ EndSign(c) /\ user' = Failed(signReq[c]) /\ wrong' = wrong + 1
      /\ stale' = Outdated(signReq[c]) /\ UNCHANGED <<sess, token, clock>>
      /\ signReq[c].fails < bound.fails
  BY DEF LoginRefused, SignInv, WrongInv
<1>2. /\ signReq[c].fails \in 0..bound.fails /\ signReq[c].locked \in Nat /\ signReq[c].at \in Nat
  BY <1>1, SignTypes DEF SignInv
<1>3. /\ user' \in User /\ user'.pw = user.pw
      /\ ~stale' => ~stale /\ user'.fails = user.fails + 1 /\ (user'.fails >= Threshold => user'.locked # 0)
  BY <1>1, <1>2, SignCounts
<1>4. /\ signReq' \in [Clients -> SignRequest'] /\ begun' = begun /\ WrongInv'
      /\ \A d \in Clients : Revoked(d)' => signReq'[d] = signReq[d]
  BY <1>1, SignEnds
<1>5. User' = User /\ Session' = Session /\ stale' \in BOOLEAN
  BY <1>1, OutdatedType DEF User, Session
<1>6. SignInTypeOK'
  BY <1>1, <1>3, <1>4, <1>5 DEF SignInv, SignInTypeOK
<1>7. RevokeInv' /\ SessionInv'
  BY <1>1, <1>3, <1>4, SessionsFewer DEF Standing
<1>8. FailureInv'
  BY <1>1, <1>3 DEF SignInv, FailureInv
<1>9. QED
  BY <1>4, <1>6, <1>7, <1>8 DEF SignInv

\* A new session has the password of the account, or is marked as raced.
LEMMA SessionIssued ==
    ASSUME SignInv, UNCHANGED bound, NEW pw, IssueSession(pw), user'.pw = user.pw,
           \A c \in Clients : Revoked(c)' => signReq'[c] = signReq[c]
    PROVE  sess' \in [SessIds -> Session'] /\ RevokeInv' /\ SessionInv'
<1>1. PICK new : new = [st |-> "live", pw |-> user.pw, raced |-> pw # user.pw \/ Revoking]
  OBVIOUS
<1>2. user.pw \in 0..bound.pw
  BY DEF SignInv, SignInTypeOK, User
<1>3. (pw # user.pw \/ Revoking) \in BOOLEAN
  BY Zenon
<1>4. new \in Session /\ new.pw = user.pw /\ (Revoking => new.raced)
  BY <1>1, <1>2, <1>3 DEF Session
<1>5. PICK s \in SessIds : sess' = [sess EXCEPT ![s] = new]
  BY <1>1 DEF IssueSession
<1>6. sess' \in [SessIds -> Session'] /\ \A o \in SessIds : sess'[o] = IF o = s THEN new ELSE sess[o]
  BY <1>4, <1>5 DEF SignInv, SignInTypeOK, Session
<1>7. SessionInv'
  BY <1>4, <1>6 DEF SignInv, SessionInv, Standing
<1>8. RevokeInv'
  <2> SUFFICES ASSUME NEW c \in Clients, Revoked(c)', NEW o \in SessIds, Standing(o)'
               PROVE  o \in signReq'[c].keep \union signReq'[c].rev \/ sess'[o].raced
    BY DEF RevokeInv
  <2>1. signReq'[c] = signReq[c] /\ Revoked(c) /\ Revoking
    BY DEF Revoked, Revoking
  <2>2. QED
    BY <1>4, <1>6, <2>1 DEF SignInv, RevokeInv, Standing
<1>9. QED
  BY <1>6, <1>7, <1>8

LEMMA SignDone ==
    ASSUME SignInv, UNCHANGED bound, NEW c \in Clients, LoginDone(c)
    PROVE  SignInv'
<1>1. /\ signReq[c].op \in {"login", "challenge"} /\ EndSign(c) /\ IssueSession(signReq[c].pw)
      /\ user' = Cleared(signReq[c]) /\ wrong' = 0
      /\ stale' = Outdated(signReq[c]) /\ UNCHANGED <<token, clock>>
  BY DEF LoginDone
<1>2. signReq[c].fails \in 0..bound.fails /\ signReq[c].locked \in Nat
  BY <1>1, SignTypes DEF SignInv
<1>3. user' \in User /\ user'.pw = user.pw /\ (~stale' => user'.fails = 0)
  BY <1>1, <1>2, SignCounts
<1>4. /\ signReq' \in [Clients -> SignRequest'] /\ begun' = begun /\ WrongInv'
      /\ \A d \in Clients : Revoked(d)' => signReq'[d] = signReq[d]
  BY <1>1, SignEnds
<1>5. User' = User /\ stale' \in BOOLEAN
  BY <1>1, OutdatedType DEF User
<1>6. sess' \in [SessIds -> Session'] /\ RevokeInv' /\ SessionInv'
  BY <1>1, <1>3, <1>4, SessionIssued
<1>7. SignInTypeOK'
  BY <1>1, <1>3, <1>4, <1>5, <1>6 DEF SignInv, SignInTypeOK
<1>8. FailureInv'
  BY <1>1, <1>3, SignInAssumption DEF FailureInv
<1>9. QED
  BY <1>4, <1>6, <1>7, <1>8 DEF SignInv

LEMMA SignIssues ==
    ASSUME SignInv, UNCHANGED bound, Impersonate \/ GoogleLogin
    PROVE  SignInv'
<1>1. /\ IssueSession(user.pw) /\ UNCHANGED <<token, signReq, clock, stale, begun>>
      /\ \/ UNCHANGED <<user, wrong>>
         \/ user' = [user EXCEPT !.fails = 0, !.locked = 0] /\ wrong' = 0
  BY DEF Impersonate, GoogleLogin
<1>2. /\ user' \in User /\ user'.pw = user.pw /\ wrong' \in Nat
      /\ (UNCHANGED <<user, wrong>>) \/ (user'.fails = 0 /\ wrong' = 0)
  <2>1. user \in User /\ wrong \in Nat /\ 0 \in 0..bound.fails
    BY SignTypes DEF SignInv, SignInTypeOK
  <2>2. CASE UNCHANGED <<user, wrong>>
    BY <2>1, <2>2
  <2>3. CASE user' = [user EXCEPT !.fails = 0, !.locked = 0] /\ wrong' = 0
    <3>1. user' \in User /\ user'.pw = user.pw /\ user'.fails = 0
      BY <2>1, <2>3 DEF User
    <3>2. QED
      BY <2>3, <3>1
  <2>4. QED
    BY <1>1, <2>2, <2>3
<1>3. User' = User /\ SignRequest' = SignRequest
  BY DEF User, SignRequest
<1>4. sess' \in [SessIds -> Session'] /\ RevokeInv' /\ SessionInv'
  BY <1>1, <1>2, SessionIssued
<1>5. SignInTypeOK'
  BY <1>1, <1>2, <1>3, <1>4 DEF SignInv, SignInTypeOK
<1>6. FailureInv'
  BY <1>1, <1>2, SignInAssumption DEF SignInv, FailureInv
<1>7. WrongInv'
  BY <1>1 DEF SignInv, WrongInv
<1>8. QED
  BY <1>4, <1>5, <1>6, <1>7 DEF SignInv

\* The UPDATE takes every session there is, but the one that asks.
LEMMA SignUpdates ==
    ASSUME SignInv, UNCHANGED bound, NEW c \in Clients, PasswordUpdate(c)
    PROVE  SignInv'
<1>1. PICK new : new = [signReq[c] EXCEPT !.step = "revoked", !.rev = PasswordRevokes(c)]
  OBVIOUS
<1>2. signReq[c] \in [op : {"reset", "change"}, step : {"read", "revoked"}, fails : 0..bound.fails, locked : Nat,
                      keep : SUBSET SessIds, rev : SUBSET SessIds]
  BY DEF PasswordUpdate, SignInv, SignInTypeOK, SignRequest, Idle
<1>3. PasswordRevokes(c) \in SUBSET SessIds
  BY DEF PasswordRevokes, Live
<1>4. new \in SignRequest /\ new.op \in {"reset", "change"} /\ new.rev = PasswordRevokes(c) /\ new.keep = signReq[c].keep
  BY <1>1, <1>2, <1>3 DEF SignRequest
<1>5. signReq' = [signReq EXCEPT ![c] = new] /\ UNCHANGED <<user, sess, token, clock, wrong, stale, begun>>
  BY <1>1 DEF PasswordUpdate
<1>6. SignRequest' = SignRequest /\ User' = User /\ Session' = Session
  BY DEF SignRequest, User, Session
<1>7. SignInTypeOK' /\ \A d \in Clients : signReq'[d] = IF d = c THEN new ELSE signReq[d]
  BY <1>4, <1>5, <1>6 DEF SignInv, SignInTypeOK
<1>8. SessionInv' /\ FailureInv'
  BY <1>5 DEF SignInv, SessionInv, FailureInv, Standing
<1>9. WrongInv'
  BY <1>4, <1>7 DEF SignInv, WrongInv
<1>10. \A s \in SessIds : Standing(s) => s \in new.keep \union new.rev
  BY <1>4 DEF PasswordRevokes, Live, Standing
<1>11. RevokeInv'
  <2> SUFFICES ASSUME NEW d \in Clients, Revoked(d)', NEW s \in SessIds, Standing(s)'
               PROVE  s \in signReq'[d].keep \union signReq'[d].rev \/ sess'[s].raced
    BY DEF RevokeInv
  <2>1. Standing(s) /\ sess'[s] = sess[s]
    BY <1>5 DEF Standing
  <2>2. CASE d = c
    BY <1>7, <1>10, <2>1, <2>2
  <2>3. CASE d # c
    BY <1>7, <2>1, <2>3 DEF SignInv, RevokeInv, Revoked
  <2>4. QED
    BY <2>2, <2>3
<1>12. QED
  BY <1>7, <1>8, <1>9, <1>11 DEF SignInv

\* The commit: what the UPDATE took is gone, the session that asked is of the
\* new password, and any other was opened since and is marked.
LEMMA SignChanges ==
    ASSUME SignInv, UNCHANGED bound, NEW c \in Clients, PasswordCommit(c)
    PROVE  SignInv'
<1>1. PICK r, pw : r = signReq[c] /\ pw = user.pw + 1
  OBVIOUS
<1>2. /\ r.op \in {"reset", "change"} /\ Revoked(c) /\ EndSign(c) /\ pw <= bound.pw
      /\ sess' = [s \in SessIds |-> IF s \in r.keep THEN [sess[s] EXCEPT !.pw = pw] ELSE Revoke(r.rev)[s]]
      /\ \/ r.op = "reset" /\ user' = [Cleared(r) EXCEPT !.pw = pw] /\ token' = "used" /\ wrong' = 0 /\ stale' = Outdated(r)
         \/ user' = [user EXCEPT !.pw = pw] /\ UNCHANGED <<token, wrong, stale>>
      /\ UNCHANGED clock
  BY <1>1 DEF PasswordCommit, Revoked
<1>3. r.fails \in 0..bound.fails /\ r.locked \in Nat
  BY <1>1, <1>2, SignTypes DEF SignInv
<1>4. pw \in 0..bound.pw
  <2>1. user.pw \in Nat /\ bound.pw \in Nat
    BY SignTypes DEF SignInv
  <2>2. QED
    BY <1>1, <1>2, <2>1
<1>5. user' \in User /\ user'.pw = pw /\ stale' \in BOOLEAN /\ wrong' \in Nat /\ FailureInv' /\ token' \in {"none", "open", "used", "expired"}
  <2>1. CASE r.op = "reset" /\ user' = [Cleared(r) EXCEPT !.pw = pw] /\ token' = "used" /\ wrong' = 0 /\ stale' = Outdated(r)
    <3>1. PICK u \in User : u = Cleared(r) /\ (~Outdated(r) => u.fails = 0)
      BY <1>3, SignCounts
    <3>2. user' = [u EXCEPT !.pw = pw]
      BY <2>1, <3>1
    <3>3. user' \in User /\ user'.pw = pw /\ user'.fails = u.fails
      BY <1>4, <3>2 DEF User
    <3>4. stale' \in BOOLEAN
      BY <2>1, OutdatedType
    <3>5. FailureInv'
      BY <2>1, <3>1, <3>3, SignInAssumption DEF FailureInv
    <3>6. QED
      BY <2>1, <3>3, <3>4, <3>5
  <2>2. CASE user' = [user EXCEPT !.pw = pw] /\ UNCHANGED <<token, wrong, stale>>
    <3>1. user' \in User /\ user'.pw = pw /\ user'.fails = user.fails /\ user'.locked = user.locked
      BY <1>4, <2>2 DEF SignInv, SignInTypeOK, User
    <3>2. QED
      BY <2>2, <3>1 DEF SignInv, SignInTypeOK, FailureInv
  <2>3. QED
    BY <1>2, <2>1, <2>2
<1>6. /\ signReq' \in [Clients -> SignRequest'] /\ begun' = begun /\ WrongInv'
      /\ \A d \in Clients : Revoked(d)' => signReq'[d] = signReq[d]
  BY <1>2, SignEnds
<1>7. \A s \in SessIds :
          /\ s \in r.keep => sess'[s] = [sess[s] EXCEPT !.pw = pw]
          /\ s \notin r.keep /\ s \in r.rev => sess'[s] = [NoSession EXCEPT !.st = "revoked"]
          /\ s \notin r.keep /\ s \notin r.rev => sess'[s] = sess[s]
  BY <1>2 DEF Revoke
<1>8. \A s \in SessIds :
          /\ sess'[s] \in Session
          /\ Standing(s)' => Standing(s) /\ sess'[s].raced = sess[s].raced
          /\ Standing(s)' => s \notin r.rev \/ s \in r.keep
          /\ s \in r.keep => sess'[s].pw = pw
  <2> SUFFICES ASSUME NEW s \in SessIds
               PROVE  /\ sess'[s] \in Session
                      /\ Standing(s)' => Standing(s) /\ sess'[s].raced = sess[s].raced
                      /\ Standing(s)' => s \notin r.rev \/ s \in r.keep
                      /\ s \in r.keep => sess'[s].pw = pw
    OBVIOUS
  <2>1. sess[s] \in Session /\ 0 \in 0..bound.pw
    BY SignTypes DEF SignInv, SignInTypeOK
  <2>2. CASE s \in r.keep
    BY <1>4, <1>7, <2>1, <2>2 DEF Session, Standing
  <2>3. CASE s \notin r.keep /\ s \in r.rev
    <3>1. PICK gone : gone = [NoSession EXCEPT !.st = "revoked"]
      OBVIOUS
    <3>2. gone \in Session /\ gone.st = "revoked"
      BY <2>1, <3>1 DEF Session, NoSession
    <3>3. sess'[s] = gone
      BY <1>7, <2>3, <3>1
    <3>4. QED
      BY <2>3, <3>2, <3>3 DEF Standing
  <2>4. CASE s \notin r.keep /\ s \notin r.rev
    BY <1>7, <2>1, <2>4 DEF Session, Standing
  <2>5. QED
    BY <2>2, <2>3, <2>4
<1>9. User' = User /\ Session' = Session
  BY DEF User, Session
<1>10. SignInTypeOK'
  BY <1>2, <1>5, <1>6, <1>8, <1>9 DEF SignInv, SignInTypeOK
<1>11. \A s \in SessIds : Standing(s) => s \in r.keep \union r.rev \/ sess[s].raced
  BY <1>1, <1>2 DEF SignInv, RevokeInv
<1>12. SessionInv'
  BY <1>5, <1>8, <1>11 DEF SessionInv
<1>13. RevokeInv'
  <2> SUFFICES ASSUME NEW d \in Clients, Revoked(d)', NEW s \in SessIds, Standing(s)'
               PROVE  s \in signReq'[d].keep \union signReq'[d].rev \/ sess'[s].raced
    BY DEF RevokeInv
  <2>1. signReq'[d] = signReq[d] /\ Revoked(d)
    BY <1>6 DEF Revoked
  <2>2. QED
    BY <1>8, <2>1 DEF SignInv, RevokeInv
<1>14. QED
  BY <1>5, <1>6, <1>10, <1>12, <1>13 DEF SignInv

\* Steps that only change the row of the user, the token or the clock.
LEMMA SignUserSteps ==
    ASSUME SignInv, UNCHANGED <<bound, sess, signReq, stale, begun>>,
           user' \in User, user'.pw = user.pw, clock' \in 0..bound.clock,
           token' \in {"none", "open", "used", "expired"},
           \/ user'.fails = user.fails /\ (user.locked # 0 => user'.locked # 0) /\ wrong' = wrong
           \/ user'.fails = 0 /\ wrong' = 0
    PROVE  SignInv'
<1>1. User' = User /\ Session' = Session /\ SignRequest' = SignRequest
  BY DEF User, Session, SignRequest
<1>2. SignInTypeOK'
  BY <1>1 DEF SignInv, SignInTypeOK
<1>3. RevokeInv' /\ SessionInv'
  BY SessionsFewer DEF Standing, Revoked
<1>4. WrongInv'
  BY DEF SignInv, WrongInv
<1>5. FailureInv'
  BY SignInAssumption DEF SignInv, FailureInv
<1>6. QED
  BY <1>2, <1>3, <1>4, <1>5 DEF SignInv

LEMMA SignOther ==
    ASSUME SignInv, UNCHANGED bound,
           \/ Forgot \/ AdminResetPassword \/ LockUser \/ UnlockUser \/ Tick \/ ResetTokenExpires
           \/ \E st \in {"active", "suspended"} : UpdateUser(st)
    PROVE  SignInv'
<1>1. user \in User /\ clock \in 0..bound.clock /\ bound.clock \in Nat /\ 0 \in 0..bound.fails /\ clock \in Nat
  BY SignTypes DEF SignInv, SignInTypeOK
<1>2. CASE Forgot \/ AdminResetPassword \/ ResetTokenExpires
  BY <1>1, <1>2, SignUserSteps DEF Forgot, AdminResetPassword, NewToken, ResetTokenExpires
<1>3. CASE Tick
  <2>1. clock' \in 0..bound.clock /\ UNCHANGED <<user, sess, token, signReq, wrong, stale, begun>>
    BY <1>1, <1>3 DEF Tick
  <2>2. token' \in {"none", "open", "used", "expired"}
    BY <2>1 DEF SignInv, SignInTypeOK
  <2>3. QED
    BY <1>1, <2>1, <2>2, SignUserSteps
<1>4. CASE LockUser \/ UnlockUser \/ \E st \in {"active", "suspended"} : UpdateUser(st)
  <2>1. UNCHANGED <<sess, token, signReq, clock, stale, begun>>
    BY <1>4 DEF LockUser, UnlockUser, UpdateUser
  <2>2. token' \in {"none", "open", "used", "expired"}
    BY <2>1 DEF SignInv, SignInTypeOK
  <2>3. CASE LockUser
    <3>1. PICK k \in Nat : k = clock + 1 /\ k # 0
      BY <1>1
    <3>2. user' = [user EXCEPT !.locked = k] /\ wrong' = wrong
      BY <2>3, <3>1 DEF LockUser
    <3>3. user' \in User /\ user'.pw = user.pw /\ user'.fails = user.fails /\ user'.locked = k
      BY <1>1, <3>2 DEF User
    <3>4. QED
      BY <1>1, <2>1, <2>2, <3>1, <3>2, <3>3, SignUserSteps
  <2>4. CASE UnlockUser
    <3>1. user' \in User /\ user'.pw = user.pw /\ user'.fails = 0 /\ wrong' = 0
      BY <1>1, <2>4 DEF User, UnlockUser
    <3>2. QED
      BY <1>1, <2>1, <2>2, <3>1, SignUserSteps
  <2>5. CASE \E st \in {"active", "suspended"} : UpdateUser(st)
    <3>1. user' \in User /\ user'.pw = user.pw /\ user'.fails = user.fails /\ user'.locked = user.locked /\ wrong' = wrong
      BY <1>1, <2>5 DEF User, UpdateUser
    <3>2. QED
      BY <1>1, <2>1, <2>2, <3>1, SignUserSteps
  <2>6. QED
    BY <1>4, <2>3, <2>4, <2>5
<1>5. QED
  BY <1>2, <1>3, <1>4

LEMMA SignSessionSteps ==
    ASSUME SignInv, UNCHANGED bound,
           AdminRevokeAll \/ \E s \in SessIds : Logout(s) \/ AdminRevokeSession(s)
    PROVE  SignInv'
<1>1. UNCHANGED <<user, token, signReq, clock, wrong, stale, begun>>
  BY DEF AdminRevokeAll, Logout, AdminRevokeSession
<1>2. sess \in [SessIds -> Session] /\ 0 \in 0..bound.pw
  BY SignTypes DEF SignInv, SignInTypeOK
<1>3. /\ sess' \in [SessIds -> Session]
      /\ \A s \in SessIds : Standing(s)' => Standing(s) /\ sess'[s].pw = sess[s].pw /\ sess'[s].raced = sess[s].raced
  <2>1. CASE \E S \in SUBSET SessIds : sess' = Revoke(S)
    <3>1. PICK S \in SUBSET SessIds : sess' = Revoke(S)
      BY <2>1
    <3>2. PICK gone \in Session : gone = [NoSession EXCEPT !.st = "revoked"] /\ gone.st = "revoked"
      <4>1. PICK gone : gone = [NoSession EXCEPT !.st = "revoked"]
        OBVIOUS
      <4>2. gone \in Session /\ gone.st = "revoked"
        BY <1>2, <4>1 DEF NoSession, Session
      <4>3. QED
        BY <4>1, <4>2
    <3>3. sess' = [s \in SessIds |-> IF s \in S THEN gone ELSE sess[s]]
      BY <3>1, <3>2 DEF Revoke
    <3>4. QED
      BY <1>2, <3>2, <3>3 DEF Standing
  <2>2. CASE \E s \in SessIds : Logout(s)
    <3>1. PICK s \in SessIds : Logout(s)
      BY <2>2
    <3>2. PICK new : new = [sess[s] EXCEPT !.st = "left"]
      OBVIOUS
    <3>3. new \in Session /\ new.pw = sess[s].pw /\ new.raced = sess[s].raced
      BY <1>2, <3>2 DEF Session
    <3>4. sess' = [sess EXCEPT ![s] = new] /\ sess[s].st = "live"
      BY <3>1, <3>2 DEF Logout, LookupSession
    <3>5. QED
      BY <1>2, <3>3, <3>4 DEF Standing
  <2>3. CASE AdminRevokeAll \/ \E s \in SessIds : AdminRevokeSession(s)
    <3>1. Live \in SUBSET SessIds /\ \A s \in SessIds : {s} \in SUBSET SessIds
      BY DEF Live
    <3>2. \E S \in SUBSET SessIds : sess' = Revoke(S)
      BY <2>3, <3>1 DEF AdminRevokeAll, AdminRevokeSession
    <3>3. QED
      BY <2>1, <3>2
  <2>4. QED
    BY <2>2, <2>3
<1>4. User' = User /\ Session' = Session /\ SignRequest' = SignRequest
  BY DEF User, Session, SignRequest
<1>5. SignInTypeOK'
  BY <1>1, <1>3, <1>4 DEF SignInv, SignInTypeOK
<1>6. RevokeInv' /\ SessionInv'
  BY <1>1, <1>3, SessionsFewer
<1>7. WrongInv' /\ FailureInv'
  BY <1>1 DEF SignInv, WrongInv, FailureInv
<1>8. QED
  BY <1>5, <1>6, <1>7 DEF SignInv

LEMMA SignStep == SignInv /\ [SNext]_sVars => SignInv'
<1> SUFFICES ASSUME SignInv, [SNext]_sVars PROVE SignInv'
  OBVIOUS
<1>1. CASE SNext
  <2> UNCHANGED bound /\ SStep
    BY <1>1 DEF SNext
  <2>1. CASE \E c \in Clients :
                \/ \E op \in {"login", "challenge"}, right \in BOOLEAN : LoginBegin(c, op, right)
                \/ ResetBegin(c) \/ (\E s \in SessIds : ChangeBegin(c, s))
    BY <2>1, SignBeginSteps
  <2>2. CASE \E c \in Clients : LoginRefused(c) \/ LoginDone(c)
    BY <2>2, SignRefused, SignDone
  <2>3. CASE \E c \in Clients : PasswordUpdate(c) \/ PasswordCommit(c)
    BY <2>3, SignUpdates, SignChanges
  <2>4. CASE Impersonate \/ GoogleLogin
    BY <2>4, SignIssues
  <2>5. CASE \/ Forgot \/ AdminResetPassword \/ LockUser \/ UnlockUser \/ Tick \/ ResetTokenExpires
             \/ \E st \in {"active", "suspended"} : UpdateUser(st)
    BY <2>5, SignOther
  <2>6. CASE \/ LogoutAll \/ AdminRevokeAll
             \/ \E s \in SessIds : Logout(s) \/ DeleteSession(s) \/ AdminRevokeSession(s)
    BY <2>6, SignSessionSteps DEF LogoutAll, DeleteSession
  <2>7. QED
    BY <2>1, <2>2, <2>3, <2>4, <2>5, <2>6 DEF SStep
<1>2. CASE UNCHANGED sVars
  <2>1. UNCHANGED <<user, sess, token, signReq, clock, wrong, stale, begun, bound>>
    BY <1>2 DEF sVars
  <2>2. User' = User /\ Session' = Session /\ SignRequest' = SignRequest
    BY <2>1 DEF User, Session, SignRequest
  <2>3. QED
    BY <2>1, <2>2 DEF SignInv, SignInTypeOK, RevokeInv, SessionInv, FailureInv, WrongInv, Revoked, Standing
<1>3. QED
  BY <1>1, <1>2

\* A session that stands was opened with the current password, made the change
\* or raced with it; and refused attempts count and lock, as long as none was
\* counted over a count that had changed (login, change_password, reset).
THEOREM SessionsFollowThePassword == SSpec => []SignInHolds
<1>1. SignInv => SignInHolds
  <2> SUFFICES ASSUME SignInv PROVE SignInHolds
    OBVIOUS
  <2>1. PasswordEndsSessions
    BY DEF SignInv, SessionInv, Standing, PasswordEndsSessions, Live
  <2>2. FailuresCounted /\ FailuresLock
    BY DEF SignInv, FailureInv, FailuresCounted, FailuresLock
  <2>3. QED
    BY <2>1, <2>2 DEF SignInHolds, SignInv
<1>2. QED
  BY SignInit, SignStep, <1>1, PTL DEF SSpec
-----------------------------------------------------------------------------
(* AccountMail                                                             *)

\* What an address says for the account holds for the one the account has:
\* an account gets another address only as a verified one.
Spoken(u, e) == u \in Users /\ row[u].st # "none" /\ (row[u].email \in Addresses => row[u].verified \/ row[u].email = e)

RowOK(u) == row[u].st = "none" => row[u].email \notin Addresses
TokenOK(t) ==
    mailTok[t].kind # "free" =>
        /\ mailTok[t].user \in Users /\ row[mailTok[t].user].st # "none"
        /\ mailTok[t].kind = "verify" => mailTok[t].email \in Addresses /\ Spoken(mailTok[t].user, mailTok[t].email)
        /\ mailTok[t].kind = "change_email" => mailTok[t].email \in Addresses
LinkOK(a) == link[a] # None => Spoken(link[a], a)
\* A request comes with a token of its kind, or of the address it was asked for.
AskOK(r) ==
    /\ r.op = "verify" => mailTok[r.tok].kind = "verify"
    /\ r.op = "tg" => mailTok[r.tok].kind = "user_tg_link"
    /\ r.op = "confirm" =>
          mailTok[r.tok].kind = "change_email" /\ mailTok[r.tok].email = r.email
    /\ r.op = "profile" => row[r.user].st # "none"
    /\ r.op = "google" /\ r.user # None => Spoken(r.user, r.email)
RequestOK(c) == AskOK(mailReq[c])

KnownInv ==
    /\ \A u \in Users : RowOK(u)
    /\ \A t \in TokIds : TokenOK(t)
    /\ \A a \in Addresses : LinkOK(a)
    /\ \A c \in Clients : RequestOK(c)
    /\ \A u \in forgotten : row[u].st # "none"

MailInv == MailTypeOK /\ KnownInv /\ VerifiedWasAnswered /\ ForgottenIsForgotten

LEMMA MailInit == MInit => MailInv
<1> SUFFICES ASSUME MInit PROVE MailInv
  OBVIOUS
<1>1. NoRow \in Row /\ NoToken \in Token /\ Idle \in MailRequest
  BY DEF NoRow, Row, NoToken, Token, MailRequest
<1>2. MailTypeOK
  BY <1>1, MailAssumption DEF MInit, MailTypeOK
<1>3. \A u \in Users : row[u].st = "none" /\ row[u].email = None /\ row[u].verified = FALSE
  BY DEF MInit, NoRow
<1>4. (\A t \in TokIds : mailTok[t].kind = "free") /\ (\A c \in Clients : mailReq[c].op = "idle")
  BY DEF MInit, NoToken, Idle
<1>5. KnownInv
  BY <1>3, <1>4, MailAssumption DEF MInit, KnownInv, RowOK, TokenOK, LinkOK, RequestOK, AskOK
<1>6. VerifiedWasAnswered /\ ForgottenIsForgotten
  BY <1>3 DEF MInit, VerifiedWasAnswered, ForgottenIsForgotten
<1>7. QED
  BY <1>2, <1>5, <1>6 DEF MailInv

LEMMA MailRequests ==
    ASSUME MailTypeOK, NEW c \in Clients
    PROVE  /\ Idle \in MailRequest
           /\ mailReq[c].op = "register" => mailReq[c].email \in Addresses
           /\ mailReq[c].op = "profile" => mailReq[c].user \in Users
           /\ mailReq[c].op \in {"verify", "tg", "confirm"} => mailReq[c].tok \in TokIds
           /\ mailReq[c].op = "confirm" => mailReq[c].email \in Addresses
           /\ mailReq[c].op = "google" =>
                 /\ mailReq[c].email \in Addresses /\ mailReq[c].vouched \in BOOLEAN /\ mailReq[c].linked \in BOOLEAN
                 /\ mailReq[c].user \in Users \union {None}
  BY DEF MailTypeOK, MailRequest, Idle

\* Accounts do not vanish, stay verified, and change their address only to a
\* verified one or to none.
RowsGoOn ==
    \A u \in Users : row[u].st # "none" =>
        /\ row'[u].st # "none" /\ (row[u].verified => row'[u].verified)
        /\ row'[u].email \in Addresses => row'[u].verified \/ row'[u].email = row[u].email
SameToken(t) ==
    mailTok'[t].kind = mailTok[t].kind /\ mailTok'[t].user = mailTok[t].user /\ mailTok'[t].email = mailTok[t].email

\* Then what is known of tokens, links and requests stays true, but for what a
\* step makes new.
LEMMA MailKept ==
    ASSUME MailInv, RowsGoOn,
           \A u \in Users : RowOK(u)',
           \A t \in TokIds : SameToken(t) \/ (mailTok[t].kind = "free" /\ TokenOK(t)'),
           \A a \in Addresses : link'[a] = link[a] \/ LinkOK(a)',
           \A c \in Clients : mailReq'[c] = mailReq[c] \/ RequestOK(c)',
           \A u \in forgotten' : u \in Users /\ (u \in forgotten \/ row'[u].st # "none")
    PROVE  KnownInv'
<1>1. \A u, e : Spoken(u, e) => Spoken(u, e)'
  BY DEF RowsGoOn, Spoken
<1>2. ASSUME NEW t \in TokIds PROVE TokenOK(t)'
  <2>1. CASE SameToken(t)
    BY <1>1, <2>1 DEF SameToken, TokenOK, MailInv, KnownInv, RowsGoOn
  <2>2. QED
    BY <2>1
<1>3. ASSUME NEW a \in Addresses PROVE LinkOK(a)'
  BY <1>1 DEF LinkOK, MailInv, KnownInv
<1>4. ASSUME NEW c \in Clients PROVE RequestOK(c)'
  <2> SUFFICES ASSUME mailReq'[c] = mailReq[c] PROVE RequestOK(c)'
    OBVIOUS
  <2>1. RequestOK(c)
    BY DEF MailInv, KnownInv
  <2>2. \A t \in TokIds : mailTok[t].kind # "free" => SameToken(t)
    OBVIOUS
  <2>3. CASE mailReq[c].op \in {"verify", "tg", "confirm"}
    <3>1. mailReq[c].tok \in TokIds
      BY <2>3, MailRequests DEF MailInv
    <3>2. QED
      BY <2>1, <2>2, <2>3, <3>1 DEF RequestOK, AskOK, SameToken
  <2>4. CASE mailReq[c].op = "profile"
    <3>1. mailReq[c].user \in Users
      BY <2>4, MailRequests DEF MailInv
    <3>2. QED
      BY <2>1, <2>4, <3>1 DEF RequestOK, AskOK, RowsGoOn
  <2>5. CASE mailReq[c].op \notin {"verify", "tg", "confirm", "profile"}
    BY <1>1, <2>1, <2>5 DEF RequestOK, AskOK
  <2>6. QED
    BY <2>3, <2>4, <2>5
<1>5. \A u \in forgotten' : row'[u].st # "none"
  BY DEF MailInv, KnownInv, RowsGoOn
<1>6. QED
  BY <1>2, <1>3, <1>4, <1>5 DEF KnownInv

LEMMA MailBegins ==
    ASSUME MailInv, NEW c \in Clients, NEW r \in MailRequest, AskOK(r), BeginMail(c, r),
           UNCHANGED <<row, link, mailTok, answered, forgotten, mailLate>>
    PROVE  MailInv'
<1>1. mailReq' = [mailReq EXCEPT ![c] = r] /\ steps' \in 0..MaxSteps
  BY MailAssumption DEF BeginMail, MailInv, MailTypeOK
<1>2. MailTypeOK'
  BY <1>1 DEF MailInv, MailTypeOK
<1>3. \A d \in Clients : mailReq'[d] = IF d = c THEN r ELSE mailReq[d]
  BY <1>1 DEF MailInv, MailTypeOK
<1>4. AskOK(r)'
  BY DEF AskOK, Spoken
<1>5. KnownInv'
  <2>1. (\A u \in Users : RowOK(u)') /\ (\A t \in TokIds : TokenOK(t)') /\ (\A a \in Addresses : LinkOK(a)')
    BY DEF MailInv, KnownInv, RowOK, TokenOK, LinkOK, Spoken
  <2>2. ASSUME NEW d \in Clients PROVE RequestOK(d)'
    <3>1. CASE d = c
      BY <1>3, <1>4, <3>1 DEF RequestOK
    <3>2. CASE d # c
      BY <1>3, <3>2 DEF MailInv, KnownInv, RequestOK, AskOK, Spoken
    <3>3. QED
      BY <3>1, <3>2
  <2>3. QED
    BY <2>1, <2>2 DEF MailInv, KnownInv
<1>6. VerifiedWasAnswered' /\ ForgottenIsForgotten'
  BY DEF MailInv, VerifiedWasAnswered, ForgottenIsForgotten
<1>7. QED
  BY <1>2, <1>5, <1>6 DEF MailInv

LEMMA MailBeginSteps ==
    ASSUME MailInv, NEW c \in Clients,
           \/ \E e \in Addresses : RegisterBegin(c, e)
           \/ \E t \in TokIds : VerifyBegin(c, t) \/ LinkBegin(c, t) \/ (\E e \in Addresses : ConfirmBegin(c, t, e))
           \/ \E u \in Users : ProfileBegin(c, u)
    PROVE  MailInv'
<1>1. CASE \E e \in Addresses : RegisterBegin(c, e)
  <2>1. PICK e \in Addresses : RegisterBegin(c, e)
    BY <1>1
  <2>2. PICK r : r = [op |-> "register", email |-> e]
    OBVIOUS
  <2>3. r \in MailRequest /\ r.op = "register"
    BY <2>2 DEF MailRequest
  <2>4. BeginMail(c, r) /\ UNCHANGED <<row, link, mailTok, answered, forgotten, mailLate>>
    BY <2>1, <2>2 DEF RegisterBegin
  <2>5. QED
    BY <2>3, <2>4, MailBegins DEF AskOK
<1>2. CASE \E t \in TokIds : VerifyBegin(c, t)
  <2>1. PICK t \in TokIds : VerifyBegin(c, t)
    BY <1>2
  <2>2. PICK r : r = [op |-> "verify", tok |-> t]
    OBVIOUS
  <2>3. r \in MailRequest /\ r.op = "verify" /\ r.tok = t
    BY <2>2 DEF MailRequest
  <2>4. BeginMail(c, r) /\ UNCHANGED <<row, link, mailTok, answered, forgotten, mailLate>> /\ mailTok[t].kind = "verify"
    BY <2>1, <2>2 DEF VerifyBegin, Valid
  <2>5. QED
    BY <2>3, <2>4, MailBegins DEF AskOK
<1>3. CASE \E t \in TokIds : LinkBegin(c, t)
  <2>1. PICK t \in TokIds : LinkBegin(c, t)
    BY <1>3
  <2>2. PICK r : r = [op |-> "tg", tok |-> t]
    OBVIOUS
  <2>3. r \in MailRequest /\ r.op = "tg" /\ r.tok = t
    BY <2>2 DEF MailRequest
  <2>4. BeginMail(c, r) /\ UNCHANGED <<row, link, mailTok, answered, forgotten, mailLate>> /\ mailTok[t].kind = "user_tg_link"
    BY <2>1, <2>2 DEF LinkBegin, Valid
  <2>5. QED
    BY <2>3, <2>4, MailBegins DEF AskOK
<1>4. CASE \E t \in TokIds, e \in Addresses : ConfirmBegin(c, t, e)
  <2>1. PICK t \in TokIds, e \in Addresses : ConfirmBegin(c, t, e)
    BY <1>4
  <2>2. PICK r : r = [op |-> "confirm", tok |-> t, email |-> e]
    OBVIOUS
  <2>3. r \in MailRequest /\ r.op = "confirm" /\ r.tok = t /\ r.email = e
    BY <2>2 DEF MailRequest
  <2>4. /\ BeginMail(c, r) /\ UNCHANGED <<row, link, mailTok, answered, forgotten, mailLate>>
        /\ mailTok[t].kind = "change_email" /\ mailTok[t].email = e
    BY <2>1, <2>2 DEF ConfirmBegin, Valid, BoundTo
  <2>5. QED
    BY <2>3, <2>4, MailBegins DEF AskOK
<1>5. CASE \E u \in Users : ProfileBegin(c, u)
  <2>1. PICK u \in Users : ProfileBegin(c, u)
    BY <1>5
  <2>2. PICK r : r = [op |-> "profile", user |-> u]
    OBVIOUS
  <2>3. r \in MailRequest /\ r.op = "profile" /\ r.user = u
    BY <2>2 DEF MailRequest
  <2>4. BeginMail(c, r) /\ UNCHANGED <<row, link, mailTok, answered, forgotten, mailLate>> /\ row[u].st = "active"
    BY <2>1, <2>2 DEF ProfileBegin
  <2>5. QED
    BY <2>3, <2>4, MailBegins DEF AskOK
<1>6. QED
  BY <1>1, <1>2, <1>3, <1>4, <1>5

\* google_callback: the identity, or an account that has the address.
LEMMA MailGoogleBegin ==
    ASSUME MailInv, NEW c \in Clients, NEW e \in Addresses, NEW vouched \in BOOLEAN, GoogleBegin(c, e, vouched)
    PROVE  MailInv'
<1>1. PICK owners : owners = {u \in Users : row[u].email = e}
  OBVIOUS
<1>2. PICK v : v = IF link[e] # None THEN link[e]
                   ELSE IF owners # {} THEN CHOOSE u \in owners : TRUE ELSE None
  OBVIOUS
<1>3. v = None \/ v = link[e] \/ v \in owners
  BY <1>2
<1>4. v \in Users \union {None} /\ (v # None => Spoken(v, e))
  <2>1. link[e] \in Users \union {None} /\ (link[e] # None => Spoken(link[e], e))
    BY DEF MailInv, MailTypeOK, KnownInv, LinkOK
  <2>2. \A u \in owners : u \in Users /\ Spoken(u, e)
    BY <1>1 DEF MailInv, KnownInv, RowOK, Spoken
  <2>3. QED
    BY <1>3, <2>1, <2>2
<1>5. PICK linked \in BOOLEAN : linked = (link[e] # None)
  BY Zenon
<1>6. PICK r : r = [op |-> "google", email |-> e, vouched |-> vouched, linked |-> linked, user |-> v]
  OBVIOUS
<1>7. r \in MailRequest /\ r.op = "google" /\ r.email = e /\ r.user = v
  BY <1>4, <1>6 DEF MailRequest
<1>8. BeginMail(c, r) /\ UNCHANGED <<row, link, mailTok, answered, forgotten, mailLate>>
  BY <1>1, <1>2, <1>5, <1>6 DEF GoogleBegin
<1>9. AskOK(r)
  BY <1>4, <1>7 DEF AskOK
<1>10. QED
  BY <1>7, <1>8, <1>9, MailBegins

LEMMA MailEnds ==
    ASSUME MailInv, NEW c \in Clients, EndMail(c)
    PROVE  /\ mailReq' \in [Clients -> MailRequest] /\ steps' = steps
           /\ \A d \in Clients : mailReq'[d] = mailReq[d] \/ RequestOK(d)'
<1>1. mailReq' \in [Clients -> MailRequest] /\ steps' = steps /\ \A d \in Clients : mailReq'[d] = mailReq[d] \/ mailReq'[d] = Idle
  BY MailRequests DEF EndMail, MailInv, MailTypeOK
<1>2. Idle.op = "idle"
  BY DEF Idle
<1>3. QED
  BY <1>1, <1>2 DEF RequestOK, AskOK

\* A token that is used up, or runs out.
LEMMA MailTokenMarked ==
    ASSUME MailInv, NEW t \in TokIds, NEW st \in {"used", "expired"}, mailTok' = [mailTok EXCEPT ![t].st = st]
    PROVE  mailTok' \in [TokIds -> Token] /\ \A o \in TokIds : SameToken(o)
<1>1. PICK new : new = [mailTok[t] EXCEPT !.st = st]
  OBVIOUS
<1>2. new \in Token /\ new.kind = mailTok[t].kind /\ new.user = mailTok[t].user /\ new.email = mailTok[t].email
  BY <1>1 DEF MailInv, MailTypeOK, Token
<1>3. mailTok' = [mailTok EXCEPT ![t] = new]
  BY <1>1
<1>4. QED
  BY <1>2, <1>3 DEF MailInv, MailTypeOK, SameToken

\* A token is issued to an account that is there.
LEMMA MailIssued ==
    ASSUME MailInv, NEW u \in Users, NEW kind \in {"verify", "change_email", "user_tg_link"},
           NEW e \in Addresses \union {None}, Issue(kind, u, e), row'[u].st # "none",
           kind = "verify" => e \in Addresses /\ Spoken(u, e)',
           kind = "change_email" => e \in Addresses
    PROVE  /\ mailTok' \in [TokIds -> Token]
           /\ \A o \in TokIds : SameToken(o) \/ (mailTok[o].kind = "free" /\ TokenOK(o)')
<1>1. PICK new : new = [kind |-> kind, user |-> u, email |-> e, st |-> "open"]
  OBVIOUS
<1>2. new \in Token /\ new.kind = kind /\ new.user = u /\ new.email = e
  BY <1>1 DEF Token
<1>3. PICK t \in TokIds : mailTok[t].kind = "free" /\ mailTok' = [mailTok EXCEPT ![t] = new]
  BY <1>1 DEF Issue
<1>4. mailTok' \in [TokIds -> Token] /\ \A o \in TokIds : mailTok'[o] = IF o = t THEN new ELSE mailTok[o]
  BY <1>2, <1>3 DEF MailInv, MailTypeOK
<1>5. TokenOK(t)'
  BY <1>2, <1>4 DEF TokenOK
<1>6. QED
  BY <1>3, <1>4, <1>5 DEF SameToken

\* Nothing changes but tokens.
LEMMA MailTokens ==
    ASSUME MailInv, mailTok' \in [TokIds -> Token],
           \A t \in TokIds : SameToken(t) \/ (mailTok[t].kind = "free" /\ TokenOK(t)'),
           UNCHANGED <<row, link, mailReq, steps, answered, forgotten, mailLate>>
    PROVE  MailInv'
<1>1. MailTypeOK'
  BY DEF MailInv, MailTypeOK
<1>2. RowsGoOn /\ \A u \in Users : RowOK(u)'
  BY DEF RowsGoOn, RowOK, MailInv, KnownInv
<1>3. \A u \in forgotten' : u \in Users /\ u \in forgotten
  BY DEF MailInv, MailTypeOK
<1>4. KnownInv'
  BY <1>2, <1>3, MailKept
<1>5. VerifiedWasAnswered' /\ ForgottenIsForgotten'
  BY DEF MailInv, VerifiedWasAnswered, ForgottenIsForgotten
<1>6. QED
  BY <1>1, <1>4, <1>5 DEF MailInv

\* One account changes.
LEMMA MailRow ==
    ASSUME MailInv, NEW u \in Users, NEW new \in Row, row' = [row EXCEPT ![u] = new], new.st # "none",
           row[u].st # "none" => /\ row[u].verified => new.verified
                                 /\ new.email \in Addresses => new.verified \/ new.email = row[u].email,
           mailTok' \in [TokIds -> Token],
           \A t \in TokIds : SameToken(t) \/ (mailTok[t].kind = "free" /\ TokenOK(t)'),
           link' \in [Addresses -> Users \union {None}],
           \A a \in Addresses : link'[a] = link[a] \/ LinkOK(a)',
           mailReq' \in [Clients -> MailRequest],
           \A c \in Clients : mailReq'[c] = mailReq[c] \/ RequestOK(c)',
           steps' = steps,
           answered \subseteq answered', answered' \subseteq Users \X Addresses,
           new.verified /\ new.email \in Addresses => <<u, new.email>> \in answered',
           forgotten' \subseteq forgotten \union {u}, mailLate \subseteq mailLate', mailLate' \subseteq Users,
           u \in forgotten' \ mailLate' => new.email \notin Addresses /\ ~new.chat
    PROVE  MailInv'
<1>1. row' \in [Users -> Row] /\ \A v \in Users : row'[v] = IF v = u THEN new ELSE row[v]
  BY DEF MailInv, MailTypeOK
<1>2. MailTypeOK'
  BY <1>1 DEF MailInv, MailTypeOK
<1>3. RowsGoOn /\ \A v \in Users : RowOK(v)'
  BY <1>1 DEF RowsGoOn, RowOK, MailInv, KnownInv
<1>4. \A v \in forgotten' : v \in Users /\ (v \in forgotten \/ row'[v].st # "none")
  BY <1>1 DEF MailInv, MailTypeOK
<1>5. KnownInv'
  BY <1>3, <1>4, MailKept
<1>6. VerifiedWasAnswered'
  <2> SUFFICES ASSUME NEW v \in Users, row'[v].verified, row'[v].email \in Addresses
               PROVE  <<v, row'[v].email>> \in answered'
    BY DEF VerifiedWasAnswered
  <2>1. CASE v = u
    BY <1>1, <2>1
  <2>2. CASE v # u
    BY <1>1, <2>2 DEF MailInv, VerifiedWasAnswered
  <2>3. QED
    BY <2>1, <2>2
<1>7. ForgottenIsForgotten'
  BY <1>1, <1>4 DEF MailInv, ForgottenIsForgotten
<1>8. QED
  BY <1>2, <1>5, <1>6, <1>7 DEF MailInv

LEMMA MailTypes ==
    ASSUME MailInv
    PROVE  /\ row \in [Users -> Row] /\ link \in [Addresses -> Users \union {None}] /\ mailTok \in [TokIds -> Token]
           /\ mailReq \in [Clients -> MailRequest] /\ answered \subseteq Users \X Addresses
           /\ forgotten \subseteq Users /\ mailLate \subseteq Users
           /\ \A u \in Users : row[u] \in Row
           /\ UNCHANGED mailTok => \A t \in TokIds : SameToken(t)
           /\ \A t \in TokIds : TokenOK(t)
           /\ \A c \in Clients : RequestOK(c)
  BY DEF MailInv, MailTypeOK, SameToken, KnownInv

LEMMA MailRegister ==
    ASSUME MailInv, NEW c \in Clients, RegisterCommit(c)
    PROVE  MailInv'
<1>1. PICK e \in Addresses : e = mailReq[c].email
  BY MailRequests DEF MailInv, RegisterCommit
<1>2. EndMail(c) /\ UNCHANGED <<link, answered, forgotten, mailLate>>
  BY DEF RegisterCommit
<1>3. /\ mailReq' \in [Clients -> MailRequest] /\ steps' = steps
      /\ \A d \in Clients : mailReq'[d] = mailReq[d] \/ RequestOK(d)'
  BY <1>2, MailEnds
<1>4. CASE UNCHANGED <<row, mailTok>>
  <2>1. MailTypeOK'
    BY <1>2, <1>3, <1>4 DEF MailInv, MailTypeOK
  <2>2. RowsGoOn /\ \A u \in Users : RowOK(u)'
    BY <1>4 DEF RowsGoOn, RowOK, MailInv, KnownInv
  <2>3. KnownInv'
    BY <1>2, <1>3, <1>4, <2>2, MailKept, MailTypes
  <2>4. VerifiedWasAnswered' /\ ForgottenIsForgotten'
    BY <1>2, <1>4 DEF MailInv, VerifiedWasAnswered, ForgottenIsForgotten
  <2>5. QED
    BY <2>1, <2>3, <2>4 DEF MailInv
<1>5. CASE \E u \in Users :
            /\ row[u] = NoRow
            /\ row' = [row EXCEPT ![u] = [NoRow EXCEPT !.st = "active", !.email = e]]
            /\ Issue("verify", u, e)
  <2>1. PICK u \in Users :
            /\ row[u] = NoRow
            /\ row' = [row EXCEPT ![u] = [NoRow EXCEPT !.st = "active", !.email = e]]
            /\ Issue("verify", u, e)
    BY <1>5
  <2>2. PICK new : new = [NoRow EXCEPT !.st = "active", !.email = e]
    OBVIOUS
  <2>3. new \in Row /\ new.st = "active" /\ new.email = e /\ ~new.verified
    BY <2>2 DEF NoRow, Row
  <2>4. row' = [row EXCEPT ![u] = new] /\ row[u].st = "none"
    BY <2>1, <2>2 DEF NoRow
  <2>5. row'[u] = new
    BY <2>4, MailTypes
  <2>6. Spoken(u, e)'
    BY <2>3, <2>5 DEF Spoken
  <2>7. /\ mailTok' \in [TokIds -> Token]
        /\ \A o \in TokIds : SameToken(o) \/ (mailTok[o].kind = "free" /\ TokenOK(o)')
    BY <2>1, <2>3, <2>5, <2>6, MailIssued
  <2>8. u \notin forgotten
    BY <2>4 DEF MailInv, KnownInv
  <2>9. QED
    BY <1>2, <1>3, <2>3, <2>4, <2>7, <2>8, MailRow, MailTypes
<1>6. QED
  BY <1>1, <1>4, <1>5 DEF RegisterCommit

\* The reader of a verification mail speaks for the account's own address, or
\* the account has another that is verified already.
LEMMA MailVerify ==
    ASSUME MailInv, NEW c \in Clients, VerifyCommit(c)
    PROVE  MailInv'
<1>1. PICK t \in TokIds : t = mailReq[c].tok
  BY MailRequests DEF MailInv, VerifyCommit
<1>2. mailTok[t].kind = "verify"
  BY <1>1, MailTypes DEF VerifyCommit, RequestOK, AskOK
<1>3. PICK u \in Users, e \in Addresses : u = mailTok[t].user /\ e = mailTok[t].email /\ Spoken(u, e)
  BY <1>2, MailTypes DEF TokenOK
<1>4. PICK new : new = [row[u] EXCEPT !.verified = TRUE]
  OBVIOUS
<1>5. new \in Row /\ new.st = row[u].st /\ new.email = row[u].email /\ new.verified /\ new.chat = row[u].chat
  BY <1>4, MailTypes DEF Row
<1>6. /\ row' = [row EXCEPT ![u] = new] /\ mailTok' = [mailTok EXCEPT ![t].st = "used"] /\ EndMail(c)
      /\ answered' = answered \union {<<u, e>>} /\ UNCHANGED <<link, forgotten, mailLate>>
  BY <1>1, <1>3, <1>4 DEF VerifyCommit, Use
<1>7. /\ mailReq' \in [Clients -> MailRequest] /\ steps' = steps
      /\ \A d \in Clients : mailReq'[d] = mailReq[d] \/ RequestOK(d)'
  BY <1>6, MailEnds
<1>8. mailTok' \in [TokIds -> Token] /\ \A o \in TokIds : SameToken(o)
  BY <1>6, MailTokenMarked
<1>9. new.email \in Addresses => <<u, new.email>> \in answered'
  <2>1. new.email \in Addresses => row[u].verified \/ row[u].email = e
    BY <1>3, <1>5 DEF Spoken
  <2>2. new.email \in Addresses /\ row[u].verified => <<u, new.email>> \in answered
    BY <1>5 DEF MailInv, VerifiedWasAnswered
  <2>3. QED
    BY <1>5, <1>6, <2>1, <2>2
<1>10. row[u].st # "none" /\ answered' \subseteq Users \X Addresses /\ answered \subseteq answered'
  BY <1>3, <1>6, MailTypes DEF Spoken
<1>11. u \in forgotten' \ mailLate' => new.email \notin Addresses /\ ~new.chat
  BY <1>5, <1>6 DEF MailInv, ForgottenIsForgotten
<1>12. QED
  BY <1>5, <1>6, <1>7, <1>8, <1>9, <1>10, <1>11, MailRow, MailTypes

LEMMA MailConfirm ==
    ASSUME MailInv, NEW c \in Clients, ConfirmCommit(c)
    PROVE  MailInv'
<1>1. PICK t \in TokIds, e \in Addresses : t = mailReq[c].tok /\ e = mailReq[c].email
  BY MailRequests DEF MailInv, ConfirmCommit
<1>2. mailTok[t].kind = "change_email" /\ mailTok[t].email = e
  BY <1>1, MailTypes DEF ConfirmCommit, RequestOK, AskOK
<1>3. PICK u \in Users : u = mailTok[t].user /\ row[u].st # "none"
  BY <1>2, MailTypes DEF TokenOK
<1>4. EndMail(c) /\ UNCHANGED <<link, forgotten>>
  BY DEF ConfirmCommit
<1>5. /\ mailReq' \in [Clients -> MailRequest] /\ steps' = steps
      /\ \A d \in Clients : mailReq'[d] = mailReq[d] \/ RequestOK(d)'
  BY <1>4, MailEnds
<1>6. CASE UNCHANGED <<row, mailTok, answered, mailLate>>
  <2>1. PICK new : new = row[u]
    OBVIOUS
  <2>2. new \in Row /\ row' = [row EXCEPT ![u] = new] /\ new.st # "none"
    BY <1>3, <1>6, <2>1, MailTypes
  <2>3. new.verified /\ new.email \in Addresses => <<u, new.email>> \in answered'
    BY <1>6, <2>1 DEF MailInv, VerifiedWasAnswered
  <2>4. u \in forgotten' \ mailLate' => new.email \notin Addresses /\ ~new.chat
    BY <1>4, <1>6, <2>1 DEF MailInv, ForgottenIsForgotten
  <2>5. QED
    BY <1>4, <1>5, <1>6, <2>1, <2>2, <2>3, <2>4, MailRow, MailTypes
<1>7. CASE /\ row' = [row EXCEPT ![u] = [@ EXCEPT !.email = mailReq[c].email, !.verified = TRUE]] /\ Use(t)
           /\ answered' = answered \union {<<u, mailTok[t].email>>} /\ MailLate(u)
  <2>1. PICK new : new = [row[u] EXCEPT !.email = e, !.verified = TRUE]
    OBVIOUS
  <2>2. new \in Row /\ new.st = row[u].st /\ new.email = e /\ new.verified
    BY <2>1, MailTypes DEF Row
  <2>3. row' = [row EXCEPT ![u] = new]
    BY <1>1, <1>7, <2>1
  <2>4. mailTok' \in [TokIds -> Token] /\ \A o \in TokIds : SameToken(o)
    BY <1>7, MailTokenMarked DEF Use
  <2>5. /\ answered \subseteq answered' /\ answered' \subseteq Users \X Addresses /\ <<u, e>> \in answered'
        /\ mailLate' = mailLate \union ({u} \cap forgotten)
    BY <1>2, <1>7, MailTypes DEF MailLate
  <2>6. u \notin forgotten' \ mailLate' /\ mailLate \subseteq mailLate' /\ mailLate' \subseteq Users
    BY <1>4, <2>5, MailTypes
  <2>7. QED
    BY <1>3, <1>4, <1>5, <2>2, <2>3, <2>4, <2>5, <2>6, MailRow, MailTypes
<1>8. QED
  BY <1>1, <1>3, <1>6, <1>7 DEF ConfirmCommit

LEMMA MailGoogle ==
    ASSUME MailInv, NEW c \in Clients, GoogleCommit(c)
    PROVE  MailInv'
<1>1. PICK r : r = mailReq[c]
  OBVIOUS
<1>2. /\ r.op = "google" /\ EndMail(c) /\ UNCHANGED <<mailTok, forgotten, mailLate>>
      /\ r.email \in Addresses /\ r.vouched \in BOOLEAN /\ r.user \in Users \union {None}
      /\ r.user # None => Spoken(r.user, r.email)
  <2>1. r.op = "google" /\ EndMail(c) /\ UNCHANGED <<mailTok, forgotten, mailLate>>
    BY <1>1 DEF GoogleCommit
  <2>2. r.email \in Addresses /\ r.vouched \in BOOLEAN /\ r.user \in Users \union {None}
    BY <1>1, <2>1, MailRequests DEF MailInv
  <2>3. AskOK(r)
    BY <1>1, MailTypes DEF RequestOK
  <2>4. QED
    BY <2>1, <2>2, <2>3 DEF AskOK
<1>3. PICK e \in Addresses : e = r.email
  BY <1>2
<1>4. /\ mailReq' \in [Clients -> MailRequest] /\ steps' = steps
      /\ \A d \in Clients : mailReq'[d] = mailReq[d] \/ RequestOK(d)'
  BY <1>2, MailEnds
<1>5. CASE UNCHANGED <<row, link, answered>>
  <2>1. MailTypeOK'
    BY <1>2, <1>4, <1>5 DEF MailInv, MailTypeOK
  <2>2. RowsGoOn /\ \A u \in Users : RowOK(u)'
    BY <1>5 DEF RowsGoOn, RowOK, MailInv, KnownInv
  <2>3. KnownInv'
    BY <1>2, <1>4, <1>5, <2>2, MailKept, MailTypes
  <2>4. VerifiedWasAnswered' /\ ForgottenIsForgotten'
    BY <1>2, <1>5 DEF MailInv, VerifiedWasAnswered, ForgottenIsForgotten
  <2>5. QED
    BY <2>1, <2>3, <2>4 DEF MailInv
<1>6. ASSUME NEW u \in Users,
             IF r.user = None
             THEN row[u] = NoRow /\ row' = [row EXCEPT ![u] = [st |-> "active", email |-> e, verified |-> r.vouched, chat |-> FALSE]]
             ELSE u = r.user /\ row' = [row EXCEPT ![u].verified = @ \/ r.vouched],
             link' = [link EXCEPT ![e] = u],
             answered' = IF r.vouched THEN answered \union {<<u, e>>} ELSE answered
      PROVE  MailInv'
  <2>1. /\ answered \subseteq answered' /\ answered' \subseteq Users \X Addresses /\ (r.vouched => <<u, e>> \in answered')
    BY <1>6, MailTypes
  <2>2. PICK new \in Row :
           /\ row' = [row EXCEPT ![u] = new] /\ new.st # "none"
           /\ row[u].st # "none" => /\ row[u].verified => new.verified
                                    /\ new.email = row[u].email /\ new.chat = row[u].chat
           /\ new.email \in Addresses => new.verified \/ new.email = e
           /\ new.verified /\ new.email \in Addresses => <<u, new.email>> \in answered'
    <3>1. CASE r.user = None
      <4>1. PICK new : new = [st |-> "active", email |-> e, verified |-> r.vouched, chat |-> FALSE]
        OBVIOUS
      <4>2. new \in Row /\ new.st = "active" /\ new.email = e /\ new.verified = r.vouched
        BY <1>2, <4>1 DEF Row
      <4>3. row' = [row EXCEPT ![u] = new] /\ row[u].st = "none"
        BY <1>6, <3>1, <4>1 DEF NoRow
      <4>4. QED
        BY <2>1, <4>2, <4>3
    <3>2. CASE r.user # None
      <4>1. PICK v \in BOOLEAN : v = (row[u].verified \/ r.vouched)
        BY Zenon
      <4>2. PICK new : new = [row[u] EXCEPT !.verified = v]
        OBVIOUS
      <4>3. new \in Row /\ new.st = row[u].st /\ new.email = row[u].email /\ new.verified = v /\ new.chat = row[u].chat
        BY <4>2, MailTypes DEF Row
      <4>4. row' = [row EXCEPT ![u] = new] /\ Spoken(u, e)
        BY <1>2, <1>3, <1>6, <3>2, <4>1, <4>2
      <4>5. new.verified /\ new.email \in Addresses => <<u, new.email>> \in answered'
        <5>1. row[u].verified /\ new.email \in Addresses => <<u, new.email>> \in answered
          BY <4>3 DEF MailInv, VerifiedWasAnswered
        <5>2. ~row[u].verified /\ new.verified => r.vouched
          BY <4>1, <4>3
        <5>3. ~row[u].verified /\ new.email \in Addresses => new.email = e
          BY <4>3, <4>4 DEF Spoken
        <5>4. QED
          BY <2>1, <5>1, <5>2, <5>3
      <4>6. QED
        BY <4>1, <4>3, <4>4, <4>5 DEF Spoken
    <3>3. QED
      BY <3>1, <3>2
  <2>3. row'[u] = new
    BY <2>2, MailTypes
  <2>4. Spoken(u, e)'
    BY <2>2, <2>3 DEF Spoken
  <2>5. link' \in [Addresses -> Users \union {None}] /\ \A a \in Addresses : link'[a] = IF a = e THEN u ELSE link[a]
    BY <1>6, MailTypes
  <2>6. \A a \in Addresses : link'[a] = link[a] \/ LinkOK(a)'
    BY <2>4, <2>5 DEF LinkOK
  <2>7. u \in forgotten' \ mailLate' => new.email \notin Addresses /\ ~new.chat
    <3>1. u \in forgotten => row[u].st # "none"
      BY DEF MailInv, KnownInv
    <3>2. QED
      BY <1>2, <2>2, <3>1 DEF MailInv, ForgottenIsForgotten
  <2>8. QED
    BY <1>2, <1>4, <2>1, <2>2, <2>5, <2>6, <2>7, MailRow, MailTypes
<1>7. QED
  BY <1>1, <1>3, <1>5, <1>6 DEF GoogleCommit

\* Telegram: the chat of the account, written by a request.
LEMMA MailChat ==
    ASSUME MailInv, NEW u \in Users, row[u].st # "none", NEW chat \in BOOLEAN,
           row' = [row EXCEPT ![u].chat = chat],
           mailTok' \in [TokIds -> Token], \A t \in TokIds : SameToken(t),
           mailReq' \in [Clients -> MailRequest],
           \A c \in Clients : mailReq'[c] = mailReq[c] \/ RequestOK(c)',
           UNCHANGED <<link, answered, forgotten, steps>>,
           MailLate(u) \/ (~chat /\ UNCHANGED mailLate)
    PROVE  MailInv'
<1>1. PICK new : new = [row[u] EXCEPT !.chat = chat]
  OBVIOUS
<1>2. new \in Row /\ new.st = row[u].st /\ new.email = row[u].email /\ new.verified = row[u].verified /\ new.chat = chat
  BY <1>1, MailTypes DEF Row
<1>3. row' = [row EXCEPT ![u] = new]
  BY <1>1
<1>4. new.verified /\ new.email \in Addresses => <<u, new.email>> \in answered'
  BY <1>2 DEF MailInv, VerifiedWasAnswered
<1>5. /\ u \in forgotten' \ mailLate' => new.email \notin Addresses /\ ~new.chat
      /\ mailLate \subseteq mailLate' /\ mailLate' \subseteq Users
  BY <1>2, MailTypes DEF MailLate, MailInv, ForgottenIsForgotten
<1>6. /\ new.st # "none" /\ (row[u].verified => new.verified)
      /\ (new.email \in Addresses => new.verified \/ new.email = row[u].email)
  BY <1>2
<1>7. /\ link' \in [Addresses -> Users \union {None}] /\ \A a \in Addresses : link'[a] = link[a]
      /\ answered \subseteq answered' /\ answered' \subseteq Users \X Addresses
      /\ forgotten' \subseteq forgotten \union {u}
  BY MailTypes
<1>8. \A t \in TokIds : SameToken(t) \/ (mailTok[t].kind = "free" /\ TokenOK(t)')
  OBVIOUS
<1>9. QED
  BY <1>2, <1>3, <1>4, <1>5, <1>6, <1>7, <1>8, MailRow, ZenonT(40)

LEMMA MailChats ==
    ASSUME MailInv,
           \/ \E c \in Clients : LinkCommit(c) \/ ProfileCommit(c)
           \/ \E u \in Users : Unlink(u)
    PROVE  MailInv'
<1>1. ASSUME NEW c \in Clients, LinkCommit(c) PROVE MailInv'
  <2>1. PICK t \in TokIds : t = mailReq[c].tok
    BY <1>1, MailRequests DEF MailInv, LinkCommit
  <2>2. mailTok[t].kind = "user_tg_link"
    BY <1>1, <2>1, MailTypes DEF LinkCommit, RequestOK, AskOK
  <2>3. PICK u \in Users : u = mailTok[t].user /\ row[u].st # "none"
    BY <2>2, MailTypes DEF TokenOK
  <2>4. /\ EndMail(c) /\ row' = [row EXCEPT ![u].chat = TRUE] /\ mailTok' = [mailTok EXCEPT ![t].st = "used"] /\ MailLate(u)
        /\ UNCHANGED <<link, answered, forgotten>>
    BY <1>1, <2>1, <2>3 DEF LinkCommit, Use
  <2>5. mailTok' \in [TokIds -> Token] /\ \A o \in TokIds : SameToken(o)
    BY <2>4, MailTokenMarked
  <2>6. /\ mailReq' \in [Clients -> MailRequest] /\ steps' = steps
        /\ \A d \in Clients : mailReq'[d] = mailReq[d] \/ RequestOK(d)'
    BY <2>4, MailEnds
  <2>7. QED
    BY <2>3, <2>4, <2>5, <2>6, MailChat
<1>2. ASSUME NEW c \in Clients, ProfileCommit(c) PROVE MailInv'
  <2>1. PICK u \in Users : u = mailReq[c].user
    BY <1>2, MailRequests DEF MailInv, ProfileCommit
  <2>2. row[u].st # "none"
    BY <1>2, <2>1, MailTypes DEF ProfileCommit, RequestOK, AskOK
  <2>3. EndMail(c) /\ row' = [row EXCEPT ![u].chat = TRUE] /\ MailLate(u) /\ UNCHANGED <<link, mailTok, answered, forgotten>>
    BY <1>2, <2>1 DEF ProfileCommit
  <2>4. /\ mailReq' \in [Clients -> MailRequest] /\ steps' = steps
        /\ \A d \in Clients : mailReq'[d] = mailReq[d] \/ RequestOK(d)'
    BY <2>3, MailEnds
  <2>5. QED
    BY <2>2, <2>3, <2>4, MailChat, MailTypes
<1>3. ASSUME NEW u \in Users, Unlink(u) PROVE MailInv'
  <2>1. /\ row[u].st # "none" /\ row' = [row EXCEPT ![u].chat = FALSE]
        /\ UNCHANGED <<link, mailTok, mailReq, steps, answered, forgotten, mailLate>>
    BY <1>3 DEF Unlink, mailHist
  <2>2. QED
    BY <2>1, MailChat, MailTypes
<1>4. QED
  BY <1>1, <1>2, <1>3

LEMMA MailAdmin ==
    ASSUME MailInv, NEW u \in Users,
           AdminVerify(u) \/ Anonymise(u) \/ (\E st \in {"active", "deleted"} : UpdateStatus(u, st))
    PROVE  MailInv'
<1>1. CASE AdminVerify(u)
  <2>1. PICK new : new = [row[u] EXCEPT !.verified = TRUE]
    OBVIOUS
  <2>2. new \in Row /\ new.st = row[u].st /\ new.email = row[u].email /\ new.verified /\ new.chat = row[u].chat
    BY <2>1, MailTypes DEF Row
  <2>3. /\ row[u].st # "none" /\ row[u].email \in Addresses /\ row' = [row EXCEPT ![u] = new]
        /\ answered' = answered \union {<<u, row[u].email>>} /\ UNCHANGED <<link, mailTok, mailReq, steps, forgotten, mailLate>>
    BY <1>1, <2>1 DEF AdminVerify
  <2>4. answered \subseteq answered' /\ answered' \subseteq Users \X Addresses /\ <<u, new.email>> \in answered'
    BY <2>2, <2>3, MailTypes
  <2>5. u \in forgotten' \ mailLate' => new.email \notin Addresses /\ ~new.chat
    BY <2>2, <2>3 DEF MailInv, ForgottenIsForgotten
  <2>6. QED
    BY <2>2, <2>3, <2>4, <2>5, MailRow, MailTypes
<1>2. CASE Anonymise(u)
  <2>1. PICK e \in Addresses : e = row[u].email
    BY <1>2 DEF Anonymise
  <2>2. PICK new : new = [row[u] EXCEPT !.st = "deleted", !.email = <<"deleted", e>>, !.chat = FALSE]
    OBVIOUS
  <2>3. <<"deleted", e>> \in Placeholders /\ <<"deleted", e>> \notin Addresses
    BY MailAssumption DEF Placeholders
  <2>4. new \in Row /\ new.st = "deleted" /\ new.email = <<"deleted", e>> /\ new.verified = row[u].verified /\ new.chat = FALSE
    BY <2>2, <2>3, MailTypes DEF Row
  <2>5. /\ row' = [row EXCEPT ![u] = new] /\ forgotten' = forgotten \union {u}
        /\ UNCHANGED <<link, mailTok, mailReq, steps, answered, mailLate>>
    BY <1>2, <2>1, <2>2 DEF Anonymise, Anonymised
  <2>6. QED
    BY <2>3, <2>4, <2>5, MailRow, MailTypes
<1>3. CASE \E st \in {"active", "deleted"} : UpdateStatus(u, st)
  <2>1. PICK st \in {"active", "deleted"} : UpdateStatus(u, st)
    BY <1>3
  <2>2. PICK new : new = [row[u] EXCEPT !.st = st]
    OBVIOUS
  <2>3. new \in Row /\ new.st = st /\ new.email = row[u].email /\ new.verified = row[u].verified /\ new.chat = row[u].chat
    BY <2>2, MailTypes DEF Row
  <2>4. /\ row' = [row EXCEPT ![u] = new] /\ forgotten' \subseteq forgotten
        /\ UNCHANGED <<link, mailTok, mailReq, steps, answered, mailLate>>
    BY <2>1, <2>2 DEF UpdateStatus
  <2>5. new.verified /\ new.email \in Addresses => <<u, new.email>> \in answered'
    BY <2>3, <2>4 DEF MailInv, VerifiedWasAnswered
  <2>6. u \in forgotten' \ mailLate' => new.email \notin Addresses /\ ~new.chat
    BY <2>3, <2>4 DEF MailInv, ForgottenIsForgotten
  <2>7. QED
    BY <2>3, <2>4, <2>5, <2>6, MailRow, MailTypes
<1>4. QED
  BY <1>1, <1>2, <1>3

LEMMA MailTokenSteps ==
    ASSUME MailInv,
           \/ \E u \in Users : ResendVerify(u) \/ LinkRequest(u) \/ (\E e \in Addresses : ChangeRequest(u, e))
           \/ \E t \in TokIds : TokenExpires(t)
    PROVE  MailInv'
<1>1. UNCHANGED <<row, link, mailReq, steps, answered, forgotten, mailLate>>
  BY DEF ResendVerify, LinkRequest, ChangeRequest, TokenExpires, mailHist
<1>2. ASSUME NEW t \in TokIds, TokenExpires(t) PROVE MailInv'
  <2>1. mailTok' = [mailTok EXCEPT ![t].st = "expired"]
    BY <1>2 DEF TokenExpires
  <2>2. QED
    BY <1>1, <2>1, MailTokenMarked, MailTokens
<1>3. ASSUME NEW u \in Users, NEW kind \in {"verify", "change_email", "user_tg_link"}, NEW e \in Addresses \union {None},
             Issue(kind, u, e), row[u].st # "none",
             kind = "verify" => e \in Addresses /\ row[u].email = e, kind = "change_email" => e \in Addresses
      PROVE  MailInv'
  <2>1. row'[u].st # "none" /\ (kind = "verify" => e \in Addresses /\ Spoken(u, e)')
    BY <1>1, <1>3 DEF Spoken
  <2>2. /\ mailTok' \in [TokIds -> Token]
        /\ \A o \in TokIds : SameToken(o) \/ (mailTok[o].kind = "free" /\ TokenOK(o)')
    BY <1>3, <2>1, MailIssued
  <2>3. QED
    BY <1>1, <2>2, MailTokens
<1>4. ASSUME NEW u \in Users, ResendVerify(u) PROVE MailInv'
  <2>1. PICK e \in Addresses : e = row[u].email
    BY <1>4 DEF ResendVerify
  <2>2. Issue("verify", u, e) /\ row[u].st # "none"
    BY <1>4, <2>1 DEF ResendVerify
  <2>3. QED
    BY <1>3, <2>1, <2>2
<1>5. ASSUME NEW u \in Users, LinkRequest(u) PROVE MailInv'
  BY <1>3, <1>5 DEF LinkRequest
<1>6. ASSUME NEW u \in Users, NEW e \in Addresses, ChangeRequest(u, e) PROVE MailInv'
  BY <1>3, <1>6 DEF ChangeRequest
<1>7. QED
  BY <1>2, <1>4, <1>5, <1>6

LEMMA MailStep == MailInv /\ [MNext]_mVars => MailInv'
<1> SUFFICES ASSUME MailInv, [MNext]_mVars PROVE MailInv'
  OBVIOUS
<1>1. CASE MNext
  <2>1. CASE \E c \in Clients :
                \/ \E e \in Addresses : RegisterBegin(c, e)
                \/ \E t \in TokIds : VerifyBegin(c, t) \/ LinkBegin(c, t) \/ (\E e \in Addresses : ConfirmBegin(c, t, e))
                \/ \E u \in Users : ProfileBegin(c, u)
    BY <2>1, MailBeginSteps
  <2>2. CASE \E c \in Clients, e \in Addresses, v \in BOOLEAN : GoogleBegin(c, e, v)
    BY <2>2, MailGoogleBegin
  <2>3. CASE \E c \in Clients : RegisterCommit(c) \/ GoogleCommit(c) \/ VerifyCommit(c) \/ ConfirmCommit(c)
    BY <2>3, MailRegister, MailGoogle, MailVerify, MailConfirm
  <2>4. CASE \/ \E c \in Clients : LinkCommit(c) \/ ProfileCommit(c)
             \/ \E u \in Users : Unlink(u)
    BY <2>4, MailChats
  <2>5. CASE \E u \in Users : AdminVerify(u) \/ Anonymise(u) \/ (\E st \in {"active", "deleted"} : UpdateStatus(u, st))
    BY <2>5, MailAdmin
  <2>6. CASE \/ \E u \in Users : ResendVerify(u) \/ LinkRequest(u) \/ (\E e \in Addresses : ChangeRequest(u, e))
             \/ \E t \in TokIds : TokenExpires(t)
    BY <2>6, MailTokenSteps
  <2>7. QED
    BY <1>1, <2>1, <2>2, <2>3, <2>4, <2>5, <2>6 DEF MNext
<1>2. CASE UNCHANGED mVars
  <2>1. UNCHANGED <<row, link, mailTok, mailReq, steps, answered, forgotten, mailLate>>
    BY <1>2 DEF mVars
  <2>2. QED
    BY <2>1, MailTypes, MailTokens
<1>3. QED
  BY <1>1, <1>2

\* A verified account has an address whose reader spoke for it, and an
\* anonymised one has neither address nor chat, but for a request that was
\* under way (auth.py, me_extra.py, admin_anonymize_user).
THEOREM AddressesAreOwned == MSpec => []AccountMailHolds
<1>1. MailInv => AccountMailHolds
  BY DEF MailInv, AccountMailHolds
<1>2. QED
  BY MailInit, MailStep, <1>1, PTL DEF MSpec
=============================================================================
