------------------------ MODULE SubscriptionsProofs ------------------------
(***************************************************************************)
(* What holds of plans, coupons and subscriptions for any number of users, *)
(* plans, coupons, requests and edits, any prices and limits.              *)
(***************************************************************************)
EXTENDS Subscriptions, FiniteSetTheorems, TLAPS

\* A limit m is within the limit n; None is no limit.
Within(m, n) == n = None \/ (m # None /\ m <= n)

\* The purchases under way, and those that hold the user's row.
Purchase(r) == job[r] # None /\ job[r].op = "purchase"
Charging(r) == Purchase(r) /\ job[r].step \in {"debited", "read"}

\* What a purchase has checked and locked.
PurchaseInv(j) ==
    /\ j.step \in {"debited", "read"} => 0 < j.price /\ j.price <= j.cached
    /\ j.coupon # None => Within(j.max, ceiling[j.coupon].max)
    /\ j.step # "ordered" /\ j.coupon # None =>
         /\ coupon[j.coupon] # None
         /\ j.max # None => coupon[j.coupon].count < j.max
    /\ j.step = "read" /\ j.sub # None => sub[j.sub] # None /\ j.row # None

\* What an edit has loaded is still there.
EditInv(j) == sub[j.sub] # None /\ (j.op = "refund" => j.inv \in 1 .. Len(invoices))

JobInv(j) == IF j.op = "purchase" THEN PurchaseInv(j) ELSE EditInv(j)
JobsInv == \A r \in Requests : job[r] # None => JobInv(job[r])

\* Row locks exclude one another.
LockInv ==
    \A r, q \in Requests : r # q =>
        /\ Past(r) /\ Past(q) /\ job[r].coupon # None => job[r].coupon # job[q].coupon
        /\ Charging(r) /\ Charging(q) => job[r].user # job[q].user

\* The limits of a coupon are within the highest it ever had; a coupon that is
\* not there was never redeemed.
LimitInv ==
    /\ \A c \in Coupons : coupon[c] # None =>
         /\ Within(coupon[c].max, ceiling[c].max) /\ coupon[c].perUser <= ceiling[c].perUser
    /\ \A c \in Coupons, u \in Users :
         /\ redeemed[c][u] <= Len(invoices)
         /\ coupon[c] = None => redeemed[c][u] = 0

\* The purchases of user u with coupon c that are under way.
Pending(c, u) == {r \in Requests : Purchase(r) /\ job[r].coupon = c /\ job[r].user = u}

\* Each of them was let in below max_per_user.
OvershootInv ==
    \A c \in Coupons, u \in Users : redeemed[c][u] > 0 \/ Pending(c, u) # {} =>
        redeemed[c][u] + Cardinality(Pending(c, u)) < ceiling[c].perUser + Cardinality(Requests)

Running(s, u) == sub[s] # None /\ sub[s].user = u /\ sub[s].status = "active"

Live(s, u) == Running(s, u) /\ sub[s].expires >= now

\* What a purchase that has read the subscription relies on: nothing else of the
\* user runs at that time, and all that was paid for ends before what it adds.
ReadInv(j) ==
    /\ j.at <= now
    /\ \A s \in Subs \ {j.sub} : Running(s, j.user) => sub[s].expires < j.at
    /\ j.sub = None => \A k \in DOMAIN invoices :
                           invoices[k].user = j.user => invoices[k].till <= j.at
    /\ j.sub # None => /\ sub[j.sub] = j.row /\ j.row.user = j.user /\ j.row.status = "active"
                       /\ \A k \in DOMAIN invoices :
                              invoices[k].user = j.user => invoices[k].till <= j.row.expires

\* Without edits by hand: what was paid for is within its subscription, one
\* subscription of a user runs, an ended one is over.
PaidDaysAreKept ==
    \A k \in DOMAIN invoices :
        /\ sub[invoices[k].sub] # None
        /\ sub[invoices[k].sub].user = invoices[k].user
        /\ invoices[k].till <= sub[invoices[k].sub].expires
EndedAreOver ==
    \A s \in Subs : sub[s] # None =>
        sub[s].status = "active" \/ (sub[s].status = "expired" /\ sub[s].expires < now)
OneIsLive == \A u \in Users, s, t \in Subs : Live(s, u) /\ Live(t, u) => s = t
ReadsHold == \A r \in Requests : Buying(r, "read") => ReadInv(job[r])
DaysInv == ~disturbed => PaidDaysAreKept /\ EndedAreOver /\ OneIsLive /\ ReadsHold

\* The inductive invariant.
SubsInv ==
    /\ TypeOK /\ JobsInv /\ LockInv /\ LimitInv /\ CouponWithinLimit /\ CountIsRedemptions
    /\ OvershootInv /\ DaysInv /\ NoDayPaidTwice
-----------------------------------------------------------------------------
\* Rounding to hundredths: at most half a unit off, and never the wrong way.
LEMMA QuantizeFacts ==
    ASSUME NEW n \in Nat
    PROVE  /\ Quantize(n, 100) \in Nat
           /\ 100 * Quantize(n, 100) - n \in -50 .. 50
           /\ \A m \in Nat : n <= m => Quantize(n, 100) <= Quantize(m, 100)
<1>1. \A m \in Nat : /\ m \div 100 \in Nat /\ m % 100 \in 0 .. 99
                     /\ m = 100 * (m \div 100) + (m % 100)
  <2>1. \A m \in Nat : m \div 100 \in Nat
    OBVIOUS
  <2>2. \A m \in Nat : m % 100 \in 0 .. 99
    OBVIOUS
  <2>3. \A m \in Nat : m = 100 * (m \div 100) + (m % 100)
    OBVIOUS
  <2> QED BY <2>1, <2>2, <2>3
<1>2. ASSUME NEW m \in Nat
      PROVE  /\ Quantize(m, 100) \in {m \div 100, m \div 100 + 1}
             /\ 2 * (m % 100) > 100 => Quantize(m, 100) = m \div 100 + 1
             /\ 2 * (m % 100) < 100 => Quantize(m, 100) = m \div 100
             /\ 2 * (m % 100) = 100 =>
                  Quantize(m, 100) = IF (m \div 100) % 2 = 1 THEN m \div 100 + 1 ELSE m \div 100
  BY <1>1 DEF Quantize
<1>3. Quantize(n, 100) \in Nat /\ 100 * Quantize(n, 100) - n \in -50 .. 50
  <2>1. n \div 100 \in Nat /\ n % 100 \in 0 .. 99 /\ n = 100 * (n \div 100) + (n % 100)
    BY <1>1
  <2>2. /\ Quantize(n, 100) \in {n \div 100, n \div 100 + 1}
        /\ 2 * (n % 100) > 100 => Quantize(n, 100) = n \div 100 + 1
        /\ 2 * (n % 100) < 100 => Quantize(n, 100) = n \div 100
    BY <1>2
  <2> QED BY <2>1, <2>2
<1>4. ASSUME NEW m \in Nat, n <= m PROVE Quantize(n, 100) <= Quantize(m, 100)
  <2>1. PICK q \in Nat, t \in 0 .. 99 : q = n \div 100 /\ t = n % 100 /\ n = 100 * q + t
    BY <1>1
  <2>2. PICK p \in Nat, s \in 0 .. 99 : p = m \div 100 /\ s = m % 100 /\ m = 100 * p + s
    BY <1>1
  <2>3. q < p \/ (q = p /\ t <= s)
    BY <1>4, <2>1, <2>2
  <2>4. CASE q < p
    <3>1. Quantize(n, 100) \in {q, q + 1} /\ Quantize(m, 100) \in {p, p + 1}
      BY <1>2, <2>1, <2>2
    <3> QED BY <2>4, <3>1
  <2>5. CASE q = p /\ t <= s
    <3>1. /\ Quantize(n, 100) \in {q, q + 1}
          /\ 2 * t < 100 => Quantize(n, 100) = q
          /\ 2 * t = 100 => Quantize(n, 100) = IF q % 2 = 1 THEN q + 1 ELSE q
      BY <1>2, <2>1, ZenonT(40)
    <3>2. /\ Quantize(m, 100) \in {q, q + 1}
          /\ 2 * s > 100 => Quantize(m, 100) = q + 1
          /\ 2 * s = 100 => Quantize(m, 100) = IF q % 2 = 1 THEN q + 1 ELSE q
      BY <1>2, <2>2, <2>5, ZenonT(40)
    <3> QED BY <2>5, <3>1, <3>2
  <2> QED BY <2>3, <2>4, <2>5
<1> QED BY <1>3, <1>4

\* compute_discount, for every coupon and every price: at most the price, the
\* percentage up to half a dong or the cap, and no less for a dearer plan.
LEMMA DiscountFacts ==
    ASSUME NEW row \in CouponRow, NEW a \in Nat
    PROVE  Discount(row, a) \in Nat /\ Discount(row, a) <= a /\ FairDiscount(row, a)
<1> DEFINE raw(n) == IF row.percent THEN Quantize(n * row.off, 100) ELSE row.off
           capped(n) == IF row.percent /\ row.cap # None /\ row.cap < raw(n)
                        THEN row.cap ELSE raw(n)
<1>1. PICK f \in Nat : f = row.off
  BY DEF CouponRow
<1>2. /\ \A n \in Nat : n * f \in Nat
      /\ a * f <= (a + 1) * f
  <2>1. \A m, n \in Nat : m * n \in Nat
    OBVIOUS
  <2>2. (a + 1) * f = a * f + f
    OBVIOUS
  <2>3. a * f \in Nat
    BY <2>1
  <2>4. a * f <= (a + 1) * f
    BY <2>2, <2>3
  <2> QED BY <2>1, <2>4
<1>3. row.percent \in BOOLEAN /\ row.cap \in Nat \cup {None}
  BY DEF CouponRow
<1>4. PICK x \in Nat, y \in Nat : x = a * f /\ y = (a + 1) * f /\ x <= y
  BY <1>2
<1>5. PICK q \in Nat, p \in Nat : q = raw(a) /\ p = raw(a + 1)
  BY <1>1, <1>4, QuantizeFacts
<1>6. q <= p
  BY <1>1, <1>4, <1>5, QuantizeFacts
<1>7. row.percent => 100 * q - x \in -50 .. 50
  BY <1>1, <1>4, <1>5, QuantizeFacts
<1>8. ~row.percent => q = f
  BY <1>1, <1>5
<1>9. PICK d \in Nat, e \in Nat : d = Discount(row, a) /\ e = Discount(row, a + 1)
  BY <1>3, <1>5 DEF Discount
<1>10. /\ d = LET k == IF row.percent /\ row.cap # None /\ row.cap < q THEN row.cap ELSE q
              IN  IF k < a THEN k ELSE a
       /\ e = LET k == IF row.percent /\ row.cap # None /\ row.cap < p THEN row.cap ELSE p
              IN  IF k < a + 1 THEN k ELSE a + 1
  BY <1>5, <1>9 DEF Discount
<1>11. d <= a /\ d <= e
  BY <1>3, <1>6, <1>10
<1>12. PICK exact \in Nat : exact = IF row.percent THEN a * row.off ELSE 100 * row.off
  BY <1>1, <1>4
<1>13. 100 * d - exact \in -50 .. 50 \/ (100 * d < exact /\ d \in {row.cap, a})
  <2>1. CASE row.percent
    <3>1. exact = x /\ 100 * q - x \in -50 .. 50
      BY <1>1, <1>4, <1>7, <1>12, <2>1
    <3>2. d = q \/ (d < q /\ d \in {row.cap, a})
      BY <1>3, <1>10, <2>1
    <3> QED BY <3>1, <3>2
  <2>2. CASE ~row.percent
    <3>1. exact = 100 * f /\ q = f
      BY <1>1, <1>8, <1>12, <2>2
    <3>2. d = q \/ (d < q /\ d = a)
      BY <1>10, <2>2
    <3> QED BY <3>1, <3>2
  <2> QED BY <1>3, <2>1, <2>2
<1> QED BY <1>9, <1>11, <1>12, <1>13 DEF FairDiscount
-----------------------------------------------------------------------------
\* The fields of a purchase and of an edit under way.
LEMMA PurchaseFields ==
    ASSUME NEW j \in PurchaseJob
    PROVE  /\ j.op = "purchase" /\ j.step \in {"ordered", "redeemed", "debited", "read"}
           /\ j.user \in Users /\ j.plan \in Plans /\ j.coupon \in Coupons \cup {None}
           /\ j.price \in Nat /\ j.discount \in Nat /\ j.days \in Nat /\ j.max \in Nat \cup {None}
           /\ j.cached \in Nat /\ j.sub \in Subs \cup {None} /\ j.row \in SubRow \cup {None}
           /\ j.at \in Nat /\ j # None
  BY SubNone DEF PurchaseJob

LEMMA EditFields ==
    ASSUME NEW j \in EditJob
    PROVE  /\ j.op \in EditOps /\ j.op # "purchase" /\ j.sub \in Subs /\ j.row \in SubRow
           /\ j.inv \in Nat /\ j # None
  BY SubNone DEF EditJob, EditOps

\* A request's job is of one of the two kinds.
LEMMA JobKinds ==
    ASSUME TypeOK, NEW r \in Requests, job[r] # None
    PROVE  /\ job[r].op = "purchase" => job[r] \in PurchaseJob
           /\ job[r].op # "purchase" => job[r] \in EditJob
<1>1. job[r] \in PurchaseJob \cup EditJob
  BY DEF TypeOK
<1> QED BY <1>1, PurchaseFields, EditFields

\* The steps of a purchase before its commit.
BuyStep(r) ==
    \/ \E u \in Users, p \in Plans, c \in Coupons \cup {None} : PurchaseLoad(r, u, p, c)
    \/ Redeem(r) \/ Debit(r) \/ PurchaseFails(r)
    \/ \E s \in Subs \cup {None} : ReadSub(r, s)

LEMMA BuyFrame ==
    ASSUME NEW r \in Requests, BuyStep(r)
    PROVE  UNCHANGED <<now, shop, books, sub, edits, disturbed>>
  BY DEF BuyStep, PurchaseLoad, Redeem, Debit, PurchaseFails, ReadSub

\* What a purchase starts with.
LEMMA LoadJob ==
    ASSUME TypeOK, NEW r \in Requests, NEW u \in Users, NEW p \in Plans,
           NEW c \in Coupons \cup {None}, PurchaseLoad(r, u, p, c)
    PROVE  \E k \in PurchaseJob :
             /\ job' = [job EXCEPT ![r] = k] /\ job[r] = None
             /\ k.step = "ordered" /\ k.user = u /\ k.coupon = c
             /\ c # None => /\ coupon[c] # None /\ k.max = coupon[c].max
                            /\ redeemed[c][u] < coupon[c].perUser
<1>1. plan[p] \in PlanRow
  BY DEF PurchaseLoad, TypeOK
<1>2. plan[p].price \in Nat /\ plan[p].days \in Nat
  BY <1>1 DEF PlanRow
<1>3. c # None => /\ coupon[c] \in CouponRow /\ coupon[c] # None
                  /\ redeemed[c][u] < coupon[c].perUser
  BY DEF PurchaseLoad, TypeOK, CouponLive, Applicable
<1>4. PICK d \in Nat : d = (IF c = None THEN 0 ELSE Discount(coupon[c], plan[p].price))
                       /\ d <= plan[p].price
  BY <1>2, <1>3, DiscountFacts
<1>5. PICK m \in Nat \cup {None} : m = IF c = None THEN None ELSE coupon[c].max
  BY <1>3 DEF CouponRow
<1>6. PICK cost \in Nat : cost = plan[p].price - d
  BY <1>2, <1>4
<1>7. balance[u] \in Nat
  BY DEF TypeOK
<1>8. PICK k : k = [op |-> "purchase", step |-> "ordered", user |-> u, plan |-> p, coupon |-> c,
                    price |-> cost, discount |-> d, days |-> plan[p].days,
                    max |-> m, cached |-> balance[u], sub |-> None, row |-> None, at |-> 0]
  OBVIOUS
<1>9. k \in PurchaseJob
  BY <1>2, <1>7, <1>8 DEF PurchaseJob
<1>10. job' = [job EXCEPT ![r] = k] /\ job[r] = None
  BY <1>4, <1>5, <1>6, <1>8 DEF PurchaseLoad
<1> QED BY <1>3, <1>5, <1>8, <1>9, <1>10

\* What the other steps make of it.
SameBut(j, k, step) ==
    /\ k.step = step /\ k.user = j.user /\ k.plan = j.plan /\ k.coupon = j.coupon
    /\ k.price = j.price /\ k.days = j.days /\ k.max = j.max /\ k.cached = j.cached

LEMMA RedeemJob ==
    ASSUME TypeOK, NEW r \in Requests, Redeem(r)
    PROVE  \E j, k \in PurchaseJob :
             /\ j = job[r] /\ job' = [job EXCEPT ![r] = k] /\ SameBut(j, k, "redeemed")
             /\ j.step = "ordered" /\ j.coupon # None /\ ~CouponLocked(j.coupon)
             /\ coupon[j.coupon] # None
             /\ j.max # None => coupon[j.coupon].count < j.max
<1>1. PICK j \in PurchaseJob : j = job[r]
  BY JobKinds DEF Redeem, Buying
<1>2. PICK k : k = [j EXCEPT !.step = "redeemed"]
  OBVIOUS
<1>3. k \in PurchaseJob /\ SameBut(j, k, "redeemed")
  BY <1>2 DEF PurchaseJob, SameBut
<1>4. job' = [job EXCEPT ![r] = k]
  BY <1>1, <1>2 DEF Redeem
<1>5. /\ j.step = "ordered" /\ j.coupon # None /\ ~CouponLocked(j.coupon)
      /\ coupon[j.coupon] # None
      /\ j.max # None => coupon[j.coupon].count < j.max
  BY <1>1 DEF Redeem, Buying
<1> QED BY <1>1, <1>3, <1>4, <1>5

LEMMA DebitJob ==
    ASSUME TypeOK, NEW r \in Requests, Debit(r)
    PROVE  \E j, k \in PurchaseJob :
             /\ j = job[r] /\ job' = [job EXCEPT ![r] = k] /\ SameBut(j, k, "debited")
             /\ j.step = IF j.coupon = None THEN "ordered" ELSE "redeemed"
             /\ 0 < j.price /\ j.price <= j.cached /\ ~UserLocked(j.user)
<1>1. PICK j \in PurchaseJob : j = job[r]
  BY JobKinds DEF Debit, Buying
<1>2. PICK k : k = [j EXCEPT !.step = "debited"]
  OBVIOUS
<1>3. k \in PurchaseJob /\ SameBut(j, k, "debited")
  BY <1>2 DEF PurchaseJob, SameBut
<1>4. job' = [job EXCEPT ![r] = k]
  BY <1>1, <1>2 DEF Debit
<1>5. /\ j.step = IF j.coupon = None THEN "ordered" ELSE "redeemed"
      /\ 0 < j.price /\ j.price <= j.cached /\ ~UserLocked(j.user)
  BY <1>1 DEF Debit, Buying
<1> QED BY <1>1, <1>3, <1>4, <1>5

LEMMA ReadJob ==
    ASSUME TypeOK, NEW r \in Requests, NEW s \in Subs \cup {None}, ReadSub(r, s)
    PROVE  \E j, k \in PurchaseJob :
             /\ j = job[r] /\ job' = [job EXCEPT ![r] = k] /\ SameBut(j, k, "read")
             /\ j.step = "debited" /\ s \in ActiveSub(j.user)
             /\ k.sub = s /\ k.at = now /\ (s # None => sub[s] # None /\ k.row = sub[s])
<1>1. PICK j \in PurchaseJob : j = job[r]
  BY JobKinds DEF ReadSub, Buying
<1>2. j.step = "debited" /\ s \in ActiveSub(j.user)
  BY <1>1 DEF ReadSub, Buying
<1>3. now \in Nat
  BY SubBounds DEF TypeOK
<1>4. PICK row \in SubRow \cup {None} : row = IF s = None THEN None ELSE sub[s]
  BY DEF TypeOK
<1>5. PICK k : k = [[[[j EXCEPT !.step = "read"] EXCEPT !.sub = s] EXCEPT !.at = now] EXCEPT !.row = row]
  OBVIOUS
<1>6. /\ k \in PurchaseJob /\ SameBut(j, k, "read")
      /\ k.sub = s /\ k.at = now /\ k.row = row
  BY <1>3, <1>5 DEF PurchaseJob, SameBut
<1>7. job' = [job EXCEPT ![r] = k]
  BY <1>1, <1>4, <1>5 DEF ReadSub
<1>8. s # None => sub[s] # None
  BY <1>2 DEF ActiveSub, Latest, Active
<1> QED BY <1>1, <1>2, <1>4, <1>6, <1>7, <1>8
-----------------------------------------------------------------------------
\* The rows a purchase writes.
Bought(j, s, row, inv) ==
    /\ j.sub = None => /\ sub[s] = None /\ row.user = j.user /\ row.status = "active"
                       /\ inv.from = j.at
    /\ j.sub # None => /\ s = j.sub /\ sub[s] # None /\ row.user = sub[s].user
                       /\ row.status = sub[s].status /\ inv.from = j.row.expires
    /\ row.expires = inv.till /\ inv.till = inv.from + j.days
    /\ inv.user = j.user /\ inv.sub = s

Commits(r, s, j, row, inv) ==
    /\ j = job[r] /\ j.step = "read" /\ PurchaseInv(j) /\ Bought(j, s, row, inv)
    /\ sub' = [sub EXCEPT ![s] = row] /\ invoices' = Append(invoices, inv)
    /\ balance' = [balance EXCEPT ![j.user] = j.cached - j.price]
    /\ j.coupon = None => UNCHANGED <<coupon, redeemed>>
    /\ j.coupon # None => /\ coupon' = [coupon EXCEPT ![j.coupon] = Counted(j.coupon)]
                          /\ redeemed' = [redeemed EXCEPT ![j.coupon][j.user] = @ + 1]
    /\ job' = [job EXCEPT ![r] = None]
    /\ UNCHANGED <<now, plan, edits, ceiling, disturbed>>

LEMMA CommitRows ==
    ASSUME TypeOK, JobsInv, NEW r \in Requests, NEW s \in Subs, PurchaseCommit(r, s)
    PROVE  \E j \in PurchaseJob, row \in SubRow, inv \in InvoiceRow : Commits(r, s, j, row, inv)
<1>1. PICK j \in PurchaseJob : j = job[r] /\ j.step = "read"
  BY JobKinds DEF PurchaseCommit, Buying
<1>2. PurchaseInv(j)
  BY <1>1, PurchaseFields DEF JobsInv, JobInv
<1>3. /\ j.user \in Users /\ j.plan \in Plans /\ j.days \in Nat /\ j.at \in Nat /\ j.price \in Nat
      /\ j.discount \in Nat /\ j.sub \in Subs \cup {None}
  BY PurchaseFields
<1>4. j.sub # None => j.row \in SubRow /\ sub[j.sub] \in SubRow /\ sub[j.sub] # None
  BY <1>1, <1>2, <1>3, PurchaseFields DEF PurchaseInv, TypeOK
<1>5. PICK from \in Nat : from = IF j.sub = None THEN j.at ELSE j.row.expires
  BY <1>3, <1>4 DEF SubRow
<1>6. PICK till \in Nat : till = from + j.days
  BY <1>3
<1>7. PICK inv \in InvoiceRow :
        inv = [user |-> j.user, sub |-> s, amount |-> j.price, discount |-> j.discount,
               from |-> from, till |-> till, status |-> "paid"]
  BY <1>3 DEF InvoiceRow
<1>8. invoices' = Append(invoices, inv)
  BY <1>1, <1>5, <1>6, <1>7 DEF PurchaseCommit
<1>9. IF j.sub = None THEN sub[s] = None ELSE s = j.sub
  BY <1>1 DEF PurchaseCommit
<1>10. \E row \in SubRow : Bought(j, s, row, inv) /\ sub' = [sub EXCEPT ![s] = row]
  <2>1. CASE j.sub = None
    <3>1. PICK row \in SubRow :
            row = [user |-> j.user, plan |-> j.plan, expires |-> till, status |-> "active"]
      BY <1>3 DEF SubRow
    <3>2. sub' = [sub EXCEPT ![s] = row]
      BY <1>1, <1>5, <1>6, <2>1, <3>1 DEF PurchaseCommit
    <3>3. Bought(j, s, row, inv)
      BY <1>5, <1>6, <1>7, <1>9, <2>1, <3>1 DEF Bought
    <3> QED BY <3>2, <3>3
  <2>2. CASE j.sub # None
    <3>1. PICK p \in Plans : p = IF j.plan = j.row.plan THEN sub[s].plan ELSE j.plan
      BY <1>3, <1>4, <1>9, <2>2 DEF SubRow
    <3>2. PICK row : row = [[sub[s] EXCEPT !.expires = till] EXCEPT !.plan = p]
      OBVIOUS
    <3>3. /\ row \in SubRow /\ row.user = sub[s].user /\ row.status = sub[s].status
          /\ row.expires = till
      BY <1>4, <1>9, <2>2, <3>2 DEF SubRow
    <3>4. row = Extended(s, j)
      BY <1>4, <1>5, <1>6, <1>9, <2>2, <3>1, <3>2 DEF Extended, SubRow
    <3>5. sub' = [sub EXCEPT ![s] = row]
      BY <1>1, <2>2, <3>4 DEF PurchaseCommit
    <3>6. Bought(j, s, row, inv)
      BY <1>4, <1>5, <1>6, <1>7, <1>9, <2>2, <3>3 DEF Bought
    <3> QED BY <3>3, <3>5, <3>6
  <2> QED BY <2>1, <2>2
<1>11. /\ balance' = [balance EXCEPT ![j.user] = j.cached - j.price]
       /\ j.coupon = None => UNCHANGED <<coupon, redeemed>>
       /\ j.coupon # None =>
            /\ coupon' = [coupon EXCEPT ![j.coupon] = Counted(j.coupon)]
            /\ redeemed' = [redeemed EXCEPT ![j.coupon][j.user] = @ + 1]
       /\ job' = [job EXCEPT ![r] = None]
       /\ UNCHANGED <<now, plan, edits, ceiling, disturbed>>
  BY <1>1 DEF PurchaseCommit
<1> QED BY <1>1, <1>2, <1>8, <1>10, <1>11 DEF Commits

\* The routes that change a subscription: what they load.
LoadStep(r) ==
    \E s \in Subs : sub[s] # None /\ (CancelLoad(r, s) \/ RefundLoad(r, s)
                                     \/ \E op \in EditOps : AdminLoad(r, op, s))

LEMMA LoadedJob ==
    ASSUME TypeOK, NEW r \in Requests, LoadStep(r)
    PROVE  /\ UNCHANGED <<now, shop, books, sub, disturbed>>
           /\ edits < MaxEdits /\ edits' = edits + 1 /\ job[r] = None
           /\ \E k \in EditJob : /\ job' = [job EXCEPT ![r] = k] /\ sub[k.sub] # None
                                 /\ k.op = "refund" => k.inv \in 1 .. Len(invoices)
<1>1. ASSUME NEW s \in Subs, NEW op \in EditOps, NEW i \in Nat, EditLoad(r, op, s, i),
             op = "refund" => i \in 1 .. Len(invoices)
      PROVE  /\ UNCHANGED <<now, shop, books, sub, disturbed>>
             /\ edits < MaxEdits /\ edits' = edits + 1 /\ job[r] = None
             /\ \E k \in EditJob : /\ job' = [job EXCEPT ![r] = k] /\ sub[k.sub] # None
                                   /\ k.op = "refund" => k.inv \in 1 .. Len(invoices)
  <2>1. sub[s] \in SubRow /\ sub[s] # None
    BY <1>1 DEF EditLoad, TypeOK
  <2>2. PICK k \in EditJob : k = [op |-> op, sub |-> s, row |-> sub[s], inv |-> i]
    BY <2>1 DEF EditJob
  <2>3. job' = [job EXCEPT ![r] = k]
    BY <1>1, <2>2 DEF EditLoad
  <2>4. sub[k.sub] # None /\ (k.op = "refund" => k.inv \in 1 .. Len(invoices))
    BY <1>1, <2>1, <2>2
  <2>5. /\ UNCHANGED <<now, shop, books, sub, disturbed>>
        /\ edits < MaxEdits /\ edits' = edits + 1 /\ job[r] = None
    BY <1>1 DEF EditLoad
  <2> QED BY <2>3, <2>4, <2>5
<1>2. PICK s \in Subs : CancelLoad(r, s) \/ RefundLoad(r, s) \/ \E op \in EditOps : AdminLoad(r, op, s)
  BY DEF LoadStep
<1>3. CASE CancelLoad(r, s)
  <2>1. EditLoad(r, "cancel", s, 0) /\ "cancel" \in EditOps
    BY <1>3 DEF CancelLoad, EditOps
  <2> QED BY <1>1, <2>1
<1>4. CASE RefundLoad(r, s)
  <2>1. PICK i \in DOMAIN invoices : EditLoad(r, "refund", s, i)
    BY <1>4 DEF RefundLoad, NewestPaid
  <2>2. i \in Nat /\ i \in 1 .. Len(invoices) /\ "refund" \in EditOps
    BY <2>1 DEF TypeOK, EditOps
  <2> QED BY <1>1, <2>1, <2>2
<1>5. ASSUME NEW op \in EditOps, AdminLoad(r, op, s)
      PROVE  EditLoad(r, op, s, 0) /\ op # "refund"
  BY <1>5 DEF AdminLoad
<1> QED BY <1>1, <1>2, <1>3, <1>4, <1>5

\* What they write.
WriteStep(r) ==
    \/ Cancel(r) \/ AdminCancelSub(r) \/ AdminExtendSub(r, 1) \/ AdminRefundSub(r)
    \/ \E p \in Plans, reset \in BOOLEAN : AdminChangePlan(r, p, reset)

LEMMA WriteFacts ==
    ASSUME TypeOK, JobsInv, NEW r \in Requests, WriteStep(r)
    PROVE  /\ disturbed' = TRUE /\ job' = [job EXCEPT ![r] = None] /\ job[r] # None
           /\ job[r].op # "purchase"
           /\ UNCHANGED <<now, shop, redeemed, edits>>
           /\ \E s \in Subs, row \in SubRow :
                sub[s] # None /\ sub' = [sub EXCEPT ![s] = row] /\ row.user = sub[s].user
           /\ balance' \in [Users -> Nat]
           /\ invoices' \in Seq(InvoiceRow) /\ Len(invoices') = Len(invoices)
           /\ \A i \in 1 .. Len(invoices) :
                /\ invoices'[i].user = invoices[i].user /\ invoices'[i].sub = invoices[i].sub
                /\ invoices'[i].from = invoices[i].from /\ invoices'[i].till = invoices[i].till
<1>1. job[r] # None /\ job[r].op # "purchase"
  BY DEF WriteStep, Cancel, AdminCancelSub, AdminExtendSub, AdminRefundSub, AdminChangePlan, Editing
<1>2. PICK j \in EditJob : j = job[r] /\ EditInv(j)
  BY <1>1, JobKinds DEF JobsInv, JobInv
<1>3. /\ j.op \in EditOps /\ j.sub \in Subs /\ j.row \in SubRow /\ j.inv \in Nat
      /\ sub[j.sub] # None /\ sub[j.sub] \in SubRow
      /\ j.op = "refund" => j.inv \in 1 .. Len(invoices)
  BY <1>2, EditFields DEF EditInv, TypeOK
<1>4. ASSUME NEW new \in SubRow, Writes(r, new)
      PROVE  /\ disturbed' = TRUE /\ job' = [job EXCEPT ![r] = None]
             /\ \E s \in Subs, row \in SubRow :
                  sub[s] # None /\ sub' = [sub EXCEPT ![s] = row] /\ row.user = sub[s].user
  <2>1. PICK p \in Plans : p = IF new["plan"] = j.row["plan"] THEN sub[j.sub]["plan"] ELSE new["plan"]
    BY <1>3 DEF SubRow
  <2>2. PICK e \in Nat : e = IF new["expires"] = j.row["expires"]
                             THEN sub[j.sub]["expires"] ELSE new["expires"]
    BY <1>3 DEF SubRow
  <2>3. PICK t \in {"active", "expired", "canceled"} :
          t = IF new["status"] = j.row["status"] THEN sub[j.sub]["status"] ELSE new["status"]
    BY <1>3 DEF SubRow
  <2>4. PICK row \in SubRow :
          row = [user |-> sub[j.sub].user, plan |-> p, expires |-> e, status |-> t]
    BY <1>3 DEF SubRow
  <2>5. sub' = [sub EXCEPT ![j.sub] = row]
    BY <1>2, <1>4, <2>1, <2>2, <2>3, <2>4 DEF Writes
  <2>6. row.user = sub[j.sub].user
    BY <2>4
  <2>7. disturbed' = TRUE /\ job' = [job EXCEPT ![r] = None]
    BY <1>4 DEF Writes
  <2> QED BY <1>3, <2>5, <2>6, <2>7
<1>5. /\ [j.row EXCEPT !.status = "canceled"] \in SubRow
      /\ [j.row EXCEPT !.expires = @ + 1, !.status = "active"] \in SubRow
      /\ \A p \in Plans : [j.row EXCEPT !.plan = p] \in SubRow
      /\ \A p \in Plans, e \in Nat :
           [j.row EXCEPT !.plan = p, !.status = "active", !.expires = e] \in SubRow
  <2>1. PICK row \in SubRow : row = j.row
    BY <1>3
  <2>2. PICK e \in Nat : e = row.expires + 1
    BY DEF SubRow
  <2>3. [row EXCEPT !.status = "canceled"] \in SubRow
    BY DEF SubRow
  <2>4. [[row EXCEPT !.expires = e] EXCEPT !.status = "active"] \in SubRow
    BY DEF SubRow
  <2>5. [row EXCEPT !.expires = @ + 1, !.status = "active"] \in SubRow
    BY <2>2, <2>4
  <2>6. \A p \in Plans : [row EXCEPT !.plan = p] \in SubRow
    BY DEF SubRow
  <2>7. ASSUME NEW p \in Plans, NEW x \in Nat
        PROVE  [row EXCEPT !.plan = p, !.status = "active", !.expires = x] \in SubRow
    <3>1. [[[row EXCEPT !.plan = p] EXCEPT !.status = "active"] EXCEPT !.expires = x] \in SubRow
      BY DEF SubRow
    <3> QED BY <3>1
  <2> QED BY <2>1, <2>3, <2>5, <2>6, <2>7
<1>6. CASE Cancel(r) \/ AdminCancelSub(r) \/ AdminExtendSub(r, 1)
           \/ \E p \in Plans, reset \in BOOLEAN : AdminChangePlan(r, p, reset)
  <2>1. UNCHANGED <<now, shop, books, edits>>
    BY <1>6 DEF Cancel, AdminCancelSub, AdminExtendSub, AdminChangePlan
  <2>2. \E new \in SubRow : Writes(r, new)
    <3>1. CASE Cancel(r) \/ AdminCancelSub(r)
      BY <1>2, <1>5, <3>1 DEF Cancel, AdminCancelSub
    <3>2. CASE AdminExtendSub(r, 1)
      BY <1>2, <1>5, <3>2 DEF AdminExtendSub
    <3>3. ASSUME NEW p \in Plans, NEW reset \in BOOLEAN, AdminChangePlan(r, p, reset)
          PROVE  \E new \in SubRow : Writes(r, new)
      <4>1. plan[p] \in PlanRow /\ now \in Nat
        BY <3>3, SubBounds DEF AdminChangePlan, TypeOK
      <4>2. now + plan[p].days \in Nat
        BY <4>1 DEF PlanRow
      <4>3. CASE reset
        BY <1>2, <1>5, <3>3, <4>2, <4>3 DEF AdminChangePlan
      <4>4. CASE ~reset
        BY <1>2, <1>5, <3>3, <4>4 DEF AdminChangePlan
      <4> QED BY <4>3, <4>4
    <3> QED BY <1>6, <3>1, <3>2, <3>3
  <2>3. balance' = balance /\ invoices' = invoices
    BY <2>1 DEF books
  <2>4. balance' \in [Users -> Nat] /\ invoices' \in Seq(InvoiceRow) /\ Len(invoices') = Len(invoices)
    BY <2>3 DEF TypeOK
  <2> QED BY <1>1, <1>4, <2>1, <2>2, <2>3, <2>4 DEF books
<1>7. CASE AdminRefundSub(r)
  <2>1. PICK i \in 1 .. Len(invoices) : i = j.inv
    BY <1>2, <1>3, <1>7 DEF AdminRefundSub, Editing
  <2>2. invoices[i] \in InvoiceRow
    BY DEF TypeOK
  <2>3. PICK inv : inv = [invoices[i] EXCEPT !.status = "void"]
    OBVIOUS
  <2>4. /\ inv \in InvoiceRow /\ inv.user = invoices[i].user /\ inv.sub = invoices[i].sub
        /\ inv.from = invoices[i].from /\ inv.till = invoices[i].till
    BY <2>2, <2>3 DEF InvoiceRow
  <2>5. invoices' = [invoices EXCEPT ![i] = inv]
    BY <1>2, <1>7, <2>1, <2>3 DEF AdminRefundSub
  <2>6. /\ invoices' \in Seq(InvoiceRow) /\ Len(invoices') = Len(invoices)
        /\ \A k \in 1 .. Len(invoices) : invoices'[k] = IF k = i THEN inv ELSE invoices[k]
    BY <2>4, <2>5 DEF TypeOK
  <2>7. invoices[i].amount \in Nat /\ j.row.user \in Users
    BY <1>3, <2>2 DEF InvoiceRow, SubRow
  <2>8. balance' = [balance EXCEPT ![j.row.user] = @ + invoices[i].amount]
    BY <1>2, <1>7, <2>1 DEF AdminRefundSub
  <2>9. balance' \in [Users -> Nat]
    BY <2>7, <2>8 DEF TypeOK
  <2>10. Writes(r, [j.row EXCEPT !.status = "canceled"])
    BY <1>2, <1>7 DEF AdminRefundSub
  <2>11. UNCHANGED <<now, shop, redeemed, edits>>
    BY <1>7 DEF AdminRefundSub
  <2>12. \A k \in 1 .. Len(invoices) :
                /\ invoices'[k].user = invoices[k].user /\ invoices'[k].sub = invoices[k].sub
                /\ invoices'[k].from = invoices[k].from /\ invoices'[k].till = invoices[k].till
    BY <2>4, <2>6
  <2> QED BY <1>1, <1>4, <1>5, <2>6, <2>9, <2>10, <2>11, <2>12
<1> QED BY <1>6, <1>7 DEF WriteStep
-----------------------------------------------------------------------------
\* The status of an invoice is set by hand.
InvoiceStep == \E i \in DOMAIN invoices : AdminVoidInvoice(i) \/ AdminMarkInvoicePaid(i)

LEMMA InvoiceFacts ==
    ASSUME TypeOK, InvoiceStep
    PROVE  /\ UNCHANGED <<now, shop, redeemed, balance, sub, job, disturbed>>
           /\ edits < MaxEdits /\ edits' = edits + 1
           /\ invoices' \in Seq(InvoiceRow) /\ Len(invoices') = Len(invoices)
           /\ \A i \in 1 .. Len(invoices) :
                /\ invoices'[i].user = invoices[i].user /\ invoices'[i].sub = invoices[i].sub
                /\ invoices'[i].from = invoices[i].from /\ invoices'[i].till = invoices[i].till
<1>1. PICK i \in 1 .. Len(invoices), status \in {"paid", "void"} : SetInvoice(i, status)
  BY DEF InvoiceStep, AdminVoidInvoice, AdminMarkInvoicePaid, TypeOK
<1>2. invoices[i] \in InvoiceRow
  BY DEF TypeOK
<1>3. PICK inv : inv = [invoices[i] EXCEPT !.status = status]
  OBVIOUS
<1>4. /\ inv \in InvoiceRow /\ inv.user = invoices[i].user /\ inv.sub = invoices[i].sub
      /\ inv.from = invoices[i].from /\ inv.till = invoices[i].till
  BY <1>2, <1>3 DEF InvoiceRow
<1>5. invoices' = [invoices EXCEPT ![i] = inv]
  BY <1>1, <1>3 DEF SetInvoice
<1>6. /\ invoices' \in Seq(InvoiceRow) /\ Len(invoices') = Len(invoices)
      /\ \A k \in 1 .. Len(invoices) : invoices'[k] = IF k = i THEN inv ELSE invoices[k]
  BY <1>4, <1>5 DEF TypeOK
<1>7. \A k \in 1 .. Len(invoices) :
        /\ invoices'[k].user = invoices[k].user /\ invoices'[k].sub = invoices[k].sub
        /\ invoices'[k].from = invoices[k].from /\ invoices'[k].till = invoices[k].till
  BY <1>4, <1>6
<1>8. /\ UNCHANGED <<now, shop, redeemed, balance, sub, job, disturbed>>
      /\ edits < MaxEdits /\ edits' = edits + 1
  BY <1>1 DEF SetInvoice
<1> QED BY <1>6, <1>7, <1>8

\* The routes that write a plan.
PlanStep ==
    \/ \E p \in Plans, row \in PlanForms : AdminCreatePlan(p, row) \/ AdminUpdatePlan(p, row)
    \/ \E p \in Plans : AdminDeletePlan(p) \/ AdminArchivePlan(p)
    \/ \E p, q \in Plans : AdminClonePlan(p, q)

LEMMA PlanFacts ==
    ASSUME TypeOK, PlanStep
    PROVE  /\ UNCHANGED <<now, coupon, ceiling, books, sub, job, disturbed>>
           /\ edits < MaxEdits /\ edits' = edits + 1
           /\ plan' \in [Plans -> PlanRow \cup {None}]
<1>1. \A p \in Plans : plan[p] # None => [plan[p] EXCEPT !.active = FALSE] \in PlanRow
  <2>1. \A row \in PlanRow : [row EXCEPT !.active = FALSE] \in PlanRow
    BY DEF PlanRow
  <2> QED BY <2>1 DEF TypeOK
<1>2. PlanForms \subseteq PlanRow
  BY SubForms
<1>3. PICK p \in Plans, row \in PlanRow : WritePlan(p, row)
  BY <1>1, <1>2 DEF PlanStep, AdminCreatePlan, AdminUpdatePlan, AdminDeletePlan, AdminArchivePlan,
                    AdminClonePlan
<1> QED BY <1>3 DEF WritePlan, TypeOK

\* The routes that write coupons.
CouponStep ==
    \/ \E c \in Coupons, row \in CouponForms :
         AdminCreateCoupon(c, row) \/ AdminUpdateCoupon(c, row)
    \/ \E row \in CouponForms : AdminImportCoupons(row)
    \/ \E c \in Coupons : AdminDeleteCoupon(c)
    \/ \E c, d \in Coupons : AdminCloneCoupon(c, d)

\* What they do to one coupon: nothing, or create it, or change or delete it while
\* no purchase holds it; its ceilings follow its limits.
CouponChange(c) ==
    /\ \/ coupon'[c] = coupon[c] /\ ceiling'[c] = ceiling[c]
       \/ coupon[c] = None /\ coupon'[c] # None /\ coupon'[c].count = 0
       \/ /\ coupon[c] # None /\ ~CouponLocked(c)
          /\ IF coupon'[c] = None
             THEN coupon[c].count = 0 /\ \A u \in Users : redeemed[c][u] = 0
             ELSE coupon'[c].count = coupon[c].count
    /\ Within(ceiling[c].max, ceiling'[c].max) /\ ceiling[c].perUser <= ceiling'[c].perUser
    /\ coupon'[c] # None => /\ Within(coupon'[c].max, ceiling'[c].max)
                            /\ coupon'[c].perUser <= ceiling'[c].perUser

LEMMA CouponFacts ==
    ASSUME TypeOK, LimitInv, CouponStep
    PROVE  /\ UNCHANGED <<now, plan, books, sub, job, disturbed>>
           /\ edits < MaxEdits /\ edits' = edits + 1
           /\ coupon' \in [Coupons -> CouponRow \cup {None}]
           /\ ceiling' \in [Coupons -> [max : Nat \cup {None}, perUser : Nat]]
           /\ \A c \in Coupons : CouponChange(c)
<1> DEFINE Allowed(c, row) ==
             \/ coupon[c] = None /\ row # None /\ row.count = 0
             \/ /\ coupon[c] # None /\ ~CouponLocked(c)
                /\ IF row = None
                   THEN coupon[c].count = 0 /\ \A u \in Users : redeemed[c][u] = 0
                   ELSE row.count = coupon[c].count
<1>1. \A row \in CouponForms : row \in CouponRow /\ row # None /\ row.count = 0
  BY SubForms, SubNone
<1>2. \A c \in Coupons : coupon[c] # None => coupon[c] \in CouponRow
  BY DEF TypeOK
<1>3. PICK S \in SUBSET Coupons, row \in CouponRow \cup {None} :
        WriteCoupons(S, row) /\ \A c \in S : Allowed(c, row)
  <2>1. ASSUME NEW c \in Coupons, NEW row \in CouponForms, AdminCreateCoupon(c, row)
        PROVE  WriteCoupons({c}, row) /\ Allowed(c, row) /\ row \in CouponRow
    BY <1>1, <2>1 DEF AdminCreateCoupon, WriteCoupon
  <2>2. ASSUME NEW c \in Coupons, NEW form \in CouponForms, AdminUpdateCoupon(c, form)
        PROVE  \E row \in CouponRow : WriteCoupons({c}, row) /\ Allowed(c, row)
    <3>1. PICK old \in CouponRow : old = coupon[c] /\ coupon[c] # None /\ ~CouponLocked(c)
      BY <1>2, <2>2 DEF AdminUpdateCoupon
    <3>2. /\ form.max \in Nat \cup {None} /\ form.perUser \in Nat /\ form.from \in Nat
          /\ form.until \in Nat \cup {None} /\ form.plans \in SUBSET Plans /\ form.active \in BOOLEAN
      BY <1>1 DEF CouponRow
    <3>3. PICK row : row = [[[[[[old EXCEPT !.max = form.max] EXCEPT !.perUser = form.perUser]
                                 EXCEPT !.from = form.from] EXCEPT !.until = form.until]
                                 EXCEPT !.plans = form.plans] EXCEPT !.active = form.active]
      OBVIOUS
    <3>4. row \in CouponRow /\ row.count = old.count
      BY <3>2, <3>3 DEF CouponRow
    <3>5. row = [coupon[c] EXCEPT !.max = form.max, !.perUser = form.perUser,
             !.from = form.from, !.until = form.until, !.plans = form.plans, !.active = form.active]
      BY <3>1, <3>3 DEF CouponRow
    <3>6. WriteCoupons({c}, row)
      BY <2>2, <3>5 DEF AdminUpdateCoupon, WriteCoupon
    <3>7. row # None
      BY <3>4, SubNone
    <3> QED BY <3>1, <3>4, <3>6, <3>7
  <2>3. ASSUME NEW row \in CouponForms, AdminImportCoupons(row)
        PROVE  \E S \in SUBSET Coupons : WriteCoupons(S, row) /\ \A c \in S : Allowed(c, row)
    BY <1>1, <2>3 DEF AdminImportCoupons
  <2>4. ASSUME NEW c \in Coupons, AdminDeleteCoupon(c)
        PROVE  WriteCoupons({c}, None) /\ Allowed(c, None)
    BY <2>4 DEF AdminDeleteCoupon, WriteCoupon
  <2>5. ASSUME NEW c \in Coupons, NEW d \in Coupons, AdminCloneCoupon(c, d)
        PROVE  \E row \in CouponRow : WriteCoupons({d}, row) /\ Allowed(d, row)
    <3>1. PICK old \in CouponRow : old = coupon[c] /\ coupon[d] = None
      BY <1>2, <2>5 DEF AdminCloneCoupon
    <3>2. PICK row : row = [[old EXCEPT !.active = FALSE] EXCEPT !.count = 0]
      OBVIOUS
    <3>3. row \in CouponRow /\ row.count = 0 /\ row # None
      <4>1. row \in CouponRow /\ row.count = 0
        BY <3>2 DEF CouponRow
      <4> QED BY <4>1, SubNone
    <3>4. row = [coupon[c] EXCEPT !.active = FALSE, !.count = 0]
      BY <3>1, <3>2
    <3>5. WriteCoupons({d}, row)
      BY <2>5, <3>4 DEF AdminCloneCoupon, WriteCoupon
    <3> QED BY <3>1, <3>3, <3>5
  <2>6. \A c \in Coupons, row \in CouponRow \cup {None} :
          WriteCoupons({c}, row) /\ Allowed(c, row) =>
            \E S \in SUBSET Coupons : WriteCoupons(S, row) /\ \A d \in S : Allowed(d, row)
    OBVIOUS
  <2>7. CASE \E c \in Coupons, row \in CouponForms :
               AdminCreateCoupon(c, row) \/ AdminUpdateCoupon(c, row)
    <3>1. PICK c \in Coupons, form \in CouponForms :
            AdminCreateCoupon(c, form) \/ AdminUpdateCoupon(c, form)
      BY <2>7
    <3>2. \E row \in CouponRow \cup {None} : WriteCoupons({c}, row) /\ Allowed(c, row)
      BY <2>1, <2>2, <3>1
    <3> HIDE DEF Allowed
    <3> QED BY <2>6, <3>2
  <2>8. CASE \E row \in CouponForms : AdminImportCoupons(row)
    BY <1>1, <2>3, <2>8
  <2>9. CASE \E c \in Coupons : AdminDeleteCoupon(c)
    <3>1. PICK c \in Coupons : WriteCoupons({c}, None) /\ Allowed(c, None)
      BY <2>4, <2>9
    <3> HIDE DEF Allowed
    <3> QED BY <2>6, <3>1
  <2>10. CASE \E c, d \in Coupons : AdminCloneCoupon(c, d)
    <3>1. PICK d \in Coupons, row \in CouponRow : WriteCoupons({d}, row) /\ Allowed(d, row)
      BY <2>5, <2>10
    <3> HIDE DEF Allowed
    <3> QED BY <2>6, <3>1
  <2> QED BY <2>7, <2>8, <2>9, <2>10 DEF CouponStep
<1>4. /\ UNCHANGED <<now, plan, books, sub, job, disturbed>>
      /\ edits < MaxEdits /\ edits' = edits + 1
  BY <1>3 DEF WriteCoupons
<1>5. coupon' \in [Coupons -> CouponRow \cup {None}]
  BY <1>3 DEF WriteCoupons, TypeOK
<1>6. PICK m \in Nat \cup {None}, n \in Nat : m = Ceiling(row).max /\ n = Ceiling(row).perUser
  <2>1. CASE row = None
    BY <2>1 DEF Ceiling
  <2>2. CASE row # None
    BY <1>3, <2>2 DEF Ceiling, CouponRow
  <2> QED BY <2>1, <2>2
<1>7. /\ \A x, y \in Nat \cup {None} : /\ Higher(x, y) \in Nat \cup {None}
                                       /\ Within(x, Higher(x, y)) /\ Within(y, Higher(x, y))
      /\ \A x, y \in Nat : Higher(x, y) \in Nat /\ x <= Higher(x, y) /\ y <= Higher(x, y)
  BY SubNone DEF Higher, Within
<1>8. ASSUME NEW c \in Coupons
      PROVE  /\ ceiling[c].max \in Nat \cup {None} /\ ceiling[c].perUser \in Nat
             /\ ceiling[c] \in [max : Nat \cup {None}, perUser : Nat]
  <2>1. ceiling[c] \in [max : Nat \cup {None}, perUser : Nat]
    BY DEF TypeOK
  <2> QED BY <2>1
<1>9. ASSUME NEW c \in Coupons
      PROVE  ceiling'[c] \in [max : Nat \cup {None}, perUser : Nat] /\ CouponChange(c)
  <2>1. CASE c \notin S
    <3>1. coupon'[c] = coupon[c] /\ ceiling'[c] = ceiling[c]
      BY <1>3, <2>1 DEF WriteCoupons
    <3>2. Within(ceiling[c].max, ceiling[c].max) /\ ceiling[c].perUser <= ceiling[c].perUser
      BY <1>8 DEF Within
    <3> QED BY <1>8, <3>1, <3>2 DEF CouponChange, LimitInv
  <2>2. CASE c \in S
    <3>1. PICK x \in Nat \cup {None}, y \in Nat : x = ceiling[c].max /\ y = ceiling[c].perUser
      BY <1>8
    <3>2. coupon'[c] = row /\ ceiling'[c] = [max |-> Higher(x, m), perUser |-> Higher(y, n)]
      BY <1>3, <1>6, <2>2, <3>1 DEF WriteCoupons
    <3>3. /\ ceiling'[c].max = Higher(x, m) /\ ceiling'[c].perUser = Higher(y, n)
          /\ ceiling'[c] \in [max : Nat \cup {None}, perUser : Nat]
      <4>1. PICK a \in Nat \cup {None}, b \in Nat : a = Higher(x, m) /\ b = Higher(y, n)
        BY <1>6, <1>7, <3>1
      <4>2. [max |-> a, perUser |-> b] \in [max : Nat \cup {None}, perUser : Nat]
        OBVIOUS
      <4> QED BY <3>2, <4>1, <4>2
    <3>4. row # None => row.max = m /\ row.perUser = n
      BY <1>6 DEF Ceiling
    <3>5. Allowed(c, row)
      BY <1>3, <2>2
    <3> QED BY <1>7, <3>1, <3>2, <3>3, <3>4, <3>5 DEF CouponChange
  <2> QED BY <2>1, <2>2
<1>10. ceiling' \in [Coupons -> [max : Nat \cup {None}, perUser : Nat]]
  <2>1. ceiling' = [c \in Coupons |-> ceiling'[c]]
    BY <1>3 DEF WriteCoupons
  <2> QED BY <1>9, <2>1
<1> QED BY <1>4, <1>5, <1>9, <1>10

\* Every step is one of these.
LEMMA NextCases ==
    ASSUME Next
    PROVE  \/ Tick \/ ExpireDue \/ InvoiceStep \/ PlanStep \/ CouponStep
           \/ \E r \in Requests : \/ BuyStep(r) \/ LoadStep(r) \/ WriteStep(r)
                                  \/ \E s \in Subs : PurchaseCommit(r, s)
<1>1. CASE \E r \in Requests :
         \/ \E u \in Users, p \in Plans, c \in Coupons \cup {None} : PurchaseLoad(r, u, p, c)
         \/ Redeem(r) \/ Debit(r) \/ PurchaseFails(r)
         \/ \E s \in Subs \cup {None} : ReadSub(r, s)
         \/ \E s \in Subs : PurchaseCommit(r, s)
         \/ \E s \in Subs : sub[s] # None /\ (CancelLoad(r, s) \/ RefundLoad(r, s)
                                             \/ \E op \in EditOps : AdminLoad(r, op, s))
         \/ Cancel(r) \/ AdminCancelSub(r) \/ AdminExtendSub(r, 1) \/ AdminRefundSub(r)
         \/ \E p \in Plans, reset \in BOOLEAN : AdminChangePlan(r, p, reset)
  BY <1>1 DEF BuyStep, LoadStep, WriteStep
<1> QED BY <1>1 DEF Next, InvoiceStep, PlanStep, CouponStep
-----------------------------------------------------------------------------
\* A counted coupon differs in its count only.
LEMMA CountedRow ==
    ASSUME TypeOK, NEW c \in Coupons, coupon[c] # None
    PROVE  /\ Counted(c) \in CouponRow /\ Counted(c) # None
           /\ coupon[c].count \in Nat /\ Counted(c).count = coupon[c].count + 1
           /\ Counted(c).max = coupon[c].max /\ Counted(c).perUser = coupon[c].perUser
<1>1. PICK row \in CouponRow : row = coupon[c]
  BY DEF TypeOK
<1>2. PICK n \in Nat : n = row.count + 1 /\ row.count \in Nat
  BY DEF CouponRow
<1>3. PICK new : new = [row EXCEPT !.count = n]
  OBVIOUS
<1>4. /\ new \in CouponRow /\ new.count = n /\ new.max = row.max /\ new.perUser = row.perUser
  BY <1>3 DEF CouponRow
<1>5. new = Counted(c)
  BY <1>1, <1>2, <1>3 DEF Counted
<1>6. new # None
  BY <1>4, SubNone
<1> QED BY <1>1, <1>2, <1>4, <1>5, <1>6

\* A step of a request writes its own job.
LEMMA BuyJob ==
    ASSUME TypeOK, NEW r \in Requests, BuyStep(r)
    PROVE  \E k \in PurchaseJob \cup {None} : job' = [job EXCEPT ![r] = k]
<1>1. CASE \E u \in Users, p \in Plans, c \in Coupons \cup {None} : PurchaseLoad(r, u, p, c)
  BY <1>1, LoadJob
<1>2. CASE Redeem(r)
  BY <1>2, RedeemJob
<1>3. CASE Debit(r)
  BY <1>3, DebitJob
<1>4. CASE PurchaseFails(r)
  BY <1>4 DEF PurchaseFails
<1>5. CASE \E s \in Subs \cup {None} : ReadSub(r, s)
  BY <1>5, ReadJob
<1> QED BY <1>1, <1>2, <1>3, <1>4, <1>5 DEF BuyStep

\* ExpireDue changes the status of rows that are there.
LEMMA ExpireRows ==
    ASSUME TypeOK, ExpireDue
    PROVE  /\ sub' \in [Subs -> SubRow \cup {None}]
           /\ \A s \in Subs :
                \/ sub'[s] = sub[s]
                \/ /\ sub[s] # None /\ sub[s].status = "active" /\ sub[s].expires < now
                   /\ sub'[s] # None /\ sub'[s].user = sub[s].user
                   /\ sub'[s].expires = sub[s].expires /\ sub'[s].status = "expired"
           /\ \A s \in Subs : sub'[s] # sub[s] /\ ~disturbed' =>
                \A r \in Requests : ~(Buying(r, "read") /\ job[r].sub = s)
<1> DEFINE due == {s \in Subs : sub[s] # None /\ sub[s].status = "active" /\ sub[s].expires < now}
<1>1. sub' = [s \in Subs |-> IF s \in due THEN [sub[s] EXCEPT !.status = "expired"] ELSE sub[s]]
  BY DEF ExpireDue
<1>2. disturbed' = (disturbed \/ \E r \in Requests : Buying(r, "read") /\ job[r].sub \in due)
  BY DEF ExpireDue
<1>3. ASSUME NEW s \in Subs
      PROVE  /\ sub'[s] \in SubRow \cup {None}
             /\ \/ sub'[s] = sub[s]
                \/ /\ sub[s] # None /\ sub[s].status = "active" /\ sub[s].expires < now
                   /\ sub'[s] # None /\ sub'[s].user = sub[s].user
                   /\ sub'[s].expires = sub[s].expires /\ sub'[s].status = "expired"
  <2>1. CASE s \in due
    <3>1. PICK row \in SubRow : row = sub[s] /\ sub[s] # None
      BY <2>1 DEF TypeOK
    <3>2. PICK new : new = [row EXCEPT !.status = "expired"]
      OBVIOUS
    <3>3. /\ new \in SubRow /\ new.user = row.user /\ new.expires = row.expires
          /\ new.status = "expired"
      BY <3>2 DEF SubRow
    <3>4. new # None
      BY <3>3, SubNone
    <3>5. sub'[s] = new
      BY <1>1, <2>1, <3>1, <3>2
    <3> QED BY <2>1, <3>1, <3>3, <3>4, <3>5
  <2>2. CASE s \notin due
    <3>1. sub'[s] = sub[s]
      BY <1>1, <2>2
    <3> QED BY <3>1 DEF TypeOK
  <2> QED BY <2>1, <2>2
<1>4. sub' \in [Subs -> SubRow \cup {None}]
  <2>1. sub' = [s \in Subs |-> sub'[s]]
    BY <1>1
  <2> QED BY <1>3, <2>1
<1>5. \A s \in Subs : sub'[s] # sub[s] => s \in due
  BY <1>1
<1>6. \A s \in Subs : sub'[s] # sub[s] /\ ~disturbed' =>
        \A r \in Requests : ~(Buying(r, "read") /\ job[r].sub = s)
  <2> HIDE DEF due
  <2> QED BY <1>2, <1>5
<1> QED BY <1>3, <1>4, <1>6

\* Every variable keeps its type.
LEMMA TypeStep ==
    ASSUME SubsInv, Next
    PROVE  TypeOK'
<1> USE DEF SubsInv
<1>1. now \in 0 .. MaxTime /\ edits \in 0 .. MaxEdits /\ MaxTime \in Nat /\ MaxEdits \in Nat
  BY SubBounds DEF TypeOK
<1>2. CASE Tick
  <2>1. now' \in 0 .. MaxTime
    BY <1>1, <1>2 DEF Tick
  <2>2. UNCHANGED <<shop, books, sub, job, edits, disturbed>>
    BY <1>2 DEF Tick
  <2> QED BY <2>1, <2>2 DEF TypeOK, shop, books
<1>3. CASE ExpireDue
  <2>1. sub' \in [Subs -> SubRow \cup {None}]
    BY <1>3, ExpireRows
  <2>2. UNCHANGED <<now, shop, books, job, edits>>
    BY <1>3 DEF ExpireDue
  <2>3. disturbed' \in BOOLEAN
    BY <1>3, Zenon DEF ExpireDue
  <2> QED BY <2>1, <2>2, <2>3 DEF TypeOK, shop, books
<1>4. edits < MaxEdits /\ edits' = edits + 1 => edits' \in 0 .. MaxEdits
  BY <1>1
<1>5. CASE InvoiceStep
  <2>1. UNCHANGED <<now, shop, redeemed, balance, sub, job, disturbed>> /\ invoices' \in Seq(InvoiceRow)
    BY <1>5, InvoiceFacts
  <2>2. edits' \in 0 .. MaxEdits
    BY <1>4, <1>5, InvoiceFacts
  <2> QED BY <2>1, <2>2 DEF TypeOK, shop
<1>6. CASE PlanStep
  <2>1. /\ UNCHANGED <<now, coupon, ceiling, books, sub, job, disturbed>>
        /\ plan' \in [Plans -> PlanRow \cup {None}]
    BY <1>6, PlanFacts
  <2>2. edits' \in 0 .. MaxEdits
    BY <1>4, <1>6, PlanFacts
  <2> QED BY <2>1, <2>2 DEF TypeOK, books
<1>7. CASE CouponStep
  <2>1. /\ UNCHANGED <<now, plan, books, sub, job, disturbed>>
        /\ coupon' \in [Coupons -> CouponRow \cup {None}]
        /\ ceiling' \in [Coupons -> [max : Nat \cup {None}, perUser : Nat]]
    BY <1>7, CouponFacts
  <2>2. edits' \in 0 .. MaxEdits
    BY <1>4, <1>7, CouponFacts
  <2> QED BY <2>1, <2>2 DEF TypeOK, books
<1>8. ASSUME NEW r \in Requests, BuyStep(r) PROVE TypeOK'
  <2>1. PICK k \in PurchaseJob \cup {None} : job' = [job EXCEPT ![r] = k]
    BY <1>8, BuyJob
  <2>2. job' \in [Requests -> PurchaseJob \cup EditJob \cup {None}]
    BY <2>1 DEF TypeOK
  <2> QED BY <1>8, <2>2, BuyFrame DEF TypeOK, shop, books
<1>9. ASSUME NEW r \in Requests, LoadStep(r) PROVE TypeOK'
  <2>1. PICK k \in EditJob : job' = [job EXCEPT ![r] = k]
    BY <1>9, LoadedJob
  <2>2. job' \in [Requests -> PurchaseJob \cup EditJob \cup {None}]
    BY <2>1 DEF TypeOK
  <2>3. UNCHANGED <<now, shop, books, sub, disturbed>>
    BY <1>9, LoadedJob
  <2>4. edits' \in 0 .. MaxEdits
    BY <1>4, <1>9, LoadedJob
  <2> QED BY <2>2, <2>3, <2>4 DEF TypeOK, shop, books
<1>10. ASSUME NEW r \in Requests, WriteStep(r) PROVE TypeOK'
  <2>1. /\ disturbed' \in BOOLEAN /\ job' = [job EXCEPT ![r] = None]
        /\ UNCHANGED <<now, shop, redeemed, edits>>
        /\ balance' \in [Users -> Nat] /\ invoices' \in Seq(InvoiceRow)
    BY <1>10, WriteFacts
  <2>2. PICK s \in Subs, row \in SubRow : sub' = [sub EXCEPT ![s] = row]
    BY <1>10, WriteFacts
  <2>3. job' \in [Requests -> PurchaseJob \cup EditJob \cup {None}]
    BY <2>1 DEF TypeOK
  <2>4. sub' \in [Subs -> SubRow \cup {None}]
    BY <2>2 DEF TypeOK
  <2> QED BY <2>1, <2>3, <2>4 DEF TypeOK, shop
<1>11. ASSUME NEW r \in Requests, NEW s \in Subs, PurchaseCommit(r, s) PROVE TypeOK'
  <2>1. PICK j \in PurchaseJob, row \in SubRow, inv \in InvoiceRow : Commits(r, s, j, row, inv)
    BY <1>11, CommitRows
  <2> USE DEF Commits
  <2>2. /\ j.user \in Users /\ j.coupon \in Coupons \cup {None} /\ j.cached \in Nat /\ j.price \in Nat
        /\ j.price <= j.cached
        /\ j.coupon # None => coupon[j.coupon] # None
    BY <2>1, PurchaseFields DEF PurchaseInv
  <2>3. sub' \in [Subs -> SubRow \cup {None}] /\ invoices' \in Seq(InvoiceRow)
    BY <2>1 DEF TypeOK
  <2>4. balance' \in [Users -> Nat]
    <3>1. PICK n \in Nat : n = j.cached - j.price
      BY <2>2
    <3> QED BY <2>1, <3>1 DEF TypeOK
  <2>5. coupon' \in [Coupons -> CouponRow \cup {None}] /\ redeemed' \in [Coupons -> [Users -> Nat]]
    <3>1. CASE j.coupon = None
      BY <2>1, <3>1 DEF TypeOK
    <3>2. CASE j.coupon # None
      <4>1. PICK c \in Coupons, u \in Users : c = j.coupon /\ u = j.user /\ coupon[c] # None
        BY <2>2, <3>2
      <4>2. PICK new \in CouponRow : new = Counted(c)
        BY <4>1, CountedRow
      <4>3. coupon' = [coupon EXCEPT ![c] = new]
        BY <2>1, <3>2, <4>1, <4>2
      <4>4. PICK f \in [Users -> Nat] : f = redeemed[c]
        BY DEF TypeOK
      <4>5. PICK n \in Nat : n = f[u] + 1
        OBVIOUS
      <4>6. [f EXCEPT ![u] = n] \in [Users -> Nat]
        OBVIOUS
      <4>7. redeemed' = [redeemed EXCEPT ![c] = [f EXCEPT ![u] = n]]
        BY <2>1, <3>2, <4>1, <4>4, <4>5
      <4> QED BY <4>3, <4>6, <4>7 DEF TypeOK
    <3> QED BY <3>1, <3>2
  <2>6. job' \in [Requests -> PurchaseJob \cup EditJob \cup {None}]
    BY <2>1 DEF TypeOK
  <2> QED BY <2>1, <2>3, <2>4, <2>5, <2>6 DEF TypeOK
<1> QED BY <1>2, <1>3, <1>5, <1>6, <1>7, <1>8, <1>9, <1>10, <1>11, NextCases
-----------------------------------------------------------------------------
\* What no step takes back: ceilings rise, a subscription stays with its user, an
\* invoice keeps its user and its days, time passes, a disturbance is remembered.
Grows ==
    /\ \A c \in Coupons : /\ Within(ceiling[c].max, ceiling'[c].max)
                          /\ ceiling[c].perUser <= ceiling'[c].perUser
    /\ \A s \in Subs : sub[s] # None => sub'[s] # None /\ sub'[s].user = sub[s].user
    /\ Len(invoices) <= Len(invoices')
    /\ now <= now'
    /\ disturbed => disturbed'

LEMMA StepGrows ==
    ASSUME SubsInv, Next
    PROVE  Grows
<1> USE DEF SubsInv
<1>1. now \in Nat /\ now <= now
  BY SubBounds DEF TypeOK
<1>2. \A c \in Coupons : /\ Within(ceiling[c].max, ceiling[c].max)
                         /\ ceiling[c].perUser <= ceiling[c].perUser
  <2>1. \A c \in Coupons : ceiling[c].max \in Nat \cup {None} /\ ceiling[c].perUser \in Nat
    BY DEF TypeOK
  <2> QED BY <2>1 DEF Within
<1>3. Len(invoices) \in Nat /\ Len(invoices) <= Len(invoices)
  BY DEF TypeOK
<1>4. CASE Tick
  <2>1. now <= now'
    BY <1>1, <1>4 DEF Tick
  <2> QED BY <1>2, <1>3, <1>4, <2>1 DEF Tick, Grows, shop, books
<1>5. CASE ExpireDue
  <2>1. \A s \in Subs : sub[s] # None => sub'[s] # None /\ sub'[s].user = sub[s].user
    BY <1>5, ExpireRows
  <2>2. UNCHANGED <<now, shop, books, job, edits>> /\ (disturbed => disturbed')
    BY <1>5 DEF ExpireDue
  <2> QED BY <1>1, <1>2, <1>3, <2>1, <2>2 DEF Grows, shop, books
<1>6. CASE InvoiceStep
  <2>1. UNCHANGED <<now, shop, sub, disturbed>> /\ Len(invoices') = Len(invoices)
    BY <1>6, InvoiceFacts
  <2> QED BY <1>1, <1>2, <1>3, <2>1 DEF Grows, shop
<1>7. CASE PlanStep
  <2>1. UNCHANGED <<now, ceiling, invoices, sub, disturbed>>
    BY <1>7, PlanFacts DEF books
  <2> QED BY <1>1, <1>2, <1>3, <2>1 DEF Grows
<1>8. CASE CouponStep
  <2>1. UNCHANGED <<now, invoices, sub, disturbed>> /\ \A c \in Coupons : CouponChange(c)
    BY <1>8, CouponFacts DEF books
  <2> QED BY <1>1, <1>3, <2>1 DEF Grows, CouponChange
<1>9. ASSUME NEW r \in Requests, BuyStep(r) PROVE Grows
  <2>1. UNCHANGED <<now, ceiling, invoices, sub, disturbed>>
    BY <1>9, BuyFrame DEF shop, books
  <2> QED BY <1>1, <1>2, <1>3, <2>1 DEF Grows
<1>10. ASSUME NEW r \in Requests, LoadStep(r) PROVE Grows
  <2>1. UNCHANGED <<now, ceiling, invoices, sub, disturbed>>
    BY <1>10, LoadedJob DEF shop, books
  <2> QED BY <1>1, <1>2, <1>3, <2>1 DEF Grows
<1>11. ASSUME NEW r \in Requests, WriteStep(r) PROVE Grows
  <2>1. disturbed' = TRUE /\ UNCHANGED <<now, ceiling>> /\ Len(invoices') = Len(invoices)
    BY <1>11, WriteFacts DEF shop
  <2>2. PICK s \in Subs, row \in SubRow : sub' = [sub EXCEPT ![s] = row] /\ row.user = sub[s].user
    BY <1>11, WriteFacts
  <2>3. row # None
    BY SubNone
  <2>4. \A t \in Subs : sub[t] # None => sub'[t] # None /\ sub'[t].user = sub[t].user
    BY <2>2, <2>3 DEF TypeOK
  <2> QED BY <1>1, <1>2, <1>3, <2>1, <2>4 DEF Grows
<1>12. ASSUME NEW r \in Requests, NEW s \in Subs, PurchaseCommit(r, s) PROVE Grows
  <2>1. PICK j \in PurchaseJob, row \in SubRow, inv \in InvoiceRow : Commits(r, s, j, row, inv)
    BY <1>12, CommitRows
  <2>2. row # None /\ (sub[s] # None => row.user = sub[s].user)
    BY <2>1, SubNone DEF Commits, Bought
  <2>3. \A t \in Subs : sub[t] # None => sub'[t] # None /\ sub'[t].user = sub[t].user
    BY <2>1, <2>2 DEF Commits, TypeOK
  <2>4. Len(invoices') = Len(invoices) + 1
    BY <2>1 DEF Commits, TypeOK
  <2>5. UNCHANGED <<now, ceiling, disturbed>>
    BY <2>1 DEF Commits
  <2> QED BY <1>1, <1>2, <1>3, <2>3, <2>4, <2>5 DEF Grows
<1> QED BY <1>4, <1>5, <1>6, <1>7, <1>8, <1>9, <1>10, <1>11, <1>12, NextCases

\* A coupon that a purchase has locked stays as it is until that purchase commits.
LEMMA LockedCoupon ==
    ASSUME SubsInv, Next, NEW r \in Requests, Past(r), job'[r] = job[r],
           NEW c \in Coupons, c = job[r].coupon
    PROVE  coupon[c] # None => coupon'[c] # None /\ coupon'[c].count = coupon[c].count
<1> USE DEF SubsInv
<1>1. c # None /\ CouponLocked(c)
  BY SubNone DEF CouponLocked
<1>2. UNCHANGED coupon =>
        (coupon[c] # None => coupon'[c] # None /\ coupon'[c].count = coupon[c].count)
  OBVIOUS
<1>3. CASE CouponStep
  <2>1. CouponChange(c)
    BY <1>3, CouponFacts
  <2> QED BY <1>1, <2>1 DEF CouponChange
<1>4. ASSUME NEW q \in Requests, NEW s \in Subs, PurchaseCommit(q, s), coupon[c] # None
      PROVE  coupon'[c] # None /\ coupon'[c].count = coupon[c].count
  <2>1. PICK j \in PurchaseJob, row \in SubRow, inv \in InvoiceRow : Commits(q, s, j, row, inv)
    BY <1>4, CommitRows
  <2>2. q # r
    <3>1. job'[q] = None
      BY <2>1 DEF Commits, TypeOK
    <3> QED BY <3>1 DEF Past
  <2>3. Past(q)
    BY <2>1, PurchaseFields DEF Past, Commits
  <2>4. j.coupon # c
    BY <1>1, <2>1, <2>2, <2>3 DEF LockInv, Commits
  <2>5. coupon'[c] = coupon[c]
    BY <2>1, <2>4 DEF Commits, TypeOK
  <2> QED BY <1>4, <2>5
<1>5. ASSUME NEW q \in Requests, BuyStep(q) \/ LoadStep(q) \/ WriteStep(q) PROVE UNCHANGED coupon
  BY <1>5, BuyFrame, LoadedJob, WriteFacts DEF shop
<1>6. Tick \/ ExpireDue \/ InvoiceStep \/ PlanStep => UNCHANGED coupon
  BY InvoiceFacts, PlanFacts DEF Tick, ExpireDue, shop
<1> QED BY <1>2, <1>3, <1>4, <1>5, <1>6, NextCases
-----------------------------------------------------------------------------
LEMMA WithinTrans ==
    ASSUME NEW x \in Nat \cup {None}, NEW y \in Nat \cup {None}, NEW z \in Nat \cup {None},
           Within(x, y), Within(y, z)
    PROVE  Within(x, z)
  BY DEF Within

\* The job of a request that does not move stays right.
LEMMA JobKept ==
    ASSUME SubsInv, Next, NEW r \in Requests, job[r] # None, job'[r] = job[r]
    PROVE  JobInv(job[r])'
<1> USE DEF SubsInv
<1>1. Grows
  BY StepGrows
<1>2. CASE job[r].op # "purchase"
  <2>1. PICK j \in EditJob : j = job[r] /\ j = job'[r]
    BY <1>2, JobKinds
  <2>2. EditInv(j) /\ j.op # "purchase"
    BY <1>2, <2>1 DEF JobsInv, JobInv
  <2>3. j.sub \in Subs /\ Len(invoices) \in Nat /\ Len(invoices') \in Nat /\ j.inv \in Nat
    BY <2>1, EditFields, TypeStep DEF TypeOK
  <2>4. EditInv(j)'
    BY <1>1, <2>2, <2>3 DEF EditInv, Grows
  <2> QED BY <2>1, <2>2, <2>4 DEF JobInv
<1>3. CASE job[r].op = "purchase"
  <2>1. PICK j \in PurchaseJob : j = job[r] /\ j = job'[r]
    BY <1>3, JobKinds
  <2>2. PurchaseInv(j) /\ j.op = "purchase"
    BY <1>3, <2>1 DEF JobsInv, JobInv
  <2>3. j.coupon \in Coupons \cup {None} /\ j.sub \in Subs \cup {None} /\ j.max \in Nat \cup {None}
    BY PurchaseFields
  <2>4. j.coupon # None => Within(j.max, ceiling'[j.coupon].max)
    <3>1. ASSUME NEW c \in Coupons, c = j.coupon PROVE Within(j.max, ceiling'[c].max)
      <4>1. Within(j.max, ceiling[c].max) /\ Within(ceiling[c].max, ceiling'[c].max)
        BY <1>1, <2>2, <3>1, SubNone DEF PurchaseInv, Grows
      <4>2. ceiling[c].max \in Nat \cup {None} /\ ceiling'[c].max \in Nat \cup {None}
        BY TypeStep DEF TypeOK
      <4> QED BY <2>3, <4>1, <4>2, WithinTrans
    <3> QED BY <2>3, <3>1
  <2>5. j.step # "ordered" /\ j.coupon # None =>
         /\ coupon'[j.coupon] # None
         /\ j.max # None => coupon'[j.coupon].count < j.max
    <3>1. ASSUME j.step # "ordered", NEW c \in Coupons, c = j.coupon
          PROVE  coupon'[c] # None /\ (j.max # None => coupon'[c].count < j.max)
      <4>1. c # None /\ Past(r)
        BY <1>3, <2>1, <3>1, SubNone DEF Past
      <4>2. coupon[c] # None /\ (j.max # None => coupon[c].count < j.max)
        BY <2>2, <3>1, <4>1 DEF PurchaseInv
      <4>3. coupon'[c] # None /\ coupon'[c].count = coupon[c].count
        BY <2>1, <3>1, <4>1, <4>2, LockedCoupon
      <4> QED BY <4>2, <4>3
    <3> QED BY <2>3, <3>1
  <2>6. j.step = "read" /\ j.sub # None => sub'[j.sub] # None /\ j.row # None
    BY <1>1, <2>2, <2>3 DEF PurchaseInv, Grows
  <2>7. PurchaseInv(j)'
    BY <2>2, <2>4, <2>5, <2>6 DEF PurchaseInv
  <2> QED BY <2>1, <2>2, <2>7 DEF JobInv
<1> QED BY <1>2, <1>3

\* One that makes its next step of a purchase does.
LEMMA JobBuys ==
    ASSUME SubsInv, NEW r \in Requests, BuyStep(r), job'[r] # None
    PROVE  JobInv(job[r])'
<1> USE DEF SubsInv
<1>1. UNCHANGED <<coupon, sub, ceiling>>
  BY BuyFrame DEF shop
<1>2. job = [q \in Requests |-> job[q]]
  BY DEF TypeOK
<1>3. ASSUME NEW k \in PurchaseJob, job' = [job EXCEPT ![r] = k], PurchaseInv(k)
      PROVE  JobInv(job[r])'
  <2>1. PurchaseInv(k)'
    BY <1>1, <1>3 DEF PurchaseInv
  <2>2. job'[r] = k /\ k.op = "purchase"
    BY <1>2, <1>3, PurchaseFields
  <2> QED BY <2>1, <2>2 DEF JobInv
<1>4. ASSUME NEW j \in PurchaseJob, j = job[r] PROVE PurchaseInv(j)
  BY <1>4, PurchaseFields DEF JobsInv, JobInv
<1>5. ASSUME NEW u \in Users, NEW p \in Plans, NEW c \in Coupons \cup {None}, PurchaseLoad(r, u, p, c)
      PROVE  JobInv(job[r])'
  <2>1. PICK k \in PurchaseJob : /\ job' = [job EXCEPT ![r] = k] /\ k.step = "ordered" /\ k.coupon = c
                                 /\ c # None => coupon[c] # None /\ k.max = coupon[c].max
    BY <1>5, LoadJob
  <2>2. PurchaseInv(k)
    BY <2>1 DEF PurchaseInv, LimitInv
  <2> QED BY <1>3, <2>1, <2>2
<1>6. CASE Redeem(r)
  <2>1. PICK j \in PurchaseJob, k \in PurchaseJob :
             /\ j = job[r] /\ job' = [job EXCEPT ![r] = k] /\ SameBut(j, k, "redeemed")
             /\ j.step = "ordered" /\ j.coupon # None /\ ~CouponLocked(j.coupon)
             /\ coupon[j.coupon] # None
             /\ j.max # None => coupon[j.coupon].count < j.max
    BY <1>6, RedeemJob
  <2>2. PurchaseInv(k)
    BY <1>4, <2>1 DEF PurchaseInv, SameBut
  <2> QED BY <1>3, <2>1, <2>2
<1>7. CASE Debit(r)
  <2>1. PICK j \in PurchaseJob, k \in PurchaseJob :
             /\ j = job[r] /\ job' = [job EXCEPT ![r] = k] /\ SameBut(j, k, "debited")
             /\ j.step = IF j.coupon = None THEN "ordered" ELSE "redeemed"
             /\ 0 < j.price /\ j.price <= j.cached /\ ~UserLocked(j.user)
    BY <1>7, DebitJob
  <2>2. PurchaseInv(k)
    BY <1>4, <2>1 DEF PurchaseInv, SameBut
  <2> QED BY <1>3, <2>1, <2>2
<1>8. CASE PurchaseFails(r)
  BY <1>2, <1>8 DEF PurchaseFails
<1>9. ASSUME NEW s \in Subs \cup {None}, ReadSub(r, s) PROVE JobInv(job[r])'
  <2>1. PICK j \in PurchaseJob, k \in PurchaseJob :
             /\ j = job[r] /\ job' = [job EXCEPT ![r] = k] /\ SameBut(j, k, "read")
             /\ j.step = "debited" /\ s \in ActiveSub(j.user)
             /\ k.sub = s /\ k.at = now /\ (s # None => sub[s] # None /\ k.row = sub[s])
    BY <1>9, ReadJob
  <2>2. PurchaseInv(k)
    BY <1>4, <2>1 DEF PurchaseInv, SameBut
  <2> QED BY <1>3, <2>1, <2>2
<1> QED BY <1>5, <1>6, <1>7, <1>8, <1>9 DEF BuyStep

LEMMA JobsStep ==
    ASSUME SubsInv, Next
    PROVE  JobsInv'
<1> USE DEF SubsInv
<1> SUFFICES ASSUME NEW r \in Requests, job'[r] # None PROVE JobInv(job[r])'
  BY DEF JobsInv
<1>1. CASE job'[r] = job[r]
  BY <1>1, JobKept
<1>2. CASE job'[r] # job[r]
  <2>1. ASSUME NEW q \in Requests, NEW k, job' = [job EXCEPT ![q] = k] PROVE q = r /\ k = job'[r]
    BY <1>2, <2>1 DEF TypeOK
  <2>2. ASSUME NEW q \in Requests, BuyStep(q) PROVE JobInv(job[r])'
    <3>1. q = r
      BY <2>1, <2>2, BuyJob
    <3> QED BY <2>2, <3>1, JobBuys
  <2>3. ASSUME NEW q \in Requests, LoadStep(q) PROVE JobInv(job[r])'
    <3>1. PICK k \in EditJob : /\ job' = [job EXCEPT ![q] = k] /\ sub[k.sub] # None
                               /\ k.op = "refund" => k.inv \in 1 .. Len(invoices)
      BY <2>3, LoadedJob
    <3>2. k = job'[r] /\ k.op # "purchase" /\ EditInv(k)
      BY <2>1, <3>1, EditFields DEF EditInv
    <3>3. UNCHANGED <<sub, invoices>>
      BY <2>3, LoadedJob DEF books
    <3>4. EditInv(k)'
      BY <3>2, <3>3 DEF EditInv
    <3> QED BY <3>2, <3>4 DEF JobInv
  <2>4. ASSUME NEW q \in Requests, WriteStep(q) PROVE FALSE
    <3>1. job' = [job EXCEPT ![q] = None]
      BY <2>4, WriteFacts
    <3> QED BY <2>1, <3>1
  <2>5. ASSUME NEW q \in Requests, NEW s \in Subs, PurchaseCommit(q, s) PROVE FALSE
    <3>1. job' = [job EXCEPT ![q] = None]
      BY <2>5 DEF PurchaseCommit
    <3> QED BY <2>1, <3>1
  <2>6. Tick \/ ExpireDue \/ InvoiceStep \/ PlanStep \/ CouponStep => UNCHANGED job
    BY InvoiceFacts, PlanFacts, CouponFacts DEF Tick, ExpireDue
  <2> QED BY <1>2, <2>2, <2>3, <2>4, <2>5, <2>6, NextCases
<1> QED BY <1>1, <1>2
-----------------------------------------------------------------------------
\* A request takes a lock only when no other holds it.
LEMMA LockKept ==
    ASSUME SubsInv, NEW r \in Requests, NEW k, job' = [job EXCEPT ![r] = k],
           k # None /\ k.op = "purchase" /\ k.step # "ordered" /\ k.coupon # None =>
             ~CouponLocked(k.coupon) \/ (Past(r) /\ job[r].coupon = k.coupon),
           k # None /\ k.op = "purchase" /\ k.step \in {"debited", "read"} =>
             ~UserLocked(k.user) \/ (Charging(r) /\ job[r].user = k.user)
    PROVE  LockInv'
<1> USE DEF SubsInv
<1>1. job'[r] = k /\ \A q \in Requests : q # r => job'[q] = job[q]
  BY DEF TypeOK
<1>2. ASSUME NEW q \in Requests, q # r, Past(q), Past(r)', job'[r].coupon # None \/ job[q].coupon # None
      PROVE  job'[r].coupon # job[q].coupon
  <2>1. CASE job'[r].coupon = None
    BY <1>2, <2>1
  <2>2. CASE job'[r].coupon # None
    <3>1. ~CouponLocked(k.coupon) \/ (Past(r) /\ job[r].coupon = k.coupon)
      BY <1>1, <1>2, <2>2 DEF Past
    <3>2. CASE ~CouponLocked(k.coupon)
      BY <1>1, <1>2, <3>2 DEF CouponLocked
    <3>3. CASE Past(r) /\ job[r].coupon = k.coupon
      BY <1>1, <1>2, <2>2, <3>3 DEF LockInv
    <3> QED BY <3>1, <3>2, <3>3
  <2> QED BY <2>1, <2>2
<1>3. ASSUME NEW q \in Requests, q # r, Charging(q), Charging(r)'
      PROVE  job'[r].user # job[q].user
  <2>1. ~UserLocked(k.user) \/ (Charging(r) /\ job[r].user = k.user)
    BY <1>1, <1>3 DEF Charging, Purchase
  <2>2. Past(q) /\ job[q].step \in {"debited", "read"}
    BY <1>3 DEF Charging, Purchase, Past
  <2>3. CASE ~UserLocked(k.user)
    BY <1>1, <2>2, <2>3 DEF UserLocked
  <2>4. CASE Charging(r) /\ job[r].user = k.user
    BY <1>1, <1>3, <2>4 DEF LockInv
  <2> QED BY <2>1, <2>3, <2>4
<1>4. \A q \in Requests : q # r => /\ Past(q)' = Past(q) /\ Charging(q)' = Charging(q)
                                   /\ job'[q] = job[q]
  BY <1>1 DEF Past, Charging, Purchase
<1> SUFFICES ASSUME NEW p \in Requests, NEW q \in Requests, p # q
             PROVE  /\ Past(p)' /\ Past(q)' /\ job'[p].coupon # None =>
                         job'[p].coupon # job'[q].coupon
                    /\ Charging(p)' /\ Charging(q)' => job'[p].user # job'[q].user
  BY DEF LockInv
<1>5. CASE p = r
  BY <1>2, <1>3, <1>4, <1>5
<1>6. CASE q = r
  BY <1>2, <1>3, <1>4, <1>6
<1>7. CASE p # r /\ q # r
  BY <1>4, <1>7 DEF LockInv
<1> QED BY <1>5, <1>6, <1>7

LEMMA LockStep ==
    ASSUME SubsInv, Next
    PROVE  LockInv'
<1> USE DEF SubsInv
<1>1. ASSUME NEW r \in Requests, BuyStep(r) PROVE LockInv'
  <2>1. ASSUME NEW j \in PurchaseJob, j = job[r], j.step # "ordered" PROVE Past(r)
    BY <2>1, PurchaseFields DEF Past
  <2>2. ASSUME NEW u \in Users, NEW p \in Plans, NEW c \in Coupons \cup {None}, PurchaseLoad(r, u, p, c)
        PROVE  LockInv'
    <3>1. PICK k \in PurchaseJob : job' = [job EXCEPT ![r] = k] /\ k.step = "ordered"
      BY <2>2, LoadJob
    <3> QED BY <3>1, LockKept
  <2>3. CASE Redeem(r)
    <3>1. PICK j \in PurchaseJob, k \in PurchaseJob :
             /\ j = job[r] /\ job' = [job EXCEPT ![r] = k] /\ SameBut(j, k, "redeemed")
             /\ ~CouponLocked(j.coupon)
      BY <2>3, RedeemJob
    <3>2. k.step = "redeemed" /\ k.coupon = j.coupon
      BY <3>1 DEF SameBut
    <3> QED BY <3>1, <3>2, LockKept
  <2>4. CASE Debit(r)
    <3>1. PICK j \in PurchaseJob, k \in PurchaseJob :
             /\ j = job[r] /\ job' = [job EXCEPT ![r] = k] /\ SameBut(j, k, "debited")
             /\ j.step = IF j.coupon = None THEN "ordered" ELSE "redeemed"
             /\ ~UserLocked(j.user)
      BY <2>4, DebitJob
    <3>2. k.step = "debited" /\ k.coupon = j.coupon /\ k.user = j.user
      BY <3>1 DEF SameBut
    <3>3. k.coupon # None => Past(r) /\ job[r].coupon = k.coupon
      BY <2>1, <3>1, <3>2
    <3> QED BY <3>1, <3>2, <3>3, LockKept
  <2>5. CASE PurchaseFails(r)
    BY <2>5, LockKept DEF PurchaseFails
  <2>6. ASSUME NEW s \in Subs \cup {None}, ReadSub(r, s) PROVE LockInv'
    <3>1. PICK j \in PurchaseJob, k \in PurchaseJob :
             /\ j = job[r] /\ job' = [job EXCEPT ![r] = k] /\ SameBut(j, k, "read")
             /\ j.step = "debited"
      BY <2>6, ReadJob
    <3>2. k.step = "read" /\ k.coupon = j.coupon /\ k.user = j.user
      BY <3>1 DEF SameBut
    <3>3. Past(r) /\ Charging(r)
      BY <2>1, <3>1 DEF Past, Charging, Purchase
    <3> QED BY <3>1, <3>2, <3>3, LockKept
  <2> QED BY <1>1, <2>2, <2>3, <2>4, <2>5, <2>6 DEF BuyStep
<1>2. ASSUME NEW r \in Requests, LoadStep(r) PROVE LockInv'
  <2>1. PICK k \in EditJob : job' = [job EXCEPT ![r] = k]
    BY <1>2, LoadedJob
  <2> QED BY <2>1, EditFields, LockKept
<1>3. ASSUME NEW r \in Requests, WriteStep(r) PROVE LockInv'
  BY <1>3, WriteFacts, LockKept
<1>4. ASSUME NEW r \in Requests, NEW s \in Subs, PurchaseCommit(r, s) PROVE LockInv'
  <2>1. job' = [job EXCEPT ![r] = None]
    BY <1>4 DEF PurchaseCommit
  <2> QED BY <2>1, LockKept
<1>5. UNCHANGED job => LockInv'
  BY DEF LockInv, Past, Charging, Purchase
<1>6. Tick \/ ExpireDue \/ InvoiceStep \/ PlanStep \/ CouponStep => UNCHANGED job
  BY InvoiceFacts, PlanFacts, CouponFacts DEF Tick, ExpireDue
<1> QED BY <1>1, <1>2, <1>3, <1>4, <1>5, <1>6, NextCases
-----------------------------------------------------------------------------
\* What the books say of a coupon changes in two ways only.
LEMMA BooksStep ==
    ASSUME SubsInv, Next
    PROVE  \/ /\ UNCHANGED redeemed /\ Len(invoices') = Len(invoices)
              /\ \A c \in Coupons : CouponChange(c)
           \/ \E r \in Requests, s \in Subs : PurchaseCommit(r, s)
<1> USE DEF SubsInv
<1>1. Grows
  BY StepGrows
<1>2. UNCHANGED <<coupon, ceiling>> => \A c \in Coupons : CouponChange(c)
  BY <1>1 DEF CouponChange, Grows, LimitInv
<1>3. CASE CouponStep
  BY <1>3, CouponFacts DEF books
<1>4. Tick \/ ExpireDue \/ PlanStep => UNCHANGED <<coupon, ceiling, redeemed, invoices>>
  BY PlanFacts DEF Tick, ExpireDue, shop, books
<1>5. ASSUME NEW r \in Requests, BuyStep(r) \/ LoadStep(r)
      PROVE  UNCHANGED <<coupon, ceiling, redeemed, invoices>>
  BY <1>5, BuyFrame, LoadedJob DEF shop, books
<1>6. ASSUME NEW r \in Requests, WriteStep(r)
      PROVE  UNCHANGED <<coupon, ceiling, redeemed>> /\ Len(invoices') = Len(invoices)
  BY <1>6, WriteFacts DEF shop
<1>7. CASE InvoiceStep
  BY <1>2, <1>7, InvoiceFacts DEF shop
<1> QED BY <1>2, <1>3, <1>4, <1>5, <1>6, <1>7, NextCases

\* A commit counts one redemption, of the coupon and the user of the purchase.
LEMMA CommitCounts ==
    ASSUME SubsInv, NEW r \in Requests, NEW s \in Subs, PurchaseCommit(r, s)
    PROVE  /\ ceiling' = ceiling /\ Len(invoices') = Len(invoices) + 1
           /\ \A c \in Coupons :
                \/ /\ coupon'[c] = coupon[c] /\ redeemed'[c] = redeemed[c]
                   /\ job[r].coupon # c
                \/ \E u \in Users :
                     /\ job[r].coupon = c /\ job[r].user = u /\ coupon[c] # None
                     /\ coupon'[c] = Counted(c)
                     /\ \A v \in Users : redeemed'[c][v] =
                          IF v = u THEN redeemed[c][v] + 1 ELSE redeemed[c][v]
                     /\ ceiling[c].max # None => coupon[c].count < ceiling[c].max
<1> USE DEF SubsInv
<1>1. PICK j \in PurchaseJob, row \in SubRow, inv \in InvoiceRow : Commits(r, s, j, row, inv)
  BY CommitRows
<1>2. ceiling' = ceiling /\ Len(invoices') = Len(invoices) + 1
  BY <1>1 DEF Commits, TypeOK
<1>3. /\ j.coupon \in Coupons \cup {None} /\ j.user \in Users /\ j = job[r]
      /\ j.max \in Nat \cup {None}
  BY <1>1, PurchaseFields DEF Commits
<1>4. ASSUME NEW c \in Coupons, c # j.coupon
      PROVE  coupon'[c] = coupon[c] /\ redeemed'[c] = redeemed[c]
  BY <1>1, <1>4 DEF Commits, TypeOK
<1>5. ASSUME NEW c \in Coupons, c = j.coupon
      PROVE  /\ coupon[c] # None /\ coupon'[c] = Counted(c)
             /\ \A v \in Users : redeemed'[c][v] =
                  IF v = j.user THEN redeemed[c][v] + 1 ELSE redeemed[c][v]
             /\ ceiling[c].max # None => coupon[c].count < ceiling[c].max
  <2>1. /\ c # None /\ coupon[c] # None
        /\ j.max # None => coupon[c].count < j.max
        /\ Within(j.max, ceiling[c].max)
    BY <1>1, <1>5, SubNone DEF Commits, PurchaseInv
  <2>2. coupon[c].count \in Nat /\ ceiling[c].max \in Nat \cup {None}
    BY <2>1 DEF TypeOK, CouponRow
  <2>3. ceiling[c].max # None => coupon[c].count < ceiling[c].max
    BY <1>3, <2>1, <2>2 DEF Within
  <2>4. /\ coupon' = [coupon EXCEPT ![c] = Counted(c)]
        /\ redeemed' = [redeemed EXCEPT ![c][j.user] = @ + 1]
    BY <1>1, <1>5, <2>1 DEF Commits
  <2> QED BY <1>3, <2>1, <2>3, <2>4 DEF TypeOK
<1> QED BY <1>2, <1>3, <1>4, <1>5

LEMMA LimitStep ==
    ASSUME SubsInv, Next
    PROVE  LimitInv' /\ CouponWithinLimit'
<1> USE DEF SubsInv
<1>1. \A c \in Coupons, u \in Users : redeemed[c][u] \in Nat
  BY DEF TypeOK
<1>2. \A c \in Coupons : /\ coupon[c] # None => coupon[c].count \in Nat
                         /\ coupon'[c] # None => coupon'[c].count \in Nat
                         /\ ceiling[c].max \in Nat \cup {None} /\ ceiling'[c].max \in Nat \cup {None}
  BY TypeStep DEF TypeOK, CouponRow
<1>3. ASSUME UNCHANGED redeemed, Len(invoices') = Len(invoices), \A c \in Coupons : CouponChange(c)
      PROVE  LimitInv' /\ CouponWithinLimit'
  <2>1. ASSUME NEW c \in Coupons, coupon'[c] # None
        PROVE  Within(coupon'[c].max, ceiling'[c].max) /\ coupon'[c].perUser <= ceiling'[c].perUser
    BY <1>3, <2>1 DEF CouponChange
  <2>2. ASSUME NEW c \in Coupons, NEW u \in Users
        PROVE  redeemed'[c][u] <= Len(invoices') /\ (coupon'[c] = None => redeemed'[c][u] = 0)
    BY <1>3 DEF CouponChange, LimitInv
  <2>3. ASSUME NEW c \in Coupons, coupon'[c] # None, ceiling'[c].max # None
        PROVE  coupon'[c].count <= ceiling'[c].max
    <3>1. CouponChange(c)
      BY <1>3
    <3>2. ceiling[c].max # None /\ ceiling[c].max <= ceiling'[c].max
      BY <2>3, <3>1 DEF CouponChange, Within
    <3>3. coupon'[c].count = 0 \/ (coupon[c] # None /\ coupon'[c].count = coupon[c].count)
      BY <2>3, <3>1 DEF CouponChange
    <3>4. coupon[c] # None => coupon[c].count <= ceiling[c].max
      BY <3>2 DEF CouponWithinLimit
    <3> QED BY <1>2, <2>3, <3>2, <3>3, <3>4
  <2> QED BY <2>1, <2>2, <2>3 DEF LimitInv, CouponWithinLimit
<1>4. ASSUME NEW r \in Requests, NEW s \in Subs, PurchaseCommit(r, s)
      PROVE  LimitInv' /\ CouponWithinLimit'
  <2>1. ceiling' = ceiling /\ Len(invoices') = Len(invoices) + 1 /\ Len(invoices) \in Nat
    BY <1>4, CommitCounts DEF TypeOK
  <2>2. ASSUME NEW c \in Coupons
        PROVE  /\ coupon'[c] # None => /\ Within(coupon'[c].max, ceiling'[c].max)
                                       /\ coupon'[c].perUser <= ceiling'[c].perUser
                                       /\ ceiling'[c].max # None => coupon'[c].count <= ceiling'[c].max
               /\ \A u \in Users : /\ redeemed'[c][u] <= Len(invoices')
                                   /\ coupon'[c] = None => redeemed'[c][u] = 0
    <3>1. CASE coupon'[c] = coupon[c] /\ redeemed'[c] = redeemed[c]
      BY <1>1, <2>1, <3>1 DEF LimitInv, CouponWithinLimit
    <3>2. CASE ~(coupon'[c] = coupon[c] /\ redeemed'[c] = redeemed[c])
      <4>1. PICK u \in Users :
                     /\ coupon[c] # None /\ coupon'[c] = Counted(c)
                     /\ \A v \in Users : redeemed'[c][v] =
                          IF v = u THEN redeemed[c][v] + 1 ELSE redeemed[c][v]
                     /\ ceiling[c].max # None => coupon[c].count < ceiling[c].max
        BY <1>4, <3>2, CommitCounts
      <4>2. /\ coupon'[c] # None /\ coupon'[c].count = coupon[c].count + 1
            /\ coupon'[c].max = coupon[c].max /\ coupon'[c].perUser = coupon[c].perUser
        BY <4>1, CountedRow
      <4>3. ceiling'[c].max # None => coupon'[c].count <= ceiling'[c].max
        BY <1>2, <2>1, <4>1, <4>2
      <4>4. \A v \in Users : redeemed'[c][v] <= Len(invoices')
        BY <1>1, <2>1, <4>1 DEF LimitInv
      <4>5. Within(coupon'[c].max, ceiling'[c].max) /\ coupon'[c].perUser <= ceiling'[c].perUser
        BY <2>1, <4>1, <4>2 DEF LimitInv
      <4> QED BY <4>2, <4>3, <4>4, <4>5
    <3> QED BY <3>1, <3>2
  <2> QED BY <2>2 DEF LimitInv, CouponWithinLimit
<1> QED BY <1>3, <1>4, BooksStep
-----------------------------------------------------------------------------
\* The redemptions counted with f, when n invoices bound them.
Counts(f, n) == {x \in Users \X (1 .. n) : x[2] <= f[x[1]]}

LEMMA CountsFinite ==
    ASSUME NEW f, NEW n \in Nat
    PROVE  IsFiniteSet(Counts(f, n)) /\ Cardinality(Counts(f, n)) \in Nat
<1>1. IsFiniteSet(Users \X (1 .. n))
  <2>1. IsFiniteSet(1 .. n)
    BY FS_Interval
  <2>2. IsFiniteSet(Users)
    BY SubSets
  <2> QED BY <2>1, <2>2, FS_Product
<1>2. Counts(f, n) \subseteq Users \X (1 .. n)
  BY DEF Counts
<1> QED BY <1>1, <1>2, FS_Subset, FS_CardinalityType

\* One more redemption is one more of them.
LEMMA CountOneMore ==
    ASSUME NEW n \in Nat, NEW f \in [Users -> Nat], \A v \in Users : f[v] <= n,
           NEW g, NEW u \in Users,
           \A v \in Users : g[v] = IF v = u THEN f[v] + 1 ELSE f[v]
    PROVE  Cardinality(Counts(g, n + 1)) = Cardinality(Counts(f, n)) + 1
<1>1. PICK m \in 1 .. n + 1 : m = f[u] + 1
  OBVIOUS
<1>2. Counts(g, n + 1) = Counts(f, n) \cup {<<u, m>>}
  <2>1. ASSUME NEW v \in Users, NEW k \in 1 .. n + 1
        PROVE  k <= g[v] <=> (k \in 1 .. n /\ k <= f[v]) \/ (v = u /\ k = m)
    BY <1>1
  <2>2. \A x \in Users \X (1 .. n + 1) : /\ x[1] \in Users /\ x[2] \in 1 .. n + 1
                                         /\ x = <<x[1], x[2]>>
    OBVIOUS
  <2>3. Users \X (1 .. n) \subseteq Users \X (1 .. n + 1)
    OBVIOUS
  <2>4. <<u, m>> \in Users \X (1 .. n + 1)
    OBVIOUS
  <2>5. ASSUME NEW x \in Users \X (1 .. n + 1)
        PROVE  x \in Counts(g, n + 1) <=> x \in Counts(f, n) \/ x = <<u, m>>
    <3>1. PICK v \in Users, k \in 1 .. n + 1 : x = <<v, k>> /\ x[1] = v /\ x[2] = k
      BY <2>2
    <3>2. x \in Counts(g, n + 1) <=> k <= g[v]
      BY <3>1 DEF Counts
    <3>3. x \in Counts(f, n) <=> k \in 1 .. n /\ k <= f[v]
      BY <3>1 DEF Counts
    <3>4. x = <<u, m>> <=> v = u /\ k = m
      BY <3>1
    <3> QED BY <2>1, <3>2, <3>3, <3>4
  <2>6. Counts(g, n + 1) \subseteq Users \X (1 .. n + 1) /\ Counts(f, n) \subseteq Users \X (1 .. n)
    BY DEF Counts
  <2> QED BY <2>3, <2>4, <2>5, <2>6
<1>3. <<u, m>> \notin Counts(f, n)
  BY <1>1 DEF Counts
<1> QED BY <1>2, <1>3, CountsFinite, FS_AddElement

\* A larger bound adds none.
LEMMA CountsKept ==
    ASSUME NEW n \in Nat, NEW f \in [Users -> Nat], \A v \in Users : f[v] <= n
    PROVE  Counts(f, n + 1) = Counts(f, n)
<1>1. \A v \in Users, k \in 1 .. n + 1 : k <= f[v] => k \in 1 .. n
  OBVIOUS
<1>2. \A x \in Users \X (1 .. n + 1) : x[1] \in Users /\ x[2] \in 1 .. n + 1 /\ x = <<x[1], x[2]>>
  OBVIOUS
<1>3. Users \X (1 .. n) \subseteq Users \X (1 .. n + 1)
  OBVIOUS
<1>4. ASSUME NEW x \in Users \X (1 .. n + 1), x[2] <= f[x[1]] PROVE x \in Users \X (1 .. n)
  <2>1. PICK v \in Users, k \in 1 .. n : x = <<v, k>>
    BY <1>1, <1>2, <1>4
  <2> QED BY <2>1
<1> QED BY <1>3, <1>4 DEF Counts

LEMMA CountStep ==
    ASSUME SubsInv, Next
    PROVE  CountIsRedemptions'
<1> USE DEF SubsInv
<1> DEFINE n == Len(invoices)
           kept(c) == IF coupon[c] = None THEN 0 ELSE coupon[c].count
<1>1. n \in Nat /\ redeemed = [c \in Coupons |-> redeemed[c]]
      /\ \A c \in Coupons : redeemed[c] \in [Users -> Nat]
  BY DEF TypeOK
<1>2. \A c \in Coupons : Cardinality(Counts(redeemed[c], n)) = kept(c)
  BY DEF CountIsRedemptions, Counts
<1>3. \A c \in Coupons, u \in Users : redeemed[c][u] <= n
  BY DEF LimitInv
<1> SUFFICES ASSUME NEW c \in Coupons
             PROVE  Cardinality(Counts(redeemed'[c], Len(invoices'))) = kept(c)'
  BY DEF CountIsRedemptions, Counts
<1>4. CASE UNCHANGED redeemed /\ Len(invoices') = Len(invoices) /\ CouponChange(c)
  <2>1. kept(c)' = kept(c)
    BY <1>4 DEF CouponChange
  <2> QED BY <1>2, <1>4, <2>1
<1>5. ASSUME NEW r \in Requests, NEW s \in Subs, PurchaseCommit(r, s)
      PROVE  Cardinality(Counts(redeemed'[c], Len(invoices'))) = kept(c)'
  <2>1. Len(invoices') = n + 1
    BY <1>5, CommitCounts
  <2>2. CASE coupon'[c] = coupon[c] /\ redeemed'[c] = redeemed[c]
    <3>1. Counts(redeemed[c], n + 1) = Counts(redeemed[c], n)
      BY <1>1, <1>3, CountsKept
    <3> QED BY <1>2, <2>1, <2>2, <3>1
  <2>3. CASE ~(coupon'[c] = coupon[c] /\ redeemed'[c] = redeemed[c])
    <3>1. PICK u \in Users :
                     /\ coupon[c] # None /\ coupon'[c] = Counted(c)
                     /\ \A v \in Users : redeemed'[c][v] =
                          IF v = u THEN redeemed[c][v] + 1 ELSE redeemed[c][v]
      BY <1>5, <2>3, CommitCounts
    <3>2. kept(c)' = kept(c) + 1
      BY <3>1, CountedRow
    <3>3. Cardinality(Counts(redeemed'[c], n + 1)) = Cardinality(Counts(redeemed[c], n)) + 1
      BY <1>1, <1>3, <3>1, CountOneMore
    <3> QED BY <1>2, <2>1, <3>2, <3>3
  <2> QED BY <2>2, <2>3
<1> QED BY <1>4, <1>5, BooksStep
-----------------------------------------------------------------------------
LEMMA PendingFinite ==
    /\ IsFiniteSet(Requests) /\ Cardinality(Requests) \in Nat
    /\ \A S \in SUBSET Requests : /\ IsFiniteSet(S) /\ Cardinality(S) \in Nat
                                  /\ Cardinality(S) <= Cardinality(Requests)
<1>1. IsFiniteSet(Requests)
  BY SubSets
<1> QED BY <1>1, FS_Subset, FS_CardinalityType

\* Fewer purchases under way, and a ceiling that does not fall.
LEMMA PendingShrinks ==
    ASSUME TypeOK, TypeOK', OvershootInv, NEW c \in Coupons, NEW u \in Users,
           Pending(c, u)' \subseteq Pending(c, u), redeemed'[c][u] = redeemed[c][u],
           ceiling[c].perUser <= ceiling'[c].perUser,
           redeemed'[c][u] > 0 \/ Pending(c, u)' # {}
    PROVE  redeemed'[c][u] + Cardinality(Pending(c, u)')
             < ceiling'[c].perUser + Cardinality(Requests)
<1>1. PICK S \in SUBSET Requests, T \in SUBSET Requests : S = Pending(c, u) /\ T = Pending(c, u)'
  BY DEF Pending
<1>2. Cardinality(T) <= Cardinality(S)
  BY <1>1, PendingFinite, FS_Subset
<1>3. redeemed[c][u] \in Nat /\ ceiling[c].perUser \in Nat /\ ceiling'[c].perUser \in Nat
  BY DEF TypeOK
<1>4. redeemed[c][u] > 0 \/ S # {}
  BY <1>1
<1>5. redeemed[c][u] + Cardinality(S) < ceiling[c].perUser + Cardinality(Requests)
  BY <1>1, <1>4 DEF OvershootInv
<1> HIDE DEF Pending
<1>6. Cardinality(S) \in Nat /\ Cardinality(T) \in Nat /\ Cardinality(Requests) \in Nat
  BY PendingFinite
<1> QED BY <1>1, <1>2, <1>3, <1>5, <1>6

\* The steps of requests that take no other coupon, and those of no request.
LEMMA PendingKept ==
    ASSUME TypeOK, NEW r \in Requests, NEW k, job' = [job EXCEPT ![r] = k],
           NEW c \in Coupons, NEW u \in Users,
           k # None /\ k.op = "purchase" /\ k.coupon = c /\ k.user = u => r \in Pending(c, u)
    PROVE  Pending(c, u)' \subseteq Pending(c, u)
<1>1. job'[r] = k /\ \A q \in Requests : q # r => job'[q] = job[q]
  BY DEF TypeOK
<1>2. ASSUME NEW q \in Requests, Purchase(q)', job'[q].coupon = c, job'[q].user = u
      PROVE  q \in Pending(c, u)
  <2>1. CASE q = r
    BY <1>1, <1>2, <2>1 DEF Purchase
  <2>2. CASE q # r
    BY <1>1, <1>2, <2>2 DEF Purchase, Pending
  <2> QED BY <2>1, <2>2
<1> QED BY <1>2 DEF Pending

LEMMA OvershootStep ==
    ASSUME SubsInv, Next
    PROVE  OvershootInv'
<1> USE DEF SubsInv
<1>1. TypeOK' /\ Grows
  BY TypeStep, StepGrows
<1> SUFFICES ASSUME NEW c \in Coupons, NEW u \in Users,
                    redeemed'[c][u] > 0 \/ Pending(c, u)' # {}
             PROVE  redeemed'[c][u] + Cardinality(Pending(c, u)')
                      < ceiling'[c].perUser + Cardinality(Requests)
  BY DEF OvershootInv
<1>2. ASSUME Pending(c, u)' \subseteq Pending(c, u), redeemed'[c][u] = redeemed[c][u]
      PROVE  redeemed'[c][u] + Cardinality(Pending(c, u)')
               < ceiling'[c].perUser + Cardinality(Requests)
  BY <1>1, <1>2, PendingShrinks DEF Grows
<1>3. UNCHANGED job => Pending(c, u)' \subseteq Pending(c, u)
  BY DEF Pending, Purchase
<1>4. Tick \/ ExpireDue \/ InvoiceStep \/ PlanStep \/ CouponStep => UNCHANGED <<job, redeemed>>
  BY InvoiceFacts, PlanFacts, CouponFacts DEF Tick, ExpireDue, books
<1>5. ASSUME NEW r \in Requests, NEW j \in PurchaseJob, j = job[r], j.coupon = c, j.user = u
      PROVE  r \in Pending(c, u)
  BY <1>5, PurchaseFields DEF Pending, Purchase
<1>6. ASSUME NEW r \in Requests, BuyStep(r)
      PROVE  redeemed'[c][u] + Cardinality(Pending(c, u)')
               < ceiling'[c].perUser + Cardinality(Requests)
  <2>1. redeemed' = redeemed /\ ceiling' = ceiling
    BY <1>6, BuyFrame DEF books, shop
  <2>2. ASSUME NEW j \in PurchaseJob, NEW k \in PurchaseJob, NEW step, j = job[r],
               job' = [job EXCEPT ![r] = k], SameBut(j, k, step)
        PROVE  Pending(c, u)' \subseteq Pending(c, u)
    BY <1>5, <2>2, PendingKept, ZenonT(40) DEF SameBut
  <2>3. CASE Redeem(r)
    BY <1>2, <2>1, <2>2, <2>3, RedeemJob
  <2>4. CASE Debit(r)
    BY <1>2, <2>1, <2>2, <2>4, DebitJob
  <2>5. ASSUME NEW s \in Subs \cup {None}, ReadSub(r, s)
        PROVE  Pending(c, u)' \subseteq Pending(c, u)
    BY <2>2, <2>5, ReadJob
  <2>6. CASE PurchaseFails(r)
    BY <1>2, <2>1, <2>6, PendingKept DEF PurchaseFails
  <2>7. ASSUME NEW v \in Users, NEW p \in Plans, NEW d \in Coupons \cup {None},
               PurchaseLoad(r, v, p, d)
        PROVE  redeemed'[c][u] + Cardinality(Pending(c, u)')
                 < ceiling'[c].perUser + Cardinality(Requests)
    <3>1. PICK k \in PurchaseJob :
             /\ job' = [job EXCEPT ![r] = k] /\ job[r] = None
             /\ k.step = "ordered" /\ k.user = v /\ k.coupon = d
             /\ d # None => /\ coupon[d] # None /\ k.max = coupon[d].max
                            /\ redeemed[d][v] < coupon[d].perUser
      BY <2>7, LoadJob
    <3>2. CASE c = d /\ u = v
      <4>1. c # None
        BY SubNone
      <4>2. redeemed[c][u] < coupon[c].perUser /\ coupon[c].perUser <= ceiling[c].perUser
        BY <3>1, <3>2, <4>1 DEF LimitInv
      <4>3. coupon[c].perUser \in Nat /\ ceiling[c].perUser \in Nat /\ redeemed[c][u] \in Nat
        BY <3>1, <3>2, <4>1 DEF TypeOK, CouponRow
      <4>4. PICK T \in SUBSET Requests : T = Pending(c, u)'
        BY DEF Pending
      <4>5. Cardinality(T) \in Nat /\ Cardinality(Requests) \in Nat
            /\ Cardinality(T) <= Cardinality(Requests)
        BY PendingFinite
      <4> QED BY <2>1, <4>2, <4>3, <4>4, <4>5
    <3>3. CASE ~(c = d /\ u = v)
      <4>1. Pending(c, u)' \subseteq Pending(c, u)
        BY <3>1, <3>3, PendingKept
      <4> QED BY <1>2, <2>1, <4>1
    <3> QED BY <3>2, <3>3
  <2> QED BY <1>2, <1>6, <2>1, <2>3, <2>4, <2>5, <2>6, <2>7 DEF BuyStep
<1>7. ASSUME NEW r \in Requests, LoadStep(r) \/ WriteStep(r)
      PROVE  Pending(c, u)' \subseteq Pending(c, u) /\ redeemed' = redeemed
  <2>1. CASE LoadStep(r)
    <3>1. PICK k \in EditJob : job' = [job EXCEPT ![r] = k]
      BY <2>1, LoadedJob
    <3>2. k.op # "purchase"
      BY EditFields
    <3> QED BY <2>1, <3>1, <3>2, PendingKept, LoadedJob DEF books
  <2>2. CASE WriteStep(r)
    BY <2>2, PendingKept, WriteFacts
  <2> QED BY <1>7, <2>1, <2>2
<1>8. ASSUME NEW r \in Requests, NEW s \in Subs, PurchaseCommit(r, s)
      PROVE  redeemed'[c][u] + Cardinality(Pending(c, u)')
               < ceiling'[c].perUser + Cardinality(Requests)
  <2>1. PICK j \in PurchaseJob : j = job[r] /\ job' = [job EXCEPT ![r] = None] /\ ceiling' = ceiling
    BY <1>8, CommitRows DEF Commits
  <2>2. Pending(c, u)' \subseteq Pending(c, u)
    BY <2>1, PendingKept
  <2>3. CASE redeemed'[c][u] = redeemed[c][u]
    BY <1>2, <2>2, <2>3
  <2>4. CASE redeemed'[c][u] # redeemed[c][u]
    <3>1. /\ j.coupon = c /\ j.user = u
          /\ redeemed'[c][u] = redeemed[c][u] + 1
      BY <1>8, <2>1, <2>4, CommitCounts
    <3>2. r \in Pending(c, u)
      BY <1>5, <2>1, <3>1
    <3>3. r \notin Pending(c, u)'
      <4>1. job'[r] = None
        BY <2>1 DEF TypeOK
      <4> QED BY <4>1 DEF Pending, Purchase
    <3>4. PICK S \in SUBSET Requests, T \in SUBSET Requests : S = Pending(c, u) /\ T = Pending(c, u)'
      BY DEF Pending
    <3>5. T \subseteq S \ {r} /\ r \in S
      BY <2>2, <3>2, <3>3, <3>4
    <3>6. Cardinality(T) <= Cardinality(S \ {r}) /\ Cardinality(S \ {r}) = Cardinality(S) - 1
      BY <3>5, PendingFinite, FS_Subset, FS_RemoveElement
    <3>7. redeemed[c][u] + Cardinality(S) < ceiling[c].perUser + Cardinality(Requests)
      BY <3>2, <3>4 DEF OvershootInv
    <3>8. /\ Cardinality(S) \in Nat /\ Cardinality(T) \in Nat /\ Cardinality(Requests) \in Nat
          /\ redeemed[c][u] \in Nat /\ ceiling[c].perUser \in Nat
      BY PendingFinite DEF TypeOK
    <3>9. redeemed[c][u] + 1 + Cardinality(T) < ceiling[c].perUser + Cardinality(Requests)
      <4>1. PICK x \in Nat, y \in Nat, z \in Nat : x = Cardinality(S) /\ y = Cardinality(T)
                                                  /\ z = Cardinality(S \ {r})
        BY <3>8, PendingFinite
      <4> QED BY <3>6, <3>7, <3>8, <4>1
    <3> QED BY <2>1, <3>1, <3>4, <3>9
  <2> QED BY <2>3, <2>4
<1> QED BY <1>2, <1>3, <1>4, <1>6, <1>7, <1>8, NextCases
-----------------------------------------------------------------------------
LEMMA DayTypes ==
    ASSUME TypeOK
    PROVE  /\ now \in Nat /\ Len(invoices) \in Nat /\ DOMAIN invoices = 1 .. Len(invoices)
           /\ \A s \in Subs : sub[s] # None => /\ sub[s] \in SubRow /\ sub[s].expires \in Nat
                                               /\ sub[s].user \in Users
           /\ \A k \in 1 .. Len(invoices) :
                /\ invoices[k].from \in Nat /\ invoices[k].till \in Nat
                /\ invoices[k].user \in Users /\ invoices[k].sub \in Subs
<1>1. \A s \in Subs : sub[s] # None => /\ sub[s] \in SubRow /\ sub[s].expires \in Nat
                                       /\ sub[s].user \in Users
  BY DEF TypeOK, SubRow
<1>2. \A k \in 1 .. Len(invoices) : invoices[k] \in InvoiceRow
  BY DEF TypeOK
<1>3. \A k \in 1 .. Len(invoices) :
                /\ invoices[k].from \in Nat /\ invoices[k].till \in Nat
                /\ invoices[k].user \in Users /\ invoices[k].sub \in Subs
  BY <1>2 DEF InvoiceRow
<1>4. now \in Nat /\ Len(invoices) \in Nat /\ DOMAIN invoices = 1 .. Len(invoices)
  BY SubBounds DEF TypeOK
<1> QED BY <1>1, <1>3, <1>4

\* The steps that leave the subscriptions, and the days of the invoices, alone.
SameDays ==
    /\ sub' = sub /\ Len(invoices') = Len(invoices)
    /\ \A i \in 1 .. Len(invoices) :
         /\ invoices'[i].user = invoices[i].user /\ invoices'[i].sub = invoices[i].sub
         /\ invoices'[i].from = invoices[i].from /\ invoices'[i].till = invoices[i].till

LEMMA ReadKept ==
    ASSUME TypeOK, TypeOK', SameDays, now <= now', NEW j \in PurchaseJob, ReadInv(j)
    PROVE  ReadInv(j)'
<1>1. j.at \in Nat /\ now \in Nat /\ now' \in Nat
  BY PurchaseFields, SubBounds DEF TypeOK
<1>2. DOMAIN invoices = 1 .. Len(invoices) /\ DOMAIN invoices' = 1 .. Len(invoices)
  BY DayTypes DEF SameDays
<1>3. \A s \in Subs : Running(s, j.user)' = Running(s, j.user) /\ sub'[s] = sub[s]
  BY DEF SameDays, Running
<1>4. \A k \in DOMAIN invoices' : /\ k \in DOMAIN invoices /\ invoices'[k].user = invoices[k].user
                                  /\ invoices'[k].till = invoices[k].till
  BY <1>2 DEF SameDays
<1>5. j.at <= now'
  BY <1>1 DEF ReadInv
<1>6. \A s \in Subs \ {j.sub} : Running(s, j.user)' => sub'[s].expires < j.at
  BY <1>3 DEF ReadInv
<1>7. j.sub = None => \A k \in DOMAIN invoices' :
                           invoices'[k].user = j.user => invoices'[k].till <= j.at
  BY <1>4 DEF ReadInv
<1>8. j.sub # None => /\ sub'[j.sub] = j.row /\ j.row.user = j.user /\ j.row.status = "active"
                      /\ \A k \in DOMAIN invoices' :
                              invoices'[k].user = j.user => invoices'[k].till <= j.row.expires
  BY <1>4 DEF ReadInv, SameDays
<1> QED BY <1>5, <1>6, <1>7, <1>8 DEF ReadInv

LEMMA DaysKept ==
    ASSUME SubsInv, TypeOK', Grows, ~disturbed', SameDays
    PROVE  /\ PaidDaysAreKept' /\ EndedAreOver' /\ OneIsLive' /\ NoDayPaidTwice'
           /\ \A r \in Requests : Buying(r, "read") /\ job'[r] = job[r] => ReadInv(job[r])'
<1> USE DEF SubsInv
<1>1. now \in Nat /\ now' \in Nat /\ now <= now' /\ ~disturbed
  BY SubBounds DEF TypeOK, Grows
<1>2. DOMAIN invoices = 1 .. Len(invoices) /\ DOMAIN invoices' = 1 .. Len(invoices)
  BY DayTypes DEF SameDays
<1>3. PaidDaysAreKept /\ EndedAreOver /\ OneIsLive /\ ReadsHold
  BY <1>1 DEF DaysInv
<1>4. PaidDaysAreKept'
  BY <1>2, <1>3 DEF PaidDaysAreKept, SameDays
<1>5. EndedAreOver'
  <2>1. \A s \in Subs : sub[s] # None => sub[s].expires \in Nat
    BY DayTypes
  <2> QED BY <1>1, <1>3, <2>1 DEF EndedAreOver, SameDays
<1>6. OneIsLive'
  <2>1. \A s \in Subs : sub[s] # None => sub[s].expires \in Nat
    BY DayTypes
  <2>2. \A s \in Subs, u \in Users : Live(s, u)' => Live(s, u)
    BY <1>1, <2>1 DEF Live, Running, SameDays
  <2> QED BY <1>3, <2>2 DEF OneIsLive
<1>7. NoDayPaidTwice'
  BY <1>1, <1>2 DEF NoDayPaidTwice, SameDays
<1>8. ASSUME NEW r \in Requests, Buying(r, "read"), job'[r] = job[r] PROVE ReadInv(job[r])'
  <2>1. PICK j \in PurchaseJob : j = job[r] /\ j = job'[r]
    BY <1>8, JobKinds DEF Buying
  <2>2. ReadInv(j)
    BY <1>3, <1>8, <2>1 DEF ReadsHold
  <2>3. ReadInv(j)'
    BY <1>1, <2>2, ReadKept
  <2> QED BY <2>1, <2>3
<1> QED BY <1>4, <1>5, <1>6, <1>7, <1>8

\* A purchase that reads the subscription, under the user's row lock.
LEMMA ReadStarts ==
    ASSUME SubsInv, ~disturbed, NEW r \in Requests, NEW s \in Subs \cup {None}, ReadSub(r, s)
    PROVE  \E k \in PurchaseJob : job' = [job EXCEPT ![r] = k] /\ ReadInv(k)
<1> USE DEF SubsInv
<1>1. PICK j \in PurchaseJob, k \in PurchaseJob :
             /\ j = job[r] /\ job' = [job EXCEPT ![r] = k] /\ SameBut(j, k, "read")
             /\ j.step = "debited" /\ s \in ActiveSub(j.user)
             /\ k.sub = s /\ k.at = now /\ (s # None => sub[s] # None /\ k.row = sub[s])
  BY ReadJob
<1>2. PICK u \in Users : u = j.user /\ u = k.user
  BY <1>1, PurchaseFields DEF SameBut
<1>3. PaidDaysAreKept /\ EndedAreOver /\ OneIsLive
  BY DEF DaysInv
<1>4. /\ now \in Nat
      /\ \A t \in Subs : sub[t] # None => sub[t].expires \in Nat
      /\ \A i \in DOMAIN invoices : invoices[i].till \in Nat /\ invoices[i].sub \in Subs
  BY DayTypes
<1>5. s # None => s \in Subs /\ Live(s, u) /\ sub[s].user = u /\ sub[s].status = "active"
                  /\ now <= sub[s].expires
  <2>1. s # None => s \in Subs /\ s \in Latest(u) /\ sub[s].expires >= now
    BY <1>1, <1>2 DEF ActiveSub, Latest, Active
  <2> QED BY <1>4, <2>1 DEF Latest, Active, Live, Running
<1>6. ASSUME NEW t \in Subs, t # s, Running(t, u) PROVE sub[t].expires < now
  <2>1. sub[t] # None /\ sub[t].expires \in Nat
    BY <1>4, <1>6 DEF Running
  <2>2. CASE s # None
    <3>1. ~Live(t, u)
      BY <1>3, <1>5, <1>6, <2>2 DEF OneIsLive
    <3> QED BY <1>4, <1>6, <2>1, <3>1 DEF Live
  <2>3. CASE s = None
    <3>1. SUFFICES ASSUME sub[t].expires >= now PROVE FALSE
      BY <1>4, <2>1
    <3>2. Live(t, u)
      BY <1>6, <3>1 DEF Live
    <3>3. \A q \in Active(u) : q # t => sub[q].expires < now
      <4>1. ASSUME NEW q \in Active(u), q # t PROVE sub[q].expires < now
        <5>1. q \in Subs /\ Running(q, u) /\ sub[q].expires \in Nat
          BY <1>4, <4>1 DEF Active, Running
        <5>2. ~Live(q, u)
          BY <1>3, <3>2, <4>1, <5>1 DEF OneIsLive
        <5> QED BY <1>4, <5>1, <5>2 DEF Live
      <4> QED BY <4>1
    <3>4. \A q \in Active(u) : sub[q].expires \in Nat /\ sub[q].expires <= sub[t].expires
      <4>1. \A q \in Active(u) : sub[q].expires \in Nat
        BY <1>4 DEF Active
      <4> QED BY <1>4, <2>1, <3>1, <3>3, <4>1
    <3>5. t \in Latest(u)
      BY <1>6, <3>4 DEF Latest, Active, Running
    <3>6. None \notin Latest(u)
      BY SubNone DEF Latest, Active
    <3> QED BY <1>1, <1>2, <2>3, <3>1, <3>5, <3>6 DEF ActiveSub
  <2> QED BY <2>2, <2>3
<1>7. ASSUME NEW i \in DOMAIN invoices, invoices[i].user = u
      PROVE  IF s = None THEN invoices[i].till <= now ELSE invoices[i].till <= sub[s].expires
  <2>1. PICK t \in Subs : /\ t = invoices[i].sub /\ sub[t] # None /\ sub[t].user = u
                          /\ invoices[i].till <= sub[t].expires
    BY <1>3, <1>4, <1>7 DEF PaidDaysAreKept
  <2>2. t = s \/ sub[t].expires < now
    <3>1. CASE sub[t].status = "active"
      BY <1>6, <2>1, <3>1 DEF Running
    <3>2. CASE sub[t].status # "active"
      BY <1>3, <2>1, <3>2 DEF EndedAreOver
    <3> QED BY <3>1, <3>2
  <2>3. invoices[i].till \in Nat /\ sub[t].expires \in Nat
    BY <1>4, <2>1
  <2>4. CASE s = None
    <3>1. t # s
      BY <2>4, SubNone
    <3> QED BY <1>4, <2>1, <2>2, <2>3, <2>4, <3>1
  <2>5. CASE s # None
    <3>1. sub[s].expires \in Nat
      BY <1>4, <1>5, <2>5 DEF Live, Running
    <3> QED BY <1>4, <1>5, <2>1, <2>2, <2>3, <2>5, <3>1
  <2> QED BY <2>4, <2>5
<1>8. ReadInv(k)
  <2>1. k.at <= now
    BY <1>1, <1>4
  <2>2. \A t \in Subs \ {k.sub} : Running(t, k.user) => sub[t].expires < k.at
    BY <1>1, <1>2, <1>6
  <2>3. k.sub = None => \A i \in DOMAIN invoices :
                           invoices[i].user = k.user => invoices[i].till <= k.at
    BY <1>1, <1>2, <1>7
  <2>4. k.sub # None => /\ sub[k.sub] = k.row /\ k.row.user = k.user /\ k.row.status = "active"
                        /\ \A i \in DOMAIN invoices :
                              invoices[i].user = k.user => invoices[i].till <= k.row.expires
    BY <1>1, <1>2, <1>5, <1>7
  <2> QED BY <2>1, <2>2, <2>3, <2>4 DEF ReadInv
<1> QED BY <1>1, <1>8

\* The expiry job ends what no purchase has read.
LEMMA ExpireDays ==
    ASSUME SubsInv, ~disturbed', ExpireDue
    PROVE  DaysInv' /\ NoDayPaidTwice'
<1> USE DEF SubsInv
<1>1. UNCHANGED <<now, invoices, job>> /\ ~disturbed
  BY DEF ExpireDue, books
<1>2. PaidDaysAreKept /\ EndedAreOver /\ OneIsLive /\ ReadsHold
  BY <1>1 DEF DaysInv
<1>3. /\ \A s \in Subs :
                \/ sub'[s] = sub[s]
                \/ /\ sub[s] # None /\ sub[s].status = "active" /\ sub[s].expires < now
                   /\ sub'[s] # None /\ sub'[s].user = sub[s].user
                   /\ sub'[s].expires = sub[s].expires /\ sub'[s].status = "expired"
      /\ \A s \in Subs : sub'[s] # sub[s] =>
                \A r \in Requests : ~(Buying(r, "read") /\ job[r].sub = s)
  BY ExpireRows
<1>4. \A k \in DOMAIN invoices : invoices[k].sub \in Subs
  BY DayTypes
<1>5. PaidDaysAreKept'
  BY <1>1, <1>2, <1>3, <1>4 DEF PaidDaysAreKept
<1>6. EndedAreOver'
  BY <1>1, <1>2, <1>3 DEF EndedAreOver
<1>7. \A s \in Subs, u \in Users : /\ Running(s, u)' => Running(s, u) /\ sub'[s] = sub[s]
                                   /\ Live(s, u)' => Live(s, u)
  <2>1. ASSUME NEW s \in Subs, NEW u \in Users, Running(s, u)'
        PROVE  Running(s, u) /\ sub'[s] = sub[s]
    <3>1. sub'[s] = sub[s]
      BY <1>3, <2>1 DEF Running
    <3> QED BY <2>1, <3>1 DEF Running
  <2> QED BY <1>1, <2>1 DEF Live
<1>8. OneIsLive'
  BY <1>2, <1>7 DEF OneIsLive
<1>9. NoDayPaidTwice'
  BY <1>1 DEF NoDayPaidTwice
<1>10. ReadsHold'
  <2>1. ASSUME NEW r \in Requests, Buying(r, "read")' PROVE ReadInv(job[r])'
    <3>1. Buying(r, "read") /\ job'[r] = job[r]
      BY <1>1, <2>1 DEF Buying
    <3>2. PICK j \in PurchaseJob : j = job[r] /\ j = job'[r]
      BY <3>1, JobKinds DEF Buying
    <3>3. ReadInv(j) /\ j.user \in Users /\ j.sub \in Subs \cup {None}
      BY <1>2, <3>1, <3>2, PurchaseFields DEF ReadsHold
    <3>4. j.sub # None => sub'[j.sub] = sub[j.sub]
      BY <1>3, <3>1, <3>2, <3>3
    <3>5. ReadInv(j)'
      <4>1. \A s \in Subs \ {j.sub} : Running(s, j.user)' => sub'[s].expires < j.at
        BY <1>7, <3>3 DEF ReadInv
      <4> QED BY <1>1, <3>3, <3>4, <4>1 DEF ReadInv
    <3> QED BY <3>2, <3>5
  <2> QED BY <2>1 DEF ReadsHold
<1> QED BY <1>5, <1>6, <1>8, <1>9, <1>10 DEF DaysInv

\* The commit of a purchase: what it adds begins where all that was paid for ends.
LEMMA CommitDays ==
    ASSUME SubsInv, TypeOK', ~disturbed', NEW r \in Requests, NEW s \in Subs, PurchaseCommit(r, s)
    PROVE  DaysInv' /\ NoDayPaidTwice'
<1> USE DEF SubsInv
<1>1. PICK j \in PurchaseJob, row \in SubRow, inv \in InvoiceRow : Commits(r, s, j, row, inv)
  BY CommitRows
<1>2. now' = now /\ ~disturbed /\ job' = [job EXCEPT ![r] = None]
  BY <1>1 DEF Commits
<1>3. PaidDaysAreKept /\ EndedAreOver /\ OneIsLive /\ ReadsHold
  BY <1>2 DEF DaysInv
<1>4. /\ j.user \in Users /\ j.sub \in Subs \cup {None} /\ j.at \in Nat /\ j.days \in Nat
      /\ j.row \in SubRow \cup {None} /\ j # None /\ j.op = "purchase"
  BY PurchaseFields
<1>5. ReadInv(j)
  BY <1>1, <1>3, <1>4 DEF Commits, ReadsHold, Buying
<1>6. /\ sub' = [sub EXCEPT ![s] = row] /\ sub'[s] = row /\ row # None
      /\ \A t \in Subs \ {s} : sub'[t] = sub[t]
  BY <1>1, SubNone DEF Commits, TypeOK
<1> DEFINE n == Len(invoices)
<1>7. /\ n \in Nat /\ DOMAIN invoices = 1 .. n /\ DOMAIN invoices' = 1 .. n + 1
      /\ invoices'[n + 1] = inv /\ \A k \in 1 .. n : invoices'[k] = invoices[k]
  BY <1>1 DEF Commits, TypeOK
<1>8. Bought(j, s, row, inv) /\ PurchaseInv(j) /\ j.step = "read"
  BY <1>1 DEF Commits
<1>9. /\ now \in Nat
      /\ \A t \in Subs : sub[t] # None => sub[t].expires \in Nat
      /\ \A k \in 1 .. n : invoices[k].till \in Nat /\ invoices[k].sub \in Subs
      /\ row.expires \in Nat /\ inv.from \in Nat /\ inv.till \in Nat
  BY <1>7, DayTypes DEF SubRow, InvoiceRow
<1>10. inv.from <= inv.till /\ inv.till = row.expires /\ inv.user = j.user /\ inv.sub = s
  BY <1>4, <1>8, <1>9 DEF Bought
<1>11. row.user = j.user /\ row.status = "active"
  BY <1>5, <1>8 DEF Bought, ReadInv
<1>12. \A k \in 1 .. n : invoices[k].user = j.user => invoices[k].till <= inv.from
  BY <1>5, <1>7, <1>8 DEF ReadInv, Bought
<1>13. \A t \in Subs \ {s} : Running(t, j.user) => sub[t].expires < j.at
  <2>1. s = j.sub \/ j.sub = None
    BY <1>8 DEF Bought
  <2>2. \A t \in Subs \ {s} : t \in Subs \ {j.sub}
    BY <2>1, SubNone
  <2> QED BY <1>5, <2>2 DEF ReadInv
<1>14. sub[s] # None => sub[s].user = j.user
  BY <1>5, <1>8 DEF ReadInv, Bought
<1>15. PaidDaysAreKept'
  <2>1. ASSUME NEW k \in 1 .. n
        PROVE  /\ sub'[invoices[k].sub] # None /\ sub'[invoices[k].sub].user = invoices[k].user
               /\ invoices[k].till <= sub'[invoices[k].sub].expires
    <3>1. PICK t \in Subs : t = invoices[k].sub
      BY <1>9
    <3>2. sub[t] # None /\ sub[t].user = invoices[k].user /\ invoices[k].till <= sub[t].expires
      BY <1>3, <1>7, <3>1 DEF PaidDaysAreKept
    <3>3. CASE t = s
      <4>1. invoices[k].user = j.user
        BY <1>14, <3>2, <3>3
      <4>2. invoices[k].till <= row.expires
        BY <1>9, <1>10, <1>12, <4>1
      <4> QED BY <1>6, <1>11, <3>1, <3>3, <4>1, <4>2
    <3>4. CASE t # s
      BY <1>6, <3>1, <3>2, <3>4
    <3> QED BY <3>3, <3>4
  <2>2. /\ sub'[inv.sub] # None /\ sub'[inv.sub].user = inv.user
        /\ inv.till <= sub'[inv.sub].expires
    BY <1>6, <1>9, <1>10, <1>11
  <2>3. ASSUME NEW k \in 1 .. n + 1
        PROVE  /\ sub'[invoices'[k].sub] # None
               /\ sub'[invoices'[k].sub].user = invoices'[k].user
               /\ invoices'[k].till <= sub'[invoices'[k].sub].expires
    <3>1. k = n + 1 \/ k \in 1 .. n
      BY <1>7
    <3> QED BY <1>7, <2>1, <2>2, <3>1
  <2> QED BY <1>7, <2>3 DEF PaidDaysAreKept
<1>16. EndedAreOver'
  <2>1. \A t \in Subs : sub'[t] # None =>
          sub'[t].status = "active" \/ (sub'[t].status = "expired" /\ sub'[t].expires < now)
    BY <1>3, <1>6, <1>11 DEF EndedAreOver
  <2> QED BY <1>2, <2>1 DEF EndedAreOver
<1>17. OneIsLive'
  <2>1. \A u \in Users, t \in Subs \ {s} : Live(t, u)' => Live(t, u)
    BY <1>2, <1>6 DEF Live, Running
  <2>2. \A u \in Users : Live(s, u)' => u = j.user
    BY <1>6, <1>11 DEF Live, Running
  <2>3. \A t \in Subs \ {s} : ~Live(t, j.user)
    <3>1. j.at <= now
      BY <1>5 DEF ReadInv
    <3> QED BY <1>4, <1>9, <1>13, <3>1 DEF Live, Running
  <2>4. ASSUME NEW u \in Users, NEW t \in Subs, NEW q \in Subs, Live(t, u)', Live(q, u)'
        PROVE  t = q
    <3>1. CASE u = j.user
      BY <2>1, <2>3, <2>4, <3>1
    <3>2. CASE u # j.user
      <4>1. Live(t, u) /\ Live(q, u)
        BY <2>1, <2>2, <2>4, <3>2
      <4> QED BY <1>3, <4>1 DEF OneIsLive
    <3> QED BY <3>1, <3>2
  <2> QED BY <2>4 DEF OneIsLive
<1>18. ReadsHold'
  <2>1. ASSUME NEW q \in Requests, Buying(q, "read")' PROVE ReadInv(job[q])'
    <3>1. q # r /\ job'[q] = job[q] /\ Buying(q, "read")
      BY <1>2, <2>1 DEF Buying, TypeOK
    <3>2. PICK p \in PurchaseJob : p = job[q] /\ p = job'[q] /\ p.step = "read"
      BY <3>1, JobKinds DEF Buying
    <3>3. ReadInv(p) /\ p.user \in Users /\ p.sub \in Subs \cup {None}
      BY <1>3, <3>1, <3>2, PurchaseFields DEF ReadsHold
    <3>4. p.user # j.user
      <4>1. Charging(q) /\ Charging(r)
        BY <1>1, <1>4, <1>8, <3>1, <3>2 DEF Charging, Purchase, Buying, Commits
      <4> QED BY <1>1, <3>1, <3>2, <4>1 DEF LockInv, Commits
    <3>5. p.sub # None => p.sub # s
      <4>1. p.sub # None => sub[p.sub] # None /\ sub[p.sub].user = p.user
        <5>1. p.sub # None => sub[p.sub] # None
          BY <3>1, <3>2, PurchaseFields DEF JobsInv, JobInv, PurchaseInv
        <5> QED BY <3>3, <5>1 DEF ReadInv
      <4> QED BY <1>14, <3>4, <4>1
    <3>6. \A t \in Subs : Running(t, p.user)' => t # s /\ Running(t, p.user) /\ sub'[t] = sub[t]
      BY <1>6, <1>11, <3>4 DEF Running
    <3>7. \A k \in DOMAIN invoices' : invoices'[k].user = p.user =>
            k \in DOMAIN invoices /\ invoices'[k] = invoices[k]
      <4>1. \A k \in 1 .. n + 1 : k = n + 1 \/ k \in 1 .. n
        BY <1>7
      <4> QED BY <1>7, <1>10, <3>4, <4>1
    <3>8. ReadInv(p)'
      <4>1. p.at <= now'
        BY <1>2, <3>3 DEF ReadInv
      <4>2. \A t \in Subs \ {p.sub} : Running(t, p.user)' => sub'[t].expires < p.at
        BY <3>3, <3>6 DEF ReadInv
      <4>3. p.sub = None => \A k \in DOMAIN invoices' :
                           invoices'[k].user = p.user => invoices'[k].till <= p.at
        BY <3>3, <3>7 DEF ReadInv
      <4>4. p.sub # None => /\ sub'[p.sub] = p.row /\ p.row.user = p.user /\ p.row.status = "active"
                            /\ \A k \in DOMAIN invoices' :
                              invoices'[k].user = p.user => invoices'[k].till <= p.row.expires
        BY <1>6, <3>3, <3>5, <3>7 DEF ReadInv
      <4> QED BY <4>1, <4>2, <4>3, <4>4 DEF ReadInv
    <3> QED BY <3>2, <3>8
  <2> QED BY <2>1 DEF ReadsHold
<1>19. NoDayPaidTwice'
  <2>1. ASSUME NEW k \in 1 .. n, NEW m \in 1 .. n, k # m, invoices[k].user = invoices[m].user
        PROVE  invoices[k].till <= invoices[m].from \/ invoices[m].till <= invoices[k].from
    BY <1>2, <1>7, <2>1 DEF NoDayPaidTwice
  <2>2. \A k \in 1 .. n + 1 : k = n + 1 \/ k \in 1 .. n
    BY <1>7
  <2>3. ASSUME NEW k \in 1 .. n + 1, NEW m \in 1 .. n + 1, k # m,
               invoices'[k].user = invoices'[m].user
        PROVE  invoices'[k].till <= invoices'[m].from \/ invoices'[m].till <= invoices'[k].from
    <3>1. CASE k = n + 1
      <4>1. m \in 1 .. n
        BY <2>2, <2>3, <3>1
      <4> QED BY <1>7, <1>10, <1>12, <2>3, <3>1, <4>1
    <3>2. CASE m = n + 1
      <4>1. k \in 1 .. n
        BY <2>2, <2>3, <3>2
      <4> QED BY <1>7, <1>10, <1>12, <2>3, <3>2, <4>1
    <3>3. CASE k \in 1 .. n /\ m \in 1 .. n
      BY <1>7, <2>1, <2>3, <3>3
    <3> QED BY <2>2, <3>1, <3>2, <3>3
  <2> QED BY <1>7, <2>3 DEF NoDayPaidTwice
<1> QED BY <1>15, <1>16, <1>17, <1>18, <1>19 DEF DaysInv

LEMMA DaysStep ==
    ASSUME SubsInv, Next
    PROVE  DaysInv' /\ NoDayPaidTwice'
<1> USE DEF SubsInv
<1>1. TypeOK' /\ Grows
  BY TypeStep, StepGrows
<1>2. CASE disturbed'
  BY <1>2 DEF DaysInv, NoDayPaidTwice
<1>3. CASE ~disturbed'
  <2>1. ~disturbed
    BY <1>1, <1>3 DEF Grows
  <2>2. ASSUME SameDays,
               \A q \in Requests : Buying(q, "read")' =>
                   (Buying(q, "read") /\ job'[q] = job[q]) \/ ReadInv(job[q])'
        PROVE  DaysInv' /\ NoDayPaidTwice'
    <3>1. /\ PaidDaysAreKept' /\ EndedAreOver' /\ OneIsLive' /\ NoDayPaidTwice'
          /\ \A q \in Requests : Buying(q, "read") /\ job'[q] = job[q] => ReadInv(job[q])'
      BY <1>1, <1>3, <2>2, DaysKept
    <3>2. ReadsHold'
      BY <2>2, <3>1 DEF ReadsHold
    <3> QED BY <3>1, <3>2 DEF DaysInv
  <2>3. UNCHANGED <<sub, invoices>> => SameDays
    BY DEF SameDays
  <2>4. UNCHANGED job => \A q \in Requests : Buying(q, "read")' => Buying(q, "read") /\ job'[q] = job[q]
    BY DEF Buying
  <2>5. CASE Tick \/ InvoiceStep \/ PlanStep \/ CouponStep
    <3>1. UNCHANGED job
      BY <2>5, InvoiceFacts, PlanFacts, CouponFacts DEF Tick
    <3>2. CASE Tick \/ PlanStep \/ CouponStep
      <4>1. UNCHANGED <<sub, invoices>>
        BY <3>2, PlanFacts, CouponFacts DEF Tick, books
      <4> QED BY <2>2, <2>3, <2>4, <3>1, <4>1
    <3>3. CASE InvoiceStep
      <4>1. SameDays
        BY <3>3, InvoiceFacts DEF SameDays
      <4> QED BY <2>2, <2>4, <3>1, <4>1
    <3> QED BY <2>5, <3>2, <3>3
  <2>6. CASE ExpireDue
    BY <1>3, <2>6, ExpireDays
  <2>7. ASSUME NEW r \in Requests, NEW k, job' = [job EXCEPT ![r] = k],
               k = None \/ k.op # "purchase" \/ k.step # "read"
        PROVE  \A q \in Requests : Buying(q, "read")' => Buying(q, "read") /\ job'[q] = job[q]
    <3>1. job'[r] = k /\ \A q \in Requests : q # r => job'[q] = job[q]
      BY <2>7 DEF TypeOK
    <3> QED BY <2>7, <3>1 DEF Buying
  <2>8. ASSUME NEW r \in Requests, BuyStep(r) PROVE DaysInv' /\ NoDayPaidTwice'
    <3>1. SameDays /\ UNCHANGED <<now, sub, invoices>>
      BY <2>3, <2>8, BuyFrame DEF books
    <3>2. ASSUME NEW k, job' = [job EXCEPT ![r] = k],
                 k = None \/ k.op # "purchase" \/ k.step # "read"
          PROVE  DaysInv' /\ NoDayPaidTwice'
      BY <2>2, <2>7, <3>1, <3>2
    <3>3. CASE \E u \in Users, p \in Plans, c \in Coupons \cup {None} : PurchaseLoad(r, u, p, c)
      <4>1. PICK k \in PurchaseJob : job' = [job EXCEPT ![r] = k] /\ k.step = "ordered"
        BY <3>3, LoadJob
      <4> QED BY <3>2, <4>1
    <3>4. CASE Redeem(r)
      <4>1. PICK k \in PurchaseJob : job' = [job EXCEPT ![r] = k] /\ k.step = "redeemed"
        BY <3>4, RedeemJob DEF SameBut
      <4> QED BY <3>2, <4>1
    <3>5. CASE Debit(r)
      <4>1. PICK k \in PurchaseJob : job' = [job EXCEPT ![r] = k] /\ k.step = "debited"
        BY <3>5, DebitJob DEF SameBut
      <4> QED BY <3>2, <4>1
    <3>6. CASE PurchaseFails(r)
      BY <3>2, <3>6 DEF PurchaseFails
    <3>7. ASSUME NEW s \in Subs \cup {None}, ReadSub(r, s) PROVE DaysInv' /\ NoDayPaidTwice'
      <4>1. PICK k \in PurchaseJob : job' = [job EXCEPT ![r] = k] /\ ReadInv(k)
        BY <2>1, <3>7, ReadStarts
      <4>2. job'[r] = k /\ \A q \in Requests : q # r => job'[q] = job[q]
        BY <4>1 DEF TypeOK
      <4>3. ReadInv(k)'
        <5>1. now <= now'
          BY <1>1 DEF Grows
        <5> QED BY <1>1, <3>1, <4>1, <5>1, ReadKept
      <4>4. ASSUME NEW q \in Requests, Buying(q, "read")'
            PROVE  (Buying(q, "read") /\ job'[q] = job[q]) \/ ReadInv(job[q])'
        <5>1. CASE q = r
          BY <4>2, <4>3, <5>1
        <5>2. CASE q # r
          BY <4>2, <4>4, <5>2 DEF Buying
        <5> QED BY <5>1, <5>2
      <4> QED BY <2>2, <3>1, <4>4
    <3> QED BY <2>8, <3>3, <3>4, <3>5, <3>6, <3>7 DEF BuyStep
  <2>9. ASSUME NEW r \in Requests, LoadStep(r) PROVE DaysInv' /\ NoDayPaidTwice'
    <3>1. PICK k \in EditJob : job' = [job EXCEPT ![r] = k] /\ UNCHANGED <<sub, invoices>>
      BY <2>9, LoadedJob DEF books
    <3>2. k.op # "purchase"
      BY EditFields
    <3> QED BY <2>2, <2>3, <2>7, <3>1, <3>2
  <2>10. ASSUME NEW r \in Requests, WriteStep(r) PROVE FALSE
    BY <1>3, <2>10, WriteFacts
  <2>11. ASSUME NEW r \in Requests, NEW s \in Subs, PurchaseCommit(r, s)
         PROVE  DaysInv' /\ NoDayPaidTwice'
    BY <1>1, <1>3, <2>11, CommitDays
  <2> QED BY <2>5, <2>6, <2>8, <2>9, <2>10, <2>11, NextCases
<1> QED BY <1>2, <1>3
-----------------------------------------------------------------------------
LEMMA SubsInit ==
    ASSUME Init
    PROVE  SubsInv
<1> USE DEF Init
<1>1. /\ FirstCoupon \in [Coupons -> CouponRow \cup {None}] /\ FirstPlan \in [Plans -> PlanRow \cup {None}]
      /\ \A c \in Coupons : FirstCoupon[c] # None =>
           /\ FirstCoupon[c].count = 0 /\ FirstCoupon[c].max \in Nat \cup {None}
           /\ FirstCoupon[c].perUser \in Nat
  BY SubForms DEF CouponRow
<1>2. ASSUME NEW c \in Coupons
      PROVE  /\ Ceiling(FirstCoupon[c]) \in [max : Nat \cup {None}, perUser : Nat]
             /\ FirstCoupon[c] # None => /\ Ceiling(FirstCoupon[c]).max = FirstCoupon[c].max
                                         /\ Ceiling(FirstCoupon[c]).perUser = FirstCoupon[c].perUser
  <2>1. PICK m \in Nat \cup {None}, p \in Nat :
          /\ m = IF FirstCoupon[c] = None THEN 0 ELSE FirstCoupon[c].max
          /\ p = IF FirstCoupon[c] = None THEN 0 ELSE FirstCoupon[c].perUser
    BY <1>1
  <2>2. Ceiling(FirstCoupon[c]) = [max |-> m, perUser |-> p]
    BY <2>1 DEF Ceiling
  <2> QED BY <2>1, <2>2
<1>3. TypeOK
  <2>1. now \in 0 .. MaxTime /\ edits \in 0 .. MaxEdits
    BY SubBounds
  <2>2. ceiling \in [Coupons -> [max : Nat \cup {None}, perUser : Nat]]
    BY <1>2
  <2>3. balance \in [Users -> Nat] /\ redeemed \in [Coupons -> [Users -> Nat]]
    BY SubBounds
  <2>4. /\ sub \in [Subs -> SubRow \cup {None}]
        /\ job \in [Requests -> PurchaseJob \cup EditJob \cup {None}]
    OBVIOUS
  <2>5. invoices \in Seq(InvoiceRow)
    OBVIOUS
  <2>6. disturbed \in BOOLEAN
    BY Zenon
  <2> QED BY <1>1, <2>1, <2>2, <2>3, <2>4, <2>5, <2>6 DEF TypeOK
<1>4. \A r \in Requests : job[r] = None
  OBVIOUS
<1>5. JobsInv /\ LockInv
  BY <1>4 DEF JobsInv, LockInv, Past, Charging, Purchase
<1>6. LimitInv /\ CouponWithinLimit
  <2>1. ASSUME NEW c \in Coupons, coupon[c] # None
        PROVE  /\ Within(coupon[c].max, ceiling[c].max) /\ coupon[c].perUser <= ceiling[c].perUser
               /\ ceiling[c].max # None => coupon[c].count <= ceiling[c].max
    BY <1>1, <1>2, <2>1 DEF Within
  <2>2. \A c \in Coupons, u \in Users : redeemed[c][u] = 0 /\ Len(invoices) = 0
    OBVIOUS
  <2> QED BY <2>1, <2>2 DEF LimitInv, CouponWithinLimit
<1>7. CountIsRedemptions
  <2>1. ASSUME NEW c \in Coupons
        PROVE  {x \in Users \X (1 .. Len(invoices)) : x[2] <= redeemed[c][x[1]]} = {}
    <3>1. 1 .. Len(invoices) = {}
      OBVIOUS
    <3>2. Users \X {} = {}
      OBVIOUS
    <3> QED BY <3>1, <3>2
  <2>2. \A c \in Coupons : (IF coupon[c] = None THEN 0 ELSE coupon[c].count) = 0
    BY <1>1
  <2> QED BY <2>1, <2>2, FS_EmptySet DEF CountIsRedemptions
<1>8. OvershootInv
  <2>1. \A c \in Coupons, u \in Users : redeemed[c][u] = 0 /\ Pending(c, u) = {}
    BY <1>4 DEF Pending, Purchase
  <2> QED BY <2>1 DEF OvershootInv
<1>9. DaysInv /\ NoDayPaidTwice
  <2>1. \A s \in Subs : sub[s] = None
    OBVIOUS
  <2>2. DOMAIN invoices = {}
    OBVIOUS
  <2>3. PaidDaysAreKept /\ NoDayPaidTwice
    BY <2>2 DEF PaidDaysAreKept, NoDayPaidTwice
  <2>4. EndedAreOver /\ OneIsLive
    BY <2>1 DEF EndedAreOver, OneIsLive, Live, Running
  <2>5. ReadsHold
    BY <1>4 DEF ReadsHold, Buying
  <2> QED BY <2>3, <2>4, <2>5 DEF DaysInv
<1> QED BY <1>3, <1>5, <1>6, <1>7, <1>8, <1>9 DEF SubsInv

LEMMA SubsStutter ==
    ASSUME SubsInv, UNCHANGED vars
    PROVE  SubsInv'
<1> USE DEF vars
<1>1. TypeOK'
  BY DEF SubsInv, TypeOK
<1>2. JobsInv'
  BY DEF SubsInv, JobsInv, JobInv, PurchaseInv, EditInv
<1>3. LockInv'
  BY DEF SubsInv, LockInv, Past, Charging, Purchase
<1>4. LimitInv' /\ CouponWithinLimit' /\ CountIsRedemptions'
  BY DEF SubsInv, LimitInv, CouponWithinLimit, CountIsRedemptions
<1>5. OvershootInv'
  BY DEF SubsInv, OvershootInv, Pending, Purchase
<1>6. PaidDaysAreKept' = PaidDaysAreKept /\ EndedAreOver' = EndedAreOver /\ OneIsLive' = OneIsLive
  BY DEF PaidDaysAreKept, EndedAreOver, OneIsLive, Live, Running
<1>7. ReadsHold' = ReadsHold
  BY DEF ReadsHold, ReadInv, Running, Buying
<1>8. DaysInv'
  BY <1>6, <1>7 DEF SubsInv, DaysInv
<1>9. NoDayPaidTwice'
  BY DEF SubsInv, NoDayPaidTwice
<1> QED BY <1>1, <1>2, <1>3, <1>4, <1>5, <1>8, <1>9 DEF SubsInv

LEMMA SubsStep ==
    ASSUME SubsInv, [Next]_vars
    PROVE  SubsInv'
<1>1. CASE Next
  <2>1. TypeOK' /\ JobsInv' /\ LockInv'
    BY <1>1, TypeStep, JobsStep, LockStep
  <2>2. LimitInv' /\ CouponWithinLimit' /\ CountIsRedemptions' /\ OvershootInv'
    BY <1>1, LimitStep, CountStep, OvershootStep
  <2>3. DaysInv' /\ NoDayPaidTwice'
    BY <1>1, DaysStep
  <2> QED BY <2>1, <2>2, <2>3 DEF SubsInv
<1>2. CASE UNCHANGED vars
  BY <1>2, SubsStutter
<1> QED BY <1>1, <1>2

LEMMA SubsAlways == Spec => []SubsInv
  BY SubsInit, SubsStep, PTL DEF Spec
-----------------------------------------------------------------------------
\* Type correctness: in particular no balance becomes negative, for the price that
\* wallet.debit takes is compared with the loaded balance.
THEOREM SubscriptionsTypeCorrect == Spec => []TypeOK
<1>1. SubsInv => TypeOK
  BY DEF SubsInv
<1> QED BY <1>1, SubsAlways, PTL

\* However many requests use a coupon together (coupons.py, redeem and
\* validate_for_user), and whatever the admin does to it meanwhile: it stays within
\* its highest limit, its counter is the number of redemptions, a user exceeds
\* max_per_user by less than the number of requests, and its discount is fair.
THEOREM CouponPromises == Spec => []CouponsHold
<1>1. ASSUME SubsInv PROVE CouponsHold
  <2> USE <1>1 DEF SubsInv
  <2>1. ASSUME NEW c \in Coupons, NEW u \in Users, redeemed[c][u] > 0
        PROVE  redeemed[c][u] < ceiling[c].perUser + Cardinality(Requests)
    <3>1. redeemed[c][u] + Cardinality(Pending(c, u)) < ceiling[c].perUser + Cardinality(Requests)
      BY <2>1 DEF OvershootInv
    <3>2. PICK n \in Nat : n = Cardinality(Pending(c, u))
      <4>1. Pending(c, u) \in SUBSET Requests
        BY DEF Pending
      <4> QED BY <4>1, PendingFinite
    <3>3. redeemed[c][u] \in Nat /\ ceiling[c].perUser \in Nat /\ Cardinality(Requests) \in Nat
      BY PendingFinite DEF TypeOK
    <3> QED BY <3>1, <3>2, <3>3
  <2>2. PerUserOvershoot
    BY <2>1 DEF PerUserOvershoot
  <2>3. DiscountIsFair
    <3>1. \A c \in Coupons : coupon[c] # None => coupon[c] \in CouponRow
      BY DEF TypeOK
    <3>2. \A a \in 0 .. 9 : a \in Nat
      OBVIOUS
    <3> QED BY <3>1, <3>2, DiscountFacts DEF DiscountIsFair
  <2> QED BY <2>2, <2>3 DEF CouponsHold
<1> QED BY <1>1, SubsAlways, PTL

\* compute_discount is fair at every price, not only at those TLC tries.
THEOREM DiscountsAreFair ==
    Spec => [](\A c \in Coupons, a \in Nat : coupon[c] # None => FairDiscount(coupon[c], a))
<1>1. ASSUME SubsInv
      PROVE  \A c \in Coupons, a \in Nat : coupon[c] # None => FairDiscount(coupon[c], a)
  <2>1. \A c \in Coupons : coupon[c] # None => coupon[c] \in CouponRow
    BY <1>1 DEF SubsInv, TypeOK
  <2> QED BY <2>1, DiscountFacts
<1> QED BY <1>1, SubsAlways, PTL

\* As long as nobody changes a subscription by hand and the expiry job does not run
\* between a purchase's read and its commit, no user pays for a day twice, however
\* many purchases run together (subscription.py, purchase under the wallet's lock).
THEOREM DaysArePaidOnce == Spec => []NoDayPaidTwice
<1>1. SubsInv => NoDayPaidTwice
  BY DEF SubsInv
<1> QED BY <1>1, SubsAlways, PTL
=============================================================================
