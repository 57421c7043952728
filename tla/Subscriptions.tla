--------------------------- MODULE Subscriptions ---------------------------
(***************************************************************************)
(* Plans, coupons, subscriptions and invoices: the purchase of a plan with *)
(* a coupon from the wallet (packages/billing/subscription.py and          *)
(* coupons.py), the expiry job, and the routes of the user and the admin   *)
(* that change a plan, a coupon, a subscription or an invoice.             *)
(*                                                                         *)
(* A purchase is one database transaction of several round trips.  It      *)
(* locks the coupon's row by a conditional UPDATE and then the user's row  *)
(* in the wallet; both locks last until its commit.  The user's balance is *)
(* the one its session loaded with the request (see module Wallet).  The   *)
(* other routes load a row and commit later, without a lock.               *)
(***************************************************************************)
EXTENDS Integers, Sequences, FiniteSets

CONSTANTS
    Users, Plans, Coupons, Subs,
    Requests,      \* concurrent HTTP requests
    PlanForms,     \* plan rows an admin may write: [price, days, active]
    CouponForms,   \* coupon rows an admin may write, see CouponRow
    FirstPlan, FirstCoupon,   \* the tables at the start: a row or None
    Funds,         \* every user's balance at the start
    MaxTime, MaxInvoices, MaxEdits,   \* bounds
    None

VARIABLES
    now,
    plan, coupon,      \* rows or None
    redeemed,          \* coupon_redemptions, counted by coupon and user
    balance, sub, invoices,
    job,               \* what each request has read and not yet committed
    edits,             \* how many manual changes were begun
    ceiling,           \* history: the highest limits a coupon ever had
    disturbed          \* history: a row was written that a purchase had read, or by hand

vars == <<now, plan, coupon, redeemed, balance, sub, invoices, job, edits, ceiling, disturbed>>
shop == <<plan, coupon, ceiling>>
books == <<redeemed, balance, invoices>>

PlanRow == [price : Nat, days : Nat \ {0}, active : BOOLEAN]

\* percent_off or amount_off_vnd, the limits, the window and the plans.
CouponRow == [percent : BOOLEAN, off : Nat \ {0}, cap : Nat \cup {None}, min : Nat,
              max : Nat \cup {None}, perUser : Nat, from : Nat, until : Nat \cup {None},
              plans : SUBSET Plans, active : BOOLEAN, count : Nat]

SubRow == [user : Users, plan : Plans, expires : Nat,
           status : {"active", "expired", "canceled"}]

\* from and till are what the purchase granted: kept here as a history.
InvoiceRow == [user : Users, sub : Subs, amount : Nat, discount : Nat,
               from : Nat, till : Nat, status : {"paid", "void"}]

PurchaseJob == [op : {"purchase"}, step : {"ordered", "redeemed", "debited", "read"},
                user : Users, plan : Plans, coupon : Coupons \cup {None},
                price : Nat, discount : Nat, days : Nat, max : Nat \cup {None}, cached : Nat,
                sub : Subs \cup {None}, row : SubRow \cup {None}, at : Nat]
EditOps == {"cancel", "admincancel", "extend", "change", "refund"}
EditJob == [op : EditOps, sub : Subs, row : SubRow, inv : Nat]

ASSUME SubBounds == {Funds, MaxTime, MaxInvoices, MaxEdits} \subseteq Nat
ASSUME SubSets == IsFiniteSet(Users) /\ IsFiniteSet(Requests)
ASSUME SubForms ==
    /\ PlanForms \subseteq PlanRow /\ FirstPlan \in [Plans -> PlanRow \cup {None}]
    /\ CouponForms \subseteq CouponRow /\ \A row \in CouponForms : row.count = 0
    /\ FirstCoupon \in [Coupons -> CouponRow \cup {None}]
    /\ \A c \in Coupons : FirstCoupon[c] # None => FirstCoupon[c].count = 0
ASSUME SubNone ==
    None \notin Nat \cup Users \cup Plans \cup Coupons \cup Subs \cup PlanRow \cup CouponRow
                \cup SubRow \cup PurchaseJob \cup EditJob

TypeOK ==
    /\ now \in 0 .. MaxTime
    /\ plan \in [Plans -> PlanRow \cup {None}]
    /\ coupon \in [Coupons -> CouponRow \cup {None}]
    /\ redeemed \in [Coupons -> [Users -> Nat]]
    /\ balance \in [Users -> Nat]
    /\ sub \in [Subs -> SubRow \cup {None}]
    /\ invoices \in Seq(InvoiceRow)
    /\ job \in [Requests -> PurchaseJob \cup EditJob \cup {None}]
    /\ edits \in 0 .. MaxEdits
    /\ ceiling \in [Coupons -> [max : Nat \cup {None}, perUser : Nat]]
    /\ disturbed \in BOOLEAN

\* The limits of a row; None is no limit.
Ceiling(row) == [max |-> IF row = None THEN 0 ELSE row.max,
                 perUser |-> IF row = None THEN 0 ELSE row.perUser]
Higher(m, n) == IF m = None \/ n = None THEN None ELSE IF m < n THEN n ELSE m

Init ==
    /\ now = 0
    /\ plan = FirstPlan /\ coupon = FirstCoupon
    /\ redeemed = [c \in Coupons |-> [u \in Users |-> 0]]
    /\ balance = [u \in Users |-> Funds]
    /\ sub = [s \in Subs |-> None]
    /\ invoices = <<>>
    /\ job = [r \in Requests |-> None]
    /\ edits = 0
    /\ ceiling = [c \in Coupons |-> Ceiling(FirstCoupon[c])]
    /\ disturbed = FALSE
-----------------------------------------------------------------------------
\* Decimal.quantize(Decimal(1)): to the nearest integer, a half to the even one.
Quantize(n, d) ==
    LET q == n \div d
        r == n % d
    IN  IF 2 * r > d \/ (2 * r = d /\ q % 2 = 1) THEN q + 1 ELSE q

\* Mutant: a fixed discount is not limited to the price.
DiscountUncut(row, amount) ==
    IF row.percent THEN Quantize(amount * row.off, 100) ELSE row.off

\* compute_discount, for an amount of at least row.min.
Discount(row, amount) ==
    LET raw == IF row.percent THEN Quantize(amount * row.off, 100) ELSE row.off
        capped == IF row.percent /\ row.cap # None /\ row.cap < raw THEN row.cap ELSE raw
    IN  IF capped < amount THEN capped ELSE amount

\* get_active_coupon.
CouponLive(row) ==
    /\ row # None /\ row.active
    /\ row.from <= now
    /\ row.until # None => now < row.until
    /\ row.max # None => row.count < row.max

\* Mutant: the user's earlier redemptions are not counted.
ApplicableOften(c, u, p) == coupon[c].plans = {} \/ p \in coupon[c].plans

\* validate_for_user: the plan's list, and a count of the user's redemptions.
Applicable(c, u, p) ==
    /\ coupon[c].plans = {} \/ p \in coupon[c].plans
    /\ redeemed[c][u] < coupon[c].perUser

\* purchase_subscription and purchase, up to the first write: the user, the
\* plan and the coupon are read, the discount is computed and checked.
PurchaseLoad(r, u, p, c) ==
    /\ job[r] = None
    /\ Len(invoices) < MaxInvoices
    /\ plan[p] # None /\ plan[p].active
    /\ c # None => CouponLive(coupon[c]) /\ plan[p].price >= coupon[c].min /\ Applicable(c, u, p)
    /\ LET d == IF c = None THEN 0 ELSE Discount(coupon[c], plan[p].price)
       IN  job' = [job EXCEPT ![r] =
             [op |-> "purchase", step |-> "ordered", user |-> u, plan |-> p, coupon |-> c,
              price |-> plan[p].price - d, discount |-> d, days |-> plan[p].days,
              max |-> IF c = None THEN None ELSE coupon[c].max, cached |-> balance[u],
              sub |-> None, row |-> None, at |-> 0]]
    /\ UNCHANGED <<now, shop, books, sub, edits, disturbed>>

Buying(r, step) == job[r] # None /\ job[r].op = "purchase" /\ job[r].step = step
Past(r) == job[r] # None /\ job[r].op = "purchase" /\ job[r].step # "ordered"

\* Row locks that last until the end of the transaction.
CouponLocked(c) == \E r \in Requests : Past(r) /\ job[r].coupon = c
UserLocked(u) ==
    \E r \in Requests : Past(r) /\ job[r].step \in {"debited", "read"} /\ job[r].user = u

\* Mutant: the limit is not part of the UPDATE.
RedeemUnguarded(r) ==
    /\ Buying(r, "ordered") /\ job[r].coupon # None
    /\ ~CouponLocked(job[r].coupon) /\ coupon[job[r].coupon] # None
    /\ job' = [job EXCEPT ![r].step = "redeemed"]
    /\ UNCHANGED <<now, shop, books, sub, edits, disturbed>>

\* redeem: the conditional UPDATE of redeemed_count, with the limit that was
\* loaded, and the redemption row.  Both become visible with the commit.
Redeem(r) ==
    LET c == job[r].coupon IN
    /\ Buying(r, "ordered") /\ c # None
    /\ ~CouponLocked(c)
    /\ coupon[c] # None
    /\ job[r].max # None => coupon[c].count < job[r].max
    /\ job' = [job EXCEPT ![r].step = "redeemed"]
    /\ UNCHANGED <<now, shop, books, sub, edits, disturbed>>

\* Mutant: the purchase does not take the user's row lock.
DebitUnlocked(r) ==
    /\ Buying(r, IF job[r].coupon = None THEN "ordered" ELSE "redeemed")
    /\ 0 < job[r].price /\ job[r].price <= job[r].cached
    /\ job' = [job EXCEPT ![r].step = "debited"]
    /\ UNCHANGED <<now, shop, books, sub, edits, disturbed>>

\* Mutant: the balance is not checked.
DebitUnfunded(r) ==
    /\ Buying(r, IF job[r].coupon = None THEN "ordered" ELSE "redeemed")
    /\ 0 < job[r].price
    /\ ~UserLocked(job[r].user)
    /\ job' = [job EXCEPT ![r].step = "debited"]
    /\ UNCHANGED <<now, shop, books, sub, edits, disturbed>>

\* wallet.debit: lock the user's row, check the loaded balance.
Debit(r) ==
    /\ Buying(r, IF job[r].coupon = None THEN "ordered" ELSE "redeemed")
    /\ 0 < job[r].price /\ job[r].price <= job[r].cached
    /\ ~UserLocked(job[r].user)
    /\ job' = [job EXCEPT ![r].step = "debited"]
    /\ UNCHANGED <<now, shop, books, sub, edits, disturbed>>

\* CouponExhaustedError, a coupon deleted meanwhile, InsufficientFundsError and
\* the ValueError for a price of zero; a crash of the server looks the same.
PurchaseFails(r) ==
    /\ job[r] # None /\ job[r].op = "purchase"
    /\ job' = [job EXCEPT ![r] = None]
    /\ UNCHANGED <<now, shop, books, sub, edits, disturbed>>

\* The active rows of a user, the latest first; none if that one has run out.
Active(u) == {s \in Subs : sub[s] # None /\ sub[s].user = u /\ sub[s].status = "active"}
Latest(u) == {s \in Active(u) : \A t \in Active(u) : sub[t].expires <= sub[s].expires}

\* get_active_subscription.
ActiveSub(u) ==
    LET live == {s \in Latest(u) : sub[s].expires >= now}
    IN  IF live = {} THEN {None} ELSE live

ReadSub(r, s) ==
    /\ Buying(r, "debited")
    /\ s \in ActiveSub(job[r].user)
    /\ job' = [job EXCEPT ![r].step = "read", ![r].sub = s, ![r].at = now,
                          ![r].row = IF s = None THEN None ELSE sub[s]]
    /\ UNCHANGED <<now, shop, books, sub, edits, disturbed>>

\* The row of an extended subscription: the end and the plan are written, the
\* status, which was read as active, is not.
Extended(s, j) ==
    [sub[s] EXCEPT !.expires = j.row.expires + j.days,
                   !.plan = IF j.plan = j.row.plan THEN @ ELSE j.plan]

\* Mutant: redeemed_count is computed from the loaded object.
CountedLate(c) == [coupon[c] EXCEPT !.count = IF @ = 0 THEN 1 ELSE @]
\* redeemed_count = redeemed_count + 1, in SQL.
Counted(c) == [coupon[c] EXCEPT !.count = @ + 1]

\* The rest of purchase, and the route's commit.
PurchaseCommit(r, s) ==
    LET j == job[r]
        from == IF j.sub = None THEN j.at ELSE j.row.expires
    IN  /\ Buying(r, "read")
        /\ IF j.sub = None THEN sub[s] = None ELSE s = j.sub
        /\ sub' = [sub EXCEPT ![s] =
             IF j.sub # None THEN Extended(s, j)
             ELSE [user |-> j.user, plan |-> j.plan, expires |-> j.at + j.days,
                   status |-> "active"]]
        /\ invoices' = Append(invoices, [user |-> j.user, sub |-> s, amount |-> j.price,
                        discount |-> j.discount, from |-> from, till |-> from + j.days,
                        status |-> "paid"])
        /\ balance' = [balance EXCEPT ![j.user] = j.cached - j.price]
        /\ IF j.coupon = None THEN UNCHANGED <<coupon, redeemed>>
           ELSE /\ coupon' = [coupon EXCEPT ![j.coupon] = Counted(j.coupon)]
                /\ redeemed' = [redeemed EXCEPT ![j.coupon][j.user] = @ + 1]
        /\ job' = [job EXCEPT ![r] = None]
        /\ UNCHANGED <<now, plan, edits, ceiling, disturbed>>
-----------------------------------------------------------------------------
\* expire_due_subscriptions, one UPDATE.
ExpireDue ==
    LET due == {s \in Subs : sub[s] # None /\ sub[s].status = "active" /\ sub[s].expires < now}
    IN  /\ due # {}
        /\ sub' = [s \in Subs |-> IF s \in due THEN [sub[s] EXCEPT !.status = "expired"]
                                  ELSE sub[s]]
        /\ disturbed' = (disturbed \/ \E r \in Requests : Buying(r, "read") /\ job[r].sub \in due)
        /\ UNCHANGED <<now, shop, books, job, edits>>

Tick == now < MaxTime /\ now' = now + 1
        /\ UNCHANGED <<shop, books, sub, job, edits, disturbed>>
-----------------------------------------------------------------------------
\* The user and the admin change a subscription: load, then commit.
EditLoad(r, op, s, inv) ==
    /\ job[r] = None /\ edits < MaxEdits
    /\ sub[s] # None
    /\ job' = [job EXCEPT ![r] = [op |-> op, sub |-> s, row |-> sub[s], inv |-> inv]]
    /\ edits' = edits + 1
    /\ UNCHANGED <<now, shop, books, sub, disturbed>>

CancelLoad(r, s) == s \in Latest(sub[s].user) /\ EditLoad(r, "cancel", s, 0)
AdminLoad(r, op, s) == op \in {"admincancel", "extend", "change"} /\ EditLoad(r, op, s, 0)

\* The newest paid invoice of the subscription.
NewestPaid(s) ==
    LET paid == {i \in DOMAIN invoices : invoices[i].sub = s /\ invoices[i].status = "paid"}
    IN  {i \in paid : \A k \in paid : k <= i}
RefundLoad(r, s) == \E i \in NewestPaid(s) : EditLoad(r, "refund", s, i)

\* The columns that got another value than the one loaded are written.
Writes(r, new) ==
    LET old == job[r].row
        s == job[r].sub
        f(c) == IF new[c] = old[c] THEN sub[s][c] ELSE new[c]
    IN  /\ sub' = [sub EXCEPT ![s] = [user |-> sub[s].user, plan |-> f("plan"),
                                      expires |-> f("expires"), status |-> f("status")]]
        /\ job' = [job EXCEPT ![r] = None]
        /\ disturbed' = TRUE

Editing(r, op) == job[r] # None /\ job[r].op = op

\* cancel_my_subscription.
Cancel(r) ==
    /\ Editing(r, "cancel")
    /\ Writes(r, [job[r].row EXCEPT !.status = "canceled"])
    /\ UNCHANGED <<now, shop, books, edits>>

AdminCancelSub(r) ==
    /\ Editing(r, "admincancel")
    /\ Writes(r, [job[r].row EXCEPT !.status = "canceled"])
    /\ UNCHANGED <<now, shop, books, edits>>

\* An ended subscription becomes active again.
AdminExtendSub(r, days) ==
    /\ Editing(r, "extend")
    /\ Writes(r, [job[r].row EXCEPT !.expires = @ + days, !.status = "active"])
    /\ UNCHANGED <<now, shop, books, edits>>

AdminChangePlan(r, p, reset) ==
    /\ Editing(r, "change")
    /\ plan[p] # None
    /\ Writes(r, IF reset THEN [job[r].row EXCEPT !.plan = p, !.status = "active",
                                                  !.expires = now + plan[p].days]
                 ELSE [job[r].row EXCEPT !.plan = p])
    /\ UNCHANGED <<now, shop, books, edits>>

\* admin_refund_sub without an amount: the newest paid invoice goes back to the
\* wallet under a random key, the subscription is canceled, the invoice void.
AdminRefundSub(r) ==
    LET i == job[r].inv IN
    /\ Editing(r, "refund")
    /\ ~UserLocked(job[r].row.user)
    /\ Writes(r, [job[r].row EXCEPT !.status = "canceled"])
    /\ balance' = [balance EXCEPT ![job[r].row.user] = @ + invoices[i].amount]
    /\ invoices' = [invoices EXCEPT ![i].status = "void"]
    /\ UNCHANGED <<now, shop, redeemed, edits>>

\* A blind write of an invoice's status.
SetInvoice(i, status) ==
    /\ edits < MaxEdits /\ edits' = edits + 1
    /\ invoices[i].status # status
    /\ invoices' = [invoices EXCEPT ![i].status = status]
    /\ UNCHANGED <<now, shop, redeemed, balance, sub, job, disturbed>>

AdminVoidInvoice(i) == SetInvoice(i, "void")
AdminMarkInvoicePaid(i) == SetInvoice(i, "paid")
-----------------------------------------------------------------------------
\* Plans.  A route that writes a plan or a coupon counts as an edit.
WritePlan(p, row) ==
    /\ edits < MaxEdits /\ edits' = edits + 1
    /\ plan' = [plan EXCEPT ![p] = row]
    /\ UNCHANGED <<now, coupon, ceiling, books, sub, job, disturbed>>

AdminCreatePlan(p, row) == plan[p] = None /\ WritePlan(p, row)
AdminUpdatePlan(p, row) == plan[p] # None /\ WritePlan(p, row)
AdminDeletePlan(p) == plan[p] # None /\ WritePlan(p, [plan[p] EXCEPT !.active = FALSE])
\* archived_at, which only the price list reads, is left out.
AdminArchivePlan(p) == plan[p] # None /\ WritePlan(p, [plan[p] EXCEPT !.active = FALSE])
AdminClonePlan(p, q) ==
    /\ plan[p] # None /\ plan[q] = None
    /\ WritePlan(q, [plan[p] EXCEPT !.active = FALSE])

WriteCoupons(S, row) ==
    /\ edits < MaxEdits /\ edits' = edits + 1
    /\ coupon' = [c \in Coupons |-> IF c \in S THEN row ELSE coupon[c]]
    /\ ceiling' = [c \in Coupons |-> IF c \notin S THEN ceiling[c] ELSE
         [max |-> Higher(ceiling[c].max, Ceiling(row).max),
          perUser |-> Higher(ceiling[c].perUser, Ceiling(row).perUser)]]
    /\ UNCHANGED <<now, plan, books, sub, job, disturbed>>

WriteCoupon(c, row) == WriteCoupons({c}, row)

\* A code that exists is refused.
AdminCreateCoupon(c, row) == coupon[c] = None /\ WriteCoupon(c, row)

\* The codes that exist are skipped.
AdminImportCoupons(row) ==
    LET new == {c \in Coupons : coupon[c] = None}
    IN  new # {} /\ WriteCoupons(new, row)

\* admin_update_coupon writes the limits, the window, the plans and active; its
\* UPDATE waits for a purchase that holds the row.
AdminUpdateCoupon(c, row) ==
    /\ coupon[c] # None /\ ~CouponLocked(c)
    /\ WriteCoupon(c, [coupon[c] EXCEPT !.max = row.max, !.perUser = row.perUser,
             !.from = row.from, !.until = row.until, !.plans = row.plans, !.active = row.active])

\* admin_delete_coupon; the foreign key of the redemptions holds at the commit.
AdminDeleteCoupon(c) ==
    /\ coupon[c] # None /\ coupon[c].count = 0
    /\ ~CouponLocked(c)
    /\ \A u \in Users : redeemed[c][u] = 0
    /\ WriteCoupon(c, None)

AdminCloneCoupon(c, d) ==
    /\ coupon[c] # None /\ coupon[d] = None
    /\ WriteCoupon(d, [coupon[c] EXCEPT !.active = FALSE, !.count = 0])
-----------------------------------------------------------------------------
Next ==
    \/ Tick \/ ExpireDue
    \/ \E r \in Requests :
         \/ \E u \in Users, p \in Plans, c \in Coupons \cup {None} : PurchaseLoad(r, u, p, c)
         \/ Redeem(r) \/ Debit(r) \/ PurchaseFails(r)
         \/ \E s \in Subs \cup {None} : ReadSub(r, s)
         \/ \E s \in Subs : PurchaseCommit(r, s)
         \/ \E s \in Subs : sub[s] # None /\ (CancelLoad(r, s) \/ RefundLoad(r, s)
                                             \/ \E op \in EditOps : AdminLoad(r, op, s))
         \/ Cancel(r) \/ AdminCancelSub(r) \/ AdminExtendSub(r, 1) \/ AdminRefundSub(r)
         \/ \E p \in Plans, reset \in BOOLEAN : AdminChangePlan(r, p, reset)
    \/ \E i \in DOMAIN invoices : AdminVoidInvoice(i) \/ AdminMarkInvoicePaid(i)
    \/ \E p \in Plans, row \in PlanForms : AdminCreatePlan(p, row) \/ AdminUpdatePlan(p, row)
    \/ \E p \in Plans : AdminDeletePlan(p) \/ AdminArchivePlan(p)
    \/ \E p, q \in Plans : AdminClonePlan(p, q)
    \/ \E c \in Coupons, row \in CouponForms :
         AdminCreateCoupon(c, row) \/ AdminUpdateCoupon(c, row)
    \/ \E row \in CouponForms : AdminImportCoupons(row)
    \/ \E c \in Coupons : AdminDeleteCoupon(c)
    \/ \E c, d \in Coupons : AdminCloneCoupon(c, d)

Spec == Init /\ [][Next]_vars
-----------------------------------------------------------------------------
\* Concurrent purchases never use a coupon more often than the highest
\* max_redemptions it ever had, if it always had one, although each decides on
\* the limit it loaded (coupons.py, redeem).
CouponWithinLimit ==
    \A c \in Coupons : coupon[c] # None /\ ceiling[c].max # None =>
        coupon[c].count <= ceiling[c].max

\* redeemed_count is the number of redemption rows: neither a lost update of the
\* counter nor the deletion of a used coupon separates them (coupons.py, redeem;
\* admin_delete_coupon).
CountIsRedemptions ==
    \A c \in Coupons :
        Cardinality({x \in Users \X (1 .. Len(invoices)) : x[2] <= redeemed[c][x[1]]})
          = IF coupon[c] = None THEN 0 ELSE coupon[c].count

\* A user gets past max_per_user only by requests that were under way together:
\* validate_for_user counts before any of them has committed.
PerUserOvershoot ==
    \A c \in Coupons, u \in Users :
        redeemed[c][u] > 0 => redeemed[c][u] < ceiling[c].perUser + Cardinality(Requests)

\* No two purchases of a user charge for the same day: the wallet's row lock
\* orders them, and each reads the subscription after it has the lock.  Only an
\* edit by hand, or an expiry between read and commit, can break it.
NoDayPaidTwice ==
    ~disturbed => \A i, k \in DOMAIN invoices :
        i # k /\ invoices[i].user = invoices[k].user =>
            invoices[i].till <= invoices[k].from \/ invoices[k].till <= invoices[i].from

\* compute_discount: at most the price, the percentage up to half a dong or the
\* cap, and never more money for a cheaper plan.
FairDiscount(row, a) ==
    LET d == Discount(row, a)
        exact == IF row.percent THEN a * row.off ELSE 100 * row.off
    IN  /\ d <= a /\ d <= Discount(row, a + 1)
        /\ \/ 100 * d - exact \in -50 .. 50
           \/ 100 * d < exact /\ d \in {row.cap, a}
\* For every coupon in the table and all prices up to 9.
DiscountIsFair ==
    \A c \in Coupons, a \in 0 .. 9 : coupon[c] # None => FairDiscount(coupon[c], a)

\* What coupons promise, together: limits, counts and discounts (coupons.py).
CouponsHold ==
    /\ CouponWithinLimit
    /\ CountIsRedemptions
    /\ PerUserOvershoot
    /\ DiscountIsFair
=============================================================================
