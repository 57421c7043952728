# TLA+ specifications of apibank

apibank watches Vietnamese bank accounts (and crypto wallets), matches incoming
transfers with payment orders, credits user wallets, sells subscriptions and
tells its customers' systems about payments by webhook. Its processes (API
servers, the bank worker, the scheduler) share one SQL database, PostgreSQL in
production and SQLite in development, and use Redis for locks and wake-ups.

This directory holds TLA+ modules that follow the source, the TLC runs that
check them on small instances and the theorems that TLAPS checks for every
value of the constants. Paths below are relative to the repository, which
PROJECT.json calls `src/`.

## 1. Inventory

**Where the difficulty is.** Nearly all state is rows of a database. A handler
opens an `AsyncSession`, loads objects, decides, assigns attributes and commits.
SQLAlchemy then writes, by primary key, the columns whose value differs from the
one loaded: nothing is read again, and except in the wallet and in the claims
nothing is locked. What a handler decides on may be stale when it commits.
Around that come crashes between two commits, leases that run out while their
holder still works, answers that are lost, and retries.

| component | state | operations | interacts with | what is hard | what makes it correct |
|---|---|---|---|---|---|
| **wallet ledger** `packages/billing/wallet.py` | `users.balance_vnd`, `wallet_transactions` with a unique key | credit, debit, refund, adjust (all `_apply`) | called by ingest, subscriptions, crypto, admin, in the caller's session | concurrent sessions, identity map, unique-key race that rolls the caller back | balance = sum of rows; a key once; never negative; a serial order exists |
| **webhook outbox** `packages/webhook/dispatcher.py` | `webhook_attempts` (status, attempt, next_run_at, claimed_at), `webhooks.active` | enqueue, reset stuck, claim, load, post, apply, replay, redeliver, cleanup | filled by ingest; drained by the scheduler (tick or Redis kick); replayed by user, API key, admin | several dispatchers, crash with a batch, lease shorter than the batch, late results, replays during a batch | disjoint claims; delivered only if accepted; nothing lost in `dispatching`; bounded tries; every attempt ends |
| **payment orders** `packages/core`, `packages/billing/topup.py`, `packages/db/models.py` | `orders`, `transactions`, `payment_name_reservations` | create (reserve a name), ingest + match, expire, cancel, force-match, match, rematch, reject, refund, bot confirm | poller calls ingest; ingest credits the wallet and fills the outbox; scheduler expires | load/commit races, late transfers against reused names, partial failure of the credit | one name, one open order; a transfer reaches its own order; booked once; a paid topup is credited; no order pending for ever |
| **subscriptions, plans, coupons** `packages/billing/subscription.py`, `coupons.py`, admin routes | `subscriptions`, `plans`, `coupons`, `coupon_redemptions`, `invoices` | purchase, expire, cancel, admin extend, coupon and plan edits | debits the wallet in the same transaction; the scheduler expires | two redemptions at once, edits between load and commit | coupon limits and counts; no day paid twice |
| **crypto invoices and watchers** `packages/crypto`, `routes/crypto.py` | invoices, wallets with a slot count, chain transfers, matches, cursor | create, cancel, expire, scan (EVM, TRON), match, force, reconcile | credits the wallet, enqueues callbacks | reorganisation of the chain, sessions that overlap on one counter | credited once and for a payment; nothing final skipped, nothing stored that may vanish |
| **crypto callbacks** `packages/crypto/callbacks.py` | `crypto_callbacks` | load, post, commit | filled by invoices | no claim; results written at the end of the batch | the row says what the merchant answered; every callback ends |
| **bank poller** `apps/worker/main.py`, `packages/infra_lock.py`, `packages/banks` | Redis lock, task per account, cursor | spawn, cancel, lock, login back-off, poll, store, move cursor | feeds ingest; woken by routes through Redis | lease shorter than a wait, lost messages, transfers listed late | one poller while leases hold; no listed transfer passed over; accounts are served |
| **notifications** `packages/notifications` | `notifications`, `notification_preferences` | notify, broadcast, expiring-soon job, read, dispatch, retry | filled by everyone, drained by the scheduler | one commit after all sends, lost answers | a copy per fault at most; sent or dead in the end |
| **top-up stream and check** `routes/topup_stream.py`, `routes/me.py` | slots per user, subscription; a waiting request | open, subscribe, poll, end; kick and wait | ingest publishes; wakes the poller | payment between read and subscribe, lost messages, stale user row | a payment is told; the balance shown has the credit |
| **API idempotency** `security/idempotency.py`, `routes/orders.py` | `idempotency_keys`, `orders` | look up, create, record | order creation | order and record are two commits; repeats overlap | one answer per key; one order unless requests overlap or die |
| **sign-in** `routes/auth.py`, `security/sessions.py`, admin routes | `users`, `sessions`, reset tokens | login, lockout, logout, change and reset of password | - | requests that load before and commit after each other | a changed password ends other sessions; failures count and lock |
| **second factor** `routes/auth.py`, `me_extra.py` | `two_factors`, challenge tokens, recovery codes | enrol, verify, challenge, regenerate, disable | sign-in | consumption without a guard, codes as one JSON value | token and code serve once; what is enabled was confirmed |
| **e-mail, linking, anonymisation** `routes/auth.py`, `me_extra.py`, `telegram.py`, `admin_users_extra.py` | `users`, `oauth_identities`, `email_tokens` | register, verify, change address, Google, Telegram, anonymise | - | unique constraints met at commit | a verified address has answered; a forgotten one stays forgotten |
| **removal of accounts** | API keys, webhooks, bank accounts of a user | delete (four ways) against create and switch on | poller, outbox | a request let in before the removal | nothing usable is left |
| **configuration cache** `packages/config/runtime.py` | `app_configs`, a copy per process | get, set, invalidate, resolvers | pub/sub to the worker | invalidation before the commit, lost messages, whole-value edits | no stale value after an edit has reached a process; edits are kept |
| **block list** `middleware/system_gates.py` | `ip_blocklist`, a copy per process | add, remove, load, check | - | age counted from the end of a load, failed loads | enforced within a bounded time |
| **limits and metering** `security/rate_limit.py`, `billing/quota.py`, `middleware/usage_metering.py` | Redis counters, in-memory fallback; buffer, `api_usage_daily` | hit, expire; record, flush | every API call | INCR and EXPIRE apart, Redis down, flush that fails | no bucket admits more than its limit; calls add up |
| scheduler `apps/scheduler/main.py` | job table, `_dispatch_lock` | reconcile, webhook, notification, subscription, retention jobs | drives the others | overlap of tick and kick | in the modules of the parts it drives |
| bank adapters, web front end, CLI, migrations, reports | rows without rules of their own | I/O, rendering | - | - | not modelled |

PROJECT.json lists the hazards at their lines, with the property that would see
each of them go wrong, or a note why none does.

## 2. Modules

| module | models | kind |
|---|---|---|
| `Ledger` | what the wallet promises (wallet.py, docstring) | abstract specification |
| `Wallet` | `packages/billing/wallet.py` | component; refines `Ledger` |
| `WalletProofs` | | theorems |
| `WebhookOutbox` | `packages/webhook/dispatcher.py`, the scheduler's webhook job, the replay routes | component |
| `PaymentOrders` | `packages/core`, `allocate_order`, `topup.py`, the order and transaction routes | component |
| `PaymentOrdersProofs` | | theorems |
| `Subscriptions` | purchase, expiry, coupons, plans, and the routes that edit them | component |
| `SubscriptionsProofs` | | theorems |
| `CryptoInvoices` | invoices, wallet slots, EVM and TRON watchers, matching, reconciliation | component |
| `CryptoInvoicesProofs` | | theorems |
| `CryptoCallbacks`, `Notifications` | the two dispatchers without a claim | components |
| `TopupStream`, `TopupCheck`, `UsageMeter` | the event stream, the waiting check, the usage buffer | components |
| `BankPoller`, `BankCursor` | tasks and lock; what a poll reads and stores | components |
| `SignIn`, `SecondFactor`, `AccountMail`, `AccountRemoval` | the account routes | components |
| `ApiOrders`, `ConfigCache`, `BlockList`, `Limits` | what the API keeps beside payments | components |
| `Absent`, `Handlers`, `Processes` | the constants that components share: no row, requests of an account, API processes and their requests | shared |
| `WorkerProofs` | `WebhookOutbox`, `BankPoller`, `BankCursor` | theorems |
| `DeliveryProofs` | `Notifications`, `CryptoCallbacks`, `TopupStream`, `TopupCheck`, `UsageMeter` | theorems |
| `AccessProofs` | `SignIn`, `SecondFactor`, `AccountMail`, `AccountRemoval` | theorems |
| `RuntimeProofs` | `ApiOrders`, `ConfigCache`, `BlockList`, `Limits` | theorems |
| `MCWallet`, `MCWebhookOutbox`, `MCPaymentOrders`, `MCSubscriptions`, `MCCrypto`, `MCDelivery`, `MCBank`, `MCAccess`, `MCRuntime` | | instances for TLC |

Two conventions hold throughout. A request, job or task is a record in a
variable (`job`, `req`, `signReq`, `task`, `batch`, ...): what it loaded, so that a commit can
write from it after others have committed. And a property that holds except for
a named race has a history variable for the race (`overlap`, `excused`, `stale`,
`raced`, `late`, `lapsed`): it is set by the step that makes the race happen, so
that the property says exactly when the promise is kept.

### Wallet

A session is one `AsyncSession`: a database transaction and an identity map. A
call of credit, debit, refund or adjust is three round trips, with other sessions
in between: `KnownKey`/`NewKey` (look the key up), `LockUser` (lock and read the
user, check the funds), `Flush`/`FlushDuplicate` (write, or meet the unique
key). `Open`, `Commit` and `Rollback` are the caller's; a session may make
several calls. `cached` is the user's balance in the identity map: SQLAlchemy
hands an object that the session already holds back without refreshing it, FOR
UPDATE or not. `Preloaded` are the sessions whose caller holds the `User`
before it reaches the wallet: `credit_wallet_for_topup` (topup.py:83), the
purchase route and the admin's wallet routes. `Postgres` chooses the dialect.
The locks of the database, the wait on a unique index and READ COMMITTED
visibility are external. Left out: the call for a user who does not exist, and
`ref_kind`, `note`, `created_by`. A session works on one user, as all callers
do. Amounts are mathematical integers (the column is Numeric(18, 0)).

### WebhookOutbox

One row per attempt with its own webhook. A dispatcher is one scheduler process
(`_dispatch_lock` admits one batch at a time in each). Its steps are `Begin`
(reset stuck rows), `Claim`/`ClaimNothing`, `Load`/`LoadNothing`, `Post` per row
with one of four outcomes, `Apply`. `seen` is what it loaded, and `Apply` writes
only what differs from it, by id. A claim's token is the dispatcher: tokens are
times in microseconds and are taken to be unique. Time is reduced to `due` and
`stale`, the two comparisons the code makes. `LeaseRunsOut` counts an overrun
when the batch still runs. A crash loses the batch. Manual requests load a row
(`ManualLoad`) and commit later (`ManualCommit`). A user's `DELETE` of a webhook
removes its row and is not modelled (attempts refer to it); the API key's
delete, which deactivates, is.

### PaymentOrders

One bank account. Each operation is a load, which remembers what it read in
`job`, and a commit. `Takes` is the INSERT or conditional UPDATE that claims a
name; the reservation table is per account. A transaction's content is the set
of names and codes that `normalize_payment_text` and the substring search find
in it, so two names where one contains the other are out of scope. A
transaction that the bank books is ingested at any later moment: that is how a
late transfer meets a reused name. Time is a small clock, and a request may see
one tick pass (`Tick`). `credited` and `events` stand for the wallet row
`topup:{order.id}` and the webhook attempts. Orders without `transfer_content`,
which predate the reservations, are not modelled. `TTL < Cooldown` is justified
by schemas/orders.py:14 (at most one day) against seven days; with equality the
proof of `WindowsDisjoint` fails, as a cancel that shortens a reservation could
end it before a newer order of the same name.

### Subscriptions

A purchase is `PurchaseLoad` and the round trips after it: it locks the
coupon's row by the conditional UPDATE of `redemption_count` and the user's row
in the wallet, both until its commit. The expiry job, the user's cancel and the
admin's routes load and commit without a lock. Days are units of time, prices
small numbers; the discount is computed as in coupons.py (rounded percentage,
cap, never above the price). `ceiling` is the highest limits a coupon ever had;
a coupon that once had no `max_redemptions` has none there. `change_plan` of the
service has no caller (the admin's route has its own code and is modelled) and
is left out, as is the default key of a purchase (seconds of the clock): each
purchase has its own.

### CryptoInvoices and CryptoCallbacks

`chain` is the chain the RPC node shows, one transfer per block. `Reorg` drops a
block that has fewer confirmations than `net`, `height` being the longest chain
seen. A session (`job`) reads counters and rows, and `Commit` writes what
differs; a unique constraint or an error is `JobFails`. `overlap` is set when a
commit overwrites a counter or a status that has changed since it was read. The
callback dispatcher loads due rows without a claim, posts them one by one and
writes everything at the end; a crash loses what it knew.

### Notifications, TopupStream, TopupCheck, UsageMeter

`Notifications` is of one user: `notify` picks channels from the preferences or
the defaults, the expiring-soon job asks whether it has told within three days,
and the dispatcher sends a batch before its one commit. `arrives` and `ok` of
`Deliver` are apart: a message may arrive though the sender sees an error.
`TopupStream` keeps the count of connections, the subscription and the poll that
stands in for lost messages. `TopupCheck` is the request that waits for its
order. `UsageMeter` swaps the buffer out, writes, and puts it back on failure;
the outcome of a commit may be unknown, and a process may end.

### BankPoller and BankCursor

The supervisor starts, cancels and restarts the task of an account; the task
takes the lock, logs in with back-off, polls while orders are pending, and
renews the lock only between polls. Messages only shorten waits that time out by
themselves, so a wait may end at any time. `lapsed` is set when the lock's key
expires under a live task. `BankCursor` is a poll: the window is whole days from
the cursor, two days at most; each transfer is a transaction of its own; the
cursor moves at the end.

### SignIn, SecondFactor, AccountMail, AccountRemoval

One account each, except `AccountMail`, which has two that compete for addresses.
A request loads rows and commits later; writes are by column, from the loaded
values. `SignIn` numbers passwords, so that a session knows under which it was
opened. `SecondFactor` numbers secrets. `AccountMail` has the unique constraints
of users.email and of (provider, subject), met at the commit.

### ApiOrders, ConfigCache, BlockList, Limits

`ApiOrders` commits the order before the record of its key; `excused` are keys
for which requests overlapped or one died in between. `ConfigCache` numbers
edits; `set_config` clears the copy and publishes before its caller commits, and
the worker alone listens. `BlockList` measures the age of the copy from the end
of the load. `Limits` has the buckets of the rate limiter and of the day and
month quotas, in Redis and in the memory of a process that cannot reach it.

## 3. Runs

Every property of a passing run has at least one mutant in PROJECT.json: a
variant of one definition as a plausible bug would make it, under which TLC must
find that property violated. Deadlock is not checked: sessions, requests and
bounded environments may all come to rest.

A property named `...Holds` is the contract of a component: its type invariant
and the named parts defined above it in the module, each explained by a comment,
and each broken by a mutant of its own. `Proceeds` and `PollersProceed` collect
the temporal properties of a run in the same way.

| run | instance | distinct states | shows |
|---|---|---|---|
| `wallet_fresh` | 2 users, 2 sessions, 3 keys, amounts -1, 0, 1; PostgreSQL, no preloading | 246 555 | `LedgerChain`, `KeysUsedOnce`, `AnswerOnRecord` and the refinement `PostsSerially` |
| `wallet_lost_update` | the same with preloaded users | violation | see below |
| `webhook_manual` | 2 rows, 2 dispatchers, 2 tries, batch 2, a crash, an admin request | 128 878 | `DeliveredWasAcked`, `ClaimsDisjoint`, `StuckIsFindable`, `DeliveredIsFinalUnderClaim` |
| `webhook_live` | batch 1, a crash, an overrun | 120 580 | `TriesWithinBudget` and `EveryAttemptEnds` when late results overwrite newer ones |
| `orders` | 2 topups, 2 transfers, 1 name, 2 requests, time 0..3, every manual operation, a failed credit | 1 198 987 | windows of a name, right order, booked once |
| `orders_live` | 2 names, contents with one or both, amounts 0 and 1, unreliable clocks, an abort | 116 538 | `PaidTopupIsCredited`, `PendingEnds` |
| `subscriptions` | 2 users, 2 requests, 2 plans, 2 coupons, one edit | 396 930 | `CouponsHold`, `NoDayPaidTwice` |
| `crypto` | 2 invoices, 2 sessions, 1 wallet, 3 blocks, EVM and TRON, 0 or 1 confirmations | 412 244 | `CreditsHold`, `SlotsAreOpenInvoices`, `ChainIsFollowed` |
| `delivery` | 3 notifications, 1 callback, 2 dispatchers, 3 streams, 2 checks, 3 calls | 81 668 | the five contracts and `Proceeds` |
| `bank` | 2 workers, 1 transfer, 3 days, a failed poll | 73 657 | `LeaseHolds`, `CursorHolds`, `PollersProceed` |
| `access` | 2 clients, 2 ids, 2 users, 2 addresses, 2 recovery codes | 545 088 | the four contracts |
| `runtime` | 2 requests, 2 keys, 2 bodies, 3 orders; 2 processes, 2 edits; 3 hits | 609 574 | the four contracts |

`delivery`, `bank`, `access` and `runtime` hold several components that share no
variable. An interleaving of two of them has no state that each alone does not
have, so the instance lets one of them move and leaves the others in their
initial states, by a guard (`...Resting`) or by a variable chosen at the start
(`part`). The fair actions of a component at rest are disabled, or guarded the
same way, so that no component is kept from moving by another's fairness.

Why these bounds: the properties are about pairs (two sessions on one user, two
dispatchers on one row, two orders with one name, two requests with one key), so
two of each is where they can first fail; a third key or id lets one do one thing
more than its competitor; two tries make both the retry and the last try happen;
time 0..3 with TTL 1 and Cooldown 2 lets a name be used, cool down and be used
again; three days are one more than the window of a poll; three streams are one
more than a user may open. `orders_live` stops at time 2, where every order has
run out. Symmetry is used where no temporal property is checked.

### Fairness

No run assumes a crash, a fault, a request or an answer of a kind; they are
bounded by constants, as no system survives infinitely many.

- `webhook_live`: the clock, each dispatcher's next step (APScheduler fires the
  job every 30 seconds and httpx bounds every request by its timeouts), and the
  commit of a request that has loaded. Which endpoint answers what is left open:
  `EveryAttemptEnds` rests on `max_attempts`.
- `orders_live`: the clock, the reconcile job (every five minutes), the poller
  and requests under way.
- `delivery`: the waits of rows run out; the notification job (every five
  seconds) and the callback dispatcher load, send (with a time-out) and commit;
  a stream's loop and the usage loop (each minute) go on in a process that runs;
  a check takes its next look. Nothing is assumed of Redis or of the poller.
- `bank`: a task takes its next step (every wait has a time-out), the supervisor
  runs every 30 seconds, Redis drops a key that has expired, a poll goes on.

### Where code and words differ

`wallet_lost_update` violates `BalanceIsLedgerSum`: with two preloaded sessions
(topup.py:83, the purchase route, the admin's wallet routes) the second gets the
lock, computes from the balance it had loaded before, and the first update is
lost, although wallet.py:11-12 promises the sum. With `Postgres = FALSE` the same
happens without preloading.

The other races met while modelling are named by the history variables above or
are hazards in PROJECT.json. The ones a reader of the code should know:

- A user's replay during a batch leaves a row `dispatching` with no claim time
  (dispatcher.py:199-200); a batch that outlives its claim turns `delivered` back
  to pending (scheduler/main.py:29-30).
- A cancel that loaded before the ingest overwrites `paid` (me.py:929); an admin's
  or the bot's match pays a topup without a credit (admin_ops.py:376); a failed
  credit is not retried, though ingest.py:209 says so; an admin's refund takes a
  random key (admin_ops.py:482).
- A 100 % coupon or a free plan ends in `wallet.debit(0)`, a ValueError;
  `auto_renew` is never read; a purchase in the same second as another reuses
  its debit (subscription.py:77).
- A crypto invoice that is completed while it is canceled or expired ends
  canceled; `active_invoice_count` loses updates; the `partial` branch is
  unreachable; `reconcile_tx_hash` ignores the transfer's status; the watchers,
  the expiry and the callback dispatcher have no caller in `apps/`.
- One stored preference replaces all default channels; `muted_until` is never
  read. A stream opened on a paid order never says `paid`; a check that finds the
  order paid at once shows the balance loaded before.
- The poller's lock is not renewed in the login back-off nor while no order is
  pending, and whoever held it deletes it. Transfers listed more than two days
  late are not seen.
- Logout revokes nothing (auth.py:514); `failed_login_count` loses updates;
  challenge tokens and e-mail tokens are consumed without a guard; regenerated
  recovery codes (me_extra.py:233) cannot be read by the login; anonymising a
  second owner of the placeholder address fails on its unique key.
- A flush of the usage meter whose commit has an unknown outcome counts twice;
  the in-memory limiter multiplies the limit by the number of processes.

## 4. Proofs

Every invariant that a passing run checks is a theorem `Spec => []P`
(`StuckIsFindable` under the conditions of its run, see WorkerProofs), and so are
three of the action properties and the refinement of the ledger. Each is
proved from an inductive invariant: `Init` implies it, each action keeps it, and
it implies the property. The proof has a lemma per action, or per kind of step,
and a `...Step` lemma that puts them together.

Assumptions on constants are the named `ASSUME`s of the components, which TLC
evaluates on every run: bounds are natural numbers, delays and thresholds are
not empty and not zero, `None` is none of the values it stands beside, sets that
are counted are finite. Bounds on time, edits, crashes, calls and failures are
arbitrary, so the theorems do not depend on them. What a theorem says beyond its
run is therefore: no third request, longer delay or other limit breaks it.

### WalletProofs

For all users, keys, sessions and amounts. `TypeCorrect`: the type invariant
needs a conjunct that ties `pc` to `req`, `who` and `cached` (a session past its
lookup has a request; one past the lock has a balance).
`KeysAndOverdraft`: `KeysUsedOnce` is not inductive, because rows become visible
only at commit; the strengthening says that the keys of all uncommitted rows are
different from one another and from the committed ones, and that what `Commit`
will write is not negative. It holds on both databases and for all callers.
`LedgerAddsUp` and `WalletImplementsLedger` assume `Serialized` (PostgreSQL, no
preloading): then a session with a cached balance holds the lock, its cached
balance is the committed one plus its uncommitted rows, these form a chain from
the committed end, and a commit is a `Post` of `Ledger` or a stutter.
`AnswersAreOnRecord`: the row that a call returned is committed or in the
session's own transaction, also after the unique key has rolled the session back.
`BalanceIsLedgerSum` itself is only model-checked, since summing a sequence
needs induction; `LedgerChain` is its form without a sum.

### PaymentOrdersProofs

For any orders, names, transfers, requests and times. `OrdersInv` is the
conjunction of: what a process loaded is still there, and the rows it is about to
create are created by nobody else (`LoadedInv`, `MatchedInv`); a process has seen
one tick at most (`ClockInv`); a name is reserved beyond the end of every order
that had it (`ReservedInv`); what was booked fits its order, is over, and is not
in the hands of an ingest again (`BookedInv`); and, without manual operations and
failed credits, only the ingest pays (`CreditInv`). `WindowsDisjoint` alone is
not inductive: a creation commits against the reservation table, not against the
orders, and `ReservedInv` ties the two; it is kept by a cancel because the
cooldown is longer than an order's life. `PaymentReachesItsOrder` then needs that
all candidates an ingest loaded fit the transfer, and of these windows at most one
is open at its time. `TransfersAreBookedOnce` and `PaidTopupsAreCredited` follow
from the last two parts.

### SubscriptionsProofs

For any users, requests, plans, coupons, prices and edits. `SubsInv` says what a
purchase holds after each of its round trips (`JobsInv`), that the row locks of
the coupon and of the user exclude one another (`LockInv`), and that the limits of
a coupon are within the highest it ever had (`LimitInv`). `CouponWithinLimit`
then follows from the conditional UPDATE. The bound on `max_per_user` needs
`OvershootInv`: redemptions and purchases under way of one user together exceed
the limit by less than the number of requests, since each was let in below it.
`NoDayPaidTwice` needs `DaysInv`: unless disturbed by an edit or an expiry between
read and commit, paid days are within their subscription, one subscription of a
user runs, and what a purchase read under the user's lock is still so.
`DiscountsAreFair` is about `compute_discount` for every row and price: never
above the price, the percentage up to half a dong or the cap, and never a larger
discount on a cheaper plan.

Preparing the proof showed two properties to be stated wrongly, and they were
corrected. The ceiling of a coupon that once had no limit counted as 0, which
made `CouponWithinLimit` false for a limit set after redemptions without one (the
run's coupons do not reach that). And `CountIsRedemptions` counted up to
the run's bound on invoices instead of up to their number.

### CryptoInvoicesProofs

For any invoices, wallets, sessions, blocks and confirmations. `GatewayInv` says:
the chain keeps its final blocks (`ChainInv`), what is stored is final and as on
the chain (`StoredInv`), what a session has read, inserted, paired, closed and
created (`SessionsInv`: a scan has stored or inserted all blocks below the ones it
still has to do, and no two sessions insert the same one), a match is of a stored
transfer that pays its invoice (`MatchInv`), a credit has a match (`CreditInv`),
the EVM watcher leaves no gap (`PrefixInv`). `WatchersFollowTheChain` is inductive
only with the part about scans, as a cursor is written from what the session did,
not from the table. `CountersFollowOpenInvoices` compares a counter with the
number of open invoices through a commit that may close several
(FiniteSetTheorems), guarded by `overlap`.

### WorkerProofs

**Webhook outbox.** For any number of rows, dispatchers, tries, crashes, overruns and requests.
`OutboxInv` is the conjunction of: what a dispatcher or a request has `seen` is a
row of the table (`SeenInv`, `RequestInv`); an `ok` outcome, and a `delivered`
status in the table or in somebody's hands, was accepted (`AckInv`); a row that
is held under an unbroken claim is `dispatching` under that claim (`HoldInv`,
guarded by `Unbroken`: no overrun, and no manual request committed yet); without
manual requests a row has a claim exactly while it is `dispatching`, and who loaded
it saw it so (`RowInv`, `LoadedInv`), and with one request of an admin too
(`ClaimedInv`: what the request saw decides what it writes, so it has to find a
row it saw at its end there again); counts are within the budget, the
remembered ones strictly for rows still to be tried (`BudgetInv`).
From it: `OutboxTypeCorrect`, `DeliveredMeansAcked`, `ClaimsAreDisjoint`,
`BudgetAndRecovery` (while `manual = 0`, crashes and overruns included),
`StuckRowsAreFindable` (`overruns = 0`, at most one manual request, and that of an
admin) and the action property `DeliveredStays`.
`TriesStayWithinBudget` covers manual requests too: `Granted` counts the
committed replays of a row, each of which allows one try more (`GrantInv`).
The conditions of `StuckRowsAreFindable` are needed: TLC finds a row that stays in
`dispatching` without a claim time after one user's retry, which leaves
`claimed_at` alone, after two admin requests, and after one with two overruns.

**Bank.** For any number of workers, pollers, transfers, days and failures.
`LeasesHold`: the contract is inductive once who holds the lock is who is alive
(`HeldIsLive`), so that a task which ends without having held it leaves the key.
`CursorsHold`: `NoTransferPassed` is not inductive; `WindowInv` adds that a poll
still has to store what its cursor will pass (`PollInv`), for every poller, so
that it does not matter whose cursor is written last.

### DeliveryProofs

**Check of a top-up** (`WaitedAnswerIsCredited`), for any number of checks and
looks (`LooksAssumption`: at least one). `CheckInv`: a paid order has its credit
or was marked by hand, and a request that saw it paid after a look reads the user
again after the commit that paid it.

**Crypto callbacks** (`CallbacksAreTrue`), for any callbacks, dispatchers,
attempts and delays. Nothing claims a row, so several dispatchers hold it.
`RecordInv` says of every writer, the table and each batch, that it claims no
more than what happened (`SaysNoMore`), which is kept whoever writes last.
`HolderInv` says that without overlap a row has one holder, who knows all of it
(`SaysAll`), or says all of it itself; the second halves of `AttemptsAreRequests`
and `DeadLetterWasRefused` need it. `TodoInv`: what is to be posted is in the
batch and open.

**Top-up streams** (`StreamsAreTrue`), for any number of connections. A counter
is compared with the size of a set (FiniteSetTheorems): each step adds or removes
one element, because a connection that kept its slot has ended for good
(`LeakInv`). `ToldIsTrue` needs `LastInv`: an order leaves `pending` once, so
what a connection knows is `pending` or still so.

**Notifications** (`NotificationsAreTrue`), for any rows, tries, crashes and lost
answers. `CopiesInv`: every copy but the one of a row that counts as sent, in the
table or in the batch, is a crash or a lost answer; `BatchInv`: the batch holds
rows that are pending in the table, and what it will write is true of them;
`InboxInv`: a row that is pending has a try left. `ReadMarksStay` and
`ExpiryIsToldOnce` are the action properties `ReadStaysRead` (the dispatcher
writes the columns it changed, not the row it loaded) and `ToldOnceInThreeDays`
(the job found no recent row of its kind, and `notify` adds one row for a
channel at most: `OneRowPerChannel`).

**Usage meter** (`UsageIsCounted`), for any processes, buckets, calls and faults.
What waits is summed over the processes as the number of pairs of a process and
a number (`Numbered`), so that the sum needs no induction: when the number of
one process changes, the set changes by a row (`NumberedChange`). `SwapInv`: a
process without a transaction has nothing swapped out, or a second flush would
overwrite it. `OneProcessMoves` reduces each action to an equation about one
process.

### AccessProofs

For any clients, each with one request under way, and any sets of rows.

**Removal of accounts** (`RemovedAccountsAreOff`). `RowInv`: what is not there is
off, and a request to switch something knows a row that is there.

**Second factor** (`SecondFactorServesOnce`). `ChallengeInv`: a token that opened
a session is marked, and one that was never in two hands has either opened one
or has one holder. `CodesInv`: until a request writes over what it had not read,
no spent code is among those left. `EnrollInv`: an enrolment found the second
factor not enabled, so that it replaces no confirmed secret by itself.

**Sign-in** (`SessionsFollowThePassword`), for any threshold and lockout times.
`PasswordEndsSessions` is about live sessions and is not inductive: a session that
was logged out stays valid (auth.py:514), so `SessionInv` is about all that stand.
A change of the password revokes first and commits later; `RevokeInv` says that
what the UPDATE did not find is marked as raced. `FailureInv` joins the count with
the lock, `WrongInv` keeps it within the bound.

**E-mail and account data** (`AddressesAreOwned`), for any users and addresses.
`VerifiedWasAnswered` needs to know for whom a token, a link or a request in
between speaks: `KnownInv` says that a token, a Google link and the request that
carries it belong to a row that is there and whose address is the one they were
issued for, or verified since (`Spoken`).

### RuntimeProofs

**Idempotency keys.** For any requests, keys, bodies and orders, under `NoneAssumption`.
`AnswersForAKeyAgree` rests on `AgreeInv`: a record is of an order that was
created for its key and body, and an answer is what the record says, as a record
never changes. `OneOrderForAKey` is not inductive: it needs `AloneInv` (a request
that works on a key which is not excused is alone and finds no record) and
`OwnerInv` (an order of such a key is the one on record or the one of the request
that has just created it). `IdempotencyIsKept` is the contract of the run.

**Block list** (`BlockListIsEnforced`), for any processes, loads, ranges and TTL.
`LoadInv`: what a load has read is right about every range that has not changed
since the load began. As the copy counts its age from the end of the load, its
error is the time of a load, which the property allows for.

**Limits** (`LimitsAreKept`), for any limits, windows, expiries, requests and
processes. `RedisInv` counts, besides the hits that were let through, the requests
that have their INCR and not yet their answer: together they are within the limit,
and within the counter while the bucket is the current one. `ExpiryInv` (a key
expires after its bucket) is why the counter does not start again within the
bucket. `MemoryInv` is the same for a process that counts alone; `RequestInv`: no
request has a bucket that is still to come.

**Configuration** (`ConfigurationIsServed`), for any edits, readers, processes and
TTL. `EditInv`: an edit that has merged will write its own fields and, of the
others, what is due, unless it is on record as overlapped; who has flushed holds
the row. `CopyInv`: copies, and what readers are about to store, were stored no
longer ago than their age (`WasStored`). `ReachInv`: what nobody excuses is the
stored row, and no edit has flushed since. `EditsKept` is inductive with these.

### Only model-checked

- Liveness (`EveryAttemptEnds`, `PendingEnds`, `PollersProceed` and the `~>` parts
  of `Proceeds`): fairness and `ENABLED` are out of TLAPS 1.4.5's reach.
- `BalanceIsLedgerSum`, which is violated; of the sum of a ledger, which needs
  induction over a sequence, `LedgerChain` is the form without a sum.
- That each instance (`MC...`) lets its components move one at a time: the
  theorems are about the components' own specifications.

## 5. Not modelled

Bank adapters (clients of web interfaces; `BankPoller` and `BankCursor` take what
they report as their environment), hashing, TOTP arithmetic, signatures, e-mail
and Telegram texts, PDF, QR, exports, metrics, the web front end, migrations and
the command line tools. The retention jobs of the scheduler delete old rows. In
the admin console, routes that create or edit a single row without a rule of
their own, and reports. `change_plan`, `quota.reset` and `shutdown` of the usage
meter have no caller.

## 6. Plan

1. A composition of ingest, wallet and outbox over the shared commit, with the
   theorems of the three carried over by a refinement mapping.
2. The routes of the admin console that edit a single row, as they get rules of
   their own, and the retention jobs against the rows that others hold.
3. The theorems whose property names a race (`overlap`, `stale`, `raced`,
   `mailLate`) without that proviso, once the code locks the row or repeats the
   read: the history variable then stays FALSE, and its lemma shows where.
