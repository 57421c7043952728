----------------------------- MODULE BankCursor -----------------------------
(***************************************************************************)
(* What the polls of one bank account read and store (apps/worker/main.py, *)
(* packages/banks/registry.py and the adapters).  The bank is asked for    *)
(* whole days, from the cursor to now and never for more than two days     *)
(* back; a transfer has the day of its posting and may be listed later.    *)
(* Transfers are stored one by one, each in a transaction of its own, and  *)
(* the cursor is moved at the end.  Two pollers may run (BankPoller), and  *)
(* a poll may fail at any of its steps: the bank does not answer, an entry *)
(* cannot be read, the other poller stored it first, the worker dies.      *)
(***************************************************************************)
EXTENDS Integers, Absent

CONSTANTS
    Pollers,       \* tasks that poll the account
    Transfers,     \* transfers to the account
    MaxDay,        \* bound on the days
    MaxFailures    \* bound on the polls that fail

VARIABLES
    day,        \* the current day
    transfer,   \* [posted, listed, prompt] of a transfer, or None
    cursor,     \* last_seen_at of poll_cursors (its day), or None
    stored,     \* the transfers in the transactions table
    poll,       \* [end, todo] of a poll, or None
    failures    \* polls that failed so far

cVars == <<day, transfer, cursor, stored, poll, failures>>

Window == 2
Days == -Window .. MaxDay

Transfer == [posted : Days, listed : BOOLEAN, prompt : BOOLEAN]
Polling == [end : Days, todo : SUBSET Transfers]

ASSUME CursorBounds == MaxDay \in Nat /\ MaxFailures \in Nat

CursorTypeOK ==
    /\ day \in 0 .. MaxDay
    /\ transfer \in [Transfers -> Transfer \cup {None}]
    /\ cursor \in Days \cup {None}
    /\ stored \subseteq Transfers
    /\ poll \in [Pollers -> Polling \cup {None}]
    /\ failures \in 0 .. MaxFailures

CInit ==
    /\ day = 0 /\ cursor = None /\ stored = {} /\ failures = 0
    /\ transfer = [t \in Transfers |-> None]
    /\ poll = [w \in Pollers |-> None]
-----------------------------------------------------------------------------
(* The bank                                                                *)

NextDay ==
    /\ day < MaxDay /\ day' = day + 1
    /\ UNCHANGED <<transfer, cursor, stored, poll, failures>>
BankPosts(t) ==
    /\ transfer[t] = None
    /\ \E now \in BOOLEAN :
          transfer' = [transfer EXCEPT ![t] = [posted |-> day, listed |-> now, prompt |-> now]]
    /\ UNCHANGED <<day, cursor, stored, poll, failures>>
BankLists(t) ==
    /\ transfer[t] # None /\ ~transfer[t].listed
    /\ transfer' = [transfer EXCEPT ![t] = [@ EXCEPT !.listed = TRUE, !.prompt = (transfer[t].posted = day)]]
    /\ UNCHANGED <<day, cursor, stored, poll, failures>>
-----------------------------------------------------------------------------
(* A poll                                                                  *)

\* Mutant: the window is counted from the cursor alone, and a missing one is now.
StartAtCursor == IF cursor = None THEN day ELSE cursor
\* start = max(cursor or end - 2 days, end - 2 days).
Start == IF cursor = None \/ cursor < day - Window THEN day - Window ELSE cursor

\* load_cursor, the window up to now, and list_transactions: the bank filters
\* by the days of start and end.
ListTransactions(w) ==
    /\ poll[w] = None
    /\ poll' = [poll EXCEPT ![w] = [end |-> day,
                                    todo |-> {t \in Transfers : /\ transfer[t] # None /\ transfer[t].listed
                                                                /\ transfer[t].posted \in Start .. day}]]
    /\ UNCHANGED <<day, transfer, cursor, stored, failures>>
\* ingest_transaction: a known reference is skipped; committed on its own.
IngestTransaction(w, t) ==
    /\ poll[w] # None /\ t \in poll[w].todo
    /\ stored' = stored \cup {t}
    /\ poll' = [poll EXCEPT ![w] = [@ EXCEPT !.todo = poll[w].todo \ {t}]]
    /\ UNCHANGED <<day, transfer, cursor, failures>>

\* Mutant: the cursor is the time when the poll is over.
SeenUntilNow(w) == day
\* end was taken before the bank was asked.
SeenUntil(w) == poll[w].end

\* save_cursor and the commit.
SaveCursor(w) ==
    /\ poll[w] # None /\ poll[w].todo = {}
    /\ cursor' = SeenUntil(w)
    /\ poll' = [poll EXCEPT ![w] = None]
    /\ UNCHANGED <<day, transfer, stored, failures>>
\* An exception anywhere in the poll: what is not committed is rolled back.
PollFails(w) ==
    /\ poll[w] # None /\ failures < MaxFailures
    /\ failures' = failures + 1
    /\ poll' = [poll EXCEPT ![w] = None]
    /\ UNCHANGED <<day, transfer, cursor, stored>>
\* admin_reset_poll_cursor deletes the row.
AdminResetPollCursor ==
    /\ cursor # None /\ cursor' = None
    /\ UNCHANGED <<day, transfer, stored, poll, failures>>

PollStep(w) ==
    \/ ListTransactions(w) \/ SaveCursor(w)
    \/ \E t \in Transfers : IngestTransaction(w, t)
CNext ==
    \/ NextDay \/ AdminResetPollCursor
    \/ \E t \in Transfers : BankPosts(t) \/ BankLists(t)
    \/ \E w \in Pollers : PollStep(w) \/ PollFails(w)

\* The poll loop goes on after every outcome.
CFairness == \A w \in Pollers : WF_cVars(PollStep(w))
CSpec == CInit /\ [][CNext]_cVars /\ CFairness
-----------------------------------------------------------------------------
Prompt(t) == transfer[t] # None /\ transfer[t].prompt
Overdue(t) == transfer[t] # None /\ day > transfer[t].posted + Window

\* The cursor passes no transfer that the bank listed on its day: what is not
\* stored is inside the window of the next poll, unless nothing was polled for
\* more than two days (_poll_account; two pollers, failed polls, a reset cursor).
NoTransferPassed ==
    \A t \in Transfers \ stored : Prompt(t) => transfer[t].posted >= Start \/ Overdue(t)

\* Every transfer that is listed on its day is stored in the end, though a poll
\* fails half-way, unless the account is not polled for more than two days.
PromptIsStored == \A t \in Transfers : Prompt(t) ~> (t \in stored \/ Overdue(t))

\* The cursor and the window of the next poll cover what is missing.
CursorHolds == CursorTypeOK /\ NoTransferPassed
=============================================================================
