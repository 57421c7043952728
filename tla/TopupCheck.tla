----------------------------- MODULE TopupCheck -----------------------------
(***************************************************************************)
(* "I have transferred": POST /topups/{id}:check (routes/me.py,            *)
(* check_pending_topup).  The request loads its user, then the order; for  *)
(* a pending order it wakes the poller (banks/poll_kick.py) and looks at   *)
(* the order again every half second until it has ended or the time is up. *)
(* The ingest pays the order and credits the user in one commit; an admin  *)
(* or the bot may mark an order paid by hand, without a credit.            *)
(***************************************************************************)
EXTENDS Integers

CONSTANTS
    Checks,     \* requests of one order, sent again or from two tabs
    MaxLooks    \* _TOPUP_CHECK_MAX_WAIT_SEC / _TOPUP_CHECK_POLL_SEC

\* A request looks at least once.
ASSUME LooksAssumption == MaxLooks \in Nat \ {0}

VARIABLES
    topup,      \* Order.status
    wallet,     \* whether the user's balance holds the credit
    transfer,   \* the bank lists the transfer
    kicked,     \* the poller has been woken
    check,      \* how far a request is, what it has loaded and answers
    byHand      \* history: the order was marked paid by hand

tcVars == <<topup, wallet, transfer, kicked, check, byHand>>

Ended == {"paid", "expired", "canceled"}
NoCheck == [pc |-> "idle", balance |-> FALSE, looks |-> 0, status |-> "pending"]

CheckTypeOK ==
    /\ topup \in Ended \union {"pending"} /\ wallet \in BOOLEAN /\ transfer \in BOOLEAN
    /\ kicked \in BOOLEAN /\ byHand \in BOOLEAN
    /\ check \in [Checks -> [pc : {"idle", "user", "waiting", "paid", "answered"}, balance : BOOLEAN,
                             looks : 0..MaxLooks, status : Ended \union {"pending"}]]

TInit ==
    /\ topup = "pending" /\ wallet = FALSE /\ transfer = FALSE /\ kicked = FALSE /\ byHand = FALSE
    /\ check = [c \in Checks |-> NoCheck]
-----------------------------------------------------------------------------
\* The bank lists the transfer; a poll, woken or on time, ingests it.
BankLists == ~transfer /\ transfer' = TRUE /\ UNCHANGED <<topup, wallet, kicked, check, byHand>>
Poll ==
    /\ (kicked \/ transfer) /\ kicked' = FALSE
    /\ IF transfer /\ topup = "pending" THEN topup' = "paid" /\ wallet' = TRUE ELSE UNCHANGED <<topup, wallet>>
    /\ UNCHANGED <<transfer, check, byHand>>
\* The expiry job, a cancel, or an admin who marks it paid.
EndsOtherwise(s) ==
    /\ topup = "pending" /\ topup' = s /\ byHand' = (s = "paid")
    /\ UNCHANGED <<wallet, transfer, kicked, check>>

\* current_user loads the user in the session of the request.
CurrentUser(c) ==
    /\ check[c].pc = "idle"
    /\ check' = [check EXCEPT ![c].pc = "user", ![c].balance = wallet]
    /\ UNCHANGED <<topup, wallet, transfer, kicked, byHand>>

\* An order that has ended is answered at once, with the balance as loaded;
\* for a pending one the poller is woken.
ReadOrder(c) ==
    /\ check[c].pc = "user"
    /\ IF topup \in Ended
       THEN check' = [check EXCEPT ![c].pc = "answered", ![c].status = topup] /\ UNCHANGED kicked
       ELSE check' = [check EXCEPT ![c].pc = "waiting"] /\ kicked' = TRUE
    /\ UNCHANGED <<topup, wallet, transfer, byHand>>

\* Mutant: the looks are not counted.
LooksNot(n) == n
LooksAfter(n) == n + 1

\* session.refresh(order), and what follows from its status; a pending one is
\* looked at again until the time is up.
Look(c) ==
    LET n == LooksAfter(check[c].looks)
        next == CASE topup = "paid" -> "paid"
                  [] topup = "pending" /\ n < MaxLooks -> "waiting"
                  [] OTHER -> "answered"
    IN
    /\ check[c].pc = "waiting"
    /\ check' = [check EXCEPT ![c].pc = next, ![c].looks = n, ![c].status = topup]
    /\ UNCHANGED <<topup, wallet, transfer, kicked, byHand>>

\* Mutant: the user is answered as loaded.
RefreshedNot(c) == check[c].balance
\* session.refresh(user).
Refreshed(c) == wallet
AnswerPaid(c) ==
    /\ check[c].pc = "paid"
    /\ check' = [check EXCEPT ![c].pc = "answered", ![c].balance = Refreshed(c)]
    /\ UNCHANGED <<topup, wallet, transfer, kicked, byHand>>

CheckStep(c) == ReadOrder(c) \/ Look(c) \/ AnswerPaid(c)
TNext ==
    \/ BankLists \/ Poll \/ \E s \in Ended : EndsOtherwise(s)
    \/ \E c \in Checks : CurrentUser(c) \/ CheckStep(c)

\* A request goes on; nothing is said of the poller.
TFairness == \A c \in Checks : WF_tcVars(CheckStep(c))
TSpec == TInit /\ [][TNext]_tcVars /\ TFairness
-----------------------------------------------------------------------------
(* A request that waited and says the top-up has succeeded shows a balance *)
(* with the credit, however its looks fall between the commits of the      *)
(* ingest, unless the order was marked paid by hand.  (An order found paid *)
(* at once comes with the balance loaded before the order was.)            *)
PaidAnswerIsCredited ==
    \A c \in Checks :
        check[c].pc = "answered" /\ check[c].status = "paid" /\ check[c].looks > 0
            => check[c].balance \/ byHand

(* Every check is answered, though the poller may be down.                 *)
CheckIsAnswered == \A c \in Checks : check[c].pc = "user" ~> check[c].pc = "answered"

\* The answers of check_pending_topup are true.
ChecksHold == CheckTypeOK /\ PaidAnswerIsCredited
=============================================================================
