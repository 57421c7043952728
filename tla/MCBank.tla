------------------------------- MODULE MCBank -------------------------------
(***************************************************************************)
(* Instance of BankPoller and BankCursor for TLC.  They share no state;    *)
(* TLC explores one at a time while the other rests in its initial state.  *)
(***************************************************************************)
EXTENDS BankPoller, BankCursor

PResting == /\ ~lock /\ ~order /\ ~lapsed /\ \A w \in Workers : task[w].step = "none"
            /\ account = [status |-> "active", enabled |-> TRUE, onlyPending |-> TRUE, session |-> FALSE]
CResting == day = 0 /\ failures = 0 /\ cursor = None /\ \A t \in Transfers : transfer[t] = None
            /\ \A w \in Pollers : poll[w] = None

Init == BInit /\ CInit
Next ==
    \/ CResting /\ BNext /\ UNCHANGED cVars
    \/ PResting /\ CNext /\ UNCHANGED bVars

\* BFairness and CFairness of the one that is explored.
Fairness ==
    /\ \A w \in Workers : /\ WF_bVars(CResting /\ TaskStep(w))
                           /\ WF_bVars(CResting /\ ReconcileAccounts(w))
    /\ \A w \in Pollers : WF_cVars(PResting /\ PollStep(w))
    /\ WF_bVars(CResting /\ LockExpires)
Spec == Init /\ [][Next]_<<bVars, cVars>> /\ Fairness
-----------------------------------------------------------------------------
\* AccountIsServed while the poller is the one that is explored.
AccountIsServedHere ==
    [](CResting => <>(~CResting \/ ~Wanted \/ \E w \in Workers : Live(w)))
\* Though messages are lost, a paused account is left alone, a waiting task
\* notices an order and an account that is to be polled has a task; and every
\* transfer listed on its day is stored in the end.
PollersProceed == PauseIsHeard /\ OrderWakesPoller /\ AccountIsServedHere /\ PromptIsStored
=============================================================================
