----------------------------- MODULE MCDelivery -----------------------------
(***************************************************************************)
(* Instance of Notifications, CryptoCallbacks, TopupStream, TopupCheck and *)
(* UsageMeter for TLC.  They share no state, so an interleaving of two of  *)
(* them shows nothing that each alone does not: TLC explores one at a      *)
(* time, while the others rest in their initial states.                    *)
(***************************************************************************)
EXTENDS Notifications, CryptoCallbacks, TopupStream, TopupCheck, UsageMeter

\* Values of constants that a configuration cannot write.
MCDefaults == [k \in Kinds |-> IF k = Expiring THEN Channels ELSE {"in_app"}]
MCTicks == <<1, 1>>
MCChoices == {<<Expiring, "in_app", FALSE>>}
MCDelays == <<1>>

Init == NInit /\ CbInit /\ SInit /\ UInit /\ TInit

NResting == inbox = <<>> /\ prefEdits = 0 /\ ~chat
CResting == \A k \in Callbacks : row[k] = None
SResting == order = "pending" /\ redis /\ \A s \in Streams : stream[s] = None
UResting == calls = 0 /\ faults = 0 /\ up = Procs
TResting == topup = "pending" /\ ~transfer /\ \A c \in Checks : check[c].pc = "idle"

Next ==
    \/ CResting /\ SResting /\ UResting /\ TResting /\ NNext /\ UNCHANGED <<cbVars, sVars, umVars, tcVars>>
    \/ NResting /\ SResting /\ UResting /\ TResting /\ CbNext /\ UNCHANGED <<nVars, sVars, umVars, tcVars>>
    \/ NResting /\ CResting /\ UResting /\ TResting /\ SNext /\ UNCHANGED <<nVars, cbVars, umVars, tcVars>>
    \/ NResting /\ CResting /\ SResting /\ TResting /\ UNext /\ UNCHANGED <<nVars, cbVars, sVars, tcVars>>
    \/ NResting /\ CResting /\ SResting /\ UResting /\ TNext /\ UNCHANGED <<nVars, cbVars, sVars, umVars>>
Spec == /\ Init /\ [][Next]_<<nVars, cbVars, sVars, umVars, tcVars>>
        /\ NFairness /\ CbFairness /\ SFairness /\ UFairness /\ TFairness
-----------------------------------------------------------------------------
\* Everything ends: notifications are sent or dead (and told once in three
\* days, and read marks kept), callbacks sent or given up, a payment is told
\* with or without Redis, usage leaves its buffer, and a check is answered.
Proceeds ==
    /\ NotificationsProceed
    /\ CallbackSettles
    /\ PaymentIsTold
    /\ BufferEmpties
    /\ CheckIsAnswered
=============================================================================
