------------------------------ MODULE MCAccess ------------------------------
(***************************************************************************)
(* Instance of SignIn, SecondFactor, AccountMail and AccountRemoval for    *)
(* TLC.  They share no state; part says which of them a behaviour is of.   *)
(***************************************************************************)
EXTENDS SignIn, SecondFactor, AccountMail, AccountRemoval, TLC

VARIABLE part

\* The lockout with one session, and changes of the password without it.
MCBounds == {[clock |-> 1, fails |-> 3, pw |-> 0, sessions |-> 1, requests |-> 3],
             [clock |-> 0, fails |-> 0, pw |-> 1, sessions |-> 2, requests |-> 3]}
MCDurations == <<1, 2>>

Init ==
    /\ part \in {"S", "F", "M", "R"}
    /\ SInit /\ FInit /\ MInit /\ RInit
    \* the limits of SignIn matter to its own behaviours only
    /\ part # "S" => bound.pw = 0
Next ==
    /\ UNCHANGED part
    /\ \/ part = "S" /\ SNext /\ UNCHANGED <<fVars, mVars, rVars>>
       \/ part = "F" /\ FNext /\ UNCHANGED <<sVars, mVars, rVars>>
       \/ part = "M" /\ MNext /\ UNCHANGED <<sVars, fVars, rVars>>
       \/ part = "R" /\ RNext /\ UNCHANGED <<sVars, fVars, mVars>>
Spec == Init /\ [][Next]_<<part, sVars, fVars, mVars, rVars>>

Symmetry == Permutations(Clients) \union Permutations(SessIds) \union Permutations(Users)
            \union Permutations(Addresses) \union Permutations(RecoveryCodes)
=============================================================================
