----------------------------- MODULE MCRuntime -----------------------------
(***************************************************************************)
(* Instance of ApiOrders, ConfigCache, BlockList and Limits for TLC.  They *)
(* share no state; part says which of them a behaviour is of.              *)
(***************************************************************************)
EXTENDS ApiOrders, ConfigCache, BlockList, Limits, TLC

CONSTANTS Api, Worker

VARIABLE part

MCLength == [rate |-> 1, day |-> 1, month |-> 2]
MCLimit == [rate |-> 2, day |-> 1, month |-> 1]
MCExtra == [rate |-> 1, day |-> 1, month |-> 0]

Init ==
    /\ part \in {"A", "C", "B", "L"}
    /\ AInit /\ CInit /\ BInit /\ LInit
Next ==
    /\ UNCHANGED part
    /\ \/ part = "A" /\ ANext /\ UNCHANGED <<ccVars, blVars, lmVars>>
       \/ part = "C" /\ CNext /\ UNCHANGED <<aoVars, blVars, lmVars>>
       \/ part = "B" /\ BNext /\ UNCHANGED <<aoVars, ccVars, lmVars>>
       \/ part = "L" /\ LNext /\ UNCHANGED <<aoVars, ccVars, blVars>>
Spec == Init /\ [][Next]_<<part, aoVars, ccVars, blVars, lmVars>>

Symmetry == Permutations(Requests) \union Permutations(Fields)
=============================================================================
