-------------------------- MODULE MCPaymentOrders --------------------------
(***************************************************************************)
(* Instances of PaymentOrders for TLC.                                     *)
(***************************************************************************)
EXTENDS PaymentOrders, TLC

\* Every order costs 1.
MCPrice == [o \in Orders |-> 1]

\* Sound for the safety runs only.
Symmetry == Permutations(Orders) \cup Permutations(Txs) \cup Permutations(Requests)
=============================================================================
