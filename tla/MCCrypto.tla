----------------------------- MODULE MCCrypto -----------------------------
(***************************************************************************)
(* Instance of CryptoInvoices for TLC.                                     *)
(***************************************************************************)
EXTENDS CryptoInvoices, TLC

CONSTANT w1

MCForms == {[vnd |-> TRUE, hook |-> TRUE]}
MCPayments == {[to |-> w1, amount |-> 4]}

Symmetry == Permutations(Invoices) \cup Permutations(Requests)
=============================================================================
