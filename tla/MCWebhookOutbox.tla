--------------------------- MODULE MCWebhookOutbox ---------------------------
(***************************************************************************)
(* Instances of WebhookOutbox for TLC.                                     *)
(***************************************************************************)
EXTENDS WebhookOutbox, TLC

\* Sound for the safety runs only.
Symmetry == Permutations(Attempts) \cup Permutations(Dispatchers)
=============================================================================
