------------------------------ MODULE Handlers ------------------------------
(***************************************************************************)
(* The requests under way of the modules about accounts: a request loads   *)
(* rows, computes, and commits later, so that requests interleave.         *)
(***************************************************************************)
CONSTANT Clients    \* requests that may be under way at a time

Idle == [op |-> "idle"]
=============================================================================
