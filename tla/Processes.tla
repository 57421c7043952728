----------------------------- MODULE Processes -----------------------------
(***************************************************************************)
(* What the modules about the processes of the API have in common.         *)
(***************************************************************************)
EXTENDS Absent

CONSTANTS
    Servers,    \* processes of the API
    Requests    \* requests that may be under way at a time
=============================================================================
