------------------------------- MODULE Absent -------------------------------
(***************************************************************************)
(* The value that stands for what is not there, shared by the modules that *)
(* are checked or proved about together.                                   *)
(***************************************************************************)
CONSTANT None   \* no row, no value in a column, nothing loaded, nobody
=============================================================================
