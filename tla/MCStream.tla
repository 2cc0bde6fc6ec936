------------------------------- MODULE MCStream -------------------------------
(***************************************************************************)
(* A small instance of EventStream for TLC: two publishers and a watcher.   *)
(***************************************************************************)
EXTENDS EventStream

CONSTANTS p1, p2, w1

=============================================================================
