------------------------------- MODULE MCPool -------------------------------
(***************************************************************************)
(* Small instances of WorkerPool for TLC.                                  *)
(***************************************************************************)
EXTENDS WorkerPool

CONSTANTS m1, m2, w1, w2, c1, c2

=============================================================================
