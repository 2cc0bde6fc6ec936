------------------------------ MODULE MCService ------------------------------
(***************************************************************************)
(* Small instances of MissionService for TLC.                              *)
(***************************************************************************)
EXTENDS MissionService

CONSTANT c1

=============================================================================
