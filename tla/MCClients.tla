------------------------------- MODULE MCClients -------------------------------
(***************************************************************************)
(* A small instance of Clients for TLC: a shell and a message of the        *)
(* gateway's.                                                              *)
(***************************************************************************)
EXTENDS Clients

CONSTANTS s1, g1

=============================================================================
