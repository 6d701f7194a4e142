---------------------------- MODULE MCRendezvous ----------------------------
(***************************************************************************)
(* Model values for Rendezvous, within Exercises: the three consumers of   *)
(* CONSUM_NUM; and three replies.                                          *)
(***************************************************************************)
EXTENDS Exercises

CONSTANTS c1, c2, c3

MCConsumers == {c1, c2, c3}
MCAsked     == <<"READ", "WRITE", "READ">>
=============================================================================
