---------------------------- MODULE MCRealtekPoe ----------------------------
(* RealtekPoe for TLC; the .cfg files give every constant its value. *)
EXTENDS RealtekPoe
=============================================================================
