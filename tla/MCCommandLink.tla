-------------------------- MODULE MCCommandLink --------------------------
(* CommandLink for TLC; the .cfg files give every constant its value. *)
EXTENDS CommandLink
=============================================================================
