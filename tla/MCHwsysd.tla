------------------------------ MODULE MCHwsysd ------------------------------
(* Hwsysd for TLC; the .cfg files give every constant its value. *)
EXTENDS Hwsysd
=============================================================================
