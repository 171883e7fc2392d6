--------------------------- MODULE MCAutoRestart ---------------------------
(* Small instances of AutoRestart for TLC; the constants are in the cfg files. *)
EXTENDS AutoRestart
=============================================================================
