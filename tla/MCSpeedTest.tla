---------------------------- MODULE MCSpeedTest ----------------------------
(* SpeedTest for TLC; the .cfg files give every constant its value.  The   *)
(* widths are scaled down together, the moduli to 32 and 48.               *)
EXTENDS SpeedTest

(* Limits that are accepted, and such whose minimum is too low *)
SmallLimits == {[max |-> 12, min |-> 8], [max |-> 12, min |-> 1]}

(* Limits that no reload changes *)
OnePair == {[max |-> 12, min |-> 8]}

(* A maximum beyond the uint16_t *)
WideLimits == {[max |-> 70, min |-> 4]}
=============================================================================
