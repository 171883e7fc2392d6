--------------------------- MODULE MCHwsysAnalog ---------------------------
(* HwsysAnalog for TLC; the .cfg files give every constant its value. *)
EXTENDS HwsysAnalog

(* REG_RPS_TEMPER_min and REG_SHT_TEMPERATURE_min *)
RpsMin == -60
ShtMin == -600

(* The values a register is taken through *)
PowerReadings    == 0 .. 110 \cup {65500}
TemperReadings   == -45 .. 120
WarmReadings     == 0 .. 120
ShtReadings      == -700 .. 700
=============================================================================
