---------------------------- MODULE HwsysAnalog ----------------------------
(***************************************************************************)
(* The range checks of tf_hwsys/lib/events_lib/events_handlers.c.  The     *)
(* events thread hands each analogue register, as the table holds it, to   *)
(* its handler; the handler keeps one static value (prevValue) and logs    *)
(* when check_out_of_range says so.  The module follows one register.      *)
(*                                                                         *)
(* The handlers differ only in the width of the register, in the events    *)
(* after which they keep the new value, and in the events they log; Rule   *)
(* lists them.  A handler that finds no module plugged in (or reads so     *)
(* from the part of its local record that i2c_getData did not fill) leaves *)
(* everything as it is: such passes are stuttering steps here.             *)
(***************************************************************************)
EXTENDS Integers

CONSTANTS
  Kind,               \* which handler: a member of DOMAIN Rule
  STABLE_VALUE,       \* 10 in the code
  RangeMax, RangeMin, \* the REG_..._max and REG_..._min of the register
  Readings,           \* the values the register may measure
  U8, U16, U32        \* the moduli of the unsigned types

Kinds == {"voltage", "humidity", "sfpTemper", "rpsTemper", "shtTemper"}

ASSUME AnalogAssumption ==
  /\ Kind \in Kinds
  /\ STABLE_VALUE \in Nat /\ RangeMax \in Int /\ RangeMin \in Int
  /\ Readings \subseteq Int
  /\ U8 \in Nat \ {0} /\ U16 \in Nat \ {0} /\ U32 \in Nat \ {0}
  /\ RangeMin <= RangeMax
  /\ U8 <= U16 /\ U16 <= U32

VARIABLES
  prevValue,      \* the static of the handler
  reading,        \* the value measured when the handler last ran
  logged,         \* whether that run of the handler wrote a log line
  based, alarmed  \* history: see below

vars == <<prevValue, reading, logged, based, alarmed>>

(* Per handler: first, the initial prevValue; bits, the modulus of the     *)
(* register; signed, whether it is read as int16_t; keeps, the events      *)
(* after which prevValue := value; logs, the events it logs.               *)

(* ADC_CH1..3, RPS_BAT_VOLTAGE, RPS_CHRG_VOLTAGE, SFPn_VOLTAGE,            *)
(* SFPn_CURRENT, SFPn_TX_BIAS, SFPn_TX_POWER_DB, SFPn_RX_POWER_DB          *)
VoltageRule ==
  [first |-> U16 - 1, bits |-> U16, signed |-> FALSE,
   keeps |-> {"CHANGE_VALUE", "OVER_MAX", "LESS_MIN"}, logs |-> {"OVER_MAX", "LESS_MIN"}]

HumidityRule ==
  [first |-> U8 - 1, bits |-> U8, signed |-> FALSE,
   keeps |-> {"CHANGE_VALUE", "OVER_MAX", "LESS_MIN"}, logs |-> {"OVER_MAX", "LESS_MIN"}]

SfpTemperRule ==
  [first |-> U16 - 1, bits |-> U16, signed |-> FALSE,
   keeps |-> {"CHANGE_VALUE", "OVER_MAX"}, logs |-> {"OVER_MAX"}]

RpsTemperRule ==
  [first |-> U8 - 1, bits |-> U8, signed |-> FALSE,
   keeps |-> {"CHANGE_VALUE", "OVER_MAX"}, logs |-> {"OVER_MAX"}]

ShtTemperRule ==
  [first |-> U16 - 1, bits |-> U16, signed |-> TRUE,
   keeps |-> {"OVER_MAX", "LESS_MIN"}, logs |-> {"OVER_MAX", "LESS_MIN"}]

(* The eventsHandler column of sock_msgArr *)
Rule == [voltage   |-> VoltageRule,   humidity  |-> HumidityRule,
         sfpTemper |-> SfpTemperRule, rpsTemper |-> RpsTemperRule,
         shtTemper |-> ShtTemperRule]

rule == Rule[Kind]

(* The initial prevValue is no value of the range, nor near it. *)
ASSUME FirstAssumption == RangeMax + STABLE_VALUE < rule.first

Distance(a, b) == IF a >= b THEN a - b ELSE b - a

(* Mutant: the new value counts as stable up to and including twice the    *)
(* threshold                                                               *)
Stable_Wide(value, prev) == Distance(value, prev) % U16 <= 2 * STABLE_VALUE + 1

Stable(value, prev) == Distance(value, prev) % U16 <= STABLE_VALUE

(* Mutant: the bounds are compared the wrong way round *)
OutEvent_Swapped(value, max, min) ==
  IF value < max THEN "OVER_MAX" ELSE IF value > min THEN "LESS_MIN" ELSE "CHANGE_VALUE"

OutEvent(value, max, min) ==
  IF value > max THEN "OVER_MAX" ELSE IF value < min THEN "LESS_MIN" ELSE "CHANGE_VALUE"

(* All four arguments are uint32_t, the difference is cut to uint16_t; a  *)
(* previous value of 0xFFFF means that there is none yet.                 *)
check_out_of_range(value, prev, max, min) ==
  IF Stable(value, prev) THEN "OK"
  ELSE IF prev = U16 - 1 THEN "CHANGE_VALUE" ELSE OutEvent(value, max, min)

(* Mutant: the handler keeps the register as a signed number *)
Register_Signed(x) == IF 2 * (x % rule.bits) >= rule.bits THEN (x % rule.bits) - rule.bits
                                                       ELSE x % rule.bits

(* What the register holds for a measured x, and what the handler passes  *)
(* on: a uint8_t or uint16_t as it is, an int16_t with its sign extended. *)
Register(x) == x % rule.bits

Argument(x) ==
  IF rule.signed /\ 2 * Register(x) >= rule.bits
  THEN (Register(x) - rule.bits) % U32
  ELSE Register(x)

InRange(x) == RangeMin <= x /\ x <= RangeMax

Init ==
  /\ prevValue = rule.first
  /\ reading = RangeMin /\ logged = FALSE
  /\ based = FALSE /\ alarmed = FALSE

(* One call of the handler with a register that measured x *)
Handle(x) ==
  LET event == check_out_of_range(Argument(x), prevValue, RangeMax % U32, RangeMin % U32)
  IN /\ prevValue' = IF event \in rule.keeps THEN Register(x) ELSE prevValue
     /\ reading' = x
     /\ logged' = (event \in rule.logs)
     \* the handler has seen a value in range
     /\ based' = (based \/ InRange(x))
     \* it has logged since the value was last in range
     /\ alarmed' = (~InRange(x) /\ (alarmed \/ event \in rule.logs))

Next == \E x \in Readings : Handle(x)

Spec == Init /\ [][Next]_vars

-----------------------------------------------------------------------------
(* Properties *)

(* Each variable keeps the width of its declaration. *)
TypeOK ==
  /\ prevValue \in 0 .. rule.bits - 1
  /\ reading \in Readings \cup {RangeMin}
  /\ logged \in BOOLEAN /\ based \in BOOLEAN /\ alarmed \in BOOLEAN

(* A value that has been in range and is now further than twice           *)
(* STABLE_VALUE beyond a limit has been logged since it left the range:   *)
(* the steps the handler takes for noise cannot add up to hide more.      *)
ExcursionLogged ==
  based /\ ~alarmed =>
    RangeMin - 2 * STABLE_VALUE <= reading /\ reading <= RangeMax + 2 * STABLE_VALUE

(* The same for the upper limit alone: an overheat by more than twice      *)
(* STABLE_VALUE has been logged since the value was last in range.         *)
HotLogged == based /\ ~alarmed => reading <= RangeMax + 2 * STABLE_VALUE

(* The handler logs only when the value it was given is out of range. *)
NoFalseAlarm == logged => ~InRange(reading)

(* A log line is never written for a value at or below the upper limit     *)
(* (the handlers of the temperatures log only "overheat").                 *)
OverheatIsHot == logged => reading > RangeMax

(* What makes ExcursionLogged inductive: until it logs, the handler holds  *)
(* on to a value near the range, and the last value is near that one.      *)
Anchored ==
  based /\ ~alarmed =>
    /\ RangeMin - STABLE_VALUE <= prevValue /\ prevValue <= RangeMax + STABLE_VALUE
    /\ Distance(reading, prevValue) <= STABLE_VALUE
=============================================================================
