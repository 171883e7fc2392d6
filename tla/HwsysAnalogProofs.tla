------------------------- MODULE HwsysAnalogProofs -------------------------
(* Proofs about the range checks of HwsysAnalog, for every threshold, every *)
(* range and every set of readings of the register's width.                 *)
EXTENDS HwsysAnalog, TLAPS

(* The handlers that keep the value after every event and log both ends    *)
Tracking == Kind \in {"voltage", "humidity"}

(* Readings that fit an unsigned register whose lower limit is not negative *)
Unsigned == Readings \subseteq 0 .. rule.bits - 1 /\ RangeMin >= 0

(* An integer below its modulus is its own remainder. *)
LEMMA ModSmall ==
  ASSUME NEW m \in Nat, NEW x \in 0 .. m - 1
  PROVE  x % m = x
  OBVIOUS

(* A remainder is below its modulus. *)
LEMMA ModRange ==
  ASSUME NEW m \in Nat \ {0}, NEW x \in Int
  PROVE  x % m \in 0 .. m - 1
  OBVIOUS

(* What the rule of a tracking handler is. *)
LEMMA TrackingRule ==
  ASSUME Tracking
  PROVE  /\ rule.bits \in Nat /\ rule.bits <= U16 /\ rule.first = rule.bits - 1
         /\ rule.bits >= 1
         /\ ~rule.signed
         /\ rule.keeps = {"CHANGE_VALUE", "OVER_MAX", "LESS_MIN"}
         /\ rule.logs = {"OVER_MAX", "LESS_MIN"}
  BY AnalogAssumption DEF Tracking, rule, Rule, VoltageRule, HumidityRule, SfpTemperRule, RpsTemperRule, ShtTemperRule

(* A tracking handler sees the reading as it is. *)
LEMMA PlainArgument ==
  ASSUME Tracking, Unsigned, NEW x \in Readings
  PROVE  x \in 0 .. rule.bits - 1 /\ Register(x) = x /\ Argument(x) = x
<1>1. x \in 0 .. rule.bits - 1
  BY DEF Unsigned
<1>2. rule.bits \in Nat /\ ~rule.signed
  BY TrackingRule
<1>3. x % rule.bits = x
  BY <1>1, <1>2, ModSmall
<1> QED
  BY <1>1, <1>2, <1>3 DEF Register, Argument

(* The limits are not changed by the conversion to uint32_t. *)
LEMMA PlainLimits ==
  ASSUME Tracking, Unsigned
  PROVE  RangeMax % U32 = RangeMax /\ RangeMin % U32 = RangeMin
<1>1. RangeMax \in 0 .. U32 - 1 /\ RangeMin \in 0 .. U32 - 1
  BY TrackingRule, AnalogAssumption, FirstAssumption DEF Unsigned
<1> QED
  BY <1>1, ModSmall, AnalogAssumption

(* The event of a tracking handler, with the conversions gone. *)
Judge(x, prev) ==
  IF Distance(x, prev) <= STABLE_VALUE THEN "OK"
  ELSE IF prev = U16 - 1 THEN "CHANGE_VALUE" ELSE OutEvent(x, RangeMax, RangeMin)

LEMMA PlainEvent ==
  ASSUME Tracking, Unsigned, NEW x \in Readings, NEW prev \in 0 .. rule.bits - 1
  PROVE  check_out_of_range(Argument(x), prev, RangeMax % U32, RangeMin % U32)
           = Judge(x, prev)
<1>1. x \in 0 .. rule.bits - 1 /\ Argument(x) = x
  BY PlainArgument
<1>2. rule.bits \in Nat /\ rule.bits <= U16 /\ U16 \in Nat
  BY TrackingRule, AnalogAssumption
<1>3. Distance(x, prev) \in 0 .. U16 - 1
  BY <1>1, <1>2 DEF Distance
<1>4. Distance(x, prev) % U16 = Distance(x, prev)
  BY <1>2, <1>3, ModSmall
<1>5. RangeMax % U32 = RangeMax /\ RangeMin % U32 = RangeMin
  BY PlainLimits
<1> QED
  BY <1>1, <1>4, <1>5 DEF check_out_of_range, Stable, Judge

-----------------------------------------------------------------------------
(* Type correctness of every handler: the static never leaves its width.   *)
THEOREM TypeCorrect == Spec => []TypeOK
<1>1. rule.bits \in Nat \ {0} /\ rule.first \in 0 .. rule.bits - 1
  BY AnalogAssumption DEF rule, Rule, VoltageRule, HumidityRule, SfpTemperRule, RpsTemperRule, ShtTemperRule, Kinds
<1>2. Init => TypeOK
  BY <1>1 DEF Init, TypeOK
<1>3. TypeOK /\ [Next]_vars => TypeOK'
  <2> SUFFICES ASSUME TypeOK, [Next]_vars PROVE TypeOK'
    OBVIOUS
  <2>1. CASE UNCHANGED vars
    BY <2>1 DEF TypeOK, vars
  <2>2. CASE Next
    <3>1. PICK x \in Readings : Handle(x)
      BY <2>2 DEF Next
    <3>2. Register(x) \in 0 .. rule.bits - 1
      <4>1. x \in Int
        BY AnalogAssumption
      <4> QED
        BY <1>1, <4>1, ModRange DEF Register
    <3>3. prevValue' \in 0 .. rule.bits - 1
      BY <3>1, <3>2 DEF Handle, TypeOK
    <3>4. reading' \in Readings \cup {RangeMin}
      BY <3>1 DEF Handle
    <3>5. logged' \in BOOLEAN /\ based' \in BOOLEAN /\ alarmed' \in BOOLEAN
      <4> DEFINE event == check_out_of_range(Argument(x), prevValue, RangeMax % U32,
                                             RangeMin % U32)
      <4>1. (event \in rule.logs) \in BOOLEAN
        OBVIOUS
      <4>2. logged' = (event \in rule.logs)
        BY <3>1 DEF Handle
      <4> HIDE DEF event
      <4>3. logged' \in BOOLEAN
        BY <4>1, <4>2
      <4>4. based' \in BOOLEAN /\ alarmed' \in BOOLEAN
        BY <3>1 DEF Handle
      <4> QED
        BY <4>3, <4>4
    <3> QED
      BY <3>3, <3>4, <3>5 DEF TypeOK
  <2> QED
    BY <2>1, <2>2
<1> QED
  BY <1>2, <1>3, PTL DEF Spec

-----------------------------------------------------------------------------
(* One run of a tracking handler keeps the anchor: until the handler logs, *)
(* prevValue stays within STABLE_VALUE of the range, and the last reading   *)
(* within STABLE_VALUE of prevValue.                                       *)
LEMMA HandleAnchored ==
  ASSUME Tracking, Unsigned, TypeOK, Anchored, NEW x \in Readings, Handle(x)
  PROVE  Anchored'
<1> DEFINE event == Judge(x, prevValue)
<1>1. x \in 0 .. rule.bits - 1 /\ Register(x) = x
  BY PlainArgument
<1>2. /\ prevValue \in Int /\ STABLE_VALUE \in Nat /\ U16 \in Nat
      /\ RangeMin \in Int /\ RangeMax \in Int /\ x \in Int
  BY <1>1, TrackingRule, AnalogAssumption DEF TypeOK
<1>3. /\ prevValue' = IF event \in rule.keeps THEN x ELSE prevValue
      /\ reading' = x
      /\ based' = (based \/ InRange(x))
      /\ alarmed' = (~InRange(x) /\ (alarmed \/ event \in rule.logs))
  BY <1>1, PlainEvent DEF Handle, TypeOK
<1>4. /\ rule.keeps = {"CHANGE_VALUE", "OVER_MAX", "LESS_MIN"}
      /\ rule.logs = {"OVER_MAX", "LESS_MIN"}
  BY TrackingRule
<1>5. RangeMax + STABLE_VALUE < U16 - 1
  BY <1>2, TrackingRule, FirstAssumption
<1> SUFFICES ASSUME based', ~alarmed'
             PROVE  /\ RangeMin - STABLE_VALUE <= prevValue'
                    /\ prevValue' <= RangeMax + STABLE_VALUE
                    /\ Distance(reading', prevValue') <= STABLE_VALUE
  BY DEF Anchored, Distance
<1>6. CASE InRange(x)
  <2>1. CASE event = "OK"
    <3>1. Distance(x, prevValue) <= STABLE_VALUE
      BY <2>1 DEF Judge, OutEvent
    <3>2. prevValue' = prevValue /\ reading' = x
      BY <2>1, <1>3, <1>4
    <3> QED
      BY <3>1, <3>2, <1>2, <1>6 DEF Distance, InRange
  <2>2. CASE event # "OK"
    <3>1. event = "CHANGE_VALUE"
      BY <2>2, <1>2, <1>6 DEF Judge, OutEvent, InRange
    <3>2. prevValue' = x /\ reading' = x
      BY <3>1, <1>3, <1>4
    <3> QED
      BY <3>2, <1>2, <1>6 DEF Distance, InRange
  <2> QED
    BY <2>1, <2>2
<1>7. CASE ~InRange(x)
  <2>1. based /\ ~alarmed /\ event \notin rule.logs
    BY <1>3, <1>7, Zenon
  <2>2. /\ RangeMin - STABLE_VALUE <= prevValue
        /\ prevValue <= RangeMax + STABLE_VALUE
    BY <2>1 DEF Anchored
  <2>3. event = "OK"
    BY <2>1, <2>2, <1>2, <1>4, <1>5, <1>7 DEF Judge, OutEvent, InRange
  <2>4. Distance(x, prevValue) <= STABLE_VALUE
    BY <2>3 DEF Judge, OutEvent
  <2>5. prevValue' = prevValue /\ reading' = x
    BY <2>3, <1>3, <1>4
  <2> QED
    BY <2>2, <2>4, <2>5
<1> QED
  BY <1>6, <1>7

(* check_out_of_range with a handler that keeps every value: until it logs,  *)
(* prevValue is within STABLE_VALUE of the range and the last reading within *)
(* STABLE_VALUE of prevValue, however the readings drift.                    *)
THEOREM AnchoredTheorem ==
  ASSUME Tracking, Unsigned
  PROVE  Spec => []Anchored
<1>1. Init => Anchored
  BY DEF Init, Anchored
<1>2. TypeOK /\ Anchored /\ [Next]_vars => Anchored'
  <2> SUFFICES ASSUME TypeOK, Anchored, [Next]_vars PROVE Anchored'
    OBVIOUS
  <2>1. CASE UNCHANGED vars
    BY <2>1 DEF Anchored, vars, Distance
  <2>2. CASE Next
    BY <2>2, HandleAnchored DEF Next
  <2> QED
    BY <2>1, <2>2
<1> QED
  BY <1>1, <1>2, TypeCorrect, PTL DEF Spec

(* So a value that drifts out of range in steps the handler takes for noise  *)
(* is logged before it is more than twice STABLE_VALUE beyond the limit.     *)
THEOREM ExcursionTheorem ==
  ASSUME Tracking, Unsigned
  PROVE  Spec => []ExcursionLogged
<1>1. TypeOK /\ Anchored => ExcursionLogged
  <2> SUFFICES ASSUME TypeOK, Anchored, based, ~alarmed
               PROVE  /\ RangeMin - 2 * STABLE_VALUE <= reading
                      /\ reading <= RangeMax + 2 * STABLE_VALUE
    BY DEF ExcursionLogged
  <2>1. /\ prevValue \in Int /\ reading \in Int /\ STABLE_VALUE \in Nat
        /\ RangeMin \in Int /\ RangeMax \in Int
    BY TrackingRule, AnalogAssumption DEF TypeOK
  <2>2. /\ RangeMin - STABLE_VALUE <= prevValue
        /\ prevValue <= RangeMax + STABLE_VALUE
        /\ Distance(reading, prevValue) <= STABLE_VALUE
    BY DEF Anchored
  <2> QED
    BY <2>1, <2>2 DEF Distance
<1> QED
  BY <1>1, AnchoredTheorem, TypeCorrect, PTL

(* A tracking handler logs only a reading that is out of range. *)
THEOREM NoFalseAlarmTheorem ==
  ASSUME Tracking, Unsigned
  PROVE  Spec => []NoFalseAlarm
<1>1. Init => NoFalseAlarm
  BY DEF Init, NoFalseAlarm
<1>2. TypeOK /\ NoFalseAlarm /\ [Next]_vars => NoFalseAlarm'
  <2> SUFFICES ASSUME TypeOK, NoFalseAlarm, [Next]_vars PROVE NoFalseAlarm'
    OBVIOUS
  <2>1. CASE UNCHANGED vars
    BY <2>1 DEF NoFalseAlarm, vars, InRange
  <2>2. CASE Next
    <3>1. PICK x \in Readings : Handle(x)
      BY <2>2 DEF Next
    <3>2. logged' = (Judge(x, prevValue) \in {"OVER_MAX", "LESS_MIN"}) /\ reading' = x
      BY <3>1, PlainEvent, TrackingRule DEF Handle, TypeOK
    <3>3. x \in Int /\ RangeMin \in Int /\ RangeMax \in Int
      BY AnalogAssumption
    <3>4. Judge(x, prevValue) \in {"OVER_MAX", "LESS_MIN"} => ~InRange(x)
      BY <3>3 DEF Judge, OutEvent, InRange
    <3>5. logged' => ~InRange(x)
      BY <3>2, <3>4, Zenon
    <3> QED
      BY <3>2, <3>5 DEF NoFalseAlarm, InRange
  <2> QED
    BY <2>1, <2>2
<1> QED
  BY <1>1, <1>2, TypeCorrect, PTL DEF Spec

-----------------------------------------------------------------------------
(* handler_SHT_TEMPERATURE keeps no value until it has logged, and logs     *)
(* nothing until it has a value: it never writes a line, for any reading.  *)
THEOREM ShtSilent ==
  ASSUME Kind = "shtTemper"
  PROVE  Spec => [](~logged)
<1> DEFINE Silent == prevValue = U16 - 1 /\ ~logged
<1>1. /\ rule.first = U16 - 1
      /\ rule.keeps = {"OVER_MAX", "LESS_MIN"} /\ rule.logs = {"OVER_MAX", "LESS_MIN"}
  BY DEF rule, Rule, VoltageRule, HumidityRule, SfpTemperRule, RpsTemperRule, ShtTemperRule
<1>2. Init => Silent
  BY <1>1 DEF Init
<1>3. Silent /\ [Next]_vars => Silent'
  <2> SUFFICES ASSUME Silent, [Next]_vars PROVE Silent'
    OBVIOUS
  <2>1. CASE UNCHANGED vars
    BY <2>1 DEF vars
  <2>2. CASE Next
    <3>1. PICK x \in Readings : Handle(x)
      BY <2>2 DEF Next
    <3> DEFINE event == check_out_of_range(Argument(x), prevValue, RangeMax % U32,
                                           RangeMin % U32)
    <3>2. event \in {"OK", "CHANGE_VALUE"}
      BY DEF check_out_of_range
    <3>3. event \notin rule.keeps /\ event \notin rule.logs
      BY <3>2, <1>1
    <3>4. /\ prevValue' = IF event \in rule.keeps THEN Register(x) ELSE prevValue
          /\ logged' = (event \in rule.logs)
      BY <3>1 DEF Handle
    <3>5. prevValue' = prevValue
      BY <3>3, <3>4, Zenon
    <3>6. ~logged'
      BY <3>3, <3>4, Zenon
    <3> QED
      BY <3>5, <3>6
  <2> QED
    BY <2>1, <2>2
<1>4. Silent => ~logged
  OBVIOUS
<1> QED
  BY <1>2, <1>3, <1>4, PTL DEF Spec
=============================================================================
