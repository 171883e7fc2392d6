-------------------------- MODULE SpeedTestProofs --------------------------
(***************************************************************************)
(* Proofs about SpeedTest for every value of its constants: the widths of  *)
(* the fields hold, and while limits and counters fit those widths the     *)
(* verdict of port_runTestSpeed is the right one for every round no reload *)
(* fell into, whatever statements earlier reloads fell between.            *)
(***************************************************************************)
EXTENDS SpeedTest, TLAPS

(* A number below the modulus is its own remainder. *)
LEMMA ModSmall ==
  ASSUME NEW m \in Nat, NEW x \in 0 .. m - 1
  PROVE  x % m = x
  OBVIOUS

(* A remainder is below its modulus. *)
LEMMA ModRange ==
  ASSUME NEW m \in Nat \ {0}, NEW x \in Int
  PROVE  x % m \in 0 .. m - 1
  OBVIOUS

(* A quotient is no larger than what is divided. *)
LEMMA DivRange ==
  ASSUME NEW m \in Nat \ {0}, NEW x \in Nat
  PROVE  x \div m \in 0 .. x
  OBVIOUS

(* The product of natural numbers is one. *)
LEMMA TimesNat ==
  ASSUME NEW a \in Nat, NEW b \in Nat
  PROVE  a * b \in Nat
  OBVIOUS

(* What strtol gives is never beyond LongMax. *)
LEMMA StrtolRange ==
  ASSUME NEW x \in Nat
  PROVE  Strtol(x) \in 0 .. LongMax
  BY SpeedAssumption DEF Strtol

(* The bits of a round, while they fit, are the bits received. *)
LEMMA BitsExact ==
  ASSUME NEW d \in Nat, d * BYTE < U32
  PROVE  ((d % U32) * BYTE) % U32 = d * BYTE
<1>1. d * BYTE \in 0 .. U32 - 1
  BY TimesNat, SpeedAssumption
<1>2. BYTE >= 1 => d <= d * BYTE
  BY SpeedAssumption
<1>3. d \in 0 .. U32 - 1
  BY <1>1, <1>2, SpeedAssumption
<1> QED
  BY <1>1, <1>3, ModSmall, SpeedAssumption

(* The limits that setSpeed can leave are of the width of uint16_t. *)
LEMMA SetSpeedRange ==
  ASSUME NEW a \in Limits, NEW s \in setSpeed(a)
  PROVE  s \in [ok : BOOLEAN, max : 0 .. U16 - 1, min : 0 .. U16 - 1]
<1>1. a.max % U16 \in 0 .. U16 - 1 /\ a.min % U16 \in 0 .. U16 - 1
  BY ModRange, SpeedAssumption
<1> DEFINE R == [ok : BOOLEAN, max : 0 .. U16 - 1, min : 0 .. U16 - 1]
<1>2. \A b \in BOOLEAN, x, y \in 0 .. U16 - 1 : [ok |-> b, max |-> x, min |-> y] \in R
  OBVIOUS
<1>3. 0 \in 0 .. U16 - 1
  BY SpeedAssumption
<1> HIDE DEF R
<1>4. \A x, y \in 0 .. U16 - 1 : port_setSpeedParam(x, y) \in R
  BY <1>2, <1>3 DEF port_setSpeedParam
<1>5. s = port_setSpeedParam(a.max % U16, a.min % U16) \/ s = [ok |-> FALSE, max |-> 0, min |-> 0]
  BY DEF setSpeed
<1>6. s \in R
  BY <1>1, <1>2, <1>3, <1>4, <1>5
<1> QED
  BY <1>6 DEF R

(* Limits that fit a uint16_t: what the proof of the verdict asks for. *)
LimitsFit == \A a \in Limits : a.max < U16 /\ a.min < U16

(* Then the limits setSpeed accepts are the ones asked for. *)
LEMMA SetSpeedExact ==
  ASSUME LimitsFit, NEW a \in Limits, NEW s \in setSpeed(a), s.ok
  PROVE  s.max = a.max /\ s.min = a.min
<1>1. a.max \in 0 .. U16 - 1 /\ a.min \in 0 .. U16 - 1
  BY SpeedAssumption DEF LimitsFit
<1>2. a.max % U16 = a.max /\ a.min % U16 = a.min
  BY <1>1, ModSmall, SpeedAssumption
<1> QED
  BY <1>2 DEF setSpeed, port_setSpeedParam

-----------------------------------------------------------------------------
(* TypeOK in three parts: the limits, the other numbers, truth values. *)
LimitTypes ==
  /\ asked \in Limits
  /\ parsed \in [ok : BOOLEAN, max : 0 .. U16 - 1, min : 0 .. U16 - 1]
  /\ min_speed \in 0 .. U16 - 1 /\ max_speed \in 0 .. U16 - 1

Numbers ==
  /\ test \in {"speed", "disable"} /\ load \in Loads /\ pc \in Steps
  /\ rx_delta_byte \in 0 .. U32 - 1 /\ rx_byte_current \in 0 .. LongMax
  /\ rx_byte_prev \in 0 .. LongMax
  /\ time_current \in 0 .. MaxNow /\ time_prev \in 0 .. MaxNow
  /\ delta_time \in 0 .. U32 - 1 /\ rx_delta_bit \in 0 .. U32 - 1
  /\ rx \in Nat /\ now \in 0 .. MaxNow
  /\ reloads \in 0 .. MaxReloads /\ sets \in 0 .. MaxSets /\ output \in 0 .. rx
  /\ seen \in {NoRound} \cup 0 .. rx /\ seenAt \in 0 .. MaxNow /\ at \in 0 .. MaxNow

Truths ==
  /\ failed \in BOOLEAN /\ out \in BOOLEAN /\ disturbed \in BOOLEAN
  /\ known \in BOOLEAN /\ fits \in BOOLEAN /\ right \in BOOLEAN /\ overlapped \in BOOLEAN

LEMMA LimitTypesStep == LimitTypes /\ [Next]_vars => LimitTypes'
<1> SUFFICES ASSUME LimitTypes, [Next]_vars PROVE LimitTypes'
  OBVIOUS
<1> USE SpeedAssumption DEF LimitTypes, limits, reload
<1>1. CASE Restart
  BY <1>1, SetSpeedRange DEF Restart
<1>2. CASE Getting
  <2>1. CASE Reload
    BY <2>1 DEF Reload
  <2>2. CASE ReloadZero
    BY <2>2 DEF ReloadZero, Zeroed
  <2>3. CASE ReloadTime \/ ReloadTest \/ ReloadEnd
    BY <2>3 DEF ReloadTime, ReloadTest, ReloadEnd
  <2>4. CASE ReloadMax
    BY <2>4, SetSpeedRange DEF ReloadMax
  <2>5. CASE ReloadMin
    BY <2>5 DEF ReloadMin
  <2> QED
    BY <1>2, <2>1, <2>2, <2>3, <2>4, <2>5 DEF Getting
<1>3. CASE Testing
  BY <1>3 DEF Testing, Sample, Current, Delta, Prev, Time, Elapsed, Stamp, Bits, Low,
     High, Verdict, NoLink
<1>4. CASE Second \/ ClockSet
  BY <1>4 DEF Second, ClockSet
<1>5. CASE UNCHANGED vars
  BY <1>5 DEF vars
<1> QED
  BY <1>1, <1>2, <1>3, <1>4, <1>5 DEF Next

LEMMA NumbersStep == Numbers /\ [Next]_vars => Numbers'
<1> SUFFICES ASSUME Numbers, [Next]_vars PROVE Numbers'
  OBVIOUS
<1> USE SpeedAssumption, WidthAssumption
    DEF Numbers, Loads, Steps, ZeroOrder, NoRound, limits, counts, times, reload, local,
        world, bounds, round, verdict
<1>1. CASE Restart
  BY <1>1 DEF Restart, Handled
<1>2. CASE Getting
  <2>1. CASE Reload
    BY <2>1 DEF Reload, Disturb
  <2>2. CASE ReloadZero
    BY <2>2 DEF ReloadZero, Zeroed
  <2>3. CASE ReloadTime \/ ReloadTest \/ ReloadMax \/ ReloadMin \/ ReloadEnd
    BY <2>3 DEF ReloadTime, ReloadTest, ReloadMax, ReloadMin, ReloadEnd, Handled
  <2> QED
    BY <1>2, <2>1, <2>2, <2>3 DEF Getting
<1>3. CASE Testing
  <2>1. CASE Sample
    BY <2>1 DEF Sample, At
  <2>2. CASE Current
    BY <2>2, StrtolRange DEF Current, At
  <2>3. CASE Delta
    <3>1. (rx_byte_current - rx_byte_prev) % U32 \in 0 .. U32 - 1
      BY ModRange
    <3> QED
      BY <2>3, <3>1 DEF Delta, At
  <2>4. CASE Prev
    BY <2>4 DEF Prev, At
  <2>5. CASE Time
    BY <2>5 DEF Time, At
  <2>6. CASE Elapsed
    <3>1. (time_current - time_prev) % U32 \in 0 .. U32 - 1
      BY ModRange
    <3> QED
      BY <2>6, <3>1 DEF Elapsed, At
  <2>7. CASE Stamp
    BY <2>7 DEF Stamp, At
  <2>8. CASE Bits
    <3>1. rx_delta_byte * BYTE \in Int
      BY TimesNat
    <3>2. (rx_delta_byte * BYTE) % U32 \in 0 .. U32 - 1
      BY <3>1, ModRange
    <3> QED
      BY <2>8, <3>2 DEF Bits, At
  <2>9. CASE Low
    BY <2>9 DEF Low, At
  <2>10. CASE High
    BY <2>10 DEF High, At
  <2>11. CASE Verdict
    <3>1. /\ pc' = "idle" /\ output' = 0 /\ delta_time' = 0 /\ rx_delta_bit' = 0 /\ at' = 0
          /\ seen' \in {NoRound, output} /\ seenAt' \in {0, at}
          /\ UNCHANGED <<counts, times, reload, world, bounds>>
      BY <2>11 DEF Verdict, At
    <3> QED
      BY <3>1
  <2>12. CASE NoLink
    BY <2>12 DEF NoLink
  <2> QED
    BY <1>3, <2>1, <2>2, <2>3, <2>4, <2>5, <2>6, <2>7, <2>8, <2>9, <2>10, <2>11, <2>12
       DEF Testing
<1>4. CASE Second
  <2>1. PICK b \in Bursts : rx' = rx + b
    BY <1>4 DEF Second
  <2>2. rx' \in Nat /\ rx <= rx'
    BY <2>1
  <2> QED
    BY <1>4, <2>2 DEF Second
<1>5. CASE ClockSet
  BY <1>5 DEF ClockSet, Disturb
<1>6. CASE UNCHANGED vars
  BY <1>6 DEF vars
<1> QED
  BY <1>1, <1>2, <1>3, <1>4, <1>5, <1>6 DEF Next

LEMMA TruthsStep == Truths /\ [Next]_vars => Truths'
<1> SUFFICES ASSUME Truths, [Next]_vars PROVE Truths'
  OBVIOUS
<1> USE DEF Truths, local, round, verdict
<1>1. CASE Restart
  BY <1>1, Zenon DEF Restart
<1>2. CASE Getting
  <2>1. CASE Reload
    BY <2>1, Zenon DEF Reload, Disturb
  <2>2. CASE ReloadZero \/ ReloadTime \/ ReloadMax \/ ReloadMin
    BY <2>2, Zenon DEF ReloadZero, ReloadTime, ReloadMax, ReloadMin
  <2>3. CASE ReloadTest \/ ReloadEnd
    BY <2>3, Zenon DEF ReloadTest, ReloadEnd
  <2> QED
    BY <1>2, <2>1, <2>2, <2>3 DEF Getting
<1>3. CASE Testing
  <2>1. CASE Sample
    BY <2>1, Zenon DEF Sample
  <2>2. CASE Current \/ Delta \/ Prev \/ Time \/ Elapsed \/ Stamp \/ Bits
    BY <2>2, Zenon DEF Current, Delta, Prev, Time, Elapsed, Stamp, Bits
  <2>3. CASE Low \/ High
    BY <2>3, Zenon DEF Low, High
  <2>4. CASE Verdict
    <3>1. failed' \in BOOLEAN /\ overlapped' \in BOOLEAN /\ out' \in BOOLEAN
          /\ disturbed' \in BOOLEAN
      BY <2>4, Zenon DEF Verdict
    <3>2. known' \in BOOLEAN
      BY <2>4, Zenon DEF Verdict
    <3>3. fits' \in BOOLEAN
      BY <2>4, Zenon DEF Verdict
    <3>4. right' \in BOOLEAN
      BY <2>4, Zenon DEF Verdict
    <3> QED
      BY <3>1, <3>2, <3>3, <3>4
  <2>5. CASE NoLink
    BY <2>5, Zenon DEF NoLink
  <2> QED
    BY <1>3, <2>1, <2>2, <2>3, <2>4, <2>5 DEF Testing
<1>4. CASE Second
  BY <1>4, Zenon DEF Second
<1>5. CASE ClockSet
  BY <1>5, Zenon DEF ClockSet, Disturb
<1>6. CASE UNCHANGED vars
  BY <1>6, Zenon DEF vars
<1> QED
  BY <1>1, <1>2, <1>3, <1>4, <1>5, <1>6 DEF Next

LEMMA TypeInit == Init => LimitTypes /\ Numbers /\ Truths
<1> SUFFICES ASSUME Init PROVE LimitTypes /\ Numbers /\ Truths
  OBVIOUS
<1>1. LimitTypes
  BY SetSpeedRange DEF Init, LimitTypes
<1>2. Numbers
  BY SpeedAssumption, WidthAssumption DEF Init, Numbers, Loads, Steps, Handled
<1>3. Truths
  BY Zenon DEF Init, Truths
<1> QED
  BY <1>1, <1>2, <1>3

(* Type correctness: no field of portConfigInfo leaves its width, for any  *)
(* limits, traffic and clock, between any two statements of the threads.   *)
THEOREM TypeCorrect == Spec => []TypeOK
<1>1. (LimitTypes /\ Numbers /\ Truths) /\ [Next]_vars => (LimitTypes /\ Numbers /\ Truths)'
  BY LimitTypesStep, NumbersStep, TruthsStep
<1>2. LimitTypes /\ Numbers /\ Truths => TypeOK
  BY DEF LimitTypes, Numbers, Truths, TypeOK
<1> QED
  BY <1>1, <1>2, TypeInit, PTL DEF Spec

-----------------------------------------------------------------------------
(* The limits in use. *)
LEMMA InUseStep == InUse /\ [Next]_vars => InUse'
<1> SUFFICES ASSUME InUse, [Next]_vars PROVE InUse'
  OBVIOUS
<1> USE DEF InUse, limits, reload
<1>1. CASE Restart
  BY <1>1 DEF Restart
<1>2. CASE Getting
  <2>1. CASE Reload
    BY <2>1 DEF Reload
  <2>2. CASE ReloadZero
    BY <2>2 DEF ReloadZero, ZeroOrder
  <2>3. CASE ReloadTime
    BY <2>3 DEF ReloadTime
  <2>4. CASE ReloadTest
    BY <2>4 DEF ReloadTest
  <2>5. CASE ReloadMax
    BY <2>5 DEF ReloadMax
  <2>6. CASE ReloadMin
    BY <2>6 DEF ReloadMin
  <2>7. CASE ReloadEnd
    BY <2>7 DEF ReloadEnd
  <2> QED
    BY <1>2, <2>1, <2>2, <2>3, <2>4, <2>5, <2>6, <2>7 DEF Getting
<1>3. CASE Testing
  BY <1>3 DEF Testing, Sample, Current, Delta, Prev, Time, Elapsed, Stamp, Bits, Low,
     High, Verdict, NoLink
<1>4. CASE Second \/ ClockSet
  BY <1>4 DEF Second, ClockSet
<1>5. CASE UNCHANGED vars
  BY <1>5 DEF vars
<1> QED
  BY <1>1, <1>2, <1>3, <1>4, <1>5 DEF Next

(* Where a reload may be. *)
LEMMA QuietStep == Truths /\ Quiet /\ [Next]_vars => Quiet'
<1> SUFFICES ASSUME Truths, Quiet, [Next]_vars PROVE Quiet'
  OBVIOUS
<1> USE DEF Truths, Quiet, reload, round
<1>1. CASE Restart
  BY <1>1 DEF Restart
<1>2. CASE Getting
  <2>1. CASE Reload
    BY <2>1 DEF Reload, Disturb
  <2>2. CASE ReloadZero \/ ReloadTime \/ ReloadTest
    BY <2>2 DEF ReloadZero, ReloadTime, ReloadTest, ZeroOrder
  <2>3. CASE ReloadMax \/ ReloadMin \/ ReloadEnd
    BY <2>3 DEF ReloadMax, ReloadMin, ReloadEnd
  <2> QED
    BY <1>2, <2>1, <2>2, <2>3 DEF Getting
<1>3. CASE Testing
  <2>1. CASE Sample
    BY <2>1 DEF Sample, At
  <2>2. CASE Current \/ Delta \/ Prev \/ Time \/ Elapsed
    BY <2>2 DEF Current, Delta, Prev, Time, Elapsed, At
  <2>3. CASE Stamp \/ Bits \/ Low \/ High
    BY <2>3 DEF Stamp, Bits, Low, High, At
  <2>4. CASE Verdict
    BY <2>4 DEF Verdict, At
  <2>5. CASE NoLink
    BY <2>5 DEF NoLink
  <2> QED
    BY <1>3, <2>1, <2>2, <2>3, <2>4, <2>5 DEF Testing
<1>4. CASE Second
  BY <1>4 DEF Second
<1>5. CASE ClockSet
  BY <1>5 DEF ClockSet, Disturb
<1>6. CASE UNCHANGED vars
  BY <1>6 DEF vars
<1> QED
  BY <1>1, <1>2, <1>3, <1>4, <1>5, <1>6 DEF Next

(* What the statements of a round find and leave, when nothing disturbs it. *)
LEMMA RoundStep ==
  ASSUME Numbers, Truths, Quiet, ThisRound, FromSeen, [Next]_vars
  PROVE  (ThisRound /\ FromSeen)'
<1> USE SpeedAssumption DEF ThisRound, FromSeen, Started, Timed, NoRound
<1>1. CASE Restart
  BY <1>1 DEF Restart
<1>2. CASE Getting
  <2>1. ASSUME load = "idle" PROVE (ThisRound /\ FromSeen)'
    <3>1. Reload
      BY <1>2, <2>1 DEF Getting, ReloadZero, ReloadTime, ReloadTest, ReloadMax, ReloadMin,
         ReloadEnd, ZeroOrder
    <3>2. /\ disturbed' = (pc # "idle") /\ seen' = IF pc = "idle" THEN NoRound ELSE seen
          /\ pc' = pc
      BY <3>1 DEF Reload, Disturb
    <3> QED
      BY <3>2
  <2>2. ASSUME load # "idle" PROVE (ThisRound /\ FromSeen)'
    <3>1. disturbed \/ (pc = "idle" /\ seen = NoRound)
      BY <2>2 DEF Quiet, Truths
    <3>2. pc' = pc /\ disturbed' = disturbed /\ seen' = seen
      BY <1>2, <2>2 DEF Getting, Reload, ReloadZero, ReloadTime, ReloadTest, ReloadMax,
         ReloadMin, ReloadEnd, round
    <3> QED
      BY <3>1, <3>2
  <2> QED
    BY <2>1, <2>2
<1>3. CASE Testing
  <2> USE DEF limits, counts, times, local, world, round, At
  <2>1. CASE Sample
    BY <2>1 DEF Sample, Strtol, Numbers, Quiet
  <2>2. CASE Current
    BY <2>2 DEF Current, Strtol
  <2>3. CASE Delta
    BY <2>3 DEF Delta, Strtol
  <2>4. CASE Prev
    BY <2>4 DEF Prev, Strtol
  <2>5. CASE Time
    BY <2>5 DEF Time, Strtol, Numbers
  <2>6. CASE Elapsed
    BY <2>6 DEF Elapsed, Strtol
  <2>7. CASE Stamp
    BY <2>7 DEF Stamp, Strtol
  <2>8. CASE Bits
    BY <2>8 DEF Bits, Strtol
  <2>9. CASE Low
    BY <2>9 DEF Low, Strtol, kbit, TooLow
  <2>10. CASE High
    BY <2>10 DEF High, Strtol, kbit, TooLow
  <2>11. CASE Verdict
    BY <2>11 DEF Verdict, Strtol
  <2>12. CASE NoLink
    BY <2>12 DEF NoLink, Strtol
  <2> QED
    BY <1>3, <2>1, <2>2, <2>3, <2>4, <2>5, <2>6, <2>7, <2>8, <2>9, <2>10, <2>11, <2>12
       DEF Testing
<1>4. CASE Second
  <2>1. /\ now' = now + 1
        /\ UNCHANGED <<limits, counts, times, pc, local, round>>
    BY <1>4 DEF Second
  <2> QED
    BY <2>1 DEF limits, counts, times, local, round, Numbers, Strtol, kbit, TooLow
<1>5. CASE ClockSet
  <2>1. /\ disturbed' = (pc # "idle") /\ seen' = IF pc = "idle" THEN NoRound ELSE seen
        /\ pc' = pc
    BY <1>5 DEF ClockSet, Disturb
  <2> QED
    BY <2>1
<1>6. CASE UNCHANGED vars
  BY <1>6 DEF vars, limits, counts, times, local, world, round, Strtol, kbit, TooLow
<1> QED
  BY <1>1, <1>2, <1>3, <1>4, <1>5, <1>6 DEF Next

-----------------------------------------------------------------------------
(* Within the widths a round nothing disturbed is judged right. *)
LEMMA VerdictRight ==
  ASSUME LimitsFit, LimitTypes, Numbers, Truths, Measured, Verdict,
         known', fits', ~overlapped'
  PROVE  right'
<1>1. pc = "verdict" /\ seen # NoRound /\ seenAt < at /\ parsed.ok
  BY Zenon DEF Verdict, At
<1>2. output <= LongMax /\ (output - seen) * BYTE < U32
  BY Zenon DEF Verdict
<1>3. ~disturbed
  BY Zenon DEF Verdict
<1>4. load = "idle"
  BY <1>1, <1>3 DEF Measured, Quiet
<1>5. min_speed = asked.min /\ max_speed = asked.max
  <2>1. parsed \in setSpeed(asked) /\ max_speed = parsed.max /\ min_speed = parsed.min
    BY <1>4 DEF Measured, InUse
  <2> QED
    BY <1>1, <2>1, SetSpeedExact DEF LimitTypes
<1>6. /\ rx_delta_bit = (((Strtol(output) - Strtol(seen)) % U32) * BYTE) % U32
      /\ delta_time = (at - seenAt) % U32 /\ seen <= output /\ seenAt <= at
  BY <1>1, <1>3 DEF Measured, FromSeen, Timed
<1>7. at - seenAt \in 0 .. U32 - 1 /\ at - seenAt # 0
  BY <1>1, <1>6, SpeedAssumption, WidthAssumption DEF Numbers
<1>8. delta_time = at - seenAt /\ delta_time # 0
  BY <1>6, <1>7, ModSmall, SpeedAssumption
<1>9. output - seen \in Nat /\ Strtol(output) = output /\ Strtol(seen) = seen
  BY <1>1, <1>2, <1>6, SpeedAssumption DEF Numbers, Strtol, NoRound
<1>10. rx_delta_bit = (output - seen) * BYTE
  BY <1>2, <1>6, <1>9, BitsExact
<1>11. kbit = Speed
  BY <1>8, <1>10 DEF kbit, Speed
<1>12. out = (delta_time = 0 \/ TooLow(min_speed) \/ kbit > max_speed)
  BY <1>1, <1>3 DEF Measured, ThisRound
<1>13. kbit \in Int
  <2>1. rx_delta_bit \div delta_time \in Nat
    BY <1>8, DivRange, SpeedAssumption DEF Numbers
  <2>2. (rx_delta_bit \div delta_time) \div KILO \in Nat
    BY <2>1, DivRange, SpeedAssumption
  <2> QED
    BY <1>8, <2>2 DEF kbit
<1>14. right' = (out = ~(asked.min <= Speed /\ Speed <= asked.max))
  BY Zenon DEF Verdict
<1>15. asked.min \in Int /\ asked.max \in Int
  BY SpeedAssumption DEF LimitTypes
<1>16. (delta_time = 0 \/ TooLow(min_speed) \/ kbit > max_speed)
         = ~(asked.min <= Speed /\ Speed <= asked.max)
  <2> HIDE DEF kbit, Speed
  <2> QED
    BY <1>5, <1>8, <1>11, <1>13, <1>15 DEF TooLow
<1> QED
  BY <1>12, <1>14, <1>16, Zenon

Inv == LimitTypes /\ Numbers /\ Truths /\ Measured /\ VerdictTruth

LEMMA InvInit == Init => Inv
<1> SUFFICES ASSUME Init PROVE Inv
  OBVIOUS
<1>1. Measured
  BY DEF Init, Measured, InUse, Quiet, ThisRound, FromSeen, Started, Timed
<1>2. VerdictTruth
  BY Zenon DEF Init, VerdictTruth
<1> QED
  BY <1>1, <1>2, TypeInit DEF Inv

LEMMA InvStep == LimitsFit /\ Inv /\ [Next]_vars => Inv'
<1> SUFFICES ASSUME LimitsFit, Inv, [Next]_vars PROVE Inv'
  OBVIOUS
<1>1. LimitTypes /\ Numbers /\ Truths /\ Measured /\ VerdictTruth
  BY DEF Inv
<1>2. LimitTypes' /\ Numbers' /\ Truths'
  BY <1>1, LimitTypesStep, NumbersStep, TruthsStep
<1>3. Measured'
  BY <1>1, InUseStep, QuietStep, RoundStep DEF Measured
<1>4. VerdictTruth'
  <2>1. CASE Verdict
    BY <1>1, <2>1, VerdictRight DEF VerdictTruth
  <2>2. CASE Restart \/ Reload \/ Sample \/ NoLink
    BY <2>2, Zenon DEF Restart, Reload, Sample, NoLink, VerdictTruth
  <2>3. CASE UNCHANGED verdict
    BY <1>1, <2>3, Zenon DEF verdict, VerdictTruth
  <2>4. Verdict \/ Restart \/ Reload \/ Sample \/ NoLink \/ UNCHANGED verdict
    BY Zenon DEF Next, Getting, Testing, ReloadZero, ReloadTime, ReloadTest, ReloadMax,
       ReloadMin, ReloadEnd, Current, Delta, Prev, Time, Elapsed, Stamp, Bits, Low, High,
       Second, ClockSet, vars
  <2> QED
    BY <2>1, <2>2, <2>3, <2>4
<1> QED
  BY <1>2, <1>3, <1>4 DEF Inv

(* For limits that fit a uint16_t, every verdict of a round nothing fell   *)
(* into, measured from an earlier round and within the widths of strtol    *)
(* and uint32_t, is the right one.                                         *)
THEOREM VerdictTheorem == ASSUME LimitsFit PROVE Spec => []VerdictTruth
<1>1. Init => Inv
  BY InvInit
<1>2. Inv /\ [Next]_vars => Inv'
  BY InvStep
<1>3. Inv => VerdictTruth
  BY DEF Inv
<1> QED
  BY <1>1, <1>2, <1>3, PTL DEF Spec
=============================================================================
