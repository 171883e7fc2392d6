----------------------------- MODULE SpeedTest -----------------------------
(***************************************************************************)
(* The arithmetic of autorestartd's speed test for one port: setSpeed and  *)
(* port_setSpeedParam, which take the two limits from the configuration,   *)
(* and port_runTestSpeed, which judges the received traffic since the      *)
(* round before, while the events thread may be reloading the same record. *)
(* AutoRestart leaves the verdict open; here it is computed, statement by  *)
(* statement, with the widths of the declarations, and compared with the   *)
(* true speed.  What the daemon does with the verdict is AutoRestart's     *)
(* subject.                                                                *)
(***************************************************************************)
EXTENDS Integers

CONSTANTS
  Limits,               \* the pairs [max, min] the configuration may hold
  MIN_SPEED, MAX_SPEED, \* 10 and 1000000 in the code
  BYTE, KILO,           \* 8 and 1000
  U16, U32,             \* the moduli of uint16_t and uint32_t
  LongMax,              \* the largest long, at which strtol stops
  Bursts,               \* the bytes that may come in within a second
  Start, MaxNow,        \* the clock when the daemon starts; a bound of it
  MaxRx,                \* a bound of the kernel's byte counter
  MaxReloads, MaxSets   \* bounds on reloads and on settings of the clock

ASSUME SpeedAssumption ==
  /\ MIN_SPEED \in Nat /\ MAX_SPEED \in Nat
  /\ BYTE \in Nat \ {0} /\ KILO \in Nat \ {0}
  /\ U16 \in Nat \ {0} /\ U32 \in Nat \ {0} /\ LongMax \in Nat
  /\ Limits \subseteq [max : Nat, min : Nat] /\ Limits # {}
  /\ Bursts \subseteq Nat
  /\ Start \in Nat /\ MaxNow \in Nat /\ MaxRx \in Nat
  /\ MaxReloads \in Nat /\ MaxSets \in Nat

ASSUME WidthAssumption == LongMax < U32 /\ U16 <= U32 /\ MaxNow < U32 /\ Start <= MaxNow

VARIABLES
  asked,                         \* the limits in the configuration
  test, min_speed, max_speed,    \* of portConfigInfo, as the fields below
  rx_delta_byte, rx_byte_current, rx_byte_prev,
  time_current, time_prev,
  failed,                        \* ERR_TEST_SPEED in errorCode
  load, parsed,                  \* where getPortParam is, what setSpeed gave
  pc, output, delta_time, rx_delta_bit, out,  \* the test thread, its locals
  rx, now,                       \* the kernel's counter and its clock
  reloads, sets,                 \* counters of the environment
  seen, seenAt,                  \* history: rx and now of the last judged
                                 \* round this one is measured from, or NoRound
  at, disturbed,                 \* history of this round: its time; a reload or
                                 \* a setting of the clock fell into it
  known, fits, right, overlapped \* history of the last verdict: see Verdict

limits  == <<min_speed, max_speed>>
counts  == <<rx_delta_byte, rx_byte_current, rx_byte_prev>>
times   == <<time_current, time_prev>>
reload  == <<asked, test, load, parsed>>
local   == <<output, delta_time, rx_delta_bit, out>>
world   == <<rx, now>>
bounds  == <<reloads, sets>>
round   == <<seen, seenAt, at, disturbed>>
verdict == <<known, fits, right, overlapped>>
vars == <<limits, counts, times, reload, failed, pc, local, world, bounds,
          round, verdict>>

NoRound == -1

(* The upper limit is stored before the lower one is looked at. *)
port_setSpeedParam(max, min) ==
  IF min > max \/ max < MIN_SPEED \/ max > MAX_SPEED
  THEN [ok |-> FALSE, max |-> 0, min |-> 0]
  ELSE IF min < MIN_SPEED \/ min > MAX_SPEED
  THEN [ok |-> FALSE, max |-> max, min |-> 0]
  ELSE [ok |-> TRUE, max |-> max, min |-> min]

(* setSpeed holds the limits in uint16_t, and asks its errorCode, which    *)
(* nothing has set when both limits were found: the test may come out      *)
(* either way.                                                             *)
setSpeed(a) ==
  {port_setSpeedParam(a.max % U16, a.min % U16), [ok |-> FALSE, max |-> 0, min |-> 0]}

(* set_errorHandler ends the test of a rejected port. *)
Handled(s) == IF s.ok THEN "speed" ELSE "disable"

(* The threads begin after getPortsParam, on a portInfoArr that was zero. *)
Init ==
  /\ asked \in Limits /\ parsed \in setSpeed(asked) /\ test = Handled(parsed)
  /\ max_speed = parsed.max /\ min_speed = parsed.min
  /\ rx_delta_byte = 0 /\ rx_byte_current = 0 /\ rx_byte_prev = 0
  /\ time_current = Start /\ time_prev = 0
  /\ failed = FALSE /\ load = "idle" /\ pc = "idle"
  /\ output = 0 /\ delta_time = 0 /\ rx_delta_bit = 0 /\ out = FALSE
  /\ rx = 0 /\ now = Start /\ reloads = 0 /\ sets = 0
  /\ seen = NoRound /\ seenAt = 0 /\ at = 0 /\ disturbed = FALSE
  /\ known = FALSE /\ fits = FALSE /\ right = TRUE /\ overlapped = FALSE

(* procd starts the daemon again; the counter and the clock go on. *)
Restart ==
  /\ asked' \in Limits /\ parsed' \in setSpeed(asked') /\ test' = Handled(parsed')
  /\ max_speed' = parsed'.max /\ min_speed' = parsed'.min
  /\ rx_delta_byte' = 0 /\ rx_byte_current' = 0 /\ rx_byte_prev' = 0
  /\ time_current' = now /\ time_prev' = 0
  /\ failed' = FALSE /\ load' = "idle" /\ pc' = "idle"
  /\ output' = 0 /\ delta_time' = 0 /\ rx_delta_bit' = 0 /\ out' = FALSE
  /\ seen' = NoRound /\ seenAt' = 0 /\ at' = 0 /\ disturbed' = FALSE
  /\ known' = FALSE /\ fits' = FALSE /\ right' = TRUE /\ overlapped' = FALSE
  /\ UNCHANGED <<world, bounds>>

-----------------------------------------------------------------------------
(* The events thread in getPortParam, at the end of a reboot that a manual *)
(* command asked for; the test thread may be anywhere.                     *)

(* No round is measured across a reload. *)
Disturb ==
  /\ disturbed' = (pc # "idle")
  /\ seen' = IF pc = "idle" THEN NoRound ELSE seen
  /\ seenAt' = IF pc = "idle" THEN 0 ELSE seenAt

Reload ==
  /\ load = "idle" /\ load' = "min_speed"
  /\ reloads < MaxReloads /\ reloads' = reloads + 1
  /\ asked' \in Limits
  /\ test' = "disable"
  /\ Disturb
  /\ known' = FALSE /\ fits' = FALSE /\ right' = TRUE /\ overlapped' = FALSE
  /\ UNCHANGED <<limits, counts, times, parsed, failed, pc, local,
                 world, sets, at>>

(* setConfigZeroValue, a statement at a time: time_prev is not among the   *)
(* fields.                                                                 *)
ZeroOrder == [min_speed       |-> "max_speed",       max_speed    |-> "rx_delta_byte",
              rx_delta_byte   |-> "rx_byte_current", rx_byte_current |-> "rx_byte_prev",
              rx_byte_prev    |-> "time_current",    time_current |-> "time"]

Zeroed(field, x) == IF load = field THEN 0 ELSE x

ReloadZero ==
  /\ load \in DOMAIN ZeroOrder /\ load' = ZeroOrder[load]
  /\ min_speed' = Zeroed("min_speed", min_speed)
  /\ max_speed' = Zeroed("max_speed", max_speed)
  /\ rx_delta_byte' = Zeroed("rx_delta_byte", rx_delta_byte)
  /\ rx_byte_current' = Zeroed("rx_byte_current", rx_byte_current)
  /\ rx_byte_prev' = Zeroed("rx_byte_prev", rx_byte_prev)
  /\ time_current' = Zeroed("time_current", time_current)
  /\ UNCHANGED <<time_prev, asked, test, parsed, failed, pc, local, world, bounds, round, verdict>>

ReloadTime ==
  /\ load = "time" /\ load' = "test"
  /\ time_current' = now
  /\ UNCHANGED <<limits, counts, time_prev, asked, test, parsed, failed,
                 pc, local, world, bounds, round, verdict>>

(* setResetZeroValue; the type of the test is stored before its limits. *)
ReloadTest ==
  /\ load = "test" /\ load' = "max"
  /\ failed' = FALSE /\ test' = "speed"
  /\ UNCHANGED <<limits, counts, times, asked, parsed, pc, local, world, bounds,
                 round, verdict>>

ReloadMax ==
  /\ load = "max" /\ load' = "min"
  /\ parsed' \in setSpeed(asked) /\ max_speed' = parsed'.max
  /\ UNCHANGED <<min_speed, counts, times, asked, test, failed, pc, local,
                 world, bounds, round, verdict>>

ReloadMin ==
  /\ load = "min" /\ load' = "end"
  /\ min_speed' = parsed.min
  /\ UNCHANGED <<max_speed, counts, times, asked, test, parsed, failed, pc,
                 local, world, bounds, round, verdict>>

(* errorCode is set to the result, and looked at by set_errorHandler; an   *)
(* update of the word by the test thread in between takes ERR_SPEED_VALUE  *)
(* off again.                                                              *)
ReloadEnd ==
  /\ load = "end" /\ load' = "idle"
  /\ failed' = FALSE
  /\ test' \in {Handled(parsed), "speed"}
  /\ UNCHANGED <<limits, counts, times, asked, parsed, pc, local, world, bounds,
                 round, verdict>>

-----------------------------------------------------------------------------
(* The test thread in port_runTestSpeed, a statement at a time            *)

At(p, q) == pc = p /\ pc' = q

(* Up to the end of cat *)
Sample ==
  /\ At("idle", "current") /\ test = "speed"
  /\ output' = rx
  /\ disturbed' = (load # "idle")
  /\ known' = FALSE /\ fits' = FALSE /\ right' = TRUE /\ overlapped' = FALSE
  /\ UNCHANGED <<limits, counts, times, reload, failed, delta_time,
                 rx_delta_bit, out, world, bounds, seen, seenAt, at>>

(* Mutant: the counter is taken as it is *)
Strtol_Whole(x) == x

(* (int32_t) strtol(output, NULL, 10): a larger number gives LongMax *)
Strtol(x) == IF x > LongMax THEN LongMax ELSE x

Current ==
  /\ At("current", "delta")
  /\ failed' = FALSE /\ rx_byte_current' = Strtol(output)
  /\ UNCHANGED <<limits, rx_delta_byte, rx_byte_prev, times, reload, local,
                 world, bounds, round, verdict>>

Delta ==
  /\ At("delta", "prev")
  /\ rx_delta_byte' = (rx_byte_current - rx_byte_prev) % U32
  /\ UNCHANGED <<limits, rx_byte_current, rx_byte_prev, times, reload,
                 failed, local, world, bounds, round, verdict>>

Prev ==
  /\ At("prev", "time")
  /\ rx_byte_prev' = rx_byte_current
  /\ UNCHANGED <<limits, rx_delta_byte, rx_byte_current, times, reload,
                 failed, local, world, bounds, round, verdict>>

Time ==
  /\ At("time", "elapsed")
  /\ time_current' = now /\ at' = now
  /\ UNCHANGED <<limits, counts, time_prev, reload, failed, local, world, bounds,
                 seen, seenAt, disturbed, verdict>>

Elapsed ==
  /\ At("elapsed", "stamp")
  /\ delta_time' = (time_current - time_prev) % U32
  /\ UNCHANGED <<limits, counts, times, reload, failed, output,
                 rx_delta_bit, out, world, bounds, round, verdict>>

Stamp ==
  /\ At("stamp", "bits")
  /\ time_prev' = time_current
  /\ UNCHANGED <<limits, counts, time_current, reload, failed, local, world, bounds,
                 round, verdict>>

Bits ==
  /\ At("bits", "low")
  /\ rx_delta_bit' = (rx_delta_byte * BYTE) % U32
  /\ UNCHANGED <<limits, counts, times, reload, failed, output, delta_time,
                 out, world, bounds, round, verdict>>

(* rx_speed_Kbit, the local of this name *)
kbit == IF delta_time = 0 THEN rx_delta_bit ELSE (rx_delta_bit \div delta_time) \div KILO

(* Mutant: an exact limit fails *)
TooLow_Strict(lo) == kbit <= lo

TooLow(lo) == kbit < lo

(* Without elapsed time the port fails; else the limits are looked at, the *)
(* lower one first.                                                        *)
Low ==
  /\ At("low", "high")
  /\ out' = (delta_time = 0 \/ TooLow(min_speed))
  /\ UNCHANGED <<limits, counts, times, reload, failed, output, delta_time,
                 rx_delta_bit, world, bounds, round, verdict>>

High ==
  /\ At("high", "verdict")
  /\ out' = (out \/ kbit > max_speed)
  /\ UNCHANGED <<limits, counts, times, reload, failed, output, delta_time,
                 rx_delta_bit, world, bounds, round, verdict>>

(* The verdict.  For the properties: known, measured from an earlier round *)
(* some time ago and by limits that were accepted; fits, the counter is    *)
(* within strtol and the bits since then within uint32_t; right, the port  *)
(* fails just when its speed is outside the limits asked for; overlapped,  *)
(* the round was disturbed.                                                *)
Speed == (((output - seen) * BYTE) \div (at - seenAt)) \div KILO

Verdict ==
  /\ At("verdict", "idle")
  /\ failed' = out
  /\ known' = (parsed.ok /\ seen # NoRound /\ seenAt < at)
  /\ fits' = (known' /\ output <= LongMax /\ (output - seen) * BYTE < U32)
  /\ right' = IF known' THEN out = ~(asked.min <= Speed /\ Speed <= asked.max) ELSE ~out
  /\ overlapped' = disturbed
  /\ seen' = (IF disturbed THEN NoRound ELSE output)
  /\ seenAt' = (IF disturbed THEN 0 ELSE at) /\ at' = 0 /\ disturbed' = FALSE
  /\ output' = 0 /\ delta_time' = 0 /\ rx_delta_bit' = 0 /\ out' = FALSE
  /\ UNCHANGED <<limits, counts, times, reload, world, bounds>>

(* The link test of the same round failed: nothing is measured. *)
NoLink ==
  /\ pc = "idle" /\ test = "speed"
  /\ failed' = TRUE
  /\ known' = FALSE /\ fits' = FALSE /\ right' = TRUE /\ overlapped' = FALSE
  /\ UNCHANGED <<limits, counts, times, reload, pc, local, world, bounds, round>>

-----------------------------------------------------------------------------
(* A second passes. *)
Second ==
  /\ now < MaxNow /\ now' = now + 1
  /\ \E b \in Bursts : rx + b <= MaxRx /\ rx' = rx + b
  /\ UNCHANGED <<limits, counts, times, reload, failed, pc, local, bounds, round,
                 verdict>>

(* The clock is set (sysntpd, the RTC): what was timed before is void. *)
ClockSet ==
  /\ sets < MaxSets /\ sets' = sets + 1
  /\ \E t \in Start .. MaxNow : t # now /\ now' = t
  /\ Disturb
  /\ UNCHANGED <<limits, counts, times, reload, failed, pc, local, rx, reloads,
                 at, verdict>>

Getting == Reload \/ ReloadZero \/ ReloadTime \/ ReloadTest \/ ReloadMax \/ ReloadMin
             \/ ReloadEnd

Testing == Sample \/ Current \/ Delta \/ Prev \/ Time \/ Elapsed \/ Stamp \/ Bits
             \/ Low \/ High \/ Verdict \/ NoLink

Next == Getting \/ Testing \/ Restart \/ Second \/ ClockSet

Spec == Init /\ [][Next]_vars

-----------------------------------------------------------------------------
(* Properties *)

Loads == DOMAIN ZeroOrder \cup {"idle", "time", "test", "max", "min", "end"}
Steps == {"idle", "current", "delta", "prev", "time", "elapsed", "stamp", "bits",
          "low", "high", "verdict"}

(* The fields of portConfigInfo stay in the range of uint32_t, the limits  *)
(* in that of uint16_t.                                                    *)
TypeOK ==
  /\ asked \in Limits /\ test \in {"speed", "disable"}
  /\ parsed \in [ok : BOOLEAN, max : 0 .. U16 - 1, min : 0 .. U16 - 1]
  /\ load \in Loads /\ pc \in Steps
  /\ min_speed \in 0 .. U16 - 1 /\ max_speed \in 0 .. U16 - 1
  /\ rx_delta_byte \in 0 .. U32 - 1 /\ rx_byte_current \in 0 .. LongMax
  /\ rx_byte_prev \in 0 .. LongMax
  /\ time_current \in 0 .. MaxNow /\ time_prev \in 0 .. MaxNow
  /\ delta_time \in 0 .. U32 - 1 /\ rx_delta_bit \in 0 .. U32 - 1
  /\ rx \in Nat /\ now \in 0 .. MaxNow
  /\ reloads \in 0 .. MaxReloads /\ sets \in 0 .. MaxSets /\ output \in 0 .. rx
  /\ seen \in {NoRound} \cup 0 .. rx /\ seenAt \in 0 .. MaxNow /\ at \in 0 .. MaxNow
  /\ failed \in BOOLEAN /\ out \in BOOLEAN /\ disturbed \in BOOLEAN
  /\ known \in BOOLEAN /\ fits \in BOOLEAN /\ right \in BOOLEAN /\ overlapped \in BOOLEAN

(* port_runTestSpeed fails a port just when its average speed since the   *)
(* last round is outside the limits of the configuration, while no reload  *)
(* falls into the round, and the counter and the bits since the last round *)
(* fit the types they are held in.  A reload, an outage or a setting of    *)
(* the clock, in whatever statement it met an earlier round, leaves        *)
(* nothing behind that a later round is judged by.                         *)
VerdictTruth == known /\ fits /\ ~overlapped => right

(* The same through a reload. *)
VerdictThroughReload == known /\ fits => right

(* The same without the reservation of fits: "error: test speed" means    *)
(* that the speed was out of range (parsing_command.c).                    *)
VerdictAlways == known /\ ~overlapped => right

(* The same from the first round on: without an earlier round there is no *)
(* speed to fail a port for.                                               *)
NoFalseFailure == ~overlapped => right

(* A port whose limits were rejected is not tested. *)
RejectedNotTested == load = "idle" /\ ~parsed.ok => test = "disable"

(* What makes VerdictTruth inductive.  Once setSpeed has stored them, the   *)
(* limits in use are the ones it gave. *)
InUse ==
  /\ load \in {"min", "end", "idle"} => parsed \in setSpeed(asked) /\ max_speed = parsed.max
  /\ load \in {"end", "idle"} => min_speed = parsed.min

(* No reload is under way in a round that nothing disturbed, nor while     *)
(* there is an earlier round to measure from.                              *)
Quiet ==
  /\ pc = "idle" => ~disturbed
  /\ ~disturbed /\ (pc # "idle" \/ seen # NoRound) => load = "idle"

Started == {"idle", "current", "delta", "prev"}
Timed   == {"elapsed", "stamp", "bits", "low", "high", "verdict"}

(* Then each statement finds what those before it have left ...           *)
ThisRound == ~disturbed =>
  /\ pc \in {"delta", "prev"} => rx_byte_current = Strtol(output)
  /\ pc \in Timed \cup {"time"} => rx_byte_prev = Strtol(output)
  /\ pc \in Timed => at <= now
  /\ pc \in {"elapsed", "stamp"} => time_current = at
  /\ pc \in {"bits", "low", "high", "verdict"} => time_prev = at
  /\ pc = "high" => out = (delta_time = 0 \/ TooLow(min_speed))
  /\ pc = "verdict" => out = (delta_time = 0 \/ TooLow(min_speed) \/ kbit > max_speed)

(* ... and what the last round has left for this one.                      *)
FromSeen == ~disturbed /\ seen # NoRound =>
  /\ pc \in Started => rx_byte_prev = Strtol(seen)
  /\ pc \in {"prev", "time", "elapsed", "stamp", "bits"} =>
       rx_delta_byte = (Strtol(output) - Strtol(seen)) % U32
  /\ pc \in {"low", "high", "verdict"} =>
       rx_delta_bit = (((Strtol(output) - Strtol(seen)) % U32) * BYTE) % U32
  /\ pc \in Started \cup {"time", "elapsed", "stamp"} => time_prev = seenAt
  /\ pc \in {"stamp", "bits", "low", "high", "verdict"} =>
       delta_time = (at - seenAt) % U32
  /\ pc # "idle" => seen <= output
  /\ pc \in Started \cup {"time"} => seenAt <= now
  /\ pc \in Timed => seenAt <= at

Measured == InUse /\ Quiet /\ ThisRound /\ FromSeen
=============================================================================
