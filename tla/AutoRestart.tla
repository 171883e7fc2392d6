---------------------------- MODULE AutoRestart ----------------------------
(***************************************************************************)
(* The PoE auto-restart daemon tf_ar_poe/src/autorestartd.  Three threads  *)
(* - the test thread, the events thread and the command thread - share one *)
(* record per switch port (portInfoArr[i]) without any lock.  The eight    *)
(* ports share no data, so the module follows one port; the turns of the   *)
(* other seven only add delay, which the interleaving already allows.      *)
(*                                                                         *)
(* A step ends where the thread may lose the processor for long (popen,    *)
(* ping, sleep, syslog) or where a racy read-modify-write of a shared word *)
(* sits: x |= f and x &= ~f are a load and a store, Load takes the copies  *)
(* of errorCode and event, and the action that stores uses the copies, so  *)
(* an update another thread makes in between is lost, as in the code.      *)
(***************************************************************************)
EXTENDS Integers

CONSTANTS
  Test,        \* the port's criterion: option state, or "unknown" if not one
  ConfigOk,    \* whether the criterion's own options (host, speeds) are valid
  TestNum,     \* option test_num
  MaxReset,    \* option max_reset
  ByteMod,     \* 256 in the code: the counters are uint8_t
  RebootDelay, \* 15 in the code: seconds between POE_DOWN and POE_UP
  Alarm,       \* option alarm
  Day,         \* length of a day, in clock ticks
  TimeUp,      \* option timeUp, a time of day; Day when it is not valid
  TimeDown,    \* option timeDown; Day when it is not valid
  Preempted,   \* the threads another may run in the middle of an x |= f
  UbusMayFail, \* whether a popen of "ubus call uci get" may come back empty
  SelfPowered, \* whether the attached device may answer with PoE off
  MaxCmds,     \* bound on the manual reboot commands of the clients
  MaxAdmin     \* bound on the administrator's changes of the port

Tests == {"disable", "link", "ping", "speed"}

ASSUME ConstantsAssumption ==
  /\ Test \in Tests \cup {"unknown"}
  /\ Preempted \subseteq {"test", "events", "com"}
  /\ ConfigOk \in BOOLEAN /\ Alarm \in BOOLEAN
  /\ UbusMayFail \in BOOLEAN /\ SelfPowered \in BOOLEAN
  /\ ByteMod \in Nat \ {0}
  /\ TestNum \in 0 .. ByteMod - 1 /\ MaxReset \in 0 .. ByteMod - 1
  /\ RebootDelay \in Nat
  /\ Day \in Nat \ {0}
  /\ TimeUp \in 0 .. Day /\ TimeDown \in 0 .. Day
  /\ MaxCmds \in Nat /\ MaxAdmin \in Nat

Threads == {"test", "events", "com"}
Alarms  == {"up", "down"}

VARIABLES
  state, event, errorCode,       \* portResetInfo: words every thread writes
  errorTestCount, resetCount,    \* portResetInfo: the events thread's counters
  rebootState, rebootEvent,      \* portRebootInfo
  rebootTimer,                   \* rebootTimeStart - now, 0 once it is past
  test,                          \* portConfigInfo.test
  port_state, poe_state,         \* portStateInfo: uci as the test thread saw it
  alarm,                         \* portConfigInfo.alarm = enable
  status, remain,                \* timeAlarm[k].status, targetTime - now (or 0)
  pc, reg,                       \* where each thread is, its loaded copies
  polled, job, answer,           \* locals of the test thread
  admin, power, tod,             \* uci, the PoE supply, the time of day
  cmds, changes,                 \* commands and changes made so far
  dark, downs, streak, alarmOff  \* history, for the properties only

shared  == <<state, event, errorCode>>
counts  == <<errorTestCount, resetCount>>
reboot  == <<rebootState, rebootEvent, rebootTimer>>
enabled == <<port_state, poe_state>>
alarms  == <<alarm, status, remain>>
locals  == <<polled, job, answer>>
world   == <<admin, power, tod, cmds, changes>>
history == <<dark, downs, streak, alarmOff>>
vars    == <<shared, counts, reboot, test, enabled, alarms, pc, reg, locals,
             world, history>>

(* The bits of error_code_t that the daemon sets in portResetInfo. *)
TestErrors   == {"TEST_LINK", "TEST_PING", "TEST_SPEED"}
ConfigErrors == {"IP_NOT_VALID", "TIME_NOT_VALID", "SPEED_VALUE", "PORT_DISABLE"}
Muting_ScheduleForgotten == {"PORT_DISABLE", "TEST_DISABLE", "PORT_SHUTDOWN", "PoE_DISABLE"}
Muting       == {"PORT_DISABLE", "TEST_DISABLE", "PORT_SHUTDOWN", "POE_DOWN",
                 "PoE_DISABLE"}
ErrorBits    == {"OK", "TEST_TYPE", "REBOOTING", "MANUAL_REBOOT"}
                  \cup TestErrors \cup ConfigErrors \cup Muting
Events       == {"TEST_OK", "AUTO_RESTART", "MANUAL_RESTART"}

NotLoaded == [loaded |-> FALSE, err |-> {}, ev |-> {}]
Regs      == [loaded : BOOLEAN, err : SUBSET ErrorBits, ev : SUBSET Events]

-----------------------------------------------------------------------------
(* Thread control and the racy loads *)

At(t, l)   == pc[t] = l
Goto(t, l) == pc' = [pc EXCEPT ![t] = l]

(* The program points whose next step stores to errorCode or event from a *)
(* copy loaded before.                                                    *)
TestRmw   == {"disabled", "linkclear", "linkfail", "pingfail", "speedclear",
              "speedfail", "testdisable", "mark"}
EventsRmw == {"wake", "judge", "auto", "autoreset", "manreset", "manclear", "upclear",
              "upmanual", "upshut", "alarmflag", "alarmclear"}
ComRmw    == {"request", "cancel"}

Load(t, points) ==
  /\ t \in Preempted
  /\ pc[t] \in points
  /\ ~reg[t].loaded
  /\ reg' = [reg EXCEPT ![t] = [loaded |-> TRUE, err |-> errorCode, ev |-> event]]
  /\ UNCHANGED <<shared, counts, reboot, test, enabled, alarms, pc, locals,
                 world, history>>

(* A storing step of t at l, and the copies it stores from *)
Stores(t, l) ==
  /\ At(t, l)
  /\ t \in Preempted => reg[t].loaded
  /\ reg' = [reg EXCEPT ![t] = NotLoaded]

Err(t) == IF t \in Preempted THEN reg[t].err ELSE errorCode
Ev(t)  == IF t \in Preempted THEN reg[t].ev ELSE event

-----------------------------------------------------------------------------
(* Configuration *)

(* A popen of "ubus call uci get" may come back empty *)
Failures == {FALSE, UbusMayFail}

(* The criterion getPortParam reads; without an answer it is not a known one *)
OptionState(failed) == IF failed THEN "unknown" ELSE Test

(* What port_setHostParam, port_setSpeedParam and the branches of          *)
(* getPortParam leave in errorCode.  A valid host gives 0, not ERR_OK:     *)
(* checkValidIp answers with the ERR_OK of utils_module.c, which is 0.     *)
ParamError(t) ==
  IF t = "unknown" THEN {"TEST_TYPE"}
  ELSE IF t = "disable" THEN {"TEST_DISABLE"}
  ELSE IF t = "ping" THEN (IF ConfigOk THEN {} ELSE {"IP_NOT_VALID"})
  ELSE IF t = "speed" /\ ~ConfigOk THEN {"SPEED_VALUE"}
  ELSE {"OK"}

(* getCmdKey finds no such test: the port is left with test_disable *)
ParamTest(t) == IF t = "unknown" THEN "disable" ELSE t

(* port_setTimeParam: ticks to the next time of day h, tomorrow's if h is now *)
NextAt(h) == IF h > tod THEN h - tod ELSE h - tod + Day

(* ... a bad timeUp also keeps timeDown from being set (errorCode is kept) *)
ArmAlarms(old) ==
  [k \in Alarms |->
     IF TimeUp = Day \/ (k = "down" /\ TimeDown = Day) THEN old[k]
     ELSE NextAt(IF k = "up" THEN TimeUp ELSE TimeDown)]

(* ubus call poe manage: poe refuses a port that is disabled in its config *)
poe_Control(up) == power' = IF admin.poe THEN up ELSE power

-----------------------------------------------------------------------------
(* ar_mainInit (getPortsParam, then rebootParamInit), before the threads run. *)
(* procd restarts the daemon when its configuration changes, so it may start  *)
(* with the port switched off by an earlier run of its own.                   *)
Init ==
  /\ state = "REGULAR" /\ event = {}
  /\ \E failed \in Failures :
       LET t == OptionState(failed) IN
       /\ errorCode = ParamError(t)
       /\ test = IF ParamError(t) \cap ConfigErrors # {} THEN "disable" ELSE ParamTest(t)
       /\ alarm = (Alarm /\ ~failed)
  /\ errorTestCount = 0 /\ resetCount = 0
  /\ rebootState = "IDLE" /\ rebootEvent = {} /\ rebootTimer = 0
  /\ port_state = FALSE /\ poe_state = FALSE
  /\ tod = 0
  /\ status = [k \in Alarms |-> FALSE]
  /\ remain = IF alarm THEN ArmAlarms([k \in Alarms |-> 0]) ELSE [k \in Alarms |-> 0]
  /\ pc = [t \in Threads |-> IF t = "com" THEN "accept" ELSE "sleep"]
  /\ reg = [t \in Threads |-> NotLoaded]
  /\ polled = [port |-> FALSE, poe |-> FALSE] /\ job = "disable" /\ answer = FALSE
  /\ admin = [port |-> TRUE, poe |-> TRUE] /\ power \in BOOLEAN
  /\ cmds = 0 /\ changes = 0
  /\ dark = 0 /\ downs = 0 /\ streak = 0 /\ alarmOff = FALSE

-----------------------------------------------------------------------------
(* The test thread: test_main for this port *)

(* get_PortAndPoeState up to closePipe: an empty answer reads as disabled *)
TestPoll ==
  /\ At("test", "sleep")
  /\ \E failed \in Failures :
       polled' = [port |-> admin.port /\ ~failed, poe |-> admin.poe /\ ~failed]
  /\ Goto("test", IF polled'.port /\ polled'.poe THEN "enabled" ELSE "disabled")
  /\ UNCHANGED <<shared, counts, reboot, test, enabled, alarms, reg, job, answer,
                 world, history>>

(* ... and its stores, when both the port and its PoE are enabled *)
TestEnabled ==
  /\ At("test", "enabled")
  /\ port_state' = TRUE /\ poe_state' = TRUE
  /\ Goto("test", "spawn")
  /\ UNCHANGED <<shared, counts, reboot, test, alarms, reg, locals, world, history>>

(* ... and when one of them is not *)
TestDisabled ==
  /\ Stores("test", "disabled")
  /\ port_state' = polled.port /\ poe_state' = polled.poe
  /\ errorCode' = (Err("test") \ {"OK"})
                    \cup (IF polled.port THEN {} ELSE {"PORT_DISABLE"})
                    \cup (IF polled.poe THEN {} ELSE {"PoE_DISABLE"})
  /\ state' = "IDLE"
  /\ Goto("test", "spawn")
  /\ UNCHANGED <<event, counts, reboot, test, alarms, locals, world, history>>

(* Whether the attached device shows a sign of life at this moment *)
Alive == IF power \/ SelfPowered THEN BOOLEAN ELSE {FALSE}

(* runTest[test]: the thread of this round; all but runTestDisable begin with *)
(* port_runTestLink, which reads operstate                                    *)
TestSpawn ==
  /\ At("test", "spawn")
  /\ job' = test
  /\ \E up \in Alive : answer' = (up /\ test # "disable")
  /\ Goto("test", IF test = "disable" THEN "testdisable" ELSE "linkclear")
  /\ UNCHANGED <<shared, counts, reboot, test, enabled, alarms, reg, polled,
                 world, history>>

(* The end of a round: pthread_join and sleep(test_delay) *)
EndRound == /\ Goto("test", "sleep")
            /\ polled' = [port |-> FALSE, poe |-> FALSE]
            /\ job' = "disable" /\ answer' = FALSE

port_runTestDisable ==
  /\ Stores("test", "testdisable")
  /\ errorCode' = (Err("test") \ {"OK"}) \cup {"TEST_DISABLE"}
  /\ EndRound
  /\ UNCHANGED <<state, event, counts, reboot, test, enabled, alarms, world, history>>

(* The error bit of a test is cleared and ERR_OK set before the verdict ... *)
ClearError(l, bit) ==
  /\ Stores("test", l)
  /\ errorCode' = (Err("test") \ {bit}) \cup {"OK"}
  /\ UNCHANGED <<state, event, counts, reboot, test, enabled, alarms, locals,
                 world, history>>

(* ... and set again when the verdict is bad *)
SetError(l, bit) ==
  /\ Stores("test", l)
  /\ errorCode' = (Err("test") \ {"OK"}) \cup {bit}
  /\ UNCHANGED <<state, event, counts, reboot, test, enabled, alarms, world, history>>

LinkClear ==
  /\ ClearError("linkclear", "TEST_LINK")
  /\ Goto("test", IF ~answer THEN "linkfail"
                  ELSE IF job = "link" THEN (IF test = "link" THEN "ok" ELSE "end")
                  ELSE job)

LinkFail ==
  /\ SetError("linkfail", "TEST_LINK")
  /\ \/ job = "link" /\ EndRound
     \/ job # "link" /\ Goto("test", job) /\ UNCHANGED locals

(* port_runTestPing up to the end of ping(), which blocks up to 1.5 s *)
Ping ==
  /\ At("test", "ping")
  /\ \E reply \in Alive : answer' = (reply /\ "TEST_LINK" \notin errorCode)
  /\ Goto("test", IF answer' THEN "pingok" ELSE "pingfail")
  /\ UNCHANGED <<shared, counts, reboot, test, enabled, alarms, reg, polled, job,
                 world, history>>

PingFail == SetError("pingfail", "TEST_PING") /\ EndRound

(* errorCode = ERR_OK: a plain store, every other bit is gone *)
PingOk ==
  /\ At("test", "pingok")
  /\ errorCode' = {"OK"}
  /\ Goto("test", "ok")
  /\ UNCHANGED <<state, event, counts, reboot, test, enabled, alarms, reg, locals,
                 world, history>>

(* port_runTestSpeed: no measurement without link; else rx_bytes is read and *)
(* the rate of the time since the last round judged once the error bit is    *)
(* cleared                                                                   *)
Speed ==
  /\ At("test", "speed")
  /\ Goto("test", IF "TEST_LINK" \in errorCode THEN "speedfail" ELSE "speedclear")
  /\ UNCHANGED <<shared, counts, reboot, test, enabled, alarms, reg, locals,
                 world, history>>

SpeedClear ==
  /\ ClearError("speedclear", "TEST_SPEED")
  /\ \E inRange \in BOOLEAN : Goto("test", IF inRange THEN "ok" ELSE "speedfail")

SpeedFail == SetError("speedfail", "TEST_SPEED") /\ EndRound

(* The test was passed: TEST_OK is raised only for a port in IDLE_STATE *)
TestPassed ==
  /\ At("test", "ok")
  /\ Goto("test", IF state = "IDLE" THEN "mark" ELSE "end")
  /\ streak' = 0
  /\ UNCHANGED <<shared, counts, reboot, test, enabled, alarms, reg, locals, world,
                 dark, downs, alarmOff>>

MarkOk ==
  /\ Stores("test", "mark")
  /\ event' = Ev("test") \cup {"TEST_OK"}
  /\ EndRound
  /\ UNCHANGED <<state, errorCode, counts, reboot, test, enabled, alarms, world, history>>

TestEnd ==
  /\ At("test", "end")
  /\ EndRound
  /\ UNCHANGED <<shared, counts, reboot, test, enabled, alarms, reg, world, history>>

TestThread ==
  \/ Load("test", TestRmw) \/ TestPoll \/ TestEnabled \/ TestDisabled \/ TestSpawn
  \/ port_runTestDisable \/ LinkClear \/ LinkFail \/ Ping \/ PingFail \/ PingOk
  \/ Speed \/ SpeedClear \/ SpeedFail \/ TestPassed \/ MarkOk \/ TestEnd

-----------------------------------------------------------------------------
(* The events thread: eventsHandler for this port *)

(* sleep(test_delay) is over: eventHandler[state], and rebootHandler's switch *)
EventsPass ==
  /\ At("events", "sleep")
  /\ Goto("events", IF state = "IDLE" THEN "wake"
                    ELSE IF state = "REGULAR" THEN "judge"
                    ELSE IF rebootState = "IDLE" THEN "auto"
                    ELSE IF rebootState = "INIT" THEN "init"
                    ELSE IF rebootState = "POE_DOWN" THEN "down" ELSE "up")
  /\ UNCHANGED <<shared, counts, reboot, test, enabled, alarms, reg, locals, world, history>>

(* The IDLE_STATE branch of eventsHandler *)
Wake ==
  /\ Stores("events", "wake")
  /\ IF "TEST_OK" \in Ev("events")
     THEN /\ event' = Ev("events") \ {"TEST_OK"}
          /\ state' = "REGULAR"
          /\ errorCode' = Err("events") \ {"PORT_SHUTDOWN"}
     ELSE UNCHANGED shared
  /\ Goto("events", "alarm")
  /\ UNCHANGED <<counts, reboot, test, enabled, alarms, locals, world, history>>

test_ErrorHandler ==
  LET ok    == "OK" \in Err("events")
      low   == IF ok /\ errorTestCount > 0 THEN errorTestCount - 1 ELSE errorTestCount
      clean == ok /\ low = 0
      err   == IF clean THEN Err("events") \ {"PORT_SHUTDOWN"} ELSE Err("events")
      bad   == err \cap Muting = {} /\ err \cap TestErrors # {}
      high  == IF bad THEN (low + 1) % ByteMod ELSE low
      fire  == bad /\ high >= TestNum /\ state # "REBOOT"
  IN
  /\ Stores("events", "judge")
  /\ errorTestCount' = high
  /\ errorCode' = IF clean THEN err ELSE errorCode
  /\ resetCount' = IF clean THEN 0 ELSE resetCount
  /\ downs' = IF clean THEN 0 ELSE downs
  /\ event' = IF fire THEN Ev("events") \cup {"AUTO_RESTART"} ELSE event
  /\ state' = IF fire THEN "REBOOT" ELSE state
  /\ Goto("events", "alarm")
  /\ UNCHANGED <<reboot, test, enabled, alarms, locals, world, dark, streak, alarmOff>>

(* rebootHandler, REBOOT_STATE_IDLE: an automatic restart is taken first ... *)
TakeAuto ==
  /\ Stores("events", "auto")
  /\ IF "AUTO_RESTART" \in Ev("events")
     THEN event' = Ev("events") \ {"AUTO_RESTART"} /\ Goto("events", "autoreset")
     ELSE UNCHANGED event /\ Goto("events", "manual")
  /\ UNCHANGED <<state, errorCode, counts, reboot, test, enabled, alarms, locals,
                 world, history>>

LimitReached_OffByOne == resetCount > MaxReset
LimitReached == resetCount >= MaxReset

autoResetHandler ==
  /\ Stores("events", "autoreset")
  /\ IF LimitReached
     THEN /\ errorCode' = (Err("events") \ {"OK", "REBOOTING"}) \cup {"PORT_SHUTDOWN"}
          /\ rebootState' = "IDLE"
          /\ state' = "IDLE"
          /\ Goto("events", "checkconfig")
          /\ UNCHANGED <<counts, streak>>
     ELSE /\ errorCode' = (Err("events") \ {"OK"}) \cup {"REBOOTING"}
          /\ rebootState' = "INIT"
          /\ errorTestCount' = 0
          /\ resetCount' = (resetCount + 1) % ByteMod
          /\ streak' = IF streak > MaxReset THEN streak ELSE streak + 1
          /\ Goto("events", "manual")
          /\ UNCHANGED state
  /\ UNCHANGED <<event, rebootEvent, rebootTimer, test, enabled, alarms, locals,
                 world, dark, downs, alarmOff>>

(* set_errorHandler, called by autoResetHandler on its shutdown branch and at *)
(* the end of getPortParam                                                    *)
set_errorHandler(l, next) ==
  /\ At("events", l)
  /\ test' = IF errorCode \cap ConfigErrors # {} THEN "disable" ELSE test
  /\ Goto("events", next)
  /\ UNCHANGED <<shared, counts, reboot, enabled, alarms, reg, locals, world, history>>

(* ... then, in the same pass, a manual one *)
TakeManual ==
  /\ At("events", "manual")
  /\ Goto("events", IF "MANUAL_RESTART" \in event /\ port_state /\ poe_state
                    THEN "manreset" ELSE "alarm")
  /\ UNCHANGED <<shared, counts, reboot, test, enabled, alarms, reg, locals, world, history>>

manualResetHandler ==
  /\ Stores("events", "manreset")
  /\ errorCode' = (Err("events") \ {"OK", "PORT_SHUTDOWN"}) \cup {"MANUAL_REBOOT"}
  /\ errorTestCount' = 0 /\ resetCount' = 0
  /\ rebootState' = "INIT"
  /\ downs' = 0 /\ streak' = 0 /\ alarmOff' = FALSE
  /\ Goto("events", "manclear")
  /\ UNCHANGED <<state, event, rebootEvent, rebootTimer, test, enabled, alarms,
                 locals, world, dark>>

ClearManual ==
  /\ Stores("events", "manclear")
  /\ event' = Ev("events") \ {"MANUAL_RESTART"}
  /\ Goto("events", "alarm")
  /\ UNCHANGED <<state, errorCode, counts, reboot, test, enabled, alarms, locals,
                 world, history>>

(* REBOOT_STATE_INIT *)
RebootInit ==
  /\ At("events", "init")
  /\ rebootState' = "POE_DOWN"
  /\ rebootEvent' = rebootEvent \cup {"START"}
  /\ Goto("events", "alarm")
  /\ UNCHANGED <<shared, counts, rebootTimer, test, enabled, alarms, reg, locals,
                 world, history>>

(* What is left of rebootEvent once REBOOT_EVENT_START is taken *)
StartTaken_Forgotten == rebootEvent
StartTaken == rebootEvent \ {"START"}

(* REBOOT_STATE_POE_DOWN: the first pass switches the port off ... *)
RebootDown ==
  /\ At("events", "down")
  /\ IF "START" \in rebootEvent
     THEN /\ rebootEvent' = StartTaken
          /\ poe_Control(FALSE)
          /\ dark' = 0 /\ downs' = IF downs > MaxReset + 1 THEN downs ELSE downs + 1
          /\ Goto("events", "arm")
     ELSE /\ UNCHANGED <<rebootEvent, power, dark, downs>>
          /\ Goto("events", "check")
  /\ UNCHANGED <<shared, counts, rebootState, rebootTimer, test, enabled, alarms,
                 reg, locals, admin, tod, cmds, changes, streak, alarmOff>>

(* ... and sets the timer once poe_Control is back ... *)
RebootDeadline_AtOnce == 0
RebootDeadline == RebootDelay

RebootArm ==
  /\ At("events", "arm")
  /\ rebootTimer' = RebootDeadline
  /\ Goto("events", "check")
  /\ UNCHANGED <<shared, counts, rebootState, rebootEvent, test, enabled, alarms,
                 reg, locals, world, history>>

(* ... and every pass looks whether it has run out *)
RebootCheck ==
  /\ At("events", "check")
  /\ rebootEvent' = IF rebootTimer = 0 THEN rebootEvent \cup {"TIMER_STOP"}
                                       ELSE rebootEvent
  /\ rebootState' = IF "TIMER_STOP" \in rebootEvent' THEN "POE_UP" ELSE rebootState
  /\ Goto("events", "alarm")
  /\ UNCHANGED <<shared, counts, rebootTimer, test, enabled, alarms, reg, locals,
                 world, history>>

MayPowerUp_WrongFlag == poe_state /\ ~port_state
MayPowerUp == poe_state /\ port_state

(* REBOOT_STATE_POE_UP, up to the end of poe_Control ... *)
RebootUp ==
  /\ At("events", "up")
  /\ rebootEvent' = rebootEvent \ {"TIMER_STOP"}
  /\ IF MayPowerUp THEN poe_Control(TRUE) ELSE UNCHANGED power
  /\ Goto("events", "updone")
  /\ UNCHANGED <<shared, counts, rebootState, rebootTimer, test, enabled, alarms,
                 reg, locals, admin, tod, cmds, changes, history>>

StateAfterReboot_Kept == state
StateAfterReboot == "REGULAR"

(* ... the port is regular again before its flags and its events are settled *)
RebootDone ==
  /\ At("events", "updone")
  /\ state' = StateAfterReboot
  /\ rebootState' = "IDLE"
  /\ Goto("events", "upclear")
  /\ UNCHANGED <<event, errorCode, counts, rebootEvent, rebootTimer, test, enabled,
                 alarms, reg, locals, world, history>>

RebootClear ==
  /\ Stores("events", "upclear")
  /\ errorCode' = Err("events") \ {"REBOOTING", "MANUAL_REBOOT"}
  /\ Goto("events", "upmanual")
  /\ UNCHANGED <<state, event, counts, reboot, test, enabled, alarms, locals, world, history>>

(* A manual restart requested meanwhile is dropped, and the port reconfigured *)
DropManual ==
  /\ Stores("events", "upmanual")
  /\ IF "MANUAL_RESTART" \in Ev("events")
     THEN event' = Ev("events") \ {"MANUAL_RESTART"} /\ Goto("events", "upshut")
     ELSE UNCHANGED event /\ Goto("events", "alarm")
  /\ UNCHANGED <<state, errorCode, counts, reboot, test, enabled, alarms, locals,
                 world, history>>

DropShutdown ==
  /\ Stores("events", "upshut")
  /\ errorCode' = Err("events") \ {"PORT_SHUTDOWN"}
  /\ Goto("events", "param")
  /\ UNCHANGED <<state, event, counts, reboot, test, enabled, alarms, locals, world, history>>

(* getPortParam(index, 1) with setConfigZeroValue and setResetZeroValue; the *)
(* reboot record and the alarm status are left alone                         *)
getPortParam ==
  /\ At("events", "param")
  /\ state' = "REGULAR" /\ event' = {}
  /\ \E failed \in Failures :
       /\ errorCode' = ParamError(OptionState(failed))
       /\ test' = ParamTest(OptionState(failed))
       /\ alarm' = (Alarm /\ ~failed)
  /\ errorTestCount' = 0 /\ resetCount' = 0 /\ downs' = 0
  /\ remain' = IF alarm' THEN ArmAlarms(remain) ELSE remain
  /\ Goto("events", "paramcheck")
  /\ UNCHANGED <<reboot, enabled, status, reg, locals, world, dark, streak, alarmOff>>

rebootHandler ==
  \/ TakeAuto \/ autoResetHandler \/ set_errorHandler("checkconfig", "manual")
  \/ TakeManual \/ manualResetHandler \/ ClearManual
  \/ RebootInit \/ RebootDown \/ RebootArm \/ RebootCheck
  \/ RebootUp \/ RebootDone \/ RebootClear \/ DropManual \/ DropShutdown
  \/ getPortParam \/ set_errorHandler("paramcheck", "alarm")

(* alarmHandler leaves a port alone that is being rebooted *)
AlarmTurn_IdleOnly == state = "IDLE"
AlarmTurn == state # "REBOOT"

(* alarmHandler: port_timeAlarm for both times.  A target that is reached is *)
(* moved one day ahead of the moment it was noticed.                         *)
CheckAlarms ==
  /\ At("events", "alarm")
  /\ IF alarm
     THEN /\ UNCHANGED alarm
          /\ status' = [k \in Alarms |-> status[k] \/ remain[k] = 0]
          /\ remain' = [k \in Alarms |-> IF remain[k] = 0 THEN Day ELSE remain[k]]
     ELSE UNCHANGED alarms
  /\ Goto("events", IF alarm /\ AlarmTurn THEN "alarmdown" ELSE "sleep")
  /\ UNCHANGED <<shared, counts, reboot, test, enabled, reg, locals, world, history>>

AlarmDown ==
  /\ At("events", "alarmdown")
  /\ status' = [status EXCEPT !["down"] = FALSE]
  /\ Goto("events", IF status["down"] THEN "alarmflag" ELSE "alarmup")
  /\ UNCHANGED <<shared, counts, reboot, test, enabled, alarm, remain, reg, locals, world, history>>

(* The port is marked as off by the schedule before it is switched off *)
AlarmFlag ==
  /\ Stores("events", "alarmflag")
  /\ errorCode' = Err("events") \cup {"POE_DOWN"}
  /\ Goto("events", "alarmoff")
  /\ UNCHANGED <<state, event, counts, reboot, test, enabled, alarms, locals, world, history>>

AlarmOff ==
  /\ At("events", "alarmoff")
  /\ poe_Control(FALSE)
  /\ alarmOff' = TRUE
  /\ Goto("events", "alarmup")
  /\ UNCHANGED <<shared, counts, reboot, test, enabled, alarms, reg, locals, admin,
                 tod, cmds, changes, dark, downs, streak>>

AlarmUp ==
  /\ At("events", "alarmup")
  /\ IF status["up"]
     THEN /\ status' = [status EXCEPT !["up"] = FALSE]
          /\ poe_Control(TRUE)
          /\ alarmOff' = FALSE
          /\ Goto("events", "alarmclear")
     ELSE UNCHANGED <<status, power, alarmOff>> /\ Goto("events", "sleep")
  /\ UNCHANGED <<shared, counts, reboot, test, enabled, alarm, remain, reg, locals, admin,
                 tod, cmds, changes, dark, downs, streak>>

AlarmClear ==
  /\ Stores("events", "alarmclear")
  /\ errorCode' = Err("events") \ {"POE_DOWN"}
  /\ Goto("events", "sleep")
  /\ UNCHANGED <<state, event, counts, reboot, test, enabled, alarms, locals, world, history>>

alarmHandler ==
  CheckAlarms \/ AlarmDown \/ AlarmFlag \/ AlarmOff \/ AlarmUp \/ AlarmClear

EventsThread ==
  Load("events", EventsRmw) \/ EventsPass \/ Wake \/ test_ErrorHandler \/ rebootHandler \/ alarmHandler

-----------------------------------------------------------------------------
(* The command thread: clientHandler with cmd_rebootHandler *)

(* A reboot command arrives; the port's state and enables are looked at *)
ComReceive ==
  /\ At("com", "accept")
  /\ cmds < MaxCmds
  /\ cmds' = cmds + 1
  /\ Goto("com", IF state = "REBOOT" THEN "cancel"
                 ELSE IF poe_state /\ port_state THEN "set" ELSE "accept")
  /\ UNCHANGED <<shared, counts, reboot, test, enabled, alarms, reg, locals, admin,
                 power, tod, changes, history>>

ComSet ==
  /\ At("com", "set")
  /\ state' = "REBOOT"
  /\ Goto("com", "request")
  /\ UNCHANGED <<event, errorCode, counts, reboot, test, enabled, alarms, reg,
                 locals, world, history>>

(* status 1 is answered *)
ComRequest ==
  /\ Stores("com", "request")
  /\ event' = Ev("com") \cup {"MANUAL_RESTART"}
  /\ Goto("com", "accept")
  /\ UNCHANGED <<state, errorCode, counts, reboot, test, enabled, alarms, locals,
                 world, history>>

(* status 2 is answered, and MANUAL_RESTART is cleared *)
ComCancel ==
  /\ Stores("com", "cancel")
  /\ event' = Ev("com") \ {"MANUAL_RESTART"}
  /\ Goto("com", "accept")
  /\ UNCHANGED <<state, errorCode, counts, reboot, test, enabled, alarms, locals,
                 world, history>>

ComServe  == Load("com", ComRmw) \/ ComSet \/ ComRequest \/ ComCancel
ComThread == ComReceive \/ ComServe

-----------------------------------------------------------------------------
(* The environment *)

(* The administrator saves a port configuration; saving any port's makes     *)
(* port-init.sh reload poe, which gives every port its configured PoE state. *)
AdminSave ==
  /\ changes < MaxAdmin
  /\ changes' = changes + 1
  /\ admin' \in [port : BOOLEAN, poe : BOOLEAN]
  /\ power' = admin'.poe
  /\ alarmOff' = FALSE
  /\ UNCHANGED <<shared, counts, reboot, test, enabled, alarms, pc, reg, locals, tod,
                 cmds, dark, downs, streak>>

CountDown(n) == IF n = 0 THEN 0 ELSE n - 1

(* A second passes (time(NULL)) *)
Tick ==
  /\ tod' = (tod + 1) % Day
  /\ rebootTimer' = CountDown(rebootTimer)
  /\ remain' = [k \in Alarms |-> CountDown(remain[k])]
  /\ dark' = IF dark < RebootDelay THEN dark + 1 ELSE dark
  /\ UNCHANGED <<shared, counts, rebootState, rebootEvent, test, enabled, alarm, status, pc,
                 reg, locals, admin, power, cmds, changes, downs, streak, alarmOff>>

Next == TestThread \/ EventsThread \/ ComThread \/ AdminSave \/ Tick

Spec == Init /\ [][Next]_vars

(* The threads are never blocked for ever (popen, ping and sleep return) and *)
(* time passes; clients and the administrator owe nothing.                   *)
Fairness == WF_vars(TestThread) /\ WF_vars(EventsThread) /\ WF_vars(ComServe) /\ WF_vars(Tick)

FairSpec == Spec /\ Fairness

-----------------------------------------------------------------------------
(* Properties *)

EventsPoints == {"sleep", "init", "manual", "checkconfig", "down", "arm", "check", "up",
                 "updone", "param", "paramcheck", "alarm", "alarmdown", "alarmoff",
                 "alarmup"} \cup EventsRmw
TestPoints   == {"sleep", "enabled", "spawn", "ping", "pingok", "speed", "ok", "end"}
                  \cup TestRmw
ComPoints    == {"accept", "set"} \cup ComRmw

(* The port's record, the threads and the environment, each with its types *)
PortTypes ==
  /\ state \in {"IDLE", "REGULAR", "REBOOT"}
  /\ event \in SUBSET Events
  /\ errorCode \in SUBSET ErrorBits
  /\ errorTestCount \in 0 .. ByteMod - 1
  /\ resetCount \in 0 .. MaxReset
  /\ rebootState \in {"IDLE", "INIT", "POE_DOWN", "POE_UP"}
  /\ rebootEvent \in SUBSET {"START", "TIMER_STOP"}
  /\ rebootTimer \in 0 .. RebootDelay
  /\ test \in Tests
  /\ port_state \in BOOLEAN /\ poe_state \in BOOLEAN
  /\ alarm \in BOOLEAN /\ status \in [Alarms -> BOOLEAN]
  /\ remain \in [Alarms -> 0 .. Day]
ThreadTypes ==
  /\ pc \in [Threads -> EventsPoints \cup TestPoints \cup ComPoints]
  /\ pc["events"] \in EventsPoints /\ pc["test"] \in TestPoints /\ pc["com"] \in ComPoints
  /\ reg \in [Threads -> Regs]
  /\ polled \in [port : BOOLEAN, poe : BOOLEAN]
  /\ job \in Tests /\ answer \in BOOLEAN
  /\ pc["test"] \in {"linkclear", "linkfail"} => job # "disable"
WorldTypes ==
  /\ admin \in [port : BOOLEAN, poe : BOOLEAN]
  /\ power \in BOOLEAN /\ tod \in 0 .. Day - 1
  /\ cmds \in 0 .. MaxCmds /\ changes \in 0 .. MaxAdmin
  /\ dark \in 0 .. RebootDelay
  /\ downs \in 0 .. MaxReset + 2 /\ streak \in 0 .. MaxReset + 1
  /\ alarmOff \in BOOLEAN

(* Every variable of the port's record, of the threads and of the environment *)
(* has its type; in particular resetCount never passes max_reset.             *)
TypeOK == PortTypes /\ ThreadTypes /\ WorldTypes

(* The phase, the events and the timer of a reboot belong together at every   *)
(* point of rebootHandler, also in what an aborted reboot leaves behind: a    *)
(* start is pending only in POE_DOWN, the timer's end only in POE_UP, a phase *)
(* is not re-entered while the handler is inside it, and once the port is off *)
(* the timer covers what is missing of rebootDelay.                           *)
RebootCoherent ==
  /\ "START" \in rebootEvent => rebootState = "POE_DOWN"
  /\ "TIMER_STOP" \in rebootEvent => rebootState = "POE_UP"
  /\ pc["events"] \in {"auto", "autoreset", "checkconfig"} => rebootState = "IDLE"
  /\ pc["events"] \in {"manual", "manreset"} => rebootState \in {"IDLE", "INIT"}
  /\ pc["events"] = "init" => rebootState = "INIT"
  /\ pc["events"] \in {"down", "arm", "check"} => rebootState = "POE_DOWN"
  /\ pc["events"] \in {"arm", "check"} => "START" \notin rebootEvent
  /\ pc["events"] \in {"up", "updone"} => rebootState = "POE_UP"
  /\ pc["events"] = "updone" => "TIMER_STOP" \notin rebootEvent
  /\ (rebootState = "POE_DOWN" /\ "START" \notin rebootEvent /\ pc["events"] # "arm")
        => rebootTimer + dark >= RebootDelay

(* Power-downs made or prepared since resetCount was cleared are paid for by  *)
(* resetCount, but for one: a manual reboot, or an aborted one resumed later. *)
DownsPaid ==
  downs + (IF rebootState = "INIT" \/ "START" \in rebootEvent THEN 1 ELSE 0)
    <= resetCount + 1

(* A reboot never switches the port on again before it has been off for      *)
(* rebootDelay: in REBOOT_STATE_POE_UP that long has passed since the last   *)
(* power-down of rebootHandler, whatever interrupted or resumed the reboot.  *)
OffTimeKept == rebootState = "POE_UP" => dark >= RebootDelay

(* The inductive invariant of the reboot machine: these three together are    *)
(* kept by every step of every thread.                                        *)
RebootInv == RebootCoherent /\ DownsPaid /\ OffTimeKept

(* The reboot machine commands at most max_reset + 1 power-downs between two *)
(* moments at which the daemon clears resetCount, also when get_PortAndPoeState *)
(* aborts a reboot half way and a later one resumes its stale phase.         *)
RestartBudget == downs <= MaxReset + 1

(* A started reboot runs through its phases: with state REBOOT, a phase other *)
(* than REBOOT_STATE_IDLE is left for it, unless the test thread takes the    *)
(* port out of REBOOT_STATE.                                                  *)
RebootCompletes ==
  (state = "REBOOT" /\ rebootState # "IDLE") ~> (rebootState = "IDLE" \/ state # "REBOOT")

(* A dark port gets its power back while the administrator changes nothing    *)
(* and no poll of uci fails: a reboot that has switched it off switches it on *)
(* again, and a port that an earlier run of the daemon left off in the middle *)
(* of a reboot fails its tests and is restarted.                              *)
DarkPortRecovers == ~power ~> (power \/ changes > 0)

(* A scheduled time that has been noticed is acted on, although alarmHandler  *)
(* skips the port in REBOOT_STATE: timeDown switches it off, timeUp ends the  *)
(* switched-off period.                                                       *)
ScheduleServed ==
  /\ status["down"] ~> alarmOff
  /\ status["up"] ~> ~alarmOff

(* A port in REBOOT_STATE is being rebooted: between the threads' steps there *)
(* is a phase to go on with or an event that starts one.                      *)
RebootInProgress ==
  (state = "REBOOT" /\ rebootState = "IDLE" /\ pc["events"] = "sleep" /\ pc["com"] = "accept")
     => event \cap {"AUTO_RESTART", "MANUAL_RESTART"} # {}

(* After max_reset automatic restarts without a single passed test there is   *)
(* no further one ("reboot disabled after max resets").                       *)
RestartLimit == streak <= MaxReset

(* A port that the schedule switched off stays off until the schedule, a      *)
(* manual reboot or the administrator switches it on.                         *)
ScheduleKeepsOff == alarmOff => ~power

(* Once a round of the test thread has found the port and its PoE enabled,    *)
(* the port is not reported as disabled.                                      *)
EnabledNotReportedDisabled ==
  (pc["test"] = "sleep" /\ port_state /\ poe_state)
     => errorCode \cap {"PORT_DISABLE", "PoE_DISABLE"} = {}

=============================================================================
