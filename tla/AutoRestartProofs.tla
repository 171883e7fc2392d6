------------------------- MODULE AutoRestartProofs -------------------------
(***************************************************************************)
(* Proofs about AutoRestart, for every value of its constants.             *)
(***************************************************************************)
EXTENDS AutoRestart, TLAPS

(* The copies a thread stores from hold bits of the two words. *)
LEMMA CopyTypes ==
  ASSUME TypeOK, NEW t \in Threads
  PROVE  Err(t) \in SUBSET ErrorBits /\ Ev(t) \in SUBSET Events
BY DEF TypeOK, PortTypes, ThreadTypes, Regs, Err, Ev

(* A storing step drops the copies and leaves the registers in their type. *)
LEMMA StoreTypes ==
  ASSUME TypeOK, NEW t \in Threads, NEW l, Stores(t, l)
  PROVE  reg' \in [Threads -> Regs]
<1>1. NotLoaded \in Regs
  BY DEF NotLoaded, Regs
<1>2. QED
  BY <1>1 DEF TypeOK, ThreadTypes, Stores

(* A load, of any thread, keeps every variable in its type. *)
LEMMA LoadTypes ==
  ASSUME TypeOK, NEW t \in Threads, NEW P, Load(t, P)
  PROVE  TypeOK'
<1>1. [loaded |-> TRUE, err |-> errorCode, ev |-> event] \in Regs
  BY DEF TypeOK, PortTypes, Regs
<1>2. reg' \in [Threads -> Regs]
  BY <1>1 DEF TypeOK, ThreadTypes, Load
<1>3. QED
  BY <1>2 DEF TypeOK, PortTypes, ThreadTypes, WorldTypes, Load, shared, counts, reboot,
              enabled, alarms, locals, world, history

(* A step of the test thread keeps every variable in its type. *)
LEMMA TestThreadTypes ==
  ASSUME TypeOK, TestThread
  PROVE  TypeOK'
<1> USE ConstantsAssumption DEF TypeOK, Threads, At, shared, counts, reboot, enabled,
                                alarms, locals, world, history
<1>1. CASE Load("test", TestRmw)
  BY <1>1, LoadTypes
<1>2. CASE TestPoll
  BY <1>2 DEF TestPoll, PortTypes, ThreadTypes, WorldTypes, Tests, Alarms, Goto,
              EventsPoints, TestPoints, ComPoints, TestRmw, EventsRmw, ComRmw
<1>3. CASE TestEnabled
  BY <1>3 DEF TestEnabled, PortTypes, ThreadTypes, WorldTypes, Tests, Alarms, Goto,
              EventsPoints, TestPoints, ComPoints, TestRmw, EventsRmw, ComRmw
<1>4. CASE TestDisabled
  <2>1. Stores("test", "disabled")
    BY <1>4 DEF TestDisabled
  <2>2. /\ Err("test") \in SUBSET ErrorBits /\ Ev("test") \in SUBSET Events
        /\ reg' \in [Threads -> Regs]
    BY <2>1, CopyTypes, StoreTypes
  <2>3. PortTypes'
    <3>1. errorCode' \in SUBSET ErrorBits
      BY <1>4, <2>2 DEF TestDisabled, ErrorBits, ConfigErrors, Muting
    <3>2. polled.port \in BOOLEAN /\ polled.poe \in BOOLEAN
      BY DEF ThreadTypes
    <3>3. QED
      BY <1>4, <3>1, <3>2 DEF PortTypes, TestDisabled
  <2>4. ThreadTypes'
    BY <1>4, <2>2 DEF PortTypes, ThreadTypes, Tests, Goto, TestDisabled, EventsPoints,
                      TestPoints, ComPoints, TestRmw, EventsRmw, ComRmw, Stores
  <2>5. WorldTypes'
    BY <1>4 DEF WorldTypes, TestDisabled
  <2>6. QED
    BY <2>3, <2>4, <2>5
<1>5. CASE TestSpawn
  BY <1>5 DEF TestSpawn, Alive, PortTypes, ThreadTypes, WorldTypes, Tests, Alarms, Goto,
              EventsPoints, TestPoints, ComPoints, TestRmw, EventsRmw, ComRmw
<1>6. CASE port_runTestDisable
  <2>1. Stores("test", "testdisable")
    BY <1>6 DEF port_runTestDisable
  <2>2. /\ Err("test") \in SUBSET ErrorBits /\ Ev("test") \in SUBSET Events
        /\ reg' \in [Threads -> Regs]
    BY <2>1, CopyTypes, StoreTypes
  <2>3. PortTypes'
    BY <1>6, <2>2 DEF PortTypes, Tests, Alarms, port_runTestDisable, EndRound, ErrorBits,
                      TestErrors, ConfigErrors, Muting, Events
  <2>4. ThreadTypes'
    BY <1>6, <2>2 DEF PortTypes, ThreadTypes, Tests, Goto, port_runTestDisable, EndRound,
                      EventsPoints, TestPoints, ComPoints, TestRmw, EventsRmw, ComRmw,
                      Stores
  <2>5. WorldTypes'
    BY <1>6 DEF WorldTypes, port_runTestDisable, EndRound
  <2>6. QED
    BY <2>3, <2>4, <2>5
<1>7. CASE LinkClear
  <2>1. Stores("test", "linkclear")
    BY <1>7 DEF LinkClear, ClearError
  <2>2. /\ Err("test") \in SUBSET ErrorBits /\ Ev("test") \in SUBSET Events
        /\ reg' \in [Threads -> Regs]
    BY <2>1, CopyTypes, StoreTypes
  <2>3. PortTypes'
    BY <1>7, <2>2 DEF PortTypes, Tests, Alarms, LinkClear, ClearError, ErrorBits,
                      TestErrors, ConfigErrors, Muting, Events
  <2>4. ThreadTypes'
    BY <1>7, <2>2 DEF PortTypes, ThreadTypes, Tests, Goto, LinkClear, ClearError,
                      EventsPoints, TestPoints, ComPoints, TestRmw, EventsRmw, ComRmw,
                      Stores
  <2>5. WorldTypes'
    BY <1>7 DEF WorldTypes, LinkClear, ClearError
  <2>6. QED
    BY <2>3, <2>4, <2>5
<1>8. CASE LinkFail
  <2>1. Stores("test", "linkfail")
    BY <1>8 DEF LinkFail, SetError
  <2>2. /\ Err("test") \in SUBSET ErrorBits /\ Ev("test") \in SUBSET Events
        /\ reg' \in [Threads -> Regs]
    BY <2>1, CopyTypes, StoreTypes
  <2>3. PortTypes'
    BY <1>8, <2>2 DEF PortTypes, Tests, Alarms, LinkFail, SetError, EndRound, ErrorBits,
                      TestErrors, ConfigErrors, Muting, Events
  <2>4. ThreadTypes'
    <3>1. CASE job = "link"
      <4>1. EndRound
        BY <1>8, <3>1 DEF LinkFail
      <4>2. QED
        BY <2>2, <4>1 DEF ThreadTypes, Tests, Goto, EndRound, EventsPoints, TestPoints,
                          ComPoints, TestRmw, EventsRmw, ComRmw
    <3>2. CASE job # "link"
      <4>1. job \in {"ping", "speed"}
        BY <2>1, <3>2 DEF ThreadTypes, Tests, Stores
      <4>2. QED
        BY <1>8, <2>2, <3>2, <4>1 DEF ThreadTypes, Goto, LinkFail, EventsPoints, TestPoints,
                                      ComPoints, TestRmw, EventsRmw, ComRmw
    <3>3. QED
      BY <3>1, <3>2
  <2>5. WorldTypes'
    BY <1>8 DEF WorldTypes, LinkFail, SetError, EndRound
  <2>6. QED
    BY <2>3, <2>4, <2>5
<1>9. CASE Ping
  BY <1>9 DEF Ping, Alive, PortTypes, ThreadTypes, WorldTypes, Tests, Alarms, Goto,
              EventsPoints, TestPoints, ComPoints, TestRmw, EventsRmw, ComRmw
<1>10. CASE PingFail
  <2>1. Stores("test", "pingfail")
    BY <1>10 DEF PingFail, SetError
  <2>2. /\ Err("test") \in SUBSET ErrorBits /\ Ev("test") \in SUBSET Events
        /\ reg' \in [Threads -> Regs]
    BY <2>1, CopyTypes, StoreTypes
  <2>3. PortTypes'
    BY <1>10, <2>2 DEF PortTypes, Tests, Alarms, PingFail, SetError, EndRound, ErrorBits,
                       TestErrors, ConfigErrors, Muting, Events
  <2>4. ThreadTypes'
    BY <1>10, <2>2 DEF PortTypes, ThreadTypes, Tests, Goto, PingFail, SetError, EndRound,
                       EventsPoints, TestPoints, ComPoints, TestRmw, EventsRmw, ComRmw,
                       Stores
  <2>5. WorldTypes'
    BY <1>10 DEF WorldTypes, PingFail, SetError, EndRound
  <2>6. QED
    BY <2>3, <2>4, <2>5
<1>11. CASE PingOk
  <2>2. reg' \in [Threads -> Regs]
    BY <1>11 DEF ThreadTypes, PingOk
  <2>3. PortTypes'
    BY <1>11, <2>2 DEF PortTypes, Tests, Alarms, PingOk, ErrorBits, TestErrors,
                       ConfigErrors, Muting, Events
  <2>4. ThreadTypes'
    BY <1>11, <2>2 DEF PortTypes, ThreadTypes, Tests, Goto, PingOk, EventsPoints,
                       TestPoints, ComPoints, TestRmw, EventsRmw, ComRmw
  <2>5. WorldTypes'
    BY <1>11 DEF WorldTypes, PingOk
  <2>6. QED
    BY <2>3, <2>4, <2>5
<1>12. CASE Speed
  BY <1>12 DEF Speed, PortTypes, ThreadTypes, WorldTypes, Tests, Alarms, Goto, EventsPoints,
               TestPoints, ComPoints, TestRmw, EventsRmw, ComRmw
<1>13. CASE SpeedClear
  <2>1. Stores("test", "speedclear")
    BY <1>13 DEF SpeedClear, ClearError
  <2>2. /\ Err("test") \in SUBSET ErrorBits /\ Ev("test") \in SUBSET Events
        /\ reg' \in [Threads -> Regs]
    BY <2>1, CopyTypes, StoreTypes
  <2>3. PortTypes'
    BY <1>13, <2>2 DEF PortTypes, Tests, Alarms, SpeedClear, Alive, ClearError, ErrorBits,
                       TestErrors, ConfigErrors, Muting, Events
  <2>4. ThreadTypes'
    BY <1>13, <2>2 DEF PortTypes, ThreadTypes, Tests, Goto, SpeedClear, Alive, ClearError,
                       EventsPoints, TestPoints, ComPoints, TestRmw, EventsRmw, ComRmw,
                       Stores
  <2>5. WorldTypes'
    BY <1>13 DEF WorldTypes, SpeedClear, Alive, ClearError
  <2>6. QED
    BY <2>3, <2>4, <2>5
<1>14. CASE SpeedFail
  <2>1. Stores("test", "speedfail")
    BY <1>14 DEF SpeedFail, SetError
  <2>2. /\ Err("test") \in SUBSET ErrorBits /\ Ev("test") \in SUBSET Events
        /\ reg' \in [Threads -> Regs]
    BY <2>1, CopyTypes, StoreTypes
  <2>3. PortTypes'
    BY <1>14, <2>2 DEF PortTypes, Tests, Alarms, SpeedFail, SetError, EndRound, ErrorBits,
                       TestErrors, ConfigErrors, Muting, Events
  <2>4. ThreadTypes'
    BY <1>14, <2>2 DEF PortTypes, ThreadTypes, Tests, Goto, SpeedFail, SetError, EndRound,
                       EventsPoints, TestPoints, ComPoints, TestRmw, EventsRmw, ComRmw,
                       Stores
  <2>5. WorldTypes'
    BY <1>14 DEF WorldTypes, SpeedFail, SetError, EndRound
  <2>6. QED
    BY <2>3, <2>4, <2>5
<1>15. CASE TestPassed
  BY <1>15 DEF TestPassed, PortTypes, ThreadTypes, WorldTypes, Tests, Alarms, Goto,
               EventsPoints, TestPoints, ComPoints, TestRmw, EventsRmw, ComRmw
<1>16. CASE MarkOk
  <2>1. Stores("test", "mark")
    BY <1>16 DEF MarkOk
  <2>2. /\ Err("test") \in SUBSET ErrorBits /\ Ev("test") \in SUBSET Events
        /\ reg' \in [Threads -> Regs]
    BY <2>1, CopyTypes, StoreTypes
  <2>3. PortTypes'
    BY <1>16, <2>2 DEF PortTypes, Tests, Alarms, MarkOk, EndRound, ErrorBits, TestErrors,
                       ConfigErrors, Muting, Events
  <2>4. ThreadTypes'
    BY <1>16, <2>2 DEF PortTypes, ThreadTypes, Tests, Goto, MarkOk, EndRound, EventsPoints,
                       TestPoints, ComPoints, TestRmw, EventsRmw, ComRmw, Stores
  <2>5. WorldTypes'
    BY <1>16 DEF WorldTypes, MarkOk, EndRound
  <2>6. QED
    BY <2>3, <2>4, <2>5
<1>17. CASE TestEnd
  <2>2. reg' \in [Threads -> Regs]
    BY <1>17 DEF ThreadTypes, TestEnd, EndRound
  <2>3. PortTypes'
    BY <1>17, <2>2 DEF PortTypes, Tests, Alarms, TestEnd, EndRound, ErrorBits, TestErrors,
                       ConfigErrors, Muting, Events
  <2>4. ThreadTypes'
    BY <1>17, <2>2 DEF PortTypes, ThreadTypes, Tests, Goto, TestEnd, EndRound, EventsPoints,
                       TestPoints, ComPoints, TestRmw, EventsRmw, ComRmw
  <2>5. WorldTypes'
    BY <1>17 DEF WorldTypes, TestEnd, EndRound
  <2>6. QED
    BY <2>3, <2>4, <2>5
<1>18. QED
  BY <1>1, <1>2, <1>3, <1>4, <1>5, <1>6, <1>7, <1>8, <1>9, <1>10, <1>11, <1>12, <1>13,
     <1>14, <1>15, <1>16, <1>17 DEF TestThread

(* So does a step of eventsHandler itself ... *)
LEMMA JudgeTypes ==
  ASSUME TypeOK, EventsThread /\ ~rebootHandler /\ ~alarmHandler
  PROVE  TypeOK'
<1> USE ConstantsAssumption DEF TypeOK, Threads, At, shared, counts, reboot, enabled,
                                alarms, locals, world, history
<1>1. CASE Load("events", EventsRmw)
  BY <1>1, LoadTypes
<1>2. CASE EventsPass
  BY <1>2 DEF EventsPass, PortTypes, ThreadTypes, WorldTypes, Tests, Alarms, Goto,
              EventsPoints, TestPoints, ComPoints, TestRmw, EventsRmw, ComRmw
<1>3. CASE Wake
  <2>1. Stores("events", "wake")
    BY <1>3 DEF Wake
  <2>2. /\ Err("events") \in SUBSET ErrorBits /\ Ev("events") \in SUBSET Events
        /\ reg' \in [Threads -> Regs]
    BY <2>1, CopyTypes, StoreTypes
  <2>3. PortTypes'
    BY <1>3, <2>2 DEF PortTypes, Tests, Alarms, Wake, ErrorBits, TestErrors, ConfigErrors,
                      Muting, Events
  <2>4. ThreadTypes'
    BY <1>3, <2>2 DEF PortTypes, ThreadTypes, Tests, Goto, Wake, EventsPoints, TestPoints,
                      ComPoints, TestRmw, EventsRmw, ComRmw, Stores
  <2>5. WorldTypes'
    BY <1>3 DEF WorldTypes, Wake
  <2>6. QED
    BY <2>3, <2>4, <2>5
<1>4. CASE test_ErrorHandler
  <2>1. Stores("events", "judge")
    BY <1>4 DEF test_ErrorHandler
  <2>2. /\ Err("events") \in SUBSET ErrorBits /\ Ev("events") \in SUBSET Events
        /\ reg' \in [Threads -> Regs]
    BY <2>1, CopyTypes, StoreTypes
  <2>3. PortTypes'
    BY <1>4, <2>2 DEF PortTypes, Tests, Alarms, test_ErrorHandler, ErrorBits, TestErrors,
                      ConfigErrors, Muting, Events
  <2>4. ThreadTypes'
    BY <1>4, <2>2 DEF PortTypes, ThreadTypes, Tests, Goto, test_ErrorHandler, EventsPoints,
                      TestPoints, ComPoints, TestRmw, EventsRmw, ComRmw, Stores
  <2>5. WorldTypes'
    BY <1>4 DEF WorldTypes, test_ErrorHandler
  <2>6. QED
    BY <2>3, <2>4, <2>5
<1>5. QED
  BY <1>1, <1>2, <1>3, <1>4 DEF EventsThread

(* ... of rebootHandler ... *)
LEMMA HandlerTypes ==
  ASSUME TypeOK, rebootHandler
  PROVE  TypeOK'
<1> USE ConstantsAssumption DEF TypeOK, Threads, At, shared, counts, reboot, enabled,
                                alarms, locals, world, history
<1>1. CASE TakeAuto
  <2>1. Stores("events", "auto")
    BY <1>1 DEF TakeAuto
  <2>2. /\ Err("events") \in SUBSET ErrorBits /\ Ev("events") \in SUBSET Events
        /\ reg' \in [Threads -> Regs]
    BY <2>1, CopyTypes, StoreTypes
  <2>3. PortTypes'
    BY <1>1, <2>2 DEF PortTypes, Tests, Alarms, TakeAuto, ErrorBits, TestErrors,
                      ConfigErrors, Muting, Events
  <2>4. ThreadTypes'
    BY <1>1, <2>2 DEF PortTypes, ThreadTypes, Tests, Goto, TakeAuto, EventsPoints,
                      TestPoints, ComPoints, TestRmw, EventsRmw, ComRmw, Stores
  <2>5. WorldTypes'
    BY <1>1 DEF WorldTypes, TakeAuto
  <2>6. QED
    BY <2>3, <2>4, <2>5
<1>2. CASE autoResetHandler
  <2>1. Stores("events", "autoreset")
    BY <1>2 DEF autoResetHandler
  <2>2. /\ Err("events") \in SUBSET ErrorBits /\ Ev("events") \in SUBSET Events
        /\ reg' \in [Threads -> Regs]
    BY <2>1, CopyTypes, StoreTypes
  <2>3. PortTypes'
    BY <1>2, <2>2 DEF PortTypes, Tests, Alarms, autoResetHandler, LimitReached, ErrorBits,
                      TestErrors, ConfigErrors, Muting, Events
  <2>4. ThreadTypes'
    BY <1>2, <2>2 DEF PortTypes, ThreadTypes, Tests, Goto, autoResetHandler, LimitReached,
                      EventsPoints, TestPoints, ComPoints, TestRmw, EventsRmw, ComRmw,
                      Stores
  <2>5. WorldTypes'
    BY <1>2 DEF WorldTypes, autoResetHandler, LimitReached
  <2>6. QED
    BY <2>3, <2>4, <2>5
<1>3. CASE set_errorHandler("checkconfig", "manual")
  BY <1>3 DEF set_errorHandler, PortTypes, ThreadTypes, WorldTypes, Tests, Alarms, Goto,
              EventsPoints, TestPoints, ComPoints, TestRmw, EventsRmw, ComRmw
<1>4. CASE TakeManual
  BY <1>4 DEF TakeManual, PortTypes, ThreadTypes, WorldTypes, Tests, Alarms, Goto,
              EventsPoints, TestPoints, ComPoints, TestRmw, EventsRmw, ComRmw
<1>5. CASE manualResetHandler
  <2>1. Stores("events", "manreset")
    BY <1>5 DEF manualResetHandler
  <2>2. /\ Err("events") \in SUBSET ErrorBits /\ Ev("events") \in SUBSET Events
        /\ reg' \in [Threads -> Regs]
    BY <2>1, CopyTypes, StoreTypes
  <2>3. PortTypes'
    BY <1>5, <2>2 DEF PortTypes, Tests, Alarms, manualResetHandler, ErrorBits, TestErrors,
                      ConfigErrors, Muting, Events
  <2>4. ThreadTypes'
    BY <1>5, <2>2 DEF PortTypes, ThreadTypes, Tests, Goto, manualResetHandler, EventsPoints,
                      TestPoints, ComPoints, TestRmw, EventsRmw, ComRmw, Stores
  <2>5. WorldTypes'
    <3>1. dark' \in 0 .. RebootDelay /\ alarmOff' \in BOOLEAN
      BY <1>5 DEF WorldTypes, manualResetHandler
    <3>2. downs' \in 0 .. MaxReset + 2 /\ streak' \in 0 .. MaxReset + 1
      BY <1>5 DEF manualResetHandler
    <3>3. UNCHANGED world
      BY <1>5 DEF manualResetHandler
    <3>4. QED
      BY <3>1, <3>2, <3>3 DEF WorldTypes
  <2>6. QED
    BY <2>3, <2>4, <2>5
<1>6. CASE ClearManual
  <2>1. Stores("events", "manclear")
    BY <1>6 DEF ClearManual
  <2>2. /\ Err("events") \in SUBSET ErrorBits /\ Ev("events") \in SUBSET Events
        /\ reg' \in [Threads -> Regs]
    BY <2>1, CopyTypes, StoreTypes
  <2>3. PortTypes'
    BY <1>6, <2>2 DEF PortTypes, Tests, Alarms, ClearManual, ErrorBits, TestErrors,
                      ConfigErrors, Muting, Events
  <2>4. ThreadTypes'
    BY <1>6, <2>2 DEF PortTypes, ThreadTypes, Tests, Goto, ClearManual, EventsPoints,
                      TestPoints, ComPoints, TestRmw, EventsRmw, ComRmw, Stores
  <2>5. WorldTypes'
    BY <1>6 DEF WorldTypes, ClearManual
  <2>6. QED
    BY <2>3, <2>4, <2>5
<1>7. CASE RebootInit
  BY <1>7 DEF RebootInit, PortTypes, ThreadTypes, WorldTypes, Tests, Alarms, Goto,
              EventsPoints, TestPoints, ComPoints, TestRmw, EventsRmw, ComRmw
<1>8. CASE RebootDown
  <2>2. reg' \in [Threads -> Regs]
    BY <1>8 DEF ThreadTypes, RebootDown, StartTaken, poe_Control
  <2>3. PortTypes'
    BY <1>8, <2>2 DEF PortTypes, Tests, Alarms, RebootDown, StartTaken, poe_Control,
                      ErrorBits, TestErrors, ConfigErrors, Muting, Events
  <2>4. ThreadTypes'
    <3>1. CASE ("START" \in rebootEvent)
      BY <1>8, <2>2, <3>1 DEF ThreadTypes, Goto, RebootDown, EventsPoints, TestPoints,
                              ComPoints, TestRmw, EventsRmw, ComRmw
    <3>2. CASE ~("START" \in rebootEvent)
      BY <1>8, <2>2, <3>2 DEF ThreadTypes, Goto, RebootDown, EventsPoints, TestPoints,
                              ComPoints, TestRmw, EventsRmw, ComRmw
    <3>3. QED
      BY <3>1, <3>2
  <2>5. WorldTypes'
    <3>1. dark' \in 0 .. RebootDelay /\ downs' \in 0 .. MaxReset + 2
      <4>1. \/ dark' = 0 /\ downs' = (IF downs > MaxReset + 1 THEN downs ELSE downs + 1)
            \/ (dark' = dark /\ downs' = downs)
        BY <1>8 DEF RebootDown
      <4>2. QED
        BY <4>1 DEF WorldTypes
    <3>2. power' \in BOOLEAN
      BY <1>8 DEF WorldTypes, RebootDown, poe_Control
    <3>3. UNCHANGED <<admin, tod, cmds, changes, streak, alarmOff>>
      BY <1>8 DEF RebootDown
    <3>4. QED
      BY <3>1, <3>2, <3>3 DEF WorldTypes
  <2>6. QED
    BY <2>3, <2>4, <2>5
<1>9. CASE RebootArm
  BY <1>9 DEF RebootArm, RebootDeadline, PortTypes, ThreadTypes, WorldTypes, Tests, Alarms,
              Goto, EventsPoints, TestPoints, ComPoints, TestRmw, EventsRmw, ComRmw
<1>10. CASE RebootCheck
  BY <1>10 DEF RebootCheck, PortTypes, ThreadTypes, WorldTypes, Tests, Alarms, Goto,
               EventsPoints, TestPoints, ComPoints, TestRmw, EventsRmw, ComRmw
<1>11. CASE RebootUp
  <2>2. reg' \in [Threads -> Regs]
    BY <1>11 DEF ThreadTypes, RebootUp, MayPowerUp, poe_Control
  <2>3. PortTypes'
    BY <1>11, <2>2 DEF PortTypes, Tests, Alarms, RebootUp, MayPowerUp, poe_Control,
                       ErrorBits, TestErrors, ConfigErrors, Muting, Events
  <2>4. ThreadTypes'
    BY <1>11, <2>2 DEF PortTypes, ThreadTypes, Tests, Goto, RebootUp, MayPowerUp,
                       poe_Control, EventsPoints, TestPoints, ComPoints, TestRmw, EventsRmw,
                       ComRmw
  <2>5. WorldTypes'
    BY <1>11 DEF WorldTypes, RebootUp, MayPowerUp, poe_Control
  <2>6. QED
    BY <2>3, <2>4, <2>5
<1>12. CASE RebootDone
  BY <1>12 DEF RebootDone, StateAfterReboot, PortTypes, ThreadTypes, WorldTypes, Tests, Alarms, Goto,
               EventsPoints, TestPoints, ComPoints, TestRmw, EventsRmw, ComRmw
<1>13. CASE RebootClear
  <2>1. Stores("events", "upclear")
    BY <1>13 DEF RebootClear
  <2>2. /\ Err("events") \in SUBSET ErrorBits /\ Ev("events") \in SUBSET Events
        /\ reg' \in [Threads -> Regs]
    BY <2>1, CopyTypes, StoreTypes
  <2>3. PortTypes'
    BY <1>13, <2>2 DEF PortTypes, Tests, Alarms, RebootClear, ErrorBits, TestErrors,
                       ConfigErrors, Muting, Events
  <2>4. ThreadTypes'
    BY <1>13, <2>2 DEF PortTypes, ThreadTypes, Tests, Goto, RebootClear, EventsPoints,
                       TestPoints, ComPoints, TestRmw, EventsRmw, ComRmw, Stores
  <2>5. WorldTypes'
    BY <1>13 DEF WorldTypes, RebootClear
  <2>6. QED
    BY <2>3, <2>4, <2>5
<1>14. CASE DropManual
  <2>1. Stores("events", "upmanual")
    BY <1>14 DEF DropManual
  <2>2. /\ Err("events") \in SUBSET ErrorBits /\ Ev("events") \in SUBSET Events
        /\ reg' \in [Threads -> Regs]
    BY <2>1, CopyTypes, StoreTypes
  <2>3. PortTypes'
    BY <1>14, <2>2 DEF PortTypes, Tests, Alarms, DropManual, ErrorBits, TestErrors,
                       ConfigErrors, Muting, Events
  <2>4. ThreadTypes'
    BY <1>14, <2>2 DEF PortTypes, ThreadTypes, Tests, Goto, DropManual, EventsPoints,
                       TestPoints, ComPoints, TestRmw, EventsRmw, ComRmw, Stores
  <2>5. WorldTypes'
    BY <1>14 DEF WorldTypes, DropManual
  <2>6. QED
    BY <2>3, <2>4, <2>5
<1>15. CASE DropShutdown
  <2>1. Stores("events", "upshut")
    BY <1>15 DEF DropShutdown
  <2>2. /\ Err("events") \in SUBSET ErrorBits /\ Ev("events") \in SUBSET Events
        /\ reg' \in [Threads -> Regs]
    BY <2>1, CopyTypes, StoreTypes
  <2>3. PortTypes'
    BY <1>15, <2>2 DEF PortTypes, Tests, Alarms, DropShutdown, ErrorBits, TestErrors,
                       ConfigErrors, Muting, Events
  <2>4. ThreadTypes'
    BY <1>15, <2>2 DEF PortTypes, ThreadTypes, Tests, Goto, DropShutdown, EventsPoints,
                       TestPoints, ComPoints, TestRmw, EventsRmw, ComRmw, Stores
  <2>5. WorldTypes'
    BY <1>15 DEF WorldTypes, DropShutdown
  <2>6. QED
    BY <2>3, <2>4, <2>5
<1>16. CASE getPortParam
  <2>2. reg' \in [Threads -> Regs]
    BY <1>16 DEF ThreadTypes, getPortParam, ParamError, ArmAlarms, NextAt
  <2>3. PortTypes'
    <3>1. \A t : ParamError(t) \in SUBSET ErrorBits
      BY DEF ParamError, ErrorBits, ConfigErrors, Muting
    <3>2. remain' \in [Alarms -> 0 .. Day]
      <4>1. tod \in 0 .. Day - 1
        BY DEF WorldTypes
      <4>2. NextAt(TimeUp) \in Int /\ NextAt(TimeDown) \in Int
        BY <4>1 DEF NextAt
      <4>3. TimeUp # Day => NextAt(TimeUp) \in 0 .. Day
        BY <4>1 DEF NextAt
      <4>4. TimeDown # Day => NextAt(TimeDown) \in 0 .. Day
        BY <4>1 DEF NextAt
      <4>5. ArmAlarms(remain) \in [Alarms -> 0 .. Day]
        BY <4>3, <4>4 DEF PortTypes, ArmAlarms, Alarms
      <4>6. QED
        BY <1>16, <4>5 DEF PortTypes, getPortParam
    <3>3. \A failed \in BOOLEAN : ParamTest(OptionState(failed)) \in Tests
      BY DEF ParamTest, OptionState, Tests
    <3>4. errorCode' \in SUBSET ErrorBits /\ test' \in Tests /\ alarm' \in BOOLEAN
      <4>1. PICK failed \in Failures : /\ errorCode' = ParamError(OptionState(failed))
                                      /\ test' = ParamTest(OptionState(failed))
                                      /\ alarm' = (Alarm /\ ~failed)
        BY <1>16 DEF getPortParam
      <4>2. failed \in BOOLEAN
        BY DEF Failures
      <4>3. QED
        BY <3>1, <3>3, <4>1, <4>2
    <3>5. QED
      BY <1>16, <3>2, <3>4 DEF PortTypes, getPortParam
  <2>4. ThreadTypes'
    BY <1>16, <2>2 DEF PortTypes, ThreadTypes, Tests, Goto, getPortParam, ParamError,
                       ArmAlarms, NextAt, EventsPoints, TestPoints, ComPoints, TestRmw,
                       EventsRmw, ComRmw
  <2>5. WorldTypes'
    BY <1>16 DEF WorldTypes, getPortParam, ParamError, ArmAlarms, NextAt
  <2>6. QED
    BY <2>3, <2>4, <2>5
<1>17. CASE set_errorHandler("paramcheck", "alarm")
  BY <1>17 DEF set_errorHandler, PortTypes, ThreadTypes, WorldTypes, Tests, Alarms, Goto,
               EventsPoints, TestPoints, ComPoints, TestRmw, EventsRmw, ComRmw
<1>18. QED
  BY <1>1, <1>2, <1>3, <1>4, <1>5, <1>6, <1>7, <1>8, <1>9, <1>10, <1>11, <1>12, <1>13,
     <1>14, <1>15, <1>16, <1>17 DEF rebootHandler

(* ... of alarmHandler ... *)
LEMMA AlarmTypes ==
  ASSUME TypeOK, alarmHandler
  PROVE  TypeOK'
<1> USE ConstantsAssumption DEF TypeOK, Threads, At, shared, counts, reboot, enabled,
                                alarms, locals, world, history
<1>1. CASE CheckAlarms
  BY <1>1 DEF CheckAlarms, AlarmTurn, PortTypes, ThreadTypes, WorldTypes, Tests, Alarms,
              Goto, EventsPoints, TestPoints, ComPoints, TestRmw, EventsRmw, ComRmw
<1>2. CASE AlarmDown
  BY <1>2 DEF AlarmDown, PortTypes, ThreadTypes, WorldTypes, Tests, Alarms, Goto,
              EventsPoints, TestPoints, ComPoints, TestRmw, EventsRmw, ComRmw
<1>3. CASE AlarmFlag
  <2>1. Stores("events", "alarmflag")
    BY <1>3 DEF AlarmFlag
  <2>2. /\ Err("events") \in SUBSET ErrorBits /\ Ev("events") \in SUBSET Events
        /\ reg' \in [Threads -> Regs]
    BY <2>1, CopyTypes, StoreTypes
  <2>3. PortTypes'
    BY <1>3, <2>2 DEF PortTypes, Tests, Alarms, AlarmFlag, ErrorBits, TestErrors,
                      ConfigErrors, Muting, Events
  <2>4. ThreadTypes'
    BY <1>3, <2>2 DEF PortTypes, ThreadTypes, Tests, Goto, AlarmFlag, EventsPoints,
                      TestPoints, ComPoints, TestRmw, EventsRmw, ComRmw, Stores
  <2>5. WorldTypes'
    BY <1>3 DEF WorldTypes, AlarmFlag
  <2>6. QED
    BY <2>3, <2>4, <2>5
<1>4. CASE AlarmOff
  <2>2. reg' \in [Threads -> Regs]
    BY <1>4 DEF ThreadTypes, AlarmOff, poe_Control
  <2>3. PortTypes'
    BY <1>4, <2>2 DEF PortTypes, Tests, Alarms, AlarmOff, poe_Control, ErrorBits,
                      TestErrors, ConfigErrors, Muting, Events
  <2>4. ThreadTypes'
    BY <1>4, <2>2 DEF PortTypes, ThreadTypes, Tests, Goto, AlarmOff, poe_Control,
                      EventsPoints, TestPoints, ComPoints, TestRmw, EventsRmw, ComRmw
  <2>5. WorldTypes'
    BY <1>4 DEF WorldTypes, AlarmOff, poe_Control
  <2>6. QED
    BY <2>3, <2>4, <2>5
<1>5. CASE AlarmUp
  <2>2. reg' \in [Threads -> Regs]
    BY <1>5 DEF ThreadTypes, AlarmUp, poe_Control
  <2>3. PortTypes'
    BY <1>5, <2>2 DEF PortTypes, Tests, Alarms, AlarmUp, poe_Control, ErrorBits, TestErrors,
                      ConfigErrors, Muting, Events
  <2>4. ThreadTypes'
    <3>1. CASE status["up"]
      BY <1>5, <2>2, <3>1 DEF ThreadTypes, Goto, AlarmUp, EventsPoints, TestPoints,
                              ComPoints, TestRmw, EventsRmw, ComRmw
    <3>2. CASE ~status["up"]
      BY <1>5, <2>2, <3>2 DEF ThreadTypes, Goto, AlarmUp, EventsPoints, TestPoints,
                              ComPoints, TestRmw, EventsRmw, ComRmw
    <3>3. QED
      BY <3>1, <3>2
  <2>5. WorldTypes'
    BY <1>5 DEF WorldTypes, AlarmUp, poe_Control
  <2>6. QED
    BY <2>3, <2>4, <2>5
<1>6. CASE AlarmClear
  <2>1. Stores("events", "alarmclear")
    BY <1>6 DEF AlarmClear
  <2>2. /\ Err("events") \in SUBSET ErrorBits /\ Ev("events") \in SUBSET Events
        /\ reg' \in [Threads -> Regs]
    BY <2>1, CopyTypes, StoreTypes
  <2>3. PortTypes'
    BY <1>6, <2>2 DEF PortTypes, Tests, Alarms, AlarmClear, ErrorBits, TestErrors,
                      ConfigErrors, Muting, Events
  <2>4. ThreadTypes'
    BY <1>6, <2>2 DEF PortTypes, ThreadTypes, Tests, Goto, AlarmClear, EventsPoints,
                      TestPoints, ComPoints, TestRmw, EventsRmw, ComRmw, Stores
  <2>5. WorldTypes'
    BY <1>6 DEF WorldTypes, AlarmClear
  <2>6. QED
    BY <2>3, <2>4, <2>5
<1>7. QED
  BY <1>1, <1>2, <1>3, <1>4, <1>5, <1>6 DEF alarmHandler

(* ... and of the command thread. *)
LEMMA ComThreadTypes ==
  ASSUME TypeOK, ComThread
  PROVE  TypeOK'
<1> USE ConstantsAssumption DEF TypeOK, Threads, At, shared, counts, reboot, enabled,
                                alarms, locals, world, history
<1>1. CASE ComReceive
  BY <1>1 DEF ComReceive, PortTypes, ThreadTypes, WorldTypes, Tests, Alarms, Goto,
              EventsPoints, TestPoints, ComPoints, TestRmw, EventsRmw, ComRmw
<1>2. CASE Load("com", ComRmw)
  BY <1>2, LoadTypes
<1>3. CASE ComSet
  BY <1>3 DEF ComSet, PortTypes, ThreadTypes, WorldTypes, Tests, Alarms, Goto, EventsPoints,
              TestPoints, ComPoints, TestRmw, EventsRmw, ComRmw
<1>4. CASE ComRequest
  <2>1. Stores("com", "request")
    BY <1>4 DEF ComRequest
  <2>2. /\ Err("com") \in SUBSET ErrorBits /\ Ev("com") \in SUBSET Events
        /\ reg' \in [Threads -> Regs]
    BY <2>1, CopyTypes, StoreTypes
  <2>3. PortTypes'
    BY <1>4, <2>2 DEF PortTypes, Tests, Alarms, ComRequest, ErrorBits, TestErrors,
                      ConfigErrors, Muting, Events
  <2>4. ThreadTypes'
    BY <1>4, <2>2 DEF PortTypes, ThreadTypes, Tests, Goto, ComRequest, EventsPoints,
                      TestPoints, ComPoints, TestRmw, EventsRmw, ComRmw, Stores
  <2>5. WorldTypes'
    BY <1>4 DEF WorldTypes, ComRequest
  <2>6. QED
    BY <2>3, <2>4, <2>5
<1>5. CASE ComCancel
  <2>1. Stores("com", "cancel")
    BY <1>5 DEF ComCancel
  <2>2. /\ Err("com") \in SUBSET ErrorBits /\ Ev("com") \in SUBSET Events
        /\ reg' \in [Threads -> Regs]
    BY <2>1, CopyTypes, StoreTypes
  <2>3. PortTypes'
    BY <1>5, <2>2 DEF PortTypes, Tests, Alarms, ComCancel, ErrorBits, TestErrors,
                      ConfigErrors, Muting, Events
  <2>4. ThreadTypes'
    BY <1>5, <2>2 DEF PortTypes, ThreadTypes, Tests, Goto, ComCancel, EventsPoints,
                      TestPoints, ComPoints, TestRmw, EventsRmw, ComRmw, Stores
  <2>5. WorldTypes'
    BY <1>5 DEF WorldTypes, ComCancel
  <2>6. QED
    BY <2>3, <2>4, <2>5
<1>6. QED
  BY <1>1, <1>2, <1>3, <1>4, <1>5 DEF ComThread, ComServe

(* What ar_mainInit and getPortsParam set up is in its type. *)
LEMMA InitTypes == Init => TypeOK
<1> SUFFICES ASSUME Init PROVE TypeOK
  OBVIOUS
<1>0. /\ MaxReset \in Nat /\ ByteMod - 1 \in Nat /\ RebootDelay \in Nat
      /\ Day \in Nat /\ Day - 1 \in Nat /\ MaxCmds \in Nat /\ MaxAdmin \in Nat
  BY ConstantsAssumption
<1>1. \A t : ParamError(t) \in SUBSET ErrorBits
  BY DEF ParamError, ErrorBits, ConfigErrors, Muting
<1>2. remain \in [Alarms -> 0 .. Day]
  <2>1. TimeUp # Day => NextAt(TimeUp) \in 0 .. Day
    BY ConstantsAssumption DEF Init, NextAt
  <2>2. TimeDown # Day => NextAt(TimeDown) \in 0 .. Day
    BY ConstantsAssumption DEF Init, NextAt
  <2>3. [k \in Alarms |-> 0] \in [Alarms -> 0 .. Day]
    BY ConstantsAssumption
  <2>4. ArmAlarms([k \in Alarms |-> 0]) \in [Alarms -> 0 .. Day]
    BY <2>1, <2>2, <2>3 DEF ArmAlarms, Alarms
  <2>5. QED
    BY <2>3, <2>4 DEF Init
<1>3. PortTypes
  <2>1. /\ state = "REGULAR" /\ event = {} /\ errorCode \in SUBSET ErrorBits
        /\ errorTestCount = 0 /\ resetCount = 0
        /\ rebootState = "IDLE" /\ rebootEvent = {} /\ rebootTimer = 0
        /\ port_state \in BOOLEAN /\ poe_state \in BOOLEAN /\ alarm \in BOOLEAN
    BY <1>1 DEF Init
  <2>2. test \in Tests /\ status \in [Alarms -> BOOLEAN]
    BY ConstantsAssumption DEF Init, ParamTest, OptionState, Tests
  <2>3. QED
    BY <1>0, <1>2, <2>1, <2>2 DEF PortTypes
<1>4. ThreadTypes
  BY DEF Init, ThreadTypes, Tests, Threads, NotLoaded, Regs, EventsPoints, TestPoints,
         ComPoints, TestRmw, EventsRmw, ComRmw
<1>5. WorldTypes
  <2>1. admin = [port |-> TRUE, poe |-> TRUE] /\ power \in BOOLEAN /\ alarmOff \in BOOLEAN
    BY DEF Init
  <2>2. tod = 0 /\ cmds = 0 /\ changes = 0 /\ dark = 0 /\ downs = 0 /\ streak = 0
    BY DEF Init
  <2>3. QED
    BY <1>0, <2>1, <2>2 DEF WorldTypes
<1>6. QED
  BY <1>3, <1>4, <1>5 DEF TypeOK

(* A saved configuration and the passing of a second keep the types. *)
LEMMA WorldStepTypes ==
  ASSUME TypeOK, AdminSave \/ Tick
  PROVE  TypeOK'
<1> USE ConstantsAssumption DEF TypeOK, shared, counts, reboot, enabled, alarms, locals,
                                history
<1>1. CASE AdminSave
  <2>1. PortTypes' /\ ThreadTypes'
    BY <1>1 DEF AdminSave, PortTypes, ThreadTypes
  <2>2. WorldTypes'
    <3>1. admin' \in [port : BOOLEAN, poe : BOOLEAN] /\ power' = admin'.poe
      BY <1>1 DEF AdminSave
    <3>2. power' \in BOOLEAN
      BY <3>1
    <3>3. changes' \in 0 .. MaxAdmin
      BY <1>1 DEF AdminSave, WorldTypes
    <3>4. alarmOff' \in BOOLEAN /\ UNCHANGED <<tod, cmds, dark, downs, streak>>
      BY <1>1 DEF AdminSave
    <3>5. QED
      BY <3>1, <3>2, <3>3, <3>4 DEF WorldTypes
  <2>3. QED
    BY <2>1, <2>2
<1>2. CASE Tick
  <2>1. remain' \in [Alarms -> 0 .. Day] /\ rebootTimer' \in 0 .. RebootDelay
    BY <1>2 DEF Tick, CountDown, PortTypes
  <2>2. PortTypes' /\ ThreadTypes'
    BY <1>2, <2>1 DEF Tick, PortTypes, ThreadTypes
  <2>3. tod' \in 0 .. Day - 1
    BY <1>2 DEF Tick, WorldTypes
  <2>4. dark' \in 0 .. RebootDelay
    BY <1>2 DEF Tick, WorldTypes
  <2>5. WorldTypes'
    BY <1>2, <2>3, <2>4 DEF Tick, WorldTypes
  <2>6. QED
    BY <2>2, <2>5
<1>3. QED
  BY <1>1, <1>2

(* So every step of the daemon and of its environment does. *)
LEMMA NextTypes == TypeOK /\ [Next]_vars => TypeOK'
<1> SUFFICES ASSUME TypeOK, [Next]_vars PROVE TypeOK'
  OBVIOUS
<1>1. CASE TestThread
  BY <1>1, TestThreadTypes
<1>2. CASE EventsThread
  BY <1>2, JudgeTypes, HandlerTypes, AlarmTypes
<1>3. CASE ComThread
  BY <1>3, ComThreadTypes
<1>4. CASE AdminSave \/ Tick
  BY <1>4, WorldStepTypes
<1>5. CASE UNCHANGED vars
  BY <1>5 DEF TypeOK, PortTypes, ThreadTypes, WorldTypes, vars, shared, counts, reboot,
              enabled, alarms, locals, world, history
<1>6. QED
  BY <1>1, <1>2, <1>3, <1>4, <1>5 DEF Next

(* Whatever the three threads lose of each other's updates, every variable  *)
(* stays in its type; resetCount, a uint8_t that is incremented, never      *)
(* passes max_reset.                                                        *)
THEOREM TypeCorrect == Spec => []TypeOK
<1>1. QED
  BY InitTypes, NextTypes, PTL DEF Spec

-----------------------------------------------------------------------------
(* RebootInv is inductive, given the types *)

(* Only the events thread and the clock touch what it speaks of. *)
LEMMA RebootFrame ==
  ASSUME RebootInv, UNCHANGED <<reboot, counts, dark, downs>>, pc'["events"] = pc["events"]
  PROVE  RebootInv'
BY DEF RebootInv, RebootCoherent, DownsPaid, OffTimeKept, reboot, counts

(* The test thread and the command thread stay within that frame. *)
LEMMA OthersKeepReboot ==
  ASSUME TypeOK, RebootInv, TestThread \/ ComThread \/ AdminSave
  PROVE  RebootInv'
<1>1. UNCHANGED <<reboot, counts, dark, downs>>
  <2>1. CASE Load("test", TestRmw)
    BY <2>1 DEF Load, history
  <2>2. CASE TestPoll
    BY <2>2 DEF TestPoll, history
  <2>3. CASE TestEnabled
    BY <2>3 DEF TestEnabled, history
  <2>4. CASE TestDisabled
    BY <2>4 DEF TestDisabled, history
  <2>5. CASE TestSpawn
    BY <2>5 DEF TestSpawn, history
  <2>6. CASE port_runTestDisable
    BY <2>6 DEF port_runTestDisable, history
  <2>7. CASE LinkClear
    BY <2>7 DEF LinkClear, ClearError, history
  <2>8. CASE LinkFail
    BY <2>8 DEF LinkFail, SetError, history
  <2>9. CASE Ping
    BY <2>9 DEF Ping, history
  <2>10. CASE PingFail
    BY <2>10 DEF PingFail, SetError, history
  <2>11. CASE PingOk
    BY <2>11 DEF PingOk, history
  <2>12. CASE Speed
    BY <2>12 DEF Speed, history
  <2>13. CASE SpeedClear
    BY <2>13 DEF SpeedClear, ClearError, history
  <2>14. CASE SpeedFail
    BY <2>14 DEF SpeedFail, SetError, history
  <2>15. CASE TestPassed
    BY <2>15 DEF TestPassed, history
  <2>16. CASE MarkOk
    BY <2>16 DEF MarkOk, history
  <2>17. CASE TestEnd
    BY <2>17 DEF TestEnd, history
  <2>18. CASE ComReceive
    BY <2>18 DEF ComReceive, history
  <2>19. CASE Load("com", ComRmw)
    BY <2>19 DEF Load, history
  <2>20. CASE ComSet
    BY <2>20 DEF ComSet, history
  <2>21. CASE ComRequest
    BY <2>21 DEF ComRequest, history
  <2>22. CASE ComCancel
    BY <2>22 DEF ComCancel, history
  <2>23. CASE AdminSave
    BY <2>23 DEF AdminSave, history
  <2>24. QED
    BY <2>1, <2>2, <2>3, <2>4, <2>5, <2>6, <2>7, <2>8, <2>9, <2>10, <2>11, <2>12, <2>13,
       <2>14, <2>15, <2>16, <2>17, <2>18, <2>19, <2>20, <2>21, <2>22, <2>23 DEF TestThread,
       ComThread, ComServe
<1>2. pc'["events"] = pc["events"]
  <2>1. CASE Load("test", TestRmw)
    BY <2>1 DEF TypeOK, ThreadTypes, Load, Goto
  <2>2. CASE TestPoll
    BY <2>2 DEF TypeOK, ThreadTypes, TestPoll, Goto
  <2>3. CASE TestEnabled
    BY <2>3 DEF TypeOK, ThreadTypes, TestEnabled, Goto
  <2>4. CASE TestDisabled
    BY <2>4 DEF TypeOK, ThreadTypes, TestDisabled, Goto
  <2>5. CASE TestSpawn
    BY <2>5 DEF TypeOK, ThreadTypes, TestSpawn, Goto
  <2>6. CASE port_runTestDisable
    BY <2>6 DEF TypeOK, ThreadTypes, port_runTestDisable, EndRound, Goto
  <2>7. CASE LinkClear
    BY <2>7 DEF TypeOK, ThreadTypes, LinkClear, Goto
  <2>8. CASE LinkFail
    <3>1. Goto("test", "sleep") \/ Goto("test", job)
      BY <2>8 DEF LinkFail, EndRound
    <3>2. QED
      BY <3>1 DEF TypeOK, ThreadTypes, Threads, Goto
  <2>9. CASE Ping
    BY <2>9 DEF TypeOK, ThreadTypes, Ping, Goto
  <2>10. CASE PingFail
    BY <2>10 DEF TypeOK, ThreadTypes, PingFail, EndRound, Goto
  <2>11. CASE PingOk
    BY <2>11 DEF TypeOK, ThreadTypes, PingOk, Goto
  <2>12. CASE Speed
    BY <2>12 DEF TypeOK, ThreadTypes, Speed, Goto
  <2>13. CASE SpeedClear
    BY <2>13 DEF TypeOK, ThreadTypes, SpeedClear, Goto
  <2>14. CASE SpeedFail
    BY <2>14 DEF TypeOK, ThreadTypes, SpeedFail, EndRound, Goto
  <2>15. CASE TestPassed
    BY <2>15 DEF TypeOK, ThreadTypes, TestPassed, Goto
  <2>16. CASE MarkOk
    BY <2>16 DEF TypeOK, ThreadTypes, MarkOk, EndRound, Goto
  <2>17. CASE TestEnd
    BY <2>17 DEF TypeOK, ThreadTypes, TestEnd, EndRound, Goto
  <2>18. CASE ComReceive
    BY <2>18 DEF TypeOK, ThreadTypes, ComReceive, Goto
  <2>19. CASE Load("com", ComRmw)
    BY <2>19 DEF TypeOK, ThreadTypes, Load, Goto
  <2>20. CASE ComSet
    BY <2>20 DEF TypeOK, ThreadTypes, ComSet, Goto
  <2>21. CASE ComRequest
    BY <2>21 DEF TypeOK, ThreadTypes, ComRequest, Goto
  <2>22. CASE ComCancel
    BY <2>22 DEF TypeOK, ThreadTypes, ComCancel, Goto
  <2>23. CASE AdminSave
    BY <2>23 DEF TypeOK, ThreadTypes, AdminSave, Goto
  <2>24. QED
    BY <2>1, <2>2, <2>3, <2>4, <2>5, <2>6, <2>7, <2>8, <2>9, <2>10, <2>11, <2>12, <2>13,
       <2>14, <2>15, <2>16, <2>17, <2>18, <2>19, <2>20, <2>21, <2>22, <2>23 DEF TestThread,
       ComThread, ComServe
<1>3. QED
  BY <1>1, <1>2, RebootFrame

(* Every step of the events thread preserves it: a phase is entered only from *)
(* the one before, and resetCount is cleared only together with downs.        *)
LEMMA EventsKeepReboot ==
  ASSUME TypeOK, RebootInv, EventsThread
  PROVE  RebootInv'
<1> USE ConstantsAssumption DEF RebootInv, RebootCoherent, DownsPaid, OffTimeKept, At, Goto,
                                counts, reboot, history
<1>0. /\ pc \in [Threads -> EventsPoints \cup TestPoints \cup ComPoints]
      /\ "events" \in Threads
      /\ resetCount \in 0 .. MaxReset /\ downs \in 0 .. MaxReset + 2 /\ dark \in 0 .. RebootDelay
      /\ rebootTimer \in 0 .. RebootDelay
      /\ rebootState \in {"IDLE", "INIT", "POE_DOWN", "POE_UP"}
  BY DEF TypeOK, PortTypes, ThreadTypes, WorldTypes, Threads
<1>1. CASE Load("events", EventsRmw)
  BY <1>0, <1>1 DEF Load
<1>2. CASE EventsPass
  BY <1>0, <1>2 DEF EventsPass
<1>3. CASE Wake
  BY <1>0, <1>3 DEF Wake, Stores
<1>4. CASE test_ErrorHandler
  BY <1>0, <1>4 DEF test_ErrorHandler, Stores
<1>5. CASE TakeAuto
  BY <1>0, <1>5 DEF TakeAuto, Stores
<1>6. CASE autoResetHandler
  BY <1>0, <1>6 DEF autoResetHandler, LimitReached, Stores
<1>7. CASE set_errorHandler("checkconfig", "manual")
  BY <1>0, <1>7 DEF set_errorHandler
<1>8. CASE TakeManual
  BY <1>0, <1>8 DEF TakeManual
<1>9. CASE manualResetHandler
  BY <1>0, <1>9 DEF manualResetHandler, Stores
<1>10. CASE ClearManual
  BY <1>0, <1>10 DEF ClearManual, Stores
<1>11. CASE RebootInit
  BY <1>0, <1>11 DEF RebootInit
<1>12. CASE RebootDown
  <2>1. pc["events"] = "down" /\ UNCHANGED <<counts, rebootState, rebootTimer>>
    BY <1>12 DEF RebootDown
  <2>2. CASE "START" \in rebootEvent
    <3>1. rebootEvent' = rebootEvent \ {"START"} /\ downs' = downs + 1
      BY <1>0, <1>12, <2>2 DEF RebootDown, StartTaken
    <3>2. pc'["events"] = "arm"
      BY <1>0, <1>12, <2>2 DEF RebootDown
    <3>3. QED
      BY <1>0, <2>1, <2>2, <3>1, <3>2
  <2>3. CASE "START" \notin rebootEvent
    <3>1. UNCHANGED <<rebootEvent, dark, downs>>
      BY <1>12, <2>3 DEF RebootDown
    <3>2. pc'["events"] = "check"
      BY <1>0, <1>12, <2>3 DEF RebootDown
    <3>3. QED
      BY <1>0, <2>1, <2>3, <3>1, <3>2
  <2>4. QED
    BY <2>2, <2>3
<1>13. CASE RebootArm
  BY <1>0, <1>13 DEF RebootArm, RebootDeadline
<1>14. CASE RebootCheck
  BY <1>0, <1>14 DEF RebootCheck
<1>15. CASE RebootUp
  BY <1>0, <1>15 DEF RebootUp
<1>16. CASE RebootDone
  BY <1>0, <1>16 DEF RebootDone
<1>17. CASE RebootClear
  BY <1>0, <1>17 DEF RebootClear, Stores
<1>18. CASE DropManual
  BY <1>0, <1>18 DEF DropManual, Stores
<1>19. CASE DropShutdown
  BY <1>0, <1>19 DEF DropShutdown, Stores
<1>20. CASE getPortParam
  BY <1>0, <1>20 DEF getPortParam
<1>21. CASE set_errorHandler("paramcheck", "alarm")
  BY <1>0, <1>21 DEF set_errorHandler
<1>22. CASE CheckAlarms
  BY <1>0, <1>22 DEF CheckAlarms
<1>23. CASE AlarmDown
  BY <1>0, <1>23 DEF AlarmDown
<1>24. CASE AlarmFlag
  BY <1>0, <1>24 DEF AlarmFlag, Stores
<1>25. CASE AlarmOff
  BY <1>0, <1>25 DEF AlarmOff
<1>26. CASE AlarmUp
  BY <1>0, <1>26 DEF AlarmUp
<1>27. CASE AlarmClear
  BY <1>0, <1>27 DEF AlarmClear, Stores
<1>28. QED
  BY <1>1, <1>2, <1>3, <1>4, <1>5, <1>6, <1>7, <1>8, <1>9, <1>10, <1>11, <1>12, <1>13,
     <1>14, <1>15, <1>16, <1>17, <1>18, <1>19, <1>20, <1>21, <1>22, <1>23, <1>24, <1>25,
     <1>26, <1>27 DEF EventsThread, rebootHandler, alarmHandler

(* As time passes the timer gives up what the time in the dark gains. *)
LEMMA TickKeepsReboot ==
  ASSUME TypeOK, RebootInv, Tick
  PROVE  RebootInv'
<1>1. rebootTimer \in 0 .. RebootDelay /\ dark \in 0 .. RebootDelay /\ RebootDelay \in Nat
  BY ConstantsAssumption DEF TypeOK, PortTypes, WorldTypes
<1>2. rebootTimer + dark >= RebootDelay => rebootTimer' + dark' >= RebootDelay
  BY <1>1 DEF Tick, CountDown
<1>3. dark >= RebootDelay => dark' >= RebootDelay
  BY <1>1 DEF Tick
<1>4. UNCHANGED <<rebootState, rebootEvent, resetCount, downs, pc>>
  BY DEF Tick, counts
<1>5. QED
  BY <1>2, <1>3, <1>4 DEF RebootInv, RebootCoherent, DownsPaid, OffTimeKept

(* So every step preserves the reboot invariant ... *)
LEMMA NextKeepsReboot == TypeOK /\ RebootInv /\ [Next]_vars => RebootInv'
<1> SUFFICES ASSUME TypeOK, RebootInv, [Next]_vars PROVE RebootInv'
  OBVIOUS
<1>1. CASE TestThread \/ ComThread \/ AdminSave
  BY <1>1, OthersKeepReboot
<1>2. CASE EventsThread
  BY <1>2, EventsKeepReboot
<1>3. CASE Tick
  BY <1>3, TickKeepsReboot
<1>4. CASE UNCHANGED vars
  BY <1>4, RebootFrame DEF vars, history
<1>5. QED
  BY <1>1, <1>2, <1>3, <1>4 DEF Next

(* ... and rebootParamInit establishes it. *)
LEMMA InitReboot == Init => RebootInv
BY DEF Init, RebootInv, RebootCoherent, DownsPaid, OffTimeKept, Threads

(* The reboot machine's phase, events, timer and counter stay coherent under *)
(* every interleaving with the test, command and administrator steps.        *)
THEOREM RebootInvariant == Spec => []RebootInv
<1>1. QED
  BY InitReboot, NextKeepsReboot, TypeCorrect, PTL DEF Spec

(* A reboot never ends before the port has been off for rebootDelay. *)
THEOREM OffTimeTheorem == Spec => []OffTimeKept
<1>1. RebootInv => OffTimeKept
  BY DEF RebootInv
<1>2. QED
  BY <1>1, RebootInvariant, PTL

(* The reboot machine switches the port off at most max_reset + 1 times       *)
(* between two moments at which resetCount is cleared.                        *)
THEOREM BudgetTheorem == Spec => []RestartBudget
<1>1. TypeOK /\ RebootInv => RestartBudget
  <2> SUFFICES ASSUME TypeOK, RebootInv PROVE RestartBudget
    OBVIOUS
  <2>1. resetCount \in 0 .. MaxReset /\ downs \in 0 .. MaxReset + 2 /\ MaxReset \in Nat
    BY ConstantsAssumption DEF TypeOK, PortTypes, WorldTypes
  <2>2. downs <= resetCount + 1
    BY <2>1 DEF RebootInv, DownsPaid
  <2>3. QED
    BY <2>1, <2>2 DEF RestartBudget
<1>2. QED
  BY <1>1, RebootInvariant, TypeCorrect, PTL

-----------------------------------------------------------------------------
(* The schedule keeps the port off *)

(* The points of alarmHandler behind its look at the port's state *)
AlarmPoints == {"alarmdown", "alarmflag", "alarmoff", "alarmup", "alarmclear"}

(* The ping test, which overwrites the error word, is not in use ... *)
NoPing == test # "ping" /\ job # "ping" /\ pc["test"] \notin {"ping", "pingok", "pingfail"}

(* ... and no client asks for a reboot *)
NoCommand == cmds = 0 /\ pc["com"] = "accept"

(* While the schedule has the port off, ERR_POE_DOWN is in the error word and  *)
(* in the copy the events thread works on, and no reboot is under way.         *)
SwitchedOff ==
  /\ ~power /\ state # "REBOOT" /\ "POE_DOWN" \in errorCode
  /\ pc["events"] \in {"sleep", "wake", "judge", "alarm", "alarmdown", "alarmflag", "alarmoff",
                       "alarmup"}
  /\ reg["events"].loaded => "POE_DOWN" \in reg["events"].err

(* The inductive invariant: a copy is held only where it is stored, poe is     *)
(* obeyed, and alarmHandler goes on only with a port that is not rebooted and, *)
(* before it switches the port off, marked.                                    *)
ScheduleInv ==
  /\ NoPing /\ NoCommand
  /\ reg["events"].loaded => pc["events"] \in EventsRmw
  /\ admin.poe \/ ~power
  /\ pc["events"] \in AlarmPoints => state # "REBOOT"
  /\ pc["events"] = "alarmoff" => "POE_DOWN" \in errorCode
  /\ alarmOff => SwitchedOff

(* What a step of the test thread may do to it *)
TestFrame ==
  /\ UNCHANGED <<power, admin, alarmOff, cmds, test>>
  /\ pc'["events"] = pc["events"] /\ pc'["com"] = pc["com"] /\ reg'["events"] = reg["events"]
  /\ state' \in {state, "IDLE"}
  /\ "POE_DOWN" \in errorCode => "POE_DOWN" \in errorCode'
  /\ job' # "ping" /\ pc'["test"] \notin {"ping", "pingok", "pingfail"}

(* A store of the test thread, when it is not preempted in the middle, *)
LEMMA TestStore ==
  ASSUME TypeOK, "test" \notin Preempted, NEW l, Stores("test", l)
  PROVE  Err("test") = errorCode /\ reg'["events"] = reg["events"]
BY DEF TypeOK, ThreadTypes, Threads, Stores, Err

(* and every other step keep ERR_POE_DOWN. *)
LEMMA TestFrameKept ==
  ASSUME TypeOK, "test" \notin Preempted, NoPing, TestThread
  PROVE  TestFrame
<1> USE DEF TypeOK, Threads, TestFrame, NoPing, Goto, shared, alarms, locals, world, history
<1>0. pc \in [Threads -> EventsPoints \cup TestPoints \cup ComPoints] /\ job \in Tests
  BY DEF ThreadTypes
<1>1. CASE Load("test", TestRmw)
  BY <1>1 DEF Load
<1>2. CASE TestPoll
  BY <1>0, <1>2 DEF TestPoll
<1>3. CASE TestEnabled
  BY <1>0, <1>3 DEF TestEnabled
<1>4. CASE TestDisabled
  <2>1. Err("test") = errorCode /\ reg'["events"] = reg["events"]
    BY <1>4, TestStore DEF TestDisabled
  <2>2. QED
    BY <1>0, <1>4, <2>1 DEF TestDisabled
<1>5. CASE TestSpawn
  BY <1>0, <1>5 DEF TestSpawn
<1>6. CASE port_runTestDisable
  <2>1. Err("test") = errorCode /\ reg'["events"] = reg["events"]
    BY <1>6, TestStore DEF port_runTestDisable
  <2>2. QED
    BY <1>0, <1>6, <2>1 DEF port_runTestDisable, EndRound
<1>7. CASE LinkClear
  <2>1. Err("test") = errorCode /\ reg'["events"] = reg["events"]
    BY <1>7, TestStore DEF LinkClear, ClearError
  <2>2. pc'["test"] \in {"linkfail", "ok", "end", job}
    BY <1>0, <1>7 DEF LinkClear
  <2>3. QED
    BY <1>0, <1>7, <2>1, <2>2 DEF LinkClear, ClearError, Tests
<1>8. CASE LinkFail
  <2>1. Err("test") = errorCode /\ reg'["events"] = reg["events"]
    BY <1>8, TestStore DEF LinkFail, SetError
  <2>2. CASE EndRound
    BY <1>0, <1>8, <2>1, <2>2 DEF LinkFail, SetError, EndRound
  <2>3. CASE Goto("test", job) /\ UNCHANGED locals
    BY <1>0, <1>8, <2>1, <2>3 DEF LinkFail, SetError, Tests
  <2>4. QED
    BY <1>8, <2>2, <2>3 DEF LinkFail
<1>9. CASE Ping \/ PingFail \/ PingOk
  BY <1>9 DEF Ping, PingFail, SetError, PingOk, Stores, At
<1>10. CASE Speed
  BY <1>0, <1>10 DEF Speed
<1>11. CASE SpeedClear
  <2>1. Err("test") = errorCode /\ reg'["events"] = reg["events"]
    BY <1>11, TestStore DEF SpeedClear, ClearError
  <2>2. QED
    BY <1>0, <1>11, <2>1 DEF SpeedClear, ClearError
<1>12. CASE SpeedFail
  <2>1. Err("test") = errorCode /\ reg'["events"] = reg["events"]
    BY <1>12, TestStore DEF SpeedFail, SetError
  <2>2. QED
    BY <1>0, <1>12, <2>1 DEF SpeedFail, SetError, EndRound
<1>13. CASE TestPassed
  BY <1>0, <1>13 DEF TestPassed
<1>14. CASE MarkOk
  <2>1. reg'["events"] = reg["events"]
    BY <1>14, TestStore DEF MarkOk
  <2>2. QED
    BY <1>0, <1>14, <2>1 DEF MarkOk, EndRound
<1>15. CASE TestEnd
  BY <1>0, <1>15 DEF TestEnd, EndRound
<1>16. QED
  BY <1>1, <1>2, <1>3, <1>4, <1>5, <1>6, <1>7, <1>8, <1>9, <1>10, <1>11, <1>12, <1>13,
     <1>14, <1>15 DEF TestThread

(* So the test thread keeps the invariant. *)
LEMMA TestKeepsSchedule ==
  ASSUME ScheduleInv, TestFrame
  PROVE  ScheduleInv'
<1>1. NoPing' /\ NoCommand'
  BY DEF ScheduleInv, TestFrame, NoPing, NoCommand
<1>2. SwitchedOff => SwitchedOff'
  BY DEF SwitchedOff, TestFrame
<1>3. QED
  BY <1>1, <1>2 DEF ScheduleInv, TestFrame

(* The events thread keeps it: it fires no restart while ERR_POE_DOWN mutes    *)
(* the port, and clears that bit only when the schedule switches the port on.  *)
LEMMA EventsKeepSchedule ==
  ASSUME TypeOK, Test # "ping", ScheduleInv, EventsThread
  PROVE  ScheduleInv'
<1> USE DEF ScheduleInv, SwitchedOff, AlarmPoints, NoPing, NoCommand, At, Goto,
            shared, locals, world, history
<1>0. /\ pc \in [Threads -> EventsPoints \cup TestPoints \cup ComPoints]
      /\ reg \in [Threads -> Regs] /\ Threads = {"test", "events", "com"}
  BY DEF TypeOK, ThreadTypes, Threads
<1>s. ASSUME NEW l, Stores("events", l)
      PROVE  /\ pc["events"] = l /\ ~reg'["events"].loaded
             /\ alarmOff => "POE_DOWN" \in Err("events")
  BY <1>0, <1>s DEF Stores, NotLoaded, Err
<1>n. ASSUME NEW l, pc["events"] = l, l \notin EventsRmw
      PROVE  ~reg["events"].loaded
  BY <1>n
<1>p. ASSUME NEW up \in BOOLEAN, poe_Control(up)
      PROVE  (admin.poe \/ ~power') /\ (~up => ~power')
  BY <1>p DEF poe_Control, TypeOK, WorldTypes
<1>1. CASE Load("events", EventsRmw)
  BY <1>0, <1>1 DEF Load
<1>2. CASE EventsPass
  <2>1. state \in {"IDLE", "REGULAR", "REBOOT"}
    BY DEF TypeOK, PortTypes
  <2>2. QED
    BY <1>0, <1>2, <1>n, <2>1 DEF EventsPass, EventsRmw
<1>3. CASE Wake
  BY <1>0, <1>3, <1>s DEF Wake
<1>4. CASE test_ErrorHandler
  <2>1. Stores("events", "judge") /\ pc'["events"] = "alarm"
    BY <1>0, <1>4 DEF test_ErrorHandler
  <2>2. UNCHANGED <<power, admin, alarmOff, cmds, test, job>>
        /\ pc'["test"] = pc["test"] /\ pc'["com"] = pc["com"]
    BY <1>0, <1>4 DEF test_ErrorHandler
  <2>3. ASSUME alarmOff PROVE state' = state /\ "POE_DOWN" \in errorCode'
    <3>1. "POE_DOWN" \in Err("events") /\ "POE_DOWN" \in errorCode
      BY <2>1, <2>3, <1>s
    <3>2. QED
      BY <1>4, <3>1 DEF test_ErrorHandler, Muting
  <2>4. QED
    BY <2>1, <2>2, <2>3, <1>s
<1>5. CASE TakeAuto
  BY <1>0, <1>5, <1>s DEF TakeAuto
<1>6. CASE autoResetHandler
  BY <1>0, <1>6, <1>s DEF autoResetHandler
<1>7. CASE set_errorHandler("checkconfig", "manual")
  BY <1>0, <1>7, <1>n DEF set_errorHandler, EventsRmw
<1>8. CASE TakeManual
  BY <1>0, <1>8, <1>n DEF TakeManual, EventsRmw
<1>9. CASE manualResetHandler
  BY <1>0, <1>9, <1>s DEF manualResetHandler
<1>10. CASE ClearManual
  BY <1>0, <1>10, <1>s DEF ClearManual
<1>11. CASE RebootInit
  BY <1>0, <1>11, <1>n DEF RebootInit, EventsRmw
<1>12. CASE RebootDown
  <2>1. admin.poe \/ ~power'
    BY <1>12, <1>p DEF RebootDown
  <2>2. QED
    BY <1>0, <1>12, <1>n, <2>1 DEF RebootDown, EventsRmw
<1>13. CASE RebootArm
  BY <1>0, <1>13, <1>n DEF RebootArm, EventsRmw
<1>14. CASE RebootCheck
  BY <1>0, <1>14, <1>n DEF RebootCheck, EventsRmw
<1>15. CASE RebootUp
  <2>1. admin.poe \/ ~power'
    BY <1>15, <1>p DEF RebootUp
  <2>2. QED
    BY <1>0, <1>15, <1>n, <2>1 DEF RebootUp, EventsRmw
<1>16. CASE RebootDone
  BY <1>0, <1>16, <1>n DEF RebootDone, EventsRmw
<1>17. CASE RebootClear
  BY <1>0, <1>17, <1>s DEF RebootClear
<1>18. CASE DropManual
  BY <1>0, <1>18, <1>s DEF DropManual
<1>19. CASE DropShutdown
  BY <1>0, <1>19, <1>s DEF DropShutdown
<1>20. CASE getPortParam
  <2>1. test' # "ping"
    BY <1>20 DEF getPortParam, ParamTest, OptionState
  <2>2. QED
    BY <1>0, <1>20, <1>n, <2>1 DEF getPortParam, EventsRmw
<1>21. CASE set_errorHandler("paramcheck", "alarm")
  BY <1>0, <1>21, <1>n DEF set_errorHandler, EventsRmw
<1>22. CASE CheckAlarms
  BY <1>0, <1>22, <1>n DEF CheckAlarms, AlarmTurn, EventsRmw
<1>23. CASE AlarmDown
  BY <1>0, <1>23, <1>n DEF AlarmDown, EventsRmw
<1>24. CASE AlarmFlag
  BY <1>0, <1>24, <1>s DEF AlarmFlag
<1>25. CASE AlarmOff
  <2>1. ~power'
    BY <1>25, <1>p DEF AlarmOff
  <2>2. QED
    BY <1>0, <1>25, <1>n, <2>1 DEF AlarmOff, EventsRmw
<1>26. CASE AlarmUp
  <2>1. CASE status["up"]
    <3>1. admin.poe \/ ~power'
      BY <1>26, <1>p, <2>1 DEF AlarmUp
    <3>2. QED
      BY <1>0, <1>26, <1>n, <2>1, <3>1 DEF AlarmUp, EventsRmw
  <2>2. CASE ~status["up"]
    BY <1>0, <1>26, <1>n, <2>2 DEF AlarmUp, EventsRmw
  <2>3. QED
    BY <2>1, <2>2
<1>27. CASE AlarmClear
  BY <1>0, <1>27, <1>s DEF AlarmClear
<1>28. QED
  BY <1>1, <1>2, <1>3, <1>4, <1>5, <1>6, <1>7, <1>8, <1>9, <1>10, <1>11, <1>12, <1>13,
     <1>14, <1>15, <1>16, <1>17, <1>18, <1>19, <1>20, <1>21, <1>22, <1>23, <1>24, <1>25,
     <1>26, <1>27 DEF EventsThread, rebootHandler, alarmHandler

(* So does every step. *)
LEMMA NextKeepsSchedule ==
  ASSUME Test # "ping", "test" \notin Preempted, MaxCmds = 0,
         TypeOK, ScheduleInv, [Next]_vars
  PROVE  ScheduleInv'
<1>1. CASE TestThread
  BY <1>1, TestFrameKept, TestKeepsSchedule DEF ScheduleInv
<1>2. CASE EventsThread
  BY <1>2, EventsKeepSchedule
<1>3. CASE ComThread
  <2>1. cmds = 0 /\ pc["com"] = "accept"
    BY DEF ScheduleInv, NoCommand
  <2>2. QED
    BY <1>3, <2>1 DEF ComThread, ComServe, ComReceive, Load, ComRmw, ComSet, ComRequest,
                      ComCancel, Stores, At
<1>4. CASE AdminSave
  <2>1. alarmOff' = FALSE /\ (admin'.poe \/ ~power')
    BY <1>4 DEF AdminSave
  <2>2. UNCHANGED <<test, job, pc, reg, state, errorCode, cmds>>
    BY <1>4 DEF AdminSave, shared, locals
  <2>3. QED
    BY <2>1, <2>2 DEF ScheduleInv, NoPing, NoCommand
<1>5. CASE Tick \/ UNCHANGED vars
  <2>1. UNCHANGED <<test, job, pc, reg, state, errorCode, cmds, admin, power, alarmOff>>
    BY <1>5 DEF Tick, vars, shared, locals, world, history
  <2>2. QED
    BY <2>1 DEF ScheduleInv, NoPing, NoCommand, SwitchedOff
<1>6. QED
  BY <1>1, <1>2, <1>3, <1>4, <1>5 DEF Next

(* ar_mainInit establishes it. *)
LEMMA InitSchedule == ASSUME Test # "ping", Init PROVE ScheduleInv
<1>1. test # "ping"
  BY DEF Init, ParamTest, OptionState
<1>2. QED
  BY <1>1 DEF Init, ScheduleInv, NoPing, NoCommand, Threads, NotLoaded, AlarmPoints

(* A port that the schedule switched off stays off until the schedule or the   *)
(* administrator switches it on, whatever the tests find and however often the *)
(* polls of uci fail, in any interleaving of the threads: for every criterion  *)
(* but ping, whose verdict overwrites ERR_POE_DOWN, if no update of the error  *)
(* word is lost and no manual reboot is asked for.                             *)
THEOREM ScheduleTheorem ==
  ASSUME Test # "ping", "test" \notin Preempted, MaxCmds = 0
  PROVE  Spec => []ScheduleKeepsOff
<1>1. ScheduleInv => ScheduleKeepsOff
  BY DEF ScheduleInv, SwitchedOff, ScheduleKeepsOff
<1>2. Init => ScheduleInv
  BY InitSchedule
<1>3. TypeOK /\ ScheduleInv /\ [Next]_vars => ScheduleInv'
  BY NextKeepsSchedule
<1>4. QED
  BY <1>1, <1>2, <1>3, TypeCorrect, PTL DEF Spec

-----------------------------------------------------------------------------
(* A port in REBOOT_STATE is being rebooted *)

(* The events that start a reboot *)
Restarts == {"AUTO_RESTART", "MANUAL_RESTART"}

(* The request is in a copy of event that the events thread may store *)
Remembered == reg["events"].loaded /\ "MANUAL_RESTART" \in reg["events"].ev

(* The inductive invariant: a port in REBOOT_STATE without a phase has its     *)
(* event, is about to get it from the command thread, or is between the points *)
(* of rebootHandler at which the event is taken and the state is settled; and  *)
(* the only command was accepted before its request is seen anywhere.          *)
InProgressInv ==
  /\ state = "REBOOT" /\ rebootState = "IDLE" =>
       \/ event \cap Restarts # {} \/ pc["com"] = "request"
       \/ pc["events"] \in {"autoreset", "upshut", "param"}
  /\ pc["events"] = "manclear" => rebootState = "INIT"
  /\ "MANUAL_RESTART" \in event \/ Remembered => cmds = 1 /\ pc["com"] = "accept"
  /\ pc["com"] # "accept" => cmds = 1

(* What a step of the test thread may do to it *)
EventFrame ==
  /\ UNCHANGED <<rebootState, cmds>>
  /\ pc'["events"] = pc["events"] /\ pc'["com"] = pc["com"] /\ reg'["events"] = reg["events"]
  /\ state' \in {state, "IDLE"}
  /\ event' \in {event, event \cup {"TEST_OK"}}

(* The test thread stays within it, when none of its stores is torn. *)
LEMMA EventFrameKept ==
  ASSUME TypeOK, "test" \notin Preempted, TestThread
  PROVE  EventFrame
<1> USE DEF TypeOK, Threads, EventFrame, Goto, shared, reboot, locals, world
<1>0. /\ pc \in [Threads -> EventsPoints \cup TestPoints \cup ComPoints]
      /\ reg \in [Threads -> Regs]
  BY DEF ThreadTypes
<1>s. ASSUME NEW l, Stores("test", l)
      PROVE  reg'["events"] = reg["events"] /\ Ev("test") = event
  BY <1>0, <1>s DEF Stores, Ev
<1>1. CASE Load("test", TestRmw)
  BY <1>1 DEF Load
<1>2. CASE TestPoll
  BY <1>0, <1>2 DEF TestPoll
<1>3. CASE TestEnabled
  BY <1>0, <1>3 DEF TestEnabled
<1>4. CASE TestDisabled
  BY <1>0, <1>s, <1>4 DEF TestDisabled
<1>5. CASE TestSpawn
  BY <1>0, <1>5 DEF TestSpawn
<1>6. CASE port_runTestDisable
  BY <1>0, <1>s, <1>6 DEF port_runTestDisable, EndRound
<1>7. CASE LinkClear
  BY <1>0, <1>s, <1>7 DEF LinkClear, ClearError
<1>8. CASE LinkFail
  <2>1. Goto("test", "sleep") \/ Goto("test", job)
    BY <1>8 DEF LinkFail, EndRound
  <2>2. pc'["events"] = pc["events"] /\ pc'["com"] = pc["com"]
    BY <1>0, <2>1
  <2>3. QED
    BY <1>s, <1>8, <2>2 DEF LinkFail, SetError
<1>9. CASE Ping
  BY <1>0, <1>9 DEF Ping
<1>10. CASE PingFail
  BY <1>0, <1>s, <1>10 DEF PingFail, SetError, EndRound
<1>11. CASE PingOk
  BY <1>0, <1>11 DEF PingOk
<1>12. CASE Speed
  BY <1>0, <1>12 DEF Speed
<1>13. CASE SpeedClear
  BY <1>0, <1>s, <1>13 DEF SpeedClear, ClearError
<1>14. CASE SpeedFail
  BY <1>0, <1>s, <1>14 DEF SpeedFail, SetError, EndRound
<1>15. CASE TestPassed
  BY <1>0, <1>15 DEF TestPassed
<1>16. CASE MarkOk
  BY <1>0, <1>s, <1>16 DEF MarkOk, EndRound
<1>17. CASE TestEnd
  BY <1>0, <1>17 DEF TestEnd, EndRound
<1>18. QED
  BY <1>1, <1>2, <1>3, <1>4, <1>5, <1>6, <1>7, <1>8, <1>9, <1>10, <1>11, <1>12, <1>13,
     <1>14, <1>15, <1>16, <1>17 DEF TestThread

(* The command thread raises the request after the state; a second command,    *)
(* which could take the request back, does not come.                           *)
LEMMA ComKeepsProgress ==
  ASSUME TypeOK, "com" \notin Preempted, MaxCmds <= 1, InProgressInv, ComThread
  PROVE  InProgressInv'
<1> USE DEF InProgressInv, Remembered, Restarts, At, Goto, shared, reboot, world, history
<1>0. /\ pc \in [Threads -> EventsPoints \cup TestPoints \cup ComPoints]
      /\ reg \in [Threads -> Regs] /\ Threads = {"test", "events", "com"}
  BY DEF TypeOK, ThreadTypes, Threads
<1>1. CASE ComReceive
  <2>1. cmds = 0 /\ cmds' = 1
    BY <1>1, ConstantsAssumption DEF ComReceive, TypeOK, WorldTypes
  <2>2. QED
    BY <1>0, <1>1, <2>1 DEF ComReceive
<1>2. CASE Load("com", ComRmw)
  BY <1>2 DEF Load
<1>3. CASE ComSet
  BY <1>0, <1>3 DEF ComSet
<1>4. CASE ComRequest
  BY <1>0, <1>4 DEF ComRequest, Stores, Ev
<1>5. CASE ComCancel
  <2>1. "MANUAL_RESTART" \notin event /\ event' = event
    BY <1>5 DEF ComCancel, Stores, Ev
  <2>2. QED
    BY <1>0, <1>5, <2>1 DEF ComCancel, Stores
<1>6. QED
  BY <1>1, <1>2, <1>3, <1>4, <1>5 DEF ComThread, ComServe

(* The events thread takes an event only to enter a phase or to settle the     *)
(* state; what it stores from a copy contains no request that was not seen.    *)
LEMMA EventsKeepProgress ==
  ASSUME TypeOK, InProgressInv, EventsThread
  PROVE  InProgressInv'
<1> USE DEF InProgressInv, Remembered, Restarts, At, Goto, shared, reboot, world, history
<1>0. /\ pc \in [Threads -> EventsPoints \cup TestPoints \cup ComPoints]
      /\ reg \in [Threads -> Regs] /\ Threads = {"test", "events", "com"}
      /\ event \in SUBSET Events
  BY DEF TypeOK, PortTypes, ThreadTypes, Threads
<1>s. ASSUME NEW l, Stores("events", l)
      PROVE  /\ pc["events"] = l /\ ~reg'["events"].loaded
             /\ "MANUAL_RESTART" \in Ev("events") => cmds = 1 /\ pc["com"] = "accept"
  BY <1>0, <1>s DEF Stores, NotLoaded, Ev
<1>1. CASE Load("events", EventsRmw)
  BY <1>0, <1>1 DEF Load
<1>2. CASE EventsPass
  BY <1>0, <1>2 DEF EventsPass
<1>3. CASE Wake
  BY <1>0, <1>3, <1>s DEF Wake
<1>4. CASE test_ErrorHandler
  <2>1. Stores("events", "judge") /\ pc'["events"] = "alarm"
    BY <1>0, <1>4 DEF test_ErrorHandler
  <2>2. UNCHANGED <<rebootState, cmds>> /\ pc'["com"] = pc["com"]
    BY <1>0, <1>4 DEF test_ErrorHandler
  <2>3. \/ event' = event /\ state' = state
        \/ event' = Ev("events") \cup {"AUTO_RESTART"}
    BY <1>4 DEF test_ErrorHandler
  <2>4. QED
    BY <2>1, <2>2, <2>3, <1>s
<1>5. CASE TakeAuto
  BY <1>0, <1>5, <1>s DEF TakeAuto
<1>6. CASE autoResetHandler
  BY <1>0, <1>6, <1>s DEF autoResetHandler
<1>7. CASE set_errorHandler("checkconfig", "manual")
  BY <1>0, <1>7 DEF set_errorHandler
<1>8. CASE TakeManual
  BY <1>0, <1>8 DEF TakeManual
<1>9. CASE manualResetHandler
  BY <1>0, <1>9, <1>s DEF manualResetHandler
<1>10. CASE ClearManual
  BY <1>0, <1>10, <1>s DEF ClearManual
<1>11. CASE RebootInit
  BY <1>0, <1>11 DEF RebootInit
<1>12. CASE RebootDown
  BY <1>0, <1>12 DEF RebootDown
<1>13. CASE RebootArm
  BY <1>0, <1>13 DEF RebootArm
<1>14. CASE RebootCheck
  BY <1>0, <1>14 DEF RebootCheck
<1>15. CASE RebootUp
  BY <1>0, <1>15 DEF RebootUp
<1>16. CASE RebootDone
  BY <1>0, <1>16 DEF RebootDone, StateAfterReboot
<1>17. CASE RebootClear
  BY <1>0, <1>17, <1>s DEF RebootClear
<1>18. CASE DropManual
  BY <1>0, <1>18, <1>s DEF DropManual
<1>19. CASE DropShutdown
  BY <1>0, <1>19, <1>s DEF DropShutdown
<1>20. CASE getPortParam
  BY <1>0, <1>20 DEF getPortParam
<1>21. CASE set_errorHandler("paramcheck", "alarm")
  BY <1>0, <1>21 DEF set_errorHandler
<1>22. CASE CheckAlarms
  BY <1>0, <1>22 DEF CheckAlarms
<1>23. CASE AlarmDown
  BY <1>0, <1>23 DEF AlarmDown
<1>24. CASE AlarmFlag
  BY <1>0, <1>24, <1>s DEF AlarmFlag
<1>25. CASE AlarmOff
  BY <1>0, <1>25 DEF AlarmOff
<1>26. CASE AlarmUp
  BY <1>0, <1>26 DEF AlarmUp
<1>27. CASE AlarmClear
  BY <1>0, <1>27, <1>s DEF AlarmClear
<1>28. QED
  BY <1>1, <1>2, <1>3, <1>4, <1>5, <1>6, <1>7, <1>8, <1>9, <1>10, <1>11, <1>12, <1>13,
     <1>14, <1>15, <1>16, <1>17, <1>18, <1>19, <1>20, <1>21, <1>22, <1>23, <1>24, <1>25,
     <1>26, <1>27 DEF EventsThread, rebootHandler, alarmHandler

(* Every step keeps the reason of a reboot. *)
LEMMA NextKeepsProgress ==
  ASSUME "test" \notin Preempted, "com" \notin Preempted, MaxCmds <= 1,
         TypeOK, InProgressInv, [Next]_vars
  PROVE  InProgressInv'
<1>1. CASE TestThread
  <2>1. EventFrame
    BY <1>1, EventFrameKept
  <2>2. QED
    BY <2>1 DEF EventFrame, InProgressInv, Remembered, Restarts
<1>2. CASE EventsThread
  BY <1>2, EventsKeepProgress
<1>3. CASE ComThread
  BY <1>3, ComKeepsProgress
<1>4. CASE AdminSave \/ Tick \/ UNCHANGED vars
  <2>1. UNCHANGED <<state, event, rebootState, pc, reg, cmds>>
    BY <1>4 DEF AdminSave, Tick, vars, shared, reboot, locals, world, history
  <2>2. QED
    BY <2>1 DEF InProgressInv, Remembered
<1>5. QED
  BY <1>1, <1>2, <1>3, <1>4 DEF Next

(* With at most one manual command, and no update of event lost by the test or *)
(* command thread, a port in REBOOT_STATE always has a phase to go on with or  *)
(* an event that starts one, whatever is disabled, aborted, resumed or dropped *)
(* meanwhile: the second command of ar_wedge is what it takes to get it stuck. *)
THEOREM InProgressTheorem ==
  ASSUME "test" \notin Preempted, "com" \notin Preempted, MaxCmds <= 1
  PROVE  Spec => []RebootInProgress
<1>1. InProgressInv => RebootInProgress
  BY DEF InProgressInv, RebootInProgress, Restarts
<1>2. Init => InProgressInv
  BY DEF Init, InProgressInv, Remembered, Threads, NotLoaded
<1>3. TypeOK /\ InProgressInv /\ [Next]_vars => InProgressInv'
  BY NextKeepsProgress
<1>4. QED
  BY <1>1, <1>2, <1>3, TypeCorrect, PTL DEF Spec
=============================================================================
