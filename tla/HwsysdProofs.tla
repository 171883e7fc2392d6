---------------------------- MODULE HwsysdProofs ----------------------------
(***************************************************************************)
(* Proofs about the periphery daemon of module Hwsysd, for every choice of *)
(* registers, delays and bounds that satisfies its assumptions.            *)
(***************************************************************************)
EXTENDS Hwsysd, TLAPS

(* The type invariant in its two halves: what the SMT solver is good at,   *)
(* and the Boolean variables.                                              *)
TypeData ==
  /\ value \in [Regs -> Vals] /\ handler \in [Regs -> BOOLEAN]
  /\ slot \in [addr : Addrs, val : Vals]
  /\ hi \in 0 .. HI_DELAY /\ low \in 0 .. LOW_DELAY /\ stall \in 0 .. MaxStall
  /\ prio_len \in [Dumps -> {"known", "zero", "bad", "wrong"}] /\ errorCount \in Nat
  /\ mainPc \in MainPcs /\ dump \in Dumps /\ waddr \in Addrs
  /\ DOMAIN raw \subseteq Regs /\ \A r \in DOMAIN raw : raw[r] \in Vals
  /\ comPc \in SetPcs \cup {"accept", "down"}
  /\ rec \in [op : {"write", "response", "other"}, addr : Addrs, val : Vals]
  /\ evPc \in {"sleep", "awake", "next", "handle", "down"} /\ evLeft \in 0 .. EV_DELAY
  /\ todo \subseteq Regs /\ copy \in [reg : Addrs, val : Vals]
  /\ prevValue \in [Regs -> Vals \cup {Unset}]
  /\ log \in [Regs -> {"none", "close", "open"}]
  /\ mcu \in [Regs -> Vals]
  /\ sets \in 0 .. MaxSets /\ stales \in 0 .. MaxStale
  /\ changes \in 0 .. MaxChanges /\ outages \in 0 .. MaxOutages
  /\ asked \in [Regs -> Vals \cup {Unset}]
  /\ moved \subseteq Regs /\ filled \subseteq Regs /\ early \subseteq Regs

TypeBool == /\ write_flag \in BOOLEAN /\ mcuUp \in BOOLEAN
            /\ overlap \in BOOLEAN /\ lost \in BOOLEAN

LEMMA TypeHalves == TypeOK <=> TypeData /\ TypeBool
  BY DEF TypeOK, TypeData, TypeBool

LEMMA TypeInit == Init => TypeData /\ TypeBool
<1> SUFFICES ASSUME Init PROVE TypeData /\ TypeBool
  OBVIOUS
<1>1. TypeData
  BY HwsysAssumption DEF Init, TypeData, Regs, Vals, Addrs, MainPcs, Unset, NoCopy,
     NoWrite, Empty, FirstPrev, SetPcs, Dumps, NoTable, Handlers, NoRequest, NoLen,
     NotSeen, NotLogged
<1>2. TypeBool
  BY HwsysAssumption DEF Init, TypeBool
<1> QED
  BY <1>1, <1>2

(* What a dump brings in *)
LEMMA DumpedType ==
  ASSUME TypeData, NEW d \in Dumps, prio_len[d] # "bad", NEW f \in Dumped(d)
  PROVE  /\ DOMAIN f \subseteq Regs /\ \A r \in DOMAIN f : f[r] \in Vals
         /\ \A r \in DOMAIN f : r \in DumpOf(d)
         /\ prio_len[d] # "wrong" => \A r \in DOMAIN f : f[r] = mcu[r]
<1> USE DEF TypeData, DumpOf, Regs
<1>1. CASE prio_len[d] = "known"
  BY <1>1 DEF Dumped
<1>2. CASE prio_len[d] = "zero"
  BY <1>2 DEF Dumped, Empty
<1>3. CASE prio_len[d] = "wrong"
  <2>1. PICK S \in SUBSET DumpOf(d), c \in DumpOf(d), v \in Vals :
          f = [r \in S |-> IF r = c THEN v ELSE mcu[r]]
    BY <1>3 DEF Dumped
  <2> QED
    BY <1>3, <2>1
<1> QED
  BY <1>1, <1>2, <1>3

(* A daemon that ends has the memory of Init. *)
LEMMA TypeDataDies ==
  ASSUME TypeData, Dies, stales' \in 0 .. MaxStale
  PROVE  TypeData'
<1> USE HwsysAssumption DEF TypeData, Regs, Vals, Addrs, MainPcs, SetPcs, Dumps
<1>1. value' \in [Regs -> Vals] /\ handler' \in [Regs -> BOOLEAN]
  BY DEF Dies, NoTable, Handlers
<1>2. prevValue' \in [Regs -> Vals \cup {Unset}] /\ log' \in [Regs -> {"none", "close", "open"}]
  BY DEF Dies, NotSeen, NotLogged, FirstPrev
<1>3. /\ prio_len' \in [Dumps -> {"known", "zero", "bad", "wrong"}]
      /\ DOMAIN raw' \subseteq Regs /\ \A r \in DOMAIN raw' : raw'[r] \in Vals
  BY DEF Dies, NoLen, Empty
<1> QED
  BY <1>1, <1>2, <1>3 DEF Dies, NoRequest, NoWrite, NoCopy

LEMMA TypeDataStep ==
  ASSUME TypeData, [Next]_vars
  PROVE  TypeData'
<1> USE HwsysAssumption DEF TypeData, Regs, Vals, Addrs, MainPcs, SetPcs, Dumps, vars, table, request,
     timers, main, com, events, world, history
<1>1. CASE OpenHi
  BY <1>1 DEF OpenHi, MainStep
<1>2. ASSUME NEW d \in Dumps, ReadOk(d) PROVE TypeData'
  BY <1>2, DumpedType DEF ReadOk, MainStep
<1>3. ASSUME NEW d \in Dumps, ReadFails(d) PROVE TypeData'
  BY <1>3 DEF ReadFails, MainStep
<1>4. CASE ParseTlv
  BY <1>4 DEF ParseTlv, Parsed
<1>5. CASE ParseDone
  BY <1>5 DEF ParseDone, MainStep, Rearm
<1>6. CASE Failed
  BY <1>6 DEF Failed, MainStep, Rearm
<1>7. CASE WriteStart
  BY <1>7 DEF WriteStart, MainStep
<1>8. CASE WriteIo
  <2>1. slot.val \in Vals
    OBVIOUS
  <2>2. mcu' = mcu \/ mcu' = [mcu EXCEPT ![waddr] = slot.val]
    BY <1>8 DEF WriteIo, Written
  <2>3. mcu' \in [Regs -> Vals]
    BY <2>1, <2>2
  <2> QED
    BY <1>8, <2>3 DEF WriteIo, MainStep
<1>9. CASE WriteClear
  BY <1>9 DEF WriteClear, MainStep
<1>10. CASE Sleep
  BY <1>10 DEF Sleep, MainStep
<1>11. CASE Wake
  BY <1>11 DEF Wake, MainStep
<1>12. CASE SetAddr
  BY <1>12 DEF SetAddr
<1>13. CASE SetValue
  BY <1>13 DEF SetValue
<1>14. CASE SetEntry
  <2>1. slot.val \in Vals
    OBVIOUS
  <2>2. value' = [value EXCEPT ![rec.addr] = slot.val]
    BY <1>14 DEF SetEntry
  <2>3. value' \in [Regs -> Vals]
    BY <2>1, <2>2
  <2>4. handler' \in [Regs -> BOOLEAN]
    BY <1>14 DEF SetEntry
  <2> QED
    BY <1>14, <2>3, <2>4 DEF SetEntry
<1>15. CASE SetFlag
  BY <1>15 DEF SetFlag
<1>16. CASE EvAwake
  BY <1>16 DEF EvAwake
<1>17. CASE EvCopy
  BY <1>17 DEF EvCopy
<1>18. CASE EvHandle
  BY <1>18 DEF EvHandle, Kept, check_changed_state, NoCopy, Unset
<1>19. CASE EvDone
  BY <1>19 DEF EvDone
<1>20. CASE Tick
  BY <1>20 DEF Tick, Less
<1>21. ASSUME NEW r \in Settable, NEW v \in Vals, ReceiveSet(r, v) PROVE TypeData'
  BY <1>21 DEF ReceiveSet, Unset
<1>22. CASE ReceiveGet
  BY <1>22 DEF ReceiveGet, Response
<1>23. CASE ReceiveNothing
  <2>1. CASE Dies
    BY <1>23, <2>1, TypeDataDies DEF ReceiveNothing
  <2>2. CASE ~Dies
    BY <1>23, <2>2 DEF ReceiveNothing, NoWrite
  <2> QED
    BY <2>1, <2>2
<1>24. ASSUME NEW r \in Sensors, SensorChanges(r) PROVE TypeData'
  BY <1>24 DEF SensorChanges
<1>25. CASE McuFails
  BY <1>25 DEF McuFails
<1>26. CASE McuRecovers
  BY <1>26 DEF McuRecovers
<1>27. CASE UNCHANGED vars
  BY <1>27
<1>28. CASE OpenLow
  BY <1>28 DEF OpenLow, MainStep, LeftLen
<1>29. CASE ParseFails
  BY <1>29 DEF ParseFails, MainStep, Empty
<1>30. CASE ReceiveGetGone
  BY <1>30, TypeDataDies DEF ReceiveGetGone
<1>31. CASE Respawn
  BY <1>31 DEF Respawn
<1> QED
  BY <1>1, <1>2, <1>3, <1>4, <1>5, <1>6, <1>7, <1>8, <1>9, <1>10, <1>11, <1>12, <1>13, <1>14, <1>15, <1>16, <1>17, <1>18, <1>19, <1>20, <1>21, <1>22, <1>23, <1>24, <1>25, <1>26, <1>27,
     <1>28, <1>29, <1>30, <1>31
     DEF Next, Main, Com, Ev, Clients, Periphery

LEMMA TypeBoolDies ==
  ASSUME TypeBool, Dies
  PROVE  TypeBool'
  BY DEF TypeBool, Dies

LEMMA TypeBoolStep ==
  ASSUME TypeBool, [Next]_vars
  PROVE  TypeBool'
<1> USE DEF TypeBool, vars, table, request, timers, main, com, events, world,
     history
<1>1. CASE OpenHi
  BY <1>1 DEF OpenHi
<1>2. ASSUME NEW d \in Dumps, ReadOk(d) PROVE TypeBool'
  BY <1>2 DEF ReadOk
<1>3. ASSUME NEW d \in Dumps, ReadFails(d) PROVE TypeBool'
  BY <1>3 DEF ReadFails
<1>4. CASE ParseTlv
  BY <1>4 DEF ParseTlv
<1>5. CASE ParseDone
  BY <1>5 DEF ParseDone
<1>6. CASE Failed
  BY <1>6 DEF Failed
<1>7. CASE WriteStart
  BY <1>7 DEF WriteStart
<1>8. CASE WriteIo
  BY <1>8 DEF WriteIo
<1>9. CASE WriteClear
  BY <1>9 DEF WriteClear
<1>10. CASE Sleep
  BY <1>10 DEF Sleep
<1>11. CASE Wake
  BY <1>11 DEF Wake
<1>12. CASE SetAddr
  BY <1>12 DEF SetAddr
<1>13. CASE SetValue
  BY <1>13 DEF SetValue
<1>14. CASE SetEntry
  BY <1>14 DEF SetEntry
<1>15. CASE SetFlag
  BY <1>15 DEF SetFlag
<1>16. CASE EvAwake
  BY <1>16 DEF EvAwake
<1>17. CASE EvCopy
  BY <1>17 DEF EvCopy
<1>18. CASE EvHandle
  BY <1>18 DEF EvHandle
<1>19. CASE EvDone
  BY <1>19 DEF EvDone
<1>20. CASE Tick
  BY <1>20 DEF Tick
<1>21. ASSUME NEW r \in Settable, NEW v \in Vals, ReceiveSet(r, v) PROVE TypeBool'
  BY <1>21 DEF ReceiveSet, Overlaps
<1>22. CASE ReceiveGet
  BY <1>22 DEF ReceiveGet
<1>23. CASE ReceiveNothing
  <2>1. CASE Dies
    BY <1>23, <2>1, TypeBoolDies DEF ReceiveNothing
  <2>2. CASE ~Dies
    BY <1>23, <2>2 DEF ReceiveNothing, Overlaps
  <2> QED
    BY <2>1, <2>2
<1>24. ASSUME NEW r \in Sensors, SensorChanges(r) PROVE TypeBool'
  BY <1>24 DEF SensorChanges
<1>25. CASE McuFails
  BY <1>25 DEF McuFails
<1>26. CASE McuRecovers
  BY <1>26 DEF McuRecovers
<1>27. CASE UNCHANGED vars
  BY <1>27
<1>28. CASE OpenLow
  BY <1>28 DEF OpenLow
<1>29. CASE ParseFails
  BY <1>29 DEF ParseFails
<1>30. CASE ReceiveGetGone
  BY <1>30, TypeBoolDies DEF ReceiveGetGone
<1>31. CASE Respawn
  BY <1>31 DEF Respawn
<1> QED
  BY <1>1, <1>2, <1>3, <1>4, <1>5, <1>6, <1>7, <1>8, <1>9, <1>10, <1>11,
     <1>12, <1>13, <1>14, <1>15, <1>16, <1>17, <1>18, <1>19, <1>20, <1>21,
     <1>22, <1>23, <1>24, <1>25, <1>26, <1>27,
     <1>28, <1>29, <1>30, <1>31
     DEF Next, Main, Com, Ev, Clients, Periphery

(* Every variable of the daemon keeps the type its declaration gives it,   *)
(* whatever the three threads, the clients and the IO MCU do.              *)
THEOREM TypeCorrect == Spec => []TypeOK
<1>1. Init => TypeData /\ TypeBool
  BY TypeInit
<1>2. TypeData /\ TypeBool /\ [Next]_vars => TypeData' /\ TypeBool'
  BY TypeDataStep, TypeBoolStep
<1> QED
  BY <1>1, <1>2, TypeHalves, PTL DEF Spec

-----------------------------------------------------------------------------
LEMMA PaceDies ==
  ASSUME Dies
  PROVE  (FailurePace /\ ErrorsBounded)'
  BY DEF Dies, FailurePace, ErrorsBounded

(* The failures in a row mainHandler counts. *)
LEMMA PaceStep ==
  ASSUME TypeData, FailurePace, ErrorsBounded, [Next]_vars
  PROVE  (FailurePace /\ ErrorsBounded)'
<1> USE HwsysAssumption, PaceAssumption
     DEF TypeData, MainPcs, Dumps, FailurePace, ErrorsBounded, vars, table, request, timers,
     main, com, events, world, history
<1>1. CASE OpenHi
  BY <1>1 DEF OpenHi, MainStep
<1>2. ASSUME NEW d \in Dumps, ReadOk(d) PROVE (FailurePace /\ ErrorsBounded)'
  BY <1>2 DEF ReadOk, MainStep, Due
<1>3. ASSUME NEW d \in Dumps, ReadFails(d) PROVE (FailurePace /\ ErrorsBounded)'
  BY <1>3 DEF ReadFails, MainStep, Due
<1>4. CASE ParseTlv
  BY <1>4 DEF ParseTlv, TypeData
<1>5. CASE ParseDone
  BY <1>5 DEF ParseDone, MainStep, Rearm
<1>6. CASE Failed
  BY <1>6 DEF Failed, MainStep, Rearm
<1>7. CASE WriteStart
  BY <1>7 DEF WriteStart, MainStep
<1>8. CASE WriteIo
  BY <1>8 DEF WriteIo, MainStep
<1>9. CASE WriteClear
  BY <1>9 DEF WriteClear, MainStep
<1>10. CASE Sleep
  BY <1>10 DEF Sleep, MainStep
<1>11. CASE Wake
  BY <1>11 DEF Wake, MainStep
<1>12. CASE SetAddr
  BY <1>12 DEF SetAddr
<1>13. CASE SetValue
  BY <1>13 DEF SetValue
<1>14. CASE SetEntry
  BY <1>14 DEF SetEntry
<1>15. CASE SetFlag
  BY <1>15 DEF SetFlag
<1>16. CASE EvAwake
  BY <1>16 DEF EvAwake
<1>17. CASE EvCopy
  BY <1>17 DEF EvCopy
<1>18. CASE EvHandle
  BY <1>18 DEF EvHandle
<1>19. CASE EvDone
  BY <1>19 DEF EvDone
<1>20. CASE Tick
  BY <1>20 DEF Tick, Less
<1>21. ASSUME NEW r \in Settable, NEW v \in Vals, ReceiveSet(r, v) PROVE (FailurePace /\ ErrorsBounded)'
  BY <1>21 DEF ReceiveSet
<1>22. CASE ReceiveGet
  BY <1>22 DEF ReceiveGet
<1>23. CASE ReceiveNothing
  <2>1. CASE Dies
    BY <1>23, <2>1, PaceDies DEF ReceiveNothing
  <2>2. CASE ~Dies
    BY <1>23, <2>2 DEF ReceiveNothing
  <2> QED
    BY <2>1, <2>2
<1>24. ASSUME NEW r \in Sensors, SensorChanges(r) PROVE (FailurePace /\ ErrorsBounded)'
  BY <1>24 DEF SensorChanges
<1>25. CASE McuFails
  BY <1>25 DEF McuFails
<1>26. CASE McuRecovers
  BY <1>26 DEF McuRecovers
<1>27. CASE UNCHANGED vars
  BY <1>27
<1>28. CASE OpenLow
  BY <1>28 DEF OpenLow, MainStep
<1>29. CASE ParseFails
  BY <1>29 DEF ParseFails, MainStep
<1>30. CASE ReceiveGetGone
  BY <1>30, PaceDies DEF ReceiveGetGone
<1>31. CASE Respawn
  BY <1>31 DEF Respawn
<1> QED
  BY <1>1, <1>2, <1>3, <1>4, <1>5, <1>6, <1>7, <1>8, <1>9, <1>10, <1>11,
     <1>12, <1>13, <1>14, <1>15, <1>16, <1>17, <1>18, <1>19, <1>20, <1>21,
     <1>22, <1>23, <1>24, <1>25, <1>26, <1>27,
     <1>28, <1>29, <1>30, <1>31
     DEF Next, Main, Com, Ev, Clients, Periphery

(* mainHandler never counts more than three failures of the I2C bus in a   *)
(* row, for every pace of the dumps that PaceAssumption allows: with       *)
(* MAX_I2C_ERROR at 5 gpio_resetIoMcu is dead code.                        *)
THEOREM ErrorsTheorem == Spec => []ErrorsBounded
<1>1. Init => FailurePace /\ ErrorsBounded
  BY DEF Init, FailurePace, ErrorsBounded
<1>2. TypeData /\ FailurePace /\ ErrorsBounded /\ [Next]_vars
        => (FailurePace /\ ErrorsBounded)'
  BY PaceStep
<1>3. TypeOK => TypeData
  BY TypeHalves
<1> QED
  BY <1>1, <1>2, <1>3, TypeCorrect, PTL DEF Spec

-----------------------------------------------------------------------------
(* A set that is not written when the daemon ends is lost; the others have *)
(* reached the IO MCU.                                                     *)
LEMMA TrackedDies ==
  ASSUME TypeData, TypeBool, SetTracked, comPc = "accept", Dies
  PROVE  SetTracked'
<1> USE HwsysAssumption
     DEF TypeData, TypeBool, SetTracked, OnItsWay, Setting, SetPcs, Regs, Vals, Addrs, Unset
<1>1. /\ comPc' = "down" /\ mainPc' = "down" /\ rec' = NoWrite /\ write_flag' = FALSE
      /\ mcu' = mcu /\ asked' = asked /\ overlap' = overlap
      /\ lost' = (lost \/ (write_flag /\ mainPc # "clear"))
  BY DEF Dies
<1>2. ASSUME ~overlap, ~lost', NEW r \in Settable, asked[r] # Unset
      PROVE  mcu[r] = asked[r]
  BY <1>1, <1>2
<1> QED
  BY <1>1, <1>2 DEF NoWrite

(* A request of a client on its way through i2c_write to the IO MCU. *)
LEMMA TrackedStep ==
  ASSUME TypeData, TypeBool, SetTracked, [Next]_vars
  PROVE  SetTracked'
<1> USE HwsysAssumption
     DEF TypeData, TypeBool, SetTracked, OnItsWay, Setting, SetPcs, Regs, Vals, Addrs,
     Unset, vars, table, request, timers, main, com, events, world, history
<1>1. CASE OpenHi
  BY <1>1 DEF OpenHi, MainStep
<1>2. ASSUME NEW d \in Dumps, ReadOk(d) PROVE SetTracked'
  BY <1>2 DEF ReadOk, MainStep
<1>3. ASSUME NEW d \in Dumps, ReadFails(d) PROVE SetTracked'
  BY <1>3 DEF ReadFails, MainStep
<1>4. CASE ParseTlv
  BY <1>4 DEF ParseTlv, MainStep
<1>5. CASE ParseDone
  BY <1>5 DEF ParseDone, MainStep
<1>6. CASE Failed
  BY <1>6 DEF Failed, MainStep
<1>7. CASE WriteStart
  BY <1>7 DEF WriteStart, MainStep
<1>8. CASE WriteIo
  BY <1>8 DEF WriteIo, MainStep, Written
<1>9. CASE WriteClear
  BY <1>9 DEF WriteClear, MainStep
<1>10. CASE Sleep
  BY <1>10 DEF Sleep, MainStep
<1>11. CASE Wake
  BY <1>11 DEF Wake, MainStep
<1>12. CASE SetAddr
  BY <1>12 DEF SetAddr
<1>13. CASE SetValue
  BY <1>13 DEF SetValue
<1>14. CASE SetEntry
  BY <1>14 DEF SetEntry
<1>15. CASE SetFlag
  BY <1>15 DEF SetFlag
<1>16. CASE EvAwake
  BY <1>16 DEF EvAwake
<1>17. CASE EvCopy
  BY <1>17 DEF EvCopy
<1>18. CASE EvHandle
  BY <1>18 DEF EvHandle
<1>19. CASE EvDone
  BY <1>19 DEF EvDone
<1>20. CASE Tick
  BY <1>20 DEF Tick
<1>21. ASSUME NEW r \in Settable, NEW v \in Vals, ReceiveSet(r, v) PROVE SetTracked'
  BY <1>21 DEF ReceiveSet, Overlaps
<1>22. CASE ReceiveGet
  BY <1>22 DEF ReceiveGet, Response
<1>23. CASE ReceiveNothing
  <2>1. CASE Dies
    BY <1>23, <2>1, TrackedDies DEF ReceiveNothing
  <2>2. CASE ~Dies
    BY <1>23, <2>2 DEF ReceiveNothing, Overlaps, NoWrite
  <2> QED
    BY <2>1, <2>2
<1>24. ASSUME NEW r \in Sensors, SensorChanges(r) PROVE SetTracked'
  BY <1>24 DEF SensorChanges
<1>25. CASE McuFails
  BY <1>25 DEF McuFails
<1>26. CASE McuRecovers
  BY <1>26 DEF McuRecovers
<1>27. CASE UNCHANGED vars
  BY <1>27
<1>28. CASE OpenLow
  BY <1>28 DEF OpenLow, MainStep
<1>29. CASE ParseFails
  BY <1>29 DEF ParseFails, MainStep
<1>30. CASE ReceiveGetGone
  BY <1>30, TrackedDies DEF ReceiveGetGone
<1>31. CASE Respawn
  <2>1. mainPc' = "open" /\ comPc' = "accept"
    BY <1>31 DEF Respawn
  <2>2. UNCHANGED <<request, rec, mcu, asked, overlap, lost>>
    BY <1>31 DEF Respawn
  <2>3. ~Setting
    BY <1>31 DEF Respawn
  <2> QED
    BY <2>1, <2>2, <2>3
<1> QED
  BY <1>1, <1>2, <1>3, <1>4, <1>5, <1>6, <1>7, <1>8, <1>9, <1>10, <1>11,
     <1>12, <1>13, <1>14, <1>15, <1>16, <1>17, <1>18, <1>19, <1>20, <1>21,
     <1>22, <1>23, <1>24, <1>25, <1>26, <1>27,
     <1>28, <1>29, <1>30, <1>31
     DEF Next, Main, Com, Ev, Clients, Periphery

(* Clients that never send a set while one is pending: once the request is *)
(* drained every register holds what was asked of it last, whatever the    *)
(* interleaving of i2c_setData, read_i2c and the dumps, unless the IO MCU  *)
(* did not answer the write or the daemon ended before it.                 *)
THEOREM SerialSetsTheorem == Spec => []SerialSetsLand
<1>1. Init => SetTracked
  BY HwsysAssumption DEF Init, SetTracked, NoWrite, Regs, Setting, SetPcs
<1>2. TypeData /\ TypeBool /\ SetTracked /\ [Next]_vars => SetTracked'
  BY TrackedStep
<1>3. TypeOK => TypeData /\ TypeBool
  BY TypeHalves
<1>4. SetTracked => SerialSetsLand
  BY DEF SetTracked, SerialSetsLand, SetsLand, Quiet, OnItsWay, Setting
<1> QED
  BY <1>1, <1>2, <1>3, <1>4, TypeCorrect, PTL DEF Spec

-----------------------------------------------------------------------------
LEMMA LogTrackedDies ==
  ASSUME Dies
  PROVE  LogTracked'
<1>1. \A r \in Sensors : r \in Regs
  BY HwsysAssumption
<1> QED
  BY <1>1 DEF Dies, LogTracked, NoWrite, NoCopy, NoTable, NotSeen, NotLogged, FirstPrev,
     Empty, Setting, SetPcs, NoLen, Dumps

(* The copies of a sensor's state in the table, the dump and the handlers. *)
LEMMA LogTrackedStep ==
  ASSUME TypeData, LogTracked, [Next]_vars
  PROVE  LogTracked'
<1> USE HwsysAssumption
     DEF TypeData, LogTracked, Misread, Setting, SetPcs, Dumps, Regs, Vals, Addrs, Unset,
     vars, table, request, timers, main, com, events, world, history
<1>1. CASE OpenHi
  <2>1. Misread \subseteq Misread'
    BY <1>1 DEF OpenHi, MainStep, DumpOf
  <2> QED
    BY <1>1, <2>1 DEF OpenHi, MainStep
<1>2. ASSUME NEW d \in Dumps, ReadOk(d) PROVE LogTracked'
  <2>1. \A r \in DOMAIN raw' : r \notin Misread => raw'[r] = mcu[r]
    BY <1>2, DumpedType DEF ReadOk
  <2>2. Misread' = Misread
    BY <1>2 DEF ReadOk
  <2> QED
    BY <1>2, <2>1, <2>2 DEF ReadOk, MainStep
<1>3. ASSUME NEW d \in Dumps, ReadFails(d) PROVE LogTracked'
  BY <1>3 DEF ReadFails, MainStep
<1>4. CASE ParseTlv
  BY <1>4 DEF ParseTlv, Parsed
<1>5. CASE ParseDone
  BY <1>5 DEF ParseDone, MainStep
<1>6. CASE Failed
  BY <1>6 DEF Failed, MainStep
<1>7. CASE WriteStart
  BY <1>7 DEF WriteStart, MainStep
<1>8. CASE WriteIo
  BY <1>8 DEF WriteIo, MainStep, Written
<1>9. CASE WriteClear
  BY <1>9 DEF WriteClear, MainStep
<1>10. CASE Sleep
  BY <1>10 DEF Sleep, MainStep
<1>11. CASE Wake
  BY <1>11 DEF Wake, MainStep
<1>12. CASE SetAddr
  BY <1>12 DEF SetAddr
<1>13. CASE SetValue
  BY <1>13 DEF SetValue
<1>14. CASE SetEntry
  BY <1>14 DEF SetEntry
<1>15. CASE SetFlag
  BY <1>15 DEF SetFlag
<1>16. CASE EvAwake
  BY <1>16 DEF EvAwake
<1>17. CASE EvCopy
  BY <1>17 DEF EvCopy
<1>18. CASE EvHandle
  BY <1>18 DEF EvHandle, Kept, check_changed_state, NoCopy
<1>19. CASE EvDone
  BY <1>19 DEF EvDone
<1>20. CASE Tick
  BY <1>20 DEF Tick
<1>21. ASSUME NEW q \in Settable, NEW v \in Vals, ReceiveSet(q, v) PROVE LogTracked'
  BY <1>21 DEF ReceiveSet
<1>22. CASE ReceiveGet
  BY <1>22 DEF ReceiveGet, Response
<1>23. CASE ReceiveNothing
  <2>1. CASE Dies
    BY <1>23, <2>1, LogTrackedDies DEF ReceiveNothing
  <2>2. CASE ~Dies
    BY <1>23, <2>2 DEF ReceiveNothing, NoWrite
  <2> QED
    BY <2>1, <2>2
<1>24. ASSUME NEW q \in Sensors, SensorChanges(q) PROVE LogTracked'
  BY <1>24 DEF SensorChanges
<1>25. CASE McuFails
  BY <1>25 DEF McuFails
<1>26. CASE McuRecovers
  BY <1>26 DEF McuRecovers
<1>27. CASE UNCHANGED vars
  BY <1>27
<1>28. CASE OpenLow
  <2>1. Misread \subseteq Misread'
    BY <1>28 DEF OpenLow, MainStep, DumpOf
  <2>2. prio_len'["hi"] = prio_len["hi"]
    BY <1>28 DEF OpenLow
  <2> QED
    BY <1>28, <2>1, <2>2 DEF OpenLow, MainStep
<1>29. CASE ParseFails
  BY <1>29 DEF ParseFails, MainStep, Empty
<1>30. CASE ReceiveGetGone
  BY <1>30, LogTrackedDies DEF ReceiveGetGone
<1>31. CASE Respawn
  BY <1>31 DEF Respawn
<1> QED
  BY <1>1, <1>2, <1>3, <1>4, <1>5, <1>6, <1>7, <1>8, <1>9, <1>10, <1>11,
     <1>12, <1>13, <1>14, <1>15, <1>16, <1>17, <1>18, <1>19, <1>20, <1>21,
     <1>22, <1>23, <1>24, <1>25, <1>26, <1>27,
     <1>28, <1>29, <1>30, <1>31
     DEF Next, Main, Com, Ev, Clients, Periphery

(* The events thread logs a change that did not happen only for an entry   *)
(* of the table it looked at before the first dump had filled it, or for a *)
(* register of a dump that is read with the length of the other one.       *)
THEOREM LogTruthTheorem == Spec => []LogTruthAfterFill
<1>1. Init => LogTracked
  BY HwsysAssumption DEF Init, LogTracked, NoWrite, NoCopy, Regs, FirstPrev, Empty,
     NoLen, Dumps, NoTable, NotSeen, NotLogged, Setting, SetPcs
<1>2. TypeData /\ LogTracked /\ [Next]_vars => LogTracked'
  BY LogTrackedStep
<1>3. TypeOK => TypeData
  BY TypeHalves
<1>4. LogTracked => LogTruthAfterFill
  BY DEF LogTracked, LogTruthAfterFill
<1> QED
  BY <1>1, <1>2, <1>3, <1>4, TypeCorrect, PTL DEF Spec
=============================================================================
