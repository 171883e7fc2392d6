------------------------------- MODULE Hwsysd -------------------------------
(***************************************************************************)
(* The periphery daemon tf_hwsys/src/hwsysd.  Its main thread polls the    *)
(* registers of the I/O microcontroller (IO MCU) over I2C into the table   *)
(* sock_msgArr and carries out the one write request of i2c_write; its     *)
(* command thread serves tf_hwsys_ctrl; its events thread compares the     *)
(* table with what it saw before and logs the changes.  No lock guards the *)
(* table or the write request, so every memcpy and every store that        *)
(* another thread looks at is a step of its own.                           *)
(*                                                                         *)
(* The registers followed are one-byte ones with two states (tamper,       *)
(* relay, a field of the clock); the analogue ones are in HwsysAnalog.     *)
(* Time is counted in whole seconds, as time(NULL) gives it.               *)
(*                                                                         *)
(* An answer written to a client that is gone ends the daemon (SIGPIPE,    *)
(* which it does not handle); procd starts it again with empty tables.     *)
(***************************************************************************)
EXTENDS Integers

CONSTANTS
  HiRegs, LowRegs, \* the registers of the two dumps (chosen by the IO MCU)
  Watched,         \* the registers whose table entry has an eventsHandler
  Settable,        \* the registers the clients write
  Sensors,         \* the registers the outside world changes
  HI_DELAY,        \* 3 in the code: seconds between high-priority dumps
  LOW_DELAY,       \* 30 in the code: seconds between low-priority dumps
  EV_DELAY,        \* 3 in the code: seconds between passes over the table
  MAX_I2C_ERROR,   \* 5 in the code
  UpAtStart,       \* whether the IO MCU may be up, or down, at the start
  MaxStall,        \* bound: seconds the main thread may be late for a step
  MaxSets,         \* bound on the sets of the clients
  MaxStale,        \* bound on connections closed too early by the client
  MaxChanges,      \* bound on the changes of sensors
  MaxOutages,      \* bound on the failures of the IO MCU and its dumps
  MaxInputs        \* bound on all four together

Regs == HiRegs \cup LowRegs
Vals == {0, 1}

ASSUME HwsysAssumption ==
  /\ HiRegs \cap LowRegs = {}
  /\ Watched \subseteq Regs /\ Settable \subseteq Regs /\ Sensors \subseteq Regs
  /\ Settable \cap Sensors = {}
  /\ HI_DELAY \in Nat \ {0} /\ LOW_DELAY \in Nat \ {0} /\ EV_DELAY \in Nat
  /\ MAX_I2C_ERROR \in Nat
  /\ UpAtStart \subseteq BOOLEAN
  /\ MaxStall \in Nat /\ MaxInputs \in Nat
  /\ MaxSets \in Nat /\ MaxStale \in Nat /\ MaxChanges \in Nat /\ MaxOutages \in Nat

(* The main thread is late by less than the pause between two dumps. *)
ASSUME PaceAssumption == MaxStall < HI_DELAY /\ 4 * MaxStall < LOW_DELAY

VARIABLES
  value, handler,         \* sock_msgArr[].value and .eventsHandler # NULL
  slot, write_flag,       \* i2c_write
  hi, low,                \* seconds until hi_prio_timer, low_prio_timer expire
  prio_len,               \* what open_i2c took for hi_prio_len, low_prio_len
  errorCount,             \* static of mainHandler
  mainPc, dump, raw, waddr, stall,  \* the main thread and its locals
  comPc, rec,             \* the command thread and i2cRec
  evPc, evLeft, todo, copy,         \* the events thread and its locals
  prevValue, log,         \* the statics of the handlers; the last line logged
  mcu, mcuUp,             \* the IO MCU's registers; whether it answers
  sets, stales, changes, outages, \* the environment and its bounds
  asked, overlap, lost, moved, filled, early \* history, for the properties only

table   == <<value, handler>>
request == <<slot, write_flag>>
timers  == <<hi, low, stall>>
main    == <<mainPc, dump, raw, waddr, errorCount, prio_len>>
com     == <<comPc, rec>>
events  == <<evPc, evLeft, todo, copy, prevValue, log>>
world   == <<mcu, mcuUp, sets, stales, changes, outages>>
history == <<asked, overlap, lost, moved, filled, early>>
vars    == <<table, request, timers, main, com, events, world, history>>

Unset   == 255                    \* 0xFF, the first prevValue of a handler
NoCopy  == [reg |-> "none", val |-> 0]
NoWrite == [op |-> "other", addr |-> "none", val |-> 0]
Response == [op |-> "response", addr |-> "none", val |-> 0]
Empty   == [r \in {} |-> 0]
Dumps   == {"hi", "low"}
DumpOf(d) == IF d = "hi" THEN HiRegs ELSE LowRegs

(* Mutant: the handlers start from a state a register may have *)
FirstPrev_Zero == 0

FirstPrev == Unset

NoTable   == [r \in Regs |-> 0]
Handlers  == [r \in Regs |-> r \in Watched]
NoRequest == [addr |-> "none", val |-> 0]
NoLen     == [d \in Dumps |-> "zero"]
NotSeen   == [r \in Regs |-> FirstPrev]
NotLogged == [r \in Regs |-> "none"]

Init ==
  /\ mainPc = "open" /\ comPc = "accept" /\ evPc = "sleep"
  /\ value = NoTable /\ handler = Handlers
  /\ slot = NoRequest /\ write_flag = FALSE
  /\ hi = HI_DELAY /\ low = 0 /\ stall = 0 /\ errorCount = 0 /\ prio_len = NoLen
  /\ dump = "hi" /\ raw = Empty /\ waddr = "none" /\ rec = NoWrite
  /\ evLeft = EV_DELAY /\ todo = {} /\ copy = NoCopy
  /\ prevValue = NotSeen /\ log = NotLogged /\ filled = {}
  /\ mcu \in [Regs -> Vals] /\ mcuUp \in UpAtStart
  /\ sets = 0 /\ stales = 0 /\ changes = 0 /\ outages = 0
  /\ asked = [r \in Regs |-> Unset] /\ overlap = FALSE /\ lost = FALSE
  /\ moved = {} /\ early = {}

-----------------------------------------------------------------------------
(* The main thread: open_i2c once, then read_i2c and mainHandler for ever  *)

MainStep(l, l2) == mainPc = l /\ mainPc' = l2 /\ stall' = 0

(* open_i2c reads the length of each dump once and ignores whether that    *)
(* worked.  The answer 0xAAAA is taken for a length, which the I2C driver  *)
(* then refuses.  A failed ioctl leaves i2c_raw_data as it was: zeros ...  *)
OpenHi ==
  /\ MainStep("open", "openLow")
  /\ \E l \in IF mcuUp THEN {"known"} ELSE {"zero", "bad"} :
       prio_len' = [prio_len EXCEPT !["hi"] = l]
  /\ hi' = HI_DELAY /\ low' = 0
  /\ UNCHANGED <<table, request, dump, raw, waddr, errorCount, com, events,
                 world, history>>

(* ... or what the first read left there, the length of the other dump.   *)
LeftLen == IF prio_len["hi"] = "known" THEN "wrong" ELSE prio_len["hi"]

OpenLow ==
  /\ MainStep("openLow", "poll")
  /\ \E l \in IF mcuUp THEN {"known"} ELSE {LeftLen, "bad"} :
       prio_len' = [prio_len EXCEPT !["low"] = l]
  /\ UNCHANGED <<table, request, hi, low, dump, raw, waddr, errorCount, com,
                 events, world, history>>

Due(d) == IF d = "hi" THEN hi = 0 ELSE hi > 0 /\ low = 0

(* What a dump brings in: nothing with a length of zero; with that of the  *)
(* other dump a part of its records, of which one may be cut in two and    *)
(* take the rest of its bytes from an older dump.                          *)
Dumped(d) ==
  CASE prio_len[d] = "known" -> {[r \in DumpOf(d) |-> mcu[r]]}
    [] prio_len[d] = "zero"  -> {Empty}
    [] OTHER -> {[r \in S |-> IF r = c THEN v ELSE mcu[r]] :
                   S \in SUBSET DumpOf(d), c \in DumpOf(d), v \in Vals}

(* read_buffer of a dump that is due *)
ReadOk(d) ==
  /\ MainStep("poll", "parse") /\ Due(d)
  /\ mcuUp /\ prio_len[d] # "bad"
  /\ dump' = d
  /\ raw' \in Dumped(d)
  /\ UNCHANGED <<table, request, hi, low, waddr, errorCount, prio_len, com,
                 events, world, history>>

(* The ioctl fails, or the buffer begins with 0xAAAA: an answer of the IO  *)
(* MCU, or an old one that a dump of length zero did not overwrite.        *)
ReadFails(d) ==
  /\ MainStep("poll", "failed") /\ Due(d)
  /\ ~mcuUp \/ prio_len[d] \in {"bad", "zero"}
  /\ dump' = d
  /\ UNCHANGED <<table, request, hi, low, raw, waddr, errorCount, prio_len, com,
                 events, world, history>>

(* Mutant: an entry a client has set is left alone *)
Parsed_KeepSet(r) == IF handler[r] THEN raw[r] ELSE value[r]

Parsed(r) == raw[r]

(* i2c_parse_tlv copies one record of the dump into its table entry. *)
ParseTlv ==
  /\ mainPc = "parse"
  /\ \E r \in DOMAIN raw :
       /\ value' = [value EXCEPT ![r] = Parsed(r)]
       /\ filled' = filled \cup {r}
       /\ raw' = [q \in DOMAIN raw \ {r} |-> raw[q]]
  /\ UNCHANGED <<handler, request, timers, mainPc, dump, waddr, errorCount,
                 prio_len, com, events, world, asked, overlap, lost, moved, early>>

(* Mutant: the timer is set again only after a dump that was read *)
Rearm_OnSuccess ==
  /\ hi' = IF dump = "hi" /\ mainPc = "parse" THEN HI_DELAY ELSE hi
  /\ low' = IF dump = "low" /\ mainPc = "parse" THEN LOW_DELAY ELSE low

(* Mutant: the timers are never set again *)
Rearm_Never == UNCHANGED <<hi, low>>

(* timer_set after the dump, whether it was read or not *)
Rearm ==
  /\ hi' = IF dump = "hi" THEN HI_DELAY ELSE hi
  /\ low' = IF dump = "low" THEN LOW_DELAY ELSE low

ParseDone ==
  /\ MainStep("parse", "poll")
  /\ DOMAIN raw = {}
  /\ Rearm
  /\ errorCount' = 0
  /\ UNCHANGED <<table, request, dump, raw, waddr, prio_len, com, events, world,
                 history>>

(* The clients, the sensors and the IO MCU act while the bounds allow it.  *)
MayAct == sets + stales + changes + outages < MaxInputs

(* A record names an address beyond the table: i2c_parse_tlv gives up      *)
(* where it is.  The dump was garbled on the bus, or has a wrong length.   *)
ParseFails ==
  /\ MainStep("parse", "failed")
  /\ \/ prio_len[dump] = "wrong" /\ UNCHANGED outages
     \/ /\ prio_len[dump] = "known"
        /\ outages < MaxOutages /\ MayAct /\ outages' = outages + 1
  /\ raw' = Empty
  /\ UNCHANGED <<table, request, hi, low, dump, waddr, errorCount, prio_len, com,
                 events, mcu, mcuUp, sets, stales, changes, history>>

(* mainHandler counts the failure; after more than MAX_I2C_ERROR in a row  *)
(* gpio_resetIoMcu restarts the IO MCU, if it gets hold of the line.       *)
Failed ==
  /\ MainStep("failed", "poll")
  /\ Rearm
  /\ errorCount' = IF errorCount + 1 > MAX_I2C_ERROR THEN 0 ELSE errorCount + 1
  /\ mcuUp' \in IF errorCount + 1 > MAX_I2C_ERROR THEN {TRUE, mcuUp} ELSE {mcuUp}
  /\ UNCHANGED <<table, request, dump, raw, waddr, prio_len, com, events, mcu,
                 sets, stales, changes, outages, history>>

NothingDue == hi > 0 /\ low > 0

(* The call of write_buffer evaluates i2c_write.i2c_data.addr ... *)
WriteStart ==
  /\ MainStep("poll", "write")
  /\ NothingDue /\ write_flag
  /\ waddr' = slot.addr
  /\ UNCHANGED <<table, request, hi, low, dump, raw, errorCount, prio_len, com,
                 events, world, history>>

(* Mutant: the value comes from the table, which a dump may have changed *)
Written_FromTable == value[waddr]

Written == slot.val

(* ... then takes the value from i2c_write and sends both; whether the    *)
(* ioctl worked is not looked at ...                                      *)
WriteIo ==
  /\ MainStep("write", "clear")
  /\ mcu' = IF mcuUp THEN [mcu EXCEPT ![waddr] = Written] ELSE mcu
  /\ lost' = (lost \/ ~mcuUp)
  /\ UNCHANGED <<table, request, hi, low, dump, raw, waddr, errorCount, prio_len,
                 com, events, mcuUp, sets, stales, changes, outages, asked,
                 overlap, moved, filled, early>>

(* ... and the request is taken off, whichever it is by now. *)
WriteClear ==
  /\ MainStep("clear", "poll")
  /\ write_flag' = FALSE
  /\ waddr' = "none"
  /\ errorCount' = 0
  /\ UNCHANGED <<table, slot, hi, low, dump, raw, prio_len, com, events,
                 world, history>>

Sleep ==
  /\ MainStep("poll", "sleep")
  /\ NothingDue /\ ~write_flag
  /\ UNCHANGED <<table, request, hi, low, dump, raw, waddr, errorCount, prio_len,
                 com, events, world, history>>

(* sleep(1) is over; read_i2c returns 0, which mainHandler takes for a    *)
(* successful read.                                                       *)
Wake ==
  /\ MainStep("awake", "poll")
  /\ errorCount' = 0
  /\ UNCHANGED <<table, request, hi, low, dump, raw, waddr, prio_len, com,
                 events, world, history>>

Main ==
  \/ OpenHi \/ OpenLow
  \/ \E d \in Dumps : ReadOk(d) \/ ReadFails(d)
  \/ ParseTlv \/ ParseDone \/ Failed
  \/ WriteStart \/ WriteIo \/ WriteClear
  \/ Sleep \/ Wake

-----------------------------------------------------------------------------
(* The command thread: clientHandler, one connection after another        *)

(* A set that finds the write request of an earlier one still pending *)
Overlaps == overlap' = (overlap \/ write_flag)

ReceiveSet(r, v) ==
  /\ comPc = "accept" /\ comPc' = "addr"
  /\ sets < MaxSets /\ MayAct
  /\ sets' = sets + 1
  /\ rec' = [op |-> "write", addr |-> r, val |-> v]
  /\ asked' = [asked EXCEPT ![r] = v]
  /\ Overlaps
  /\ UNCHANGED <<table, request, timers, main, events, mcu, mcuUp, stales, changes,
                 outages, lost, moved, filled, early>>

(* The process ends.  What its threads knew is gone, a set not yet written *)
(* included; the next one begins as in Init.  log and filled are about one *)
(* process too.                                                            *)
Dies ==
  /\ mainPc' = "down" /\ comPc' = "down" /\ evPc' = "down"
  /\ value' = NoTable /\ handler' = Handlers
  /\ slot' = NoRequest /\ write_flag' = FALSE
  /\ hi' = HI_DELAY /\ low' = 0 /\ stall' = 0 /\ errorCount' = 0 /\ prio_len' = NoLen
  /\ dump' = "hi" /\ raw' = Empty /\ waddr' = "none" /\ rec' = NoWrite
  /\ evLeft' = EV_DELAY /\ todo' = {} /\ copy' = NoCopy
  /\ prevValue' = NotSeen /\ log' = NotLogged /\ filled' = {}
  /\ lost' = (lost \/ (write_flag /\ mainPc # "clear"))
  /\ UNCHANGED <<mcu, mcuUp, sets, changes, outages, asked, overlap, moved, early>>

(* A get copies a table entry into the answer, which it turns i2cRec into; *)
(* that matters only to a connection closed too early after it.            *)
ReceiveGet ==
  /\ comPc = "accept" /\ stales < MaxStale
  /\ rec' = Response
  /\ UNCHANGED <<table, request, timers, main, comPc, events, world, history>>

(* The client of a get is gone before the answer is written to it. *)
ReceiveGetGone ==
  /\ comPc = "accept" /\ stales < MaxStale /\ MayAct
  /\ stales' = stales + 1
  /\ Dies

(* The client is gone before a byte came: receive_msg leaves i2cRec as it  *)
(* is, and the handler looks at the opcode all the same.  The uninitialised *)
(* record may hold the request handled before: a set, which is carried out *)
(* again, or the answer to a get, which is written to the closed socket.   *)
ReceiveNothing ==
  /\ comPc = "accept" /\ stales < MaxStale /\ MayAct
  /\ stales' = stales + 1
  /\ \/ /\ \/ rec.op = "write" /\ comPc' = "addr" /\ Overlaps /\ UNCHANGED rec
           \/ rec' = NoWrite /\ UNCHANGED <<comPc, overlap>>
        /\ UNCHANGED <<table, request, timers, main, events, mcu, mcuUp, sets,
                       changes, outages, asked, lost, moved, filled, early>>
     \/ rec.op = "response" /\ Dies

(* procd starts the daemon again, five times in a row if need be; the      *)
(* seconds it waits are not counted.                                       *)
Respawn ==
  /\ mainPc = "down"
  /\ mainPc' = "open" /\ comPc' = "accept" /\ evPc' = "sleep"
  /\ UNCHANGED <<table, request, timers, dump, raw, waddr, errorCount, prio_len, rec,
                 evLeft, todo, copy, prevValue, log, world, history>>

(* i2c_setData: the memcpy into i2c_write, address first ... *)
SetAddr ==
  /\ comPc = "addr" /\ comPc' = "value"
  /\ slot' = [slot EXCEPT !.addr = rec.addr]
  /\ UNCHANGED <<table, write_flag, timers, main, rec, events, world, history>>

SetValue ==
  /\ comPc = "value" /\ comPc' = "entry"
  /\ slot' = [slot EXCEPT !.val = rec.val]
  /\ UNCHANGED <<table, write_flag, timers, main, rec, events, world, history>>

(* ... the memcpy of the whole record over the table entry, with the NULL *)
(* eventsHandler the client sent ...                                      *)
SetEntry ==
  /\ comPc = "entry" /\ comPc' = "flag"
  /\ value' = [value EXCEPT ![rec.addr] = slot.val]
  /\ handler' = [handler EXCEPT ![rec.addr] = FALSE]
  /\ UNCHANGED <<request, timers, main, rec, events, world, history>>

(* ... and the flag. *)
SetFlag ==
  /\ comPc = "flag" /\ comPc' = "accept"
  /\ write_flag' = TRUE
  /\ UNCHANGED <<table, slot, timers, main, rec, events, world, history>>

Com ==
  \/ SetAddr \/ SetValue \/ SetEntry \/ SetFlag

-----------------------------------------------------------------------------
(* The events thread: i2c_events_handler over the whole table             *)

(* A pass visits the whole table; the entries that never had a handler    *)
(* take no part.                                                           *)
EvAwake ==
  /\ evPc = "awake"
  /\ IF evLeft = 0 THEN evPc' = "next" /\ todo' = Watched
                   ELSE evPc' = "sleep" /\ UNCHANGED todo
  /\ UNCHANGED <<table, request, timers, main, com, evLeft, copy, prevValue, log,
                 world, history>>

EvCopy ==
  /\ evPc = "next" /\ evPc' = "handle"
  /\ \E r \in todo :
       /\ copy' = [reg |-> r, val |-> value[r]]
       /\ todo' = todo \ {r}
       /\ early' = IF r \in filled THEN early ELSE early \cup {r}
  /\ UNCHANGED <<table, request, timers, main, com, evLeft, prevValue, log, world,
                 asked, overlap, lost, moved, filled>>

(* check_changed_state with the states of TAMPER, SENSOR1, SENSOR2, RELAY1 *)
check_changed_state(val, prev, state_1, state_2) ==
  IF val = state_1 /\ prev = state_2 THEN "close"
  ELSE IF val = state_2 /\ prev = state_1 THEN "open" ELSE "ok"

(* Mutant: the handler forgets to keep the value it saw *)
Kept_Forgotten(r) == prevValue[r]

Kept(r) == copy.val

(* handler_TAMPER and its like, when the entry still has a handler *)
EvHandle ==
  /\ evPc = "handle" /\ evPc' = "next"
  /\ LET r     == copy.reg
         event == IF prevValue[r] = Unset THEN "ok"
                  ELSE check_changed_state(copy.val, prevValue[r], 1, 0)
     IN IF handler[r]
        THEN /\ prevValue' = [prevValue EXCEPT ![r] = Kept(r)]
             /\ log' = IF event = "ok" THEN log ELSE [log EXCEPT ![r] = event]
        ELSE UNCHANGED <<prevValue, log>>
  /\ copy' = NoCopy
  /\ UNCHANGED <<table, request, timers, main, com, evLeft, todo, world, history>>

(* timer_reset starts the next interval at the end of the last one, so a  *)
(* late pass brings the next one forward.                                 *)
EvDone ==
  /\ evPc = "next" /\ evPc' = "sleep"
  /\ todo = {}
  /\ evLeft' \in 0 .. EV_DELAY
  /\ UNCHANGED <<table, request, timers, main, com, todo, copy, prevValue, log,
                 world, history>>

Ev == EvAwake \/ EvCopy \/ EvHandle \/ EvDone

-----------------------------------------------------------------------------
(* Time, the IO MCU and what it measures                                  *)

(* Mutant: a timer that is compared with =, and runs past its end *)
Less_PastEnd(n) == n - 1

Less(n) == IF n = 0 THEN 0 ELSE n - 1

(* A second passes.  The main thread sleeps through it, or is at most     *)
(* MaxStall seconds late (a slow ioctl, the scheduler); the few           *)
(* instructions of a request are never caught by it.                      *)
Tick ==
  /\ \/ mainPc = "sleep"
     \/ mainPc # "down" /\ stall < MaxStall
  /\ comPc = "accept"
  /\ stall' = IF mainPc = "sleep" THEN 0 ELSE stall + 1
  /\ mainPc' = IF mainPc = "sleep" THEN "awake" ELSE mainPc
  /\ evPc' = IF evPc = "sleep" THEN "awake" ELSE evPc
  /\ hi' = Less(hi) /\ low' = Less(low) /\ evLeft' = Less(evLeft)
  /\ UNCHANGED <<table, request, dump, raw, waddr, errorCount, prio_len, com, todo,
                 copy, prevValue, log, mcu, mcuUp, sets, stales, changes, outages,
                 history>>

SensorChanges(r) ==
  /\ changes < MaxChanges /\ MayAct /\ changes' = changes + 1
  /\ mcu' = [mcu EXCEPT ![r] = 1 - mcu[r]]
  /\ moved' = moved \cup {r}
  /\ UNCHANGED <<table, request, timers, main, com, events, mcuUp, sets,
                 stales, outages, asked, overlap, lost, filled, early>>

McuFails ==
  /\ mcuUp /\ outages < MaxOutages /\ MayAct
  /\ mcuUp' = FALSE /\ outages' = outages + 1
  /\ UNCHANGED <<table, request, timers, main, com, events, mcu, sets,
                 stales, changes, history>>

McuRecovers ==
  /\ ~mcuUp /\ mcuUp' = TRUE
  /\ UNCHANGED <<table, request, timers, main, com, events, mcu, sets,
                 stales, changes, outages, history>>

Clients ==
  \/ \E r \in Settable, v \in Vals : ReceiveSet(r, v)
  \/ ReceiveGet \/ ReceiveGetGone \/ ReceiveNothing

Periphery ==
  \/ \E r \in Sensors : SensorChanges(r)
  \/ McuFails \/ McuRecovers
  \/ ParseFails

Next == Main \/ Com \/ Ev \/ Respawn \/ Tick \/ Clients \/ Periphery

Spec == Init /\ [][Next]_vars

(* The threads of the daemon are scheduled, procd starts it again and time *)
(* passes.  Clients, the sensors and the IO MCU are under no obligation.   *)
FairSpec ==
  /\ Spec
  /\ WF_vars(Main) /\ WF_vars(Com) /\ WF_vars(Ev)
  /\ WF_vars(Respawn) /\ WF_vars(Tick)

-----------------------------------------------------------------------------
(* Properties *)

MainPcs == {"open", "openLow", "poll", "parse", "failed", "write", "clear", "sleep",
            "awake", "down"}
SetPcs  == {"addr", "value", "entry", "flag"}
Addrs   == Regs \cup {"none"}

(* Every variable keeps the type its C declaration gives it; raw is the    *)
(* part of a dump not yet parsed.                                          *)
TypeOK ==
  /\ value \in [Regs -> Vals] /\ handler \in [Regs -> BOOLEAN]
  /\ slot \in [addr : Addrs, val : Vals] /\ write_flag \in BOOLEAN
  /\ hi \in 0 .. HI_DELAY /\ low \in 0 .. LOW_DELAY /\ stall \in 0 .. MaxStall
  /\ prio_len \in [Dumps -> {"known", "zero", "bad", "wrong"}] /\ errorCount \in Nat
  /\ mainPc \in MainPcs /\ dump \in Dumps /\ waddr \in Addrs
  /\ DOMAIN raw \subseteq Regs /\ \A r \in DOMAIN raw : raw[r] \in Vals
  /\ comPc \in SetPcs \cup {"accept", "down"}
  /\ rec \in [op : {"write", "response", "other"}, addr : Addrs, val : Vals]
  /\ evPc \in {"sleep", "awake", "next", "handle", "down"} /\ evLeft \in 0 .. EV_DELAY
  /\ todo \subseteq Regs /\ copy \in [reg : Addrs, val : Vals]
  /\ prevValue \in [Regs -> Vals \cup {Unset}]
  /\ log \in [Regs -> {"none", "close", "open"}]
  /\ mcu \in [Regs -> Vals] /\ mcuUp \in BOOLEAN
  /\ sets \in 0 .. MaxSets /\ stales \in 0 .. MaxStale
  /\ changes \in 0 .. MaxChanges /\ outages \in 0 .. MaxOutages
  /\ asked \in [Regs -> Vals \cup {Unset}] /\ overlap \in BOOLEAN /\ lost \in BOOLEAN
  /\ moved \subseteq Regs /\ filled \subseteq Regs /\ early \subseteq Regs

(* i2c_setData is under way *)
Setting == comPc \in SetPcs

Quiet == ~Setting /\ ~write_flag

(* Once the write request is drained, every register holds what was asked  *)
(* of it last - whatever the interleaving of i2c_setData with read_i2c.    *)
SetsLand ==
  Quiet /\ ~lost => \A r \in Settable : asked[r] # Unset => mcu[r] = asked[r]

(* The same for clients that never send a set while one is pending: then   *)
(* no interleaving loses, mixes or misdirects a request.  A set is lost    *)
(* only by a write the IO MCU did not answer, or with a daemon that ended  *)
(* before it was written.                                                  *)
SerialSetsLand == ~overlap => SetsLand

(* Why it is so: what is on its way to the IO MCU, and where it is *)
OnItsWay(r) == \/ Setting /\ rec.addr = r
               \/ write_flag /\ slot.addr = r

SetTracked ==
  /\ rec.op = "write" => rec.addr \in Settable /\ asked[rec.addr] = rec.val
  /\ mainPc = "down" => comPc = "down"
  /\ Setting => rec.op = "write"
  /\ mainPc \in {"write", "clear"} => write_flag
  /\ ~overlap =>
       /\ Setting => ~write_flag
       /\ comPc \in {"value", "entry", "flag"} => slot.addr = rec.addr
       /\ comPc \in {"entry", "flag"} => slot.val = rec.val
       /\ write_flag => slot.addr \in Settable /\ asked[slot.addr] = slot.val
       /\ mainPc = "write" => waddr = slot.addr
       /\ ~lost => /\ mainPc = "clear" => mcu[slot.addr] = slot.val
                   /\ \A r \in Settable :
                        asked[r] # Unset /\ ~OnItsWay(r) => mcu[r] = asked[r]

(* mainHandler never counts more than three failures in a row, however     *)
(* long the IO MCU is dead: the pause between two dumps counts as success. *)
ErrorsBounded == errorCount <= 3

(* Why it is so: after a failure the dump that failed is not due, and the  *)
(* low-priority one is not due again before the main thread has slept.     *)
FailurePace ==
  /\ mainPc \in {"open", "openLow", "down"} => errorCount = 0
  /\ mainPc = "poll" /\ errorCount > 0 =>
       /\ dump = "hi" => hi >= HI_DELAY - stall
       /\ dump = "low" => low >= LOW_DELAY - stall /\ errorCount < 3
       /\ dump = "hi" /\ errorCount >= 2 => low >= LOW_DELAY - 3 * MaxStall - stall
  /\ mainPc \in {"parse", "failed"} =>
       /\ errorCount <= 2
       /\ dump = "low" => errorCount <= 1
  /\ dump = "hi" /\ errorCount > 0 =>
       /\ mainPc = "parse" => low >= LOW_DELAY - MaxStall - stall
       /\ mainPc = "failed" => low >= LOW_DELAY - 2 * MaxStall - stall

(* A line "changed to ..." is logged only for a register that changed     *)
(* since the daemon started.                                               *)
LogTruth == \A r \in Sensors : log[r] # "none" => r \in moved

(* The registers of a dump that is read with the length of the other      *)
Misread == {r \in Regs : \E d \in Dumps : prio_len[d] = "wrong" /\ r \in DumpOf(d)}

(* The only lines without a change come from a pass over the table that   *)
(* ran before the first dump had filled the entry, or from a dump read    *)
(* with a wrong length.                                                    *)
LogTruthAfterFill ==
  \A r \in Sensors : log[r] # "none" => r \in moved \cup early \cup Misread

(* Why it is so: clients write no sensor, and of a sensor that has not      *)
(* changed and was not looked at too early every copy is the same.         *)
LogTracked ==
  /\ rec.op = "write" => rec.addr \in Settable
  /\ Setting => rec.op = "write"
  /\ write_flag \/ comPc \in {"value", "entry", "flag"} => slot.addr \in Settable
  /\ mainPc = "write" => waddr \in Settable
  /\ prio_len["hi"] # "wrong"
  /\ mainPc \in {"open", "openLow", "down"} => prio_len["low"] = "zero"
  /\ \A r \in Sensors \ (moved \cup early \cup Misread) :
       /\ r \in filled => value[r] = mcu[r]
       /\ r \in DOMAIN raw => raw[r] = mcu[r]
       /\ evPc = "handle" /\ copy.reg = r => copy.val = mcu[r]
       /\ prevValue[r] \in {Unset, mcu[r]}
       /\ log[r] = "none"

(* A pending write request is always taken off: polling never starves it.  *)
SetDrained == write_flag ~> ~write_flag

(* The IO MCU answers, and the lengths of its dumps are known *)
Polled == mcuUp /\ \A d \in Dumps : prio_len[d] = "known"

TableIsMcu == \A r \in Regs : value[r] = mcu[r]

(* If the IO MCU was up when the daemon opened the bus and stays up in the *)
(* end, the table ends up equal to its registers, in spite of dumps that   *)
(* were read before a set and parsed after it, and of lost writes.         *)
TableConverges == <>[]Polled => <>[]TableIsMcu

(* The same whether or not the IO MCU was up when the bus was opened. *)
TableAlwaysConverges == <>[]mcuUp => <>[]TableIsMcu

(* If the IO MCU stays up, the last state the events thread saw, and the   *)
(* last line it logged since the daemon was started, end up agreeing with  *)
(* every watched register.                                                 *)
EventsFollow ==
  <>[]Polled => <>[](\A r \in Watched :
                       /\ prevValue[r] = mcu[r]
                       /\ log[r] \in {"none", IF mcu[r] = 1 THEN "close" ELSE "open"})

(* No request of a client, and no client that goes, ends the daemon. *)
LastingDaemon == mainPc # "down"

(* A dead IO MCU is brought back by gpio_resetIoMcu. *)
DeadMcuReset == ~mcuUp ~> mcuUp
=============================================================================
