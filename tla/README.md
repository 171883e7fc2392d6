# Verification of the TFortis PSW switch firmware

The repository is the firmware of the TFortis PSW managed PoE switches: an
OpenWrt image with the vendor's own daemons under `src/tf_pack/`. This directory
holds TLA+ models of the vendor's four daemons (the restart of hung devices, the
PoE controller, the periphery, the discovery by the management station), the TLC
configurations that check them and TLAPS proofs about all of them.

    tlc -config ArSafe.cfg MCAutoRestart        # one run
    tlapm AutoRestartProofs.tla                 # the proofs; likewise *Proofs.tla

## 1. Inventory

| Component (under `src/tf_pack/`) | State | Operations | Status |
|---|---|---|---|
| `tf_ar_poe/src/autorestartd` | `portInfoArr[8]`: configuration, error word, event word, counters, reboot phase, alarms | test thread, events thread, command thread | modelled: `AutoRestart`; the rate it measures: `SpeedTest`; its socket: `CommandLink` |
| `tf_ar_poe/src/autorestart_ctrl` | none; a connection and the flags it prints | sends one command, prints the answer | modelled: `CommandLink` |
| `tf_ar_poe/lib` | none of its own | socket, pipe, JSON, threads | descriptors of sockets and pipes: `CommandLink` |
| `realtek-poe-tfortis/src/main.c` | queue `cmd_pending`, `cmd_seq`, retry timer, port configuration | ubus methods, two timers, serial line callbacks | modelled: `RealtekPoe`, `PoeFifo` |
| `tf_hwsys` (`hwsysd`, `hwsys_ctrl`, `lib`) | the table `sock_msgArr`, one write request, two dump timers, an error count, the last value per event handler | poll over I2C, serve clients, compare and log | modelled: `Hwsysd`, `HwsysAnalog`; text registers not |
| `tf_device_monitor` | `clientInfo` (state, event bits, callbacks), one message buffer, the flags of a settings request | answers searches and settings requests that the management station broadcasts over UDP | modelled: `DeviceMonitor` |
| `tf_clish`, `tf_file`, `tf_statistics`, LuCI applications | none of their own | menus and scripts over uci and ubus | no |
| `mstpd`, `rtk`, `luci`, `jsonLibLua`, `syslog_fc`, `openwrt/` | | | third-party |

**How they interact.** LuCI and the CLI write uci; saving a port runs
`port-init.sh`, which reloads the poe daemon. `autorestartd` reads uci with
`popen("ubus call uci get ...")` before each test, watches the attached device by
link, ping or receive rate, and switches a port with `popen("ubus call poe manage
...")`. The poe daemon turns each call into commands for the PoE controller (the
MCU) on a serial line. `autorestart_ctrl` talks to `autorestartd` over a socket.
procd restarts either daemon when its configuration is saved. `hwsysd` keeps a
copy of the registers of the I/O microcontroller (the IO MCU: sensors, UPS, SFP
modules, clock, relays), which `tf_hwsys_ctrl`, SNMP and the scripts read and write
over a socket. `tf_device_monitor` listens on one UDP port and broadcasts its answers
to the same port; settings go to `user_handler.lua`.

**What is hard here.** `autorestartd` has three threads over one record per port
and not a single lock. The two words `errorCode` and `event` are changed with
`x |= f` by all of them, and a handler sits in `popen` or `ping` for seconds
between reading and writing. A reboot is a machine of four phases that the test
thread may abort at any moment (`state = IDLE_STATE`) and that a later reboot
resumes. The poe daemon matches answers with commands by position only, has
retries but no timeout, and may be restarted with frames under way. `hwsysd` again
has three threads and no lock: a client's record is copied over the table entry the
other two work on, and one slot holds the write requests of everyone. Its handlers
compare signed readings as `uint32_t`. `tf_device_monitor` keeps its callbacks,
counters and flags between requests and combines flags with `&=` and `^=` inside
conditions. All of them hold on to descriptors in some path.

**What makes each correct.**

* test and events threads: the port is off for `rebootDelay` and comes back; a
  broken device is not restarted for ever; the schedule is kept; a port reported
  as disabled is disabled;
* command thread and client: a command that is accepted is carried out, the client
  is answered and told the truth, and no number of commands ends the daemon;
* speed test: a port fails just when its rate is outside the configured limits;
* `hwsysd`: what a client sets reaches the register, the table follows the
  registers and the log follows the table, an excursion is logged and nothing else,
  a dead IO MCU is reset;
* `tf_device_monitor`: each answer belongs to its request, settings reach the script
  only if they are for this switch, the outcome is reported as it was, and traffic
  does not end the daemon;
* poe daemon: one frame at a time, commands in order and at most once, a bounded
  number of retries, and in the end the ports are as the callers asked.

`PROJECT.json` lists the hazards line by line, with the properties that cover them.

## 2. Modules

    AutoRestart  <-- MCAutoRestart (TLC)       RealtekPoe  <-- MCRealtekPoe (TLC)
        ^                                        ^   |  INSTANCE PoeFifo WITH ...
    AutoRestartProofs (TLAPS)                    |   +---> PoeFifo (abstract)
                                           RealtekPoeProofs (TLAPS)
                                                 ^
                                           RealtekPoeOrderProofs (TLAPS)

    Hwsysd, HwsysAnalog, SpeedTest, DeviceMonitor, CommandLink:
        each with MCx (TLC) and xProofs (TLAPS) extending it

`SpeedTest` and `CommandLink` refine the grain of two parts of `AutoRestart` (the
verdict of the speed test, and how a command reaches the command thread), and
`HwsysAnalog` that of one action of `Hwsysd` (`EvHandle`); each has the state its
question needs and no more.

### AutoRestart

One port of `autorestartd` with its three threads. The eight ports share no data;
the turns of the other seven only delay this one, which any interleaving allows.

| Model | Code |
|---|---|
| `state`, `event`, `errorCode`, `errorTestCount`, `resetCount` | `portResetInfo`; the two words are sets of flags |
| `rebootState`, `rebootEvent`, `rebootTimer` | `portRebootInfo`; the timer counts down instead of comparing with `time(NULL)` |
| `test`, `alarm`, `status`, `remain` | `portConfigInfo`, `timeAlarm[]` |
| `port_state`, `poe_state` | `portStateInfo` |
| `pc`, `reg`, `polled`, `job`, `answer` | where the threads are, and their locals |
| `admin`, `power`, `tod` | uci, the supply of the port, the time of day (environment) |
| `dark`, `downs`, `streak`, `alarmOff` | history for the properties; no action's guard reads it |

*Grain.* A step ends where the thread may be away for long (popen, ping, sleep,
syslog) or where it touches a word another thread writes. `x |= f` is a load and a
store: for a thread in `Preempted`, `Load` takes copies of the two words and the
storing action uses the copies, so that an update made in between is lost. For a
thread not in `Preempted` the pair is one step. `Preempted = {"test"}` is what TLC
can afford; the proofs hold for every subset.

*Actions.* Test thread: `TestPoll`, `TestEnabled`, `TestDisabled`
(`get_PortAndPoeState`), `TestSpawn` and `EndRound` (`test_main`), `LinkClear`,
`LinkFail`, `Ping*`, `Speed*`, `TestPassed`, `MarkOk` (`port_runTest*`). Events
thread: `EventsPass`, `Wake` (`eventsHandler`), `test_ErrorHandler`, the steps of
`rebootHandler` phase by phase with `autoResetHandler`, `manualResetHandler`,
`set_errorHandler` and `getPortParam`, the steps of `alarmHandler`. Command
thread: `ComReceive`, `ComSet`, `ComRequest`, `ComCancel` (`cmd_rebootHandler`).
Environment: `AdminSave`, `Tick`.

*Left out.* What a test measures is a free choice (a ping and the link need power,
unless the device has its own; a rate is that of the past interval and may have any
value). `totalResetCount`, `timeStr`, `reply_time`, `printResult` and the status
command are display. A failed `popen` (`UbusMayFail`) reads as an empty answer.

### RealtekPoe and PoeFifo

The poe daemon is one thread under uloop, so a callback is one step; the MCU, the
serial line, the ubus callers and procd interleave with it. Commands are reduced
to `enable(port, on)`, other settings, and queries; the bursts (`poe_initial_setup`,
`poe_port_setup`, `state_timeout_cb`) have their real length and order.
`PoeFifo` is the abstract promise: a queue from which the head is executed or given
up; a restart keeps what was written, forgets the rest and adds a whole setup. The
refinement mapping `Todo` is what the MCU will still be told: the frames on the line,
then the queue behind its head, or the whole queue while its head has been rejected.
A lost frame is a command given up, and so is a rejected command whose answer is
damaged (`McuRejectDamaged`: `poe_reply_consume` fails at the checksum, before it looks
for `0xfx`); a lost answer is no step of `PoeFifo`, or gives the head up when it was a
rejection.

### Hwsysd

| Model | Code |
|---|---|
| `value`, `handler` | `sock_msgArr[].value`, `.eventsHandler # NULL` |
| `slot`, `write_flag` | `i2c_write` |
| `hi`, `low`, `prio_len`, `errorCount` | the two dump timers, the lengths read at the start, the static of `mainHandler` |
| `mainPc`, `dump`, `raw`, `waddr`; `comPc`, `rec`; `evPc`, `evLeft`, `todo`, `copy` | the three threads and their locals |
| `prevValue`, `log` | the statics of the handlers, the last line logged |
| `mcu`, `mcuUp` | the registers of the IO MCU, and whether it answers (environment) |
| `asked`, `overlap`, `lost`, `moved`, `filled`, `early` | history; no guard reads it |

Main thread: `OpenHi`, `OpenLow` (`open_i2c`), `ReadOk`, `ReadFails`, `ParseTlv`, `ParseFails`, `ParseDone`,
`WriteStart`, `WriteIo`, `WriteClear`, `Sleep`, `Wake` (`read_i2c`, `read_buffer`,
`write_buffer`), `Failed` (`mainHandler`). Command thread: `ReceiveSet`,
`ReceiveGet`, `ReceiveGetGone` (its client is gone before the answer),
`ReceiveNothing` (a connection that closes unused: `i2cRec` is as the one before left
it), then the four stores of `i2c_setData` one by one. Events thread: `EvAwake`,
`EvCopy`, `EvHandle`, `EvDone`.

*Lengths.* `open_i2c` reads two lengths into one buffer and ignores whether that worked.
`prio_len` says for each dump whether it is known, zero (the ioctl failed on the fresh
buffer), bad (0xAAAA, which the driver refuses) or wrong: the second read failed and the
low-priority length is that of the other dump (`LeftLen`). With a wrong length `Dumped`
gives part of the records, the last of which may be cut in two. A record that names an
address beyond the table (`ParseFails`) is a failure like any other.

*Deaths.* The answer to a get that is written to a closed socket ends the daemon
(`Dies`): when the client is gone before it, and when a connection that closes unused
finds the RESPONSE opcode of the get before it in `i2cRec`. A pending set is lost, the
IO MCU keeps its registers, and procd starts the daemon anew (`Respawn`, with weak
fairness). A change that happens while it is down is not logged: `log`, `filled` and
`prevValue` are about one process.

A dump is parsed one register a step. Time is in whole seconds; a thread may be `MaxStall` seconds late for a step,
and time does not pass over a main thread later than that: this is what the code
assumes of its machine, and `PaceAssumption` relates it to the two delays.
`MayAct` bounds what clients, sensors and the IO MCU do together.

### HwsysAnalog

One call of an analogue event handler is one step, for every reading. The handlers
differ in five things (first `prevValue`, width, sign, which events renew
`prevValue`, which are logged); each group is a record (`VoltageRule`,
`HumidityRule`, ...), and `check_out_of_range` is the C function with its unsigned
conversions. Passes on which a module is absent change nothing.

### DeviceMonitor

`client_handler` turn by turn: `getNetInfo` and `SocketInit` (INIT), `Receive`,
`ReceiveFails` with `Command` (WAIT), `FillMsg`, `MsgReady` (FILL_MSG), `Settings`,
`SettingsForeign` (SETTINGS), `SendOk`, `SendFails` (SEND), `Reload`; `NoDescriptor`
and `PipeFails` where `popen` gives NULL. The event word and `passFlag` are sets of
bits. Datagrams come from managers and neighbours, and every answer also into the
daemon's own `inbox`. A datagram is its type, the address it names and its length
(`Lens`): short of its fields, whole, with a message longer than `msg_dm` and
`cmd_checkHash`, or longer than `settingsMsg` itself. `getBuffer` copies what was
received and no more, so a short request keeps the address of the one before
(`RequestMac`) and a text without a zero is continued by what is left in the record
(`RequestLong`, `settLong`). A copy beyond the end of a buffer is undefined: `Overrun`
lets the process end there, and the other actions let it go on. Error codes keep their numbers, since the loop
combines them with `^=`. In `passFlag |= checkMacAddress()` C leaves open whether
the variable is read before the call that changes it; GCC calls first, which is what
`MacPass` does, and the other order is its mutant. `buffer[-1]`, written after a
failed `recvfrom`, and `buffer[bufferLen]` one past the end when a datagram fills the
buffer, are taken to have no effect. `settings_handler` has no caller, so
its event never rises.

### SpeedTest

The test thread is `port_runTestSpeed` a statement at a time: `Sample` (up to the end of
`cat`), `Current` (`strtol`), `Delta`, `Prev`, `Time`, `Elapsed`, `Stamp`, `Bits`, `Low`
and `High` (the two comparisons, each of which reads its limit from the record),
`Verdict`, and `NoLink`. The events thread in `getPortParam` at the end of a manual
reboot is as fine: `Reload` (the test is disabled), `ReloadZero` (the seven stores of
`setConfigZeroValue`, in the order of `ZeroOrder`, with `ReloadTime`), `ReloadTest`
(`setResetZeroValue`, the type of the test), `ReloadMax` and `ReloadMin`
(`setSpeed`, `port_setSpeedParam`), `ReloadEnd` (the result and `set_errorHandler`; an
update of `errorCode` by the test thread in between may take the rejection off). So a
round may run over a record half cleared. Restarts come at any moment, seconds pass
between any two statements, and the clock may be set. The unset `errorCode` of
`setSpeed` is a choice. `seen`, `seenAt` and `at` are the true values the verdict is
compared with; `disturbed` marks a round a reload or a setting of the clock fell into,
and no later round is measured from such a one. `rx_speed_Kbit` of the record, which is
only reported, is left out.

### CommandLink

The clients (`Call`, `Connect`, `ConnectFails`, `Send`, `GetResult`, `GetNothing`,
`Kill`), the command thread (`Accept`, `ReadCommand`, `ReadNothing`, `Handle`), the
pipes of the other threads (`OpenPipe`, `ClosePipe`), and the service manager
(`Stop`, `Start`). `fds` counts the connections never closed; a pipe that cannot be
opened ends the process (a NULL stream goes to `fgets`), and so does the answer to a
client that is gone (SIGPIPE).

## 3. Runs

| Run | Constants that matter | Checks | Distinct states |
|---|---|---|---|
| `ar_safe` | link test, test thread preempted, failing popen, 1 command, delay 1 | `TypeOK`, `RebootInv`, `OffTimeKept`, `RestartBudget` | 2.5 M |
| `ar_admin` | ping test, 2 changes by the administrator | `RebootCompletes`, `DarkPortRecovers`, `RebootInProgress` | 579 k |
| `ar_schedule` | speed test, both alarms, a day of 2 ticks | `ScheduleServed`, `ScheduleKeepsOff` | 252 k |
| `ar_wedge` | link test, 2 commands | `RebootInProgress`, violated (section 4) | |
| `poe_line` | 2 ports, rejections, damaged answers, no loss | `TypeOK`, `SendBound`, `SendsCounted`, `QueueDrains`, `ImplementsFifo` | 216 k |
| `poe_restart` | 2 restarts, lost frames, damaged answers, no rejections, no polls | `OneInFlight`, `SettledAsAsked`, `ImplementsFifo` | 1.2 M |
| `hw_safe` | 2 settable registers, one in each dump; any 2 of sets, connections closed too early, outages or garbled dumps; 1 s late | `ErrorsBounded`, `SerialSetsLand` | 3.3 M |
| `hw_live` | 1 sensor, 1 settable register; any 2 of a set, a connection closed too early, a change, an outage or a garbled dump; never late | `TypeOK`, `LogTruthAfterFill`, `SetDrained`, `TableConverges`, `EventsFollow` | 670 k |
| `an_power` | limits 55 and 65, noise 10, readings 0 to 110 and near 2^16 | `TypeOK`, `ExcursionLogged`, `NoFalseAlarm` | 6.5 k |
| `dm_requests` | 2 datagrams of any kind and length, 1 failed send, 1 spare descriptor, 1 restart, 5 outputs of `getNetData.lua` | `TypeOK`, `AnswerReady`, `RightSetsHeard`, `StopReason`, `Served`, `Drained` | 154 k |
| `sp_verdict` | small widths, 2 pairs of limits (one rejected), 1 reload, 1 setting of the clock, 2 seconds, 8 bytes | `TypeOK`, `VerdictTruth` | 1.9 M |
| `cl_calls` | 2 clients, 4 calls, 1 kill, 1 restart, 4 descriptors, 2 pipes | `TypeOK`, `OkMeansServed`, `SurvivesCalls`, `Answered` | 286 k |

*Bounds.* `TestNum`, `MaxReset` of 1 or 2 and `ByteMod` just above them reach the
limit, the wrap of the counters and the shutdown branch; the code's 3, 3 and 256
only take longer. A delay of 1 or 2 ticks separates "not yet" from "over". A day of
two ticks holds both alarms, each of which may come due in any phase of a reboot. One command and
two changes suffice for each abort; the wedge needs two commands. In the poe runs
`SeqMod = 4` makes the sequence number wrap within one burst, `MaxRetries = 1`
reaches the last retry, two ports give two different enables, and (in
`poe_line`) one poll, one call and one save overlap with the set-up burst in every order;
`poe_restart` leaves the poll out, whose queries change nothing in the MCU. In `hwsysd` two
inputs are enough for each hazard of the list (two sets, a set and an outage, a change
and an outage, a get and a connection closed after it, which takes a pending set with
it); delays of 2 and 5 s between dumps in `hw_safe` keep the order of the code's 3 and 30
and meet `PaceAssumption`; in `hw_live`, where the main thread is never late, 1 and 2 do.
`hw_safe` is about the main and command threads and leaves the events thread nothing to
compare; `hw_live` has all three, with a pass over the table as often as every second.
`dm_requests` needs two requests for what one leaves behind for the next, and one
descriptor to run out of them. In `cl_calls` four descriptors and two pipes leave room
for two commands, and the third may find none. `SpeedTest` scales the widths down
together (32 for the 2^16 of `uint16_t`, 48 for 2^32, 7 as the largest `long`), so that
the counter passes the largest `long` and the bits wrap within eight bytes; one reload
in a round of eleven steps meets every statement, and a later round follows it; `HwsysAnalog` keeps the widths but uses 2^24 for
2^32, TLC's integers having 32 bits: no value of a register comes near either. `MaxCmds`,
`MaxAdmin`, `MaxPolls`, `MaxCalls`, `MaxSaves`, `MaxKills`, `MaxRestarts`,
`MaxRequests`, `MaxFails`, `MaxSets`, `MaxStale`, `MaxChanges`, `MaxOutages`,
`MaxInputs`, `MaxReloads`, `MaxNow` and `MaxRx` bound the inputs and nothing else.

*Deadlock.* `AutoRestart` never stops, since time passes. In the poe runs the
inputs are used up and the daemon then waits, so the cfgs say `CHECK_DEADLOCK FALSE`;
so do `dm_requests` and `cl_calls`, where the daemon may also have ended.

*Fairness.* `AutoRestart!FairSpec`: weak fairness of the test and events threads
and of a command being served (each is an endless loop whose popen, ping and sleep
return) and of time. Nothing is assumed of clients and the administrator.
`RealtekPoe!FairSpec`: weak fairness of the daemon's callbacks (uloop runs what is
ready, and the 100 ms timer expires) and of the MCU (it answers what reaches it).
`Hwsysd!FairSpec`: weak fairness of the three threads (none ever blocks on another),
of procd and of time; not of clients, sensors or the IO MCU. `DeviceMonitor!FairSpec`: weak
fairness of the loop, whose every call returns once there is a datagram.
`CommandLink!FairSpec`: weak fairness of each client's steps, of the command thread
and of the pipes, and strong fairness of `Accept`: the loop around `accept` retries
without pause, so a descriptor that is free again and again is taken at last.

## 4. Findings

`ar_wedge` states what the repository's own text says of the program and finds that
the code does otherwise (`PROJECT.json` quotes the line): two manual commands in quick
succession leave a port in `REBOOT_STATE` with nothing to do, until the port or its PoE is
disabled or the daemon restarted. The second one
clears `MANUAL_RESTART` before the events thread has seen it. With one command, and no
update of `event` lost, this cannot happen (`ar_admin`, `InProgressTheorem`).

The modules state more promises that the code does not keep. Each row names the
definition, and how to get TLC's counterexample: put the definition into the cfg named,
with the constants changed as given. Next to most of them stands the weaker property that
does hold and is checked or proved.

| Definition | cfg, changes | What happens | What holds |
|---|---|---|---|
| `RestartLimit` | `ArAdmin`, `TestNum = 2`, `ByteMod = 3`, `MaxAdmin = 0` | a test sets `ERR_OK` before it has a verdict (port_module.c:175); the events thread then clears `resetCount`, and a dead device is restarted more often than `max_reset` | `RestartBudget` |
| `ScheduleKeepsOff` | `ArSchedule`, `Test = "ping"` | a ping that succeeds overwrites `ERR_POE_DOWN` (port_module.c:226); the port is restarted and so switched on in its off period | `ScheduleKeepsOff` for the link and speed tests |
| `EnabledNotReportedDisabled` | `ArAdmin`, `Test = "link"` | the disable flags are not cleared when the port is enabled again (port_module.c:400) | |
| `DeadMcuReset` | `HwLive` | the pauses between dumps clear the error count (main_app.c:123): it never exceeds 3, the reset of the IO MCU needs 5 | `ErrorsBounded` |
| `SetsLand` | `HwSafe` | a second set overwrites the pending one, or is taken off with it (i2c_module.c:245) | `SerialSetsLand` |
| `EventsFollow` for a settable register | `HwLive`, `Watched = {"relay"}` | a set copies the client's record, with no handler, over the entry (i2c_module.c:398); the relay's changes are no longer logged | `EventsFollow` for sensors |
| `LogTruth` | `HwLive` | the first pass may precede the first dump (main_app.c:164) and a change is logged where there was none | `LogTruthAfterFill` |
| `TableAlwaysConverges` | `HwLive` | if the IO MCU is down when the bus is opened (i2c_module.c:205), no dump is ever read | `TableConverges` |
| `HotLogged` | `AnPower`, `Kind = "rpsTemper"`, `RangeMax = 85`, `RangeMin <- RpsMin`, `Readings <- WarmReadings` | -60 as `uint32_t` makes every normal reading too low, so `prevValue` stays at the first overheat (events_handlers.c:303) and the next is not logged | it holds for `"sfpTemper"` |
| `OverheatIsHot` | the same, `Readings <- TemperReadings` | -5 is read as 251 and logged as an overheat (events_handlers.c:301) | it holds for `"sfpTemper"` |
| `ExcursionLogged` for the SHT sensor | `AnPower`, `Kind = "shtTemper"`, `RangeMax = 500`, `RangeMin <- ShtMin`, `Readings <- ShtReadings` | the first reading is never kept (events_handlers.c:356), so nothing is ever logged | theorem `ShtSilent` |
| `NetworkErrorStops` | `DmRequests` | two chained `^=` (state_handler.c:52) let the loop go on after a failed socket, deaf | `StopReason` |
| `LastingDaemon` | `HwSafe` | a get, then a connection that closes unused (or that only asks for a reset): the answer is written to the closed socket (client_comm.c:26, socket_module.c:159); or the client of a get is gone. The daemon ends with its pending set | `SerialSetsLand` for what was written; procd starts it again |
| `NoRequestEnds` | `DmRequests` | a settings request with a message beyond the buffers of `checkMD5Sum` (state_handler.c:348), or longer than the record it is copied to (net_utils.c:108), may end the daemon | `StopReason` |
| `AuthTruth` | `DmRequests` | "AUTHENTICATION OK" is logged for a request to another switch (state_handler.c:178) | `RightSetsHeard` |
| `AckTruth` | `DmRequests` | `if (passFlag &= pass_mac)` (state_handler.c:293) takes the md5 bit off: applied settings are acknowledged with `ERR_AUTHENTICATION`, and no other verdict is ever sent | |
| `OwnSetHeard` | `DmRequests` | before the first search the switch does not know its own address (state_handler.c:323) | `RightSetsHeard` |
| `VerdictThroughReload` | `SpVerdict`, `Limits <- OnePair` | a reload clears limits and counters (init_module.c:376) long before it sets the limits again (init_module.c:249), and the test thread judges with what it finds (port_module.c:308) | `VerdictTruth`: the rounds no reload falls into |
| `RejectedNotTested` | `SpVerdict` | the test thread changes `errorCode` between the two lines of the reload that set and read it (init_module.c:249, 261), the rejection is lost and the port is tested | |
| `VerdictTruth` for wide limits | `SpVerdict`, `Limits <- WideLimits` | limits up to 1000000 pass through `uint16_t` (init_module.c:301) | `VerdictTruth` if they fit |
| `VerdictAlways` | `SpVerdict` | `strtol` stops at the largest `long` (port_module.c:282): after 2 GB the speed is 0 | `VerdictTruth` |
| `NoFalseFailure` | `SpVerdict` | the first round measures from time 0, since `time_prev` is not set (init_module.c:387) | `VerdictTruth` |
| `LastingService` | `ClCalls` | connections are never closed (ar_mainApp.c:92) until a pipe cannot be opened; or SIGPIPE for a client that is gone (socket_module.c:172) | `SurvivesCalls` |
| `WrongPortReported` | `ClCalls` | a wrong port number is reported as ok (ar_main_ctrl.c:96) | `OkMeansServed` |

## 5. Proofs

`AutoRestartProofs` proves six theorems, for every value of the constants that
`ConstantsAssumption` allows (ranges of the options and counters, no relation
between them but `TestNum, MaxReset < ByteMod`). The first four hold for every set
`Preempted`; the last two name the updates that must not be lost, and the input they
exclude.

* `TypeCorrect`: `Spec => []TypeOK`. One lemma per thread, one step per action.
  The only part with content is `resetCount <= MaxReset`, which rests on the guard
  `LimitReached` of `autoResetHandler`.
* `RebootInvariant`: `Spec => []RebootInv`, with `RebootInv == RebootCoherent /\
  DownsPaid /\ OffTimeKept`.
* `OffTimeTheorem` (`OffTimeKept`) and `BudgetTheorem` (`RestartBudget`) follow.

`OffTimeKept` is not inductive: that `rebootDelay` has passed when the timer ends
needs the invariant that in `POE_DOWN`, with the start taken and the timer set,
timer and time in the dark make up the delay, at each point of the handler.
That is `RebootCoherent`; it also says which phase goes with which event and which
point of `rebootHandler`, since aborted reboots leave phases behind.
`RestartBudget` is not inductive either: a reboot that is prepared (phase `INIT`, or
`START` pending) has been counted in `resetCount` or not, according to what began
it; `DownsPaid` counts it as one made already. TLC checks `RebootInv` first, in
`ar_safe`.

* `ScheduleTheorem` (`ScheduleKeepsOff`): for every criterion but ping, while no update
  of the error word is lost by the test thread and no manual reboot is asked for. By
  `ScheduleInv`: while the schedule keeps the port off, `ERR_POE_DOWN` is in the word
  and in each copy the events thread may store, the port is not being rebooted, and no
  reboot can begin, since the verdict of a failed test is ignored under the flag.
  Each hypothesis is needed: the ping test overwrites the word (section 4), a lost
  update takes the flag away likewise, and a manual reboot may switch the port on.
* `InProgressTheorem` (`RebootInProgress`): with at most one manual command, while no
  update of `event` is lost by the test or command thread; the events thread may lose
  what it likes. By `InProgressInv`: a port in `REBOOT_STATE` without a phase has its
  event, is about to get it from the command thread (`state` is set first, the request
  after), or is between the points of `rebootHandler` where the event is taken and the
  state settled. With two commands TLC refutes it (`ar_wedge`), and with a torn update
  in the test or command thread too: the request is stored over.

`RealtekPoeProofs` proves four theorems for every number of ports, retries, calls
and restarts, again from `ConstantsAssumption` alone.

* `TypeCorrect` (`TypeOK`), `SendsTheorem` (`SendsCounted`) and `SendBoundTheorem`
  (`SendBound`). `TypeOK /\ SendsCounted` is inductive, across restarts and losses:
  the types rest on the guard `RetriesLeft`, the counts on the places where a frame
  is written or a rejection charged. `SendBound` alone is not inductive (a head
  already written `MAX_RETRIES + 1` times with no rejection to its name could be
  written again) and follows from both.
* `InFlightTheorem` (`OneInFlight`): inductive relative to the two above. A frame is
  written in three places only: to a queue that was empty (then nothing is under
  way), after an answer (it was the one frame under way), after the timer (nothing
  is under way while it runs).

`RealtekPoeOrderProofs` proves two, both without rejections or without restarts
(`~MayReject \/ MaxRestarts = 0`), for any number of ports, calls and lost frames. They
follow `Todo`: every step takes its first command off, adds to its end or leaves it
alone, and a restart cuts it behind the frames on the line and adds a setup.

* `FifoTheorem` (`ImplementsFifo`): each step of the daemon, the MCU, the line and the
  callers maps to `Submit`, `Execute`, `GiveUp`, `Restart` or to no step. That `Todo` is
  what it says rests on `Orderly`: nothing is ever rejected, so that answers shifted by
  a restart still stand for one command done each; or there is no restart and
  `OneInFlight` holds.
* `SettledTheorem` (`SettledAsAsked`). The property speaks of quiet states only; the
  inductive `Tracked` says that in `Todo` the last enable of every port is the supply
  last asked for, or there is none and the port is as asked or given up, unless the
  queue has stopped (`Stalled`). The burst of a restart puts an enable for every port
  into the list.

With rejections and restarts together `Todo` is not known: an answer of the former
process that is taken for that of the present head may drop a command that was never
carried out (section 6).

The lemmas of both modules say what the helpers do to the queue (`NextCmd` for
`poe_cmd_next`, `QueueCmds` for `poe_cmd_queue`, `ReplyCmds` for an answer).

`HwsysdProofs`, from `HwsysAssumption` and `PaceAssumption`, for any registers:

* `TypeCorrect` (`TypeOK`);
* `ErrorsTheorem` (`ErrorsBounded`), for failures of the bus, of the length reads and of
  the parsing alike. Three in a row is a fact about time, not about the
  counter: `FailurePace` says how long the timers still run at each point after a
  failure. A failed dump is not due again before its delay, and the low-priority one
  not before the main thread has slept, which counts as a success;
* `SerialSetsTheorem` (`SerialSetsLand`), by `SetTracked`: what is asked of a register is
  in its cell, in the slot, or in the client's record, and these agree; a write the IO MCU
  did not answer, and a daemon that ended before its write, are the only losses;
* `LogTruthTheorem` (`LogTruthAfterFill`), by `LogTracked`: of a sensor that did not
  change, was not looked at too early and is in no dump of a wrong length, every copy
  (dump, table, events thread, `prevValue`) has the same value.

`HwsysAnalogProofs`: `TypeCorrect` for every handler; `AnchoredTheorem`,
`ExcursionTheorem` and `NoFalseAlarmTheorem` for handlers that keep and log both events
and registers whose readings and limits fit their width. `Anchored` (until it logs, the
handler holds on to a value near the range) is inductive and `ExcursionLogged` follows
from it; `ShtSilent`: that handler logs nothing, ever.

`DeviceMonitorProofs`: `TypeCorrect`; `AnswerTheorem` (`AnswerReady`), by `Tracked`, which
says what the callbacks and `filled` are in each state. `HeardTheorem` (`RightSetsHeard`)
and `StopTheorem` (`StopReason`) are inductive with the types.

`SpeedTestProofs`: `TypeCorrect`; `VerdictTheorem` (`VerdictTruth`) under `LimitsFit` (the
limits within `uint16_t`), by `Measured`: what each statement of an undisturbed round finds
in the record is what the statements before it, and the last undisturbed round, have left
there, whatever reloads met earlier rounds; `Quiet` is the part that says when no reload
can be under way.

`CommandLinkProofs`: `TypeCorrect` (with `OneService`: each connection waits, is served,
or is done with), from which `OkTheorem` (`OkMeansServed`) and `SurvivesTheorem`
(`SurvivesCalls`) follow, for any number of clients and descriptors.

**Only model-checked:** all liveness properties (liveness under fairness is beyond the
prover): `RebootCompletes`, `DarkPortRecovers`, `ScheduleServed`, `QueueDrains`,
`SetDrained`, `TableConverges`, `EventsFollow`, `Served`, `Drained`, `Answered`. Every
invariant and the refinement of every passing run is a theorem.

## 6. Not modelled, and limits

* The vendored code is left out: the Realtek SDK (`rtk`, register tables, drivers),
  `mstpd`, LuCI, the OpenWrt target and kernel patches. It is more than 99 % of the
  repository's 2.1 million lines, is not this project's own logic, and consists largely
  of generated tables; the vendor's four daemons and two clients are a few thousand
  lines, and those are what the modules cover. `tf_clish`, `tf_file` and
  `tf_statistics` are menus and scripts without state.
* JSON, IP address and time parsing: valid or not. Partial reads of a command.
* A crash of `autorestartd` in mid-reboot: the next run starts in
  `REBOOT_STATE_IDLE` with the port dark. `Init` allows a dark port.
* The byte stream of the serial line: a frame arrives whole, damaged or not at
  all. After a lost frame the queue is never served again, since nothing times out
  (`QueueDrains` is checked without loss).
* With rejections and restarts together `SettledAsAsked` and `ImplementsFifo` do not hold: a shifted
  rejection is charged to the wrong command, and the rejected one is lost.
  `poe_restart` therefore has no rejections. A lost command is an exception of its own
  port only.
* `hwsysd` never closes the socket of a client (main_app.c:134-160): after about a thousand
  connections `accept` fails for good. Clients are bounded far below that. Addresses a
  garbled dump names that lie within the range but not in the table, and values it
  garbles, are left out (`get_id_by_addr` then returns nothing defined).
* `hwsysd`: registers of two bytes may be copied half old, half new (a mixed value is a
  reading like any other for `HwsysAnalog`); the record `data` of some handlers is read
  where `i2c_getData` did not fill it; the handlers of texts, UPS counters and
  the default button; the gpio branch of `tf_hwsys_ctrl`, which drives a pin and ends.
* `tf_device_monitor`: what the fill callbacks print; a change of the interface while it
  runs, of which it is not told.
* `autorestart_ctrl` with a command word that is not in its table reads beyond it.
* `ByteMod` and the widths are constants; all other integers are unbounded in the
  models, where the code cannot reach their limits.

## 7. Plan

1. *(done)* `AutoRestart`, its runs, findings and first theorems; `RealtekPoe` with
   `PoeFifo`.
2. *(done)* `RealtekPoeProofs`: types, `SendsCounted`, `SendBound`, `OneInFlight`,
   and that the daemon implements `PoeFifo`, across losses and restarts, and settles.
3. *(done)* `Hwsysd`, `HwsysAnalog`, `DeviceMonitor`, `SpeedTest`, `CommandLink`, each with
   its run and its theorems.
4. `PoeSystem`: `autorestartd`, the poe daemon and the MCU together, where the time
   in the queue eats into `rebootDelay`.
5. Two-byte registers in `Hwsysd`, with torn copies.
