----------------------------- MODULE RealtekPoe -----------------------------
(***************************************************************************)
(* The PoE daemon realtek-poe-tfortis/src/main.c: a queue of commands for  *)
(* the PoE controller (the MCU), one 12-byte frame on the serial line at a *)
(* time, answers matched with the head of the queue, retries after a       *)
(* rejection.  The daemon is one thread under uloop, so a callback is one  *)
(* step; the MCU, the line, the callers and procd interleave with it.      *)
(***************************************************************************)
EXTENDS Integers, Sequences, FiniteSets

CONSTANTS
  NumPorts,    \* config.port_count: the number of ports in the poe config
  MaxRetries,  \* 5 in the code: MAX_RETRIES
  SeqMod,      \* 256 in the code: cmd_seq is an unsigned char
  MayReject,   \* whether the MCU may answer with an 0xfx frame
  MayDamage,   \* whether an answer may arrive with a bad checksum
  MayLose,     \* whether a frame may get lost on the line
  MaxPolls,    \* bound on the expiries of state_timeout
  MaxCalls,    \* bound on the ubus calls that queue commands
  MaxSaves,    \* bound on the changes of the port configuration
  MaxRestarts  \* bound on the times procd starts the daemon anew

ASSUME ConstantsAssumption ==
  /\ NumPorts \in Nat /\ MaxRetries \in Nat /\ SeqMod \in Nat \ {0}
  /\ MayReject \in BOOLEAN /\ MayDamage \in BOOLEAN /\ MayLose \in BOOLEAN
  /\ MaxPolls \in Nat /\ MaxCalls \in Nat /\ MaxSaves \in Nat /\ MaxRestarts \in Nat

Ports == 1 .. NumPorts

VARIABLES
  cmd_pending, \* the queue; the head is the command on the line, if any is
  cmd_seq,     \* the last sequence number given
  timer,       \* state.mcu_error_timeout.pending
  enable,      \* config.ports[i].enable
  tx, rx,      \* frames on the line to the MCU and from it
  uci,         \* option poe of the port configuration
  power,       \* whether the MCU has the port's supply switched on
  polls, calls, saves, restarts,  \* how often each has happened
  wanted,      \* history: the supply last asked for
  abandoned,   \* history: ports with an enable command given up or lost
  misread      \* history: an intact answer did not match its command

line   == <<cmd_pending, cmd_seq, timer, tx, rx>>
bounds == <<polls, calls, saves, restarts>>
past   == <<wanted, abandoned, misread>>
vars   == <<line, enable, uci, power, bounds, past>>

-----------------------------------------------------------------------------
(* Commands.  What tells them apart here: set port enable, the other settings *)
(* and the queries.                                                           *)

Setting       == [op |-> "set", port |-> 0, on |-> FALSE]
Query         == [op |-> "query", port |-> 0, on |-> FALSE]
Enable(p, on) == [op |-> "enable", port |-> p, on |-> on]
Commands      == {Setting, Query} \cup {Enable(p, on) : p \in Ports, on \in BOOLEAN}

EnablePort(c) == IF c.op = "enable" THEN {c.port} ELSE {}

Repeat(c, n) == [i \in 1 .. n |-> c]

(* poet_setup closes a group at every fourth enabled port and at the last port *)
GroupEnds(cfg) ==
  {i \in Ports : i = NumPorts \/ (cfg[i] /\ Cardinality({j \in 1 .. i : cfg[j]}) % 4 = 0)}
Groups(cfg) == IF NumPorts = 0 THEN 1 ELSE Cardinality(GroupEnds(cfg))

(* Priority, classification and limit type of each group.  power_budget is 0 *)
(* for every port (config_load never sets it), so poe_port_setup queues no   *)
(* disconnect type, detection type and budget.                               *)
poet_setup(cfg) == Repeat(Setting, 3 * Groups(cfg))

poe_port_setup(cfg) == poet_setup(cfg) \o [i \in Ports |-> Enable(i, cfg[i])]

(* Status, power management mode, port mapping and the budget of PSE 0 *)
poe_initial_setup(cfg) == <<Query>> \o Repeat(Setting, 3) \o poe_port_setup(cfg)

(* Power statistics, status of the groups of four, and three queries per port *)
StateQueries == Repeat(Query, 1 + (NumPorts + 3) \div 4 + 3 * NumPorts)

Frame(cmd) == [body |-> cmd.body, seq |-> cmd.seq]

-----------------------------------------------------------------------------
(* The queue *)

(* struct cmd of the commands cs, numbered on from cmd_seq = s; sent counts    *)
(* the frames written for it                                                   *)
NewCmds(cs, s) ==
  [i \in 1 .. Len(cs) |->
     [body |-> cs[i], seq |-> (s + i) % SeqMod, num_retries |-> 0, sent |-> 0]]

(* struct cmd after r rejections and w writes of its frame *)
Cmd(cmd, r, w) == [body |-> cmd.body, seq |-> cmd.seq, num_retries |-> r, sent |-> w]

(* The queue once poe_cmd_send has written the frame of its head *)
Written(q) == <<Cmd(Head(q), Head(q).num_retries, Head(q).sent + 1)>> \o Tail(q)

(* poe_cmd_next with the queue q: its head is sent, unless the timer is pending *)
poe_cmd_next(q, pending) ==
  IF q = <<>> \/ pending
  THEN cmd_pending' = q /\ UNCHANGED tx
  ELSE /\ cmd_pending' = Written(q)
       /\ tx' = Append(tx, Frame(Head(q)))

(* A burst of poe_cmd_queue in one callback: the first command is sent if the *)
(* queue was empty, the others wait for their turn.                           *)
WasEmpty_Ignored == TRUE
WasEmpty_TestedLate == FALSE
WasEmpty == cmd_pending = <<>>

ListAddTail_AtHead(new, q) == new \o q
ListAddTail(new, q) == q \o new

poe_cmd_queue(cs) ==
  /\ LET q == ListAddTail(NewCmds(cs, cmd_seq), cmd_pending) IN
     IF WasEmpty THEN poe_cmd_next(q, timer) ELSE cmd_pending' = q /\ UNCHANGED tx
  /\ cmd_seq' = (cmd_seq + Len(cs)) % SeqMod
  /\ UNCHANGED <<timer, rx>>

-----------------------------------------------------------------------------
(* The enables config_load takes over: load_port_config sets them all, then    *)
(* load_port_state_config overwrites each with option poe = "enable" of its lan *)
config_load == uci

(* main up to uloop_run: config_load(1) and poe_initial_setup on an idle line *)
Init ==
  /\ uci \in [Ports -> BOOLEAN] /\ enable = config_load
  /\ power \in [Ports -> BOOLEAN]
  /\ LET q == NewCmds(poe_initial_setup(enable), 0) IN
     /\ cmd_pending = Written(q)
     /\ tx = <<Frame(Head(q))>>
     /\ cmd_seq = Len(q) % SeqMod
  /\ rx = <<>> /\ timer = FALSE
  /\ polls = 0 /\ calls = 0 /\ saves = 0 /\ restarts = 0
  /\ wanted = enable /\ abandoned = {} /\ misread = FALSE

(* state_timeout_cb, every two seconds *)
state_timeout_cb ==
  /\ polls < MaxPolls /\ polls' = polls + 1
  /\ poe_cmd_queue(StateQueries)
  /\ UNCHANGED <<enable, uci, power, calls, saves, restarts, past>>

(* The ubus methods that queue commands *)
Call == calls < MaxCalls /\ calls' = calls + 1 /\ UNCHANGED <<polls, saves, restarts>>

ubus_poe_reload_cb ==
  /\ Call
  /\ enable' = config_load
  /\ poe_cmd_queue(poe_port_setup(config_load))
  /\ wanted' = config_load
  /\ UNCHANGED <<uci, power, abandoned, misread>>

ubus_poe_manage_cb(p, on) ==
  /\ Call
  /\ enable[p]
  /\ poe_cmd_queue(<<Enable(p, on)>>)
  /\ wanted' = [wanted EXCEPT ![p] = on]
  /\ UNCHANGED <<enable, uci, power, abandoned, misread>>

ubus_poe_sendframe_cb ==
  /\ Call
  /\ poe_cmd_queue(<<Query>>)
  /\ UNCHANGED <<enable, uci, power, past>>

-----------------------------------------------------------------------------
(* Answers *)

(* handle_poe_f0_reply of cmd, with the rest of the queue in q *)
RetriesLeft_OffByOne(cmd) == cmd.num_retries <= MaxRetries
RetriesLeft(cmd) == cmd.num_retries < MaxRetries

ListAdd_AtTail(cmd, q) == Append(q, cmd)
ListAdd(cmd, q) == <<cmd>> \o q

handle_poe_f0_reply(cmd, q) ==
  IF timer THEN poe_cmd_next(ListAdd(cmd, q), TRUE) /\ UNCHANGED <<timer, abandoned>>
  ELSE IF RetriesLeft(cmd)
  THEN /\ timer' = TRUE
       /\ poe_cmd_next(ListAdd(Cmd(cmd, cmd.num_retries + 1, cmd.sent), q), TRUE)
       /\ UNCHANGED abandoned
  ELSE /\ poe_cmd_next(q, FALSE)
       /\ abandoned' = abandoned \cup EnablePort(cmd.body)
       /\ UNCHANGED timer

(* poe_stream_msg_cb with poe_reply_consume: a complete frame has arrived *)
poe_stream_msg_cb ==
  /\ rx # <<>>
  /\ rx' = Tail(rx)
  /\ IF cmd_pending = <<>>
     THEN UNCHANGED <<cmd_pending, tx, timer, abandoned, misread>>
     ELSE LET cmd == Head(cmd_pending)  reply == Head(rx) IN
          /\ IF reply.kind = "f0" THEN handle_poe_f0_reply(cmd, Tail(cmd_pending))
             ELSE poe_cmd_next(Tail(cmd_pending), timer) /\ UNCHANGED <<timer, abandoned>>
          /\ misread' = (misread \/ (reply.kind = "ok" /\ reply.frame # Frame(cmd)))
  /\ UNCHANGED <<cmd_seq, enable, uci, power, bounds, wanted>>

(* 100 ms after a rejection *)
mcu_clear_timeout ==
  /\ timer
  /\ timer' = FALSE
  /\ poe_cmd_next(cmd_pending, FALSE)
  /\ UNCHANGED <<cmd_seq, rx, enable, uci, power, bounds, past>>

Daemon == poe_stream_msg_cb \/ mcu_clear_timeout

-----------------------------------------------------------------------------
(* The MCU and the line (external) *)

Apply(c, p) == IF c.op = "enable" THEN [p EXCEPT ![c.port] = c.on] ELSE p

McuExecute ==
  /\ tx # <<>>
  /\ tx' = Tail(tx)
  /\ LET c == Head(tx).body IN
     /\ power' = Apply(c, power)
     /\ abandoned' = IF c.op = "enable" THEN abandoned \ {c.port} ELSE abandoned
  /\ \E k \in {"ok"} \cup (IF MayDamage THEN {"bad"} ELSE {}) :
       rx' = Append(rx, [kind |-> k, frame |-> Head(tx)])
  /\ UNCHANGED <<cmd_pending, cmd_seq, timer, enable, uci, bounds, wanted, misread>>

(* Not ready, or the request was damaged on the line: it is not executed *)
McuReject ==
  /\ MayReject
  /\ tx # <<>>
  /\ tx' = Tail(tx)
  /\ rx' = Append(rx, [kind |-> "f0", frame |-> Head(tx)])
  /\ UNCHANGED <<cmd_pending, cmd_seq, timer, enable, uci, power, bounds, past>>

(* A rejection whose answer is damaged on the line: poe_reply_consume takes the *)
(* command from the queue and fails at the checksum, before it looks for 0xfx.  *)
McuRejectDamaged ==
  /\ MayReject /\ MayDamage
  /\ tx # <<>>
  /\ tx' = Tail(tx)
  /\ rx' = Append(rx, [kind |-> "bad", frame |-> Head(tx)])
  /\ abandoned' = abandoned \cup EnablePort(Head(tx).body)
  /\ UNCHANGED <<cmd_pending, cmd_seq, timer, enable, uci, power, bounds, wanted, misread>>

Mcu == McuExecute \/ McuReject \/ McuRejectDamaged

Lose ==
  /\ MayLose
  /\ \/ /\ tx # <<>> /\ tx' = Tail(tx) /\ UNCHANGED rx
        /\ abandoned' = abandoned \cup EnablePort(Head(tx).body)
     \/ rx # <<>> /\ rx' = Tail(rx) /\ UNCHANGED <<tx, abandoned>>
  /\ UNCHANGED <<cmd_pending, cmd_seq, timer, enable, uci, power, bounds, wanted, misread>>

(* The administrator changes the PoE state of ports; a reload follows or not *)
Save ==
  /\ saves < MaxSaves /\ saves' = saves + 1
  /\ uci' \in [Ports -> BOOLEAN]
  /\ UNCHANGED <<line, enable, power, polls, calls, restarts, past>>

(* The daemon ends (poe_stream_notify_cb: "tty error, shutting down") and procd *)
(* starts it again.  The MCU keeps its state and what was already written to    *)
(* it; tcflush drops answers that have arrived but not those still on the line. *)
Restart ==
  /\ restarts < MaxRestarts /\ restarts' = restarts + 1
  /\ enable' = config_load
  /\ LET q == NewCmds(poe_initial_setup(config_load), 0) IN
     /\ cmd_pending' = Written(q)
     /\ tx' = Append(tx, Frame(Head(q)))
     /\ cmd_seq' = Len(q) % SeqMod
  /\ rx' \in {rx, <<>>} /\ timer' = FALSE
  /\ wanted' = config_load
  /\ UNCHANGED <<uci, power, polls, calls, saves, abandoned, misread>>

Next ==
  \/ Daemon \/ Mcu \/ Lose \/ Save \/ Restart
  \/ state_timeout_cb \/ ubus_poe_reload_cb \/ ubus_poe_sendframe_cb
  \/ \E p \in Ports, on \in BOOLEAN : ubus_poe_manage_cb(p, on)

Spec == Init /\ [][Next]_vars

(* uloop runs what is ready, and the MCU answers every frame that reaches it *)
FairSpec == Spec /\ WF_vars(Daemon) /\ WF_vars(Mcu)

-----------------------------------------------------------------------------
(* Properties *)

Frames  == [body : Commands, seq : 0 .. SeqMod - 1]
Replies == [kind : {"ok", "bad", "f0"}, frame : Frames]
Cmds    == [body : Commands, seq : 0 .. SeqMod - 1, num_retries : 0 .. MaxRetries, sent : Nat]

(* The queue holds commands, the line frames; no command is retried more than *)
(* MAX_RETRIES times.                                                         *)
TypeOK ==
  /\ cmd_pending \in Seq(Cmds) /\ cmd_seq \in 0 .. SeqMod - 1 /\ timer \in BOOLEAN
  /\ tx \in Seq(Frames) /\ rx \in Seq(Replies)
  /\ enable \in [Ports -> BOOLEAN] /\ uci \in [Ports -> BOOLEAN]
  /\ power \in [Ports -> BOOLEAN] /\ wanted \in [Ports -> BOOLEAN]
  /\ abandoned \subseteq Ports /\ misread \in BOOLEAN
  /\ polls \in 0 .. MaxPolls /\ calls \in 0 .. MaxCalls /\ saves \in 0 .. MaxSaves
  /\ restarts \in 0 .. MaxRestarts

(* One frame at a time: what is on the line, in either direction, is a single *)
(* frame of the command at the head of the queue; nothing is on the line      *)
(* while the daemon waits for the MCU to recover; so an intact answer is      *)
(* never taken for that of another command.                                   *)
OneInFlight ==
  restarts = 0 =>
    /\ Len(tx) + Len(rx) <= 1
    /\ tx # <<>> => cmd_pending # <<>> /\ Head(tx) = Frame(Head(cmd_pending))
    /\ rx # <<>> => cmd_pending # <<>> /\ Head(rx).frame = Frame(Head(cmd_pending))
    /\ timer => tx = <<>> /\ rx = <<>> /\ cmd_pending # <<>>
    /\ ~misread

(* A command that waits behind the head has neither been written nor rejected; *)
(* the head has been written once more often than it was rejected, or, while   *)
(* the timer runs, as often: nothing is written twice without a rejection and  *)
(* nothing waits for an answer without having been written, also after a       *)
(* restart has shifted the answers.                                            *)
Counted(q, pending) ==
  /\ q # <<>> => q[1].sent = q[1].num_retries + (IF pending THEN 0 ELSE 1)
  /\ \A i \in 2 .. Len(q) : q[i].sent = 0 /\ q[i].num_retries = 0
SendsCounted == Counted(cmd_pending, timer)

(* A command is written to the MCU at most MAX_RETRIES + 1 times, and one that *)
(* waits behind the head has not been written at all.                          *)
SendBound ==
  \A i \in 1 .. Len(cmd_pending) :
    /\ cmd_pending[i].sent <= MaxRetries + 1
    /\ (i > 1 => cmd_pending[i].sent = 0)

(* When all is quiet the MCU has every port as the last manage, reload or     *)
(* start of the daemon asked, but for ports whose command was given up or     *)
(* lost on the line: answers shifted by a restart hide no other failure.      *)
SettledAsAsked ==
  (cmd_pending = <<>> /\ tx = <<>> /\ rx = <<>>)
     => \A p \in Ports \ abandoned : power[p] = wanted[p]

(* Every command leaves the queue: with an MCU that answers, the queue runs   *)
(* empty again after each burst, rejections and damaged answers included.     *)
QueueDrains == []<>(cmd_pending = <<>>)

(* The commands of a queue, or of the frames on the line *)
Bodies(q) == [i \in 1 .. Len(q) |-> q[i].body]

(* The commands still to come out of the queue once its head is done with *)
Rest(q) == IF q = <<>> THEN <<>> ELSE Tail(q)

(* The head of the queue has been rejected and will be written again, or given up *)
Rejected == timer \/ (rx # <<>> /\ Head(rx).kind = "f0")

(* What the MCU will be told, in this order, if nothing more is lost or given *)
(* up: the frames on the line, then the queue behind its head, or the whole   *)
(* queue while its head has been rejected.                                    *)
Todo == Bodies(tx) \o (IF Rejected THEN Bodies(cmd_pending) ELSE Rest(Bodies(cmd_pending)))

(* The queue, the retries, the line with its losses and the restarts          *)
(* implement the order and at-most-once promise of PoeFifo: no answer, late,  *)
(* damaged, lost or shifted by a restart, makes the daemon skip a command or  *)
(* write one again that was executed.                                         *)
Fifo == INSTANCE PoeFifo
          WITH queue <- Todo, PowerUps <- [Ports -> BOOLEAN],
               Setups <- {poe_initial_setup(cfg) : cfg \in [Ports -> BOOLEAN]}
ImplementsFifo == Fifo!Spec
=============================================================================
