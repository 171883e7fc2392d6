-------------------------- MODULE RealtekPoeProofs --------------------------
(***************************************************************************)
(* Proofs about RealtekPoe, for every number of ports, retries and calls.  *)
(***************************************************************************)
EXTENDS RealtekPoe, FiniteSetTheorems, TLAPS

-----------------------------------------------------------------------------
(* The bursts of commands *)

(* An enable command names a port and a state. *)
LEMMA CommandFields ==
  ASSUME NEW c \in Commands, c.op = "enable"
  PROVE  c.port \in Ports /\ c.on \in BOOLEAN
<1>1. PICK p \in Ports, on \in BOOLEAN : c = Enable(p, on)
  BY DEF Commands, Setting, Query
<1>2. c.port = p /\ c.on = on
  BY <1>1 DEF Enable
<1>3. QED
  BY <1>2

(* A burst made of one command is a sequence of commands. *)
LEMMA RepeatType ==
  ASSUME NEW c \in Commands, NEW n \in Nat
  PROVE  Repeat(c, n) \in Seq(Commands) /\ Len(Repeat(c, n)) = n
BY DEF Repeat

(* Settings and queries are commands. *)
LEMMA PlainCommands == Setting \in Commands /\ Query \in Commands
BY DEF Commands

(* poet_setup closes a finite number of groups. *)
LEMMA GroupsType ==
  ASSUME NEW cfg \in [Ports -> BOOLEAN]
  PROVE  Groups(cfg) \in Nat
<1>1. IsFiniteSet(Ports)
  BY ConstantsAssumption, FS_Interval DEF Ports
<1>2. GroupEnds(cfg) \subseteq Ports
  BY DEF GroupEnds
<1>3. IsFiniteSet(GroupEnds(cfg))
  BY <1>1, <1>2, FS_Subset
<1>4. QED
  BY <1>3, FS_CardinalityType DEF Groups

(* What poe_port_setup queues is a sequence of commands ... *)
LEMMA PortSetupType ==
  ASSUME NEW cfg \in [Ports -> BOOLEAN]
  PROVE  poe_port_setup(cfg) \in Seq(Commands)
<1>1. 3 * Groups(cfg) \in Nat
  BY GroupsType
<1>2. poet_setup(cfg) \in Seq(Commands)
  BY <1>1, RepeatType, PlainCommands DEF poet_setup
<1>3. [i \in Ports |-> Enable(i, cfg[i])] \in Seq(Commands)
  <2>1. \A i \in 1 .. NumPorts : Enable(i, cfg[i]) \in Commands
    BY DEF Commands, Ports
  <2>2. QED
    BY <2>1, ConstantsAssumption DEF Ports
<1>4. QED
  BY <1>2, <1>3 DEF poe_port_setup

(* ... so is what poe_initial_setup queues, which is never nothing ... *)
LEMMA InitialSetupType ==
  ASSUME NEW cfg \in [Ports -> BOOLEAN]
  PROVE  poe_initial_setup(cfg) \in Seq(Commands) /\ poe_initial_setup(cfg) # <<>>
<1>1. <<Query>> \in Seq(Commands) /\ Len(<<Query>>) = 1
  BY PlainCommands
<1>2. Repeat(Setting, 3) \in Seq(Commands)
  BY RepeatType, PlainCommands
<1>3. poe_port_setup(cfg) \in Seq(Commands)
  BY PortSetupType
<1>4. <<Query>> \o Repeat(Setting, 3) \in Seq(Commands) /\ Len(<<Query>> \o Repeat(Setting, 3)) >= 1
  BY <1>1, <1>2
<1>5. QED
  BY <1>3, <1>4 DEF poe_initial_setup

(* ... and the queries of state_timeout_cb. *)
LEMMA StateQueriesType == StateQueries \in Seq(Commands)
<1>1. 1 + (NumPorts + 3) \div 4 + 3 * NumPorts \in Nat
  BY ConstantsAssumption
<1>2. QED
  BY <1>1, RepeatType, PlainCommands DEF StateQueries

-----------------------------------------------------------------------------
(* The queue *)

(* The queue as it is before its head is written: nobody has more writes than *)
(* rejections.                                                                *)
Waiting(q) ==
  /\ q # <<>> => q[1].sent = q[1].num_retries
  /\ \A i \in 2 .. Len(q) : q[i].sent = 0 /\ q[i].num_retries = 0

(* The frame of a command carries its body and number. *)
LEMMA FrameType ==
  ASSUME NEW cmd \in Cmds
  PROVE  Frame(cmd) \in Frames
BY DEF Cmds, Frames, Frame

(* New commands are numbered from the last number on and have not been sent. *)
LEMMA NewCmdsType ==
  ASSUME NEW cs \in Seq(Commands), NEW s \in Nat
  PROVE  /\ NewCmds(cs, s) \in Seq(Cmds)
         /\ Len(NewCmds(cs, s)) = Len(cs)
         /\ \A i \in 1 .. Len(cs) : /\ NewCmds(cs, s)[i].sent = 0
                                   /\ NewCmds(cs, s)[i].num_retries = 0
<1>1. \A i \in 1 .. Len(cs) :
        [body |-> cs[i], seq |-> (s + i) % SeqMod, num_retries |-> 0, sent |-> 0] \in Cmds
  <2>1. TAKE i \in 1 .. Len(cs)
  <2>2. cs[i] \in Commands
    OBVIOUS
  <2>3. (s + i) % SeqMod \in 0 .. SeqMod - 1
    BY ConstantsAssumption
  <2>4. 0 \in 0 .. MaxRetries
    BY ConstantsAssumption
  <2>5. QED
    BY <2>2, <2>3, <2>4 DEF Cmds
<1>2. QED
  BY <1>1 DEF NewCmds

(* A command keeps its frame through writes and rejections. *)
LEMMA CmdType ==
  ASSUME NEW cmd \in Cmds, NEW r \in 0 .. MaxRetries, NEW w \in Nat
  PROVE  /\ Cmd(cmd, r, w) \in Cmds
         /\ Cmd(cmd, r, w).num_retries = r /\ Cmd(cmd, r, w).sent = w
         /\ Frame(Cmd(cmd, r, w)) = Frame(cmd)
BY DEF Cmds, Cmd, Frame

(* poe_cmd_send touches the head only. *)
LEMMA WrittenType ==
  ASSUME NEW q \in Seq(Cmds), q # <<>>, Waiting(q)
  PROVE  /\ Written(q) \in Seq(Cmds) /\ Len(Written(q)) = Len(q)
         /\ \A i \in 1 .. Len(q) : Frame(Written(q)[i]) = Frame(q[i])
         /\ Counted(Written(q), FALSE)
<1>1. Len(q) \in Nat /\ Len(q) >= 1 /\ q[1] \in Cmds /\ Head(q) = q[1]
  OBVIOUS
<1>2. q[1].num_retries \in 0 .. MaxRetries /\ q[1].sent \in Nat /\ q[1].sent + 1 \in Nat
  BY <1>1 DEF Cmds
<1>3. PICK c : /\ c = Cmd(q[1], q[1].num_retries, q[1].sent + 1)
               /\ c \in Cmds /\ c.num_retries = q[1].num_retries /\ c.sent = q[1].sent + 1
               /\ Frame(c) = Frame(q[1])
  <2>1. \A cmd \in Cmds : \E c :
          /\ c = Cmd(cmd, cmd.num_retries, cmd.sent + 1)
          /\ c \in Cmds /\ c.num_retries = cmd.num_retries /\ c.sent = cmd.sent + 1
          /\ Frame(c) = Frame(cmd)
    <3>1. TAKE cmd \in Cmds
    <3>2. cmd.num_retries \in 0 .. MaxRetries /\ cmd.sent + 1 \in Nat
      BY DEF Cmds
    <3>3. WITNESS Cmd(cmd, cmd.num_retries, cmd.sent + 1)
    <3>4. QED
      BY <3>2, CmdType
  <2>2. QED
    BY <1>1, <2>1
<1>4. Written(q) = <<c>> \o Tail(q)
  BY <1>1, <1>3 DEF Written
<1>5. /\ Written(q) \in Seq(Cmds) /\ Len(Written(q)) = Len(q) /\ Written(q)[1] = c
      /\ \A i \in 2 .. Len(q) : Written(q)[i] = q[i]
  <2>1. <<c>> \in Seq(Cmds) /\ Tail(q) \in Seq(Cmds) /\ Len(Tail(q)) = Len(q) - 1
    BY <1>1, <1>3
  <2>2. QED
    BY <1>1, <1>4, <2>1
<1>6. \A i \in 1 .. Len(q) : Frame(Written(q)[i]) = Frame(q[i])
  BY <1>1, <1>3, <1>5
<1>7. Counted(Written(q), FALSE)
  BY <1>1, <1>2, <1>3, <1>5 DEF Counted, Waiting
<1>8. QED
  BY <1>5, <1>6, <1>7

(* poe_cmd_next keeps the types and the count, and writes the head unless the *)
(* queue is empty or the timer is pending.                                    *)
LEMMA NextCmd ==
  ASSUME NEW q \in Seq(Cmds), NEW pending \in BOOLEAN, tx \in Seq(Frames),
         Waiting(q), poe_cmd_next(q, pending)
  PROVE  /\ cmd_pending' \in Seq(Cmds) /\ tx' \in Seq(Frames)
         /\ Counted(cmd_pending', pending)
         /\ Len(cmd_pending') = Len(q)
         /\ \A i \in 1 .. Len(q) : Frame(cmd_pending'[i]) = Frame(q[i])
         /\ tx' = IF q = <<>> \/ pending THEN tx ELSE Append(tx, Frame(q[1]))
<1>1. CASE q = <<>> \/ pending
  <2>1. cmd_pending' = q /\ tx' = tx
    BY <1>1 DEF poe_cmd_next
  <2>2. Counted(q, pending)
    <3>1. CASE q = <<>>
      BY <3>1 DEF Counted
    <3>2. CASE q # <<>> /\ pending
      <4>1. q[1] \in Cmds
        BY <3>2
      <4>2. q[1].num_retries \in Nat
        BY <4>1 DEF Cmds
      <4>3. QED
        BY <3>2, <4>2 DEF Waiting, Counted
    <3>3. QED
      BY <1>1, <3>1, <3>2
  <2>3. QED
    BY <1>1, <2>1, <2>2
<1>2. CASE ~(q = <<>> \/ pending)
  <2>1. q[1] \in Cmds /\ Head(q) = q[1]
    BY <1>2
  <2>2. cmd_pending' = Written(q) /\ tx' = Append(tx, Frame(q[1]))
    BY <1>2, <2>1 DEF poe_cmd_next
  <2>3. tx' \in Seq(Frames)
    BY <2>1, <2>2, FrameType
  <2>4. pending = FALSE
    BY <1>2
  <2>5. QED
    BY <1>2, <2>2, <2>3, <2>4, WrittenType
<1>3. QED
  BY <1>1, <1>2

(* A burst of poe_cmd_queue leaves the commands that wait as they are; it puts *)
(* a frame on the line only if none waited.                                    *)
LEMMA QueueCmds ==
  ASSUME TypeOK, SendsCounted, NEW cs \in Seq(Commands), poe_cmd_queue(cs)
  PROVE  /\ cmd_pending' \in Seq(Cmds) /\ tx' \in Seq(Frames) /\ cmd_seq' \in 0 .. SeqMod - 1
         /\ timer' = timer /\ rx' = rx
         /\ SendsCounted'
         /\ Len(cmd_pending') >= Len(cmd_pending)
         /\ cmd_pending # <<>> =>
              tx' = tx /\ \A i \in 1 .. Len(cmd_pending) : cmd_pending'[i] = cmd_pending[i]
         /\ cmd_pending = <<>> =>
              tx' = IF cmd_pending' = <<>> \/ timer THEN tx
                    ELSE Append(tx, Frame(cmd_pending'[1]))
<1> DEFINE new == NewCmds(cs, cmd_seq)
<1> DEFINE q == cmd_pending \o new
<1>1. cmd_pending \in Seq(Cmds) /\ tx \in Seq(Frames) /\ cmd_seq \in Nat /\ timer \in BOOLEAN
  BY DEF TypeOK
<1>2. /\ new \in Seq(Cmds) /\ Len(new) = Len(cs)
      /\ \A i \in 1 .. Len(new) : new[i].sent = 0 /\ new[i].num_retries = 0
  BY <1>1, NewCmdsType
<1>3. cmd_seq' \in 0 .. SeqMod - 1 /\ timer' = timer /\ rx' = rx
  BY <1>1, ConstantsAssumption DEF poe_cmd_queue
<1>4. IF cmd_pending = <<>> THEN poe_cmd_next(q, timer) ELSE cmd_pending' = q /\ tx' = tx
  BY DEF poe_cmd_queue, ListAddTail, WasEmpty
<1> HIDE DEF new
<1>5. /\ q \in Seq(Cmds) /\ Len(q) = Len(cmd_pending) + Len(new)
      /\ \A i \in 1 .. Len(cmd_pending) : q[i] = cmd_pending[i]
      /\ \A i \in Len(cmd_pending) + 1 .. Len(q) : q[i] = new[i - Len(cmd_pending)]
  BY <1>1, <1>2
<1> HIDE DEF q
<1>6. CASE cmd_pending = <<>>
  <2>1. Len(cmd_pending) = 0 /\ Len(q) \in Nat /\ Len(new) \in Nat
    BY <1>2, <1>5, <1>6
  <2>2. \A i \in 1 .. Len(q) : q[i].sent = 0 /\ q[i].num_retries = 0
    BY <1>2, <1>5, <2>1
  <2>3. Waiting(q)
    BY <1>5, <2>1, <2>2 DEF Waiting
  <2>4. poe_cmd_next(q, timer)
    BY <1>4, <1>6
  <2>5. /\ cmd_pending' \in Seq(Cmds) /\ tx' \in Seq(Frames)
        /\ Counted(cmd_pending', timer) /\ Len(cmd_pending') = Len(q)
        /\ \A i \in 1 .. Len(q) : Frame(cmd_pending'[i]) = Frame(q[i])
        /\ tx' = IF q = <<>> \/ timer THEN tx ELSE Append(tx, Frame(q[1]))
    BY <1>1, <1>5, <2>3, <2>4, NextCmd
  <2>6. (cmd_pending' = <<>>) <=> (q = <<>>)
    BY <1>5, <2>5
  <2>7. q # <<>> => Frame(cmd_pending'[1]) = Frame(q[1])
    BY <1>5, <2>1, <2>5
  <2>8. SendsCounted'
    BY <1>3, <2>5 DEF SendsCounted
  <2>9. QED
    BY <1>3, <1>6, <2>1, <2>5, <2>6, <2>7, <2>8
<1>7. CASE cmd_pending # <<>>
  <2>1. cmd_pending' = q /\ tx' = tx
    BY <1>4, <1>7
  <2>2. Len(cmd_pending) \in Nat /\ Len(cmd_pending) >= 1 /\ Len(new) \in Nat
    BY <1>1, <1>2, <1>7
  <2>3. q[1] = cmd_pending[1] /\ q # <<>>
    BY <1>5, <2>2
  <2>4. \A i \in 2 .. Len(q) : q[i].sent = 0 /\ q[i].num_retries = 0
    <3>1. TAKE i \in 2 .. Len(q)
    <3>2. CASE i <= Len(cmd_pending)
      BY <1>5, <2>2, <3>2 DEF SendsCounted, Counted
    <3>3. CASE i > Len(cmd_pending)
      BY <1>2, <1>5, <2>2, <3>3
    <3>4. QED
      BY <2>2, <3>2, <3>3
  <2>5. SendsCounted'
    BY <1>3, <1>7, <2>1, <2>3, <2>4 DEF SendsCounted, Counted
  <2>6. QED
    BY <1>1, <1>3, <1>5, <1>7, <2>1, <2>2, <2>5
<1>8. QED
  BY <1>6, <1>7

(* The burst of the start: written, counted, and one frame for its head. *)
LEMMA StartCmds ==
  ASSUME NEW cfg \in [Ports -> BOOLEAN]
  PROVE  LET q == NewCmds(poe_initial_setup(cfg), 0) IN
         /\ Written(q) \in Seq(Cmds) /\ Written(q) # <<>> /\ Counted(Written(q), FALSE)
         /\ Frame(Head(q)) \in Frames /\ Frame(Head(q)) = Frame(Written(q)[1])
         /\ Len(q) % SeqMod \in 0 .. SeqMod - 1
<1> DEFINE q == NewCmds(poe_initial_setup(cfg), 0)
<1>1. /\ q \in Seq(Cmds) /\ Len(q) = Len(poe_initial_setup(cfg))
      /\ \A i \in 1 .. Len(q) : q[i].sent = 0 /\ q[i].num_retries = 0
  BY InitialSetupType, NewCmdsType
<1>2. Len(q) \in Nat /\ Len(q) >= 1 /\ q # <<>>
  BY <1>1, InitialSetupType
<1> HIDE DEF q
<1>3. Waiting(q)
  BY <1>1, <1>2 DEF Waiting
<1>4. /\ Written(q) \in Seq(Cmds) /\ Len(Written(q)) = Len(q) /\ Counted(Written(q), FALSE)
      /\ \A i \in 1 .. Len(q) : Frame(Written(q)[i]) = Frame(q[i])
  BY <1>1, <1>2, <1>3, WrittenType
<1>5. Head(q) = q[1] /\ q[1] \in Cmds
  BY <1>1, <1>2
<1>6. Frame(Head(q)) \in Frames /\ Frame(Head(q)) = Frame(Written(q)[1])
  BY <1>2, <1>4, <1>5, FrameType
<1>7. Len(q) % SeqMod \in 0 .. SeqMod - 1
  BY <1>2, ConstantsAssumption
<1>8. Written(q) # <<>>
  BY <1>2, <1>4
<1>9. QED
  BY <1>4, <1>6, <1>7, <1>8 DEF q

-----------------------------------------------------------------------------
(* Answers *)

(* What an answer does to the queue: its head stays, with the timer set ... *)
Kept ==
  /\ Len(cmd_pending') = Len(cmd_pending)
  /\ \A i \in 1 .. Len(cmd_pending) : Frame(cmd_pending'[i]) = Frame(cmd_pending[i])
  /\ timer' /\ tx' = tx

(* ... or is done with and the next command written, if it may be. *)
Dropped ==
  /\ Len(cmd_pending') = Len(cmd_pending) - 1
  /\ \A i \in 1 .. Len(cmd_pending') : Frame(cmd_pending'[i]) = Frame(cmd_pending[i + 1])
  /\ timer' = timer
  /\ tx' = IF cmd_pending' = <<>> \/ timer THEN tx ELSE Append(tx, Frame(cmd_pending'[1]))

(* Without its head the queue waits. *)
LEMMA RestWaits ==
  ASSUME TypeOK, SendsCounted, cmd_pending # <<>>
  PROVE  /\ Head(cmd_pending) = cmd_pending[1] /\ cmd_pending[1] \in Cmds
         /\ Len(cmd_pending) \in Nat /\ Len(cmd_pending) >= 1
         /\ Tail(cmd_pending) \in Seq(Cmds) /\ Len(Tail(cmd_pending)) = Len(cmd_pending) - 1
         /\ \A i \in 1 .. Len(Tail(cmd_pending)) :
              /\ Tail(cmd_pending)[i] = cmd_pending[i + 1]
              /\ Tail(cmd_pending)[i].sent = 0 /\ Tail(cmd_pending)[i].num_retries = 0
         /\ Waiting(Tail(cmd_pending))
<1>1. cmd_pending \in Seq(Cmds)
  BY DEF TypeOK
<1>2. /\ Head(cmd_pending) = cmd_pending[1] /\ cmd_pending[1] \in Cmds
      /\ Len(cmd_pending) \in Nat /\ Len(cmd_pending) >= 1
      /\ Tail(cmd_pending) \in Seq(Cmds) /\ Len(Tail(cmd_pending)) = Len(cmd_pending) - 1
      /\ \A i \in 1 .. Len(Tail(cmd_pending)) : Tail(cmd_pending)[i] = cmd_pending[i + 1]
  BY <1>1
<1>3. \A i \in 1 .. Len(Tail(cmd_pending)) :
        /\ Tail(cmd_pending)[i].sent = 0 /\ Tail(cmd_pending)[i].num_retries = 0
  BY <1>2 DEF SendsCounted, Counted
<1>4. Waiting(Tail(cmd_pending))
  <2> DEFINE t == Tail(cmd_pending)
  <2>1. /\ t \in Seq(Cmds)
        /\ \A i \in 1 .. Len(t) : t[i].sent = 0 /\ t[i].num_retries = 0
    BY <1>2, <1>3
  <2> HIDE DEF t
  <2>2. t # <<>> => 1 \in 1 .. Len(t)
    BY <2>1
  <2>3. Waiting(t)
    BY <2>1, <2>2 DEF Waiting
  <2>4. QED
    BY <2>3 DEF t
<1>5. QED
  BY <1>2, <1>3, <1>4

(* The done-with case, whatever led to it. *)
LEMMA DropHead ==
  ASSUME TypeOK, SendsCounted, cmd_pending # <<>>,
         poe_cmd_next(Tail(cmd_pending), timer), timer' = timer
  PROVE  cmd_pending' \in Seq(Cmds) /\ tx' \in Seq(Frames) /\ SendsCounted' /\ Dropped
<1>1. tx \in Seq(Frames) /\ timer \in BOOLEAN
  BY DEF TypeOK
<1> DEFINE q == Tail(cmd_pending)
<1>2. /\ q \in Seq(Cmds) /\ Len(q) = Len(cmd_pending) - 1 /\ Waiting(q) /\ Len(q) \in Nat
      /\ \A i \in 1 .. Len(q) : q[i] = cmd_pending[i + 1]
  BY RestWaits
<1>3. poe_cmd_next(q, timer)
  OBVIOUS
<1> HIDE DEF q
<1>4. /\ cmd_pending' \in Seq(Cmds) /\ tx' \in Seq(Frames)
      /\ Counted(cmd_pending', timer) /\ Len(cmd_pending') = Len(q)
      /\ \A i \in 1 .. Len(q) : Frame(cmd_pending'[i]) = Frame(q[i])
      /\ tx' = IF q = <<>> \/ timer THEN tx ELSE Append(tx, Frame(q[1]))
  BY <1>1, <1>2, <1>3, NextCmd
<1>5. (cmd_pending' = <<>>) <=> (q = <<>>)
  BY <1>2, <1>4
<1>6. q # <<>> => Frame(cmd_pending'[1]) = Frame(q[1])
  BY <1>2, <1>4
<1>7. QED
  BY <1>2, <1>4, <1>5, <1>6 DEF Dropped, SendsCounted

(* The head is put back with as many rejections as writes. *)
LEMMA KeepHead ==
  ASSUME TypeOK, SendsCounted, cmd_pending # <<>>, NEW c \in Cmds,
         c.sent = c.num_retries, Frame(c) = Frame(cmd_pending[1]),
         poe_cmd_next(<<c>> \o Tail(cmd_pending), TRUE), timer'
  PROVE  cmd_pending' \in Seq(Cmds) /\ tx' \in Seq(Frames) /\ SendsCounted' /\ Kept
<1>1. tx \in Seq(Frames)
  BY DEF TypeOK
<1>2. /\ Tail(cmd_pending) \in Seq(Cmds) /\ Len(Tail(cmd_pending)) = Len(cmd_pending) - 1
      /\ Len(cmd_pending) \in Nat /\ Len(cmd_pending) >= 1
      /\ \A i \in 1 .. Len(Tail(cmd_pending)) :
           /\ Tail(cmd_pending)[i] = cmd_pending[i + 1]
           /\ Tail(cmd_pending)[i].sent = 0 /\ Tail(cmd_pending)[i].num_retries = 0
  BY RestWaits
<1> DEFINE t == Tail(cmd_pending)
<1> DEFINE q == <<c>> \o t
<1> HIDE DEF t
<1>3. /\ q \in Seq(Cmds) /\ Len(q) = Len(cmd_pending) /\ q[1] = c
      /\ \A i \in 2 .. Len(q) : q[i] = t[i - 1]
  BY <1>2 DEF t
<1>4. \A i \in 2 .. Len(q) : /\ q[i] = cmd_pending[i]
                             /\ q[i].sent = 0 /\ q[i].num_retries = 0
  <2>1. TAKE i \in 2 .. Len(q)
  <2>2. i - 1 \in 1 .. Len(t) /\ (i - 1) + 1 = i
    BY <1>2, <1>3 DEF t
  <2>3. QED
    BY <1>2, <1>3, <2>2 DEF t
<1>5. poe_cmd_next(q, TRUE)
  BY DEF t
<1> HIDE DEF q
<1>6. Waiting(q)
  BY <1>3, <1>4 DEF Waiting
<1>7. /\ cmd_pending' \in Seq(Cmds) /\ tx' \in Seq(Frames)
      /\ Counted(cmd_pending', TRUE) /\ Len(cmd_pending') = Len(q)
      /\ \A i \in 1 .. Len(q) : Frame(cmd_pending'[i]) = Frame(q[i])
      /\ tx' = tx
  BY <1>1, <1>3, <1>5, <1>6, NextCmd
<1>8. \A i \in 1 .. Len(cmd_pending) : Frame(cmd_pending'[i]) = Frame(cmd_pending[i])
  BY <1>2, <1>3, <1>4, <1>7
<1>9. SendsCounted'
  BY <1>7 DEF SendsCounted, Counted
<1>10. QED
  BY <1>3, <1>7, <1>8, <1>9 DEF Kept

(* A rejection is counted. *)
LEMMA RejectedCmd ==
  ASSUME NEW cmd \in Cmds, cmd.num_retries + 1 \in 0 .. MaxRetries,
         cmd.sent = cmd.num_retries + 1
  PROVE  \E c \in Cmds : /\ c = Cmd(cmd, cmd.num_retries + 1, cmd.sent)
                         /\ c.sent = c.num_retries /\ Frame(c) = Frame(cmd)
<1>1. cmd.sent \in Nat
  BY DEF Cmds
<1>2. Cmd(cmd, cmd.num_retries + 1, cmd.sent) \in Cmds
  BY <1>1, CmdType
<1>3. WITNESS Cmd(cmd, cmd.num_retries + 1, cmd.sent) \in Cmds
<1>4. QED
  BY <1>1, CmdType

(* An answer taken from the line: rejected commands are kept or given up, the *)
(* others are done with.                                                      *)
LEMMA ReplyCmds ==
  ASSUME TypeOK, SendsCounted, poe_stream_msg_cb
  PROVE  /\ cmd_pending' \in Seq(Cmds) /\ tx' \in Seq(Frames) /\ timer' \in BOOLEAN
         /\ abandoned' \subseteq Ports
         /\ SendsCounted'
         /\ cmd_pending = <<>> => cmd_pending' = <<>> /\ tx' = tx /\ timer' = timer
         /\ cmd_pending # <<>> => (Kept /\ Head(rx).kind = "f0") \/ Dropped
<1>1. timer \in BOOLEAN /\ abandoned \subseteq Ports
  BY DEF TypeOK
<1>2. CASE cmd_pending = <<>>
  <2>1. cmd_pending' = cmd_pending /\ tx' = tx /\ timer' = timer /\ abandoned' = abandoned
    BY <1>2 DEF poe_stream_msg_cb
  <2>2. QED
    BY <1>2, <2>1 DEF TypeOK, SendsCounted, Counted
<1>3. CASE cmd_pending # <<>>
  <2> DEFINE cmd == cmd_pending[1]
  <2>1. /\ Head(cmd_pending) = cmd /\ cmd \in Cmds
    BY <1>3, RestWaits
  <2>2. cmd.num_retries \in 0 .. MaxRetries /\ cmd.sent \in Nat
    BY <2>1 DEF Cmds
  <2>3. cmd.sent = cmd.num_retries + (IF timer THEN 0 ELSE 1)
    BY <1>3 DEF SendsCounted, Counted
  <2>4. IF Head(rx).kind = "f0" THEN handle_poe_f0_reply(cmd, Tail(cmd_pending))
        ELSE poe_cmd_next(Tail(cmd_pending), timer) /\ UNCHANGED <<timer, abandoned>>
    BY <1>3, <2>1 DEF poe_stream_msg_cb
  <2>5. CASE Head(rx).kind # "f0"
    BY <1>1, <1>3, <2>4, <2>5, DropHead
  <2>6. CASE Head(rx).kind = "f0" /\ timer
    <3>1. poe_cmd_next(<<cmd>> \o Tail(cmd_pending), TRUE) /\ timer' = timer /\ abandoned' = abandoned
      BY <2>4, <2>6 DEF handle_poe_f0_reply, ListAdd
    <3>2. cmd.sent = cmd.num_retries
      BY <2>2, <2>3, <2>6
    <3>3. cmd_pending' \in Seq(Cmds) /\ tx' \in Seq(Frames) /\ SendsCounted' /\ Kept
      BY <1>3, <2>1, <2>6, <3>1, <3>2, KeepHead
    <3>4. QED
      BY <1>1, <1>3, <2>6, <3>1, <3>3
  <2>7. CASE Head(rx).kind = "f0" /\ ~timer /\ RetriesLeft(cmd)
    <3>1. cmd.num_retries + 1 \in 0 .. MaxRetries /\ cmd.sent = cmd.num_retries + 1
      BY <2>2, <2>3, <2>7, ConstantsAssumption DEF RetriesLeft
    <3>2. PICK c \in Cmds : /\ c = Cmd(cmd, cmd.num_retries + 1, cmd.sent)
                           /\ c.sent = c.num_retries /\ Frame(c) = Frame(cmd)
      BY <2>1, <3>1, RejectedCmd
    <3>3. poe_cmd_next(<<c>> \o Tail(cmd_pending), TRUE) /\ timer' = TRUE /\ abandoned' = abandoned
      BY <2>4, <2>7, <3>2 DEF handle_poe_f0_reply, ListAdd
    <3>4. cmd_pending' \in Seq(Cmds) /\ tx' \in Seq(Frames) /\ SendsCounted' /\ Kept
      BY <1>3, <3>2, <3>3, KeepHead
    <3>5. QED
      BY <1>1, <1>3, <2>7, <3>3, <3>4
  <2>8. CASE Head(rx).kind = "f0" /\ ~timer /\ ~RetriesLeft(cmd)
    <3>1. /\ poe_cmd_next(Tail(cmd_pending), FALSE) /\ timer' = timer
          /\ abandoned' = abandoned \cup (IF cmd.body.op = "enable" THEN {cmd.body.port} ELSE {})
      BY <2>4, <2>8 DEF handle_poe_f0_reply, EnablePort
    <3>2. timer = FALSE
      BY <1>1, <2>8
    <3>3. cmd_pending' \in Seq(Cmds) /\ tx' \in Seq(Frames) /\ SendsCounted' /\ Dropped
      BY <1>3, <3>1, <3>2, DropHead
    <3>4. cmd.body.op = "enable" => cmd.body.port \in Ports
      <4>1. cmd.body \in Commands
        BY <2>1 DEF Cmds
      <4>2. QED
        BY <4>1, CommandFields
    <3>5. abandoned' \subseteq Ports
      BY <1>1, <3>1, <3>4
    <3>6. QED
      BY <1>1, <1>3, <3>1, <3>3, <3>5
  <2>9. QED
    BY <1>1, <2>5, <2>6, <2>7, <2>8
<1>4. QED
  BY <1>2, <1>3

-----------------------------------------------------------------------------
(* The invariant of the queue: types and counts *)

(* main starts with both. *)
LEMMA InitCounted == Init => TypeOK /\ SendsCounted
<1> SUFFICES ASSUME Init PROVE TypeOK /\ SendsCounted
  OBVIOUS
<1> DEFINE q == NewCmds(poe_initial_setup(enable), 0)
<1>1. enable \in [Ports -> BOOLEAN] /\ uci \in [Ports -> BOOLEAN] /\ power \in [Ports -> BOOLEAN]
  BY DEF Init, config_load
<1>2. /\ Written(q) \in Seq(Cmds) /\ Counted(Written(q), FALSE)
      /\ Frame(Head(q)) \in Frames /\ Len(q) % SeqMod \in 0 .. SeqMod - 1
  BY <1>1, StartCmds
<1>3. cmd_pending = Written(q) /\ tx = <<Frame(Head(q))>> /\ cmd_seq = Len(q) % SeqMod
  BY DEF Init
<1> HIDE DEF q
<1>4. /\ rx = <<>> /\ timer = FALSE /\ polls = 0 /\ calls = 0 /\ saves = 0 /\ restarts = 0
      /\ wanted = enable /\ abandoned = {} /\ misread = FALSE
  BY DEF Init
<1>5. tx \in Seq(Frames) /\ rx \in Seq(Replies)
  BY <1>2, <1>3, <1>4
<1>6. TypeOK
  <2>1. /\ polls \in 0 .. MaxPolls /\ calls \in 0 .. MaxCalls /\ saves \in 0 .. MaxSaves
        /\ restarts \in 0 .. MaxRestarts
    BY <1>4, ConstantsAssumption
  <2>2. timer \in BOOLEAN /\ misread \in BOOLEAN /\ abandoned \subseteq Ports
    BY <1>4
  <2>3. cmd_pending \in Seq(Cmds) /\ cmd_seq \in 0 .. SeqMod - 1
    BY <1>2, <1>3
  <2>4. wanted \in [Ports -> BOOLEAN]
    BY <1>1, <1>4
  <2>5. QED
    BY <1>1, <1>5, <2>1, <2>2, <2>3, <2>4 DEF TypeOK
<1>7. SendsCounted
  BY <1>2, <1>3, <1>4 DEF SendsCounted
<1>8. QED
  BY <1>6, <1>7

(* A burst of a timer or of a ubus method keeps both. *)
LEMMA BurstCounted ==
  ASSUME TypeOK, SendsCounted,
         \/ state_timeout_cb \/ ubus_poe_reload_cb \/ ubus_poe_sendframe_cb
         \/ \E p \in Ports, on \in BOOLEAN : ubus_poe_manage_cb(p, on)
  PROVE  /\ TypeOK' /\ SendsCounted'
         /\ \E cs \in Seq(Commands) : poe_cmd_queue(cs)
         /\ UNCHANGED <<power, misread, restarts>>
<1>1. CASE state_timeout_cb
  <2>1. poe_cmd_queue(StateQueries) /\ StateQueries \in Seq(Commands)
    BY <1>1, StateQueriesType DEF state_timeout_cb
  <2>2. polls' \in 0 .. MaxPolls
    BY <1>1, ConstantsAssumption DEF TypeOK, state_timeout_cb
  <2>3. UNCHANGED <<enable, uci, power, calls, saves, restarts, wanted, abandoned, misread>>
    BY <1>1 DEF state_timeout_cb, past
  <2>4. QED
    BY <2>1, <2>2, <2>3, QueueCmds DEF TypeOK
<1>2. CASE ubus_poe_reload_cb
  <2>1. poe_cmd_queue(poe_port_setup(uci)) /\ poe_port_setup(uci) \in Seq(Commands)
    BY <1>2, PortSetupType DEF TypeOK, ubus_poe_reload_cb, config_load
  <2>2. calls' \in 0 .. MaxCalls
    BY <1>2, ConstantsAssumption DEF TypeOK, ubus_poe_reload_cb, Call
  <2>3. /\ enable' = uci /\ wanted' = uci
        /\ UNCHANGED <<uci, power, polls, saves, restarts, abandoned, misread>>
    BY <1>2 DEF ubus_poe_reload_cb, Call, config_load
  <2>4. QED
    BY <2>1, <2>2, <2>3, QueueCmds DEF TypeOK
<1>3. CASE ubus_poe_sendframe_cb
  <2>1. poe_cmd_queue(<<Query>>) /\ <<Query>> \in Seq(Commands)
    BY <1>3, PlainCommands DEF ubus_poe_sendframe_cb
  <2>2. calls' \in 0 .. MaxCalls
    BY <1>3, ConstantsAssumption DEF TypeOK, ubus_poe_sendframe_cb, Call
  <2>3. UNCHANGED <<enable, uci, power, polls, saves, restarts, wanted, abandoned, misread>>
    BY <1>3 DEF ubus_poe_sendframe_cb, Call, past
  <2>4. QED
    BY <2>1, <2>2, <2>3, QueueCmds DEF TypeOK
<1>4. CASE \E p \in Ports, on \in BOOLEAN : ubus_poe_manage_cb(p, on)
  <2>1. PICK p \in Ports, on \in BOOLEAN : ubus_poe_manage_cb(p, on)
    BY <1>4
  <2>2. Enable(p, on) \in Commands
    BY DEF Commands
  <2>3. poe_cmd_queue(<<Enable(p, on)>>) /\ <<Enable(p, on)>> \in Seq(Commands)
    BY <2>1, <2>2 DEF ubus_poe_manage_cb
  <2>4. calls' \in 0 .. MaxCalls
    BY <2>1, ConstantsAssumption DEF TypeOK, ubus_poe_manage_cb, Call
  <2>5. /\ wanted' \in [Ports -> BOOLEAN]
        /\ UNCHANGED <<enable, uci, power, polls, saves, restarts, abandoned, misread>>
    BY <2>1 DEF TypeOK, ubus_poe_manage_cb, Call
  <2>6. QED
    BY <2>3, <2>4, <2>5, QueueCmds DEF TypeOK
<1>5. QED
  BY <1>1, <1>2, <1>3, <1>4

(* So does a frame that the MCU answers or the line loses. *)
LEMMA LineCounted ==
  ASSUME TypeOK, SendsCounted, Mcu \/ Lose
  PROVE  TypeOK' /\ SendsCounted'
<1>0. tx \in Seq(Frames) /\ rx \in Seq(Replies)
  BY DEF TypeOK
<1>1. CASE McuExecute
  <2>1. tx # <<>> /\ Head(tx) \in Frames /\ Tail(tx) \in Seq(Frames)
    BY <1>0, <1>1 DEF McuExecute
  <2> DEFINE c == Head(tx).body
  <2>2. c \in Commands
    BY <2>1 DEF Frames
  <2>3. c.op = "enable" => c.port \in Ports /\ c.on \in BOOLEAN
    BY <2>2, CommandFields
  <2>4. power' = Apply(c, power)
    BY <1>1 DEF McuExecute
  <2>5. PICK k \in {"ok", "bad"} : rx' = Append(rx, [kind |-> k, frame |-> Head(tx)])
    BY <1>1 DEF McuExecute
  <2>6. [kind |-> k, frame |-> Head(tx)] \in Replies
    BY <2>1 DEF Replies
  <2>7. rx' \in Seq(Replies) /\ tx' \in Seq(Frames)
    BY <1>0, <1>1, <2>1, <2>5, <2>6 DEF McuExecute
  <2>8. power' \in [Ports -> BOOLEAN]
    BY <2>3, <2>4 DEF TypeOK, Apply
  <2>9. abandoned' \subseteq Ports
    BY <1>1 DEF TypeOK, McuExecute
  <2>10. UNCHANGED <<cmd_pending, cmd_seq, timer, enable, uci, polls, calls, saves, restarts,
                     wanted, misread>>
    BY <1>1 DEF McuExecute, bounds
  <2>11. QED
    BY <2>7, <2>8, <2>9, <2>10 DEF TypeOK, SendsCounted, Counted
<1>2. CASE McuReject
  <2>1. tx # <<>> /\ Head(tx) \in Frames /\ Tail(tx) \in Seq(Frames)
    BY <1>0, <1>2 DEF McuReject
  <2>2. [kind |-> "f0", frame |-> Head(tx)] \in Replies
    BY <2>1 DEF Replies
  <2>3. rx' \in Seq(Replies) /\ tx' \in Seq(Frames)
    BY <1>0, <1>2, <2>1, <2>2 DEF McuReject
  <2>4. QED
    BY <1>2, <2>3 DEF TypeOK, SendsCounted, Counted, McuReject, bounds, past
<1>3. CASE McuRejectDamaged
  <2>1. tx # <<>> /\ Head(tx) \in Frames /\ Tail(tx) \in Seq(Frames)
    BY <1>0, <1>3 DEF McuRejectDamaged
  <2>2. [kind |-> "bad", frame |-> Head(tx)] \in Replies
    BY <2>1 DEF Replies
  <2>3. rx' \in Seq(Replies) /\ tx' \in Seq(Frames)
    BY <1>0, <1>3, <2>1, <2>2 DEF McuRejectDamaged
  <2>4. abandoned' \subseteq Ports
    <3>1. Head(tx).body \in Commands
      BY <2>1 DEF Frames
    <3>2. EnablePort(Head(tx).body) \subseteq Ports
      BY <3>1, CommandFields DEF EnablePort
    <3>3. QED
      BY <1>3, <3>2 DEF McuRejectDamaged, TypeOK
  <2>5. QED
    BY <1>3, <2>3, <2>4 DEF TypeOK, SendsCounted, Counted, McuRejectDamaged, bounds
<1>4. CASE Lose
  <2>1. rx' \in Seq(Replies) /\ tx' \in Seq(Frames)
    <3>1. CASE tx # <<>> /\ tx' = Tail(tx) /\ rx' = rx
      BY <1>0, <3>1
    <3>2. CASE rx # <<>> /\ rx' = Tail(rx) /\ tx' = tx
      BY <1>0, <3>2
    <3>3. QED
      BY <1>4, <3>1, <3>2 DEF Lose
  <2>2. abandoned' \subseteq Ports
    <3>1. CASE tx # <<>> /\ abandoned' = abandoned \cup EnablePort(Head(tx).body)
      <4>1. Head(tx) \in Frames
        BY <1>0, <3>1
      <4>2. Head(tx).body \in Commands
        BY <4>1 DEF Frames
      <4>3. Head(tx).body.op = "enable" => Head(tx).body.port \in Ports
        BY <4>2, CommandFields
      <4>4. QED
        BY <3>1, <4>3 DEF EnablePort, TypeOK
    <3>2. CASE abandoned' = abandoned
      BY <3>2 DEF TypeOK
    <3>3. QED
      BY <1>4, <3>1, <3>2 DEF Lose
  <2>3. UNCHANGED <<cmd_pending, cmd_seq, timer, enable, uci, power, polls, calls, saves, restarts,
                    wanted, misread>>
    BY <1>4 DEF Lose, bounds
  <2>4. QED
    BY <2>1, <2>2, <2>3 DEF TypeOK, SendsCounted, Counted
<1>5. QED
  BY <1>1, <1>2, <1>3, <1>4 DEF Mcu

(* When the timer runs out the head is written, in either case it is counted. *)
LEMMA TimeoutCmds ==
  ASSUME TypeOK, SendsCounted, mcu_clear_timeout
  PROVE  /\ cmd_pending' \in Seq(Cmds) /\ tx' \in Seq(Frames) /\ SendsCounted'
         /\ Len(cmd_pending') = Len(cmd_pending)
         /\ \A i \in 1 .. Len(cmd_pending) : Frame(cmd_pending'[i]) = Frame(cmd_pending[i])
         /\ tx' = IF cmd_pending = <<>> THEN tx ELSE Append(tx, Frame(cmd_pending[1]))
<1>1. cmd_pending \in Seq(Cmds) /\ tx \in Seq(Frames)
  BY DEF TypeOK
<1>2. timer = TRUE /\ timer' = FALSE /\ poe_cmd_next(cmd_pending, FALSE)
  BY DEF TypeOK, mcu_clear_timeout
<1>3. cmd_pending # <<>> => cmd_pending[1].num_retries \in Nat
  <2>1. cmd_pending # <<>> => cmd_pending[1] \in Cmds
    BY <1>1
  <2>2. QED
    BY <2>1 DEF Cmds
<1>4. Waiting(cmd_pending)
  BY <1>2, <1>3 DEF SendsCounted, Counted, Waiting
<1>5. QED
  BY <1>1, <1>2, <1>4, NextCmd DEF SendsCounted

(* Every step keeps the types and the counts. *)
LEMMA NextCounted ==
  ASSUME TypeOK, SendsCounted, [Next]_vars
  PROVE  TypeOK' /\ SendsCounted'
<1>1. CASE poe_stream_msg_cb
  <2>1. /\ cmd_pending' \in Seq(Cmds) /\ tx' \in Seq(Frames) /\ timer' \in BOOLEAN
        /\ abandoned' \subseteq Ports /\ SendsCounted'
    BY <1>1, ReplyCmds
  <2>2. rx' \in Seq(Replies)
    <3>1. rx \in Seq(Replies) /\ rx # <<>> /\ rx' = Tail(rx)
      BY <1>1 DEF TypeOK, poe_stream_msg_cb
    <3>2. QED
      BY <3>1
  <2>3. misread' \in BOOLEAN
    BY <1>1 DEF TypeOK, poe_stream_msg_cb
  <2>4. UNCHANGED <<cmd_seq, enable, uci, power, polls, calls, saves, restarts, wanted>>
    BY <1>1 DEF poe_stream_msg_cb, bounds
  <2>5. QED
    BY <2>1, <2>2, <2>3, <2>4 DEF TypeOK
<1>2. CASE mcu_clear_timeout
  <2>1. cmd_pending' \in Seq(Cmds) /\ tx' \in Seq(Frames) /\ SendsCounted'
    BY <1>2, TimeoutCmds
  <2>2. /\ timer' = FALSE
        /\ UNCHANGED <<cmd_seq, rx, enable, uci, power, polls, calls, saves, restarts, wanted,
                       abandoned, misread>>
    BY <1>2 DEF mcu_clear_timeout, bounds, past
  <2>3. QED
    BY <2>1, <2>2 DEF TypeOK
<1>3. CASE Mcu \/ Lose
  BY <1>3, LineCounted
<1>4. CASE Save
  BY <1>4, ConstantsAssumption DEF TypeOK, SendsCounted, Counted, Save, line, past
<1>5. CASE Restart
  <2> DEFINE q == NewCmds(poe_initial_setup(uci), 0)
  <2>1. uci \in [Ports -> BOOLEAN] /\ tx \in Seq(Frames) /\ rx \in Seq(Replies)
    BY DEF TypeOK
  <2>2. /\ Written(q) \in Seq(Cmds) /\ Counted(Written(q), FALSE)
        /\ Frame(Head(q)) \in Frames /\ Len(q) % SeqMod \in 0 .. SeqMod - 1
    BY <2>1, StartCmds
  <2>3. cmd_pending' = Written(q) /\ tx' = Append(tx, Frame(Head(q))) /\ cmd_seq' = Len(q) % SeqMod
    BY <1>5 DEF Restart, config_load
  <2> HIDE DEF q
  <2>4. tx' \in Seq(Frames)
    BY <2>1, <2>2, <2>3
  <2>5. rx' \in Seq(Replies) /\ timer' = FALSE /\ enable' = uci /\ wanted' = uci
    <3>1. <<>> \in Seq(Replies)
      OBVIOUS
    <3>2. rx' = rx \/ rx' = <<>>
      BY <1>5 DEF Restart
    <3>3. timer' = FALSE /\ enable' = uci /\ wanted' = uci
      BY <1>5 DEF Restart, config_load
    <3>4. QED
      BY <2>1, <3>1, <3>2, <3>3
  <2>6. restarts' \in 0 .. MaxRestarts
    BY <1>5, ConstantsAssumption DEF TypeOK, Restart
  <2>7. UNCHANGED <<uci, power, polls, calls, saves, abandoned, misread>>
    BY <1>5 DEF Restart
  <2>8. SendsCounted'
    BY <2>2, <2>3, <2>5 DEF SendsCounted
  <2>9. QED
    BY <2>2, <2>3, <2>4, <2>5, <2>6, <2>7, <2>8 DEF TypeOK
<1>6. CASE \/ state_timeout_cb \/ ubus_poe_reload_cb \/ ubus_poe_sendframe_cb
           \/ \E p \in Ports, on \in BOOLEAN : ubus_poe_manage_cb(p, on)
  BY <1>6, BurstCounted
<1>7. CASE UNCHANGED vars
  BY <1>7 DEF TypeOK, SendsCounted, Counted, vars, line, bounds, past
<1>8. QED
  BY <1>1, <1>2, <1>3, <1>4, <1>5, <1>6, <1>7 DEF Next, Daemon

(* Every variable keeps its type; no command is retried more than MAX_RETRIES *)
(* times.                                                                     *)
THEOREM TypeCorrect == Spec => []TypeOK
<1>1. Spec => [](TypeOK /\ SendsCounted)
  BY InitCounted, NextCounted, PTL DEF Spec
<1>2. QED
  BY <1>1, PTL

(* Writes and rejections of every queued command are in step, across restarts *)
(* and lost frames as well.                                                   *)
THEOREM SendsTheorem == Spec => []SendsCounted
<1>1. Spec => [](TypeOK /\ SendsCounted)
  BY InitCounted, NextCounted, PTL DEF Spec
<1>2. QED
  BY <1>1, PTL

(* No command is written more than MAX_RETRIES + 1 times, and none out of turn. *)
THEOREM SendBoundTheorem == Spec => []SendBound
<1>1. ASSUME TypeOK, SendsCounted PROVE SendBound
  <2>1. cmd_pending \in Seq(Cmds)
    BY <1>1 DEF TypeOK
  <2>2. SUFFICES ASSUME NEW i \in 1 .. Len(cmd_pending)
                 PROVE  /\ cmd_pending[i].sent <= MaxRetries + 1
                        /\ i > 1 => cmd_pending[i].sent = 0
    BY DEF SendBound
  <2>3. CASE i = 1
    <3>1. cmd_pending # <<>> /\ cmd_pending[1] \in Cmds
      BY <2>1, <2>3
    <3>2. cmd_pending[1].num_retries \in 0 .. MaxRetries
      BY <3>1 DEF Cmds
    <3>3. cmd_pending[1].sent = cmd_pending[1].num_retries + (IF timer THEN 0 ELSE 1)
      BY <1>1, <3>1 DEF SendsCounted, Counted
    <3>4. QED
      BY <2>3, <3>2, <3>3, ConstantsAssumption
  <2>4. CASE i # 1
    <3>1. cmd_pending[i].sent = 0
      BY <1>1, <2>1, <2>4 DEF SendsCounted, Counted
    <3>2. QED
      BY <3>1, ConstantsAssumption
  <2>5. QED
    BY <2>3, <2>4
<1>2. QED
  BY <1>1, TypeCorrect, SendsTheorem, PTL

-----------------------------------------------------------------------------
(* One frame at a time *)

(* main writes one frame, that of the head. *)
LEMMA InitInFlight == Init => OneInFlight
<1> SUFFICES ASSUME Init PROVE OneInFlight
  OBVIOUS
<1> DEFINE q == NewCmds(poe_initial_setup(enable), 0)
<1>1. enable \in [Ports -> BOOLEAN]
  BY DEF Init, config_load
<1>2. /\ Written(q) \in Seq(Cmds) /\ Written(q) # <<>>
      /\ Frame(Head(q)) \in Frames /\ Frame(Head(q)) = Frame(Written(q)[1])
  BY <1>1, StartCmds
<1>3. /\ cmd_pending = Written(q) /\ tx = <<Frame(Head(q))>>
      /\ rx = <<>> /\ timer = FALSE /\ misread = FALSE
  BY DEF Init
<1> HIDE DEF q
<1>4. Head(cmd_pending) = cmd_pending[1]
  BY <1>2, <1>3
<1>5. Len(tx) = 1 /\ Len(rx) = 0 /\ Head(tx) = Frame(Head(cmd_pending))
  BY <1>2, <1>3, <1>4
<1>6. QED
  BY <1>2, <1>3, <1>5 DEF OneInFlight

(* Every step keeps it, as long as the daemon has not been started anew: a     *)
(* frame is written only when none is under way, to a queue that was empty or  *)
(* has lost its head to the answer just taken.                                 *)
LEMMA NextInFlight ==
  ASSUME TypeOK, SendsCounted, OneInFlight, [Next]_vars
  PROVE  OneInFlight'
<1> SUFFICES ASSUME restarts' = 0
             PROVE  /\ Len(tx') + Len(rx') <= 1
                    /\ tx' # <<>> => cmd_pending' # <<>> /\ Head(tx') = Frame(Head(cmd_pending'))
                    /\ rx' # <<>> => cmd_pending' # <<>> /\ Head(rx').frame = Frame(Head(cmd_pending'))
                    /\ timer' => tx' = <<>> /\ rx' = <<>> /\ cmd_pending' # <<>>
                    /\ ~misread'
  BY DEF OneInFlight
<1>1. /\ cmd_pending \in Seq(Cmds) /\ tx \in Seq(Frames) /\ rx \in Seq(Replies)
      /\ timer \in BOOLEAN /\ restarts \in Nat
  BY DEF TypeOK
<1>2. TypeOK'
  BY NextCounted
<1>3. cmd_pending' \in Seq(Cmds) /\ tx' \in Seq(Frames) /\ rx' \in Seq(Replies)
  BY <1>2 DEF TypeOK
<1>4. ASSUME restarts = 0
      PROVE  /\ Len(tx) + Len(rx) <= 1 /\ Len(tx) \in Nat /\ Len(rx) \in Nat
             /\ tx # <<>> => cmd_pending # <<>> /\ tx[1] = Frame(cmd_pending[1]) /\ rx = <<>>
             /\ rx # <<>> => cmd_pending # <<>> /\ rx[1].frame = Frame(cmd_pending[1]) /\ tx = <<>>
             /\ timer => tx = <<>> /\ rx = <<>> /\ cmd_pending # <<>>
             /\ ~misread
  BY <1>1, <1>4 DEF OneInFlight
<1>5. /\ cmd_pending' # <<>> => Head(cmd_pending') = cmd_pending'[1]
      /\ tx' # <<>> => Head(tx') = tx'[1]
      /\ rx' # <<>> => Head(rx') = rx'[1]
  BY <1>3
<1>6. CASE poe_stream_msg_cb
  <2>1. restarts = 0 /\ rx # <<>> /\ rx' = Tail(rx)
    BY <1>6 DEF poe_stream_msg_cb, bounds
  <2>2. /\ cmd_pending # <<>> /\ tx = <<>> /\ ~timer /\ rx[1].frame = Frame(cmd_pending[1])
        /\ Len(rx) = 1
    <3>1. Len(rx) >= 1
      BY <1>1, <2>1
    <3>2. Len(tx) + Len(rx) <= 1 /\ Len(tx) \in Nat /\ Len(rx) \in Nat
      BY <1>4, <2>1
    <3>3. Len(rx) = 1
      BY <3>1, <3>2
    <3>4. QED
      BY <1>4, <2>1, <3>3
  <2>3. rx' = <<>> /\ Head(rx) = rx[1] /\ Head(cmd_pending) = cmd_pending[1]
    BY <1>1, <2>1, <2>2
  <2>4. ~misread'
    BY <1>4, <1>6, <2>1, <2>2, <2>3 DEF poe_stream_msg_cb
  <2>5. CASE Kept
    <3>1. Len(cmd_pending') >= 1 /\ tx' = <<>>
      BY <1>1, <2>2, <2>5 DEF Kept
    <3>2. QED
      BY <1>3, <2>3, <2>4, <3>1
  <2>6. CASE Dropped
    <3>1. timer' = timer /\ tx' = IF cmd_pending' = <<>> THEN <<>> ELSE <<Frame(cmd_pending'[1])>>
      BY <2>2, <2>6 DEF Dropped
    <3>2. Len(tx') <= 1 /\ (tx' # <<>> => cmd_pending' # <<>> /\ tx'[1] = Frame(cmd_pending'[1]))
      BY <3>1
    <3>3. QED
      BY <1>3, <1>5, <2>2, <2>3, <2>4, <3>1, <3>2
  <2>7. QED
    BY <1>6, <2>2, <2>5, <2>6, ReplyCmds
<1>7. CASE mcu_clear_timeout
  <2>1. restarts = 0 /\ timer /\ timer' = FALSE /\ rx' = rx /\ misread' = misread
    BY <1>7 DEF mcu_clear_timeout, bounds, past
  <2>2. tx = <<>> /\ rx = <<>> /\ cmd_pending # <<>> /\ ~misread
    BY <1>4, <2>1
  <2>3. /\ Len(cmd_pending') = Len(cmd_pending)
        /\ \A i \in 1 .. Len(cmd_pending) : Frame(cmd_pending'[i]) = Frame(cmd_pending[i])
        /\ tx' = IF cmd_pending = <<>> THEN tx ELSE Append(tx, Frame(cmd_pending[1]))
    BY <1>7, TimeoutCmds
  <2>4. Len(cmd_pending') >= 1 /\ Frame(cmd_pending'[1]) = Frame(cmd_pending[1])
    BY <1>1, <2>2, <2>3
  <2>5. Len(tx') = 1 /\ tx'[1] = Frame(cmd_pending'[1])
    BY <2>2, <2>3, <2>4
  <2>6. QED
    BY <1>3, <1>5, <2>1, <2>2, <2>4, <2>5
<1>8. CASE Mcu
  <2>1. restarts = 0 /\ tx # <<>> /\ tx' = Tail(tx) /\ UNCHANGED <<cmd_pending, timer, misread>>
    BY <1>8 DEF Mcu, McuExecute, McuReject, McuRejectDamaged, bounds, past
  <2>2. /\ rx = <<>> /\ cmd_pending # <<>> /\ tx[1] = Frame(cmd_pending[1]) /\ Len(tx) = 1
        /\ ~timer /\ ~misread
    <3>1. Len(tx) >= 1
      BY <1>1, <2>1
    <3>2. Len(tx) + Len(rx) <= 1 /\ Len(tx) \in Nat /\ Len(rx) \in Nat
      BY <1>4, <2>1
    <3>3. Len(tx) = 1
      BY <3>1, <3>2
    <3>4. QED
      BY <1>4, <2>1, <3>3
  <2>3. PICK r \in Replies : rx' = Append(rx, r) /\ r.frame = Head(tx)
    <3>0. \A k \in {"ok", "bad", "f0"} : [kind |-> k, frame |-> Head(tx)] \in Replies
      BY <1>1, <2>1 DEF Replies
    <3>1. CASE McuExecute
      <4>1. PICK k \in {"ok", "bad"} : rx' = Append(rx, [kind |-> k, frame |-> Head(tx)])
        BY <3>1 DEF McuExecute
      <4>2. QED
        BY <3>0, <4>1
    <3>2. CASE McuReject
      BY <3>0, <3>2 DEF McuReject
    <3>3. CASE McuRejectDamaged
      BY <3>0, <3>3 DEF McuRejectDamaged
    <3>4. QED
      BY <1>8, <3>1, <3>2, <3>3 DEF Mcu
  <2>4. tx' = <<>> /\ Head(tx) = tx[1]
    BY <1>1, <2>1, <2>2
  <2>5. Len(rx') = 1 /\ rx'[1].frame = Frame(cmd_pending[1])
    <3>1. rx' = <<r>>
      BY <2>3, <2>2
    <3>2. QED
      BY <2>3, <2>2, <2>4, <3>1
  <2>6. QED
    BY <1>3, <1>5, <2>1, <2>2, <2>4, <2>5
<1>9. CASE Lose
  <2>1. restarts = 0 /\ UNCHANGED <<cmd_pending, timer, misread>>
    BY <1>9 DEF Lose, bounds, past
  <2>2. tx # <<>> \/ rx # <<>>
    BY <1>9 DEF Lose
  <2>3. ~timer /\ ~misread
    BY <1>4, <2>1, <2>2
  <2>4. tx' = <<>> /\ rx' = <<>>
    <3>1. CASE tx # <<>> /\ tx' = Tail(tx) /\ rx' = rx
      BY <1>1, <1>4, <2>1, <3>1
    <3>2. CASE rx # <<>> /\ rx' = Tail(rx) /\ tx' = tx
      BY <1>1, <1>4, <2>1, <3>2
    <3>3. QED
      BY <1>9, <3>1, <3>2 DEF Lose
  <2>5. QED
    BY <2>1, <2>3, <2>4
<1>10. CASE Save \/ UNCHANGED vars
  <2>1. UNCHANGED <<cmd_pending, tx, rx, timer, misread, restarts>>
    BY <1>10 DEF Save, vars, line, bounds, past
  <2>2. QED
    BY <2>1 DEF OneInFlight
<1>11. CASE Restart
  BY <1>1, <1>11 DEF Restart
<1>12. CASE \/ state_timeout_cb \/ ubus_poe_reload_cb \/ ubus_poe_sendframe_cb
            \/ \E p \in Ports, on \in BOOLEAN : ubus_poe_manage_cb(p, on)
  <2>1. UNCHANGED <<misread, restarts>>
    BY <1>12, BurstCounted
  <2>2. PICK cs \in Seq(Commands) : poe_cmd_queue(cs)
    BY <1>12, BurstCounted
  <2>3. /\ timer' = timer /\ rx' = rx /\ Len(cmd_pending') >= Len(cmd_pending)
        /\ cmd_pending # <<>> =>
             tx' = tx /\ \A i \in 1 .. Len(cmd_pending) : cmd_pending'[i] = cmd_pending[i]
        /\ cmd_pending = <<>> =>
             tx' = IF cmd_pending' = <<>> \/ timer THEN tx
                   ELSE Append(tx, Frame(cmd_pending'[1]))
    BY <2>2, QueueCmds
  <2>4. CASE cmd_pending # <<>>
    <3>1. Len(cmd_pending') >= 1 /\ cmd_pending'[1] = cmd_pending[1] /\ tx' = tx
      BY <1>1, <2>3, <2>4
    <3>2. cmd_pending' # <<>>
      BY <1>3, <3>1
    <3>3. QED
      BY <1>4, <1>5, <2>1, <2>3, <3>1, <3>2
  <2>5. CASE cmd_pending = <<>>
    <3>1. tx = <<>> /\ rx = <<>> /\ ~timer /\ ~misread
      BY <1>4, <2>1, <2>5
    <3>2. tx' = IF cmd_pending' = <<>> THEN <<>> ELSE <<Frame(cmd_pending'[1])>>
      BY <2>3, <2>5, <3>1
    <3>3. Len(tx') <= 1 /\ (tx' # <<>> => cmd_pending' # <<>> /\ tx'[1] = Frame(cmd_pending'[1]))
      BY <3>2
    <3>4. QED
      BY <1>3, <1>5, <2>1, <2>3, <3>1, <3>3
  <2>6. QED
    BY <2>4, <2>5
<1>13. QED
  BY <1>6, <1>7, <1>8, <1>9, <1>10, <1>11, <1>12 DEF Next, Daemon

(* Until the daemon is started anew no two frames are under way and every     *)
(* intact answer is taken for that of its own command, whatever the MCU       *)
(* rejects and the line loses or damages.                                     *)
THEOREM InFlightTheorem == Spec => []OneInFlight
<1>1. Spec => [](TypeOK /\ SendsCounted /\ OneInFlight)
  BY InitCounted, NextCounted, InitInFlight, NextInFlight, PTL DEF Spec
<1>2. QED
  BY <1>1, PTL

-----------------------------------------------------------------------------
(* The commands of a queue *)

(* They are as many as its entries. *)
LEMMA BodiesType ==
  ASSUME NEW q \in Seq(Cmds)
  PROVE  Bodies(q) \in Seq(Commands) /\ Len(Bodies(q)) = Len(q)
<1>1. \A i \in 1 .. Len(q) : q[i].body \in Commands
  <2>1. TAKE i \in 1 .. Len(q)
  <2>2. q[i] \in Cmds
    OBVIOUS
  <2>3. QED
    BY <2>2 DEF Cmds
<1>2. QED
  BY <1>1 DEF Bodies

(* Queues with the same frames hold the same commands. *)
LEMMA SameBodies ==
  ASSUME NEW q \in Seq(Cmds), NEW r \in Seq(Cmds), Len(q) = Len(r),
         \A i \in 1 .. Len(r) : Frame(q[i]) = Frame(r[i])
  PROVE  Bodies(q) = Bodies(r)
<1>1. \A i \in 1 .. Len(r) : q[i].body = r[i].body
  BY DEF Frame
<1>2. QED
  BY <1>1 DEF Bodies

(* A queue with the frames of another one but the first holds its tail. *)
LEMMA TailBodies ==
  ASSUME NEW q \in Seq(Cmds), NEW r \in Seq(Cmds), r # <<>>, Len(q) = Len(r) - 1,
         \A i \in 1 .. Len(q) : Frame(q[i]) = Frame(r[i + 1])
  PROVE  Bodies(q) = Tail(Bodies(r))
<1>1. \A i \in 1 .. Len(q) : q[i].body = r[i + 1].body
  BY DEF Frame
<1>2. Len(r) \in Nat /\ Len(q) \in Nat
  OBVIOUS
<1>3. Bodies(r) \in Seq(Commands) /\ Len(Bodies(r)) = Len(r)
  BY BodiesType
<1>4. Len(Bodies(r)) >= 1 /\ Bodies(r) # <<>>
  BY <1>2, <1>3
<1> DEFINE b == Bodies(r)
<1>5. \A i \in 1 .. Len(q) : b[i + 1] = r[i + 1].body
  BY <1>2 DEF Bodies
<1> HIDE DEF b
<1>6. /\ Tail(b) \in Seq(Commands) /\ Len(Tail(b)) = Len(q)
      /\ \A i \in 1 .. Len(q) : Tail(b)[i] = b[i + 1]
  BY <1>2, <1>3, <1>4 DEF b
<1>7. /\ Bodies(q) \in Seq(Commands) /\ Len(Bodies(q)) = Len(q)
      /\ \A i \in 1 .. Len(q) : Bodies(q)[i] = q[i].body
  BY BodiesType DEF Bodies
<1>8. \A i \in 1 .. Len(q) : Bodies(q)[i] = Tail(b)[i]
  BY <1>1, <1>5, <1>6, <1>7
<1>9. QED
  BY <1>6, <1>7, <1>8 DEF b

(* Of two numbers that add up to at most 1 one is 0. *)
LEMMA AtMostOne ==
  ASSUME NEW a \in Nat, NEW b \in Nat, a + b <= 1
  PROVE  (b >= 1 => b = 1) /\ (a >= 1 => b = 0)
OBVIOUS
=============================================================================
