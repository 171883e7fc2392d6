----------------------- MODULE RealtekPoeOrderProofs ------------------------
(***************************************************************************)
(* Proofs that realtek-poe implements the queue PoeFifo and that the       *)
(* supplies settle as asked (ImplementsFifo, SettledAsAsked).  Both follow *)
(* what the MCU will still be told (Todo of RealtekPoe): every step takes  *)
(* the first command off this list, adds to its end or leaves it alone,    *)
(* and a restart drops its end.  In it the last enable command of every    *)
(* port is the supply last asked for, or the port has none and is as asked *)
(* or abandoned.                                                           *)
(*                                                                         *)
(* The list is known while the answers belong to the commands they are     *)
(* taken for: when nothing is rejected (answers may then be shifted by     *)
(* restarts, for every answer does the same), or when the daemon is not    *)
(* restarted (one frame is on the line, that of the head).  With both, a   *)
(* rejection of an old frame may drop a new command: the theorems assume   *)
(* one of the two.  A lost frame or answer may stop the queue for good,    *)
(* which is no quiet state until the daemon is restarted.                  *)
(***************************************************************************)
EXTENDS RealtekPoeProofs

(* Command c is a set port enable for port p *)
Switches(c, p) == c.op = "enable" /\ c.port = p

(* The last command of t for port p switches it to on ... *)
EndsWith(t, p, on) ==
  \E i \in 1 .. Len(t) : /\ Switches(t[i], p) /\ t[i].on = on
                         /\ \A j \in i + 1 .. Len(t) : ~Switches(t[j], p)

(* ... or there is none. *)
Untouched(t, p) == \A i \in 1 .. Len(t) : ~Switches(t[i], p)

(* If the MCU is told t, port p ends up as on; ok tells whether it is so already *)
Assured(t, p, on, ok) == EndsWith(t, p, on) \/ (ok /\ Untouched(t, p))

(* The frame or the answer of the head was lost: nothing moves any more *)
Stalled == cmd_pending # <<>> /\ tx = <<>> /\ rx = <<>> /\ ~timer

(* Port p needs no further command *)
Fine(p) == p \in abandoned \/ power[p] = wanted[p]

(* Every port ends up as asked if nothing more is given up or lost *)
AllAssured == \A p \in Ports : Assured(Todo, p, wanted[p], Fine(p))

(* The inductive invariant: it does, unless the queue has stopped *)
Tracked == Stalled \/ AllAssured

-----------------------------------------------------------------------------
(* The commands of a queue, or of the frames on the line, are as many as its *)
(* entries.                                                                  *)
LEMMA BodiesOf ==
  ASSUME NEW S, \A c \in S : c.body \in Commands, NEW q \in Seq(S)
  PROVE  /\ Bodies(q) \in Seq(Commands) /\ Len(Bodies(q)) = Len(q)
         /\ \A i \in 1 .. Len(q) : Bodies(q)[i] = q[i].body
         /\ (Bodies(q) = <<>>) <=> (q = <<>>)
<1>1. \A i \in 1 .. Len(q) : q[i].body \in Commands
  OBVIOUS
<1>2. /\ Bodies(q) \in Seq(Commands) /\ Len(Bodies(q)) = Len(q)
      /\ \A i \in 1 .. Len(q) : Bodies(q)[i] = q[i].body
  BY <1>1 DEF Bodies
<1>3. QED
  BY <1>2

(* A frame put on the line adds its command ... *)
LEMMA BodiesAppend ==
  ASSUME NEW S, \A c \in S : c.body \in Commands, NEW q \in Seq(S), NEW f \in S
  PROVE  Bodies(Append(q, f)) = Append(Bodies(q), f.body)
<1> DEFINE a == Append(q, f)
<1>1. a \in Seq(S) /\ Len(a) = Len(q) + 1 /\ a[Len(q) + 1] = f
      /\ \A i \in 1 .. Len(q) : a[i] = q[i]
  OBVIOUS
<1> HIDE DEF a
<1>2. /\ Bodies(a) \in Seq(Commands) /\ Len(Bodies(a)) = Len(q) + 1
      /\ \A i \in 1 .. Len(q) + 1 : Bodies(a)[i] = a[i].body
  BY <1>1, BodiesOf
<1>3. /\ Bodies(q) \in Seq(Commands) /\ Len(Bodies(q)) = Len(q)
      /\ \A i \in 1 .. Len(q) : Bodies(q)[i] = q[i].body
  BY BodiesOf
<1> DEFINE b == Bodies(q)
<1> DEFINE c == Bodies(a)
<1> HIDE DEF b, c
<1>4. \A i \in 1 .. Len(q) : c[i] = b[i]
  BY <1>1, <1>2, <1>3 DEF b, c
<1>5. c[Len(b) + 1] = f.body /\ f.body \in Commands
  BY <1>1, <1>2, <1>3 DEF b, c
<1>6. c = Append(b, f.body)
  BY <1>2, <1>3, <1>4, <1>5 DEF b, c
<1>7. QED
  BY <1>6 DEF a, b, c

(* ... one taken from it removes the first ... *)
LEMMA BodiesTail ==
  ASSUME NEW S, \A c \in S : c.body \in Commands, NEW q \in Seq(S), q # <<>>
  PROVE  Bodies(Tail(q)) = Tail(Bodies(q)) /\ Head(Bodies(q)) = Head(q).body
<1> DEFINE t == Tail(q)
<1>1. /\ t \in Seq(S) /\ Len(t) = Len(q) - 1 /\ Len(q) \in Nat /\ Len(q) >= 1
      /\ \A i \in 1 .. Len(q) - 1 : t[i] = q[i + 1]
      /\ Head(q) = q[1]
  OBVIOUS
<1> HIDE DEF t
<1> DEFINE b == Bodies(q)
<1> DEFINE c == Bodies(t)
<1>2. /\ b \in Seq(Commands) /\ Len(b) = Len(q) /\ \A i \in 1 .. Len(q) : b[i] = q[i].body
  BY BodiesOf
<1>3. /\ c \in Seq(Commands) /\ Len(c) = Len(q) - 1
      /\ \A i \in 1 .. Len(q) - 1 : c[i] = t[i].body
  BY <1>1, BodiesOf
<1> HIDE DEF b, c
<1>4. /\ Tail(b) \in Seq(Commands) /\ Len(Tail(b)) = Len(q) - 1
      /\ \A i \in 1 .. Len(q) - 1 : Tail(b)[i] = b[i + 1]
      /\ Head(b) = b[1]
  BY <1>1, <1>2
<1>5. \A i \in 1 .. Len(q) - 1 : c[i] = Tail(b)[i]
  BY <1>1, <1>2, <1>3, <1>4
<1>6. c = Tail(b)
  BY <1>3, <1>4, <1>5
<1>7. Head(b) = Head(q).body
  BY <1>1, <1>2, <1>4
<1>8. QED
  BY <1>6, <1>7 DEF b, c, t

(* The entries of a concatenation ... *)
LEMMA ConcatOf ==
  ASSUME NEW S, NEW s \in Seq(S), NEW t \in Seq(S)
  PROVE  /\ s \o t \in Seq(S) /\ Len(s \o t) = Len(s) + Len(t)
         /\ Len(s) \in Nat /\ Len(t) \in Nat
         /\ \A i \in 1 .. Len(s) : (s \o t)[i] = s[i]
         /\ \A i \in 1 .. Len(t) : (s \o t)[Len(s) + i] = t[i]
OBVIOUS

(* ... what has these entries is the concatenation ... *)
LEMMA ConcatIs ==
  ASSUME NEW S, NEW s \in Seq(S), NEW t \in Seq(S), NEW u \in Seq(S), Len(u) = Len(s) + Len(t),
         \A i \in 1 .. Len(s) : u[i] = s[i],
         \A i \in 1 .. Len(t) : u[Len(s) + i] = t[i]
  PROVE  u = s \o t
<1>1. ASSUME NEW i \in Len(s) + 1 .. Len(u)
      PROVE  u[i] = t[i - Len(s)]
  <2>1. i - Len(s) \in 1 .. Len(t) /\ Len(s) + (i - Len(s)) = i
    OBVIOUS
  <2>2. PICK k \in 1 .. Len(t) : Len(s) + k = i /\ k = i - Len(s)
    BY <2>1
  <2>3. QED
    BY <2>2
<1>2. QED
  BY <1>1

(* The commands of two queues, one behind the other *)
LEMMA BodiesConcat ==
  ASSUME NEW S, \A c \in S : c.body \in Commands, NEW q \in Seq(S), NEW r \in Seq(S)
  PROVE  Bodies(q \o r) = Bodies(q) \o Bodies(r)
<1> DEFINE u == q \o r
<1>1. /\ u \in Seq(S) /\ Len(u) = Len(q) + Len(r) /\ Len(q) \in Nat /\ Len(r) \in Nat
      /\ \A i \in 1 .. Len(q) : u[i] = q[i]
      /\ \A i \in 1 .. Len(r) : u[Len(q) + i] = r[i]
  BY ConcatOf
<1> HIDE DEF u
<1> DEFINE a == Bodies(q)
<1> DEFINE b == Bodies(r)
<1> DEFINE c == Bodies(u)
<1>2. a \in Seq(Commands) /\ Len(a) = Len(q) /\ \A i \in 1 .. Len(q) : a[i] = q[i].body
  BY BodiesOf
<1>3. b \in Seq(Commands) /\ Len(b) = Len(r) /\ \A i \in 1 .. Len(r) : b[i] = r[i].body
  BY BodiesOf
<1>4. c \in Seq(Commands) /\ Len(c) = Len(u) /\ \A i \in 1 .. Len(u) : c[i] = u[i].body
  BY <1>1, BodiesOf
<1> HIDE DEF a, b, c
<1>5. \A i \in 1 .. Len(a) : c[i] = a[i]
  BY <1>1, <1>2, <1>4
<1>6. \A i \in 1 .. Len(b) : c[Len(a) + i] = b[i]
  <2>1. TAKE i \in 1 .. Len(b)
  <2>2. i \in 1 .. Len(r) /\ Len(q) + i \in 1 .. Len(u)
    BY <1>1, <1>3
  <2>3. QED
    BY <1>1, <1>2, <1>3, <1>4, <2>2
<1>7. Len(c) = Len(a) + Len(b)
  BY <1>1, <1>2, <1>3, <1>4
<1>8. c = a \o b
  BY <1>2, <1>3, <1>4, <1>5, <1>6, <1>7, ConcatIs
<1>9. QED
  BY <1>8 DEF a, b, c, u

(* An element may stand at the end of the first part or at the head of the *)
(* second.                                                                 *)
LEMMA Hand ==
  ASSUME NEW S, NEW s \in Seq(S), NEW t \in Seq(S), t # <<>>
  PROVE  Append(s, Head(t)) \o Tail(t) = s \o t
OBVIOUS

(* Concatenation is associative. *)
LEMMA ConcatAssoc ==
  ASSUME NEW S, NEW s \in Seq(S), NEW t \in Seq(S), NEW u \in Seq(S)
  PROVE  s \o (t \o u) = (s \o t) \o u
OBVIOUS

(* The head of a concatenation is that of its first part, unless that is *)
(* empty.                                                                *)
LEMMA TailConcat ==
  ASSUME NEW S, NEW s \in Seq(S), NEW t \in Seq(S), s # <<>>
  PROVE  Tail(s \o t) = Tail(s) \o t /\ Head(s \o t) = Head(s) /\ s \o t # <<>>
OBVIOUS

(* Once the first command is done with, the port is assured still, if it is *)
(* fine afterwards whenever it was before, or was switched as asked.        *)
LEMMA AssuredTail ==
  ASSUME NEW t \in Seq(Commands), t # <<>>, NEW p, NEW on, NEW ok \in BOOLEAN, NEW ok2 \in BOOLEAN,
         Assured(t, p, on, ok),
         ok /\ ~Switches(Head(t), p) => ok2,
         Switches(Head(t), p) /\ Head(t).on = on => ok2
  PROVE  Assured(Tail(t), p, on, ok2)
<1> DEFINE u == Tail(t)
<1>1. /\ Len(t) \in Nat /\ Len(t) >= 1 /\ Head(t) = t[1] /\ Len(u) = Len(t) - 1
      /\ \A i \in 1 .. Len(u) : u[i] = t[i + 1]
  OBVIOUS
<1> HIDE DEF u
<1>2. CASE EndsWith(t, p, on)
  <2>1. PICK i \in 1 .. Len(t) : /\ Switches(t[i], p) /\ t[i].on = on
                                 /\ \A j \in i + 1 .. Len(t) : ~Switches(t[j], p)
    BY <1>2 DEF EndsWith
  <2>2. CASE i = 1
    <3>1. ok2
      BY <1>1, <2>1, <2>2
    <3>2. \A j \in 1 .. Len(u) : j + 1 \in 2 .. Len(t)
      BY <1>1
    <3>3. Untouched(u, p)
      BY <1>1, <2>1, <2>2, <3>2 DEF Untouched
    <3>4. QED
      BY <3>1, <3>3 DEF Assured, u
  <2>3. CASE i # 1
    <3>1. i - 1 \in 1 .. Len(u) /\ (i - 1) + 1 = i
      BY <1>1, <2>3
    <3>2. u[i - 1] = t[i]
      BY <1>1, <3>1
    <3>3. \A j \in (i - 1) + 1 .. Len(u) : j \in 1 .. Len(u) /\ j + 1 \in i + 1 .. Len(t)
      BY <1>1, <2>3
    <3>4. \A j \in (i - 1) + 1 .. Len(u) : ~Switches(u[j], p)
      BY <1>1, <2>1, <3>3
    <3>5. EndsWith(u, p, on)
      BY <2>1, <3>1, <3>2, <3>4 DEF EndsWith
    <3>6. QED
      BY <3>5 DEF Assured, u
  <2>4. QED
    BY <2>2, <2>3
<1>3. CASE ok /\ Untouched(t, p)
  <2>1. ~Switches(Head(t), p)
    BY <1>1, <1>3 DEF Untouched
  <2>2. \A j \in 1 .. Len(u) : j + 1 \in 1 .. Len(t)
    BY <1>1
  <2>3. Untouched(u, p)
    BY <1>1, <1>3, <2>2 DEF Untouched
  <2>4. QED
    BY <1>3, <2>1, <2>3 DEF Assured, u
<1>4. QED
  BY <1>2, <1>3 DEF Assured

(* What a list ends with, a longer list with that end does as well. *)
LEMMA EndsLater ==
  ASSUME NEW t \in Seq(Commands), NEW s \in Seq(Commands), NEW p, NEW on, EndsWith(s, p, on)
  PROVE  EndsWith(t \o s, p, on)
<1> DEFINE u == t \o s
<1>1. /\ Len(u) = Len(t) + Len(s) /\ Len(t) \in Nat /\ Len(s) \in Nat
      /\ \A i \in 1 .. Len(s) : u[Len(t) + i] = s[i]
  OBVIOUS
<1> HIDE DEF u
<1>2. PICK i \in 1 .. Len(s) : /\ Switches(s[i], p) /\ s[i].on = on
                               /\ \A j \in i + 1 .. Len(s) : ~Switches(s[j], p)
  BY DEF EndsWith
<1>3. Len(t) + i \in 1 .. Len(u) /\ u[Len(t) + i] = s[i]
  BY <1>1
<1>4. ASSUME NEW j \in Len(t) + i + 1 .. Len(u) PROVE ~Switches(u[j], p)
  <2>0. j - Len(t) \in i + 1 .. Len(s) /\ Len(t) + (j - Len(t)) = j
    BY <1>1
  <2>1. PICK k \in i + 1 .. Len(s) : Len(t) + k = j
    BY <2>0
  <2>2. k \in 1 .. Len(s)
    BY <1>1
  <2>3. u[j] = s[k]
    BY <1>1, <2>1, <2>2
  <2>4. QED
    BY <1>2, <2>3
<1>5. EndsWith(u, p, on)
  BY <1>2, <1>3, <1>4 DEF EndsWith
<1>6. QED
  BY <1>5 DEF u

(* Commands that do not touch the port change nothing. *)
LEMMA AssuredLonger ==
  ASSUME NEW t \in Seq(Commands), NEW s \in Seq(Commands), NEW p, NEW on, NEW ok \in BOOLEAN,
         Assured(t, p, on, ok), Untouched(s, p)
  PROVE  Assured(t \o s, p, on, ok)
<1> DEFINE u == t \o s
<1>1. /\ Len(u) = Len(t) + Len(s) /\ Len(t) \in Nat /\ Len(s) \in Nat
      /\ \A i \in 1 .. Len(t) : u[i] = t[i]
      /\ \A i \in Len(t) + 1 .. Len(u) : i - Len(t) \in 1 .. Len(s) /\ u[i] = s[i - Len(t)]
  OBVIOUS
<1> HIDE DEF u
<1>2. \A i \in Len(t) + 1 .. Len(u) : ~Switches(u[i], p)
  BY <1>1 DEF Untouched
<1>3. CASE EndsWith(t, p, on)
  <2>1. PICK i \in 1 .. Len(t) : /\ Switches(t[i], p) /\ t[i].on = on
                                 /\ \A j \in i + 1 .. Len(t) : ~Switches(t[j], p)
    BY <1>3 DEF EndsWith
  <2>2. i \in 1 .. Len(u) /\ u[i] = t[i]
    BY <1>1
  <2>3. ASSUME NEW j \in i + 1 .. Len(u) PROVE ~Switches(u[j], p)
    BY <1>1, <1>2, <2>1
  <2>4. EndsWith(u, p, on)
    BY <2>1, <2>2, <2>3 DEF EndsWith
  <2>5. QED
    BY <2>4 DEF Assured, u
<1>4. CASE ok /\ Untouched(t, p)
  <2>1. Untouched(u, p)
    BY <1>1, <1>2, <1>4 DEF Untouched
  <2>2. QED
    BY <1>4, <2>1 DEF Assured, u
<1>5. QED
  BY <1>3, <1>4 DEF Assured

-----------------------------------------------------------------------------
(* Bodies of frames and of queued commands are commands. *)
LEMMA Carriers == (\A f \in Frames : f.body \in Commands) /\ (\A c \in Cmds : c.body \in Commands)
BY DEF Frames, Cmds

(* New commands carry what was asked for. *)
LEMMA NewBodies ==
  ASSUME NEW cs \in Seq(Commands), NEW s \in Nat
  PROVE  Bodies(NewCmds(cs, s)) = cs
<1> DEFINE n == NewCmds(cs, s)
<1>1. n \in Seq(Cmds) /\ Len(n) = Len(cs)
  BY NewCmdsType
<1>2. \A i \in 1 .. Len(cs) : n[i].body = cs[i]
  BY DEF NewCmds
<1> HIDE DEF n
<1>3. /\ Bodies(n) \in Seq(Commands) /\ Len(Bodies(n)) = Len(cs)
      /\ \A i \in 1 .. Len(cs) : Bodies(n)[i] = cs[i]
  BY <1>1, <1>2, BodiesOf, Carriers
<1> DEFINE b == Bodies(n)
<1> HIDE DEF b
<1>4. b = cs
  BY <1>3 DEF b
<1>5. QED
  BY <1>4 DEF b, n

(* A burst adds its commands at the end of the queue. *)
LEMMA QueueBodies ==
  ASSUME TypeOK, SendsCounted, NEW cs \in Seq(Commands), poe_cmd_queue(cs)
  PROVE  Bodies(cmd_pending') = Bodies(cmd_pending) \o cs
<1> DEFINE new == NewCmds(cs, cmd_seq)
<1>1. cmd_pending \in Seq(Cmds) /\ tx \in Seq(Frames) /\ cmd_seq \in Nat /\ timer \in BOOLEAN
  BY DEF TypeOK
<1>2. /\ new \in Seq(Cmds) /\ Len(new) = Len(cs) /\ Bodies(new) = cs
      /\ \A i \in 1 .. Len(new) : new[i].sent = 0 /\ new[i].num_retries = 0
  BY <1>1, NewCmdsType, NewBodies
<1>3. IF cmd_pending = <<>> THEN poe_cmd_next(cmd_pending \o new, timer)
      ELSE cmd_pending' = cmd_pending \o new
  BY DEF poe_cmd_queue, ListAddTail, WasEmpty
<1> HIDE DEF new
<1>4. CASE cmd_pending = <<>>
  <2>1. cmd_pending \o new = new
    BY <1>2, <1>4
  <2>2. poe_cmd_next(new, timer)
    BY <1>3, <1>4, <2>1
  <2>3. Waiting(new)
    BY <1>2 DEF Waiting
  <2>4. /\ cmd_pending' \in Seq(Cmds) /\ Len(cmd_pending') = Len(new)
        /\ \A i \in 1 .. Len(new) : Frame(cmd_pending'[i]) = Frame(new[i])
    BY <1>1, <1>2, <2>2, <2>3, NextCmd
  <2>5. Bodies(cmd_pending') = cs
    BY <1>2, <2>4, SameBodies
  <2>6. Bodies(cmd_pending) = <<>>
    BY <1>1, <1>4, BodiesOf, Carriers
  <2>7. QED
    BY <2>5, <2>6
<1>5. CASE cmd_pending # <<>>
  <2>1. cmd_pending' = cmd_pending \o new
    BY <1>3, <1>5
  <2>2. cmd_pending \in Seq(Cmds) /\ new \in Seq(Cmds)
    BY <1>1, <1>2
  <2>3. Bodies(cmd_pending \o new) = Bodies(cmd_pending) \o Bodies(new)
    BY <2>2, BodiesConcat, Carriers
  <2>4. QED
    BY <1>2, <2>1, <2>3
<1>6. QED
  BY <1>4, <1>5

(* Which ports an answer gives up *)
LEMMA ReplyAbandons ==
  ASSUME TypeOK, SendsCounted, poe_stream_msg_cb, cmd_pending # <<>>
  PROVE  /\ Head(rx).kind # "f0" => Dropped /\ abandoned' = abandoned
         /\ Head(rx).kind = "f0" /\ ~timer =>
              \/ Kept /\ abandoned' = abandoned
              \/ Dropped /\ abandoned' = abandoned \cup EnablePort(cmd_pending[1].body)
<1>1. Head(cmd_pending) = cmd_pending[1] /\ timer \in BOOLEAN
  BY RestWaits DEF TypeOK
<1>2. IF Head(rx).kind = "f0" THEN handle_poe_f0_reply(cmd_pending[1], Tail(cmd_pending))
      ELSE poe_cmd_next(Tail(cmd_pending), timer) /\ UNCHANGED <<timer, abandoned>>
  BY <1>1 DEF poe_stream_msg_cb
<1>3. (Kept /\ Head(rx).kind = "f0") \/ Dropped
  BY ReplyCmds
<1>4. CASE Head(rx).kind # "f0"
  BY <1>2, <1>3, <1>4
<1>5. CASE Head(rx).kind = "f0" /\ ~timer
  <2>1. CASE RetriesLeft(cmd_pending[1])
    <3>1. timer' = TRUE /\ abandoned' = abandoned
      BY <1>2, <1>5, <2>1 DEF handle_poe_f0_reply
    <3>2. ~Dropped
      BY <1>5, <3>1 DEF Dropped
    <3>3. QED
      BY <1>3, <1>5, <3>1, <3>2
  <2>2. CASE ~RetriesLeft(cmd_pending[1])
    <3>1. timer' = timer /\ abandoned' = abandoned \cup EnablePort(cmd_pending[1].body)
      BY <1>2, <1>5, <2>2 DEF handle_poe_f0_reply
    <3>2. ~Kept
      BY <1>5, <3>1 DEF Kept
    <3>3. QED
      BY <1>3, <1>5, <3>1, <3>2
  <2>3. QED
    BY <2>1, <2>2
<1>6. QED
  BY <1>4, <1>5

(* The queue and the line after an answer that keeps or drops the head *)
LEMMA DroppedBodies ==
  ASSUME TypeOK, cmd_pending' \in Seq(Cmds), cmd_pending # <<>>, Dropped
  PROVE  /\ Bodies(cmd_pending') = Tail(Bodies(cmd_pending)) /\ Bodies(cmd_pending) # <<>>
         /\ Bodies(tx') = IF Bodies(cmd_pending') = <<>> \/ timer THEN Bodies(tx)
                          ELSE Append(Bodies(tx), Head(Bodies(cmd_pending')))
<1>1. cmd_pending \in Seq(Cmds) /\ tx \in Seq(Frames)
  BY DEF TypeOK
<1>2. Bodies(cmd_pending') = Tail(Bodies(cmd_pending)) /\ Bodies(cmd_pending) # <<>>
  BY <1>1, TailBodies, BodiesOf, Carriers DEF Dropped
<1>3. (Bodies(cmd_pending') = <<>>) <=> (cmd_pending' = <<>>)
  BY BodiesOf, Carriers
<1>4. CASE cmd_pending' = <<>> \/ timer
  BY <1>2, <1>3, <1>4 DEF Dropped
<1>5. CASE ~(cmd_pending' = <<>> \/ timer)
  <2>1. tx' = Append(tx, Frame(cmd_pending'[1]))
    BY <1>5 DEF Dropped
  <2>2. cmd_pending'[1] \in Cmds /\ Head(cmd_pending') = cmd_pending'[1]
    BY <1>5
  <2>3. Frame(cmd_pending'[1]) \in Frames
    BY <2>2, FrameType
  <2>4. Bodies(tx') = Append(Bodies(tx), Frame(cmd_pending'[1]).body)
    BY <1>1, <2>1, <2>3, BodiesAppend, Carriers
  <2>5. Head(Bodies(cmd_pending')) = cmd_pending'[1].body
    BY <1>5, <2>2, BodiesTail, Carriers
  <2>6. Frame(cmd_pending'[1]).body = cmd_pending'[1].body
    BY DEF Frame
  <2>7. QED
    BY <1>2, <1>3, <1>5, <2>4, <2>5, <2>6
<1>6. QED
  BY <1>4, <1>5

-----------------------------------------------------------------------------
(* Without rejections the timer is never set and no answer is an 0xfx frame. *)
NeverRejected == ~timer /\ \A i \in 1 .. Len(rx) : rx[i].kind # "f0"

(* The two conditions under which the answers tell what became of a command: *)
(* nothing is rejected, or the line carries the head of the queue only.      *)
Orderly ==
  \/ ~MayReject /\ NeverRejected
  \/ MaxRestarts = 0 /\ restarts = 0 /\ OneInFlight

(* The line is orderly when main has queued the setup. *)
LEMMA InitOrderly == ASSUME Init, ~MayReject \/ MaxRestarts = 0 PROVE Orderly
<1>1. timer = FALSE /\ rx = <<>> /\ restarts = 0
  BY DEF Init
<1>2. NeverRejected
  BY <1>1 DEF NeverRejected
<1>3. OneInFlight
  BY InitInFlight
<1>4. QED
  BY <1>1, <1>2, <1>3 DEF Orderly

(* An MCU that rejects nothing never does, also across restarts. *)
LEMMA NextRejected ==
  ASSUME TypeOK, SendsCounted, ~MayReject, NeverRejected, [Next]_vars
  PROVE  NeverRejected'
<1>1. rx \in Seq(Replies) /\ ~timer /\ \A i \in 1 .. Len(rx) : rx[i].kind # "f0"
  BY DEF TypeOK, NeverRejected
<1>2. ASSUME rx # <<>>, rx' = Tail(rx), ~timer' PROVE NeverRejected'
  BY <1>1, <1>2 DEF NeverRejected
<1>3. ASSUME rx' = rx \/ rx' = <<>>, ~timer' PROVE NeverRejected'
  BY <1>1, <1>3 DEF NeverRejected
<1>4. CASE poe_stream_msg_cb
  <2>1. rx # <<>> /\ rx' = Tail(rx)
    BY <1>4 DEF poe_stream_msg_cb
  <2>2. Head(rx).kind # "f0"
    BY <1>1, <2>1
  <2>3. timer' = timer
    BY <1>4, <2>2 DEF poe_stream_msg_cb
  <2>4. QED
    BY <1>1, <1>2, <2>1, <2>3
<1>5. CASE mcu_clear_timeout
  BY <1>1, <1>5 DEF mcu_clear_timeout
<1>6. CASE McuExecute
  <2>1. PICK k \in {"ok", "bad"} : rx' = Append(rx, [kind |-> k, frame |-> Head(tx)])
    BY <1>6 DEF McuExecute
  <2>2. tx # <<>> /\ timer' = timer
    BY <1>6 DEF McuExecute
  <2>3. [kind |-> k, frame |-> Head(tx)] \in Replies
    <3>1. Head(tx) \in Frames
      BY <2>2 DEF TypeOK
    <3>2. QED
      BY <3>1 DEF Replies
  <2>4. PICK r \in Replies : rx' = Append(rx, r) /\ r.kind # "f0"
    BY <2>1, <2>3
  <2>5. \A i \in 1 .. Len(rx') : rx'[i].kind # "f0"
    BY <1>1, <2>4
  <2>6. QED
    BY <1>1, <2>2, <2>5 DEF NeverRejected
<1>7. CASE McuReject \/ McuRejectDamaged
  BY <1>7 DEF McuReject, McuRejectDamaged
<1>8. CASE Lose
  <2>1. timer' = timer
    BY <1>8 DEF Lose
  <2>2. (rx # <<>> /\ rx' = Tail(rx)) \/ rx' = rx
    BY <1>8 DEF Lose
  <2>3. QED
    BY <1>1, <1>2, <1>3, <2>1, <2>2
<1>9. CASE Save \/ UNCHANGED vars
  BY <1>1, <1>3, <1>9 DEF Save, vars, line
<1>10. CASE Restart
  BY <1>3, <1>10 DEF Restart
<1>11. CASE \/ state_timeout_cb \/ ubus_poe_reload_cb \/ ubus_poe_sendframe_cb
            \/ \E p \in Ports, on \in BOOLEAN : ubus_poe_manage_cb(p, on)
  <2>1. PICK cs \in Seq(Commands) : poe_cmd_queue(cs)
    BY <1>11, BurstCounted
  <2>2. rx' = rx /\ timer' = timer
    BY <2>1 DEF poe_cmd_queue
  <2>3. QED
    BY <1>1, <1>3, <2>2
<1>12. QED
  BY <1>4, <1>5, <1>6, <1>7, <1>8, <1>9, <1>10, <1>11 DEF Next, Daemon, Mcu

(* The line stays orderly. *)
LEMMA NextOrderly ==
  ASSUME TypeOK, SendsCounted, Orderly, [Next]_vars
  PROVE  Orderly'
<1>1. CASE MaxRestarts = 0 /\ restarts = 0 /\ OneInFlight
  <2>1. OneInFlight'
    BY <1>1, NextInFlight
  <2>2. restarts' = 0
    <3>1. restarts' \in 0 .. MaxRestarts
      BY NextCounted DEF TypeOK
    <3>2. QED
      BY <1>1, <3>1
  <2>3. QED
    BY <1>1, <2>1, <2>2 DEF Orderly
<1>2. CASE ~MayReject /\ NeverRejected
  BY <1>2, NextRejected DEF Orderly
<1>3. QED
  BY <1>1, <1>2 DEF Orderly

(* With one frame at a time, a frame, an answer and the timer exclude each other. *)
OneThing ==
  /\ tx # <<>> => /\ cmd_pending # <<>> /\ Head(tx) = Frame(Head(cmd_pending))
                  /\ rx = <<>> /\ Len(tx) = 1 /\ ~timer
  /\ rx # <<>> => cmd_pending # <<>> /\ Len(rx) = 1 /\ tx = <<>> /\ ~timer
  /\ timer => cmd_pending # <<>> /\ tx = <<>> /\ rx = <<>>

(* OneInFlight says so. *)
LEMMA OneThingOnLine ==
  ASSUME TypeOK, restarts = 0, OneInFlight
  PROVE  OneThing
<1>1. tx \in Seq(Frames) /\ rx \in Seq(Replies)
  BY DEF TypeOK
<1>2. /\ Len(tx) + Len(rx) <= 1
      /\ tx # <<>> => cmd_pending # <<>> /\ Head(tx) = Frame(Head(cmd_pending))
      /\ rx # <<>> => cmd_pending # <<>>
      /\ timer => tx = <<>> /\ rx = <<>> /\ cmd_pending # <<>>
  BY DEF OneInFlight
<1>3. /\ Len(tx) \in Nat /\ Len(rx) \in Nat
      /\ Len(tx) + Len(rx) <= 1 /\ Len(rx) + Len(tx) <= 1
  BY <1>1, <1>2
<1>4. /\ Len(rx) >= 1 => Len(rx) = 1 /\ Len(tx) = 0
      /\ Len(tx) >= 1 => Len(tx) = 1 /\ Len(rx) = 0
  BY <1>3, AtMostOne
<1>5. (tx # <<>> => Len(tx) >= 1) /\ (Len(tx) = 0 => tx = <<>>)
  BY <1>1
<1>6. (rx # <<>> => Len(rx) >= 1) /\ (Len(rx) = 0 => rx = <<>>)
  BY <1>1
<1>7. QED
  BY <1>2, <1>4, <1>5, <1>6 DEF OneThing

(* What an orderly line looks like. *)
LEMMA OrderlyLine ==
  ASSUME TypeOK, Orderly
  PROVE  \/ ~MayReject /\ NeverRejected /\ ~Rejected /\ ~timer
         \/ MaxRestarts = 0 /\ OneThing
<1>1. CASE ~MayReject /\ NeverRejected
  <2>1. rx # <<>> => Head(rx).kind # "f0"
    BY <1>1 DEF NeverRejected, TypeOK
  <2>2. QED
    BY <1>1, <2>1 DEF NeverRejected, Rejected
<1>2. CASE MaxRestarts = 0 /\ restarts = 0 /\ OneInFlight
  BY <1>2, OneThingOnLine
<1>3. QED
  BY <1>1, <1>2 DEF Orderly

-----------------------------------------------------------------------------
(* Writing the first of the waiting commands q to the line x changes nothing *)
(* in what the MCU will be told.                                              *)
LEMMA SendFirst ==
  ASSUME NEW x \in Seq(Commands), NEW q \in Seq(Commands)
  PROVE  (IF q = <<>> THEN x ELSE Append(x, Head(q))) \o Rest(q) = x \o q
<1>1. CASE q = <<>>
  BY <1>1 DEF Rest
<1>2. CASE q # <<>>
  BY <1>2, Hand DEF Rest
<1>3. QED
  BY <1>1, <1>2

(* The line and the queue hold commands. *)
LEMMA TodoType ==
  ASSUME TypeOK
  PROVE  /\ Bodies(tx) \in Seq(Commands) /\ Bodies(cmd_pending) \in Seq(Commands)
         /\ Rest(Bodies(cmd_pending)) \in Seq(Commands)
         /\ Todo \in Seq(Commands)
         /\ (Bodies(tx) = <<>>) <=> (tx = <<>>)
         /\ (Bodies(cmd_pending) = <<>>) <=> (cmd_pending = <<>>)
<1>1. cmd_pending \in Seq(Cmds) /\ tx \in Seq(Frames)
  BY DEF TypeOK
<1>2. /\ Bodies(tx) \in Seq(Commands) /\ Bodies(cmd_pending) \in Seq(Commands)
      /\ (Bodies(tx) = <<>>) <=> (tx = <<>>)
      /\ (Bodies(cmd_pending) = <<>>) <=> (cmd_pending = <<>>)
  BY <1>1, BodiesOf, Carriers
<1> DEFINE x == Bodies(tx)
<1> DEFINE q == Bodies(cmd_pending)
<1>3. Todo = x \o (IF Rejected THEN q ELSE Rest(q))
  BY DEF Todo
<1> HIDE DEF x, q
<1>4. x \in Seq(Commands) /\ q \in Seq(Commands)
  BY <1>2 DEF x, q
<1>5. Rest(q) \in Seq(Commands)
  BY <1>4 DEF Rest
<1>6. Todo \in Seq(Commands)
  BY <1>3, <1>4, <1>5
<1>7. QED
  BY <1>2, <1>5, <1>6 DEF q

(* An answer changes what the MCU will be told only if it gives up the head. *)
LEMMA ReplyTodo ==
  ASSUME TypeOK, SendsCounted, Orderly, Orderly', TypeOK', poe_stream_msg_cb
  PROVE  \/ Todo' = Todo /\ abandoned' = abandoned
         \/ /\ Todo # <<>> /\ Todo' = Tail(Todo)
            /\ abandoned' = abandoned \cup EnablePort(Head(Todo))
<1> DEFINE x == Bodies(tx)
<1> DEFINE q == Bodies(cmd_pending)
<1>1. /\ x \in Seq(Commands) /\ q \in Seq(Commands) /\ Rest(q) \in Seq(Commands)
      /\ (x = <<>>) <=> (tx = <<>>)
      /\ (q = <<>>) <=> (cmd_pending = <<>>)
  BY TodoType
<1>2. x' \in Seq(Commands) /\ q' \in Seq(Commands) /\ cmd_pending' \in Seq(Cmds)
  <2>1. cmd_pending' \in Seq(Cmds) /\ tx' \in Seq(Frames)
    BY DEF TypeOK
  <2>2. QED
    BY <2>1, BodiesOf, Carriers
<1>3. /\ Todo = x \o (IF Rejected THEN q ELSE Rest(q))
      /\ Todo' = x' \o (IF Rejected' THEN q' ELSE Rest(q'))
  BY DEF Todo
<1>4. rx \in Seq(Replies) /\ rx # <<>> /\ rx' = Tail(rx)
  BY DEF TypeOK, poe_stream_msg_cb
<1>5. CASE cmd_pending = <<>>
  <2>1. cmd_pending' = cmd_pending /\ tx' = tx /\ timer' = timer /\ abandoned' = abandoned
    BY <1>5 DEF poe_stream_msg_cb
  <2>2. ~MayReject /\ ~Rejected
    BY <1>4, <1>5, OrderlyLine DEF OneThing
  <2>3. ~Rejected'
    <3>1. NeverRejected
      BY <1>4, <1>5, <2>2 DEF Orderly, OneInFlight
    <3>2. QED
      BY <1>4, <2>1, <3>1 DEF NeverRejected, Rejected
  <2>4. x' = x /\ q' = q
    BY <2>1
  <2>5. QED
    BY <1>3, <2>1, <2>2, <2>3, <2>4
<1>6. CASE cmd_pending # <<>> /\ Head(rx).kind # "f0"
  <2>1. Dropped /\ abandoned' = abandoned
    BY <1>6, ReplyAbandons
  <2>2. ~timer /\ ~timer'
    BY <1>4, <2>1, OrderlyLine DEF OneThing, Dropped
  <2>3. ~Rejected /\ ~Rejected'
    <3>1. ~Rejected
      BY <1>6, <2>2 DEF Rejected
    <3>2. CASE NeverRejected
      BY <1>4, <2>2, <3>1, <3>2 DEF NeverRejected, Rejected
    <3>3. CASE Len(rx) = 1
      BY <1>4, <2>2, <3>1, <3>3 DEF Rejected
    <3>4. NeverRejected \/ Len(rx) = 1
      <4>1. CASE ~MayReject /\ NeverRejected
        BY <4>1
      <4>2. CASE MaxRestarts = 0 /\ restarts = 0 /\ OneInFlight
        <5>1. Len(tx) + Len(rx) <= 1 /\ Len(tx) \in Nat /\ Len(rx) \in Nat /\ Len(rx) >= 1
          BY <1>4, <4>2 DEF OneInFlight, TypeOK
        <5>2. QED
          BY <5>1, AtMostOne
      <4>3. QED
        BY <4>1, <4>2 DEF Orderly
    <3>5. QED
      BY <3>1, <3>2, <3>3, <3>4
  <2>4. /\ q' = Tail(q) /\ q # <<>>
        /\ x' = IF q' = <<>> THEN x ELSE Append(x, Head(q'))
    BY <1>2, <1>6, <2>1, <2>2, DroppedBodies
  <2>5. Todo = x \o q'
    BY <1>3, <2>3, <2>4 DEF Rest
  <2>6. Todo' = x' \o Rest(q')
    BY <1>3, <2>3
  <2> HIDE DEF x, q
  <2>7. Todo' = x \o q'
    BY <1>1, <1>2, <2>4, <2>6, SendFirst
  <2>8. QED
    BY <2>1, <2>5, <2>7
<1>7. CASE cmd_pending # <<>> /\ Head(rx).kind = "f0"
  <2>1. tx = <<>> /\ ~timer /\ Len(rx) = 1 /\ Rejected
    BY <1>4, <1>7, OrderlyLine DEF OneThing, Rejected
  <2>2. rx' = <<>>
    BY <1>4, <2>1
  <2>3. x = <<>> /\ Todo = q
    BY <1>1, <1>3, <2>1
  <2>4. CASE Kept /\ abandoned' = abandoned
    <3>1. q' = q
      <4>1. cmd_pending \in Seq(Cmds)
        BY DEF TypeOK
      <4>2. QED
        BY <1>2, <2>4, <4>1, SameBodies DEF Kept
    <3>2. Rejected' /\ x' = x
      BY <2>4 DEF Kept, Rejected
    <3>3. QED
      BY <1>3, <2>1, <2>4, <3>1, <3>2
  <2>5. CASE Dropped /\ abandoned' = abandoned \cup EnablePort(cmd_pending[1].body)
    <3>1. ~Rejected'
      BY <2>1, <2>2, <2>5 DEF Dropped, Rejected
    <3>2. /\ q' = Tail(q) /\ q # <<>>
          /\ x' = IF q' = <<>> THEN x ELSE Append(x, Head(q'))
      BY <1>2, <1>7, <2>1, <2>5, DroppedBodies
    <3>3. Todo' = x' \o Rest(q')
      BY <1>3, <3>1
    <3>4. Head(q) = cmd_pending[1].body
      <4>1. cmd_pending \in Seq(Cmds) /\ Head(cmd_pending) = cmd_pending[1]
        BY <1>7 DEF TypeOK
      <4>2. QED
        BY <1>7, <4>1, BodiesTail, Carriers
    <3> HIDE DEF x, q
    <3>5. Todo' = x \o q'
      BY <1>1, <1>2, <3>2, <3>3, SendFirst
    <3>6. Todo' = Tail(Todo)
      BY <1>2, <2>3, <3>2, <3>5
    <3>7. QED
      BY <2>3, <2>5, <3>2, <3>4, <3>6
  <2>6. QED
    BY <1>7, <2>1, <2>4, <2>5, ReplyAbandons
<1>8. QED
  BY <1>5, <1>6, <1>7

(* Nor does the head that is written again. *)
LEMMA TimeoutTodo ==
  ASSUME TypeOK, SendsCounted, Orderly, TypeOK', mcu_clear_timeout
  PROVE  Todo' = Todo
<1> DEFINE x == Bodies(tx)
<1> DEFINE q == Bodies(cmd_pending)
<1>1. timer /\ ~timer' /\ rx' = rx
  BY DEF mcu_clear_timeout
<1>2. cmd_pending # <<>> /\ tx = <<>> /\ rx = <<>>
  BY <1>1, OrderlyLine DEF OneThing
<1>3. /\ Todo = x \o (IF Rejected THEN q ELSE Rest(q))
      /\ Todo' = x' \o (IF Rejected' THEN q' ELSE Rest(q'))
  BY DEF Todo
<1>4. Rejected /\ ~Rejected'
  BY <1>1, <1>2 DEF Rejected
<1>5. /\ cmd_pending \in Seq(Cmds) /\ cmd_pending' \in Seq(Cmds) /\ tx \in Seq(Frames)
      /\ Head(cmd_pending) = cmd_pending[1] /\ cmd_pending[1] \in Cmds
  BY <1>2 DEF TypeOK
<1>6. /\ Len(cmd_pending') = Len(cmd_pending)
      /\ \A i \in 1 .. Len(cmd_pending) : Frame(cmd_pending'[i]) = Frame(cmd_pending[i])
      /\ tx' = Append(tx, Frame(cmd_pending[1]))
  BY <1>2, TimeoutCmds
<1>7. q' = q
  BY <1>5, <1>6, SameBodies
<1>8. x' = Append(x, Head(q)) /\ q # <<>>
  <2>1. x' = Append(x, Frame(cmd_pending[1]).body)
    BY <1>5, <1>6, FrameType, BodiesAppend, Carriers
  <2>2. Head(q) = cmd_pending[1].body
    BY <1>2, <1>5, BodiesTail, Carriers
  <2>3. q # <<>>
    BY <1>2, TodoType
  <2>4. QED
    BY <2>1, <2>2, <2>3 DEF Frame
<1>9. x \in Seq(Commands) /\ q \in Seq(Commands)
  BY TodoType
<1> HIDE DEF x, q
<1>10. x' \o Rest(q) = x \o q
  BY <1>8, <1>9, SendFirst
<1>11. QED
  BY <1>3, <1>4, <1>7, <1>10

(* A frame that the MCU executes or the line loses is off the list. *)
LEMMA TakenTodo ==
  ASSUME TypeOK, Orderly, tx # <<>>, tx' = Tail(tx), cmd_pending' = cmd_pending,
         ~Rejected, ~Rejected'
  PROVE  Todo # <<>> /\ Todo' = Tail(Todo) /\ Head(Todo) = Head(tx).body
<1> DEFINE x == Bodies(tx)
<1> DEFINE r == Rest(Bodies(cmd_pending))
<1>1. Todo = x \o r /\ Todo' = x' \o r' /\ r' = r
  BY DEF Todo
<1>2. x \in Seq(Commands) /\ r \in Seq(Commands) /\ x # <<>>
  BY TodoType
<1>3. x' = Tail(x) /\ Head(x) = Head(tx).body
  <2>1. tx \in Seq(Frames)
    BY DEF TypeOK
  <2>2. QED
    BY <2>1, BodiesTail, Carriers
<1> HIDE DEF x, r
<1>4. Tail(x \o r) = Tail(x) \o r /\ Head(x \o r) = Head(x) /\ x \o r # <<>>
  BY <1>2, TailConcat
<1>5. QED
  BY <1>1, <1>3, <1>4

(* A rejected one is on it still. *)
LEMMA RejectTodo ==
  ASSUME TypeOK, Orderly, McuReject
  PROVE  Todo' = Todo
<1> DEFINE x == Bodies(tx)
<1> DEFINE q == Bodies(cmd_pending)
<1>1. tx # <<>> /\ MayReject /\ cmd_pending' = cmd_pending /\ timer' = timer
  BY DEF McuReject
<1>2. /\ cmd_pending # <<>> /\ Head(tx) = Frame(Head(cmd_pending)) /\ rx = <<>>
      /\ Len(tx) = 1 /\ ~timer
  BY <1>1, OrderlyLine DEF OneThing
<1>3. tx \in Seq(Frames) /\ cmd_pending \in Seq(Cmds)
  BY DEF TypeOK
<1>4. tx' = <<>> /\ rx' = <<[kind |-> "f0", frame |-> Head(tx)]>>
  BY <1>2, <1>3 DEF McuReject
<1>5. ~Rejected /\ Rejected'
  BY <1>2, <1>4 DEF Rejected
<1>6. /\ Todo = x \o (IF Rejected THEN q ELSE Rest(q))
      /\ Todo' = x' \o (IF Rejected' THEN q' ELSE Rest(q'))
  BY DEF Todo
<1>7. x \in Seq(Commands) /\ q \in Seq(Commands) /\ q # <<>>
  BY <1>2, TodoType
<1>8. x = <<Head(q)>>
  <2>1. Len(x) = 1 /\ x[1] = tx[1].body /\ Head(tx) = tx[1]
    BY <1>2, <1>3, BodiesOf, Carriers
  <2>2. Head(q) = Head(cmd_pending).body
    BY <1>2, <1>3, BodiesTail, Carriers
  <2>3. x[1] = Head(q)
    BY <1>2, <2>1, <2>2 DEF Frame
  <2> HIDE DEF x, q
  <2>4. QED
    BY <1>7, <2>1, <2>3
<1>9. x' = <<>> /\ q' = q
  BY <1>1, <1>4 DEF Bodies
<1> HIDE DEF x, q
<1>10. x \o Rest(q) = q
  <2>0. <<>> \in Seq(Commands)
    OBVIOUS
  <2>1. Append(<<>>, Head(q)) \o Rest(q) = <<>> \o q
    BY <1>7, <2>0, Hand DEF Rest
  <2>2. Append(<<>>, Head(q)) = <<Head(q)>> /\ <<>> \o q = q
    BY <1>7
  <2>3. QED
    BY <1>8, <2>1, <2>2
<1>11. Todo' = q
  BY <1>5, <1>6, <1>7, <1>9
<1>12. QED
  BY <1>5, <1>6, <1>10, <1>11

(* A burst is added at its end. *)
LEMMA BurstTodo ==
  ASSUME TypeOK, SendsCounted, Orderly, TypeOK', NEW cs \in Seq(Commands), poe_cmd_queue(cs)
  PROVE  Todo' = Todo \o cs
<1> DEFINE x == Bodies(tx)
<1> DEFINE q == Bodies(cmd_pending)
<1>1. timer' = timer /\ rx' = rx
  BY DEF poe_cmd_queue
<1>2. Rejected' = Rejected
  BY <1>1 DEF Rejected
<1>3. /\ Todo = x \o (IF Rejected THEN q ELSE Rest(q))
      /\ Todo' = x' \o (IF Rejected' THEN q' ELSE Rest(q'))
  BY DEF Todo
<1>4. /\ x \in Seq(Commands) /\ q \in Seq(Commands) /\ Rest(q) \in Seq(Commands)
      /\ (q = <<>>) <=> (cmd_pending = <<>>)
  BY TodoType
<1>5. q' = q \o cs
  BY QueueBodies
<1>6. CASE cmd_pending = <<>>
  <2>1. ~Rejected
    BY <1>6, OrderlyLine DEF OneThing, Rejected
  <2>2. ~timer
    BY <2>1 DEF Rejected
  <2>3. q = <<>> /\ q' = cs
    BY <1>4, <1>5, <1>6
  <2>4. cmd_pending' \in Seq(Cmds) /\ tx \in Seq(Frames)
    BY DEF TypeOK
  <2>5. tx' = IF cmd_pending' = <<>> THEN tx ELSE Append(tx, Frame(cmd_pending'[1]))
    BY <1>6, <2>2, QueueCmds
  <2>6. x' = IF q' = <<>> THEN x ELSE Append(x, Head(q'))
    <3>1. (q' = <<>>) <=> (cmd_pending' = <<>>)
      BY <2>4, BodiesOf, Carriers
    <3>2. CASE cmd_pending' = <<>>
      BY <2>5, <3>1, <3>2
    <3>3. CASE cmd_pending' # <<>>
      <4>1. cmd_pending'[1] \in Cmds /\ Head(cmd_pending') = cmd_pending'[1]
        BY <2>4, <3>3
      <4>2. x' = Append(x, Frame(cmd_pending'[1]).body)
        BY <2>4, <2>5, <3>3, <4>1, FrameType, BodiesAppend, Carriers
      <4>3. Head(q') = cmd_pending'[1].body
        BY <2>4, <3>3, <4>1, BodiesTail, Carriers
      <4>4. Frame(cmd_pending'[1]).body = cmd_pending'[1].body
        BY DEF Frame
      <4>5. QED
        BY <3>1, <3>3, <4>2, <4>3, <4>4
    <3>4. QED
      BY <3>2, <3>3
  <2> HIDE DEF x, q
  <2>7. x' \o Rest(q') = x \o cs
    BY <1>4, <2>3, <2>6, SendFirst
  <2>8. Todo = x
    BY <1>3, <1>4, <2>1, <2>3 DEF Rest
  <2>9. QED
    BY <1>2, <1>3, <2>1, <2>7, <2>8
<1>7. CASE cmd_pending # <<>>
  <2>1. tx' = tx
    BY <1>7, QueueCmds
  <2>2. x' = x
    BY <2>1
  <2> HIDE DEF x, q
  <2>3. q # <<>>
    BY <1>4, <1>7
  <2>4. q' # <<>> /\ Rest(q') = Rest(q) \o cs
    <3>1. Tail(q \o cs) = Tail(q) \o cs /\ q \o cs # <<>>
      BY <1>4, <2>3, TailConcat
    <3>2. QED
      BY <1>5, <2>3, <3>1 DEF Rest
  <2>5. CASE Rejected
    <3>1. Todo = x \o q /\ Todo' = x \o (q \o cs)
      BY <1>2, <1>3, <1>5, <2>2, <2>5
    <3>2. QED
      BY <1>4, <3>1, ConcatAssoc
  <2>6. CASE ~Rejected
    <3>1. Todo = x \o Rest(q) /\ Todo' = x \o (Rest(q) \o cs)
      BY <1>2, <1>3, <2>2, <2>4, <2>6
    <3>2. QED
      BY <1>4, <3>1, ConcatAssoc
  <2>7. QED
    BY <2>5, <2>6
<1>8. QED
  BY <1>6, <1>7

(* An executed one is off the list. *)
LEMMA ExecuteTodo ==
  ASSUME TypeOK, TypeOK', SendsCounted, Orderly, McuExecute
  PROVE  Todo # <<>> /\ Todo' = Tail(Todo) /\ Head(Todo) = Head(tx).body
<1>1. /\ tx # <<>> /\ tx' = Tail(tx) /\ rx \in Seq(Replies)
      /\ cmd_pending' = cmd_pending /\ timer' = timer
  BY DEF McuExecute, TypeOK
<1>2. ~Rejected /\ ~Rejected'
  <2>1. CASE ~MayReject /\ NeverRejected
    <3>1. NeverRejected'
      BY <2>1, NextRejected DEF Next, Mcu
    <3>2. ~Rejected
      BY <1>1, <2>1 DEF NeverRejected, Rejected
    <3>3. ~Rejected'
      BY <3>1 DEF NeverRejected, Rejected, TypeOK
    <3>4. QED
      BY <3>2, <3>3
  <2>2. CASE MaxRestarts = 0 /\ restarts = 0 /\ OneInFlight
    <3>1. rx = <<>> /\ ~timer
      BY <1>1, <2>2, OneThingOnLine DEF OneThing
    <3>2. PICK k \in {"ok", "bad"} : rx' = <<[kind |-> k, frame |-> Head(tx)]>>
      BY <3>1 DEF McuExecute
    <3>3. QED
      BY <1>1, <3>1, <3>2 DEF Rejected
  <2>3. QED
    BY <2>1, <2>2 DEF Orderly
<1>3. QED
  BY <1>1, <1>2, TakenTodo

(* One whose rejection is damaged is off the list, unexecuted. *)
LEMMA RejectDamagedTodo ==
  ASSUME TypeOK, TypeOK', SendsCounted, Orderly, McuRejectDamaged
  PROVE  /\ Todo # <<>> /\ Todo' = Tail(Todo)
         /\ abandoned' = abandoned \cup EnablePort(Head(Todo))
<1>1. /\ tx # <<>> /\ tx' = Tail(tx) /\ MayReject
      /\ cmd_pending' = cmd_pending /\ timer' = timer
      /\ abandoned' = abandoned \cup EnablePort(Head(tx).body)
  BY DEF McuRejectDamaged
<1>2. rx = <<>> /\ ~timer
  BY <1>1, OrderlyLine DEF OneThing
<1>3. rx' = <<[kind |-> "bad", frame |-> Head(tx)]>>
  BY <1>2 DEF McuRejectDamaged
<1>4. ~Rejected /\ ~Rejected'
  BY <1>1, <1>2, <1>3 DEF Rejected
<1>5. Todo # <<>> /\ Todo' = Tail(Todo) /\ Head(Todo) = Head(tx).body
  BY <1>1, <1>4, TakenTodo
<1>6. QED
  BY <1>1, <1>5

(* A lost frame is off the list; so is the head, if its rejection is lost. *)
LEMMA LoseTodo ==
  ASSUME TypeOK, TypeOK', SendsCounted, Orderly, Lose
  PROVE  \/ /\ Todo # <<>> /\ Todo' = Tail(Todo)
            /\ tx # <<>> /\ abandoned' = abandoned \cup EnablePort(Head(Todo))
         \/ Todo # <<>> /\ Todo' = Tail(Todo) /\ Stalled'
         \/ Todo' = Todo /\ abandoned' = abandoned /\ rx # <<>>
<1>1. cmd_pending' = cmd_pending /\ timer' = timer /\ rx \in Seq(Replies)
  BY DEF Lose, TypeOK
<1>2. CASE tx # <<>> /\ tx' = Tail(tx) /\ rx' = rx
           /\ abandoned' = abandoned \cup EnablePort(Head(tx).body)
  <2>1. ~Rejected
    BY <1>2, OrderlyLine DEF OneThing, Rejected
  <2>2. ~Rejected'
    BY <1>1, <1>2, <2>1 DEF Rejected
  <2>3. Todo # <<>> /\ Todo' = Tail(Todo) /\ Head(Todo) = Head(tx).body
    BY <1>1, <1>2, <2>1, <2>2, TakenTodo
  <2>4. QED
    BY <1>2, <2>3
<1>3. CASE rx # <<>> /\ rx' = Tail(rx) /\ tx' = tx /\ abandoned' = abandoned
  <2>1. CASE ~MayReject /\ NeverRejected /\ ~Rejected /\ ~timer
    <3>1. NeverRejected'
      BY <2>1, NextRejected DEF Next
    <3>2. ~Rejected'
      BY <3>1 DEF NeverRejected, Rejected, TypeOK
    <3>3. Todo' = Todo
      BY <1>1, <1>3, <2>1, <3>2 DEF Todo
    <3>4. QED
      BY <1>3, <3>3
  <2>2. CASE OneThing
    <3>1. cmd_pending # <<>> /\ Len(rx) = 1 /\ tx = <<>> /\ ~timer
      BY <1>3, <2>2 DEF OneThing
    <3>2. rx' = <<>>
      BY <1>1, <1>3, <3>1
    <3>3. Stalled' /\ ~Rejected'
      BY <1>1, <1>3, <3>1, <3>2 DEF Stalled, Rejected
    <3> DEFINE q == Bodies(cmd_pending)
    <3>4. q \in Seq(Commands) /\ Rest(q) \in Seq(Commands) /\ q # <<>>
      BY <3>1, TodoType
    <3>5. /\ Todo = Bodies(tx) \o (IF Rejected THEN q ELSE Rest(q))
          /\ Todo' = Bodies(tx) \o Rest(q)
      BY <1>1, <1>3, <3>3 DEF Todo
    <3>6. Bodies(tx) = <<>>
      BY <3>1, TodoType
    <3> HIDE DEF q
    <3>7. Todo = (IF Rejected THEN q ELSE Rest(q)) /\ Todo' = Rest(q)
      BY <3>4, <3>5, <3>6
    <3>8. CASE Rejected
      BY <3>3, <3>4, <3>7, <3>8 DEF Rest
    <3>9. CASE ~Rejected
      BY <1>3, <3>7, <3>9
    <3>10. QED
      BY <3>8, <3>9
  <2>3. QED
    BY <2>1, <2>2, OrderlyLine
<1>4. QED
  BY <1>2, <1>3 DEF Lose

-----------------------------------------------------------------------------
(* Setups *)

(* A burst without enable commands touches no port. *)
LEMMA PlainUntouched ==
  ASSUME NEW n \in Nat, NEW p
  PROVE  /\ Untouched(Repeat(Query, n), p) /\ Untouched(Repeat(Setting, n), p)
         /\ Untouched(<<Query>>, p)
BY DEF Untouched, Repeat, Query, Setting, Switches

(* A manage call switches its port and no other. *)
LEMMA OneEnable ==
  ASSUME NEW p \in Ports, NEW on \in BOOLEAN
  PROVE  /\ <<Enable(p, on)>> \in Seq(Commands)
         /\ EndsWith(<<Enable(p, on)>>, p, on)
         /\ \A r \in Ports \ {p} : Untouched(<<Enable(p, on)>>, r)
<1>1. Enable(p, on) \in Commands
  BY DEF Commands
<1>2. Switches(Enable(p, on), p) /\ Enable(p, on).on = on
  BY DEF Switches, Enable
<1>3. \A r \in Ports \ {p} : ~Switches(Enable(p, on), r)
  BY DEF Switches, Enable
<1> DEFINE t == <<Enable(p, on)>>
<1>4. Len(t) = 1 /\ t[1] = Enable(p, on)
  OBVIOUS
<1> HIDE DEF t
<1>5. EndsWith(t, p, on)
  BY <1>2, <1>4 DEF EndsWith
<1>6. \A r \in Ports \ {p} : Untouched(t, r)
  BY <1>3, <1>4 DEF Untouched
<1>7. QED
  BY <1>1, <1>5, <1>6 DEF t

(* A setup ends with every port as configured. *)
LEMMA SetupEnds ==
  ASSUME NEW cfg \in [Ports -> BOOLEAN], NEW p \in Ports
  PROVE  EndsWith(poe_port_setup(cfg), p, cfg[p]) /\ EndsWith(poe_initial_setup(cfg), p, cfg[p])
<1> DEFINE s == [i \in Ports |-> Enable(i, cfg[i])]
<1>1. s \in Seq(Commands) /\ Len(s) = NumPorts
  <2>1. \A i \in Ports : Enable(i, cfg[i]) \in Commands
    BY DEF Commands
  <2>2. QED
    BY <2>1, ConstantsAssumption DEF Ports
<1>2. \A i \in 1 .. NumPorts : s[i] = Enable(i, cfg[i])
  BY DEF Ports
<1>3. poe_port_setup(cfg) = poet_setup(cfg) \o s
  BY DEF poe_port_setup
<1> HIDE DEF s
<1>4. Switches(s[p], p) /\ s[p].on = cfg[p] /\ p \in 1 .. Len(s)
  BY <1>1, <1>2 DEF Ports, Switches, Enable
<1>5. \A j \in p + 1 .. Len(s) : ~Switches(s[j], p)
  <2>1. TAKE j \in p + 1 .. Len(s)
  <2>2. j \in 1 .. NumPorts /\ j # p
    BY <1>1, ConstantsAssumption DEF Ports
  <2>3. s[j] = Enable(j, cfg[j])
    BY <1>2, <2>2
  <2>4. Enable(j, cfg[j]).port = j
    BY DEF Enable
  <2>5. QED
    BY <2>2, <2>3, <2>4 DEF Switches
<1>6. EndsWith(s, p, cfg[p])
  BY <1>4, <1>5 DEF EndsWith
<1>7. poet_setup(cfg) \in Seq(Commands)
  <2>1. 3 * Groups(cfg) \in Nat
    BY GroupsType
  <2>2. QED
    BY <2>1, RepeatType, PlainCommands DEF poet_setup
<1>8. EndsWith(poe_port_setup(cfg), p, cfg[p])
  BY <1>1, <1>3, <1>6, <1>7, EndsLater
<1>9. <<Query>> \in Seq(Commands) /\ Repeat(Setting, 3) \in Seq(Commands)
  BY RepeatType, PlainCommands
<1>10. <<Query>> \o Repeat(Setting, 3) \in Seq(Commands)
  BY <1>9, ConcatOf
<1>11. poe_initial_setup(cfg) = (<<Query>> \o Repeat(Setting, 3)) \o poe_port_setup(cfg)
  <2> DEFINE a == <<Query>>
  <2> DEFINE b == Repeat(Setting, 3)
  <2> DEFINE c == poe_port_setup(cfg)
  <2>1. a \in Seq(Commands) /\ b \in Seq(Commands) /\ c \in Seq(Commands)
    BY <1>9, PortSetupType
  <2>2. poe_initial_setup(cfg) = (a \o b) \o c
    BY DEF poe_initial_setup
  <2>3. QED
    BY <2>2
<1>12. QED
  BY <1>8, <1>10, <1>11, PortSetupType, EndsLater

(* A start of the daemon adds the whole setup to what is on the line x. *)
LEMMA StartTodo ==
  ASSUME NEW cfg \in [Ports -> BOOLEAN], NEW x \in Seq(Frames)
  PROVE  LET q == NewCmds(poe_initial_setup(cfg), 0) IN
         Bodies(Append(x, Frame(Head(q)))) \o Rest(Bodies(Written(q)))
            = Bodies(x) \o poe_initial_setup(cfg)
<1> DEFINE cs == poe_initial_setup(cfg)
<1> DEFINE q == NewCmds(cs, 0)
<1>1. cs \in Seq(Commands) /\ cs # <<>>
  BY InitialSetupType
<1> HIDE DEF cs
<1>2. /\ q \in Seq(Cmds) /\ Len(q) = Len(cs) /\ Bodies(q) = cs
      /\ \A i \in 1 .. Len(q) : q[i].sent = 0 /\ q[i].num_retries = 0
  BY <1>1, NewCmdsType, NewBodies
<1> HIDE DEF q
<1>3. q # <<>> /\ Waiting(q)
  BY <1>1, <1>2 DEF Waiting
<1>4. Bodies(Written(q)) = cs
  BY <1>2, <1>3, WrittenType, SameBodies
<1>5. Head(q) \in Cmds /\ Head(cs) = Head(q).body
  BY <1>2, <1>3, BodiesTail, Carriers
<1>6. Frame(Head(q)) \in Frames /\ Frame(Head(q)).body = Head(q).body
  BY <1>5, FrameType DEF Frame
<1>7. Bodies(Append(x, Frame(Head(q)))) = Append(Bodies(x), Head(cs))
  BY <1>5, <1>6, BodiesAppend, Carriers
<1>8. Bodies(x) \in Seq(Commands)
  BY BodiesOf, Carriers
<1>9. Append(Bodies(x), Head(cs)) \o Rest(cs) = Bodies(x) \o cs
  BY <1>1, <1>8, SendFirst
<1>10. QED
  BY <1>4, <1>7, <1>9 DEF q, cs

-----------------------------------------------------------------------------
(* RealtekPoe implements PoeFifo *)

(* main starts in an initial state of the abstract queue. *)
LEMMA InitFifo == Init => Fifo!Init
<1> SUFFICES ASSUME Init PROVE Fifo!Init
  OBVIOUS
<1> DEFINE q == NewCmds(poe_initial_setup(enable), 0)
<1>1. /\ enable \in [Ports -> BOOLEAN] /\ power \in [Ports -> BOOLEAN] /\ restarts = 0
      /\ cmd_pending = Written(q) /\ tx = <<Frame(Head(q))>> /\ rx = <<>> /\ ~timer
  BY DEF Init, config_load
<1>2. ~Rejected
  BY <1>1 DEF Rejected
<1>3. <<>> \in Seq(Frames) /\ tx = Append(<<>>, Frame(Head(q)))
  BY <1>1
<1>4. Todo = Bodies(tx) \o Rest(Bodies(Written(q)))
  BY <1>1, <1>2 DEF Todo
<1>5. Bodies(Append(<<>>, Frame(Head(q)))) \o Rest(Bodies(Written(q)))
         = Bodies(<<>>) \o poe_initial_setup(enable)
  BY <1>1, <1>3, StartTodo
<1> HIDE DEF q
<1>6. Todo = Bodies(<<>>) \o poe_initial_setup(enable)
  BY <1>3, <1>4, <1>5
<1>7. Bodies(<<>>) = <<>> /\ poe_initial_setup(enable) \in Seq(Commands)
  BY <1>1, InitialSetupType DEF Bodies
<1>8. Todo = poe_initial_setup(enable)
  <2> DEFINE s == poe_initial_setup(enable)
  <2> HIDE DEF s
  <2>1. Bodies(<<>>) = <<>> /\ s \in Seq(Commands) /\ Todo = Bodies(<<>>) \o s
    BY <1>6, <1>7 DEF s
  <2>2. Todo = s
    BY <2>1
  <2>3. QED
    BY <2>2 DEF s
<1>9. QED
  BY <1>1, <1>8 DEF Fifo!Init

(* What extends a list of commands starts with it. *)
LEMMA Extends ==
  ASSUME NEW S, NEW s \in Seq(S), NEW t \in Seq(S)
  PROVE  /\ s \o t \in Seq(S) /\ Len(s \o t) >= Len(s) /\ Len(s) \in 0 .. Len(s \o t)
         /\ SubSeq(s \o t, 1, Len(s)) = s
OBVIOUS

(* A restart keeps the frames that are on the line, forgets the rest of the   *)
(* queue and adds a setup.                                                    *)
LEMMA RestartFifo ==
  ASSUME TypeOK, TypeOK', SendsCounted, Orderly, Restart
  PROVE  Fifo!Restart
<1> DEFINE q == NewCmds(poe_initial_setup(uci), 0)
<1>1. /\ cmd_pending' = Written(q) /\ tx' = Append(tx, Frame(Head(q)))
      /\ restarts' = restarts + 1 /\ power' = power
  BY DEF Restart, config_load
<1>2. uci \in [Ports -> BOOLEAN] /\ tx \in Seq(Frames)
  BY DEF TypeOK
<1>3. ~Rejected /\ ~Rejected'
  <2>1. MaxRestarts # 0
    BY ConstantsAssumption DEF Restart, TypeOK
  <2>2. ~MayReject /\ NeverRejected /\ ~Rejected
    BY <2>1, OrderlyLine
  <2>3. NeverRejected'
    BY <2>2, NextRejected DEF Next
  <2>4. ~Rejected'
    BY <2>3 DEF NeverRejected, Rejected, TypeOK
  <2>5. QED
    BY <2>2, <2>4
<1>4. Todo' = Bodies(Append(tx, Frame(Head(q)))) \o Rest(Bodies(Written(q)))
  BY <1>1, <1>3 DEF Todo
<1>5. Todo' = Bodies(tx) \o poe_initial_setup(uci)
  BY <1>2, <1>4, StartTodo
<1> HIDE DEF q
<1> DEFINE x == Bodies(tx)
<1> DEFINE r == Rest(Bodies(cmd_pending))
<1>6. x \in Seq(Commands) /\ r \in Seq(Commands) /\ Todo = x \o r
  BY <1>3, TodoType DEF Todo
<1> HIDE DEF x, r
<1>7. Len(x) \in 0 .. Len(Todo) /\ SubSeq(Todo, 1, Len(x)) = x
  BY <1>6, Extends
<1>8. Todo' = SubSeq(Todo, 1, Len(x)) \o poe_initial_setup(uci)
  BY <1>5, <1>7 DEF x
<1>9. QED
  BY <1>1, <1>2, <1>7, <1>8 DEF Fifo!Restart

(* What the list and the supplies become in a step of RealtekPoe is a step of *)
(* PoeFifo or changes nothing there.                                          *)
LEMMA NextFifo ==
  ASSUME TypeOK, SendsCounted, Orderly, [Next]_vars
  PROVE  [Fifo!Next]_(Fifo!vars)
<1>1. TypeOK' /\ SendsCounted' /\ Orderly'
  BY NextCounted, NextOrderly
<1>2. ASSUME Todo' = Todo, power' = power, restarts' = restarts
      PROVE  [Fifo!Next]_(Fifo!vars)
  BY <1>2 DEF Fifo!vars
<1>3. ASSUME Todo # <<>>, Todo' = Tail(Todo), power' = power, restarts' = restarts
      PROVE  [Fifo!Next]_(Fifo!vars)
  BY <1>3 DEF Fifo!Next, Fifo!GiveUp
<1>4. CASE poe_stream_msg_cb
  <2>1. power' = power /\ restarts' = restarts
    BY <1>4 DEF poe_stream_msg_cb, bounds
  <2>2. Todo' = Todo \/ (Todo # <<>> /\ Todo' = Tail(Todo))
    BY <1>1, <1>4, ReplyTodo
  <2>3. QED
    BY <1>2, <1>3, <2>1, <2>2
<1>5. CASE mcu_clear_timeout
  <2>1. power' = power /\ restarts' = restarts
    BY <1>5 DEF mcu_clear_timeout, bounds
  <2>2. QED
    BY <1>1, <1>2, <1>5, <2>1, TimeoutTodo
<1>6. CASE McuExecute
  <2>1. power' = Apply(Head(tx).body, power) /\ restarts' = restarts
    BY <1>6 DEF McuExecute, bounds
  <2>2. Todo # <<>> /\ Todo' = Tail(Todo) /\ Head(Todo) = Head(tx).body
    BY <1>1, <1>6, ExecuteTodo
  <2>3. QED
    BY <2>1, <2>2 DEF Fifo!Next, Fifo!Execute
<1>7. CASE McuReject
  <2>1. power' = power /\ restarts' = restarts
    BY <1>7 DEF McuReject, bounds
  <2>2. QED
    BY <1>2, <1>7, <2>1, RejectTodo
<1>8. CASE Lose
  <2>1. power' = power /\ restarts' = restarts
    BY <1>8 DEF Lose, bounds
  <2>2. Todo' = Todo \/ (Todo # <<>> /\ Todo' = Tail(Todo))
    BY <1>1, <1>8, LoseTodo
  <2>3. QED
    BY <1>2, <1>3, <2>1, <2>2
<1>9. CASE Save \/ UNCHANGED vars
  <2>1. UNCHANGED <<cmd_pending, timer, tx, rx, power, restarts>>
    BY <1>9 DEF Save, vars, line, bounds
  <2>2. Todo' = Todo
    BY <2>1 DEF Todo, Rejected
  <2>3. QED
    BY <1>2, <2>1, <2>2
<1>10. CASE Restart
  BY <1>1, <1>10, RestartFifo DEF Fifo!Next
<1>11. CASE \/ state_timeout_cb \/ ubus_poe_reload_cb \/ ubus_poe_sendframe_cb
            \/ \E p \in Ports, on \in BOOLEAN : ubus_poe_manage_cb(p, on)
  <2>1. power' = power /\ restarts' = restarts
    BY <1>11, BurstCounted
  <2>2. PICK cs \in Seq(Commands) : poe_cmd_queue(cs)
    BY <1>11, BurstCounted
  <2>3. Todo' = Todo \o cs
    BY <1>1, <2>2, BurstTodo
  <2>4. Todo' \in Seq(Commands) /\ Len(Todo') >= Len(Todo) /\ SubSeq(Todo', 1, Len(Todo)) = Todo
    BY <2>3, TodoType, Extends
  <2>5. QED
    BY <2>1, <2>4 DEF Fifo!Next, Fifo!Submit
<1>12. CASE McuRejectDamaged
  <2>1. power' = power /\ restarts' = restarts
    BY <1>12 DEF McuRejectDamaged, bounds
  <2>2. QED
    BY <1>1, <1>3, <1>12, <2>1, RejectDamagedTodo
<1>13. QED
  BY <1>4, <1>5, <1>6, <1>7, <1>8, <1>9, <1>10, <1>11, <1>12 DEF Next, Daemon, Mcu

(* On a line that loses and damages what it likes the daemon keeps its promise *)
(* to the callers: commands are executed in the order of submission, each at   *)
(* most once, and a restart forgets only commands not yet written.  The MCU    *)
(* may reject commands, or procd may restart the daemon, for every number of   *)
(* ports, retries, calls and restarts.                                         *)
THEOREM FifoTheorem ==
  ASSUME ~MayReject \/ MaxRestarts = 0
  PROVE  Spec => ImplementsFifo
<1>1. Init => Orderly
  BY InitOrderly
<1>2. ASSUME TypeOK, SendsCounted, Orderly, [Next]_vars
      PROVE  Orderly' /\ [Fifo!Next]_(Fifo!vars)
  BY <1>2, NextOrderly, NextFifo
<1>3. QED
  BY <1>1, <1>2, InitFifo, TypeCorrect, SendsTheorem, PTL DEF Spec, ImplementsFifo, Fifo!Spec

-----------------------------------------------------------------------------
(* The supplies settle as asked *)

(* After a start every port is on the list, as configured. *)
LEMMA StartAssured ==
  ASSUME NEW cfg \in [Ports -> BOOLEAN], NEW x \in Seq(Frames), NEW p \in Ports, NEW ok
  PROVE  LET q == NewCmds(poe_initial_setup(cfg), 0) IN
         Assured(Bodies(Append(x, Frame(Head(q)))) \o Rest(Bodies(Written(q))), p, cfg[p], ok)
<1>1. Bodies(x) \in Seq(Commands) /\ poe_initial_setup(cfg) \in Seq(Commands)
  BY BodiesOf, Carriers, InitialSetupType
<1>2. EndsWith(Bodies(x) \o poe_initial_setup(cfg), p, cfg[p])
  BY <1>1, SetupEnds, EndsLater
<1>3. QED
  BY <1>2, StartTodo DEF Assured

(* The setup of main names every port. *)
LEMMA InitTracked == Init => Tracked
<1> SUFFICES ASSUME Init PROVE Tracked
  OBVIOUS
<1> DEFINE q == NewCmds(poe_initial_setup(enable), 0)
<1>1. enable \in [Ports -> BOOLEAN] /\ wanted = enable
  BY DEF Init, config_load
<1>2. cmd_pending = Written(q) /\ tx = Append(<<>>, Frame(Head(q))) /\ rx = <<>> /\ ~timer
  BY DEF Init
<1>3. ~Rejected
  BY <1>2 DEF Rejected
<1>4. Todo = Bodies(Append(<<>>, Frame(Head(q)))) \o Rest(Bodies(Written(q)))
  BY <1>2, <1>3 DEF Todo
<1> HIDE DEF q
<1>5. ASSUME NEW p \in Ports, NEW ok PROVE Assured(Todo, p, wanted[p], ok)
  <2>1. <<>> \in Seq(Frames)
    OBVIOUS
  <2>2. QED
    BY <1>1, <1>4, <2>1, StartAssured DEF q
<1>6. QED
  BY <1>5 DEF Tracked, AllAssured

(* A step that leaves what the MCU will be told alone leaves every port assured. *)
LEMMA SameTracked ==
  ASSUME AllAssured, Todo' = Todo, wanted' = wanted,
         \A p \in Ports : Fine(p) => Fine(p)'
  PROVE  Tracked'
<1>1. ASSUME NEW p \in Ports PROVE Assured(Todo', p, wanted'[p], Fine(p)')
  <2>1. Assured(Todo, p, wanted[p], Fine(p))
    BY DEF AllAssured
  <2>2. Assured(Todo, p, wanted[p], Fine(p)')
    BY <2>1 DEF Assured
  <2>3. QED
    BY <2>2
<1>2. AllAssured'
  BY <1>1 DEF AllAssured
<1>3. QED
  BY <1>2 DEF Tracked

(* So does one that takes its first command, if that leaves the ports it does *)
(* not switch alone and the port it switches fine.                            *)
LEMMA TailTracked ==
  ASSUME TypeOK, AllAssured, Todo # <<>>, Todo' = Tail(Todo), wanted' = wanted,
         \A p \in Ports : Fine(p) /\ ~Switches(Head(Todo), p) => Fine(p)',
         \A p \in Ports : Switches(Head(Todo), p) /\ Head(Todo).on = wanted[p] => Fine(p)'
  PROVE  Tracked'
<1>1. ASSUME NEW p \in Ports PROVE Assured(Todo', p, wanted'[p], Fine(p)')
  <2>1. Todo \in Seq(Commands)
    BY TodoType
  <2>2. Assured(Todo, p, wanted[p], Fine(p))
    BY DEF AllAssured
  <2>3. Fine(p) \in BOOLEAN /\ Fine(p)' \in BOOLEAN
    BY DEF Fine
  <2>4. Assured(Tail(Todo), p, wanted[p], Fine(p)')
    BY <2>1, <2>2, <2>3, AssuredTail
  <2>5. QED
    BY <2>4
<1>2. AllAssured'
  BY <1>1 DEF AllAssured
<1>3. QED
  BY <1>2 DEF Tracked

(* Giving a command up, or losing it, names its port. *)
LEMMA AbandonTracked ==
  ASSUME TypeOK, AllAssured, Todo # <<>>, Todo' = Tail(Todo), wanted' = wanted, power' = power,
         abandoned' = abandoned \cup EnablePort(Head(Todo))
  PROVE  Tracked'
<1>1. \A p \in Ports : Fine(p) => Fine(p)'
  BY DEF Fine
<1>2. \A p \in Ports : Switches(Head(Todo), p) => Fine(p)'
  BY DEF Fine, Switches, EnablePort
<1>3. QED
  BY <1>1, <1>2, TailTracked

(* The MCU does what the frame says. *)
LEMMA ExecuteTracked ==
  ASSUME TypeOK, TypeOK', SendsCounted, Orderly, AllAssured, McuExecute
  PROVE  Tracked'
<1> DEFINE c == Head(tx).body
<1>1. /\ tx # <<>> /\ tx' = Tail(tx)
      /\ cmd_pending' = cmd_pending /\ timer' = timer /\ wanted' = wanted
  BY DEF McuExecute
<1>2. /\ power' = Apply(c, power)
      /\ abandoned' = IF c.op = "enable" THEN abandoned \ {c.port} ELSE abandoned
  BY DEF McuExecute
<1>3. tx \in Seq(Frames) /\ rx \in Seq(Replies) /\ power \in [Ports -> BOOLEAN]
  BY DEF TypeOK
<1>4. c \in Commands
  <2>1. Head(tx) \in Frames
    BY <1>1, <1>3
  <2>2. QED
    BY <2>1, Carriers
<1>5. Todo # <<>> /\ Todo' = Tail(Todo) /\ Head(Todo) = c
  BY ExecuteTodo
<1> HIDE DEF c
<1>6. ASSUME NEW p \in Ports, Fine(p), ~Switches(c, p) PROVE Fine(p)'
  <2>1. power'[p] = power[p]
    <3>1. CASE c.op = "enable"
      <4>1. c.port # p /\ power' = [power EXCEPT ![c.port] = c.on]
        BY <1>2, <1>6, <3>1 DEF Apply, Switches
      <4>2. QED
        BY <1>3, <4>1
    <3>2. CASE c.op # "enable"
      BY <1>2, <3>2 DEF Apply
    <3>3. QED
      BY <3>1, <3>2
  <2>2. p \in abandoned => p \in abandoned'
    BY <1>2, <1>6 DEF Switches
  <2>3. QED
    BY <1>1, <1>6, <2>1, <2>2 DEF Fine
<1>7. ASSUME NEW p \in Ports, Switches(c, p), c.on = wanted[p] PROVE Fine(p)'
  <2>1. power' = [power EXCEPT ![p] = c.on]
    BY <1>2, <1>7 DEF Apply, Switches
  <2>2. power'[p] = wanted'[p]
    BY <1>1, <1>3, <1>7, <2>1
  <2>3. QED
    BY <2>2 DEF Fine
<1>8. QED
  BY <1>1, <1>5, <1>6, <1>7, TailTracked

(* A burst is added to the list; what it says of a port is what is wanted now. *)
LEMMA BurstTracked ==
  ASSUME TypeOK, TypeOK', SendsCounted, Orderly, Tracked,
         NEW cs \in Seq(Commands), poe_cmd_queue(cs),
         power' = power, abandoned' = abandoned,
         \A p \in Ports : \/ EndsWith(cs, p, wanted'[p])
                          \/ Untouched(cs, p) /\ wanted'[p] = wanted[p]
  PROVE  Tracked'
<1>1. CASE Stalled
  <2>1. cmd_pending # <<>> /\ tx = <<>> /\ rx = <<>> /\ ~timer
    BY <1>1 DEF Stalled
  <2>2. /\ tx' = tx /\ rx' = rx /\ timer' = timer
        /\ Len(cmd_pending') >= Len(cmd_pending)
    BY <2>1, QueueCmds
  <2>3. cmd_pending' # <<>>
    <3>1. cmd_pending \in Seq(Cmds) /\ cmd_pending' \in Seq(Cmds)
      BY DEF TypeOK
    <3>2. QED
      BY <2>1, <2>2, <3>1
  <2>4. Stalled'
    BY <2>1, <2>2, <2>3 DEF Stalled
  <2>5. QED
    BY <2>4 DEF Tracked
<1>2. CASE AllAssured
  <2>1. Todo' = Todo \o cs
    BY BurstTodo
  <2>2. Todo \in Seq(Commands)
    BY TodoType
  <2>3. ASSUME NEW p \in Ports PROVE Assured(Todo', p, wanted'[p], Fine(p)')
    <3>1. CASE EndsWith(cs, p, wanted'[p])
      <4>1. EndsWith(Todo \o cs, p, wanted'[p])
        BY <2>2, <3>1, EndsLater
      <4>2. QED
        BY <2>1, <4>1 DEF Assured
    <3>2. CASE Untouched(cs, p) /\ wanted'[p] = wanted[p]
      <4>1. Fine(p)' <=> Fine(p)
        BY <3>2 DEF Fine
      <4>2. Fine(p) \in BOOLEAN /\ Fine(p)' \in BOOLEAN
        BY DEF Fine
      <4>3. Assured(Todo, p, wanted[p], Fine(p))
        BY <1>2 DEF AllAssured
      <4>4. Assured(Todo \o cs, p, wanted[p], Fine(p))
        BY <2>2, <3>2, <4>2, <4>3, AssuredLonger
      <4>5. Assured(Todo \o cs, p, wanted[p], Fine(p)')
        BY <4>1, <4>4 DEF Assured
      <4>6. QED
        BY <2>1, <3>2, <4>5
    <3>3. QED
      BY <3>1, <3>2
  <2>4. AllAssured'
    BY <2>3 DEF AllAssured
  <2>5. QED
    BY <2>4 DEF Tracked
<1>3. QED
  BY <1>1, <1>2 DEF Tracked

(* Every step keeps the account: one case per action. *)
LEMMA NextTracked ==
  ASSUME TypeOK, SendsCounted, Orderly, Tracked, [Next]_vars
  PROVE  Tracked'
<1>1. TypeOK' /\ SendsCounted' /\ Orderly'
  BY NextCounted, NextOrderly
<1>2. CASE poe_stream_msg_cb
  <2>1. rx # <<>> /\ wanted' = wanted /\ power' = power
    BY <1>2 DEF poe_stream_msg_cb
  <2>2. AllAssured
    BY <2>1 DEF Tracked, Stalled
  <2>3. CASE Todo' = Todo /\ abandoned' = abandoned
    <3>1. \A p \in Ports : Fine(p) => Fine(p)'
      BY <2>1, <2>3 DEF Fine
    <3>2. QED
      BY <2>1, <2>2, <2>3, <3>1, SameTracked
  <2>4. CASE /\ Todo # <<>> /\ Todo' = Tail(Todo)
             /\ abandoned' = abandoned \cup EnablePort(Head(Todo))
    BY <2>1, <2>2, <2>4, AbandonTracked
  <2>5. QED
    BY <1>1, <1>2, <2>3, <2>4, ReplyTodo
<1>3. CASE mcu_clear_timeout
  <2>1. timer /\ UNCHANGED <<wanted, power, abandoned>>
    BY <1>3 DEF mcu_clear_timeout, past
  <2>2. AllAssured
    BY <2>1 DEF Tracked, Stalled
  <2>3. Todo' = Todo
    BY <1>1, <1>3, TimeoutTodo
  <2>4. \A p \in Ports : Fine(p) => Fine(p)'
    BY <2>1 DEF Fine
  <2>5. QED
    BY <2>1, <2>2, <2>3, <2>4, SameTracked
<1>4. CASE McuExecute
  <2>1. AllAssured
    BY <1>4 DEF Tracked, Stalled, McuExecute
  <2>2. QED
    BY <1>1, <1>4, <2>1, ExecuteTracked
<1>5. CASE McuReject
  <2>1. tx # <<>> /\ UNCHANGED <<wanted, power, abandoned>>
    BY <1>5 DEF McuReject, past
  <2>2. AllAssured
    BY <2>1 DEF Tracked, Stalled
  <2>3. Todo' = Todo
    BY <1>5, RejectTodo
  <2>4. \A p \in Ports : Fine(p) => Fine(p)'
    BY <2>1 DEF Fine
  <2>5. QED
    BY <2>1, <2>2, <2>3, <2>4, SameTracked
<1>6. CASE Lose
  <2>1. wanted' = wanted /\ power' = power
    BY <1>6 DEF Lose
  <2>2. AllAssured
    BY <1>6 DEF Tracked, Stalled, Lose
  <2>3. CASE /\ Todo # <<>> /\ Todo' = Tail(Todo)
             /\ abandoned' = abandoned \cup EnablePort(Head(Todo))
    BY <2>1, <2>2, <2>3, AbandonTracked
  <2>4. CASE Todo' = Todo /\ abandoned' = abandoned
    <3>1. \A p \in Ports : Fine(p) => Fine(p)'
      BY <2>1, <2>4 DEF Fine
    <3>2. QED
      BY <2>1, <2>2, <2>4, <3>1, SameTracked
  <2>5. CASE Stalled'
    BY <2>5 DEF Tracked
  <2>6. QED
    BY <1>1, <1>6, <2>3, <2>4, <2>5, LoseTodo
<1>7. CASE Save \/ UNCHANGED vars
  <2>1. UNCHANGED <<cmd_pending, timer, tx, rx, wanted, power, abandoned>>
    BY <1>7 DEF Save, vars, line, past
  <2>2. CASE Stalled
    BY <2>1, <2>2 DEF Stalled, Tracked
  <2>3. CASE AllAssured
    <3>1. Todo' = Todo
      BY <2>1 DEF Todo, Rejected
    <3>2. \A p \in Ports : Fine(p) => Fine(p)'
      BY <2>1 DEF Fine
    <3>3. QED
      BY <2>1, <2>3, <3>1, <3>2, SameTracked
  <2>4. QED
    BY <2>2, <2>3 DEF Tracked
<1>8. CASE Restart
  <2> DEFINE q == NewCmds(poe_initial_setup(uci), 0)
  <2>1. /\ cmd_pending' = Written(q) /\ tx' = Append(tx, Frame(Head(q)))
        /\ ~timer' /\ wanted' = uci
    BY <1>8 DEF Restart, config_load
  <2>2. uci \in [Ports -> BOOLEAN] /\ tx \in Seq(Frames)
    BY DEF TypeOK
  <2>3. ~Rejected'
    <3>1. MaxRestarts # 0
      BY <1>8, ConstantsAssumption DEF Restart, TypeOK
    <3>2. ~MayReject /\ NeverRejected
      BY <3>1, OrderlyLine
    <3>3. NeverRejected'
      BY <1>8, <3>2, NextRejected DEF Next
    <3>4. QED
      BY <1>1, <3>3 DEF NeverRejected, Rejected, TypeOK
  <2>4. Todo' = Bodies(Append(tx, Frame(Head(q)))) \o Rest(Bodies(Written(q)))
    BY <2>1, <2>3 DEF Todo
  <2> HIDE DEF q
  <2>5. ASSUME NEW p \in Ports, NEW ok PROVE Assured(Todo', p, wanted'[p], ok)
    BY <2>1, <2>2, <2>4, StartAssured DEF q
  <2>6. AllAssured'
    BY <2>5 DEF AllAssured
  <2>7. QED
    BY <2>6 DEF Tracked
<1>9. CASE state_timeout_cb
  <2>1. poe_cmd_queue(StateQueries) /\ UNCHANGED <<power, abandoned, wanted>>
    BY <1>9 DEF state_timeout_cb, past
  <2>2. \A p \in Ports : Untouched(StateQueries, p)
    <3>1. 1 + (NumPorts + 3) \div 4 + 3 * NumPorts \in Nat
      BY ConstantsAssumption
    <3>2. QED
      BY <3>1, PlainUntouched DEF StateQueries
  <2>3. QED
    BY <1>1, <2>1, <2>2, StateQueriesType, BurstTracked
<1>10. CASE ubus_poe_reload_cb
  <2>1. poe_cmd_queue(poe_port_setup(uci)) /\ UNCHANGED <<power, abandoned>> /\ wanted' = uci
    BY <1>10 DEF ubus_poe_reload_cb, config_load
  <2>2. uci \in [Ports -> BOOLEAN]
    BY DEF TypeOK
  <2>3. \A p \in Ports : EndsWith(poe_port_setup(uci), p, wanted'[p])
    BY <2>1, <2>2, SetupEnds
  <2>4. QED
    BY <1>1, <2>1, <2>2, <2>3, PortSetupType, BurstTracked
<1>11. CASE ubus_poe_sendframe_cb
  <2>1. poe_cmd_queue(<<Query>>) /\ UNCHANGED <<power, abandoned, wanted>>
    BY <1>11 DEF ubus_poe_sendframe_cb, past
  <2>2. <<Query>> \in Seq(Commands) /\ \A p \in Ports : Untouched(<<Query>>, p)
    BY PlainCommands, PlainUntouched
  <2>3. QED
    BY <1>1, <2>1, <2>2, BurstTracked
<1>12. CASE \E p \in Ports, on \in BOOLEAN : ubus_poe_manage_cb(p, on)
  <2>1. PICK p \in Ports, on \in BOOLEAN : ubus_poe_manage_cb(p, on)
    BY <1>12
  <2>2. /\ poe_cmd_queue(<<Enable(p, on)>>) /\ UNCHANGED <<power, abandoned>>
        /\ wanted' = [wanted EXCEPT ![p] = on] /\ wanted \in [Ports -> BOOLEAN]
    BY <2>1 DEF ubus_poe_manage_cb, TypeOK
  <2>3. wanted'[p] = on /\ \A r \in Ports \ {p} : wanted'[r] = wanted[r]
    BY <2>2
  <2>4. /\ <<Enable(p, on)>> \in Seq(Commands)
        /\ EndsWith(<<Enable(p, on)>>, p, on)
        /\ \A r \in Ports \ {p} : Untouched(<<Enable(p, on)>>, r)
    BY OneEnable
  <2>5. \A r \in Ports : \/ EndsWith(<<Enable(p, on)>>, r, wanted'[r])
                         \/ Untouched(<<Enable(p, on)>>, r) /\ wanted'[r] = wanted[r]
    BY <2>3, <2>4
  <2>6. QED
    BY <1>1, <2>2, <2>4, <2>5, BurstTracked
<1>13. CASE McuRejectDamaged
  <2>1. wanted' = wanted /\ power' = power
    BY <1>13 DEF McuRejectDamaged
  <2>2. AllAssured
    BY <1>13 DEF Tracked, Stalled, McuRejectDamaged
  <2>3. QED
    BY <1>1, <1>13, <2>1, <2>2, RejectDamagedTodo, AbandonTracked
<1>14. QED
  BY <1>2, <1>3, <1>4, <1>5, <1>6, <1>7, <1>8, <1>9, <1>10, <1>11, <1>12, <1>13 DEF Next, Daemon, Mcu

(* When the queue and the line are empty, the MCU has every port as the last   *)
(* manage, reload or start of the daemon asked, but for ports whose command    *)
(* was given up or lost: for every number of ports, bursts, polls, retries and *)
(* lost frames; with rejections, or with restarts.                             *)
THEOREM SettledTheorem ==
  ASSUME ~MayReject \/ MaxRestarts = 0
  PROVE  Spec => []SettledAsAsked
<1>1. ASSUME TypeOK, Orderly, Tracked PROVE SettledAsAsked
  <2> SUFFICES ASSUME cmd_pending = <<>>, tx = <<>>, rx = <<>>, NEW p \in Ports \ abandoned
               PROVE  power[p] = wanted[p]
    BY DEF SettledAsAsked
  <2>1. AllAssured
    BY <1>1 DEF Tracked, Stalled
  <2>2. ~Rejected
    BY <1>1, OrderlyLine DEF OneThing, Rejected
  <2>3. Todo = <<>>
    BY <2>2 DEF Todo, Bodies, Rest
  <2>4. Assured(<<>>, p, wanted[p], Fine(p))
    BY <2>1, <2>3 DEF AllAssured
  <2>5. ~EndsWith(<<>>, p, wanted[p])
    BY DEF EndsWith
  <2>6. Fine(p)
    BY <2>4, <2>5 DEF Assured
  <2>7. QED
    BY <2>6 DEF Fine
<1>2. Init => Orderly /\ Tracked
  BY InitOrderly, InitTracked
<1>3. ASSUME TypeOK, SendsCounted, Orderly /\ Tracked, [Next]_vars PROVE (Orderly /\ Tracked)'
  BY <1>3, NextOrderly, NextTracked
<1>4. QED
  BY <1>1, <1>2, <1>3, TypeCorrect, SendsTheorem, PTL DEF Spec
=============================================================================
