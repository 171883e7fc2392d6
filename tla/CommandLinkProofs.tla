------------------------- MODULE CommandLinkProofs -------------------------
(***************************************************************************)
(* Proofs about CommandLink for any number of clients, ports, descriptors  *)
(* and pipes.  OneService is the inductive invariant.                      *)
(***************************************************************************)
EXTENDS CommandLink, TLAPS

(* A connection put at the end of the backlog. *)
LEMMA AppendFacts ==
  ASSUME NEW S, NEW s \in Seq(S), NEW e \in S
  PROVE  /\ Append(s, e) \in Seq(S) /\ Len(Append(s, e)) = Len(s) + 1
         /\ \A i \in 1 .. Len(s) : Append(s, e)[i] = s[i]
         /\ Append(s, e)[Len(s) + 1] = e
  OBVIOUS

(* A connection taken from its head. *)
LEMMA TailFacts ==
  ASSUME NEW S, NEW s \in Seq(S), s # <<>>
  PROVE  /\ Tail(s) \in Seq(S) /\ Len(s) \in Nat /\ Len(s) >= 1
         /\ Len(Tail(s)) = Len(s) - 1
         /\ Head(s) = s[1] /\ Head(s) \in S
         /\ \A i \in 1 .. Len(Tail(s)) : Tail(s)[i] = s[i + 1]
  OBVIOUS

(* TypeOK by the kind of value. *)
DataTypes ==
  /\ fds \in 0 .. MaxFd /\ pipes \in 0 .. MaxPipes /\ fds + pipes <= MaxFd
  /\ comPc \in {"accept", "read", "handle"} /\ conn \in Clients \cup {NoClient}
  /\ status \in [Ports -> 0 .. 3]
  /\ backlog \in Seq(Clients) /\ Len(backlog) <= Backlog
  /\ pc \in [Clients -> Talking \cup {"idle", "done", "gone"}]
  /\ req \in [Clients -> Requests]
  /\ printed \in [Clients -> SUBSET Flags]
  /\ calls \in 0 .. MaxCalls /\ kills \in 0 .. MaxKills /\ restarts \in 0 .. MaxRestarts
  /\ accepted \in Nat /\ served \in SUBSET Clients

TruthTypes ==
  /\ up \in BOOLEAN /\ crashed \in BOOLEAN
  /\ sent \in [Clients -> BOOLEAN] /\ inbox \in [Clients -> BOOLEAN]
  /\ broken \in [Clients -> BOOLEAN]

LEMMA TypeHalves == TypeOK <=> DataTypes /\ TruthTypes
  BY DEF TypeOK, DataTypes, TruthTypes

(* The answer of a command thread that serves a connection. *)
LEMMA ServiceConn ==
  ASSUME DataTypes, OneService, comPc # "accept"
  PROVE  conn \in Clients
  BY DEF DataTypes, OneService

(* What the end of the process leaves. *)
LEMMA EndsData ==
  ASSUME Ends
  PROVE  /\ fds' = 0 /\ pipes' = 0 /\ comPc' = "accept" /\ conn' = NoClient
         /\ status' \in [Ports -> 0 .. 3] /\ backlog' = <<>> /\ accepted' = 0
  BY DEF Ends

LEMMA DataInit == Init => DataTypes
  BY LinkAssumption DEF Init, DataTypes, Requests, Flags, Talking

LEMMA DataStep == DataTypes /\ OneService /\ [Next]_vars => DataTypes'
<1> SUFFICES ASSUME DataTypes, OneService, [Next]_vars PROVE DataTypes'
  OBVIOUS
<1> USE LinkAssumption
<1>1. ASSUME NEW c \in Clients, Call(c) PROVE DataTypes'
  <2>1. PICK r \in Requests :
          /\ req' = [req EXCEPT ![c] = r]
          /\ \/ /\ pc' = [pc EXCEPT ![c] = "done"]
                /\ printed' = [printed EXCEPT ![c] = {"OK"}]
             \/ /\ pc' = [pc EXCEPT ![c] = "connect"]
                /\ printed' = [printed EXCEPT ![c] = {}]
    BY <1>1 DEF Call
  <2>2. /\ calls < MaxCalls /\ calls' = calls + 1 /\ served' = served \ {c}
        /\ UNCHANGED <<fds, pipes, comPc, conn, status, backlog, kills, restarts, accepted>>
    BY <1>1 DEF Call, daemon
  <2> QED
    BY <2>1, <2>2 DEF DataTypes, Talking, Flags
<1>2. ASSUME NEW c \in Clients, Connect(c) PROVE DataTypes'
  <2>1. backlog' \in Seq(Clients) /\ Len(backlog') <= Backlog
    BY <1>2, AppendFacts DEF Connect, DataTypes
  <2> QED
    BY <1>2, <2>1 DEF Connect, DataTypes, Talking, daemon, bounds
<1>3. ASSUME NEW c \in Clients, ConnectFails(c) \/ GetResult(c) \/ GetNothing(c)
      PROVE  DataTypes'
  BY <1>3 DEF ConnectFails, GetResult, GetNothing, Disconnected, PrintFlags, DataTypes, Talking,
              Flags, daemon, sockets, bounds
<1>4. ASSUME NEW c \in Clients, Send(c) PROVE DataTypes'
  BY <1>4 DEF Send, DataTypes, Talking, daemon, bounds
<1>5. ASSUME NEW c \in Clients, Kill(c) PROVE DataTypes'
  BY <1>5 DEF Kill, DataTypes, Talking, daemon, sockets
<1>6. ASSUME NEW c \in Clients, Reuse(c) PROVE DataTypes'
  BY <1>6 DEF Reuse, DataTypes, Talking, daemon, sockets, bounds
<1>7. CASE Accept
  <2>1. /\ Tail(backlog) \in Seq(Clients) /\ Len(Tail(backlog)) <= Backlog
        /\ Head(backlog) \in Clients
    BY <1>7, TailFacts DEF Accept, DataTypes
  <2> QED
    BY <1>7, <2>1 DEF Accept, MayOpen, Opened, DataTypes, clients, bounds
<1>8. CASE ReadCommand \/ ReadNothing
  BY <1>8 DEF ReadCommand, ReadNothing, DataTypes, sockets, clients, bounds
<1>9. CASE Handle
  <2>1. conn \in Clients
    BY <1>9, ServiceConn DEF Handle
  <2>2. /\ served' = served \cup {conn}
        /\ UNCHANGED <<pc, req, printed, calls, kills, restarts>>
    BY <1>9 DEF Handle, clients, bounds
  <2>3. CASE pc[conn] = "gone"
    <3>1. Ends
      BY <1>9, <2>3 DEF Handle
    <3> QED
      BY <2>1, <2>2, <3>1, EndsData DEF DataTypes
  <2>4. CASE pc[conn] # "gone"
    <3>1. /\ status' \in Statuses(req[conn]) /\ comPc' = "accept" /\ conn' = NoClient
          /\ UNCHANGED <<fds, pipes, accepted, backlog>>
      BY <1>9, <2>4 DEF Handle
    <3>2. status' \in [Ports -> 0 .. 3]
      BY <3>1 DEF Statuses, DataTypes
    <3> QED
      BY <2>1, <2>2, <3>1, <3>2 DEF DataTypes
  <2> QED
    BY <2>3, <2>4
<1>10. CASE OpenPipe
  <2>1. UNCHANGED <<pc, req, printed, calls, kills, restarts, served>>
    BY <1>10 DEF OpenPipe, clients, bounds
  <2>2. CASE MayOpen(2)
    BY <1>10, <2>1, <2>2 DEF OpenPipe, MayOpen, DataTypes, sockets
  <2>3. CASE ~MayOpen(2)
    <3>1. Ends
      BY <1>10, <2>3 DEF OpenPipe
    <3> QED
      BY <2>1, <3>1, EndsData DEF DataTypes
  <2> QED
    BY <2>2, <2>3
<1>11. CASE ClosePipe
  BY <1>11 DEF ClosePipe, DataTypes, sockets, clients, bounds
<1>12. CASE Stop
  BY <1>12, EndsData DEF Stop, DataTypes, clients, bounds
<1>13. CASE Start
  BY <1>13 DEF Start, DataTypes, sockets, clients
<1>14. CASE UNCHANGED vars
  BY <1>14 DEF vars, daemon, sockets, clients, bounds, DataTypes
<1> QED
  BY <1>1, <1>2, <1>3, <1>4, <1>5, <1>6, <1>7, <1>8, <1>9, <1>10, <1>11, <1>12, <1>13, <1>14
     DEF Next, ClientStep, Com

LEMMA TruthStep == TruthTypes /\ DataTypes /\ OneService /\ [Next]_vars => TruthTypes'
<1> SUFFICES ASSUME TruthTypes, DataTypes, OneService, [Next]_vars PROVE TruthTypes'
  OBVIOUS
<1>1. ASSUME Ends, crashed' \in BOOLEAN PROVE TruthTypes'
  BY <1>1, Zenon DEF Ends, TruthTypes
<1>2. ASSUME NEW c \in Clients, Call(c) PROVE TruthTypes'
  BY <1>2, Zenon DEF Call, TruthTypes, daemon
<1>3. ASSUME NEW c \in Clients, Connect(c) PROVE TruthTypes'
  BY <1>3, Zenon DEF Connect, TruthTypes, daemon
<1>4. ASSUME NEW c \in Clients, Send(c) PROVE TruthTypes'
  <2>1. (~broken[c]) \in BOOLEAN
    OBVIOUS
  <2>2. sent' = [sent EXCEPT ![c] = ~broken[c]]
    BY <1>4 DEF Send
  <2>3. sent' \in [Clients -> BOOLEAN]
    BY <2>1, <2>2, Zenon DEF TruthTypes
  <2> QED
    BY <1>4, <2>3, Zenon DEF Send, TruthTypes, daemon
<1>5. ASSUME NEW c \in Clients, ConnectFails(c) \/ GetResult(c) \/ GetNothing(c)
      PROVE  TruthTypes'
  BY <1>5, Zenon DEF ConnectFails, GetResult, GetNothing, PrintFlags, TruthTypes, daemon, sockets
<1>6. ASSUME NEW c \in Clients, Kill(c) \/ Reuse(c) PROVE TruthTypes'
  BY <1>6, Zenon DEF Kill, Reuse, TruthTypes, daemon, sockets
<1>7. CASE Accept
  BY <1>7, Zenon DEF Accept, TruthTypes
<1>8. CASE ReadCommand \/ ReadNothing
  BY <1>8, Zenon DEF ReadCommand, ReadNothing, TruthTypes, sockets
<1>9. CASE Handle
  <2>1. CASE pc[conn] = "gone"
    BY <1>1, <1>9, <2>1, Zenon DEF Handle
  <2>2. CASE pc[conn] # "gone"
    <3>1. conn \in Clients
      BY <1>9, ServiceConn DEF Handle
    <3> QED
      BY <1>9, <2>2, <3>1, Zenon DEF Handle, TruthTypes
  <2> QED
    BY <2>1, <2>2
<1>10. CASE OpenPipe
  <2>1. CASE MayOpen(2)
    BY <1>10, <2>1, Zenon DEF OpenPipe, TruthTypes, sockets
  <2>2. CASE ~MayOpen(2)
    BY <1>1, <1>10, <2>2, Zenon DEF OpenPipe
  <2> QED
    BY <2>1, <2>2
<1>11. CASE ClosePipe
  BY <1>11, Zenon DEF ClosePipe, TruthTypes, sockets
<1>12. CASE Stop
  BY <1>1, <1>12, Zenon DEF Stop, TruthTypes
<1>13. CASE Start
  BY <1>13, Zenon DEF Start, TruthTypes, sockets
<1>14. CASE UNCHANGED vars
  BY <1>14, Zenon DEF vars, daemon, sockets, TruthTypes
<1> QED
  BY <1>2, <1>3, <1>4, <1>5, <1>6, <1>7, <1>8, <1>9, <1>10, <1>11, <1>12, <1>13, <1>14
     DEF Next, ClientStep, Com

-----------------------------------------------------------------------------
LEMMA ServiceInit == Init => OneService
  BY LinkAssumption DEF Init, OneService, Released

(* The end of the process leaves no connection to account for. *)
LEMMA ServiceEnds ==
  ASSUME OneService, Ends, UNCHANGED pc,
         served' = served \/ (\E c : served' = served \cup {c})
  PROVE  OneService'
<1>1. conn' = NoClient /\ backlog' = <<>> /\ comPc' = "accept" /\ fds' = 0 /\ pipes' = 0
      /\ accepted' = 0 /\ inbox' = inbox
  BY DEF Ends
<1>2. served \subseteq served'
  OBVIOUS
<1>3. \A c \in Clients : Released(c)'
  BY <1>1, LinkAssumption DEF Released
<1> QED
  BY <1>1, <1>2, <1>3, LinkAssumption DEF OneService

(* A client goes on while the daemon and the connections stand. *)
LEMMA ServiceClient ==
  ASSUME DataTypes, OneService, NEW c \in Clients,
         NEW v \in {"wait", "gone", "done", "idle"}, pc' = [pc EXCEPT ![c] = v],
         v = "gone" => Released(c) \/ kills' > 0,
         v \in {"done", "idle"} => Released(c),
         kills' \in Nat, kills' >= kills,
         UNCHANGED <<fds, pipes, comPc, conn, accepted, backlog, inbox, broken, served>>
  PROVE  OneService'
<1>1. pc'[c] = v /\ \A d \in Clients \ {c} : pc'[d] = pc[d]
  BY DEF DataTypes
<1>2. \A d \in Clients : Released(d)' <=> Released(d)
  BY DEF Released
<1>3. conn' # NoClient => ~inbox'[conn'] /\ pc'[conn'] \in {"send", "wait", "gone"}
  BY <1>1 DEF OneService, DataTypes, Released
<1>4. kills \in Nat
  BY DEF DataTypes
<1>5. \A d \in Clients : ~Released(d)' =>
        /\ pc'[d] \in {"send", "wait", "gone"} /\ ~broken'[d]
        /\ pc'[d] = "gone" => kills' > 0
  BY <1>1, <1>2, <1>4 DEF OneService
<1>6. \A d \in Clients : inbox'[d] => d \in served' /\ pc'[d] # "connect"
  BY <1>1 DEF OneService
<1> QED
  BY <1>3, <1>5, <1>6 DEF OneService

LEMMA ServiceStep == TypeOK /\ OneService /\ [Next]_vars => OneService'
<1> SUFFICES ASSUME TypeOK, OneService, [Next]_vars PROVE OneService'
  OBVIOUS
<1>0. DataTypes /\ TruthTypes
  BY TypeHalves
<1> USE LinkAssumption
<1>1. ASSUME NEW c \in Clients, Call(c) PROVE OneService'
  <2>1. Released(c)
    BY <1>1 DEF Call, OneService
  <2>2. /\ UNCHANGED <<fds, pipes, comPc, conn, accepted, backlog, broken, kills>>
        /\ inbox' = [inbox EXCEPT ![c] = FALSE] /\ served' = served \ {c}
        /\ \/ pc' = [pc EXCEPT ![c] = "done"]
           \/ pc' = [pc EXCEPT ![c] = "connect"]
    BY <1>1 DEF Call, daemon
  <2>3. ~inbox'[c] /\ \A d \in Clients \ {c} : inbox'[d] = inbox[d] /\ pc'[d] = pc[d]
    BY <1>0, <2>2 DEF TruthTypes, DataTypes
  <2>4. \A i \in 1 .. Len(backlog) : backlog[i] \in Clients
    BY <1>0 DEF DataTypes
  <2>5. \A d \in Clients : Released(d)' <=> Released(d)
    BY <2>2 DEF Released
  <2>6. \A i \in 1 .. Len(backlog') : backlog'[i] # conn' /\ ~inbox'[backlog'[i]]
    BY <2>2, <2>3, <2>4 DEF OneService
  <2>7. conn' # NoClient => ~inbox'[conn'] /\ pc'[conn'] \in {"send", "wait", "gone"}
    BY <1>0, <2>1, <2>2, <2>3 DEF OneService, Released, DataTypes
  <2>8. \A d \in Clients : ~Released(d)' =>
          /\ pc'[d] \in {"send", "wait", "gone"} /\ ~broken'[d]
          /\ pc'[d] = "gone" => kills' > 0
    BY <2>1, <2>2, <2>3, <2>5 DEF OneService
  <2>9. \A d \in Clients : inbox'[d] => d \in served' /\ pc'[d] # "connect"
    BY <2>2, <2>3 DEF OneService
  <2> QED
    BY <2>2, <2>6, <2>7, <2>8, <2>9 DEF OneService
<1>2. ASSUME NEW c \in Clients, Connect(c) PROVE OneService'
  <2>1. Released(c) /\ ~inbox[c]
    BY <1>2 DEF Connect, OneService
  <2>2. /\ UNCHANGED <<fds, pipes, comPc, conn, accepted, inbox, kills, served>>
        /\ backlog' = Append(backlog, c)
        /\ broken' = [broken EXCEPT ![c] = FALSE] /\ pc' = [pc EXCEPT ![c] = "send"]
    BY <1>2 DEF Connect, daemon, bounds
  <2>3. ~broken'[c] /\ pc'[c] = "send"
        /\ \A d \in Clients \ {c} : broken'[d] = broken[d] /\ pc'[d] = pc[d]
    BY <1>0, <2>2 DEF TruthTypes, DataTypes
  <2>4. /\ Len(backlog') = Len(backlog) + 1 /\ Len(backlog) \in Nat
        /\ \A i \in 1 .. Len(backlog) : backlog'[i] = backlog[i]
        /\ backlog'[Len(backlog) + 1] = c
    BY <1>0, <2>2, AppendFacts DEF DataTypes
  <2>5. \A d \in Clients \ {c} : Released(d)' <=> Released(d)
    BY <2>2, <2>4 DEF Released
  <2>6. \A i, j \in 1 .. Len(backlog') : i # j => backlog'[i] # backlog'[j]
    BY <2>1, <2>4 DEF OneService, Released
  <2>7. \A i \in 1 .. Len(backlog') : backlog'[i] # conn' /\ ~inbox'[backlog'[i]]
    BY <2>1, <2>2, <2>4 DEF OneService, Released
  <2>8. conn' # NoClient => ~inbox'[conn'] /\ pc'[conn'] \in {"send", "wait", "gone"}
    BY <1>0, <2>2, <2>3 DEF OneService, DataTypes
  <2> QED
    BY <2>2, <2>3, <2>5, <2>6, <2>7, <2>8 DEF OneService
<1>3. ASSUME NEW c \in Clients, ConnectFails(c) PROVE OneService'
  <2>1. Released(c)
    BY <1>3 DEF ConnectFails, OneService
  <2>2. pc' = [pc EXCEPT ![c] = "done"] /\ kills' = kills
    BY <1>3 DEF ConnectFails, PrintFlags, bounds
  <2>3. UNCHANGED <<fds, pipes, comPc, conn, accepted, backlog, inbox, broken, served>>
    BY <1>3 DEF ConnectFails, PrintFlags, daemon, sockets
  <2>4. kills' \in Nat /\ kills' >= kills
    BY <1>0, <2>2 DEF DataTypes
  <2> QED
    BY <1>0, <2>1, <2>2, <2>3, <2>4, ServiceClient
<1>4. ASSUME NEW c \in Clients, Send(c) PROVE OneService'
  <2>1. broken[c] => Released(c)
    BY DEF OneService
  <2>2. /\ pc' = [pc EXCEPT ![c] = IF broken[c] THEN "gone" ELSE "wait"]
        /\ kills' = kills
    BY <1>4 DEF Send, bounds
  <2>3. UNCHANGED <<fds, pipes, comPc, conn, accepted, backlog, inbox, broken, served>>
    BY <1>4 DEF Send, daemon
  <2>4. kills' \in Nat /\ kills' >= kills
    BY <1>0, <2>2 DEF DataTypes
  <2>5. CASE broken[c]
    <3>1. pc' = [pc EXCEPT ![c] = "gone"]
      BY <2>2, <2>5
    <3> QED
      BY <1>0, <2>1, <2>3, <2>4, <2>5, <3>1, ServiceClient
  <2>6. CASE ~broken[c]
    <3>1. pc' = [pc EXCEPT ![c] = "wait"]
      BY <2>2, <2>6
    <3> QED
      BY <1>0, <2>3, <2>4, <3>1, ServiceClient
  <2> QED
    BY <2>5, <2>6
<1>5. ASSUME NEW c \in Clients, GetResult(c) \/ GetNothing(c) PROVE OneService'
  <2>1. inbox[c] \/ broken[c]
    BY <1>5 DEF GetResult, GetNothing
  <2>2. Released(c)
    BY <2>1 DEF OneService, Released
  <2>3. pc' = [pc EXCEPT ![c] = "done"] /\ kills' = kills
    BY <1>5 DEF GetResult, GetNothing, PrintFlags, bounds
  <2>4. UNCHANGED <<fds, pipes, comPc, conn, accepted, backlog, inbox, broken, served>>
    BY <1>5 DEF GetResult, GetNothing, PrintFlags, daemon, sockets
  <2>5. kills' \in Nat /\ kills' >= kills
    BY <1>0, <2>3 DEF DataTypes
  <2> QED
    BY <1>0, <2>2, <2>3, <2>4, <2>5, ServiceClient
<1>6. ASSUME NEW c \in Clients, Kill(c) PROVE OneService'
  <2>1. kills' \in Nat /\ kills' > 0 /\ kills' >= kills
    BY <1>0, <1>6 DEF Kill, DataTypes
  <2>2. pc' = [pc EXCEPT ![c] = "gone"]
    BY <1>6 DEF Kill
  <2>3. UNCHANGED <<fds, pipes, comPc, conn, accepted, backlog, inbox, broken, served>>
    BY <1>6 DEF Kill, daemon, sockets
  <2> QED
    BY <1>0, <2>1, <2>2, <2>3, ServiceClient
<1>7. ASSUME NEW c \in Clients, Reuse(c) PROVE OneService'
  <2>1. pc' = [pc EXCEPT ![c] = "idle"] /\ kills' = kills /\ Released(c)
    BY <1>7 DEF Reuse, bounds
  <2>2. UNCHANGED <<fds, pipes, comPc, conn, accepted, backlog, inbox, broken, served>>
    BY <1>7 DEF Reuse, daemon, sockets
  <2>3. kills' \in Nat /\ kills' >= kills
    BY <1>0, <2>1 DEF DataTypes
  <2> QED
    BY <1>0, <2>1, <2>2, <2>3, ServiceClient
<1>8. CASE Accept
  <2>1. /\ comPc = "accept" /\ comPc' = "read" /\ backlog # <<>>
        /\ conn' = Head(backlog) /\ backlog' = Tail(backlog)
        /\ fds' = fds + 1 /\ accepted' = accepted + 1 /\ fds + pipes + 1 <= MaxFd
        /\ UNCHANGED <<pipes, inbox, broken, pc, kills, served>>
    BY <1>8 DEF Accept, Opened, MayOpen, clients, bounds
  <2>2. /\ Len(backlog) \in Nat /\ Len(backlog) >= 1 /\ Len(backlog') = Len(backlog) - 1
        /\ conn' = backlog[1] /\ conn' \in Clients
        /\ \A i \in 1 .. Len(backlog') : backlog'[i] = backlog[i + 1]
    BY <1>0, <2>1, TailFacts DEF DataTypes
  <2>3. \A d \in Clients : Released(d) => Released(d)'
    BY <2>2 DEF Released
  <2>4. ~Released(conn')
    BY <2>2 DEF Released
  <2>5. ~inbox'[conn'] /\ pc'[conn'] \in {"send", "wait", "gone"}
    BY <2>1, <2>2, <2>4 DEF OneService
  <2>6. \A i, j \in 1 .. Len(backlog') : i # j => backlog'[i] # backlog'[j]
    BY <2>2 DEF OneService
  <2>7. \A i \in 1 .. Len(backlog') : backlog'[i] # conn' /\ ~inbox'[backlog'[i]]
    BY <2>1, <2>2 DEF OneService
  <2>8. fds' = accepted' /\ fds' + pipes' <= MaxFd
    BY <1>0, <2>1 DEF OneService, DataTypes
  <2> QED
    BY <2>1, <2>2, <2>3, <2>5, <2>6, <2>7, <2>8 DEF OneService
<1>9. CASE ReadCommand
  BY <1>9 DEF ReadCommand, OneService, Released, sockets, clients, bounds
<1>10. CASE ReadNothing
  <2>1. /\ comPc' = "accept" /\ conn' = NoClient
        /\ UNCHANGED <<fds, pipes, accepted, backlog, inbox, broken, pc, kills, served>>
    BY <1>10 DEF ReadNothing, sockets, clients, bounds
  <2>2. \A d \in Clients : Released(d) => Released(d)'
    BY <2>1 DEF Released
  <2>3. \A i \in 1 .. Len(backlog) : backlog[i] \in Clients
    BY <1>0 DEF DataTypes
  <2> QED
    BY <2>1, <2>2, <2>3 DEF OneService
<1>11. CASE Handle
  <2>1. conn \in Clients
    BY <1>0, <1>11, ServiceConn DEF Handle
  <2>2. UNCHANGED <<pc, kills>> /\ served' = served \cup {conn}
    BY <1>11 DEF Handle, clients, bounds
  <2>3. CASE pc[conn] = "gone"
    BY <1>11, <2>2, <2>3, ServiceEnds DEF Handle
  <2>4. CASE pc[conn] # "gone"
    <3>1. /\ comPc' = "accept" /\ conn' = NoClient /\ inbox' = [inbox EXCEPT ![conn] = TRUE]
          /\ UNCHANGED <<fds, pipes, accepted, backlog, broken>>
      BY <1>11, <2>4 DEF Handle
    <3>2. \A d \in Clients : Released(d) => Released(d)'
      BY <3>1 DEF Released
    <3>3. \A i \in 1 .. Len(backlog) : backlog[i] \in Clients
      BY <1>0 DEF DataTypes
    <3>4. \A d \in Clients \ {conn} : inbox'[d] = inbox[d]
      BY <1>0, <3>1 DEF TruthTypes
    <3>5. \A i \in 1 .. Len(backlog') : backlog'[i] # conn' /\ ~inbox'[backlog'[i]]
      BY <3>1, <3>3, <3>4 DEF OneService
    <3>6. pc'[conn] # "connect"
      BY <2>1, <2>2 DEF OneService
    <3>7. \A d \in Clients : inbox'[d] => d \in served' /\ pc'[d] # "connect"
      BY <2>1, <2>2, <3>4, <3>6 DEF OneService
    <3>8. \A d \in Clients : ~Released(d)' =>
            /\ pc'[d] \in {"send", "wait", "gone"} /\ ~broken'[d]
            /\ pc'[d] = "gone" => kills' > 0
      BY <2>2, <3>1, <3>2 DEF OneService
    <3> QED
      BY <3>1, <3>5, <3>7, <3>8, <2>2 DEF OneService
  <2> QED
    BY <2>3, <2>4
<1>12. CASE OpenPipe
  <2>1. UNCHANGED <<pc, kills, served>>
    BY <1>12 DEF OpenPipe, clients, bounds
  <2>2. CASE MayOpen(2)
    <3>1. /\ pipes' = pipes + 1 /\ fds + pipes + 2 <= MaxFd
          /\ UNCHANGED <<fds, comPc, conn, accepted, backlog, inbox, broken>>
      BY <1>12, <2>2 DEF OpenPipe, MayOpen, sockets
    <3> QED
      BY <1>0, <2>1, <3>1 DEF OneService, Released, DataTypes
  <2>3. CASE ~MayOpen(2)
    BY <1>12, <2>1, <2>3, ServiceEnds DEF OpenPipe
  <2> QED
    BY <2>2, <2>3
<1>13. CASE ClosePipe
  <2>1. /\ pipes' = pipes - 1
        /\ UNCHANGED <<fds, comPc, conn, accepted, backlog, inbox, broken, pc, kills, served>>
    BY <1>13 DEF ClosePipe, sockets, clients, bounds
  <2> QED
    BY <1>0, <2>1 DEF OneService, Released, DataTypes
<1>14. CASE Stop
  BY <1>14, ServiceEnds DEF Stop, clients
<1>15. CASE Start
  BY <1>15 DEF Start, OneService, Released, sockets, clients
<1>16. CASE UNCHANGED vars
  BY <1>16 DEF vars, daemon, sockets, clients, bounds, OneService, Released
<1> QED
  BY <1>1, <1>2, <1>3, <1>4, <1>5, <1>6, <1>7, <1>8, <1>9, <1>10, <1>11, <1>12, <1>13, <1>14,
     <1>15, <1>16 DEF Next, ClientStep, Com

-----------------------------------------------------------------------------
Inv == TypeOK /\ OneService

LEMMA InvInit == Init => Inv
<1> SUFFICES ASSUME Init PROVE Inv
  OBVIOUS
<1>1. TruthTypes
  BY Zenon DEF Init, TruthTypes
<1> QED
  BY <1>1, DataInit, ServiceInit, TypeHalves DEF Inv

LEMMA InvStep == Inv /\ [Next]_vars => Inv'
<1> SUFFICES ASSUME Inv, [Next]_vars PROVE Inv'
  OBVIOUS
<1>1. DataTypes /\ TruthTypes /\ TypeOK /\ OneService
  BY TypeHalves DEF Inv
<1>2. DataTypes' /\ TruthTypes' /\ OneService'
  BY <1>1, DataStep, TruthStep, ServiceStep
<1>3. TypeOK'
  BY <1>2 DEF TypeOK, DataTypes, TruthTypes
<1> QED
  BY <1>2, <1>3 DEF Inv

(* The types of all variables hold, the limit of descriptors included, and  *)
(* the invariant of the connections.                                        *)
THEOREM TypeCorrect == Spec => [](TypeOK /\ OneService)
<1> QED
  BY InvInit, InvStep, PTL DEF Spec, Inv

(* "ok" means served, for any number of clients and daemons that end. *)
LEMMA OkStep == Inv /\ OkMeansServed /\ [Next]_vars => OkMeansServed'
<1> SUFFICES ASSUME Inv, OkMeansServed, [Next]_vars PROVE OkMeansServed'
  OBVIOUS
<1>0. DataTypes /\ TruthTypes /\ OneService
  BY TypeHalves DEF Inv
<1>1. ASSUME NEW c \in Clients, Call(c) PROVE OkMeansServed'
  <2>1. PICK r \in Requests :
          /\ req' = [req EXCEPT ![c] = r]
          /\ IF BadPort(r) THEN pc' = [pc EXCEPT ![c] = "done"] /\
                                printed' = [printed EXCEPT ![c] = {"OK"}]
                           ELSE pc' = [pc EXCEPT ![c] = "connect"] /\
                                printed' = [printed EXCEPT ![c] = {}]
    BY <1>1 DEF Call
  <2>2. req'[c] = r /\ (pc'[c] = "done" => BadPort(r))
    BY <1>0, <2>1 DEF DataTypes
  <2>3. \A d \in Clients \ {c} : req'[d] = req[d] /\ pc'[d] = pc[d] /\ printed'[d] = printed[d]
    BY <1>0, <2>1 DEF DataTypes
  <2>4. served' = served \ {c}
    BY <1>1 DEF Call
  <2> QED
    BY <2>2, <2>3, <2>4 DEF OkMeansServed
<1>2. ASSUME NEW c \in Clients, NEW v, v # "done", pc' = [pc EXCEPT ![c] = v],
             UNCHANGED <<printed, req, served>>
      PROVE  OkMeansServed'
  <2>1. \A d \in Clients : pc'[d] = "done" => pc[d] = "done"
    BY <1>0, <1>2 DEF DataTypes
  <2> QED
    BY <1>2, <2>1 DEF OkMeansServed
<1>3. ASSUME NEW c \in Clients, Connect(c) \/ Send(c) \/ Kill(c) \/ Reuse(c)
      PROVE  OkMeansServed'
  <2>1. UNCHANGED <<printed, req, served>>
    BY <1>3 DEF Connect, Send, Kill, Reuse
  <2>2. \E v \in {"send", "gone", "wait", "idle"} : pc' = [pc EXCEPT ![c] = v]
    BY <1>3 DEF Connect, Send, Kill, Reuse
  <2> QED
    BY <1>2, <2>1, <2>2
<1>4. ASSUME NEW c \in Clients, ConnectFails(c) \/ GetResult(c) \/ GetNothing(c)
      PROVE  OkMeansServed'
  <2>1. /\ \/ printed' = [printed EXCEPT ![c] = {"OK", "SOCKET"}]
           \/ inbox[c]
        /\ \E f : printed' = [printed EXCEPT ![c] = f]
        /\ pc' = [pc EXCEPT ![c] = "done"] /\ UNCHANGED <<req, served>>
    BY <1>4 DEF ConnectFails, GetResult, GetNothing, Disconnected, PrintFlags
  <2>2. printed'[c] = {"OK", "SOCKET"} \/ c \in served
    BY <1>0, <2>1 DEF DataTypes, OneService
  <2>3. printed'[c] # {"OK"} \/ c \in served
    BY <2>2
  <2>4. \A d \in Clients \ {c} : pc'[d] = pc[d] /\ printed'[d] = printed[d]
    BY <1>0, <2>1 DEF DataTypes
  <2> QED
    BY <2>1, <2>3, <2>4 DEF OkMeansServed
<1>5. CASE Accept \/ Com \/ OpenPipe \/ ClosePipe \/ Stop \/ Start \/ UNCHANGED vars
  <2>1. UNCHANGED <<pc, printed, req>> /\ served \subseteq served'
    BY <1>5 DEF Accept, Com, ReadCommand, ReadNothing, Handle, OpenPipe, ClosePipe, Stop,
                Start, vars, clients
  <2> QED
    BY <2>1 DEF OkMeansServed
<1> QED
  BY <1>1, <1>3, <1>4, <1>5 DEF Next, ClientStep

(* A client that prints "ok" for a valid command has been served. *)
THEOREM OkTheorem == Spec => []OkMeansServed
<1>1. Init => OkMeansServed
  BY DEF Init, OkMeansServed
<1>2. Inv /\ OkMeansServed /\ [Next]_vars => OkMeansServed'
  BY OkStep
<1> QED
  BY <1>1, <1>2, InvInit, InvStep, PTL DEF Spec

(* Only an interrupted client, or as many connections as there are          *)
(* descriptors besides those of the pipes, can end the daemon.              *)
THEOREM SurvivesTheorem == Spec => SurvivesCalls
<1> DEFINE Survives == (crashed' /\ ~crashed) => kills > 0 \/ accepted >= MaxFd - MaxPipes
<1>1. Inv /\ [Next]_vars => [Survives]_vars
  <2> SUFFICES ASSUME Inv, Next, crashed', ~crashed
               PROVE  kills > 0 \/ accepted >= MaxFd - MaxPipes
    BY DEF Survives
  <2>0. DataTypes /\ TruthTypes /\ OneService
    BY TypeHalves DEF Inv
  <2>1. CASE Handle
    <3>1. pc[conn] = "gone"
      BY <2>1, Zenon DEF Handle
    <3>2. conn \in Clients /\ ~Released(conn)
      BY <2>0, <2>1, ServiceConn DEF Handle, Released
    <3> QED
      BY <2>0, <3>1, <3>2 DEF OneService
  <2>2. CASE OpenPipe
    <3>1. ~MayOpen(2) /\ pipes < MaxPipes
      BY <2>2, Zenon DEF OpenPipe
    <3> QED
      BY <2>0, <3>1, LinkAssumption DEF MayOpen, OneService, DataTypes
  <2>3. CASE Accept \/ ReadCommand \/ ReadNothing \/ ClosePipe \/ Stop \/ Start
    BY <2>3, Zenon DEF Accept, ReadCommand, ReadNothing, ClosePipe, Stop, Start
  <2>4. ASSUME NEW c \in Clients, Call(c) \/ ClientStep(c) \/ Kill(c) \/ Reuse(c)
        PROVE  FALSE
    BY <2>4, Zenon DEF Call, ClientStep, Connect, ConnectFails, Send, GetResult, GetNothing,
                       PrintFlags, Kill, Reuse, daemon
  <2> QED
    BY <2>1, <2>2, <2>3, <2>4 DEF Next, Com
<1> QED
  BY <1>1, InvInit, InvStep, PTL DEF Spec, SurvivesCalls
=============================================================================
