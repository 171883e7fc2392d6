---------------------------- MODULE CommandLink ----------------------------
(***************************************************************************)
(* autorestart_ctrl and the command thread of autorestartd on the two ends *)
(* of the UNIX socket: comHandler and ctrl_mainHandler of the client,      *)
(* runComHandler and clientHandler of the daemon, and the descriptors of   *)
(* the daemon's process, which the command thread shares with the pipes of *)
(* the other threads.  What a reboot command does to a port is in          *)
(* AutoRestart; here it only has a status, 1, 2 or 3.                      *)
(*                                                                         *)
(* A client is a process; its name is used again once the daemon has       *)
(* finished with the connection.                                           *)
(***************************************************************************)
EXTENDS Integers, Sequences, FiniteSets

CONSTANTS
  Clients, Ports, NoPort, NoClient,
  MaxFd,       \* descriptors left to the daemon besides its sockets and files
  MaxPipes,    \* pipes its other threads may have open at a time
  Backlog,     \* connections that may wait for accept
  MaxCalls, MaxKills, MaxRestarts   \* bounds of the model

ASSUME LinkAssumption ==
  /\ NoPort \notin Ports /\ NoClient \notin Clients
  /\ MaxFd \in Nat /\ MaxPipes \in Nat
  /\ Backlog \in Nat /\ MaxCalls \in Nat /\ MaxKills \in Nat /\ MaxRestarts \in Nat

VARIABLES
  up, fds, pipes,     \* the daemon, its connections and its open pipes
  comPc, conn,        \* the command thread, and the connection it serves
  status,             \* resetPortBuf.resetPort[].status
  backlog,            \* connections not accepted yet
  pc, req,            \* the clients, and what each asks for
  sent, inbox,        \* per connection: the command, the answer
  broken,             \* per connection: the daemon's end is gone
  printed,            \* the flags of programm_error that a client printed
  calls, kills, restarts,
  accepted, crashed,  \* history: connections accepted since the start of
                      \* the daemon; the daemon ended by a signal
  served              \* history: the clients whose command was handled

daemon  == <<up, fds, pipes, comPc, conn, status, crashed, accepted>>
sockets == <<backlog, sent, inbox, broken>>
clients == <<pc, req, printed>>
bounds  == <<calls, kills, restarts>>
vars == <<daemon, sockets, clients, bounds, served>>

Requests == [cmd : {"status"}, port : {NoPort}] \cup [cmd : {"reboot"}, port : Ports \cup {NoPort}]
BadPort(r) == r.cmd = "reboot" /\ r.port = NoPort
Flags == {"OK", "SOCKET", "ARG_2"}
Talking == {"connect", "send", "wait"}

(* The connection of c is neither waiting nor being served. *)
Released(c) == conn # c /\ \A i \in 1 .. Len(backlog) : backlog[i] # c

Init ==
  /\ up = TRUE /\ fds = 0 /\ pipes = 0 /\ comPc = "accept" /\ conn = NoClient
  /\ status = [p \in Ports |-> 0]
  /\ backlog = <<>>
  /\ pc = [c \in Clients |-> "idle"]
  /\ req = [c \in Clients |-> [cmd |-> "status", port |-> NoPort]]
  /\ sent = [c \in Clients |-> FALSE] /\ broken = [c \in Clients |-> FALSE]
  /\ inbox = [c \in Clients |-> FALSE]
  /\ printed = [c \in Clients |-> {}]
  /\ calls = 0 /\ kills = 0 /\ restarts = 0
  /\ accepted = 0 /\ crashed = FALSE /\ served = {}

-----------------------------------------------------------------------------
(* autorestart_ctrl *)

(* getPortNum gives 0 for anything but a port number; ctrl_mainHandler     *)
(* then returns CTRL_ERROR_ARG_2, but prints flag_isRunning.               *)
Call(c) ==
  /\ pc[c] = "idle" /\ calls < MaxCalls
  /\ calls' = calls + 1
  /\ \E r \in Requests :
       /\ req' = [req EXCEPT ![c] = r]
       /\ IF BadPort(r)
          THEN /\ pc' = [pc EXCEPT ![c] = "done"]
               /\ printed' = [printed EXCEPT ![c] = {"OK"}]
          ELSE /\ pc' = [pc EXCEPT ![c] = "connect"]
               /\ printed' = [printed EXCEPT ![c] = {}]
  /\ sent' = [sent EXCEPT ![c] = FALSE]
  /\ inbox' = [inbox EXCEPT ![c] = FALSE]
  /\ served' = served \ {c}
  /\ UNCHANGED <<daemon, backlog, broken, kills, restarts>>

(* socket_client: connect waits while the backlog is full *)
Connect(c) ==
  /\ pc[c] = "connect" /\ up /\ Len(backlog) < Backlog
  /\ backlog' = Append(backlog, c)
  /\ broken' = [broken EXCEPT ![c] = FALSE]
  /\ pc' = [pc EXCEPT ![c] = "send"]
  /\ UNCHANGED <<daemon, sent, inbox, req, printed, bounds, served>>

(* ctrl_mainHandler prints and ends. *)
PrintFlags(c, flags) ==
  /\ pc' = [pc EXCEPT ![c] = "done"]
  /\ printed' = [printed EXCEPT ![c] = flags]
  /\ UNCHANGED <<daemon, sockets, req, bounds, served>>

ConnectFails(c) == pc[c] = "connect" /\ ~up /\ PrintFlags(c, {"OK", "SOCKET"})

(* ctrl_sendCmd; on a connection without a daemon write raises SIGPIPE *)
Send(c) ==
  /\ pc[c] = "send"
  /\ sent' = [sent EXCEPT ![c] = ~broken[c]]
  /\ pc' = [pc EXCEPT ![c] = IF broken[c] THEN "gone" ELSE "wait"]
  /\ UNCHANGED <<daemon, backlog, inbox, broken, req, printed, bounds, served>>

(* ctrl_getresult: the answer *)
GetResult(c) == pc[c] = "wait" /\ inbox[c] /\ PrintFlags(c, {"OK"})

(* Mutant: the end of the connection passes for an answer *)
Disconnected_Ok == {"OK"}

(* comHandler turns SOCKET_DISCONNECTED and SOCKET_READ_ERROR into          *)
(* SOCKET_ERR_READ, and ctrl_mainHandler that into CTRL_ERROR_SOCKET.       *)
Disconnected == {"OK", "SOCKET"}

(* ctrl_getresult: read finds the connection closed *)
GetNothing(c) == pc[c] = "wait" /\ ~inbox[c] /\ broken[c] /\ PrintFlags(c, Disconnected)

(* The user, or the web server, ends the client. *)
Kill(c) ==
  /\ pc[c] \in Talking /\ kills < MaxKills
  /\ kills' = kills + 1
  /\ pc' = [pc EXCEPT ![c] = "gone"]
  /\ UNCHANGED <<daemon, sockets, req, printed, calls, restarts, served>>

(* Another process takes the name. *)
Reuse(c) ==
  /\ pc[c] \in {"done", "gone"} /\ Released(c)
  /\ pc' = [pc EXCEPT ![c] = "idle"]
  /\ UNCHANGED <<daemon, sockets, req, printed, bounds, served>>

ClientStep(c) == Connect(c) \/ ConnectFails(c) \/ Send(c) \/ GetResult(c) \/ GetNothing(c)

-----------------------------------------------------------------------------
(* autorestartd *)

(* The process is gone: so are its ends of all connections. *)
Ends ==
  /\ up' = FALSE /\ fds' = 0 /\ pipes' = 0 /\ comPc' = "accept" /\ conn' = NoClient
  /\ status' = [p \in Ports |-> 0]
  /\ backlog' = <<>>
  /\ broken' = [c \in Clients |-> TRUE]
  /\ accepted' = 0
  /\ UNCHANGED <<sent, inbox>>

(* Mutant: the limit counts the connections alone *)
MayOpen_NoPipes(n) == fds + n <= MaxFd

(* The kernel gives out n more descriptors. *)
MayOpen(n) == fds + pipes + n <= MaxFd

(* Mutant: the descriptor is duplicated, and neither is closed *)
Opened_Twice == fds + 2

Opened == fds + 1

(* accept_socket; without a descriptor accept fails and the loop goes on *)
Accept ==
  /\ up /\ comPc = "accept" /\ backlog # <<>> /\ MayOpen(1)
  /\ conn' = Head(backlog) /\ backlog' = Tail(backlog)
  /\ fds' = Opened /\ accepted' = accepted + 1
  /\ comPc' = "read"
  /\ UNCHANGED <<up, pipes, status, crashed, sent, inbox, broken, clients, bounds, served>>

(* d_receive_msg with a command *)
ReadCommand ==
  /\ up /\ comPc = "read" /\ sent[conn]
  /\ comPc' = "handle"
  /\ UNCHANGED <<up, fds, pipes, conn, status, crashed, accepted, sockets, clients, bounds,
                 served>>

(* Mutant: the end of the connection is read again and again *)
ReadNothing_Again == up /\ comPc = "read" /\ ~sent[conn] /\ pc[conn] = "gone" /\ UNCHANGED vars

(* d_receive_msg at the end of a connection without a command; nothing is   *)
(* closed                                                                   *)
ReadNothing ==
  /\ up /\ comPc = "read" /\ ~sent[conn] /\ pc[conn] = "gone"
  /\ comPc' = "accept" /\ conn' = NoClient
  /\ UNCHANGED <<up, fds, pipes, status, crashed, accepted, sockets, clients, bounds, served>>

(* cmd_sendStatus clears every status, cmd_rebootHandler sets that of the   *)
(* port.                                                                    *)
Statuses(r) ==
  IF r.cmd = "status" THEN {[p \in Ports |-> 0]}
  ELSE {[status EXCEPT ![r.port] = s] : s \in 1 .. 3}

(* cmdHandler[cmdType] and d_sendCmd; the connection stays open.  If the    *)
(* client has ended, write raises SIGPIPE, for which there is no handler.   *)
Handle ==
  /\ up /\ comPc = "handle"
  /\ IF pc[conn] = "gone"
     THEN crashed' = TRUE /\ Ends
     ELSE /\ status' \in Statuses(req[conn])
          /\ inbox' = [inbox EXCEPT ![conn] = TRUE]
          /\ comPc' = "accept" /\ conn' = NoClient
          /\ UNCHANGED <<up, fds, pipes, crashed, accepted, backlog, sent, broken>>
  /\ served' = served \cup {conn}
  /\ UNCHANGED <<clients, bounds>>

(* openPipe by the tests of the ports or the events thread: popen takes two *)
(* descriptors and keeps one.  The NULL of a failed popen goes to fgets.    *)
OpenPipe ==
  /\ up /\ pipes < MaxPipes
  /\ IF MayOpen(2)
     THEN /\ pipes' = pipes + 1
          /\ UNCHANGED <<up, fds, comPc, conn, status, crashed, accepted, sockets>>
     ELSE crashed' = TRUE /\ Ends
  /\ UNCHANGED <<clients, bounds, served>>

ClosePipe ==
  /\ up /\ pipes > 0
  /\ pipes' = pipes - 1
  /\ UNCHANGED <<up, fds, comPc, conn, status, crashed, accepted, sockets, clients, bounds,
                 served>>

(* procd stops the daemon to start it again (reload_service), or starts one *)
(* that has ended.                                                          *)
Stop ==
  /\ up /\ restarts < MaxRestarts
  /\ Ends
  /\ UNCHANGED <<crashed, clients, bounds, served>>

Start ==
  /\ ~up /\ restarts < MaxRestarts
  /\ up' = TRUE /\ crashed' = FALSE
  /\ restarts' = restarts + 1
  /\ UNCHANGED <<fds, pipes, comPc, conn, status, accepted, sockets, clients, calls, kills,
                 served>>

Com == ReadCommand \/ ReadNothing \/ Handle

Next ==
  \/ \E c \in Clients : Call(c) \/ ClientStep(c) \/ Kill(c) \/ Reuse(c)
  \/ Accept \/ Com \/ OpenPipe \/ ClosePipe \/ Stop \/ Start

Spec == Init /\ [][Next]_vars

(* Processes and threads go on; the loop around accept comes back to it as  *)
(* long as there are moments at which a descriptor is free.                 *)
Fairness ==
  /\ \A c \in Clients : WF_vars(ClientStep(c))
  /\ SF_vars(Accept) /\ WF_vars(Com) /\ WF_vars(OpenPipe) /\ WF_vars(ClosePipe)

FairSpec == Spec /\ Fairness

-----------------------------------------------------------------------------
(* Properties *)

(* Every variable has its type; the daemon never has more descriptors than *)
(* the kernel gives it.                                                    *)
TypeOK ==
  /\ up \in BOOLEAN /\ fds \in 0 .. MaxFd /\ pipes \in 0 .. MaxPipes
  /\ fds + pipes <= MaxFd
  /\ comPc \in {"accept", "read", "handle"} /\ conn \in Clients \cup {NoClient}
  /\ status \in [Ports -> 0 .. 3]
  /\ backlog \in Seq(Clients) /\ Len(backlog) <= Backlog
  /\ pc \in [Clients -> Talking \cup {"idle", "done", "gone"}]
  /\ req \in [Clients -> Requests]
  /\ sent \in [Clients -> BOOLEAN] /\ inbox \in [Clients -> BOOLEAN]
  /\ broken \in [Clients -> BOOLEAN]
  /\ printed \in [Clients -> SUBSET Flags]
  /\ calls \in 0 .. MaxCalls /\ kills \in 0 .. MaxKills /\ restarts \in 0 .. MaxRestarts
  /\ accepted \in Nat /\ crashed \in BOOLEAN /\ served \in SUBSET Clients

(* What the properties rest on: a connection waits, is served or is done    *)
(* with, never two of these; one the daemon still has is not broken; only  *)
(* an interrupted client leaves one; and no connection is ever closed.     *)
OneService ==
  /\ comPc = "accept" <=> conn = NoClient
  /\ \A i, j \in 1 .. Len(backlog) : i # j => backlog[i] # backlog[j]
  /\ \A i \in 1 .. Len(backlog) : backlog[i] # conn /\ ~inbox[backlog[i]]
  /\ conn # NoClient => ~inbox[conn] /\ pc[conn] \in {"send", "wait", "gone"}
  /\ \A c \in Clients : ~Released(c) =>
       /\ pc[c] \in {"send", "wait", "gone"} /\ ~broken[c]
       /\ pc[c] = "gone" => kills > 0
  /\ \A c \in Clients : inbox[c] => c \in served /\ pc[c] # "connect"
  /\ fds = accepted /\ fds + pipes <= MaxFd

(* A client that prints "ok" alone for a port or for the status has had its *)
(* command handled by the daemon, also when daemons end and start meanwhile. *)
OkMeansServed ==
  \A c \in Clients :
    pc[c] = "done" /\ printed[c] = {"OK"} /\ ~BadPort(req[c]) => c \in served

(* As long as no client is interrupted, the daemon outlives as many        *)
(* commands as there are descriptors besides those of its pipes, in any    *)
(* order of the threads: what the leak of runComHandler leaves.            *)
SurvivesCalls ==
  [][(crashed' /\ ~crashed) => kills > 0 \/ accepted >= MaxFd - MaxPipes]_vars

(* A client that has sent its command does not wait for ever: it gets an    *)
(* answer, or the daemon's end of the connection goes away.                 *)
Answered == \A c \in Clients : (pc[c] = "wait") ~> (pc[c] # "wait")

(* The page of the web interface asks for the status every two seconds: the *)
(* commands of clients do not end the daemon.                               *)
LastingService == ~crashed

(* A port number out of range is reported ("port num not coorrected").      *)
WrongPortReported ==
  \A c \in Clients :
    pc[c] = "done" /\ BadPort(req[c]) => "ARG_2" \in printed[c]
=============================================================================
