--------------------------- MODULE DeviceMonitor ---------------------------
(***************************************************************************)
(* The discovery daemon tf_device_monitor.  One thread runs the state      *)
(* machine client_handler for ever: it waits for a datagram on UDP port    *)
(* 6123, answers a search with what its scripts say about the switch, and  *)
(* gives a settings request to the script user_handler.lua.  Every answer  *)
(* is a broadcast to the port the daemon itself listens on, so it also     *)
(* hears its own answers and those of its neighbours.                      *)
(*                                                                         *)
(* A datagram is its type, the MAC address it names and how long it is:    *)
(* "short" of its fields, "whole", with a "long" message that does not fit *)
(* the buffers checkMD5Sum copies it to, or "over" the length of           *)
(* settingsMsg itself.                                                     *)
(***************************************************************************)
EXTENDS Integers, Sequences, SequencesExt

CONSTANTS
  NetOutputs,   \* what getNetData.lua may print: sequences of Lines
  Macs,         \* "own", "zero" and those of other devices
  MaxFds,       \* descriptors the process may have beside its own
  MaxRequests,  \* bound on the datagrams of managers and neighbours
  MaxFails,     \* bound on the sends that fail
  MaxRestarts   \* bound on restarts of the service

Lines   == {"found", "not_found", "other"}
Types   == {"find", "set", "update", "ack", "other"}
Lens    == {"short", "whole", "long", "over"}
Fills   == 0 .. 3          \* CMD_NET_INFO .. CMD_SYSTEM_INFO
CMD_MAX == 4

ASSUME MonitorAssumption ==
  /\ NetOutputs \subseteq Seq(Lines) /\ NetOutputs # {}
  /\ {"own", "zero"} \subseteq Macs
  /\ MaxFds \in Nat /\ MaxRequests \in Nat /\ MaxFails \in Nat /\ MaxRestarts \in Nat

ERR_OK                 == 0
ERR_AUTHENTICATION     == 1
ERR_CONFIGURATION      == 2
ERR_OBJ_NOT_FOUND      == 3
ERR_NETWORK            == 5
INFO_MAC_NOT_IDENTICAL == 6
ERR_NOT_FOUND          == 7   \* ERR_CONFIGURATION | ERR_NETWORK

VARIABLES
  state, event, msgType, count,  \* clientInfo; event is the set of its bits
  sendCb,                        \* eventSendMsg_CallbackArray
  buffer,                        \* buffer and bufferLen
  settMac,                       \* settingsMsg.settMsg.settings_struct.mac
  settLong,                      \* its msg is longer than the buffers for it
  code,                          \* its pass_md5[0], the verdict sent back
  outMac, netMac,                \* the MAC in searchOutMsg, in switchNetParam
  passFlag,                      \* the set of its bits
  errorCode, crashed,            \* of client_app; whether the process died
  sock,                          \* the listening socket
  leaks,                         \* descriptors net_sendMsg did not close
  inbox,                         \* datagrams the kernel holds for sock
  requests, fails, restarts,     \* counters of the environment
  filled, script, okLogged, judged  \* history, for the properties only

client  == <<state, event, msgType, count>>
message == <<sendCb, buffer, settMac, settLong, code, outMac, passFlag>>
bounds  == <<requests, fails, restarts>>
history == <<filled, script, okLogged, judged>>
vars    == <<client, message, netMac, errorCode, crashed, sock, leaks, inbox,
             bounds, history>>

NoDatagram == [type |-> "other", mac |-> "zero", len |-> "short"]
NoVerdict  == [mac |-> "zero", want |-> "zero", whole |-> FALSE, heard |-> FALSE]
NoCallback == [t \in {"searchMsg", "settingsMsg"} |-> "null"]

Init ==
  /\ state = "INIT" /\ event = {} /\ msgType = "idle" /\ count = 0
  /\ sendCb = NoCallback /\ buffer = NoDatagram /\ settMac = "zero"
  /\ settLong = FALSE /\ code = ERR_OK
  /\ outMac = "zero" /\ netMac = "zero" /\ passFlag = {}
  /\ errorCode = ERR_OK /\ crashed = FALSE /\ sock = "none" /\ leaks = 0
  /\ inbox = <<>> /\ requests = 0 /\ fails = 0 /\ restarts = 0
  /\ filled = {} /\ script = "none" /\ okLogged = FALSE /\ judged = NoVerdict

-----------------------------------------------------------------------------
(* Mutant: any error ends the loop *)
LoopGoesOn_NoError(e) == e = ERR_OK

(* while ((errorCode ^= ERR_CONFIGURATION) && (errorCode ^= ERR_NETWORK)): *)
(* the second ^= works on what the first one left.                         *)
LoopGoesOn(e) == e # ERR_CONFIGURATION /\ e # ERR_NOT_FOUND

Running == LoopGoesOn(errorCode) /\ ~crashed

(* One turn of client_handler in state s, and its error code *)
Turn(s, e) == Running /\ state = s /\ errorCode' = e

(* getNetInfo: the lines before "found" decide; the last of them is kept  *)
(* even when "found" follows.                                             *)
Before(lines) ==
  SelectInSeq(lines, LAMBDA l : l = "found")

getNetInfo(lines) ==
  LET n    == Before(lines)
      head == IF n = 0 THEN lines ELSE SubSeq(lines, 1, n - 1)
  IN IF head = <<>> THEN ERR_OK
     ELSE IF Last(head) = "not_found" THEN ERR_NOT_FOUND ELSE ERR_CONFIGURATION

(* net_socketInit: every failure of the socket is ERR_NETWORK, but only    *)
(* some leave it closed; one not bound to the device never gets a byte.    *)
(* The state becomes CLIENT_STATE_WAIT in any case.                        *)
SocketInit ==
  \E lines \in NetOutputs, s \in {"bound", "unbound", "closed"} :
    /\ Turn("INIT", IF s = "bound" THEN getNetInfo(lines) ELSE ERR_NETWORK)
    /\ sock' = s
    /\ netMac' \in IF Before(lines) = 0 THEN {netMac} ELSE {"own", "zero"}
    /\ state' = "WAIT"
    /\ UNCHANGED <<event, msgType, count, message, crashed, leaks, inbox, bounds,
                   history>>

-----------------------------------------------------------------------------
(* Mutant: an answer of a neighbour is taken for a search *)
CmdEvent_AckIsFind(type) ==
  IF type \in {"find", "ack"} THEN {"FIND"}
  ELSE IF type = "set" THEN {"SETTINGS"} ELSE {}

(* client_waitCommand; the answers ack_... are heard and passed over *)
CmdEvent(type) ==
  IF type = "find" THEN {"FIND"}
  ELSE IF type = "set" THEN {"SETTINGS"}
  ELSE IF type = "update" THEN {"UPDATE"} ELSE {}

(* Mutant: the counter of the callbacks is not reset by a new search *)
FirstCount_Kept == count

FirstCount == 0

(* Mutant: CLIENT_EVENT_SETTINGS is not taken off *)
Taken_Find(e) == e \ {"FIND"}

Taken(e) == e \ {"FIND", "SETTINGS"}

(* CLIENT_STATE_WAIT with d in the buffer.  CLIENT_EVENT_UPDATE is never   *)
(* taken off, and never looked at.                                         *)
Command(d) ==
  LET e == event \cup CmdEvent(d.type)
  IN /\ event' = Taken(e)
     /\ msgType' = IF "SETTINGS" \in e THEN "settingsMsg"
                   ELSE IF "FIND" \in e THEN "searchMsg" ELSE msgType
     /\ state' = IF "SETTINGS" \in e THEN "SETTINGS"
                 ELSE IF "FIND" \in e THEN "FILL_MSG" ELSE state
     /\ count' = IF e \cap {"FIND", "SETTINGS"} # {} THEN FirstCount ELSE count
     /\ filled' = {} /\ script' = "none" /\ okLogged' = FALSE

Receive ==
  /\ Turn("WAIT", ERR_OK)
  /\ sock = "bound" /\ inbox # <<>>
  /\ buffer' = Head(inbox) /\ inbox' = Tail(inbox)
  /\ Command(Head(inbox))
  /\ UNCHANGED <<sendCb, settMac, settLong, code, outMac, passFlag,
                 netMac, crashed, sock, leaks, bounds, judged>>

(* recvfrom fails at once on a closed descriptor: the type is read from    *)
(* what the buffer holds, which is still what the loader put there.        *)
ReceiveFails ==
  /\ Turn("WAIT", ERR_OK)
  /\ sock = "closed"
  /\ Command(buffer)
  /\ UNCHANGED <<message, netMac, crashed, sock, leaks, inbox, bounds, judged>>

-----------------------------------------------------------------------------
(* The answer to a search                                                 *)

Register(cb) ==
  sendCb' = IF sendCb[msgType] = "null" THEN [sendCb EXCEPT ![msgType] = cb] ELSE sendCb

NoDescriptor == leaks = MaxFds

(* One callback per turn.  All but fillNetInfo read a pipe. *)
FillMsg ==
  /\ Turn("FILL_MSG", ERR_OK) /\ count < CMD_MAX
  /\ count > 0 => ~NoDescriptor
  /\ outMac' = IF count = 0 THEN netMac ELSE outMac
  /\ filled' = filled \cup {count}
  /\ count' = count + 1
  /\ UNCHANGED <<state, event, msgType, sendCb, buffer, settMac, settLong, code, passFlag,
                 netMac, crashed, sock, leaks, inbox, bounds, script, okLogged,
                 judged>>

(* Mutant: the message that is ready is never sent *)
FillReady_Stay == "FILL_MSG"

FillReady == "SEND"

MsgReady ==
  /\ Turn("FILL_MSG", ERR_OK) /\ count >= CMD_MAX
  /\ Register("searchMsg")
  /\ state' = FillReady
  /\ UNCHANGED <<event, msgType, count, buffer, settMac, settLong, code, outMac,
                 passFlag, netMac, crashed, sock, leaks, inbox, bounds, history>>

(* CLIENT_STATE_SEND: the message goes through the receive buffer, with   *)
(* the length of the request; whether it was sent is not looked at.       *)
SendTurn ==
  /\ Turn("SEND", IF sendCb[msgType] = "null" THEN ERR_OBJ_NOT_FOUND ELSE ERR_OK)
  /\ state' = "RELOAD"
  /\ sendCb' = [sendCb EXCEPT ![msgType] = "null"]
  /\ UNCHANGED <<event, msgType, count, settMac, settLong, code, outMac, passFlag,
                 netMac, crashed, sock, requests, restarts, history>>

Answer == [type |-> "ack", mac |-> IF sendCb[msgType] = "searchMsg" THEN outMac
                                   ELSE settMac, len |-> buffer.len]

SendOk ==
  /\ SendTurn /\ ~NoDescriptor
  /\ IF sendCb[msgType] = "null" THEN UNCHANGED <<buffer, inbox>>
     ELSE buffer' = Answer /\ inbox' \in {inbox, Append(inbox, Answer)}
  /\ UNCHANGED <<leaks, fails>>

(* A send that fails once the socket is made leaves it open. *)
SendFails ==
  /\ SendTurn /\ ~NoDescriptor /\ sendCb[msgType] # "null"
  /\ fails < MaxFails /\ fails' = fails + 1
  /\ buffer' = Answer /\ leaks' \in {leaks, leaks + 1}
  /\ UNCHANGED inbox

(* Nothing sets applySystem or applyNetwork - settings_handler is never    *)
(* called - so no reload event is ever raised and this state only returns. *)
Reload ==
  /\ Turn("RELOAD", ERR_OK)
  /\ state' = "WAIT"
  /\ UNCHANGED <<event, msgType, count, message, netMac, crashed, sock, leaks,
                 inbox, bounds, history>>

-----------------------------------------------------------------------------
(* A settings request: client_settings, checkMacAddress, checkMD5Sum      *)

(* Mutant: passFlag is read before checkMacAddress is called, an order C   *)
(* allows as well                                                          *)
MacPass_ReadFirst(mac) == {"mac", "md5"}

(* passFlag |= checkMacAddress(), as GCC orders it: the call comes first. *)
MacPass(mac) == IF mac = outMac THEN {"mac", "md5"} ELSE {"md5"}

(* if (passFlag &= pass_mac): the assignment takes the md5 bit off as well *)
Masked(p) == p \cap {"mac"}

(* What checkMD5Sum leaves of the flags after the script printed reply; a  *)
(* reply it does not know, or none, takes nothing off.                     *)
Md5Pass(p, reply) ==
  IF reply \in {"hash_error", "msg_error", "config_error"} THEN p \ {"md5"} ELSE p

ScriptReplies == {"config_ok", "hash_error", "hash_not_valid", "msg_error", "no_output"}

(* getBuffer copies as many bytes as were received: a short request keeps  *)
(* the address of the one before.                                          *)
RequestMac == IF buffer.len = "short" THEN settMac ELSE buffer.mac

(* Whether the message is now too long.  It ends at its first zero, and a  *)
(* request whose own text has none is continued by what an earlier and     *)
(* longer one has left.                                                    *)
RequestLong == IF buffer.len \in {"long", "over"} THEN {TRUE}
               ELSE IF buffer.len = "whole" THEN {FALSE, settLong} ELSE {settLong}

ForThisSwitch == "mac" \in Masked(MacPass(RequestMac))

Verdict(p) == IF "md5" \in p THEN ERR_OK ELSE ERR_AUTHENTICATION

Judge(heard) == judged' = [mac |-> RequestMac, want |-> outMac,
                           whole |-> buffer.len # "short", heard |-> heard]

Settings ==
  LET p == Masked(MacPass(RequestMac))
  IN /\ ForThisSwitch /\ ~NoDescriptor
     /\ \E reply \in ScriptReplies :
          /\ passFlag' = Md5Pass(p, reply)
          /\ Turn("SETTINGS", Verdict(Md5Pass(p, reply)))
          /\ code' = Verdict(Md5Pass(p, reply))
          /\ okLogged' = (Verdict(Md5Pass(p, reply)) = ERR_OK)
          /\ script' = reply
     /\ settMac' = RequestMac /\ settLong' \in RequestLong
     /\ Register("settMsg")
     /\ state' = "SEND"
     /\ Judge(TRUE)
     /\ UNCHANGED <<event, msgType, count, buffer, outMac, netMac, crashed, sock,
                    leaks, inbox, bounds, filled>>

(* A request for another device is not answered; the line logged for it    *)
(* reads "AUTHENTICATION OK" too.                                          *)
SettingsForeign ==
  LET p == Masked(MacPass(RequestMac))
  IN /\ ~ForThisSwitch
     /\ Turn("SETTINGS", INFO_MAC_NOT_IDENTICAL)
     /\ passFlag' = p
     /\ code' = INFO_MAC_NOT_IDENTICAL
     /\ okLogged' = TRUE
     /\ settMac' = RequestMac /\ settLong' \in RequestLong
     /\ state' = "WAIT"
     /\ Judge(FALSE)
     /\ UNCHANGED <<event, msgType, count, sendCb, buffer, outMac, netMac, crashed,
                    sock, leaks, inbox, bounds, filled, script>>

(* Without a free descriptor popen gives NULL, which is read all the same. *)
PipeFails ==
  /\ Running /\ NoDescriptor
  /\ \/ state = "FILL_MSG" /\ count \in 1 .. CMD_MAX - 1
     \/ state = "SETTINGS" /\ ForThisSwitch
  /\ crashed' = TRUE
  /\ UNCHANGED <<client, message, netMac, errorCode, sock, leaks, inbox, bounds,
                 history>>

(* getBuffer copies a datagram over the end of settingsMsg, checkMD5Sum a  *)
(* message over the ends of msg_dm and cmd_checkHash.  What that does is   *)
(* undefined: the process may end here, or go on as in the actions above.  *)
Overrun ==
  /\ Running /\ state = "SETTINGS"
  /\ \/ buffer.len = "over"
     \/ ForThisSwitch /\ TRUE \in RequestLong
  /\ crashed' = TRUE /\ settLong' = TRUE
  /\ UNCHANGED <<client, sendCb, buffer, settMac, code, outMac, passFlag, netMac,
                 errorCode, sock, leaks, inbox, bounds, history>>

Handler ==
  \/ SocketInit \/ Receive \/ ReceiveFails \/ FillMsg \/ MsgReady \/ PipeFails
  \/ SendOk \/ SendFails \/ Reload \/ Settings \/ SettingsForeign \/ Overrun

-----------------------------------------------------------------------------
(* Managers, neighbours and the init script                               *)

Datagram ==
  /\ requests < MaxRequests /\ requests' = requests + 1
  /\ \E t \in Types, m \in Macs, l \in Lens :
       inbox' = IF sock = "bound" THEN Append(inbox, [type |-> t, mac |-> m, len |-> l])
                ELSE inbox
  /\ UNCHANGED <<client, message, netMac, errorCode, crashed, sock, leaks, fails,
                 restarts, history>>

(* The service is restarted; what the kernel held for it is gone. *)
Restart ==
  /\ restarts < MaxRestarts /\ restarts' = restarts + 1
  /\ state' = "INIT" /\ event' = {} /\ msgType' = "idle" /\ count' = 0
  /\ sendCb' = NoCallback /\ buffer' = NoDatagram /\ settMac' = "zero"
  /\ settLong' = FALSE /\ code' = ERR_OK
  /\ outMac' = "zero" /\ netMac' = "zero" /\ passFlag' = {}
  /\ errorCode' = ERR_OK /\ crashed' = FALSE /\ sock' = "none" /\ leaks' = 0
  /\ inbox' = <<>>
  /\ filled' = {} /\ script' = "none" /\ okLogged' = FALSE /\ judged' = NoVerdict
  /\ UNCHANGED <<requests, fails>>

Next == Handler \/ Datagram \/ Restart

Spec == Init /\ [][Next]_vars

(* The process is scheduled. *)
FairSpec == Spec /\ WF_vars(Handler)

-----------------------------------------------------------------------------
(* Properties *)

Datagrams == [type : Types, mac : Macs, len : Lens]
Codes     == 0 .. 7

(* Every variable keeps the type its C declaration gives it. *)
TypeOK ==
  /\ state \in {"INIT", "WAIT", "FILL_MSG", "SEND", "RELOAD", "SETTINGS"}
  /\ event \subseteq {"UPDATE"}
  /\ msgType \in {"idle", "searchMsg", "settingsMsg"} /\ count \in 0 .. CMD_MAX
  /\ sendCb \in [{"searchMsg", "settingsMsg"} -> {"null", "searchMsg", "settMsg"}]
  /\ buffer \in Datagrams /\ settMac \in Macs /\ settLong \in BOOLEAN
  /\ code \in Codes
  /\ outMac \in Macs /\ netMac \in Macs /\ passFlag \subseteq {"mac", "md5"}
  /\ errorCode \in Codes /\ crashed \in BOOLEAN
  /\ sock \in {"none", "bound", "unbound", "closed"} /\ leaks \in 0 .. MaxFds
  /\ inbox \in Seq(Datagrams)
  /\ requests \in 0 .. MaxRequests /\ fails \in 0 .. MaxFails
  /\ restarts \in 0 .. MaxRestarts
  /\ filled \subseteq Fills /\ script \in ScriptReplies \cup {"none"}
  /\ okLogged \in BOOLEAN
  /\ judged \in [mac : Macs, want : Macs, whole : BOOLEAN, heard : BOOLEAN]

(* When an answer is about to be sent, the callback that sends it is the   *)
(* one for the request received last and no other is left over from an     *)
(* earlier one; a search is answered only after all four callbacks have    *)
(* filled the message anew.                                                *)
AnswerReady ==
  /\ state \in {"WAIT", "FILL_MSG", "SETTINGS"} => sendCb = NoCallback
  /\ state = "SEND" /\ msgType = "searchMsg" =>
       sendCb = [NoCallback EXCEPT !["searchMsg"] = "searchMsg"] /\ filled = Fills
  /\ state = "SEND" /\ msgType = "settingsMsg" =>
       sendCb = [NoCallback EXCEPT !["settingsMsg"] = "settMsg"] /\ script # "none"

(* Why it is so: where the callbacks and the fields stand in each state. *)
Tracked ==
  /\ state \in {"INIT", "RELOAD"} => sendCb = NoCallback
  /\ state = "INIT" => msgType = "idle"
  /\ state = "FILL_MSG" => msgType = "searchMsg" /\ filled = 0 .. count - 1
  /\ state = "SETTINGS" => msgType = "settingsMsg"
  /\ state = "SEND" => msgType # "idle"

(* A settings request that names an address reaches the script exactly if  *)
(* that is the address the daemon announces.                               *)
RightSetsHeard == judged.whole => (judged.heard <=> judged.mac = judged.want)

(* The daemon ends only because the network configuration is wrong, it has *)
(* used up its descriptors, or it works on a settings request that is too  *)
(* long for its buffers: for this switch, or over the record itself.  No   *)
(* other request and no failed send ends it.                               *)
StopReason == ~Running => \/ state = "WAIT" /\ msgType = "idle"
                          \/ crashed /\ NoDescriptor
                          \/ /\ crashed /\ state = "SETTINGS" /\ settLong
                             /\ ForThisSwitch \/ buffer.len = "over"

(* A request that was taken up is finished: the daemon is back at waiting, *)
(* or has ended.                                                           *)
Served == state # "WAIT" ~> (state = "WAIT" \/ ~Running)

(* The daemon works off what it receives, its own answers included: it is  *)
(* never drawn into answering answers.                                     *)
Drained == <>[](sock = "bound" /\ Running => inbox = <<>>)

(* A network error ends the daemon, as the condition of its loop says. *)
NetworkErrorStops == errorCode = ERR_NETWORK ~> (~Running \/ sock = "none")

(* "AUTHENTICATION OK" is logged only if the script accepted a request. *)
AuthTruth == okLogged => script = "config_ok"

(* The verdict sent for settings the script accepted is ERR_OK. *)
AckTruth == state = "SEND" /\ msgType = "settingsMsg" /\ script = "config_ok"
              => code = ERR_OK

(* No request ends the daemon. *)
NoRequestEnds == crashed => NoDescriptor

(* A settings request for this switch is not taken for another's. *)
OwnSetHeard == judged.whole /\ judged.mac = "own" /\ netMac = "own" => judged.heard
=============================================================================
