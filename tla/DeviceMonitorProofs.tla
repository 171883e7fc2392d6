------------------------ MODULE DeviceMonitorProofs ------------------------
(***************************************************************************)
(* Proofs about the discovery daemon of module DeviceMonitor, for every    *)
(* number of requests, failed sends, restarts and descriptors, and for     *)
(* every output of getNetData.lua.                                         *)
(***************************************************************************)
EXTENDS DeviceMonitor, TLAPS

(* The type invariant in parts: the state machine, the messages, the       *)
(* Boolean variables and the record of the last settings request.          *)
TypeMachine ==
  /\ state \in {"INIT", "WAIT", "FILL_MSG", "SEND", "RELOAD", "SETTINGS"}
  /\ event \subseteq {"UPDATE"}
  /\ msgType \in {"idle", "searchMsg", "settingsMsg"} /\ count \in 0 .. CMD_MAX
  /\ code \in Codes /\ passFlag \subseteq {"mac", "md5"} /\ errorCode \in Codes
  /\ sock \in {"none", "bound", "unbound", "closed"} /\ leaks \in 0 .. MaxFds
  /\ requests \in 0 .. MaxRequests /\ fails \in 0 .. MaxFails
  /\ restarts \in 0 .. MaxRestarts
  /\ filled \subseteq Fills /\ script \in ScriptReplies \cup {"none"}

TypeMessage ==
  /\ sendCb \in [{"searchMsg", "settingsMsg"} -> {"null", "searchMsg", "settMsg"}]
  /\ buffer \in Datagrams /\ settMac \in Macs /\ outMac \in Macs /\ netMac \in Macs
  /\ inbox \in Seq(Datagrams)

TypeBool == crashed \in BOOLEAN /\ okLogged \in BOOLEAN /\ settLong \in BOOLEAN

TypeJudged == judged \in [mac : Macs, want : Macs, whole : BOOLEAN, heard : BOOLEAN]

TypeParts == TypeMachine /\ TypeMessage /\ TypeBool /\ TypeJudged

LEMMA TypeOKParts == TypeOK <=> TypeParts
  BY DEF TypeOK, TypeParts, TypeMachine, TypeMessage, TypeBool, TypeJudged

LEMMA TypeInit == Init => TypeParts
<1> SUFFICES ASSUME Init PROVE TypeParts
  OBVIOUS
<1> USE MonitorAssumption DEF Init
<1>1. TypeMachine
  BY DEF TypeMachine, Codes, ERR_OK, CMD_MAX, ScriptReplies
<1>2. TypeMessage
  BY DEF TypeMessage, NoCallback, NoDatagram, Datagrams, Types, Lens
<1>3. TypeBool
  BY DEF TypeBool
<1>4. TypeJudged
  BY DEF TypeJudged, NoVerdict
<1> QED
  BY <1>1, <1>2, <1>3, <1>4 DEF TypeParts

LEMMA MachineStep ==
  ASSUME TypeMachine, [Next]_vars
  PROVE  TypeMachine'
<1> USE MonitorAssumption DEF TypeMachine, Codes, CMD_MAX, vars, client, message, bounds, history,
     ERR_OK, ERR_AUTHENTICATION, ERR_CONFIGURATION,
     ERR_OBJ_NOT_FOUND, ERR_NETWORK, INFO_MAC_NOT_IDENTICAL, ERR_NOT_FOUND
<1>1. CASE SocketInit
  BY <1>1 DEF SocketInit, Turn, getNetInfo
<1>2. CASE Receive
  BY <1>2 DEF Receive, Turn, Command, CmdEvent, Taken, FirstCount
<1>3. CASE ReceiveFails
  BY <1>3 DEF ReceiveFails, Turn, Command, CmdEvent, Taken, FirstCount
<1>4. CASE FillMsg
  BY <1>4 DEF FillMsg, Turn, Fills, CMD_MAX
<1>5. CASE MsgReady
  BY <1>5 DEF MsgReady, Turn, FillReady
<1>6. CASE PipeFails
  BY <1>6 DEF PipeFails
<1>7. CASE SendOk
  BY <1>7 DEF SendOk, SendTurn, Turn
<1>8. CASE SendFails
  BY <1>8 DEF SendFails, SendTurn, Turn, NoDescriptor
<1>9. CASE Reload
  BY <1>9 DEF Reload, Turn
<1>10. CASE Settings
  BY <1>10 DEF Settings, Turn, Verdict, Md5Pass, Masked, MacPass, ScriptReplies
<1>11. CASE SettingsForeign
  BY <1>11 DEF SettingsForeign, Turn, Masked, MacPass
<1>12. CASE Datagram
  BY <1>12 DEF Datagram
<1>13. CASE Restart
  BY <1>13 DEF Restart
<1>14. CASE Overrun
  BY <1>14 DEF Overrun
<1>15. CASE UNCHANGED vars
  BY <1>15
<1> QED
  BY <1>1, <1>2, <1>3, <1>4, <1>5, <1>6, <1>7, <1>8, <1>9, <1>10, <1>11,
     <1>12, <1>13, <1>14, <1>15 DEF Next, Handler

LEMMA QueueFacts ==
  ASSUME NEW S, NEW q \in Seq(S)
  PROVE  /\ \A e \in S : Append(q, e) \in Seq(S)
         /\ q # <<>> => Head(q) \in S /\ Tail(q) \in Seq(S)
  OBVIOUS

LEMMA MessageStep ==
  ASSUME TypeMessage, [Next]_vars
  PROVE  TypeMessage'
<1> USE MonitorAssumption DEF TypeMessage, Datagrams, Types, Lens, vars, client, message, bounds, history
<1>1. CASE SocketInit
  BY <1>1 DEF SocketInit
<1>2. CASE Receive
  <2> HIDE DEF Datagrams
  <2>1. buffer' \in Datagrams /\ inbox' \in Seq(Datagrams)
    BY <1>2, QueueFacts DEF Receive
  <2> QED
    BY <1>2, <2>1 DEF Receive
<1>3. CASE ReceiveFails
  BY <1>3 DEF ReceiveFails
<1>4. CASE FillMsg
  BY <1>4 DEF FillMsg
<1>5. CASE MsgReady
  BY <1>5 DEF MsgReady, Register
<1>6. CASE PipeFails
  BY <1>6 DEF PipeFails
<1>7. CASE SendOk
  <2>1. Answer \in Datagrams
    BY DEF Answer
  <2> HIDE DEF Datagrams
  <2> HIDE DEF Answer
  <2>2. /\ buffer' = buffer \/ buffer' = Answer
        /\ inbox' = inbox \/ inbox' = Append(inbox, Answer)
    BY <1>7 DEF SendOk
  <2>3. buffer' \in Datagrams /\ inbox' \in Seq(Datagrams)
    BY <2>1, <2>2, QueueFacts
  <2> QED
    BY <1>7, <2>3 DEF SendOk, SendTurn
<1>8. CASE SendFails
  BY <1>8 DEF SendFails, SendTurn, Answer
<1>9. CASE Reload
  BY <1>9 DEF Reload
<1>10. CASE Settings
  BY <1>10 DEF Settings, Register, RequestMac
<1>11. CASE SettingsForeign
  BY <1>11 DEF SettingsForeign, RequestMac
<1>12. CASE Datagram
  <2>1. PICK d \in Datagrams : inbox' = inbox \/ inbox' = Append(inbox, d)
    BY <1>12 DEF Datagram
  <2> HIDE DEF Datagrams
  <2>2. inbox' \in Seq(Datagrams)
    BY <2>1, QueueFacts
  <2> QED
    BY <1>12, <2>2 DEF Datagram
<1>13. CASE Restart
  BY <1>13 DEF Restart, NoCallback, NoDatagram
<1>14. CASE Overrun
  BY <1>14 DEF Overrun
<1>15. CASE UNCHANGED vars
  BY <1>15
<1> QED
  BY <1>1, <1>2, <1>3, <1>4, <1>5, <1>6, <1>7, <1>8, <1>9, <1>10, <1>11,
     <1>12, <1>13, <1>14, <1>15 DEF Next, Handler

LEMMA BoolStep ==
  ASSUME TypeBool, [Next]_vars
  PROVE  TypeBool'
<1> USE DEF TypeBool, vars, client, message, bounds, history
<1>1. CASE SocketInit
  BY <1>1 DEF SocketInit
<1>2. CASE Receive
  BY <1>2 DEF Receive, Command
<1>3. CASE ReceiveFails
  BY <1>3 DEF ReceiveFails, Command
<1>4. CASE FillMsg
  BY <1>4 DEF FillMsg
<1>5. CASE MsgReady
  BY <1>5 DEF MsgReady
<1>6. CASE PipeFails
  BY <1>6 DEF PipeFails
<1>7. CASE SendOk
  BY <1>7 DEF SendOk, SendTurn
<1>8. CASE SendFails
  BY <1>8 DEF SendFails, SendTurn
<1>9. CASE Reload
  BY <1>9 DEF Reload
<1>10. CASE Settings
  BY <1>10 DEF Settings, RequestLong
<1>11. CASE SettingsForeign
  BY <1>11 DEF SettingsForeign, RequestLong
<1>12. CASE Datagram
  BY <1>12 DEF Datagram
<1>13. CASE Restart
  BY <1>13 DEF Restart
<1>14. CASE Overrun
  BY <1>14 DEF Overrun
<1>15. CASE UNCHANGED vars
  BY <1>15
<1> QED
  BY <1>1, <1>2, <1>3, <1>4, <1>5, <1>6, <1>7, <1>8, <1>9, <1>10, <1>11,
     <1>12, <1>13, <1>14, <1>15 DEF Next, Handler

LEMMA JudgedStep ==
  ASSUME TypeJudged, TypeMessage, [Next]_vars
  PROVE  TypeJudged'
<1> USE MonitorAssumption DEF TypeJudged, TypeMessage, Datagrams, vars, client, message, bounds, history
<1>1. CASE SocketInit
  BY <1>1 DEF SocketInit
<1>2. CASE Receive
  BY <1>2 DEF Receive
<1>3. CASE ReceiveFails
  BY <1>3 DEF ReceiveFails
<1>4. CASE FillMsg
  BY <1>4 DEF FillMsg
<1>5. CASE MsgReady
  BY <1>5 DEF MsgReady
<1>6. CASE PipeFails
  BY <1>6 DEF PipeFails
<1>7. CASE SendOk
  BY <1>7 DEF SendOk, SendTurn
<1>8. CASE SendFails
  BY <1>8 DEF SendFails, SendTurn
<1>9. CASE Reload
  BY <1>9 DEF Reload
<1>10. CASE Settings
  BY <1>10 DEF Settings, Judge, RequestMac
<1>11. CASE SettingsForeign
  BY <1>11 DEF SettingsForeign, Judge, RequestMac
<1>12. CASE Datagram
  BY <1>12 DEF Datagram
<1>13. CASE Restart
  BY <1>13 DEF Restart, NoVerdict
<1>14. CASE Overrun
  BY <1>14 DEF Overrun
<1>15. CASE UNCHANGED vars
  BY <1>15
<1> QED
  BY <1>1, <1>2, <1>3, <1>4, <1>5, <1>6, <1>7, <1>8, <1>9, <1>10, <1>11,
     <1>12, <1>13, <1>14, <1>15 DEF Next, Handler

(* Every variable of the daemon keeps the type its declaration gives it. *)
THEOREM TypeCorrect == Spec => []TypeOK
<1>1. TypeParts /\ [Next]_vars => TypeParts'
  BY MachineStep, MessageStep, BoolStep, JudgedStep DEF TypeParts
<1> QED
  BY <1>1, TypeInit, TypeOKParts, PTL DEF Spec

-----------------------------------------------------------------------------
(* The callbacks and the verdict of the answer about to be sent. *)
LEMMA ReadyStep ==
  ASSUME TypeMachine, TypeMessage, Tracked, AnswerReady, [Next]_vars
  PROVE  (Tracked /\ AnswerReady)'
<1> USE MonitorAssumption DEF TypeMachine, TypeMessage, Tracked, AnswerReady, NoCallback,
     Codes, CMD_MAX, Fills, vars, client, message, bounds, history,
     ERR_OK, ERR_AUTHENTICATION
<1>1. CASE SocketInit
  BY <1>1 DEF SocketInit, Turn
<1>2. CASE Receive
  BY <1>2 DEF Receive, Turn, Command, CmdEvent, FirstCount
<1>3. CASE ReceiveFails
  BY <1>3 DEF ReceiveFails, Turn, Command, CmdEvent, FirstCount
<1>4. CASE FillMsg
  BY <1>4 DEF FillMsg, Turn
<1>5. CASE MsgReady
  <2>1. /\ state = "FILL_MSG" /\ msgType = "searchMsg" /\ sendCb = NoCallback
        /\ count = CMD_MAX /\ filled = Fills
    BY <1>5 DEF MsgReady, Turn
  <2>2. sendCb' = [NoCallback EXCEPT !["searchMsg"] = "searchMsg"]
    BY <1>5, <2>1 DEF MsgReady, Register
  <2>3. state' = "SEND" /\ msgType' = msgType /\ filled' = filled
    BY <1>5 DEF MsgReady, FillReady
  <2> QED
    BY <2>1, <2>2, <2>3
<1>6. CASE PipeFails
  BY <1>6 DEF PipeFails
<1>7. CASE SendOk
  BY <1>7 DEF SendOk, SendTurn, Turn
<1>8. CASE SendFails
  BY <1>8 DEF SendFails, SendTurn, Turn
<1>9. CASE Reload
  BY <1>9 DEF Reload, Turn
<1>10. CASE Settings
  BY <1>10 DEF Settings, Turn, Register, Verdict, Md5Pass, Masked, MacPass, ScriptReplies
<1>11. CASE SettingsForeign
  BY <1>11 DEF SettingsForeign, Turn
<1>12. CASE Datagram
  BY <1>12 DEF Datagram
<1>13. CASE Restart
  BY <1>13 DEF Restart
<1>14. CASE Overrun
  BY <1>14 DEF Overrun
<1>15. CASE UNCHANGED vars
  BY <1>15
<1> QED
  BY <1>1, <1>2, <1>3, <1>4, <1>5, <1>6, <1>7, <1>8, <1>9, <1>10, <1>11,
     <1>12, <1>13, <1>14, <1>15 DEF Next, Handler

(* The answers are tracked and ready in every state. *)
LEMMA AnswersTracked == Spec => [](Tracked /\ AnswerReady)
<1>1. Init => Tracked /\ AnswerReady
  BY DEF Init, Tracked, AnswerReady
<1>2. TypeMachine /\ TypeMessage /\ Tracked /\ AnswerReady /\ [Next]_vars
        => (Tracked /\ AnswerReady)'
  BY ReadyStep
<1>3. TypeOK => TypeMachine /\ TypeMessage
  BY TypeOKParts DEF TypeParts
<1> QED
  BY <1>1, <1>2, <1>3, TypeCorrect, PTL DEF Spec

(* The answer about to be sent is always the one to the request received   *)
(* last, freshly filled.                                                   *)
THEOREM AnswerTheorem == Spec => []AnswerReady
BY AnswersTracked, PTL

-----------------------------------------------------------------------------
(* The settings request judged last. *)
LEMMA HeardStep ==
  ASSUME TypeMessage, TypeJudged, RightSetsHeard, [Next]_vars
  PROVE  RightSetsHeard'
<1> USE DEF RightSetsHeard, vars, client, message, bounds, history
<1>1. CASE SocketInit
  BY <1>1 DEF SocketInit
<1>2. CASE Receive
  BY <1>2 DEF Receive, Command
<1>3. CASE ReceiveFails
  BY <1>3 DEF ReceiveFails, Command
<1>4. CASE FillMsg
  BY <1>4 DEF FillMsg
<1>5. CASE MsgReady
  BY <1>5 DEF MsgReady
<1>6. CASE PipeFails
  BY <1>6 DEF PipeFails
<1>7. CASE SendOk
  BY <1>7 DEF SendOk, SendTurn
<1>8. CASE SendFails
  BY <1>8 DEF SendFails, SendTurn
<1>9. CASE Reload
  BY <1>9 DEF Reload
<1>10. CASE Settings
  BY <1>10 DEF Settings, Judge, ForThisSwitch, Masked, MacPass
<1>11. CASE SettingsForeign
  BY <1>11 DEF SettingsForeign, Judge, ForThisSwitch, Masked, MacPass
<1>12. CASE Datagram
  BY <1>12 DEF Datagram
<1>13. CASE Restart
  BY <1>13 DEF Restart, NoVerdict
<1>14. CASE Overrun
  BY <1>14 DEF Overrun
<1>15. CASE UNCHANGED vars
  BY <1>15
<1> QED
  BY <1>1, <1>2, <1>3, <1>4, <1>5, <1>6, <1>7, <1>8, <1>9, <1>10, <1>11,
     <1>12, <1>13, <1>14, <1>15 DEF Next, Handler

(* Whatever was announced, sent and received before, a settings request    *)
(* that names an address reaches the script exactly if that address is the *)
(* one the daemon announces.                                               *)
THEOREM HeardTheorem == Spec => []RightSetsHeard
<1>1. Init => RightSetsHeard
  BY DEF Init, RightSetsHeard, NoVerdict
<1>2. TypeMessage /\ TypeJudged /\ RightSetsHeard /\ [Next]_vars => RightSetsHeard'
  BY HeardStep
<1>3. TypeOK => TypeMessage /\ TypeJudged
  BY TypeOKParts DEF TypeParts
<1> QED
  BY <1>1, <1>2, <1>3, TypeCorrect, PTL DEF Spec

-----------------------------------------------------------------------------
(* What ends the daemon. *)
LEMMA StopStep ==
  ASSUME TypeMachine, TypeBool, Tracked, StopReason, [Next]_vars
  PROVE  StopReason'
<1> USE DEF TypeMachine, TypeBool, Tracked, StopReason, Running, LoopGoesOn, NoDescriptor,
     ForThisSwitch, RequestMac, Masked, MacPass,
     vars, client, message, bounds, history,
     ERR_OK, ERR_AUTHENTICATION, ERR_CONFIGURATION,
     ERR_OBJ_NOT_FOUND, ERR_NETWORK, INFO_MAC_NOT_IDENTICAL, ERR_NOT_FOUND
<1>1. CASE SocketInit
  BY <1>1 DEF SocketInit, Turn
<1>2. CASE Receive
  BY <1>2 DEF Receive, Turn, Command
<1>3. CASE ReceiveFails
  BY <1>3 DEF ReceiveFails, Turn, Command
<1>4. CASE FillMsg
  BY <1>4 DEF FillMsg, Turn
<1>5. CASE MsgReady
  BY <1>5 DEF MsgReady, Turn
<1>6. CASE PipeFails
  BY <1>6 DEF PipeFails
<1>7. CASE SendOk
  BY <1>7 DEF SendOk, SendTurn, Turn
<1>8. CASE SendFails
  BY <1>8 DEF SendFails, SendTurn, Turn
<1>9. CASE Reload
  BY <1>9 DEF Reload, Turn
<1>10. CASE Settings
  BY <1>10 DEF Settings, Turn, Verdict
<1>11. CASE SettingsForeign
  BY <1>11 DEF SettingsForeign, Turn
<1>12. CASE Datagram
  BY <1>12 DEF Datagram
<1>13. CASE Restart
  BY <1>13 DEF Restart
<1>14. CASE Overrun
  BY <1>14 DEF Overrun, RequestLong
<1>15. CASE UNCHANGED vars
  BY <1>15
<1> QED
  BY <1>1, <1>2, <1>3, <1>4, <1>5, <1>6, <1>7, <1>8, <1>9, <1>10, <1>11,
     <1>12, <1>13, <1>14, <1>15 DEF Next, Handler

(* The daemon ends only at its start, for the network configuration, when  *)
(* it has leaked all its descriptors, or on a settings request too long    *)
(* for its buffers that is for this switch or over the record.             *)
THEOREM StopTheorem == Spec => []StopReason
<1>1. Init => Tracked /\ AnswerReady /\ StopReason
  BY DEF Init, Tracked, AnswerReady, StopReason, Running, LoopGoesOn, ERR_OK,
     ERR_CONFIGURATION, ERR_NOT_FOUND
<1>2. TypeMachine /\ TypeMessage /\ Tracked /\ AnswerReady /\ [Next]_vars
        => (Tracked /\ AnswerReady)'
  BY ReadyStep
<1>3. TypeMachine /\ TypeBool /\ Tracked /\ StopReason /\ [Next]_vars => StopReason'
  BY StopStep
<1>4. TypeOK => TypeMachine /\ TypeMessage /\ TypeBool
  BY TypeOKParts DEF TypeParts
<1> QED
  BY <1>1, <1>2, <1>3, <1>4, TypeCorrect, PTL DEF Spec
=============================================================================
