------------------------------ MODULE PoeFifo ------------------------------
(***************************************************************************)
(* What realtek-poe promises the callers of its ubus methods: the commands *)
(* they submit reach the PoE controller in the order of submission, each   *)
(* is executed at most once, and one that is not executed is given up      *)
(* before any later one is touched.  A daemon that is started anew forgets *)
(* the commands it has not yet written, none of those before them, and     *)
(* submits a whole setup behind what is left.                              *)
(***************************************************************************)
EXTENDS Naturals, Sequences

CONSTANTS
  Commands,  \* the commands a caller may submit
  Setups,    \* the bursts a start of the daemon submits
  PowerUps,  \* the supplies of the ports the controller may be found with
  Apply(_,_) \* Apply(c, p): the ports' supply after command c, p before

VARIABLES queue, power, restarts

vars == <<queue, power, restarts>>

Init == queue \in Setups /\ power \in PowerUps /\ restarts = 0

(* A handler of the daemon submits a burst of commands *)
Submit == /\ queue' \in Seq(Commands)
          /\ Len(queue') >= Len(queue)
          /\ SubSeq(queue', 1, Len(queue)) = queue
          /\ UNCHANGED <<power, restarts>>

Execute == /\ queue # <<>>
           /\ power' = Apply(Head(queue), power)
           /\ queue' = Tail(queue)
           /\ UNCHANGED restarts

GiveUp == queue # <<>> /\ queue' = Tail(queue) /\ UNCHANGED <<power, restarts>>

Restart == /\ restarts' = restarts + 1
           /\ \E written \in 0 .. Len(queue), s \in Setups :
                queue' = SubSeq(queue, 1, written) \o s
           /\ UNCHANGED power

Next == Submit \/ Execute \/ GiveUp \/ Restart

Spec == Init /\ [][Next]_vars
=============================================================================
