------------------------------ MODULE MCCommands ------------------------------
(***************************************************************************)
(* The two ends of a command for TLC: the gate that lets its message in    *)
(* and the queue of its acks.  They share no state, so that one that moves *)
(* while the other rests behaves as it does beside it; turn says which.    *)
(***************************************************************************)
EXTENDS CommandReplay, CommandAcks, TLC

CONSTANTS c1, c2, c3, c4  \* commands, model values

FourIds == {c1, c2, c3, c4}
\* Two signed at once, one just after, one when the window has moved past the first two.
FourStamps == c1 :> 0 @@ c2 :> 0 @@ c3 :> 1 @@ c4 :> 3
\* The node's trusted now: the backend's time, or a clock taken for right.
AnyTime == 0..3

TwoCommands == {c1, c2}
\* The second try waits longer than the first; the third may meet the deadline.
TwoBackoffs == <<1, 2>>

VARIABLE turn

allVars == <<turn, replayVars, ackVars>>

Init == turn \in {"gate", "acks"} /\ ReplayInit /\ AcksInit

\* One moves and the other rests.
GateAlone == turn = "gate" /\ UNCHANGED <<turn, ackVars>>
AcksAlone == turn = "acks" /\ UNCHANGED <<turn, replayVars>>

Next ==
  \/ GateAlone /\ ReplayNext
  \/ AcksAlone /\ AcksNext

\* The acks' fairness, of theirs alone.
Spec ==
  /\ Init /\ [][Next]_allVars
  /\ WF_allVars(AcksAlone /\ Worker) /\ WF_allVars(AcksAlone /\ Tick) /\ WF_allVars(AcksAlone /\ Close)
-----------------------------------------------------------------------------
\* The state of both is of its type.
TypesOK == ReplayTypeOK /\ AcksTypeOK
=============================================================================
