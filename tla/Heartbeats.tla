------------------------------ MODULE Heartbeats ------------------------------
(***************************************************************************)
(* The node's heartbeat (heartbeat.py): each one, when it has been sent,   *)
(* starts the timer of the next; a nudge sends one beside the chain, and   *)
(* whoever ends last replaces the other's timer.  A pause says nothing and *)
(* takes no lock; a stop sends offline.                                    *)
(***************************************************************************)
EXTENDS Naturals, FiniteSets

CONSTANTS
  Beats,       \* threads that send a heartbeat
  MaxPauses    \* bound: pauses and nudges

ASSUME HeartbeatsAssumption == IsFiniteSet(Beats) /\ MaxPauses \in Nat

VARIABLES
  beating,     \* _running
  ended,       \* stop() was called
  beatPhase,   \* of each thread: "none", "sending" or "scheduling", which has the lock
  timer,       \* _timer is waiting
  strays,      \* timers that wait and that _timer does not name
  pausing,     \* pause() is between its two statements
  nudging,     \* nudge() has found the node running and has not started its thread
  said,        \* the last status that went out
  crossed,     \* history: a heartbeat was in flight when stop() was called
  pauses       \* pauses and nudges so far

beatVars == <<beating, ended, beatPhase, timer, strays, pausing, nudging, said, crossed, pauses>>

InPhase(p) == {b \in Beats : beatPhase[b] = p}

BeatsTypeOK ==
  /\ {beating, ended, timer, pausing, nudging, crossed} \subseteq BOOLEAN
  /\ beatPhase \in [Beats -> {"none", "sending", "scheduling"}]
  /\ Cardinality(InPhase("scheduling")) <= 1
  /\ strays \in 0..MaxPauses /\ said \in {"nothing", "online", "offline"} /\ pauses \in 0..MaxPauses

\* start(): the first heartbeat is being sent.
BeatsInit ==
  /\ beating = TRUE /\ ended = FALSE
  /\ \E b \in Beats : beatPhase = [c \in Beats |-> IF c = b THEN "sending" ELSE "none"]
  /\ timer = FALSE /\ strays = 0 /\ pausing = FALSE /\ nudging = FALSE /\ said = "nothing" /\ crossed = FALSE /\ pauses = 0
-----------------------------------------------------------------------------
Begins(b) == beatPhase[b] = "none" /\ beatPhase' = [beatPhase EXCEPT ![b] = "sending"]

TimerFires ==
  /\ \E b \in Beats : Begins(b)
  /\ \/ timer /\ timer' = FALSE /\ UNCHANGED strays
     \/ strays > 0 /\ strays' = strays - 1 /\ UNCHANGED timer
  /\ UNCHANGED <<beating, ended, pausing, nudging, said, crossed, pauses>>

Nudge ==
  /\ ~nudging /\ beating /\ pauses < MaxPauses
  /\ nudging' = TRUE /\ pauses' = pauses + 1
  /\ UNCHANGED <<beating, ended, beatPhase, timer, strays, pausing, said, crossed>>

\* Its thread starts, or no thread can be had.
NudgeStarts ==
  /\ nudging
  /\ nudging' = FALSE
  /\ (\E b \in Beats : Begins(b)) \/ UNCHANGED beatPhase
  /\ UNCHANGED <<beating, ended, timer, strays, pausing, said, crossed, pauses>>

\* Sent or not, it takes the lock and looks whether to go on.
SendBeat(b, goesOut) ==
  /\ beatPhase[b] = "sending" /\ InPhase("scheduling") = {}
  /\ said' = IF goesOut THEN "online" ELSE said
  /\ beatPhase' = [beatPhase EXCEPT ![b] = IF beating THEN "scheduling" ELSE "none"]
  /\ UNCHANGED <<beating, ended, timer, strays, pausing, crossed, nudging, pauses>>

\* The timer that waits is cancelled and another started.
ScheduleNext(b) ==
  /\ beatPhase[b] = "scheduling"
  /\ timer' = TRUE
  /\ beatPhase' = [beatPhase EXCEPT ![b] = "none"]
  /\ UNCHANGED <<beating, ended, strays, pausing, nudging, said, crossed, pauses>>

\* pause() cancels the timer that waits, without the lock.
Pause ==
  /\ ~pausing /\ beating /\ pauses < MaxPauses
  /\ beating' = FALSE /\ timer' = FALSE /\ pauses' = pauses + 1 /\ pausing' = TRUE
  /\ UNCHANGED <<ended, beatPhase, strays, nudging, said, crossed>>

\* Then it forgets _timer, also one that a heartbeat which found the node running has started meanwhile.
PauseForgets ==
  /\ pausing
  /\ pausing' = FALSE /\ timer' = FALSE
  /\ strays' = IF timer THEN strays + 1 ELSE strays
  /\ UNCHANGED <<beating, ended, beatPhase, nudging, said, crossed, pauses>>

Resume ==
  /\ ~beating /\ ~ended /\ ~pausing
  /\ beating' = TRUE
  /\ \E b \in Beats : Begins(b)
  /\ UNCHANGED <<ended, timer, strays, pausing, nudging, said, crossed, pauses>>

StopBeats ==
  /\ ~ended /\ ~pausing /\ InPhase("scheduling") = {}
  /\ ended' = TRUE /\ beating' = FALSE /\ timer' = FALSE
  /\ said' = "offline"
  /\ crossed' = (InPhase("sending") # {} \/ strays > 0 \/ nudging)
  /\ UNCHANGED <<beatPhase, strays, pausing, nudging, pauses>>

BeatsNext ==
  \/ TimerFires \/ Nudge \/ NudgeStarts \/ Pause \/ PauseForgets \/ Resume \/ StopBeats
  \/ \E b \in Beats : ScheduleNext(b) \/ \E goesOut \in BOOLEAN : SendBeat(b, goesOut)
-----------------------------------------------------------------------------
\* After a clean stop the last status is the offline one, unless a heartbeat was on its way when it was sent,
\* or a nudge that had found the node running.
OfflineIsLast == ended => said = "offline" \/ crossed

\* The chain never breaks: while the heartbeat runs one is being sent, or a timer waits to send it, whoever
\* nudged, paused and resumed it (_timer_lock: one timer at a time).
ChainHolds ==
  beating /\ ~pausing => timer \/ strays > 0 \/ InPhase("sending") # {} \/ InPhase("scheduling") # {}
=============================================================================
