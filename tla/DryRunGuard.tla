------------------------------ MODULE DryRunGuard ------------------------------
(***************************************************************************)
(* The protection of a pump on a node without a program                    *)
(* (sensors/protection.py, ProtectionMonitor, with the baseline of         *)
(* sensors/current_sensor.py): the thread reads the pump's current,        *)
(* learns what a run takes when it does not know, and switches the relay   *)
(* off when the current stays low.  A setPower command writes the relay    *)
(* first and tells the monitor after that, in the command's thread.        *)
(*                                                                         *)
(* The current is 0 without power, 1 when the pump runs dry, 2 when it     *)
(* pumps.  Of the baseline only its threshold matters: the least current   *)
(* that is not low.                                                        *)
(***************************************************************************)
EXTENDS Integers, FiniteSets

CONSTANTS
  ConfirmTicks, InrushTicks, LearnTicks,  \* confirm_window_s, inrush_ignore_s, baseline_window_s
  MaxCommands                             \* bound: setPower commands

ASSUME DryRunGuardAssumption == {ConfirmTicks, InrushTicks, LearnTicks, MaxCommands} \subseteq Nat

VARIABLES
  relay,      \* the pump has power
  wet,        \* there is water
  command,    \* a setPower whose write is done and of which the monitor does not know yet, or "none"
  commands,   \* setPower commands so far
  sensed,     \* what the monitor's thread is at: "none", a reading, or "cut" (the relay is written)
  known,      \* the threshold of the baseline, or Unknown
  inrush,     \* ticks of inrush left
  low,        \* ticks since below_threshold_since, or Never
  cutoff,     \* cutoff_active
  learning,   \* [left: ticks until the window's end, or Never; seen: its readings]
  lowSince,   \* history: ticks since the last reading that was not low, or start or stop, while it ran
  startCrossed \* history: a start came between the cut's write and its mark

guardVars == <<relay, wet, command, commands, sensed, known, inrush, low, cutoff, learning, lowSince, startCrossed>>

Never == -1
Unknown == -1
NotLearning == [left |-> Never, seen |-> {}]
Current == IF ~relay THEN 0 ELSE IF wet THEN 2 ELSE 1
Longest == ConfirmTicks + 1

GuardTypeOK ==
  /\ {relay, wet, cutoff, startCrossed} \subseteq BOOLEAN
  /\ command \in {"none", "start", "stop"} /\ commands \in 0..MaxCommands
  /\ sensed \in {"none", "0", "1", "2", "cut"}
  /\ known \in Unknown..2 /\ inrush \in 0..InrushTicks
  /\ low \in Never..Longest /\ lowSince \in 0..Longest
  /\ learning.left \in Never..(InrushTicks + LearnTicks + 1) /\ learning.seen \subseteq 0..2

\* A node that has a baseline on its card, or none.
GuardInit ==
  /\ relay = FALSE /\ wet = TRUE /\ command = "none" /\ commands = 0 /\ sensed = "none"
  /\ known \in {Unknown, 2} /\ inrush = 0 /\ low = Never /\ cutoff = FALSE /\ learning = NotLearning
  /\ lowSince = 0 /\ startCrossed = FALSE
-----------------------------------------------------------------------------
SetPower(what) ==
  /\ command = "none" /\ commands < MaxCommands
  /\ command' = what /\ commands' = commands + 1
  /\ relay' = (what = "start")
  /\ UNCHANGED <<wet, sensed, known, inrush, low, cutoff, learning, lowSince, startCrossed>>

\* A start sets the inrush and a new window to learn in; a stop leaves the window as it was.
Notify ==
  /\ command # "none"
  /\ command' = "none"
  /\ low' = Never /\ cutoff' = FALSE /\ lowSince' = 0
  /\ IF command = "start"
       THEN inrush' = InrushTicks /\ learning' = [left |-> InrushTicks + LearnTicks + 1, seen |-> {}]
       ELSE inrush' = 0 /\ UNCHANGED learning
  /\ startCrossed' = (startCrossed \/ (command = "start" /\ sensed = "cut"))
  /\ UNCHANGED <<relay, wet, commands, sensed, known>>
-----------------------------------------------------------------------------
Digit == <<"0", "1", "2">>

\* Nothing is read during the inrush; a bad reading is passed over.
ReadCurrent ==
  /\ sensed = "none" /\ inrush = 0
  /\ sensed' = Digit[Current + 1]
  /\ UNCHANGED <<relay, wet, command, commands, known, inrush, low, cutoff, learning, lowSince, startCrossed>>

Reading == (CHOOSE i \in 1..3 : Digit[i] = sensed) - 1

\* The average of these currents: one alone is itself, of several it is between them.
Averages(seen) == {a \in 0..2 : (\E x \in seen : x <= a) /\ (\E x \in seen : x >= a)}

InWindow == known = Unknown /\ learning.left # Never /\ learning.left <= LearnTicks

Learn ==
  /\ sensed \in {"0", "1", "2"} /\ InWindow
  /\ IF learning.left = 0
       THEN known' \in Averages(learning.seen \cup {Reading}) /\ learning' = NotLearning
       ELSE learning' = [learning EXCEPT !.seen = @ \cup {Reading}] /\ UNCHANGED known
  /\ sensed' = "none"
  /\ UNCHANGED <<relay, wet, command, commands, inrush, low, cutoff, lowSince, startCrossed>>

IsLow == Reading < known

Recovered == Never

\* With a baseline: the first low reading starts the window, a good one ends it, and at its end the relay
\* is written, or the write fails and the next low reading tries again.
Decide(fails) ==
  /\ sensed \in {"0", "1", "2"} /\ ~InWindow
  /\ IF known # Unknown /\ IsLow
       THEN /\ low' = IF low = Never THEN 0 ELSE low
            /\ IF low >= ConfirmTicks /\ ~cutoff
                 THEN /\ sensed' = IF fails THEN "none" ELSE "cut"
                      /\ relay' = (relay /\ fails)
                 ELSE sensed' = "none" /\ UNCHANGED relay
            /\ UNCHANGED lowSince
       ELSE /\ low' = IF known = Unknown THEN low ELSE Recovered
            /\ lowSince' = 0 /\ sensed' = "none" /\ UNCHANGED relay
  /\ UNCHANGED <<wet, command, commands, known, inrush, cutoff, learning, startCrossed>>

MarkCut ==
  /\ sensed = "cut"
  /\ cutoff' = TRUE /\ sensed' = "none"
  /\ UNCHANGED <<relay, wet, command, commands, known, inrush, low, learning, lowSince, startCrossed>>

Later(t) == IF t = Never THEN Never ELSE IF t < Longest THEN t + 1 ELSE t
Sooner(t) == IF t > 0 THEN t - 1 ELSE t

\* A tick, in which the thread had its turn.
GuardTick ==
  /\ sensed = "none"
  /\ inrush' = Sooner(inrush) /\ low' = Later(low) /\ lowSince' = Later(lowSince)
  /\ learning' = [learning EXCEPT !.left = Sooner(@)]
  /\ UNCHANGED <<relay, wet, command, commands, sensed, known, cutoff, startCrossed>>

Water ==
  /\ wet' = ~wet
  /\ UNCHANGED <<relay, command, commands, sensed, known, inrush, low, cutoff, learning, lowSince, startCrossed>>

GuardNext ==
  \/ \E what \in {"start", "stop"} : SetPower(what)
  \/ Notify \/ ReadCurrent \/ Learn \/ MarkCut \/ GuardTick \/ Water
  \/ \E fails \in BOOLEAN : Decide(fails)

GuardThread == Notify \/ ReadCurrent \/ Learn \/ MarkCut \/ \E fails \in BOOLEAN : Decide(fails)
-----------------------------------------------------------------------------
\* The window that a cut confirms began after the last reading that was not low and after the last start or
\* stop (_step_current, notify_pump_started), though its first reading may have been taken before that start.
WindowIsOneRuns == low # Never => lowSince >= low

\* A monitor that has cut its pump and would not cut it again is told of the next start: the pump has power
\* then only while that start is on its way, or when it crossed the cut itself.
CutStaysOff == cutoff => ~relay \/ command = "start" \/ startCrossed

\* No pump runs dry with a baseline that was learned from one that was pumping, unless it was cut before.
NoPumpRunsDry == ~relay \/ wet \/ known # 2 \/ cutoff
=============================================================================
