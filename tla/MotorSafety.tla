----------------------------- MODULE MotorSafety -----------------------------
(***************************************************************************)
(* What keeps a motor of a bundle-v3 program off: the E-stop latch and the *)
(* power sense (blocks/v3/safety.py), the motor's guard with its restart   *)
(* lockout (blocks/v3/guard.py), and the pass of RuntimeV3 that reads      *)
(* their inputs, lets the program ask for the motor, vetoes and writes     *)
(* (blocks/v3/runtime.py).  Around them: the button and the reset of the   *)
(* panel, the mains, the motor's line, the state file with its writer, the *)
(* wall clock, and a process that may die between any two steps.           *)
(*                                                                         *)
(* A pass holds the runtime lock from its sampling to its hand-over of the *)
(* record, and acts on what it sampled only, so it is one action.  Time is *)
(* what is left of each delay; Tick is one second of all of them.          *)
(***************************************************************************)
EXTENDS Naturals

CONSTANTS
  Lockout,            \* the guard's restartLockoutSeconds, in ticks
  ResumeAfter,        \* RESUME_AFTER_POWER_SECONDS, in ticks
  Clocks,             \* how the wall clock may stand when the node boots
  Unreadable,         \* the inputs whose reading may fail: "button", "reset", "mains"
  MotorWriteMayFail,  \* TRUE: a write to the motor's line may raise
  Deaths              \* bound: how often the process dies or is stopped

\* A clock is behind when the node has no RTC and NTP has not set it yet; untrusted, it is right and not
\* known to be.
ClockStates == {"trusted", "untrusted", "behind"}

ASSUME MotorSafetyAssumption ==
  /\ Lockout \in Nat \ {0} /\ ResumeAfter \in Nat \ {0} /\ Deaths \in Nat
  /\ Clocks \subseteq ClockStates /\ Clocks # {}
  /\ Unreadable \subseteq {"button", "reset", "mains"}
  /\ MotorWriteMayFail \in BOOLEAN

VARIABLES
  button,  \* the E-stop button is pressed in
  knob,    \* the panel's reset is held
  mains,   \* mains is there
  clock,   \* how the wall clock stands
  line,    \* the motor's line is on
  left,    \* deaths left
  owed,    \* history: a press was read, and the reset was not pressed at the panel since
  cool,    \* history: what is left of the lockout of the last trip
  dark,    \* history: what is left of the wait the last absence of mains asks for
  fresh,   \* history: of the press and the trip, those whose record is still with the writer
  lapsed,  \* history: the last pass could not read the reset, which is held
  disk,    \* the state file
  writer,  \* the record handed to its writer and not on disk yet
  rt       \* the runtime's memory; DownRt while no process runs

world   == <<button, knob, mains, clock>>
history == <<owed, cool, dark, fresh, lapsed>>
vars    == <<world, line, left, history, disk, writer, rt>>

Runs    == {"none", "running", "interrupted"}
Records == [latched : BOOLEAN, tripped : BOOLEAN, until : 0..Lockout, on : ClockStates, run : BOOLEAN]
Nothing == [latched |-> FALSE, tripped |-> FALSE, until |-> 0, on |-> "trusted", run |-> FALSE]

\* The memory of a runtime: the E-stop (latched, released, prevReset), the power sense (mains), the
\* waits, the guard (tripped, lockLeft, lockOn: the clock its end was written on; running), the run of
\* a schedule that has the motor on, and the output (level asked for, written to the line).
DownRt ==
  [up |-> FALSE, booted |-> FALSE, latched |-> FALSE, released |-> FALSE, prevReset |-> "none",
   mains |-> "unknown", wait |-> "none", resumeIn |-> 0, awaitClock |-> FALSE,
   tripped |-> FALSE, lockLeft |-> 0, lockOn |-> "trusted", running |-> FALSE,
   run |-> "none", level |-> FALSE, written |-> "none", due |-> FALSE]

-----------------------------------------------------------------------------
(* What the inputs show.  A definition with an underscore and a word more  *)
(* (Vetoed_NoWait) is a mutant: the bug a property must find.              *)

MayFail(name)  == IF name \in Unreadable THEN {"unreadable"} ELSE {}
ButtonReadings == {IF button THEN "pressed" ELSE "released"} \cup MayFail("button")
ResetReadings  == {IF knob THEN "on" ELSE "off"} \cup MayFail("reset")
MainsReadings  == {IF mains THEN "present" ELSE "absent"} \cup MayFail("mains")
Writes         == IF MotorWriteMayFail THEN BOOLEAN ELSE {TRUE}

ClockOk == clock = "trusted"

-----------------------------------------------------------------------------
(* The built-ins of a pass, in the order the pass runs them: each takes    *)
(* the runtime's memory and returns it changed.                            *)

\* The first pass after a start: the wait of a restart begins.
BootPass(m) ==
  [m EXCEPT !.booted = TRUE,
            !.resumeIn = IF ~m.booted /\ m.wait = "restart" THEN ResumeAfter ELSE m.resumeIn]

\* _interrupt_runs: mains dropped.
Interrupt(m) ==
  [m EXCEPT !.run = IF m.run = "running" THEN "interrupted" ELSE m.run, !.level = FALSE]

\* PowerSense.update and what _power does with it: a cut interrupts, a return starts the wait.
SensePower(m, reading) ==
  CASE reading = "absent" /\ m.mains # "absent" ->
         [Interrupt(m) EXCEPT !.mains = "absent", !.wait = "cut", !.resumeIn = 0]
    [] reading = "present" /\ m.mains = "absent" ->
         [m EXCEPT !.mains = "present", !.wait = "restoring", !.resumeIn = ResumeAfter]
    [] reading = "present" /\ m.mains # "absent" -> [m EXCEPT !.mains = "present"]
    [] OTHER -> m

\* _resume_now: an interrupted run runs on, or is over (`over`) when its window has passed.
ResumeRuns(m, over) ==
  [m EXCEPT !.awaitClock = FALSE,
            !.run = IF m.run # "interrupted" THEN m.run ELSE IF over THEN "none" ELSE "running"]

\* _clock_decides: a trusted clock, or every interrupted run certainly past its window.
ClockDecides(m, over) == ClockOk \/ m.run # "interrupted" \/ over

EndWait_ForgetsClock(m, over) ==
  LET waited == [m EXCEPT !.wait = "none", !.resumeIn = 0] IN
  IF m.wait \in {"restoring", "restart"} /\ m.resumeIn = 0
  THEN IF m.mains = "absent" THEN [m EXCEPT !.wait = "cut"]
       ELSE IF ClockDecides(m, over) THEN ResumeRuns(waited, over)
       ELSE [waited EXCEPT !.awaitClock = TRUE]
  ELSE m

\* The second half of _power: the wait is over.
EndWait(m, over) ==
  LET waited == [m EXCEPT !.wait = "none", !.resumeIn = 0] IN
  IF m.wait \in {"restoring", "restart"} /\ m.resumeIn = 0
  THEN IF m.mains = "absent" THEN [m EXCEPT !.wait = "cut"]
       ELSE IF ClockDecides(m, over) THEN ResumeRuns(waited, over)
       ELSE [waited EXCEPT !.awaitClock = TRUE]
  ELSE IF m.awaitClock /\ m.wait = "none" /\ ClockDecides(m, over) THEN ResumeRuns(m, over)
  ELSE m

\* EStop.update with _estop: a contact that cannot be read is pressed, a reset that cannot is off; the
\* latch clears when a pass has seen the button released and a later one sees the reset go on.
EStop(m, contact, reset) ==
  LET pressed == contact # "released"
      cleared == m.latched /\ ~pressed /\ m.released /\ reset = "on" /\ m.prevReset = "off"
      latched == (m.latched /\ ~cleared) \/ pressed
  IN [m EXCEPT !.latched = latched, !.released = latched /\ ~pressed,
               !.prevReset = IF reset = "on" THEN "on" ELSE "off",
               !.level = m.level /\ (m.latched \/ ~latched), !.due = m.due \/ latched # m.latched]

\* MotorGuard.expire.
Expire(m) ==
  IF m.tripped /\ m.lockLeft = 0 THEN [m EXCEPT !.tripped = FALSE, !.lockOn = "trusted", !.due = TRUE] ELSE m

\* MotorGuard._trip with _guards: the motor off, its lockout begins, the run of its writer ends
\* (`ends`; no run of a motor switched on by hand does).
Trip(m, ends) ==
  [m EXCEPT !.tripped = TRUE, !.lockLeft = Lockout, !.lockOn = clock, !.level = FALSE, !.due = TRUE,
            !.run = IF ends /\ m.run = "running" THEN "none" ELSE m.run]

\* _guards: a running motor that is not tripped is judged; `bad` stands for what its readings say.
Guards(m, bad, ends) ==
  LET e == Expire(m) IN IF bad /\ e.running /\ ~e.tripped THEN Trip(e, ends) ELSE e

LockedOut(m) == m.tripped /\ m.lockLeft > 0

\* The commands, the holds, the parts and the rule slots: a person's setPower or the program asks for
\* the motor or does not (`want`), the run of a schedule starts or ends (`next`).  The parts wait for
\* the power, the blocks that drive a motor for the E-stop.
Blocks(m, want, next) ==
  [m EXCEPT !.level = want, !.due = m.due \/ m.run # next,
            !.run = IF m.wait = "none" /\ ~m.latched /\ m.run # "interrupted" THEN next ELSE m.run]

Vetoed(m) == m.latched \/ m.wait # "none" \/ LockedOut(m)

\* _vetoes.
Vetoes(m) == [m EXCEPT !.level = m.level /\ ~Vetoed(m)]

OnOff(b) == IF b THEN "on" ELSE "off"

Flush_TakesFailedAsWritten(m, ok) ==
  [m EXCEPT !.written = OnOff(m.level), !.running = IF ok THEN m.level ELSE m.running]

\* _flush: the line follows the level; a write that fails is tried again at the next pass, and the
\* guard is told of the writes that succeed only.
Flush(m, ok) ==
  IF m.written = OnOff(m.level) \/ ~ok THEN m
  ELSE [m EXCEPT !.written = OnOff(m.level), !.running = m.level]

\* The line after that flush.
LineAfter(m, ok) == IF m.written = OnOff(m.level) \/ ~ok THEN line ELSE m.level

-----------------------------------------------------------------------------
(* The state file.                                                         *)

\* What a record holds of the E-stop, the guard and the runs.
ToState(m) ==
  [latched |-> m.latched, tripped |-> m.tripped, until |-> m.lockLeft,
   on |-> m.lockOn, run |-> m.run # "none"]

NoWrite == [handed |-> FALSE, record |-> Nothing]

HandOver(m) == writer' = [handed |-> TRUE, record |-> ToState(m)]

LoadLockout_OnlyTrusted(r) == IF ClockOk /\ r.tripped /\ r.on = "trusted" THEN r.until ELSE 0

LoadLockout_AddsFull(r) == IF r.tripped THEN r.until + (IF ClockOk THEN 0 ELSE Lockout) ELSE 0

\* MotorGuard.load_state: what the lockout had left, by the wall clock; in full when that cannot be
\* trusted, and nothing when the end was written on a clock that was behind the one of now.
LoadLockout(r) ==
  IF ~r.tripped THEN 0
  ELSE IF ~ClockOk THEN Lockout
  ELSE IF r.on = "behind" THEN 0
  ELSE r.until

\* The end of the lockout was written on a clock that was behind the one of now: it is long past.
EndForgotten == ClockOk /\ disk.tripped /\ disk.on = "behind"

Obligations == {"press", "trip"}

-----------------------------------------------------------------------------
Init ==
  /\ button = FALSE /\ knob = FALSE /\ mains = TRUE /\ clock \in Clocks
  /\ line = FALSE /\ left = Deaths
  /\ owed = FALSE /\ cool = 0 /\ dark = 0 /\ fresh = {} /\ lapsed = FALSE
  /\ disk = Nothing /\ writer = NoWrite
  /\ rt = DownRt

\* _cold_load: the E-stop as recorded, the lockout for what it had left, the run interrupted (`goes`
\* when its schedule is not in the program now).
ColdLoad ==
  /\ ~rt.up
  /\ \E goes \in BOOLEAN :
     LET lock == LoadLockout(disk)  run == disk.run /\ ~goes IN
     rt' = [DownRt EXCEPT !.up = TRUE, !.latched = disk.latched, !.tripped = lock > 0,
              !.lockLeft = lock, !.lockOn = IF lock > 0 THEN clock ELSE "trusted",
              !.run = IF run THEN "interrupted" ELSE "none",
              !.wait = IF run THEN "restart" ELSE "none", !.due = TRUE]
  /\ HandOver(rt')
  /\ cool' = IF EndForgotten THEN 0 ELSE cool
  /\ UNCHANGED <<world, line, left, owed, dark, fresh, lapsed, disk>>

\* The history of a pass: a press it read is owed a reset, a trip its lockout, no mains its wait.  A reset
\* held on that could be read again, the button released, counts as pressed again.
Trips(m1) == m1.tripped /\ (~rt.tripped \/ rt.lockLeft = 0)

Remember(b, k, r, m1) ==
  /\ owed' = (b # "released" \/ (owed /\ ~(lapsed /\ k = "on")))
  /\ cool' = IF Trips(m1) THEN Lockout ELSE cool
  /\ dark' = IF r = "absent" \/ (~rt.booted /\ rt.wait = "restart") THEN ResumeAfter ELSE dark
  /\ lapsed' = (knob /\ k = "unreadable")
  /\ fresh' = {what \in Obligations : /\ writer'.handed
                                       /\ IF what = "press" THEN owed' /\ (what \in fresh \/ ~owed)
                                                            ELSE Trips(m1) \/ what \in fresh}

\* What the built-ins make of the readings, and the program of what they leave: all that may come.
Powered(r)    == {EndWait(SensePower(BootPass(rt), r), over) : over \in BOOLEAN}
Kept(m, b, k) == {Guards(EStop(m, b, k), bad, ends) : bad \in BOOLEAN, ends \in BOOLEAN}
Asked(m)      == {Vetoes(Blocks(m, want, next)) : want \in BOOLEAN, next \in {"none", "running"}}

\* One pass of the runtime, its end's hand-over of the record included (due to the valves and the
\* rest of the program too, so it may always come).
Pass ==
  /\ rt.up /\ (rt.booted \/ ~writer.handed)
  /\ \E r \in MainsReadings, b \in ButtonReadings, k \in ResetReadings :
       \E powered \in Powered(r) : \E kept \in Kept(powered, b, k) : \E asked \in Asked(kept) :
       \E ok \in IF asked.written = OnOff(asked.level) THEN {TRUE} ELSE Writes :
         /\ line' = LineAfter(asked, ok)
         /\ rt' = [Flush(asked, ok) EXCEPT !.due = FALSE]
         /\ HandOver(rt') \/ (~asked.due /\ UNCHANGED writer)
         /\ Remember(b, k, r, kept)
  /\ UNCHANGED <<world, left, disk>>

\* The writer's thread: the newest record is on disk.
WriterLands ==
  /\ writer.handed
  /\ disk' = writer.record /\ writer' = NoWrite /\ fresh' = {}
  /\ UNCHANGED <<world, line, left, owed, cool, dark, lapsed, rt>>

\* What dies with the process: its memory, and (unless `landed`) a record not on disk yet with the press
\* and the trip that it was the first to hold.
Die(landed) ==
  /\ rt' = DownRt /\ left' = left - 1 /\ writer' = NoWrite
  /\ owed' = (owed /\ (landed \/ "press" \notin fresh))
  /\ cool' = IF landed \/ "trip" \notin fresh THEN cool ELSE 0
  /\ dark' = 0 /\ fresh' = {} /\ lapsed' = FALSE
  /\ UNCHANGED <<button, knob, mains>>

\* The process dies; its lines are let go to off or stay as they are.
Crash ==
  /\ rt.up /\ left > 0
  /\ line' \in {line, FALSE}
  /\ Die(FALSE)
  /\ UNCHANGED <<disk, clock>>

\* The node loses its supply or reboots: every line off, the wall clock as a boot finds it.
Reboot ==
  /\ rt.up /\ left > 0
  /\ line' = FALSE /\ clock' \in Clocks
  /\ Die(FALSE)
  /\ UNCHANGED disk

\* stop: the safe state switches the motor off, the record is waited for, but not for ever, then the
\* process ends.
Stop ==
  /\ rt.up /\ left > 0
  /\ \E ok \in Writes : line' \in IF ok THEN {FALSE} ELSE {line, FALSE}
  /\ \/ disk' = ToState(rt) /\ Die(TRUE)
     \/ UNCHANGED disk /\ Die(FALSE)
  /\ UNCHANGED clock

\* The world around the node: the panel, the mains, NTP.
\* A press that no pass has read counts for none: a reset held when it ends is pressed, as far as the
\* node can tell, with the button released.
Unread == rt.up /\ ~(rt.latched /\ ~rt.released)

PushButton    == ~button /\ button' = TRUE /\ UNCHANGED <<knob, mains, clock, owed>>
ReleaseButton ==
  /\ button /\ button' = FALSE /\ owed' = (owed /\ ~(knob /\ Unread))
  /\ UNCHANGED <<knob, mains, clock>>
PressReset    == ~knob /\ knob' = TRUE /\ owed' = (owed /\ button) /\ UNCHANGED <<button, mains, clock>>
LetResetGo    == knob /\ knob' = FALSE /\ UNCHANGED <<button, mains, clock, owed>>
MainsChange   == mains' = ~mains /\ UNCHANGED <<button, knob, clock, owed>>
ClockSet      == ~ClockOk /\ clock' = "trusted" /\ UNCHANGED <<button, knob, mains, owed>>

World ==
  /\ PushButton \/ ReleaseButton \/ PressReset \/ LetResetGo \/ MainsChange \/ ClockSet
  /\ fresh' = {what \in fresh : what = "press" => owed'}
  /\ lapsed' = (lapsed /\ knob')
  /\ UNCHANGED <<line, left, cool, dark, disk, writer, rt>>

Less(n) == IF n = 0 THEN 0 ELSE n - 1

\* A second passes for every delay: what is left of it by the monotonic clock, and by the wall clock
\* until the instant a record names.
Tick ==
  /\ cool' = Less(cool)
  /\ dark' = IF rt.mains = "absent" THEN dark ELSE Less(dark)
  /\ rt' = [rt EXCEPT !.lockLeft = Less(rt.lockLeft), !.resumeIn = Less(rt.resumeIn)]
  /\ disk' = [disk EXCEPT !.until = Less(disk.until)]
  /\ writer' = [writer EXCEPT !.record.until = Less(writer.record.until)]
  /\ fresh' = {what \in fresh : what = "trip" => cool' > 0}
  /\ UNCHANGED <<world, line, left, owed, lapsed>>

Next ==
  \/ ColdLoad \/ Pass \/ WriterLands
  \/ Crash \/ Reboot \/ Stop
  \/ World \/ Tick

Spec == Init /\ [][Next]_vars

\* The supervisor starts the process again, the runtime's thread runs its passes, the writer its
\* records, and time passes.
FairSpec == Spec /\ WF_vars(ColdLoad) /\ WF_vars(Pass) /\ WF_vars(WriterLands) /\ WF_vars(Tick)

-----------------------------------------------------------------------------
(* Properties.                                                             *)

\* Every variable keeps its type.
TypeOK ==
  /\ {button, knob, mains, line, owed, lapsed} \subseteq BOOLEAN /\ fresh \subseteq Obligations
  /\ clock \in ClockStates /\ left \in 0..Deaths
  /\ cool \in 0..Lockout /\ dark \in 0..ResumeAfter
  /\ disk \in Records /\ writer \in [handed : BOOLEAN, record : Records]
  /\ {rt.up, rt.booted, rt.latched, rt.released, rt.awaitClock, rt.tripped, rt.running,
      rt.level, rt.due} \subseteq BOOLEAN
  /\ rt.prevReset \in {"none", "on", "off"} /\ rt.mains \in {"unknown", "present", "absent"}
  /\ rt.wait \in {"none", "cut", "restoring", "restart"} /\ rt.resumeIn \in 0..ResumeAfter
  /\ rt.lockLeft \in 0..Lockout /\ rt.lockOn \in ClockStates
  /\ rt.run \in Runs /\ rt.written \in {"none", "on", "off"}

\* The motor's line goes on in this step.
Starts == ~line /\ line'

\* A press the node read keeps the motor from starting until a person, the button released, presses
\* the reset at the panel: no rule, command, run or restart starts it before (safety.py, _estop).  The
\* code lets go of a press whose record was not on disk when the process ended (runtime.py, _end_pass), and
\* takes for a reset one that is held while a press no pass read ends, or while the reset could not be read.
LatchHonoured == Starts => ~owed'

\* A motor its guard tripped does not start before its lockout has passed, restarts included
\* (guard.py load_state, _vetoes).  The code lets go of a trip whose record was not on disk when the
\* process ended, and of one whose end was written on a clock that was behind (EndForgotten).
LockoutHonoured == Starts => cool' = 0

\* No motor starts while mains is sensed absent, nor before it is back for ResumeAfter; nor within
\* ResumeAfter of the boot pass of a restart that interrupted a run (_power, _vetoes).
PowerHonoured == Starts => dark' = 0

\* Whatever asks for it, through deaths between any two steps, lost records, inputs that cannot be read and
\* clocks set wrong: the motor does not start while its E-stop is latched, its lockout runs, or mains is
\* absent or not long back, but for what LatchHonoured and LockoutHonoured name.
StartsAllowed == [][LatchHonoured /\ LockoutHonoured /\ PowerHonoured]_vars

\* The node never takes the motor for off while its line is on: a switch-off that failed is tried
\* again at every pass (_flush).
NoForgottenMotor == rt.written = "off" => ~line

\* A run a cut or a restart interrupted goes on or is over, once mains is there and the clock can be
\* trusted for long enough (_power, _resume_runs).
RunResumes == []<>(~mains \/ ~ClockOk \/ rt.run # "interrupted")
=============================================================================
