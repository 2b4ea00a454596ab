--------------------------- MODULE LatchingValve ---------------------------
(***************************************************************************)
(* The driver of one single-pulse DC latching valve of a bundle-v3 program *)
(* (blocks/v3/valve.py) with the part of RuntimeV3 that drives it          *)
(* (blocks/v3/runtime.py): the cold load from the state file, the pass,    *)
(* the flush, the pulse, resetValve, the clean stop and the state file's   *)
(* writer.  Around them: the water valve itself, its two coil lines, its   *)
(* relay supply, and a process that may die between any two steps.         *)
(*                                                                         *)
(* The runtime lock is held through a pass and through a stop, so commands *)
(* arrive and the sampler runs only between passes (pc = "idle").  The     *)
(* supply, the writer's thread and a crash interleave with every step.     *)
(***************************************************************************)
EXTENDS Naturals, FiniteSets

CONSTANTS
  ResetIds,          \* the resetValve commands that can be in flight at once
  CoilWriteMayFail,  \* TRUE: a write to a coil line may raise
  DiskMayFail,       \* TRUE: a write of the state file may fail
  UnmarkedKept       \* TRUE: a death may leave on a coil whose pulse is not on disk

ASSUME LatchingValveAssumption ==
  /\ CoilWriteMayFail \in BOOLEAN
  /\ DiskMayFail \in BOOLEAN
  /\ UnmarkedKept \in BOOLEAN

Coils     == {"open", "close"}
Positions == {"open", "closed"}
Reasons   == {"supply_lost", "unclean_boot", "pulse_cut_short", "position_unknown"}
Outcomes  == {"none", "completed", "failed"}
Answers   == {"completed", "failed"}

Other(c)      == IF c = "open" THEN "close" ELSE "open"
PositionOf_CoilKey(c) == c
PositionOf(c) == IF c = "open" THEN "open" ELSE "closed"

\* No state file: a first start, or a file that cannot be read.
NoRecord == [clean |-> FALSE, position |-> "none", reason |-> "none", pulse |-> "none"]

\* The valve's entry of the state file, with the file's cleanStop.
Records == [clean : BOOLEAN, position : Positions \cup {"fault", "none"},
            reason : Reasons \cup {"none"}, pulse : Coils \cup {"none"}]

\* A record handed to the writer and not yet on disk, or nothing.
Nothing == [handed |-> FALSE, record |-> NoRecord]

VARIABLES
  actual,       \* where the valve stands in the water pipe
  line,         \* which coil lines are energised
  supply,       \* whether the relay supply is there
  disk,         \* the valve's entry of the state file
  writer,       \* the newest record handed to the state file's writer, until it is written
  wrote,        \* whether the writer's last record landed
  sensed,       \* the supply input as the runtime last sampled it
  position,     \* drv.position
  fault,        \* drv.fault
  pulse_mark,   \* drv.pulse_mark
  coil_state,   \* drv.coil_state: "off" (known off) or "unknown"
  start_close,  \* drv.start_close
  level,        \* the valve's logical level valve.open, which the blocks set
  pc,           \* where the runtime is
  job,          \* what the pulse in hand is for
  outcome,      \* the answer of the resets this pass carries out
  reset         \* where each resetValve command stands

env    == <<actual, line, supply>>
store  == <<disk, writer, wrote>>
driver == <<position, fault, pulse_mark, coil_state, start_close>>
thread == <<pc, job, outcome>>
vars   == <<env, store, sensed, driver, level, thread, reset>>

-----------------------------------------------------------------------------
(* The driver's helpers.  A definition whose name has an underscore and a  *)
(* word more (ReadSupply_Stale) is a mutant: the bug a property must find. *)

\* ValveDriver.to_state with the file's cleanStop flag.
ToState(clean, p, f, m) ==
  [clean    |-> clean,
   position |-> IF f # "none" THEN "fault" ELSE p,
   reason   |-> f,
   pulse    |-> m]

\* ValveDriver.set_fault: the first reason stays, the position is no longer vouched for.
SetFault(reason) ==
  /\ fault' = IF fault = "none" THEN reason ELSE fault
  /\ position' = "none"

\* The coil the pulse in hand drives: a flush follows the level, every other pulse closes.
Coil == IF job = "flush" /\ level THEN "open" ELSE "close"

Supplied == sensed = "present"

\* What the sense input of the supply shows.
Sense == IF supply THEN "present" ELSE "absent"

ReadSupply_Stale == {sensed, "unreadable"}

\* The supply read now: what is there, or unreadable.
ReadSupply == {Sense, "unreadable"}

\* What a write of the state file or of a coil line may do.
CoilWrites == IF CoilWriteMayFail THEN BOOLEAN ELSE {TRUE}
DiskWrites == IF DiskMayFail THEN BOOLEAN ELSE {TRUE}

\* _persist: a record of the driver's new state goes to the writer and replaces one not written yet.
Persist(clean) ==
  writer' = [handed |-> TRUE, record |-> ToState(clean, position', fault', pulse_mark')]

Landed_NotWaiting == TRUE

\* A record waited for has been written, or has failed.
Landed == ~writer.handed

\* Writing off the coils in `written`.
WriteOff(written) ==
  /\ line' = [c \in Coils |-> line[c] /\ c \notin written]
  /\ coil_state' = [c \in Coils |-> IF c \in written THEN "off" ELSE coil_state[c]]

NotKnownOff == {c \in Coils : coil_state[c] # "off"}

\* The lines when the process ends: let go to off, or left as they were.  Assumed, but where UnmarkedKept: a
\* coil is left on in its own pulse only, with the mark on disk; a write off that failed, or a second death
\* before the boot pass, breaks that.
LinesAtDeath ==
  \/ line' = [c \in Coils |-> FALSE]
  \/ /\ \A c \in Coils : line[c] => UnmarkedKept \/ disk.pulse = c
     /\ UNCHANGED line

\* The driver of a process that is not running.
NoDriver ==
  /\ position' = "none" /\ fault' = "none" /\ pulse_mark' = "none" /\ start_close' = FALSE
  /\ coil_state' = [c \in Coils |-> "off"]
  /\ sensed' = "unreadable" /\ level' = FALSE
  /\ job' = "none" /\ outcome' = "none"

Accepted == {r \in ResetIds : reset[r] = "accepted"}

Init ==
  /\ actual \in Positions
  /\ line = [c \in Coils |-> FALSE]
  /\ supply \in BOOLEAN
  /\ disk = NoRecord /\ writer = Nothing /\ wrote = TRUE
  /\ sensed = "unreadable"
  /\ position = "none" /\ fault = "none" /\ pulse_mark = "none" /\ start_close = FALSE
  /\ coil_state = [c \in Coils |-> "off"]
  /\ level = FALSE
  /\ pc = "down" /\ job = "none" /\ outcome = "none"
  /\ reset = [r \in ResetIds |-> "idle"]

-----------------------------------------------------------------------------
(* The cold load.                                                          *)

\* Why a cold load does not vouch for the position, in the order the code asks; "none" when it does.
ColdReason(changed) ==
  IF disk = NoRecord \/ changed THEN "position_unknown"
  ELSE IF disk.pulse # "none" THEN "pulse_cut_short"
  ELSE IF disk.position = "fault" THEN disk.reason
  ELSE IF ~disk.clean THEN "unclean_boot"
  ELSE IF disk.position \in Positions THEN "none"
  ELSE "position_unknown"

ColdLoad_ForgetsCoil(changed) ==
  /\ pc = "down"
  /\ fault' = ColdReason(changed)
  /\ position' = IF fault' = "none" THEN disk.position ELSE "none"
  /\ start_close' = (fault' = "none")
  /\ UNCHANGED coil_state
  /\ pulse_mark' = "none"
  /\ Persist(FALSE)
  /\ pc' = "boot"
  /\ UNCHANGED <<env, disk, wrote, sensed, level, job, outcome, reset>>

\* compile of a cold runtime: the state as persisted, and a record that is not clean handed over and
\* waited for before anything moves.  `changed`: the program names another configuration of the valve.
ColdLoad(changed) ==
  /\ pc = "down"
  /\ fault' = ColdReason(changed)
  /\ position' = IF fault' = "none" THEN disk.position ELSE "none"
  /\ start_close' = (fault' = "none")
  /\ coil_state' = [c \in Coils |-> IF disk # NoRecord /\ disk.pulse = c THEN "unknown" ELSE "off"]
  /\ pulse_mark' = "none"
  /\ Persist(FALSE)
  /\ pc' = "boot"
  /\ UNCHANGED <<env, disk, wrote, sensed, level, job, outcome, reset>>

\* The start is on disk, or it cannot be recorded and the valve is in FAULT.
Loaded ==
  /\ pc = "boot" /\ Landed
  /\ IF wrote THEN UNCHANGED <<fault, position>> ELSE SetFault("position_unknown")
  /\ pc' = "idle"
  /\ UNCHANGED <<env, store, sensed, pulse_mark, coil_state, start_close, level, job, outcome, reset>>

-----------------------------------------------------------------------------
(* Between passes.                                                         *)

\* What a sampling may leave in st.inputs: the supply, unreadable, or the old value while it debounces.
Samples == {Sense, "unreadable", sensed}

Sample ==
  /\ pc = "idle"
  /\ sensed' \in Samples
  /\ UNCHANGED <<env, store, driver, level, thread, reset>>

\* apply_command of a resetValve: refused at once, or kept for the next pass.
ResetArrives(r) ==
  /\ pc = "idle" /\ reset[r] = "idle"
  /\ reset' = [reset EXCEPT ![r] = IF fault # "none" /\ ~Supplied THEN "failed" ELSE "accepted"]
  /\ UNCHANGED <<env, store, sensed, driver, level, thread>>

\* The person has seen the answer; the identifier can stand for a later command.
ResetSeen(r) ==
  /\ reset[r] \in Answers
  /\ reset' = [reset EXCEPT ![r] = "idle"]
  /\ UNCHANGED <<env, store, sensed, driver, level, thread>>

-----------------------------------------------------------------------------
(* The pass: sample, supplies, commands, blocks, flush, hand-over.         *)

\* _sample and _valve_supplies.
StartPass ==
  /\ pc = "idle"
  /\ sensed' \in Samples
  /\ IF fault = "none" /\ sensed' # "present"
       THEN SetFault("supply_lost") ELSE UNCHANGED <<fault, position>>
  /\ outcome' = "none" /\ pc' = "commands"
  /\ UNCHANGED <<env, store, pulse_mark, coil_state, start_close, level, job, reset>>

\* _apply_commands: none, refused now, not in FAULT any more, or the reset's close pulse begins.
NoReset ==
  /\ pc = "commands" /\ Accepted = {}
  /\ pc' = "blocks"
  /\ UNCHANGED <<env, store, sensed, driver, level, job, outcome, reset>>

ResetRefused ==
  /\ pc = "commands" /\ Accepted # {} /\ fault # "none" /\ ~Supplied
  /\ outcome' = "failed" /\ pc' = "blocks"
  /\ UNCHANGED <<env, store, sensed, driver, level, job, reset>>

ResetNotInFault ==
  /\ pc = "commands" /\ Accepted # {} /\ fault = "none"
  /\ outcome' = "completed" /\ pc' = "blocks"
  /\ UNCHANGED <<env, store, sensed, driver, level, job, reset>>

ResetPulse ==
  /\ pc = "commands" /\ Accepted # {} /\ fault # "none" /\ Supplied
  /\ job' = "reset" /\ pc' = "other_off"
  /\ UNCHANGED <<env, store, sensed, driver, level, outcome, reset>>

\* The parts, rules, releases and switches set the level; a FAULT holds those that use the valve, and an
\* end or a release may still let it off.
Blocks ==
  /\ pc = "blocks"
  /\ level' \in (IF fault = "none" THEN BOOLEAN ELSE {level, FALSE})
  /\ pc' = "flush"
  /\ UNCHANGED <<env, store, sensed, driver, job, outcome, reset>>

\* _flush: every coil not known off is written off, those that cannot be stay unknown.
FlushCoilsOff ==
  \E failed \in (IF CoilWriteMayFail THEN SUBSET NotKnownOff ELSE {{}}) :
    /\ line' = [c \in Coils |-> line[c] /\ (c \notin NotKnownOff \/ c \in failed)]
    /\ coil_state' = [c \in Coils |-> IF c \in failed THEN "unknown" ELSE "off"]

Wanted == IF level THEN "open" ELSE "closed"

FlushNoPulse ==
  /\ pc = "flush"
  /\ fault # "none" \/ (~start_close /\ position = Wanted)
  /\ FlushCoilsOff
  /\ start_close' = FALSE
  /\ pc' = "end"
  /\ UNCHANGED <<actual, supply, store, sensed, position, fault, pulse_mark, level, job,
                 outcome, reset>>

\* A clean start's close pulse: whatever position was recorded, and no other pulse this pass.
FlushStartClose ==
  /\ pc = "flush" /\ start_close /\ fault = "none"
  /\ FlushCoilsOff
  /\ start_close' = FALSE
  /\ job' = "start" /\ pc' = "other_off"
  /\ UNCHANGED <<actual, supply, store, sensed, position, fault, pulse_mark, level,
                 outcome, reset>>

FlushPulse ==
  /\ pc = "flush" /\ ~start_close /\ fault = "none" /\ position # Wanted
  /\ FlushCoilsOff
  /\ job' = "flush" /\ pc' = "other_off"
  /\ UNCHANGED <<actual, supply, store, sensed, position, fault, pulse_mark, start_close,
                 level, outcome, reset>>

\* The end of the pass: the record is handed over when something is due, without waiting for it (whether
\* something is due depends on everything else the pass did); then the answers go out.
EndPass ==
  /\ pc = "end"
  /\ UNCHANGED <<env, disk, wrote, sensed, driver, level, job>>
  /\ Persist(FALSE) \/ UNCHANGED writer
  /\ reset' = [r \in ResetIds |-> IF r \in Accepted THEN outcome ELSE reset[r]]
  /\ outcome' = "none" /\ pc' = "idle"

-----------------------------------------------------------------------------
(* One pulse: _pulse, and _cmd_reset's own.  job says which.               *)

\* Where the runtime goes on after the pulse.
AfterPulse ==
  CASE job = "reset" -> "blocks"
    [] job = "stop"  -> "record_stop"
    [] OTHER         -> "end"

\* The pulse is over with no more to record.
GiveUpPulse ==
  /\ outcome' = IF job = "reset" THEN "failed" ELSE outcome
  /\ job' = "none" /\ pc' = AfterPulse

\* The other coil is off, or is written off now; the mark is handed to the writer and waited for.
MarkPulse ==
  /\ pc = "other_off"
  /\ WriteOff({Other(Coil)} \cap NotKnownOff)
  /\ pulse_mark' = Coil
  /\ UNCHANGED <<position, fault>>
  /\ Persist(FALSE)
  /\ pc' = "mark"
  /\ UNCHANGED <<actual, supply, disk, wrote, sensed, start_close, level, job, outcome, reset>>

\* The other coil cannot be written off: FAULT and no pulse (a reset records that it stays in FAULT).
OtherCoilStuck ==
  /\ pc = "other_off" /\ CoilWriteMayFail /\ Other(Coil) \in NotKnownOff
  /\ SetFault("position_unknown")
  /\ UNCHANGED pulse_mark
  /\ IF job = "reset"
       THEN /\ Persist(FALSE) /\ outcome' = "failed" /\ pc' = "recorded"
            /\ UNCHANGED job
       ELSE GiveUpPulse /\ UNCHANGED writer
  /\ UNCHANGED <<env, disk, wrote, sensed, coil_state, start_close, level, reset>>

\* The mark cannot be recorded: no pulse.
MarkNotRecorded ==
  /\ pc = "mark" /\ Landed /\ ~wrote
  /\ pulse_mark' = "none"
  /\ SetFault("position_unknown")
  /\ GiveUpPulse
  /\ UNCHANGED <<env, store, sensed, coil_state, start_close, level, reset>>

\* The coil is written on; the write may raise, and the coil is then written off once more.
PulseBegins ==
  /\ pc = "mark" /\ Landed /\ wrote
  /\ coil_state' = [coil_state EXCEPT ![Coil] = "unknown"]
  /\ \E on \in CoilWrites :
       /\ line' = [line EXCEPT ![Coil] = on \/ @]
       /\ pc' = IF on THEN "energised" ELSE "retry_off"
  /\ UNCHANGED <<actual, supply, store, sensed, position, fault, pulse_mark, start_close,
                 level, job, outcome, reset>>

\* What a coil energised for the full pulse does to the valve: with the supply there it moves it, and with
\* the other coil on as well nobody knows where to.
Moves(c) ==
  IF ~supply THEN {actual} ELSE IF line[Other(c)] THEN Positions ELSE {PositionOf(c)}

\* pulseMs later the coil is written off.
PulseEnds ==
  /\ pc = "energised"
  /\ actual' \in Moves(Coil)
  /\ \E off \in CoilWrites :
       IF off THEN WriteOff({Coil}) /\ pc' = "read"
              ELSE UNCHANGED <<line, coil_state>> /\ pc' = "retry_off"
  /\ UNCHANGED <<supply, store, sensed, position, fault, pulse_mark, start_close, level,
                 job, outcome, reset>>

CutShort_NoFault ==
  /\ pulse_mark' = "none" /\ UNCHANGED <<fault, position>>
  /\ Persist(FALSE)
  /\ outcome' = IF job = "reset" THEN "failed" ELSE outcome
  /\ pc' = "recorded"

\* A pulse nobody can vouch for: recorded without waiting for an outcome, and the valve in FAULT.
CutShort ==
  /\ pulse_mark' = "none" /\ fault' = "pulse_cut_short" /\ position' = "none"
  /\ Persist(FALSE)
  /\ outcome' = IF job = "reset" THEN "failed" ELSE outcome
  /\ pc' = "recorded"

\* The pulse was not sent: one more try at the coil's off, then FAULT.
PulseNotSent ==
  /\ pc = "retry_off"
  /\ \E off \in CoilWrites : IF off THEN WriteOff({Coil}) ELSE UNCHANGED <<line, coil_state>>
  /\ CutShort
  /\ UNCHANGED <<actual, supply, disk, wrote, sensed, start_close, level, job, reset>>

\* The supply is read after the pulse: absent, or unreadable, which it may be whatever it is.
PulseUnsupplied ==
  /\ pc = "read"
  /\ CutShort
  /\ UNCHANGED <<env, disk, wrote, sensed, coil_state, start_close, level, job, reset>>

PulseVouched ==
  /\ pc = "read" /\ "present" \in ReadSupply
  /\ pulse_mark' = "none" /\ fault' = "none" /\ position' = PositionOf(Coil)
  /\ level' = IF job = "reset" THEN FALSE ELSE level
  /\ Persist(FALSE)
  /\ outcome' = IF job = "reset" THEN "completed" ELSE outcome
  /\ pc' = "recorded"
  /\ UNCHANGED <<env, disk, wrote, sensed, coil_state, start_close, job, reset>>

\* What became of the pulse has been written, or not: the driver goes on either way.
PulseRecorded ==
  /\ pc = "recorded" /\ Landed
  /\ job' = "none" /\ pc' = AfterPulse
  /\ UNCHANGED <<env, store, sensed, driver, level, outcome, reset>>

-----------------------------------------------------------------------------
(* The clean stop.                                                         *)

\* apply_safe_state writes off the coils not known off; the first that cannot be ends it for this valve.
StopCoilsOff ==
  \E written \in {NotKnownOff} \cup
                 (IF CoilWriteMayFail /\ NotKnownOff # {} THEN {{}, NotKnownOff \cap {"open"}} ELSE {}) :
    WriteOff(written)

\* A valve in FAULT gets no close pulse.
StopInFault ==
  /\ pc = "idle" /\ fault # "none"
  /\ StopCoilsOff
  /\ start_close' = FALSE /\ pc' = "record_stop"
  /\ UNCHANGED <<actual, supply, store, sensed, position, fault, pulse_mark, level, job,
                 outcome, reset>>

\* The supply is read before the stop's close pulse: absent or unreadable, the valve goes into FAULT.
StopUnsupplied ==
  /\ pc = "idle" /\ fault = "none"
  /\ StopCoilsOff
  /\ SetFault("supply_lost")
  /\ start_close' = FALSE /\ pc' = "record_stop"
  /\ UNCHANGED <<actual, supply, store, sensed, pulse_mark, level, job, outcome, reset>>

StopPulse ==
  /\ pc = "idle" /\ fault = "none" /\ "present" \in ReadSupply
  /\ StopCoilsOff
  /\ start_close' = FALSE
  /\ job' = "stop" /\ pc' = "other_off"
  /\ UNCHANGED <<actual, supply, store, sensed, position, fault, pulse_mark, level,
                 outcome, reset>>

\* Only then is the clean stop recorded, and waited for.
RecordStop ==
  /\ pc = "record_stop"
  /\ UNCHANGED <<position, fault, pulse_mark>>
  /\ Persist(TRUE)
  /\ pc' = "clean"
  /\ UNCHANGED <<env, disk, wrote, sensed, coil_state, start_close, level, job, outcome, reset>>

Stopped_NoAnswer ==
  /\ pc = "clean" /\ Landed
  /\ NoDriver /\ LinesAtDeath
  /\ pc' = "down"
  /\ UNCHANGED <<actual, supply, store, reset>>

\* Resets no pass carried out are answered, and the process ends.
Stopped ==
  /\ pc = "clean" /\ Landed
  /\ reset' = [r \in ResetIds |-> IF r \in Accepted THEN "failed" ELSE reset[r]]
  /\ NoDriver /\ LinesAtDeath
  /\ pc' = "down"
  /\ UNCHANGED <<actual, supply, store>>

-----------------------------------------------------------------------------
(* The state file's writer, the supply, the valve and the process.         *)

WriterLands ==
  /\ writer.handed
  /\ \E ok \in DiskWrites :
       /\ disk' = IF ok THEN writer.record ELSE disk
       /\ wrote' = ok
  /\ writer' = Nothing
  /\ UNCHANGED <<env, sensed, driver, level, thread, reset>>

SupplyDrops ==
  /\ supply /\ supply' = FALSE
  /\ UNCHANGED <<actual, line, store, sensed, driver, level, thread, reset>>

\* Assumed of the supply: one that drops during a pulse is not back before it is read.
SupplyReturns ==
  /\ ~supply /\ pc \notin {"energised", "read"}
  /\ supply' = TRUE
  /\ UNCHANGED <<actual, line, store, sensed, driver, level, thread, reset>>

\* An energised coil moves the valve, at any time while it is on.
CoilMoves(c) ==
  /\ line[c] /\ supply /\ actual # PositionOf(c)
  /\ actual' = PositionOf(c)
  /\ UNCHANGED <<line, supply, store, sensed, driver, level, thread, reset>>

\* The process dies: what was handed over and not written is lost, and so are the resets it had accepted.
Crash ==
  /\ pc # "down"
  /\ writer' = Nothing
  /\ reset' = [r \in ResetIds |-> IF r \in Accepted THEN "idle" ELSE reset[r]]
  /\ NoDriver /\ LinesAtDeath
  /\ pc' = "down"
  /\ UNCHANGED <<actual, supply, disk, wrote>>

-----------------------------------------------------------------------------
Pulse == \/ MarkPulse \/ OtherCoilStuck \/ MarkNotRecorded \/ PulseBegins \/ PulseEnds
         \/ PulseNotSent \/ PulseUnsupplied \/ PulseVouched \/ PulseRecorded

Pass == \/ StartPass \/ NoReset \/ ResetRefused \/ ResetNotInFault \/ ResetPulse \/ Blocks
        \/ FlushNoPulse \/ FlushStartClose \/ FlushPulse \/ EndPass

Stop == StopInFault \/ StopUnsupplied \/ StopPulse \/ RecordStop \/ Stopped

Start == (\E changed \in BOOLEAN : ColdLoad(changed)) \/ Loaded

Runtime == Start \/ Pass \/ Pulse \/ Stop

Next ==
  \/ Runtime \/ WriterLands
  \/ Sample \/ (\E r \in ResetIds : ResetArrives(r) \/ ResetSeen(r))
  \/ SupplyDrops \/ SupplyReturns \/ (\E c \in Coils : CoilMoves(c))
  \/ Crash

Spec == Init /\ [][Next]_vars

\* A step of the runtime in which the write that switches a coil off succeeds.
SwitchesOff(c) == Runtime /\ line[c] /\ ~line'[c]

\* The supervisor starts the agent again, its runtime thread and the state file's writer keep running, and
\* a coil line that is written off again and again is off in the end.
FairSpec ==
  Spec /\ WF_vars(Runtime) /\ WF_vars(WriterLands) /\ \A c \in Coils : SF_vars(SwitchesOff(c))

-----------------------------------------------------------------------------
(* Properties.                                                             *)

EnvOK ==
  /\ actual \in Positions /\ line \in [Coils -> BOOLEAN]
  /\ supply \in BOOLEAN

StoreOK == disk \in Records /\ writer \in [handed : BOOLEAN, record : Records] /\ wrote \in BOOLEAN

DriverOK ==
  /\ sensed \in {"present", "absent", "unreadable"}
  /\ position \in Positions \cup {"none"} /\ fault \in Reasons \cup {"none"}
  /\ pulse_mark \in Coils \cup {"none"}
  /\ coil_state \in [Coils -> {"off", "unknown"}]
  /\ start_close \in BOOLEAN /\ level \in BOOLEAN

ThreadOK ==
  /\ pc \in {"down", "boot", "idle", "commands", "blocks", "flush", "other_off", "mark", "energised",
             "retry_off", "read", "recorded", "end", "record_stop", "clean"}
  /\ job \in {"none", "flush", "start", "reset", "stop"} /\ outcome \in Outcomes
  /\ reset \in [ResetIds -> {"idle", "accepted", "completed", "failed"}]

\* Every variable keeps its type, and the resets are answered with "completed" or "failed" when they are
\* (an outcome is there by the end of every pass that carried a reset out).
TypeOK ==
  /\ EnvOK /\ StoreOK /\ DriverOK /\ ThreadOK

\* The position the node vouches for: the driver's while it runs, with no FAULT and no pulse in progress;
\* while it does not run, the position a start with the same configuration would take from the state file.
Vouched ==
  IF pc = "down"
    THEN IF disk.clean /\ disk.pulse = "none" /\ disk.position \in Positions
           THEN disk.position ELSE "none"
    ELSE IF fault = "none" /\ pulse_mark = "none" THEN position ELSE "none"

\* A position the node vouches for is where the valve stands (valve.py's FAULT rule: any interruption the
\* node cannot vouch for), through crashes, writes that fail, and a supply that comes and goes.
VouchedIsTrue == Vouched # "none" => Vouched = actual

\* The open and the close coil are never energised together (valve.py, _other_coil_off).
NeverBothCoils == ~(line["open"] /\ line["close"])

\* A coil is energised only with the pulse on disk, for a valve not in FAULT but for a reset's close, with the
\* supply sensed present at the pass (a stop reads it itself), and never an open while a start's close is due.
PulsesAllowed ==
  [][\A c \in Coils : ~line[c] /\ line'[c] =>
       /\ disk.pulse = c
       /\ fault = "none" \/ (job = "reset" /\ c = "close")
       /\ job = "stop" \/ Supplied
       /\ ~(c = "open" /\ start_close)]_vars

\* Every accepted resetValve is answered, or is lost when the process that accepted it dies (step and stop:
\* "an accepted reset is never left without one").
ResetAnswered == \A r \in ResetIds : []<>(reset[r] # "accepted")

\* A coil left energised, by a pulse that failed or by a death in the middle of one, is switched off again by
\* a process that lives long enough.
CoilNotLeftOn == \A c \in Coils : []<>(~line[c] \/ pc = "down")

\* A process that lives long enough leaves nothing undone: no reset without its answer and no coil energised.
NothingLeftUndone == ResetAnswered /\ CoilNotLeftOn

\* The driver implements the abstract vouching of VouchedValve.
Abstract == INSTANCE VouchedValve WITH vouched <- Vouched
VouchedValveSpec == Abstract!Spec
============================================================================
