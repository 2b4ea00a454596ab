----------------------------- MODULE ProgramHost -----------------------------
(***************************************************************************)
(* The change of block language (blocks/host.py), with the program store   *)
(* and pull beside it (blocks/sync.py) and main.py's start, restart check  *)
(* and stop.  Both runtimes live behind one lock; their pass loops, their  *)
(* samplers, the pull, the language-switch thread and main take it in      *)
(* turn.  One action is one hold of the lock, or one step outside it.      *)
(*                                                                         *)
(* Of a program only its language and version are kept, of a runtime       *)
(* whether a run is in progress and whether a command waits.  Every        *)
(* language-3 program has an E-stop.  Threads told to end do so before the *)
(* joins give up, and the lock is waited for as long as it takes.          *)
(***************************************************************************)
EXTENDS Naturals

CONSTANTS
  MaxVersion,         \* bound: the newest program
  MayCrash            \* the process may be killed at any moment

ASSUME ProgramHostAssumption ==
  /\ MaxVersion \in Nat \ {0}
  /\ MayCrash \in BOOLEAN

Langs == {1, 3}
Bundles == [lang : Langs, version : 1 .. MaxVersion]
None == [lang |-> 0, version |-> 0]

VARIABLES
  cloud,      \* the program the cloud serves
  stored,     \* program.json
  loaded,     \* each runtime's bundle
  active,     \* the language that runs, 0 before a program
  pending,    \* the bundle held for a switch
  plan,       \* the switch in progress, or NoPlan
  started, stops,
  running,    \* each runtime's _running
  loop,       \* where its pass loop is
  sampling,   \* its sampler is alive
  refusing,   \* the language-3 runtime's _stopped
  booted,     \* the language-1 runtime has had its boot pass
  busy,       \* a run, an end still due, a kept output, a pause
  waiting,    \* a command accepted and not yet applied
  latched,    \* the language-3 program's E-stop, kept across restarts
  main,       \* where main's thread is
  stopping,   \* the runtime main is stopping
  pull,       \* where the pull is, and its bundle
  \* What the properties except, kept by no code:
  late,       \* work came to the runtime, or a pass was under way, between a pull's check and its switch
  passing,    \* a pass was under way when the last switch began
  inStop,     \* a switch of a runtime that ran began while main stopped the host
  failed      \* the last program that was stored, or about to be, before it failed to take over

threads == <<running, loop, sampling, refusing>>
work == <<busy, waiting, booted, latched>>
program == <<active, loaded, pending, plan>>
host == <<started, stops>>
history == <<late, passing, inStop, failed>>
vars == <<cloud, stored, program, host, threads, work, main, stopping, pull, history>>

NoPlan == [bundle |-> None, was |-> FALSE, stops |-> 0, by |-> "nobody"]
NoPull == [at |-> "idle", bundle |-> None]

Switching == plan # NoPlan
\* What main's restart check reads.
HostRunning == Switching \/ (active # 0 /\ running[active])
Up == main # "down"
-----------------------------------------------------------------------------
(* A runtime's threads. *)

\* A start of l if asked to; refused is the value of refusing before it.
StartedIf(asked, l, refused) ==
  LET starts == asked /\ ~running[l]
  IN  /\ running' = [running EXCEPT ![l] = @ \/ starts]
      /\ loop' = [loop EXCEPT ![l] = IF starts THEN "top" ELSE @]
      /\ sampling' = [sampling EXCEPT ![l] = @ \/ starts]
      /\ refusing' = (refused /\ ~(starts /\ l = 3))

Joined_LoopOnly(l) == loop[l] = "none"
Joined(l) == loop[l] = "none" /\ ~sampling[l]

Enters(l, place) == loop' = [loop EXCEPT ![l] = place]

LoopTop(l) ==
  /\ loop[l] = "top"
  /\ Enters(l, IF running[l] THEN "pass" ELSE "none")
  /\ UNCHANGED <<cloud, stored, program, host, running, sampling, refusing, work, main, stopping, pull, history>>

\* The language-1 boot pass applies no command.
Pass(l) ==
  /\ loop[l] = "pass"
  /\ \E b \in BOOLEAN : busy' = [busy EXCEPT ![l] = b]
  /\ waiting' = [waiting EXCEPT ![l] = @ /\ l = 1 /\ ~booted]
  /\ booted' = (booted \/ l = 1)
  /\ IF l = 3 THEN latched' \in BOOLEAN ELSE latched' = latched
  /\ Enters(l, "hook")
  /\ UNCHANGED <<cloud, stored, program, host, running, sampling, refusing, main, stopping, pull, history>>

SamplerEnds(l) ==
  /\ sampling[l] /\ ~running[l]
  /\ sampling' = [sampling EXCEPT ![l] = FALSE]
  /\ UNCHANGED <<cloud, stored, program, host, running, loop, refusing, work, main, stopping, pull, history>>
-----------------------------------------------------------------------------
(* The switch. *)

LeavingLatched_No == FALSE
LeavingLatched == active = 3 /\ pending # None /\ pending.lang # 3 /\ latched

BusyReason_NoQueue(l) == busy[l]
BusyReason(l) == busy[l] \/ waiting[l]

HoldReason == (active # 0 /\ BusyReason(active)) \/ LeavingLatched

BeginSwitch_StillHeld(by) ==
  /\ plan' = [bundle |-> pending, was |-> running[active] \/ started, stops |-> stops, by |-> by]
  /\ running' = [running EXCEPT ![active] = FALSE]
  /\ pending' = pending
BeginSwitch(by) ==
  /\ plan' = [bundle |-> pending, was |-> running[active] \/ started, stops |-> stops, by |-> by]
  /\ running' = [running EXCEPT ![active] = FALSE]
  /\ pending' = None

\* The runtimes whose passes end in the host's hook.
Hooked == Langs

\* What a switch by the pull's thread, or by the loop's, was begun over.
Begun(by) ==
  /\ late' = [late EXCEPT ![active] = by = "pull" /\ (BusyReason(active) \/ loop[active] = "pass")]
  /\ passing' = (by = "pull" /\ loop[active] = "pass")
  /\ inStop' = (inStop \/ (main \in {"stopping", "joining"} /\ running[active]))
  /\ failed' = failed

HookSwitches(l) ==
  /\ running[l] /\ l \in Hooked
  /\ pending # None /\ ~HoldReason

\* The loop's own thread only decides, and ends; a language-switch thread goes on.
AfterPassSwitches(l) ==
  /\ loop[l] = "hook" /\ HookSwitches(l)
  /\ BeginSwitch("thread") /\ Begun("thread")
  /\ Enters(l, "top")
  /\ UNCHANGED <<cloud, stored, active, loaded, host, sampling, refusing, work, main, stopping, pull>>

AfterPass(l) ==
  /\ loop[l] = "hook" /\ ~HookSwitches(l)
  /\ Enters(l, IF running[l] THEN "top" ELSE "none")
  /\ UNCHANGED <<cloud, stored, program, host, running, sampling, refusing, work, main, stopping, pull, history>>

\* A stop that came meanwhile: load, but start nothing.
StartsAfter == plan.was /\ stops = plan.stops

\* l runs the program, cold and with no run carried; active is the old runtime until here.
Takes(l, bundle) ==
  /\ Switching /\ Joined(active)
  /\ active' = l
  /\ loaded' = [loaded EXCEPT ![l] = bundle]
  /\ busy' = [busy EXCEPT ![l] = FALSE]
  /\ booted' = (booted \/ l = 1)
  /\ StartedIf(StartsAfter, l, refusing \/ active = 3)
  /\ plan' = NoPlan
  /\ late' = [late EXCEPT ![l] = FALSE]
  /\ UNCHANGED <<cloud, pending, host, waiting, latched, main, stopping, passing, inStop>>

TakeOver ==
  /\ Takes(plan.bundle.lang, plan.bundle)
  /\ stored' = plan.bundle /\ failed' = None
  /\ pull' = IF plan.by = "pull" THEN [pull EXCEPT !.at = "check"] ELSE pull

\* The pull that brought the program has stored it by now, or is about to: it did not find it held.
StoredEarly == stored = plan.bundle \/ (pull.at \in {"switch", "check"} /\ pull.bundle = plan.bundle)

\* The old program takes its outputs back; a pull that switched is answered with a rejection.
TakeOverFails ==
  /\ Takes(active, loaded[active])
  /\ failed' = IF StoredEarly THEN plan.bundle ELSE failed
  /\ pull' = IF plan.by = "pull" THEN NoPull ELSE pull
  /\ UNCHANGED stored
-----------------------------------------------------------------------------
(* The cloud's programs and the pull. *)

Publish ==
  /\ cloud.version < MaxVersion
  /\ \E l \in Langs : cloud' = [lang |-> l, version |-> cloud.version + 1]
  /\ UNCHANGED <<stored, program, host, threads, work, main, stopping, pull, history>>

\* The language-1 runtime answers for the version before there is a program.
CurrentVersion == loaded[IF active = 0 THEN 1 ELSE active].version

Fetch ==
  /\ Up /\ main # "ended" /\ pull.at = "idle"
  /\ cloud.version # CurrentVersion
  /\ pull' = [at |-> "compile", bundle |-> cloud]
  /\ UNCHANGED <<cloud, stored, program, host, threads, work, main, stopping, history>>

\* It does not compile, it would change a line, or it leaves a latched E-stop.
Refuse ==
  /\ pull.at = "compile" /\ ~Switching
  /\ pull' = NoPull
  /\ UNCHANGED <<cloud, stored, program, host, threads, work, main, stopping, history>>

\* A program of the running language, or the first one; a warm reload carries the runs on.
Load ==
  LET b == pull.bundle IN
  /\ pull.at = "compile" /\ ~Switching
  /\ active \in {0, b.lang}
  /\ loaded' = [loaded EXCEPT ![b.lang] = b]
  /\ IF active = 0 THEN \E r \in BOOLEAN : busy' = [busy EXCEPT ![b.lang] = r]
                   ELSE busy' = busy
  /\ active' = b.lang
  /\ pending' = None
  /\ pull' = [pull EXCEPT !.at = "check"]
  /\ failed' = None
  /\ UNCHANGED <<cloud, stored, plan, host, threads, waiting, booted, latched, main, stopping, late, passing, inStop>>

\* A program of the other language is held; with no pass to wait for, the pull makes the switch.
Hold ==
  LET b == pull.bundle IN
  /\ pull.at = "compile" /\ ~Switching
  /\ active \notin {0, b.lang}
  /\ ~(active = 3 /\ latched)
  /\ pending' = b
  /\ pull' = [pull EXCEPT !.at = IF running[active] \/ BusyReason(active) THEN "check" ELSE "switch"]
  /\ UNCHANGED <<cloud, stored, active, loaded, plan, host, threads, work, main, stopping, history>>

\* The lock was let go of since: another may have begun it, and no run, command or pass is looked for again.
SwitchNow ==
  /\ pull.at = "switch"
  /\ pull' = [pull EXCEPT !.at = "switching"]
  /\ pending # None /\ ~LeavingLatched
  /\ BeginSwitch("pull") /\ Begun("pull")
  /\ UNCHANGED <<cloud, stored, active, loaded, host, loop, sampling, refusing, work, main, stopping>>

NoSwitchNow ==
  /\ pull.at = "switch"
  /\ pending = None \/ LeavingLatched
  /\ pull' = [pull EXCEPT !.at = "check"]
  /\ UNCHANGED <<cloud, stored, program, host, threads, work, main, stopping, history>>

IsHeld(bundle) == pending.version = bundle.version

\* Only what runs is stored; a held program is stored at its switch.
Store ==
  /\ pull.at = "check"
  /\ stored' = IF IsHeld(pull.bundle) THEN stored ELSE pull.bundle
  /\ pull' = NoPull
  /\ UNCHANGED <<cloud, program, host, threads, work, main, stopping, history>>
-----------------------------------------------------------------------------
(* Commands, and main's thread. *)

\* An accepted command waits for the next pass; one that comes during a switch, for its end.
Command ==
  /\ Up /\ ~Switching /\ active # 0
  /\ ~(active = 3 /\ refusing)
  /\ waiting' = [waiting EXCEPT ![active] = TRUE]
  /\ UNCHANGED <<cloud, stored, program, host, threads, busy, booted, latched, main, stopping, pull, history>>

\* A new process loads the stored program, and carries a run the node was cut off in.
NewProcess ==
  /\ main = "down"
  /\ main' = "boot"
  /\ IF stored = None
       THEN UNCHANGED <<active, loaded, busy>>
       ELSE /\ active' = stored.lang
            /\ loaded' = [loaded EXCEPT ![stored.lang] = stored]
            /\ \E r \in BOOLEAN : busy' = [busy EXCEPT ![stored.lang] = r]
  /\ UNCHANGED <<cloud, stored, pending, plan, host, threads, waiting, booted, latched, stopping, pull, history>>

\* ProgramHost.start: nothing during a switch.
HostStart ==
  IF Switching THEN UNCHANGED <<started, threads>>
  ELSE /\ started' = TRUE
       /\ StartedIf(TRUE, active, refusing)

MainStarts ==
  /\ main = "boot"
  /\ main' = "up"
  /\ IF active # 0 THEN HostStart ELSE UNCHANGED <<started, threads>>
  /\ UNCHANGED <<cloud, stored, program, stops, work, stopping, pull, history>>

NeedsStart_OnceStarted == active # 0 /\ ~HostRunning /\ started
NeedsStart == active # 0 /\ ~HostRunning

\* The check once a second; what it read may be over when it starts.
MainChecks ==
  /\ main = "up" /\ NeedsStart
  /\ main' = "start"
  /\ UNCHANGED <<cloud, stored, program, host, threads, work, stopping, pull, history>>

MainRestarts ==
  /\ main = "start"
  /\ main' = "up"
  /\ HostStart
  /\ UNCHANGED <<cloud, stored, program, stops, work, stopping, pull, history>>

StopAsked ==
  /\ main = "up"
  /\ started' = FALSE
  /\ stops' = stops + 1
  /\ IF Switching THEN main' = "waiting" /\ stopping' = stopping
                  ELSE main' = "stopping" /\ stopping' = active
  /\ UNCHANGED <<cloud, stored, program, threads, work, pull, history>>

StopGoesOn ==
  /\ main = "waiting" /\ ~Switching
  /\ main' = "stopping" /\ stopping' = active
  /\ UNCHANGED <<cloud, stored, program, host, threads, work, pull, history>>

\* The runtime's own stop, the lock let go of before it; then the joins, the safe state and the record.
RuntimeStops ==
  /\ main = "stopping" /\ stopping # 0
  /\ main' = "joining"
  /\ running' = [running EXCEPT ![stopping] = FALSE]
  /\ refusing' = (refusing \/ stopping = 3)
  /\ UNCHANGED <<cloud, stored, program, host, loop, sampling, work, stopping, pull, history>>

\* The join of a runtime that a switch started again meanwhile gives up.
StopDone ==
  /\ \/ main = "stopping" /\ stopping = 0
     \/ main = "joining" /\ (Joined(stopping) \/ running[stopping])
  /\ main' = "ended"
  /\ UNCHANGED <<cloud, stored, program, host, threads, work, stopping, pull, history>>

NoRuntime == [l \in Langs |-> FALSE]

\* The process is gone: what is left is on the disk and at the panel.
ProcessGone ==
  /\ Up /\ (main = "ended" \/ MayCrash)
  /\ main' = "down" /\ stopping' = 0 /\ pull' = NoPull
  /\ active' = 0 /\ loaded' = [l \in Langs |-> None] /\ pending' = None /\ plan' = NoPlan
  /\ started' = FALSE /\ stops' = 0
  /\ running' = NoRuntime /\ sampling' = NoRuntime /\ refusing' = FALSE
  /\ loop' = [l \in Langs |-> "none"]
  /\ busy' = NoRuntime /\ waiting' = NoRuntime /\ booted' = FALSE
  /\ late' = NoRuntime /\ passing' = FALSE /\ inStop' = FALSE /\ failed' = None
  /\ UNCHANGED <<cloud, stored, latched>>
-----------------------------------------------------------------------------
Init ==
  /\ cloud \in [lang : Langs, version : {1}]
  /\ stored = None /\ active = 0 /\ loaded = [l \in Langs |-> None]
  /\ pending = None /\ plan = NoPlan /\ started = FALSE /\ stops = 0
  /\ running = NoRuntime /\ sampling = NoRuntime /\ refusing = FALSE
  /\ loop = [l \in Langs |-> "none"]
  /\ busy = NoRuntime /\ waiting = NoRuntime /\ booted = FALSE /\ latched = FALSE
  /\ main = "down" /\ stopping = 0 /\ pull = NoPull
  /\ late = NoRuntime /\ passing = FALSE /\ inStop = FALSE /\ failed = None

RuntimeNext(l) ==
  LoopTop(l) \/ Pass(l) \/ SamplerEnds(l) \/ AfterPassSwitches(l) \/ AfterPass(l)
PullNext == Refuse \/ Load \/ Hold \/ SwitchNow \/ NoSwitchNow \/ Store
MainNext ==
  NewProcess \/ MainStarts \/ MainChecks \/ MainRestarts \/ StopGoesOn \/ RuntimeStops \/ StopDone

Next ==
  \/ \E l \in Langs : RuntimeNext(l)
  \/ TakeOver \/ TakeOverFails
  \/ PullNext \/ Publish \/ Fetch \/ Command
  \/ MainNext \/ StopAsked \/ ProcessGone

Spec == Init /\ [][Next]_vars

\* Nothing in progress after the pass: no run, no latched E-stop.
QuietPass(l) == Pass(l) /\ ~busy'[l] /\ ~latched'

\* The threads run and the lock is fair; runs end and the E-stop is reset, again and again; and
\* neither commands nor pulls keep in step with the passes and main's check, which come once a second.
FairSpec ==
  /\ Spec
  /\ \A l \in Langs : WF_vars(RuntimeNext(l)) /\ SF_vars(QuietPass(l)) /\ SF_vars(AfterPassSwitches(l))
  /\ WF_vars(TakeOver \/ TakeOverFails) /\ WF_vars(PullNext) /\ WF_vars(MainNext)
  /\ SF_vars(MainChecks) /\ SF_vars(MainRestarts /\ ~Switching)
-----------------------------------------------------------------------------
(* Properties. *)

ProgramTypes ==
  /\ cloud \in Bundles /\ stored \in Bundles \cup {None}
  /\ loaded \in [Langs -> Bundles \cup {None}]
  /\ \A l \in Langs : loaded[l].lang \in {0, l}
  /\ active \in Langs \cup {0}
  /\ active # 0 => loaded[active] # None
  /\ pending \in Bundles \cup {None}
  /\ pending # None => active # 0 /\ pending.lang # active
PlanTypes ==
  /\ plan \in [bundle : Bundles \cup {None}, was : BOOLEAN, stops : 0 .. 1, by : {"nobody", "pull", "thread"}]
  /\ started \in BOOLEAN /\ stops \in 0 .. 1
ThreadTypes ==
  /\ running \in [Langs -> BOOLEAN] /\ sampling \in [Langs -> BOOLEAN] /\ refusing \in BOOLEAN
  /\ loop \in [Langs -> {"none", "top", "pass", "hook"}]
WorkTypes ==
  /\ busy \in [Langs -> BOOLEAN] /\ waiting \in [Langs -> BOOLEAN]
  /\ booted \in BOOLEAN /\ latched \in BOOLEAN
MainTypes ==
  /\ main \in {"down", "boot", "up", "start", "waiting", "stopping", "joining", "ended"}
  /\ stopping \in Langs \cup {0}
  /\ pull \in [at : {"idle", "compile", "switch", "switching", "check"}, bundle : Bundles \cup {None}]

HostTypes == ProgramTypes /\ PlanTypes /\ ThreadTypes /\ WorkTypes /\ MainTypes
HistoryTypes ==
  /\ late \in [Langs -> BOOLEAN] /\ passing \in BOOLEAN /\ inStop \in BOOLEAN
  /\ failed \in Bundles \cup {None}

\* Every variable has its type, and a held bundle is of the other language (host.py:225-281).
TypeOK == HostTypes /\ HistoryTypes

\* A switch of language leaves nothing behind: no run in progress and no accepted command is on
\* the runtime that does not run (the docstring of _begin_switch_locked, "at a moment with no run
\* in progress", and of apply_command, "Queued on the old runtime, it would never be applied"),
\* but for what came between the check of a pull and the switch it made, which no one looks for.
NothingLeftBehind == \A l \in Langs : busy[l] \/ waiting[l] => l = active \/ late[l]

\* program.json is the bundle that runs, whenever no pull and no switch is under way (sync.py:9-12);
\* or the one that failed to take over after the pull had stored it.
StoredRuns ==
  active # 0 /\ pull.at = "idle" /\ ~Switching => stored \in {loaded[active], failed}

\* The threads that may live once main has stopped the host: a switch of a runtime that ran, begun in
\* the stop, sees no stop come after it and starts what takes over; but nothing else runs, whatever
\* switch was held, begun or made before the stop, waited for by it or begun later.
StopIsFinal ==
  main = "ended" =>
    \A l \in Langs : running[l] \/ sampling[l] \/ loop[l] # "none" => inStop /\ l = active

\* Never two runtimes, at any instant: one is started only when no thread of either lives, the
\* pass loop or the sampler (host.py, "never two runtime threads, at any instant").
StartsAlone ==
  [][\A l \in Langs : ~running[l] /\ running'[l]
       => \A m \in Langs : ~sampling[m] /\ loop[m] = "none"]_vars

\* The node does not leave language 3 while the E-stop is latched, also when it latches in the
\* pass that ends the hold: it clears only at the panel (_leaving_latched, _begin_switch_locked).
\* Only a pass that was under way when a pull's own switch began may latch it later.
LatchStays == [][active = 3 /\ active' = 1 /\ latched => passing]_vars

\* A loaded program runs: no switch, made or failed, leaves the host with a runtime nobody starts.
LoadedRuns ==
  active # 0 ~> (active # 0 /\ running[active]) \/ main \notin {"boot", "up", "start"}

\* What was stored and what was loaded run: the stored program is the one that runs, or else the one whose switch
\* failed after the pull had stored it; and one that is loaded is started, whatever pulls, switches, stops and
\* failures of theirs came between.
ProgramRuns == []StoredRuns /\ LoadedRuns

\* Neither stop is undone by a change of program: main's stop is final but for a switch that begins within it,
\* and a latched E-stop keeps language 3 but for one that latches in a pass under a pull's own switch.
StopsHold == []StopIsFinal /\ LatchStays
=============================================================================
