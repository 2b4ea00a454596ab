----------------------------- MODULE ScheduleRuns -----------------------------
(***************************************************************************)
(* The runs of a language-3 program (blocks/v3/runtime.py): schedules that *)
(* start and end in the active part of each layout, through the switch at  *)
(* midnight, a reload, a mains cut, a restart, a pause, a valve in FAULT   *)
(* and a clock that cannot be trusted yet.                                 *)
(*                                                                         *)
(* A pass is one action: the steps of RuntimeV3._step in their order, each *)
(* an operator from the runtime's state to its state after the step.  Time *)
(* is counted in ticks of about a minute, one pass to a tick and one more  *)
(* after everything that wakes the loop.  The outputs are valves, and only *)
(* schedules write them: start actions open, end actions close the same    *)
(* ones.  The motors are MotorSafety's, a valve's pulses LatchingValve's.  *)
(* Every schedule is enabled, every day.                                   *)
(***************************************************************************)
EXTENDS Integers, Sequences, FiniteSets, SequencesExt, TLC

CONSTANTS
  LayoutOrder,     \* the layouts, in the program's order
  SidOrder,        \* schedule ids, in the order a pass visits them
  Outs,            \* valves
  Latching,        \* those that stay where they are through a mains cut
  HandOuts,        \* bound: those that commands switch
  Plan,            \* program -> part -> schedule id -> schedule
  FirstPrograms,   \* those the node may start with
  Day,             \* ticks in a day
  ResumeAfter,     \* 30 s
  Behind,          \* how far behind a clock is that is not trusted yet
  Horizon,         \* bound: the last tick
  MaxOutage,       \* bound: ticks, in all, of a cut, a stop, a pause or an untrusted clock
  MaxTroubles,     \* bound: reloads, cuts, stops, pauses, faults and valves switched on by hand
  MaxQueue,        \* bound: commands accepted before a pass
  Troubles         \* which of them happen

Programs == DOMAIN Plan
Layouts == Range(LayoutOrder)
Parts == Layouts \X {"today", "every"}
Keys == Layouts \X Range(SidOrder)
NoPart == <<"none", "none">>
NoTime == -1

Schedule == [start : Nat, dur : Nat \ {0}, win : Nat \ {0}, outs : SUBSET Outs]

ASSUME ScheduleRunsAssumption ==
  /\ {Day, ResumeAfter, Horizon} \subseteq Nat \ {0}
  /\ {Behind, MaxOutage, MaxTroubles, MaxQueue} \subseteq Nat
  /\ Latching \cup HandOuts \subseteq Outs /\ FirstPrograms \subseteq Programs
  /\ \A p \in Programs : \A b \in DOMAIN Plan[p] :
       /\ b \in Parts
       /\ \A i \in DOMAIN Plan[p][b] : <<b[1], i>> \in Keys /\ Plan[p][b][i] \in Schedule

VARIABLES
  now, passed,    \* the tick, and whether a pass saw everything that happened in it
  trusted,        \* the clock can be trusted
  mains,          \* mains is there
  dropped,        \* valves without their supply
  up,             \* the process runs
  prog,           \* the program that runs
  rt,             \* what the runtime remembers between passes
  queue,          \* commands accepted and not yet applied
  disk, older,    \* the record, and the one before it
  troubles, outage, \* counted
  seen            \* history, for the properties

vars == <<now, passed, trusted, mains, dropped, up, prog, rt, queue, disk, older, troubles, outage, seen>>

Wall == IF trusted \/ now < Behind THEN now ELSE now - Behind
DayOf(t) == t \div Day
Max0(n) == IF n < 0 THEN 0 ELSE n
MinOf(m, n) == IF m < n THEN m ELSE n
-----------------------------------------------------------------------------
(* The program. *)

Has(p, b) == b \in DOMAIN Plan[p]
HasSchedule(p, b, i) == Has(p, b) /\ i \in DOMAIN Plan[p][b]

Writes(p, b) == IF Has(p, b) THEN UNION {Plan[p][b][i].outs : i \in DOMAIN Plan[p][b]} ELSE {}

\* The today-only part is for day 0.
ActivePart(p, l, day) ==
  IF day = 0 /\ Has(p, <<l, "today">>) THEN <<l, "today">>
  ELSE IF Has(p, <<l, "every">>) THEN <<l, "every">>
  ELSE NoPart

WrittenOn(p, day) == UNION {Writes(p, ActivePart(p, l, day)) : l \in Layouts}
AllWritten(p) == UNION {Writes(p, b) : b \in DOMAIN Plan[p]}

WriterOn(p, o, day) ==
  LET parts == {b \in {ActivePart(p, l, day) : l \in Layouts} : o \in Writes(p, b)}
  IN  IF parts = {} THEN NoPart ELSE CHOOSE b \in parts : TRUE
-----------------------------------------------------------------------------
(* The runtime's state, and its record. *)

WindowEnd(run) == run.plannedEnd + run.win

NewRun(b, sd) ==
  [part |-> b, start |-> Wall, dur |-> sd.dur, win |-> sd.win, plannedEnd |-> Wall + sd.dur,
   end |-> now + sd.dur, state |-> "running", left |-> 0, windowMono |-> NoTime,
   onKeys |-> sd.outs, acts |-> {}, redo |-> FALSE, reason |-> FALSE, cutShort |-> FALSE]

NeverRan == [ran |-> NoTime, spec |-> NoTime, missed |-> NoTime]
AllOff == [o \in Outs |-> FALSE]
NoTimers == [o \in Outs |-> NoTime]

Fresh ==
  [booted |-> FALSE, failed |-> FALSE, date |-> 0, dateTrusted |-> TRUE,
   runs |-> <<>>, last |-> [k \in Keys |-> NeverRan],
   orphans |-> {}, releases |-> {}, nowReleases |-> {},
   level |-> AllOff, writer |-> [o \in Outs |-> NoPart], vars |-> AllOff,
   fault |-> {}, held |-> {}, holdRuns |-> [b \in Parts |-> {}],
   sense |-> "unknown", wait |-> "none", resumeAt |-> NoTime, await |-> FALSE,
   paused |-> FALSE, pauseAt |-> NoTime, pauseUntil |-> NoTime, rederive |-> FALSE,
   manualOn |-> {}, timers |-> NoTimers, resuming |-> FALSE, due |-> TRUE, told |-> {}, shut |-> {}]

RecordOf_NoRunDate(s, clean) ==
  [clean |-> clean, savedAt |-> Wall, date |-> s.date, dateTrusted |-> s.dateTrusted, runs |-> s.runs,
   last |-> [k \in Keys |-> [s.last[k] EXCEPT !.ran = NoTime]],
   fault |-> s.fault, paused |-> s.paused, pauseAt |-> s.pauseAt, manualOn |-> s.manualOn]

RecordOf(s, clean) ==
  [clean |-> clean, savedAt |-> Wall, date |-> s.date, dateTrusted |-> s.dateTrusted, runs |-> s.runs,
   last |-> s.last, fault |-> s.fault, paused |-> s.paused, pauseAt |-> s.pauseAt, manualOn |-> s.manualOn]

\* Sets the outputs in os: on or off, by a part, by hand, or by no block.
SetLevel(s, os, on) == [s EXCEPT !.level = [o \in Outs |-> IF o \in os THEN on ELSE @[o]]]
SetBy(s, os, on, who) ==
  [SetLevel(s, os, on) EXCEPT !.writer = [o \in Outs |-> IF o \in os THEN who ELSE @[o]]]

EditRuns(s, ks, Edit(_, _)) ==
  [s EXCEPT !.runs = [k \in DOMAIN @ |-> IF k \in ks THEN Edit(k, @[k]) ELSE @[k]]]
DropRuns(s, ks) == [s EXCEPT !.runs = [k \in DOMAIN @ \ ks |-> @[k]]]
-----------------------------------------------------------------------------
(* A layout's part is switched under its runs. *)

Carried(run, b, sd) ==
  [run EXCEPT !.part = b, !.dur = sd.dur, !.win = sd.win, !.plannedEnd = run.start + sd.dur,
              !.end = IF run.state = "running" THEN now + Max0(run.start + sd.dur - Wall) ELSE @]

\* Start actions waiting as "__start__" take no others: the switch raises there.
CarryRun(s, k, old, new, np) ==
  LET run    == s.runs[k]
      sd     == Plan[new][np][k[2]]
      before == IF HasSchedule(old, run.part, k[2]) THEN Plan[old][run.part][k[2]].outs ELSE {}
      diff   == sd.outs \ before
      moved  == Carried(run, np, sd)
  IN  IF run.redo /\ diff # {}
      THEN [s EXCEPT !.runs[k] = moved, !.failed = TRUE]
      ELSE [s EXCEPT !.runs[k] = [moved EXCEPT !.acts = @ \cup diff, !.onKeys = @ \cup sd.outs],
                     !.last[k].spec = sd.start]

OrphanOf(k, end, outs) == [key |-> k, end |-> end, outs |-> outs]

LeaveRun(s, k, old) ==
  LET run  == s.runs[k]
      gone == DropRuns(s, {k})
  IN  IF ~HasSchedule(old, run.part, k[2]) THEN gone
      ELSE LET outs == Plan[old][run.part][k[2]].outs
           IN  IF run.state = "running"
               THEN [gone EXCEPT !.orphans = @ \cup {OrphanOf(k, run.end, outs)}]
               ELSE [gone EXCEPT !.orphans = @ \cup {OrphanOf(k, now, outs)}, !.told = @ \cup {k}]

SwitchRuns(s, l, old, new, np) ==
  LET Switch(r, i) ==
        LET k == <<l, i>>
        IN  IF r.failed \/ k \notin DOMAIN r.runs THEN r
            ELSE IF HasSchedule(new, np, i) THEN CarryRun(r, k, old, new, np)
            ELSE LeaveRun(r, k, old)
  IN  FoldLeft(Switch, s, SidOrder)

\* What only the old part wrote and is on: kept to the end of the runs given, or let go of.
KeepOrRelease(s, os, Keepers(_)) ==
  [s EXCEPT !.releases = @ \cup {[out |-> o, runs |-> Keepers(o)] : o \in {x \in os : Keepers(x) # {}}},
            !.nowReleases = @ \cup {o \in os : Keepers(o) = {}}]

\* s is the state after the switch of layout l's part op.
LeaveOutputs(s, l, op, today) ==
  LET left == {o \in Writes(prog, op) \ WrittenOn(prog, today) : s.level[o]}
      Keepers(o) == {k \in DOMAIN s.runs : o \in s.runs[k].onKeys \/ k[1] = l}
  IN  IF s.failed THEN s ELSE KeepOrRelease(s, left, Keepers)

SwitchLayout(s, l, yesterday, today) ==
  LET op == ActivePart(prog, l, yesterday)
      np == ActivePart(prog, l, today)
  IN  IF s.failed \/ op = np THEN s ELSE LeaveOutputs(SwitchRuns(s, l, prog, prog, np), l, op, today)

Midnight(s) ==
  LET today == DayOf(Wall)
      moved == [s EXCEPT !.date = today, !.dateTrusted = TRUE]
  IN  IF ~trusted THEN s
      ELSE FoldLeft(LAMBDA r, l : SwitchLayout(r, l, s.date, today), moved, LayoutOrder)

PlanReleases(s, old, new) ==
  LET newW    == WrittenOn(new, s.date)
      kept    == [s EXCEPT !.releases = {r \in @ : r.out \notin newW}, !.nowReleases = @ \ newW]
      waiting == {r.out : r \in kept.releases} \cup kept.nowReleases
      \* The block that last wrote o, if the old program has it.
      lastBy(o) == IF Has(old, s.writer[o]) THEN s.writer[o] ELSE NoPart
      byBlock(o) == WriterOn(old, o, s.date) # NoPart \/ lastBy(o) # NoPart
      left    == {o \in Outs \ (newW \cup waiting) : byBlock(o) /\ s.level[o]}
      block(o) == IF lastBy(o) # NoPart THEN lastBy(o) ELSE WriterOn(old, o, s.date)
      Keepers(o) ==
        LET by == {k \in DOMAIN s.runs : o \in s.runs[k].onKeys}
        IN  IF by # {} THEN by ELSE {k \in DOMAIN s.runs : k[1] = block(o)[1]}
  IN  IF s.failed THEN s ELSE KeepOrRelease(kept, left, Keepers)

TakeOver(s, old, new) ==
  LET known == [s EXCEPT !.failed = FALSE, !.due = TRUE, !.held = {b \in @ : Has(new, b)},
                         !.holdRuns = [b \in Parts |-> IF Has(new, b) THEN @[b] ELSE {}]]
      switched == FoldLeft(LAMBDA r, l : SwitchRuns(r, l, old, new, ActivePart(new, l, s.date)),
                           known, LayoutOrder)
  IN  PlanReleases(switched, old, new)
-----------------------------------------------------------------------------
(* The power. *)

Interrupt(s) ==
  LET Stopped(k, run) ==
        [run EXCEPT !.state = "interrupted", !.left = Max0(run.end - now), !.end = NoTime,
                    !.windowMono = now + Max0(WindowEnd(run) - Wall)]
      running == {k \in DOMAIN s.runs : s.runs[k].state = "running"}
  IN  SetLevel(EditRuns(s, running, Stopped), Outs \ Latching, FALSE)

SensePower(s) ==
  IF mains
  THEN IF s.sense = "absent"
       THEN [s EXCEPT !.sense = "present", !.wait = "restoring", !.resumeAt = now + ResumeAfter]
       ELSE [s EXCEPT !.sense = "present"]
  ELSE IF s.sense = "absent" THEN s
       ELSE [Interrupt(s) EXCEPT !.sense = "absent", !.wait = "cut", !.resumeAt = NoTime]

Interrupted(s) == {k \in DOMAIN s.runs : s.runs[k].state = "interrupted"}
ClockDecides(s) == trusted \/ \A k \in Interrupted(s) : now >= s.runs[k].windowMono

Today(s) == IF trusted THEN DayOf(Wall) ELSE s.date

EndsLater_Never(s, ks) == s

\* The end actions of a run that is over without its part.
EndsLater(s, ks) ==
  LET known == {k \in ks : HasSchedule(prog, s.runs[k].part, k[2])}
  IN  [s EXCEPT !.orphans = @ \cup {OrphanOf(k, now, Plan[prog][s.runs[k].part][k[2]].outs) : k \in known}]

ResumeRuns(s) ==
  LET part(k) == ActivePart(prog, k[1], Today(s))
      gone == {k \in Interrupted(s) : trusted /\ ~HasSchedule(prog, part(k), k[2])}
      InPart(k, run) == IF trusted THEN [run EXCEPT !.part = part(k)] ELSE run
      r == EditRuns(DropRuns(s, gone), Interrupted(s), InPart)
      room(k) == IF trusted THEN WindowEnd(s.runs[k]) - Wall ELSE s.runs[k].windowMono - now
      over == {k \in Interrupted(r) : room(k) <= 0 \/ s.runs[k].left <= 0}
      Resumed(k, run) ==
        [run EXCEPT !.state = "running", !.end = now + MinOf(run.left, room(k)),
                    !.cutShort = run.left > room(k), !.redo = TRUE, !.acts = {}]
      ended == [DropRuns(EndsLater(r, over), over) EXCEPT !.told = @ \cup over]
  IN  [EditRuns(ended, Interrupted(ended), Resumed) EXCEPT !.await = FALSE]

PowerBack(s) ==
  LET due == s.wait \in {"restoring", "restart"} /\ s.resumeAt # NoTime /\ now >= s.resumeAt
      free == [s EXCEPT !.wait = "none", !.resumeAt = NoTime]
  IN  CASE due /\ s.sense = "absent" -> [s EXCEPT !.wait = "cut", !.resumeAt = NoTime]
        [] due /\ s.sense # "absent" ->
             IF ClockDecides(free) THEN ResumeRuns(free) ELSE [free EXCEPT !.await = TRUE]
        [] ~due -> IF s.await /\ s.wait = "none" /\ ClockDecides(s) THEN ResumeRuns(s) ELSE s
Power(s) == PowerBack(SensePower(s))
-----------------------------------------------------------------------------
(* Supplies; commands, and what their timers do. *)

ValveSupplies(s) == [s EXCEPT !.fault = @ \cup dropped]

ByHand == <<"manual", "manual">>
NoOut == "no output"
Commands ==
  [type : {"on", "off"}, out : HandOuts, time : {NoTime, 1}]
    \cup [type : {"pause"}, out : {NoOut}, time : {NoTime, 1}]
    \cup [type : {"resume", "stopAll"}, out : {NoOut}, time : {NoTime}]
    \cup [type : {"reset"}, out : Latching, time : {NoTime}]

RefuseSwitch(s, o) == o \in s.fault \/ (~s.paused /\ o \in AllWritten(prog))

ManualSet(s, o, on, time) ==
  [SetBy(s, {o}, on, ByHand) EXCEPT
     !.manualOn = CASE s.paused /\ on -> @ \cup {o} [] s.paused /\ ~on -> @ \ {o} [] OTHER -> @,
     !.timers[o] = IF on /\ time # NoTime THEN now + time ELSE NoTime]

PauseEnd(until) == IF until = NoTime THEN NoTime ELSE now + Max0(until - Wall)

Pause(s, time, stopAll) ==
  LET until == IF time = NoTime THEN NoTime ELSE Wall + time
      paused == [s EXCEPT !.paused = TRUE, !.pauseAt = until, !.pauseUntil = PauseEnd(until),
                          !.rederive = FALSE, !.manualOn = {}]
  IN  IF stopAll THEN SetBy(paused, Outs, FALSE, ByHand) ELSE paused

Resume(s) ==
  LET Redo(k, run) == [run EXCEPT !.redo = TRUE, !.acts = {}]
      running == {k \in DOMAIN s.runs : s.runs[k].state = "running" /\ now < s.runs[k].end}
  IN  IF ~s.paused THEN s
      ELSE [EditRuns(s, running, Redo) EXCEPT
              !.paused = FALSE, !.pauseAt = NoTime, !.pauseUntil = NoTime, !.resuming = TRUE]

Apply(s, c) ==
  CASE c.type \in {"on", "off"} ->
         IF RefuseSwitch(s, c.out) THEN s ELSE ManualSet(s, c.out, c.type = "on", c.time)
    [] c.type \in {"pause", "stopAll"} -> Pause(s, c.time, c.type = "stopAll")
    [] c.type = "resume" -> Resume(s)
    [] c.type = "reset" ->
         IF c.out \in s.fault \ dropped THEN SetLevel([s EXCEPT !.fault = @ \ {c.out}], {c.out}, FALSE) ELSE s

ApplyCommands(s) == FoldLeft(Apply, s, queue)

\* Closed by something else than the end of a run in its part; s.shut keeps them for the properties.
Shut(s, os) == [SetLevel(s, os, FALSE) EXCEPT !.shut = @ \cup {o \in os : s.level[o]}]

AutomationTimers(s) ==
  LET due == {o \in Outs : s.timers[o] # NoTime /\ now >= s.timers[o]}
      timed == [SetBy(Shut(s, due), due, FALSE, ByHand) EXCEPT
                  !.manualOn = IF s.paused THEN @ \ due ELSE @,
                  !.timers = [o \in Outs |-> IF o \in due THEN NoTime ELSE @[o]]]
      known == IF timed.paused /\ timed.rederive /\ trusted
               THEN [timed EXCEPT !.rederive = FALSE, !.pauseUntil = PauseEnd(timed.pauseAt)]
               ELSE timed
  IN  IF known.paused /\ known.pauseUntil # NoTime /\ now >= known.pauseUntil THEN Resume(known) ELSE known
-----------------------------------------------------------------------------
(* Parts that hold while a valve of theirs is in FAULT. *)

\* The part b holds no longer; since holds the runs that ran when it began to.
ResumeHeld(s, b, since) ==
  LET mine == {k \in DOMAIN s.runs : k \in since \/ s.runs[k].part = b}
      OnAgain(k, run) ==
        IF run.state = "running" /\ now < run.end
        THEN IF run.part = b THEN [run EXCEPT !.redo = TRUE, !.acts = {}] ELSE run
        ELSE [run EXCEPT !.reason = TRUE, !.end = now]
  IN  [EditRuns(s, mine, OnAgain) EXCEPT !.told = @ \cup (since \ DOMAIN s.runs)]

Holds(s) ==
  LET nowHeld == {b \in DOMAIN Plan[prog] : Writes(prog, b) \cap s.fault # {}}
      begins  == nowHeld \ s.held
      running(b) == {k \in DOMAIN s.runs : k[1] = b[1] /\ s.runs[k].state = "running"}
      held == [Shut(s, UNION {Writes(prog, b) : b \in begins}) EXCEPT
                 !.held = nowHeld,
                 !.holdRuns = [b \in Parts |-> CASE b \in begins -> running(b)
                                                 [] b \in nowHeld \ begins -> @[b]
                                                 [] OTHER -> {}]]
  IN  FoldSet(LAMBDA b, r : ResumeHeld(r, b, s.holdRuns[b]), held, s.held \ nowHeld)
-----------------------------------------------------------------------------
(* The parts. *)

NowReleases(s) == [SetBy(s, s.nowReleases, FALSE, NoPart) EXCEPT !.nowReleases = {}]

\* vars is what the part's block gives its outputs before they are set.
Opens(s, os) == [s EXCEPT !.vars = [o \in Outs |-> @[o] \/ o \in os]]
Closes(s, os) == [s EXCEPT !.vars = [o \in Outs |-> @[o] /\ o \notin os]]

ApplyPending(s, b) ==
  LET mine == {k \in DOMAIN s.runs : s.runs[k].part = b}
      acts(k) == IF s.runs[k].redo /\ HasSchedule(prog, b, k[2])
                 THEN Plan[prog][b][k[2]].outs ELSE s.runs[k].acts
      Done(k, run) ==
        [run EXCEPT !.redo = FALSE, !.acts = {}, !.onKeys = IF run.redo THEN @ \cup acts(k) ELSE @]
  IN  Opens(EditRuns(s, mine, Done), UNION {acts(k) : k \in mine})

EndRun_Quiet(s, k, sd) ==
  LET said == IF s.runs[k].reason THEN {k} ELSE {}
  IN  Closes([DropRuns(s, {k}) EXCEPT !.told = @ \cup said], sd.outs)

EndRun(s, k, sd) ==
  LET run == s.runs[k]
      said == IF run.reason \/ run.cutShort THEN {k} ELSE {}
  IN  Closes([DropRuns(s, {k}) EXCEPT !.told = @ \cup said], sd.outs)

StartRun(s, k, b, sd) ==
  Opens([s EXCEPT !.runs = @ @@ (k :> NewRun(b, sd)),
                  !.last[k] = [@ EXCEPT !.ran = DayOf(Wall), !.spec = sd.start]], sd.outs)

RanToday(s, k) == s.last[k].ran = DayOf(Wall)

RunSchedule(s, b, i) ==
  LET k  == <<b[1], i>>
      sd == Plan[prog][b][i]
      start == DayOf(Wall) * Day + sd.start
      again == RanToday(s, k) /\ s.last[k].spec = sd.start
  IN  IF k \in DOMAIN s.runs
      THEN IF s.runs[k].state = "running" /\ now >= s.runs[k].end THEN EndRun(s, k, sd) ELSE s
      ELSE IF ~trusted \/ again THEN s
      ELSE IF start <= Wall /\ Wall < start + sd.win THEN StartRun(s, k, b, sd)
      ELSE IF Wall >= start + sd.win /\ ~RanToday(s, k)
           THEN [s EXCEPT !.last[k].missed = DayOf(Wall)]
           ELSE s

RunSchedules(s, b) ==
  FoldLeft(LAMBDA r, i : IF HasSchedule(prog, b, i) THEN RunSchedule(r, b, i) ELSE r, s, SidOrder)

SyncOut(s, b) ==
  [s EXCEPT !.level = s.vars, !.vars = AllOff,
            !.writer = [o \in Outs |-> IF s.vars[o] # s.level[o] THEN b ELSE @[o]]]

EvalPart(s, b) == SyncOut(RunSchedules(ApplyPending([s EXCEPT !.vars = s.level], b), b), b)

Waits(s) == s.paused \/ s.wait # "none"

EvalParts(s) ==
  LET Eval(r, l) ==
        LET b == ActivePart(prog, l, Today(s))
        IN  IF b = NoPart \/ b \in r.held \/ Waits(s) THEN r ELSE EvalPart(r, b)
  IN  FoldLeft(Eval, s, LayoutOrder)

OrphanEnds(s) ==
  LET due == {x \in s.orphans : now >= x.end}
  IN  IF Waits(s) THEN s
      ELSE Shut([s EXCEPT !.orphans = @ \ due], UNION {x.outs : x \in due})

ResumeManualOff(s) ==
  LET scheduled == UNION {s.runs[k].onKeys : k \in DOMAIN s.runs}
  IN  IF ~s.resuming THEN s
      ELSE SetLevel([s EXCEPT !.manualOn = {}, !.resuming = FALSE], s.manualOn \ scheduled, FALSE)

DueReleases(s) ==
  LET due == {r \in s.releases : r.runs \cap DOMAIN s.runs = {}}
  IN  SetBy([s EXCEPT !.releases = @ \ due], {r.out : r \in due}, FALSE, NoPart)
-----------------------------------------------------------------------------
(* The pass, and what a program load or a restart makes of the state. *)

Boot(s) ==
  [s EXCEPT !.booted = TRUE, !.told = {}, !.shut = {}, !.failed = FALSE,
            !.resumeAt = IF ~s.booted /\ s.wait = "restart" THEN now + ResumeAfter ELSE @]

\* A pass whose midnight raises ends there.
AfterMidnight(s) ==
  IF s.failed THEN s
  ELSE [DueReleases(ResumeManualOff(OrphanEnds(EvalParts(NowReleases(Holds(
          AutomationTimers(ApplyCommands(ValveSupplies(Power(s)))))))))) EXCEPT !.due = FALSE]
PassResult(s) == AfterMidnight(Midnight(Boot(s)))

\* A program load, or a change in this, makes a pass hand its record over; while a run is in progress, it does so every minute.
Lasting(s) ==
  <<DOMAIN s.runs, s.last, s.orphans, s.paused, s.manualOn, s.timers, s.fault>>

Records == ~rt'.failed /\ (rt.due \/ rt'.runs # <<>> \/ Lasting(rt') # Lasting(rt))

Persist(r) ==
  /\ disk' = r
  /\ older' = disk

LoadRun_StillRunning(rec, k) ==
  LET run == rec.runs[k]
  IN  [run EXCEPT !.end = NoTime, !.left = Max0(run.plannedEnd - rec.savedAt),
                  !.windowMono = now + Max0(WindowEnd(run) - rec.savedAt),
                  !.acts = {}, !.redo = FALSE, !.reason = FALSE, !.cutShort = FALSE]

LoadRun(rec, k) ==
  LET run == rec.runs[k]
  IN  [run EXCEPT !.state = "interrupted", !.end = NoTime,
                  !.left = IF run.state = "interrupted" THEN @ ELSE Max0(run.plannedEnd - rec.savedAt),
                  !.windowMono = now + Max0(WindowEnd(run) - rec.savedAt),
                  !.acts = {}, !.redo = FALSE, !.reason = FALSE, !.cutShort = FALSE]

\* A start on the record rec, with a clock that is trusted or not.
ColdLoad(rec, ok) ==
  LET wall == IF ok \/ now < Behind THEN now ELSE now - Behind
      date == IF ok \/ ~rec.dateTrusted THEN DayOf(wall) ELSE rec.date
      part(k) ==
        LET b == ActivePart(prog, k[1], date)
        IN  IF ~HasSchedule(prog, b, k[2]) /\ ~ok THEN rec.runs[k].part ELSE b
      kept == {k \in DOMAIN rec.runs : HasSchedule(prog, part(k), k[2])}
  IN  [Fresh EXCEPT
         !.date = date, !.dateTrusted = ok \/ rec.dateTrusted,
         !.runs = [k \in kept |-> [LoadRun(rec, k) EXCEPT !.part = part(k)]],
         !.last = rec.last,
         !.fault = IF rec.clean THEN rec.fault ELSE Latching,
         !.paused = rec.paused, !.manualOn = rec.manualOn, !.pauseAt = rec.pauseAt,
         !.rederive = rec.pauseAt # NoTime /\ ~ok,
         !.pauseUntil = IF ok /\ rec.pauseAt # NoTime THEN now + Max0(rec.pauseAt - wall) ELSE NoTime,
         !.wait = IF kept = {} THEN "none" ELSE "restart"]
-----------------------------------------------------------------------------
(* What happens. *)

Trouble(t) == t \in Troubles /\ troubles < MaxTroubles /\ troubles' = troubles + 1

\* The runs that ended in this pass, their schedule still in the part that runs.
Ended(s) ==
  {k \in DOMAIN rt.runs \ DOMAIN s.runs : HasSchedule(prog, ActivePart(prog, k[1], Today(s)), k[2])}
Started(s) ==
  {k \in DOMAIN s.runs : s.runs[k].start = Wall /\ (k \in DOMAIN rt.runs => rt.runs[k].start # Wall)}
StartKey(s, k) == <<k, DayOf(Wall), s.last[k].spec>>

\* A run carried into another plan keeps the plan's time, not its own.
Replanned(old, new) ==
  old.dur # new.dur \/ (old.state = "running" /\ new.state = "running" /\ old.end # new.end)

NotSeen ==
  [ran |-> [k \in Keys |-> 0], lost |-> 0, begun |-> {}, latest |-> {}, twice |-> {},
   moved |-> {}, short |-> {}, direct |-> {}, late |-> {}, under |-> {}, handed |-> {}]

\* What closes the valve o: a run in the part that runs, an orphaned end or a release.
Closing(s, p, o) ==
  \/ \E k \in DOMAIN s.runs :
       LET b == ActivePart(p, k[1], Today(s))
       IN  HasSchedule(p, b, k[2]) /\ o \in Plan[p][b][k[2]].outs
  \/ \E x \in s.orphans : o \in x.outs
  \/ \E x \in s.releases : x.out = o
  \/ o \in s.nowReleases

\* Valves that a switch of parts leaves open for a schedule of the new ones to close, when that one has run.
HandedOn(s, p, day) == {o \in WrittenOn(p, day) : rt.level[o] /\ s.level[o] /\ ~Closing(s, p, o)}

\* Valves closed under a run of theirs that does not hold.
ClosedUnder(s) ==
  {x \in (DOMAIN s.runs) \X s.shut :
     LET run == s.runs[x[1]]
     IN  /\ run.part \notin s.held /\ HasSchedule(prog, run.part, x[1][2])
         /\ x[2] \in Plan[prog][run.part][x[1][2]].outs /\ ~s.level[x[2]]}

Pass ==
  /\ up /\ ~passed
  /\ rt' = PassResult(rt)
  /\ queue' = IF rt'.failed THEN queue ELSE <<>>
  /\ IF Records THEN Persist(RecordOf(rt', FALSE)) ELSE UNCHANGED <<disk, older>>
  /\ LET begun == {StartKey(rt', k) : k \in Started(rt')}
         moved == {k \in DOMAIN rt.runs : /\ rt.runs[k].part # ActivePart(prog, k[1], Today(rt'))
                                          /\ k \in DOMAIN rt'.runs => Replanned(rt.runs[k], rt'.runs[k])}
         direct == {queue[i].out : i \in {j \in DOMAIN queue : /\ queue[j].type = "on"
                                                           /\ \/ ~rt.paused
                                                              \/ \E h \in 1 .. j : queue[h].type = "resume"}}
     IN  seen' = [seen EXCEPT
           !.begun = @ \cup begun, !.twice = @ \cup (begun \cap seen.begun),
           !.latest = IF Records THEN begun ELSE @,
           !.moved = (@ \cup moved) \ Started(rt'),
           !.ran = [k \in Keys |-> IF k \in Started(rt') THEN 0 ELSE @[k]],
           !.direct = {o \in @ \cup direct : rt'.writer[o] = ByHand},
           !.late = @ \ Started(rt'),
           !.under = {x \in @ : x[1] \in DOMAIN rt'.runs \ Started(rt') /\ ~rt'.level[x[2]]} \cup ClosedUnder(rt'),
           !.handed = {o \in @ : rt'.level[o] /\ ~Closing(rt', prog, o)} \cup
                        (IF rt'.date # rt.date THEN HandedOn(rt', prog, rt'.date) ELSE {}),
           !.short = {k \in Ended(rt') \ (rt'.told \cup seen.moved \cup moved \cup seen.late) :
                        seen.ran[k] < rt.runs[k].dur}]
  /\ passed' = TRUE
  /\ UNCHANGED <<now, trusted, mains, dropped, up, prog, troubles, outage>>

\* A run's time goes by until its end, while the process runs.
Tick ==
  /\ up => passed
  /\ now < Horizon
  /\ now' = now + 1 /\ passed' = FALSE
  /\ IF mains /\ up /\ trusted /\ ~rt.paused THEN UNCHANGED outage
     ELSE outage < MaxOutage /\ outage' = outage + 1
  /\ seen' = [seen EXCEPT
       !.ran = [k \in Keys |-> IF up /\ k \in DOMAIN rt.runs /\ now < rt.runs[k].end THEN @[k] + 1 ELSE @[k]],
       !.short = {}]
  /\ UNCHANGED <<trusted, mains, dropped, up, prog, rt, queue, disk, older, troubles>>

MainsChange ==
  /\ ~passed
  /\ mains' = ~mains
  /\ IF mains THEN Trouble("cut") ELSE UNCHANGED troubles
  /\ UNCHANGED <<now, passed, trusted, dropped, up, prog, rt, queue, disk, older, outage, seen>>

ClockTrusted ==
  /\ ~passed /\ ~trusted
  /\ trusted' = TRUE
  /\ UNCHANGED <<now, passed, mains, dropped, up, prog, rt, queue, disk, older, troubles, outage, seen>>

SupplyChange(o) ==
  /\ ~passed
  /\ dropped' = IF o \in dropped THEN dropped \ {o} ELSE dropped \cup {o}
  /\ IF o \in dropped THEN UNCHANGED troubles ELSE Trouble("supply")
  /\ UNCHANGED <<now, passed, trusted, mains, up, prog, rt, queue, disk, older, outage, seen>>

Accepted(c) ==
  CASE c.type \in {"on", "off"} ->
         ~RefuseSwitch(rt, c.out) /\ (c.time # NoTime => c.type = "on")
    [] c.type \in {"pause", "stopAll"} -> ~rt.paused
    [] c.type = "resume" -> rt.paused
    [] c.type = "reset" -> c.out \in rt.fault \ dropped

Command(c) ==
  /\ up /\ ~passed /\ Len(queue) < MaxQueue /\ Accepted(c)
  /\ CASE c.type \in {"pause", "stopAll"}     -> Trouble("pause")
       [] c.type = "on" /\ ~rt.paused         -> Trouble("hand")
       [] c.type \in {"off", "resume", "reset"} \/ rt.paused -> UNCHANGED troubles
  /\ queue' = Append(queue, c)
  /\ UNCHANGED <<now, passed, trusted, mains, dropped, up, prog, rt, disk, older, outage, seen>>

\* A take-over that raises leaves the old program running, on the state it had.  Bound: a second reload
\* waits for the start actions the first one gave a run.
Reload(p) ==
  /\ up /\ ~passed /\ p # prog /\ \A k \in DOMAIN rt.runs : rt.runs[k].acts = {}
  /\ Trouble("reload")
  /\ rt' = TakeOver(rt, prog, p)
  /\ ~rt'.failed
  /\ LET moved == {k \in DOMAIN rt.runs \cap DOMAIN rt'.runs : Replanned(rt.runs[k], rt'.runs[k])}
     IN  seen' = [seen EXCEPT !.moved = @ \cup moved, !.short = {},
                              !.handed = @ \cup HandedOn(rt', p, rt.date)]
  /\ prog' = p
  /\ UNCHANGED <<now, passed, trusted, mains, dropped, up, queue, disk, older, outage>>

\* The runs that were resumed later than planned: a restart takes the time they were late off what is left.
RunLate == {k \in DOMAIN rt.runs : rt.runs[k].end > rt.runs[k].plannedEnd}

\* A clean stop leaves every valve closed; a killed process may lose the record its last pass handed over.
Stop ==
  /\ up
  /\ Trouble("stop")
  /\ up' = FALSE
  /\ disk' = RecordOf(rt, TRUE)
  /\ seen' = [seen EXCEPT !.late = @ \cup RunLate]
  /\ UNCHANGED <<now, passed, trusted, mains, dropped, prog, rt, queue, older, outage>>

Kill ==
  /\ up
  /\ Trouble("kill")
  /\ up' = FALSE
  /\ \/ /\ UNCHANGED disk
        /\ seen' = [seen EXCEPT !.lost = @ + 1, !.late = @ \cup RunLate]
     \/ /\ disk # older
        /\ disk' = older
        /\ seen' = [seen EXCEPT !.lost = @ + 2, !.begun = @ \ seen.latest, !.late = @ \cup RunLate]
  /\ UNCHANGED <<now, passed, trusted, mains, dropped, prog, rt, queue, older, outage>>

Restart ==
  /\ ~up
  /\ up' = TRUE /\ passed' = FALSE
  /\ trusted' \in BOOLEAN
  /\ rt' = ColdLoad(disk, trusted')
  /\ queue' = <<>>
  /\ seen' = [seen EXCEPT !.short = {}, !.latest = {}]
  /\ UNCHANGED <<now, mains, dropped, prog, troubles, outage>>
  /\ Persist(RecordOf(rt, FALSE)')

Init ==
  /\ now = 0 /\ passed = FALSE /\ trusted = TRUE /\ mains = TRUE /\ dropped = {} /\ up = TRUE
  /\ prog \in FirstPrograms /\ rt = Fresh /\ queue = <<>>
  /\ disk = RecordOf(Fresh, FALSE) /\ older = RecordOf(Fresh, FALSE)
  /\ troubles = 0 /\ outage = 0 /\ seen = NotSeen

Next ==
  \/ Pass \/ Tick \/ MainsChange \/ ClockTrusted
  \/ \E o \in Latching : SupplyChange(o)
  \/ \E c \in Commands : Command(c)
  \/ \E p \in Programs : Reload(p)
  \/ Stop \/ Kill \/ Restart

Spec == Init /\ [][Next]_vars
-----------------------------------------------------------------------------
(* Properties. *)

RunState ==
  [part : Parts, start : Nat, dur : Nat, win : Nat, plannedEnd : Nat, end : Nat \cup {NoTime},
   state : {"running", "interrupted"}, left : Nat, windowMono : Nat \cup {NoTime},
   onKeys : SUBSET Outs, acts : SUBSET Outs, redo : BOOLEAN, reason : BOOLEAN, cutShort : BOOLEAN]

\* Types, and: a run has an end while it runs, and none while it is interrupted unless its hold ended it.
TypeOK ==
  /\ now \in 0 .. Horizon /\ {passed, trusted, mains, up} \subseteq BOOLEAN
  /\ prog \in Programs /\ troubles \in 0 .. MaxTroubles /\ outage \in 0 .. MaxOutage
  /\ queue \in Seq(Commands) /\ Len(queue) <= MaxQueue
  /\ DOMAIN rt.runs \subseteq Keys
  /\ \A k \in DOMAIN rt.runs :
       /\ rt.runs[k] \in RunState
       /\ rt.runs[k].state = "running" => rt.runs[k].end # NoTime
       /\ rt.runs[k].redo => rt.runs[k].acts = {}
  /\ rt.level \in [Outs -> BOOLEAN] /\ rt.fault \subseteq Latching
  /\ rt.wait \in {"none", "cut", "restoring", "restart"}
  /\ \A r \in rt.releases : r.out \in Outs /\ r.runs \subseteq Keys
  /\ rt.held \subseteq DOMAIN Plan[prog]

Settled == up /\ passed /\ ~Waits(rt)

\* No valve stays open with nothing to close it, but one that a person opened as no block's, or that a
\* switch of parts handed to a schedule that has not run yet.
NothingLeftOn ==
  \A o \in Outs : rt.level[o] => Closing(rt, prog, o) \/ o \in seen.direct \/ o \in seen.handed

\* A run that runs has its valves open, unless its part holds.
OpenNow(k, o) ==
  LET run == rt.runs[k]
  IN  run.state = "running" /\ run.part \notin rt.held /\ HasSchedule(prog, run.part, k[2])
        => (o \in Plan[prog][run.part][k[2]].outs => rt.level[o])

\* It does, but for a valve closed under it: by a part not in force that holds (_holds), by the timer of a
\* switch by hand (_automation_timers), or by the end of another run, that a switch or an outage put off.
KeepsOpen == \A k \in DOMAIN rt.runs, o \in Outs : OpenNow(k, o) \/ <<k, o>> \in seen.under

\* After a pass the valves and the runs agree, both ways, but for what NothingLeftOn and KeepsOpen name.
ValvesFollowRuns == Settled => NothingLeftOn /\ KeepsOpen

\* Only the blocks that use a valve in FAULT hold (CHANGELOG.md:590): a run of another block keeps its valves
\* open.  _holds takes in the blocks of parts not in force and switches off all that they write.
OthersKeepOpen == Settled => \A k \in DOMAIN rt.runs, o \in Outs : OpenNow(k, o)

\* A schedule starts once for its day and start, whatever reloads, restarts and midnights come between.
RunsOnce == seen.twice = {}

\* No run goes past its window, and none gets more than its time: interruptions and restarts add nothing,
\* but for the minute since its last record that a killed process loses, or two when the record is lost too.
TimeKept ==
  \A k \in DOMAIN rt.runs :
    LET run == rt.runs[k]
    IN  up /\ run.state = "running" =>
          /\ run.end <= now \/ run.end <= WindowEnd(run)
          /\ k \notin seen.moved => seen.ran[k] + Max0(run.end - now) <= run.dur + seen.lost

\* A schedule never waters twice or too long: one start for its day, and no more than its time.
NeverTooMuch == RunsOnce /\ TimeKept

\* A run that ends short of its time is told, but one that a process met its end in after it was resumed
\* later than planned: the restart takes that time off it, too (_run_from_state).
EndsAreTold == seen.short = {}
=============================================================================
