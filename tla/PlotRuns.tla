------------------------------- MODULE PlotRuns -------------------------------
(***************************************************************************)
(* The language-1 runtime (blocks/runtime.py): cards with an output each,  *)
(* the node's block (NAB) with its copies of the cards' variables, plots,  *)
(* schedules and rules; programs that take over from one another while     *)
(* runs go on; commands, failed writes, stops, kills and restarts.         *)
(*                                                                         *)
(* A pass is one action: the steps of BlockRuntime.step in their order,    *)
(* each an operator from the runtime's state to its state after the step.  *)
(* Time is counted in ticks of about a minute, one pass to a tick and one  *)
(* more after the boot pass.  Every schedule is of every day.              *)
(***************************************************************************)
EXTENDS Integers, Sequences, FiniteSets, SequencesExt

CONSTANTS
  Cards, Lines,    \* cards with an output, and the physical lines
  Program,         \* name -> program, see IsProgram
  FirstProgram,
  Sids, RuleIds,   \* schedule and rule ids
  Day,             \* ticks in a day
  ResumeWithin,    \* resume_within_seconds
  Behind,          \* how far behind a clock is that is not trusted yet
  Horizon,         \* bound: the last tick
  MaxTroubles,     \* bound: how many of the Troubles happen
  Troubles,        \* which do
  RunTimes,        \* bound: for how long a command runs a plot
  HandCards,       \* bound: the cards that commands switch
  WeakLines,       \* bound: the lines whose writes may fail
  ReloadsMeet      \* a second program may be loaded before a pass has seen the first

Never == -1
NoCard == "no card"
NoPlot == "no plot"

\* Actions of rules and schedules.
Set(c, on)       == [type |-> "set", card |-> c, on |-> on]
Run(p, time)     == [type |-> "run_plot", plot |-> p, time |-> time]
End(p)           == [type |-> "stop_plot", plot |-> p]
StartSequence(r) == [type |-> "start_sequence", rule |-> r]

SeqRange(s) == {s[i] : i \in DOMAIN s}

\* Recursive functions over sequences: a Step by each element in turn, and the elements that are in a set.
Folded(Step(_, _), s, q) ==
  LET f[n \in 0 .. Len(q)] == IF n = 0 THEN s ELSE Step(f[n - 1], q[n]) IN f[Len(q)]
Selected(q, those) == Folded(LAMBDA r, x : IF x \in those THEN Append(r, x) ELSE r, <<>>, q)

With(f, x, v) == [y \in {x} \cup DOMAIN f |-> IF y = x THEN v ELSE f[y]]

Plots == UNION {DOMAIN Program[n].plots : n \in DOMAIN Program}

Conditions == {"alarm", "closed"}
\* What sets one of cs, or starts or ends the run of one of qs.
Actions(cs, qs) ==
  [type : {"set"}, card : cs, on : BOOLEAN] \cup [type : {"run_plot"}, plot : qs, time : Nat \cup {Never}]
    \cup [type : {"stop_plot"}, plot : qs] \cup [type : {"start_sequence"}, rule : RuleIds]
Rules(p) ==
  LET acts == Seq(Actions(p.nab, DOMAIN p.plots))
  IN  [id : RuleIds, kind : {"when"}, cond : Conditions, hold : Nat, actions : acts, orElse : acts]
        \cup [id : RuleIds, kind : {"on"}, event : {"boot"}, actions : acts]
        \cup [id : RuleIds, kind : {"sequence"}, abort : Conditions, steps : Seq([delay : Nat, actions : acts])]
CardRules(p) ==
  [id : RuleIds, kind : {"limit"}, card : p.cards, max : Nat, actions : Seq(Actions(p.cards, {}))]
Schedules(p) ==
  LET acts == Seq(Actions(p.nab, DOMAIN p.plots))
  IN  [id : Sids, plot : DOMAIN p.plots \cup {NoPlot}, start : Nat, dur : Nat, win : Nat, actions : acts, ends : acts]

\* nab: the cards the NAB has a writable variable of; inputs: the lines read as inputs.
IsProgram(p) ==
  /\ p.nab \subseteq p.cards /\ p.cards \subseteq Cards /\ p.inputs \subseteq Lines
  /\ p.line \in [p.cards -> Lines \ p.inputs] /\ p.pump \in p.nab \cup {NoCard}
  /\ \A c, d \in p.cards : p.line[c] = p.line[d] => c = d
  /\ IsFiniteSet(DOMAIN p.plots) /\ \A q \in DOMAIN p.plots : p.plots[q] \subseteq p.nab
  /\ p.schedules \in Seq(Schedules(p)) /\ p.rules \in Seq(Rules(p)) /\ p.cardRules \in Seq(CardRules(p))

ASSUME PlotRunsAssumption ==
  /\ {Day, Horizon} \subseteq Nat \ {0} /\ {ResumeWithin, Behind, MaxTroubles} \subseteq Nat
  /\ RunTimes \subseteq Nat \cup {Never} /\ HandCards \subseteq Cards /\ WeakLines \subseteq Lines
  /\ FirstProgram \in DOMAIN Program /\ \A n \in DOMAIN Program : IsProgram(Program[n])

VARIABLES
  now, passed,    \* the tick, and whether its pass is over
  trusted,        \* the clock can be trusted
  alarm,          \* an input
  bad,            \* lines whose writes fail
  line,           \* the levels of the lines
  up,             \* the process runs
  prog,           \* the program's name
  rt,             \* what the runtime remembers between passes
  queue,          \* commands accepted and not yet applied
  disk, older,    \* the record, and the one before it
  troubles,       \* counted
  seen            \* history, for the properties

vars == <<now, passed, trusted, alarm, bad, line, up, prog, rt, queue, disk, older, troubles, seen>>

WallOf(ok) == IF ok \/ now < Behind THEN now ELSE now - Behind
Wall == WallOf(trusted)
Today == Wall \div Day

P == Program[prog]
InUse(p) == {p.line[c] : c \in p.cards} \cup p.inputs
Ids(p) == {d.id : d \in SeqRange(p.schedules)}
ScheduleOf(p, i) == CHOOSE d \in SeqRange(p.schedules) : d.id = i
RuleOf(p, i) == {r \in SeqRange(p.rules \o p.cardRules) : r.id = i}
-----------------------------------------------------------------------------
(* The runtime's state, and its record. *)

NoMemory == [ran |-> Never, missed |-> Never, end |-> Never, endWall |-> Never]
RuleFresh ==
  [since |-> Never, fired |-> FALSE, limitSince |-> Never, limitFired |-> FALSE,
   active |-> FALSE, step |-> 1, at |-> Never]
AllOff == [c \in Cards |-> FALSE]

\* level, changed: the cards' variables; copy, known, dirty: the NAB's copies of them.
Fresh ==
  [booted |-> FALSE, alarm |-> FALSE,
   level |-> AllOff, changed |-> [c \in Cards |-> Never],
   copy |-> AllOff, known |-> {}, dirty |-> {},
   written |-> [c \in Cards |-> "none"], releases |-> {},
   runs |-> <<>>, scheds |-> [i \in Sids |-> NoMemory], orphans |-> <<>>, resumes |-> <<>>,
   rules |-> [r \in RuleIds |-> RuleFresh], due |-> FALSE, told |-> <<>>]

RecordOf(s) ==
  [savedAt |-> Wall, scheds |-> [i \in Sids |-> [s.scheds[i] EXCEPT !.end = Never]]]

Tell(s, what, i) == [s EXCEPT !.told = Append(@, <<what, i>>)]

\* Sets cards in the NAB, or one card itself.  What already has the value is left as it is.
SetCopies(s, cs, on) ==
  LET new == {c \in cs : s.copy[c] # on \/ c \notin s.known}
  IN  [s EXCEPT !.copy = [c \in Cards |-> IF c \in new THEN on ELSE @[c]],
                !.known = @ \cup new, !.dirty = @ \cup new]
SetCards(s, cs, on) ==
  LET new == {c \in cs : s.level[c] # on \/ s.changed[c] = Never}
  IN  [s EXCEPT !.level = [c \in Cards |-> IF c \in new THEN on ELSE @[c]],
                !.changed = [c \in Cards |-> IF c \in new THEN now ELSE @[c]]]

\* In program p, through the NAB when it has the card.
SetTargets(s, p, cs, on) == SetCards(SetCopies(s, cs \cap p.nab, on), (cs \cap p.cards) \ p.nab, on)
-----------------------------------------------------------------------------
(* Plots, and the actions of rules and schedules. *)

RunPlot(s, q, time) ==
  [SetCopies(s, P.plots[q], TRUE) EXCEPT
     !.runs = With(@, q, IF time = Never THEN Never ELSE now + time), !.due = TRUE]

WithoutRuns(s, qs) == [s EXCEPT !.runs = [q \in DOMAIN @ \ qs |-> @[q]]]

StopPlot(s, q) ==
  LET othersOpen == \E o \in DOMAIN P.plots \ {q} : \E c \in P.plots[o] : s.copy[c]
      pump       == IF P.pump = NoCard \/ othersOpen THEN {} ELSE {P.pump}
  IN  [SetCopies(WithoutRuns(s, {q}), pump \cup P.plots[q], FALSE) EXCEPT !.due = TRUE]

DoAction(s, inCard, a) ==
  CASE a.type = "set" -> IF inCard THEN SetCards(s, {a.card}, a.on) ELSE SetCopies(s, {a.card}, a.on)
    [] a.type = "run_plot"       -> RunPlot(s, a.plot, a.time)
    [] a.type = "stop_plot"      -> StopPlot(s, a.plot)
    [] a.type = "start_sequence" ->
         [s EXCEPT !.rules[a.rule] = [@ EXCEPT !.active = TRUE, !.step = 1, !.at = Never]]

DoActions(s, inCard, as) == Folded(LAMBDA r, a : DoAction(r, inCard, a), s, as)

StopPlots(s, qs) == Folded(StopPlot, s, qs)
ExpireRuns(s) == StopPlots(s, SetToSeq({q \in DOMAIN s.runs : s.runs[q] # Never /\ now >= s.runs[q]}))
-----------------------------------------------------------------------------
(* Rules. *)

Condition(s, cond) ==
  CASE cond = "alarm"  -> s.alarm
    [] cond = "closed" -> \A q \in DOMAIN P.plots : \A c \in P.plots[q] : ~s.copy[c]

RuleWhen(s, r) ==
  LET m     == s.rules[r.id]
      since == IF m.since = Never THEN now ELSE m.since
      on  == [s EXCEPT !.rules[r.id] = [@ EXCEPT !.since = since, !.fired = TRUE]]
      off == [s EXCEPT !.rules[r.id] = [@ EXCEPT !.since = Never, !.fired = FALSE]]
  IN  CASE Condition(s, r.cond) ->
             IF m.fired \/ now - since < r.hold THEN [s EXCEPT !.rules[r.id].since = since]
             ELSE DoActions(on, FALSE, r.actions)
        [] ~Condition(s, r.cond) -> IF m.fired THEN DoActions(off, FALSE, r.orElse) ELSE off

RuleLimit(s, r) ==
  LET m     == s.rules[r.id]
      since == IF m.limitSince # Never THEN m.limitSince
               ELSE IF s.changed[r.card] # Never THEN s.changed[r.card] ELSE now
      fires == ~m.limitFired /\ now - since >= r.max
      after == [s EXCEPT !.rules[r.id] = [@ EXCEPT !.limitSince = since, !.limitFired = m.limitFired \/ fires]]
  IN  IF ~s.level[r.card] THEN [s EXCEPT !.rules[r.id] = [@ EXCEPT !.limitSince = Never, !.limitFired = FALSE]]
      ELSE IF fires THEN DoActions(after, TRUE, r.actions) ELSE after

RuleOn(s, r, events) == IF r.event \in events THEN DoActions(s, FALSE, r.actions) ELSE s

\* One step of a sequence, and all that are due.
SequenceStep(s, r) ==
  LET m == s.rules[r.id]
      at == IF m.at = Never THEN now + r.steps[m.step].delay ELSE m.at
      done == DoActions(s, FALSE, r.steps[m.step].actions)
  IN  IF ~m.active \/ m.step > Len(r.steps) THEN s
      ELSE IF now < at THEN [s EXCEPT !.rules[r.id].at = at]
      ELSE [done EXCEPT !.rules[r.id] = [@ EXCEPT !.step = done.rules[r.id].step + 1, !.at = Never]]
SequenceSteps(s, r) == Folded(LAMBDA t, x : SequenceStep(t, r), s, r.steps)
RuleSequence(s, r) ==
  LET all == SequenceSteps(s, r)
  IN  CASE ~s.rules[r.id].active -> s
        [] s.rules[r.id].active /\ Condition(s, r.abort) -> [s EXCEPT !.rules[r.id].active = FALSE]
        [] s.rules[r.id].active /\ ~Condition(s, r.abort) ->
             [all EXCEPT !.rules[r.id].active = all.rules[r.id].step <= Len(r.steps)]

EvalRule(s, r, events) ==
  CASE r.kind = "when"     -> RuleWhen(s, r)
    [] r.kind = "on"       -> RuleOn(s, r, events)
    [] r.kind = "sequence" -> RuleSequence(s, r)

EvalCards(s) == Folded(RuleLimit, s, P.cardRules)
EvalNab(s, events) == Folded(LAMBDA t, r : EvalRule(t, r, events), s, P.rules)
-----------------------------------------------------------------------------
(* Schedules. *)

\* What ends of a schedule, and does when the schedule is no longer there.
EndActions(d) ==
  IF d.ends # <<>> THEN d.ends ELSE IF d.plot # NoPlot THEN <<End(d.plot)>> ELSE <<>>
StableEnd(p, d) ==
  LET Stays(a) == a.type = "stop_plot" \/ (a.type = "set" /\ a.card \in p.nab)
  IN  Selected(EndActions(d), {a \in SeqRange(EndActions(d)) : Stays(a)})

ScheduleEnd(s, d) ==
  DoActions(Tell([s EXCEPT !.scheds[d.id] = [@ EXCEPT !.end = Never, !.endWall = Never], !.due = TRUE],
                 "ended", d.id), FALSE, EndActions(d))

ScheduleStart(s, d) ==
  LET mark == [ran |-> Today, missed |-> s.scheds[d.id].missed, end |-> now + d.dur, endWall |-> Wall + d.dur]
  IN  DoActions(Tell([s EXCEPT !.scheds[d.id] = mark, !.due = TRUE], "started", d.id), FALSE, d.actions)

RunSchedule(s, d) ==
  LET m     == s.scheds[d.id]
      start == Today * Day + d.start
      over  == m.end # Never /\ now >= m.end
      free  == ~over /\ trusted /\ m.ran # Today
  IN  CASE over -> ScheduleEnd(s, d)
        [] free /\ start <= Wall /\ Wall < start + d.win -> ScheduleStart(s, d)
        [] free /\ Wall >= start + d.win /\ m.missed # Today ->
             [s EXCEPT !.scheds[d.id].missed = Today, !.due = TRUE]
        [] OTHER -> s

EndAction(s, a) ==
  CASE a.type = "set" -> SetTargets(s, P, {a.card}, a.on)
    [] a.type = "stop_plot" ->
         IF a.plot \in DOMAIN s.runs \cap DOMAIN P.plots THEN StopPlot(s, a.plot) ELSE s
EndBy(s, as) == Folded(EndAction, s, as)
EndOrphan(s, o) == EndBy([IF o.announce THEN Tell(s, "ended", o.id) ELSE s EXCEPT !.due = TRUE], o.actions)
EndOrphans(s, os) == Folded(EndOrphan, s, os)

StartsAndEnds(s) == Folded(RunSchedule, s, P.schedules)
RunSchedules(s) ==
  LET r   == StartsAndEnds(s)
      due == {o \in SeqRange(r.orphans) : now >= o.end}
      wait == SeqRange(r.orphans) \ due
  IN  EndOrphans([r EXCEPT !.orphans = Selected(@, wait)], Selected(r.orphans, due))
-----------------------------------------------------------------------------
(* The pass. *)

Sampled(s) == [s EXCEPT !.alarm = alarm, !.told = <<>>]

Commands(p) ==
  [type : {"runPlot"}, plot : DOMAIN p.plots, time : RunTimes]
    \cup [type : {"stopPlot"}, plot : DOMAIN p.plots]
    \cup [type : {"switch"}, card : p.cards \cap HandCards, on : BOOLEAN]

\* A command for what a reload took out fails.
ApplyCommand(s, c) ==
  CASE c.type = "runPlot"  -> IF c.plot \in DOMAIN P.plots THEN RunPlot(s, c.plot, c.time) ELSE s
    [] c.type = "stopPlot" -> IF c.plot \in DOMAIN P.plots THEN StopPlot(s, c.plot) ELSE s
    [] c.type = "switch"   -> IF c.card \in P.cards THEN SetCards(s, {c.card}, c.on) ELSE s
ApplyCommands(s) == Folded(ApplyCommand, s, queue)

ApplyResume(s, x) ==
  IF x.plot \in DOMAIN P.plots
  THEN [SetCopies(s, P.plots[x.plot], TRUE) EXCEPT !.runs = With(@, x.plot, x.end)] ELSE s
ResumeAll(s, xs) == Folded(ApplyResume, s, xs)
ApplyResumes(s) == ResumeAll([s EXCEPT !.resumes = <<>>], s.resumes)

NabReads_Dirty(s) ==
  [s EXCEPT !.copy = [c \in Cards |-> IF c \in P.nab THEN s.level[c] ELSE @[c]], !.known = @ \cup P.nab]
\* A copy that was written in this pass is not read again.
NabReads(s) ==
  LET reads == P.nab \ s.dirty
  IN  [s EXCEPT !.copy = [c \in Cards |-> IF c \in reads THEN s.level[c] ELSE @[c]], !.known = @ \cup reads]
NabWrites(s) ==
  LET new == {c \in s.dirty : s.level[c] # s.copy[c]}
  IN  [s EXCEPT !.level = [c \in Cards |-> IF c \in new THEN s.copy[c] ELSE @[c]],
                !.changed = [c \in Cards |-> IF c \in new THEN now ELSE @[c]], !.dirty = {}]

BootPass(s) == [NabWrites(EvalNab(NabReads(EvalCards(s)), {"boot"})) EXCEPT !.booted = TRUE]
FullPass(s) ==
  NabWrites(ExpireRuns(EvalNab(RunSchedules(NabReads(EvalCards(ApplyResumes(ApplyCommands(s))))), {})))
Evaluated(s) == IF s.booted THEN FullPass(Sampled(s)) ELSE BootPass(Sampled(s))

\* What the pass writes: the levels that are not the last written, and the lines let go of, switched off.
Word(on) == IF on THEN "on" ELSE "off"
ToWrite(s) == {c \in P.cards : s.written[c] # Word(s.level[c])}
ToRelease(s) == {r.line : r \in s.releases} \ InUse(P)

LinesAfter(s) ==
  [l \in Lines |->
     IF l \in P.inputs THEN FALSE
     ELSE IF l \in bad THEN line[l]
     ELSE IF \E c \in ToWrite(s) : P.line[c] = l THEN \E c \in ToWrite(s) : P.line[c] = l /\ s.level[c]
     ELSE IF l \in ToRelease(s) THEN FALSE
     ELSE line[l]]

Flushed(s) ==
  LET left == {r.card : r \in s.releases} \ P.cards
      done == {c \in ToWrite(s) : P.line[c] \notin bad}
  IN  [s EXCEPT !.releases = {},
                !.written = [c \in Cards |-> IF c \in done THEN Word(s.level[c])
                                             ELSE IF c \in left THEN "none" ELSE @[c]]]
-----------------------------------------------------------------------------
(* A program takes over from another. *)

CarryValues(s, old, new) ==
  LET cards == old.cards \cap new.cards
      nab   == old.nab \cap new.nab
  IN  [s EXCEPT !.level = [c \in Cards |-> c \in cards /\ @[c]],
                !.changed = [c \in Cards |-> IF c \in cards THEN @[c] ELSE Never],
                !.copy = [c \in Cards |-> c \in nab /\ @[c]], !.known = @ \cap nab, !.dirty = {}]

\* An unchanged rule keeps its state.
CarryRules(s, old, new) ==
  [s EXCEPT !.rules = [i \in RuleIds |-> IF RuleOf(old, i) = RuleOf(new, i) THEN @[i] ELSE RuleFresh]]

OrphanOf(i, m, actions, announce) ==
  [id |-> i, end |-> m.end, ran |-> m.ran, endWall |-> m.endWall, actions |-> actions, announce |-> announce]

CarrySchedule_NotPutBack(s, d, old, new) ==
  LET m == s.scheds[d.id]
      end == StableEnd(old, ScheduleOf(old, d.id))
  IN  IF d.id \notin Ids(old) \/ m.end = Never \/ end = StableEnd(new, d) THEN s
      ELSE [s EXCEPT !.orphans = Append(@, OrphanOf(d.id, m, end, FALSE))]
\* A schedule of the new program: kept, put back before its end, or new.
CarrySchedule(s, d, old, new) ==
  LET m == s.scheds[d.id]
      putBack == {o \in SeqRange(s.orphans) : o.id = d.id /\ o.announce}
      back == Selected(s.orphans, putBack)
  IN  IF d.id \in Ids(old)
      THEN LET end == StableEnd(old, ScheduleOf(old, d.id))
           IN  IF m.end = Never \/ end = StableEnd(new, d) THEN s
               ELSE [s EXCEPT !.orphans = Append(@, OrphanOf(d.id, m, end, FALSE))]
      ELSE IF back = <<>> THEN s
      ELSE LET o == back[1]
               rest == Selected(s.orphans, SeqRange(s.orphans) \ putBack)
           IN  [s EXCEPT !.scheds[d.id] = [ran |-> o.ran, missed |-> Never, end |-> o.end, endWall |-> o.endWall],
                         !.orphans = IF o.actions = StableEnd(new, d) THEN rest
                                     ELSE Append(rest, [o EXCEPT !.announce = FALSE])]

\* One that is taken out while it runs still ends.
LeaveSchedule(s, d, old) ==
  LET m == s.scheds[d.id]
      orphan == OrphanOf(d.id, m, StableEnd(old, d), TRUE)
  IN  [s EXCEPT !.orphans = IF m.end = Never THEN @ ELSE Append(@, orphan)]

KeepSchedules(s, old, new) == Folded(LAMBDA r, d : CarrySchedule(r, d, old, new), s, new.schedules)
LeaveSchedules(s, ds, old) == Folded(LAMBDA r, d : LeaveSchedule(r, d, old), s, ds)
CarrySchedules(s, old, new) ==
  LET gone == {d \in SeqRange(old.schedules) : d.id \notin Ids(new)}
      left == LeaveSchedules(KeepSchedules(s, old, new), Selected(old.schedules, gone), old)
  IN  [left EXCEPT !.scheds = [i \in Sids |-> IF i \in Ids(new) THEN @[i] ELSE NoMemory]]

\* The run of a plot that is taken out: its valves close, and the pump stops unless others are open.
EndRemovedRun(s, q, old, new) ==
  LET held   == UNION {new.plots[o] : o \in DOMAIN s.runs \cap DOMAIN new.plots}
      valves == old.plots[q] \ held
      others == UNION {new.plots[o] : o \in DOMAIN new.plots} \ valves
      pump   == IF old.pump = NoCard \/ \E c \in others : s.level[c] THEN {} ELSE {old.pump}
  IN  SetTargets(s, new, pump \cup valves, FALSE)

EndRuns(s, qs, old, new) == Folded(LAMBDA r, q : EndRemovedRun(r, q, old, new), s, qs)
EndRemovedRuns_StillRun(s, old, new) ==
  EndRuns(s, SetToSeq(DOMAIN s.runs \ DOMAIN new.plots), old, new)
EndRemovedRuns(s, old, new) ==
  LET removed == DOMAIN s.runs \ DOMAIN new.plots
  IN  EndRuns(WithoutRuns(s, removed), SetToSeq(removed), old, new)

PlanReleases_GoneOnly(s, old, new) ==
  LET gone == {c \in old.cards \ new.cards : old.line[c] \notin InUse(new) /\ s.written[c] # "none"}
  IN  [s EXCEPT !.releases = {r \in @ : r.line \notin InUse(new)}
                               \cup {[card |-> c, line |-> old.line[c]] : c \in gone}]
\* Outputs that are gone, or on another line, are switched off; what the new program uses is left to it.
PlanReleases(s, old, new) ==
  LET off(c)   == c \notin new.cards \/ new.line[c] # old.line[c]
      used(c)  == old.line[c] \in InUse(new)
      anew     == {c \in old.cards : off(c) /\ (c \in new.cards \/ used(c))}
      planned  == {c \in old.cards : off(c) /\ ~used(c) /\ (c \in new.cards \/ s.written[c] # "none")}
  IN  [s EXCEPT !.written = [c \in Cards |-> IF c \in anew THEN "none" ELSE @[c]],
                !.releases = {r \in @ : r.line \notin InUse(new)}
                               \cup {[card |-> c, line |-> old.line[c]] : c \in planned}]

TakeOver(s, old, new) ==
  LET carried == CarrySchedules(CarryRules(CarryValues(s, old, new), old, new), old, new)
  IN  [PlanReleases(EndRemovedRuns(carried, old, new), old, new) EXCEPT !.due = TRUE, !.told = <<>>]

\* A start on the record rec, with a clock that is trusted or not: a run goes on, or is cut short.
CutShort(rec, ok, i) ==
  rec.scheds[i].endWall # Never
    /\ ~(WallOf(ok) < rec.scheds[i].endWall /\ WallOf(ok) - rec.savedAt <= ResumeWithin)
MemoryOf(rec, ok, i) ==
  LET m == rec.scheds[i]
  IN  CASE i \notin Ids(P) -> NoMemory
        [] i \in Ids(P) /\ (CutShort(rec, ok, i) \/ m.endWall = Never) -> [m EXCEPT !.endWall = Never]
        [] i \in Ids(P) /\ ~CutShort(rec, ok, i) /\ m.endWall # Never ->
             [m EXCEPT !.end = now + m.endWall - WallOf(ok)]
LoadRun(rec, ok, s, d) ==
  IF CutShort(rec, ok, d.id) THEN Tell(s, "cut", d.id)
  ELSE IF s.scheds[d.id].end = Never \/ d.plot = NoPlot THEN s
  ELSE [s EXCEPT !.resumes = Append(@, [plot |-> d.plot, end |-> s.scheds[d.id].end])]
LoadRuns(rec, ok, s) == Folded(LAMBDA r, d : LoadRun(rec, ok, r, d), s, P.schedules)
ColdLoad(rec, ok) ==
  LoadRuns(rec, ok, [Fresh EXCEPT !.scheds = [i \in Sids |-> MemoryOf(rec, ok, i)], !.due = TRUE])
-----------------------------------------------------------------------------
(* What happens. *)

Trouble(t) == t \in Troubles /\ troubles < MaxTroubles /\ troubles' = troubles + 1

\* Who closes a card that is on: a run, the end of a schedule, or that of one that was taken out.
ClosedBy(as) ==
  {a.card : a \in {x \in SeqRange(as) : x.type = "set" /\ ~x.on}}
    \cup UNION {P.plots[a.plot] : a \in {x \in SeqRange(as) : x.type = "stop_plot" /\ x.plot \in DOMAIN P.plots}}
RunningCards(s) == UNION {P.plots[q] : q \in DOMAIN s.runs}
Closers(s) ==
  RunningCards(s)
    \cup UNION {ClosedBy(EndActions(d)) : d \in {x \in SeqRange(P.schedules) : s.scheds[x.id].end # Never}}
    \cup UNION {ClosedBy(o.actions) : o \in SeqRange(s.orphans)}

\* The history after what was told: the schedules that run, with their ends, and what was told amiss.
Heard(h, t) ==
  LET i == t[2]
      again == h.open[i] # Never \/ <<i, Today>> \in h.begun
  IN  CASE t[1] = "started" ->
             [h EXCEPT !.open[i] = rt'.scheds[i].end, !.begun = @ \cup {<<i, Today>>}, !.amiss = @ \/ again]
        [] t[1] = "ended" -> [h EXCEPT !.open[i] = Never, !.amiss = @ \/ h.open[i] = Never \/ now < h.open[i]]
        [] t[1] = "cut"   -> [h EXCEPT !.open[i] = Never, !.amiss = @ \/ h.open[i] = Never]
Tells(h) == Folded(Heard, h, rt'.told)
\* A schedule that is in no program and does not run is forgotten.
KnownIds(p, s) == Ids(p) \cup {o.id : o \in {x \in SeqRange(s.orphans) : x.announce}}
Forgets(h, p, s) == [h EXCEPT !.begun = {b \in @ : b[1] \in KnownIds(p, s)}]

\* Who switches a valve answers for the pump too.
Switched ==
  LET cards == {queue[j].card : j \in {i \in DOMAIN queue : queue[i].type = "switch"}}
  IN  IF cards = {} THEN {} ELSE cards \cup ({P.pump} \cap Cards)

NotSeen ==
  [open |-> [i \in Sids |-> Never], begun |-> {}, fresh |-> FALSE, amiss |-> FALSE,
   byHand |-> {}, leaving |-> {}, lost |-> {}, reloaded |-> FALSE, late |-> 0, stale |-> FALSE]

Pass ==
  /\ up /\ ~passed
  /\ LET s == Evaluated(rt)
     IN  /\ rt' = [Flushed(s) EXCEPT !.due = @ /\ ~rt.booted]
         /\ line' = LinesAfter(s)
         /\ disk' = IF s.due /\ rt.booted THEN RecordOf(s) ELSE disk
         /\ older' = disk
         /\ seen' = Forgets([Tells(seen) EXCEPT !.fresh = s.due /\ rt.booted,
              !.byHand = {c \in @ \cup Switched : s.level[c] \/ c \in Closers(s)},
              !.lost = {l \in @ \cup (ToRelease(s) \cap bad) : LinesAfter(s)[l]},
              !.reloaded = FALSE], P, s)
  /\ passed' = rt.booted
  /\ queue' = IF rt.booted THEN <<>> ELSE queue
  /\ UNCHANGED <<now, trusted, alarm, bad, up, prog, troubles>>

Tick ==
  /\ up => passed
  /\ now < Horizon
  /\ now' = now + 1 /\ passed' = FALSE
  /\ seen' = [seen EXCEPT !.leaving = {}]
  /\ UNCHANGED <<trusted, alarm, bad, line, up, prog, rt, queue, disk, older, troubles>>

Command(c) ==
  /\ up /\ ~passed /\ queue = <<>>
  /\ Trouble(c.type)
  /\ queue' = <<c>>
  /\ UNCHANGED <<now, passed, trusted, alarm, bad, line, up, prog, rt, disk, older, seen>>

\* Lines the new program does not use and this process has not written: a take-over leaves them as they are.
NotDriven(new) ==
  {l \in InUse(P) \ InUse(new) : \A c \in P.cards : P.line[c] = l => rt.written[c] = "none"}

\* The valves of the runs of plots that are not in the new program.
LeavingValves(new) == UNION {P.plots[q] : q \in DOMAIN rt.runs \ DOMAIN new.plots}

\* Between two passes.
Reload(n) ==
  /\ up /\ ~passed /\ n # prog /\ (seen.reloaded => ReloadsMeet)
  /\ Trouble("reload")
  /\ rt' = TakeOver(rt, P, Program[n])
  /\ prog' = n
  /\ seen' = Forgets([seen EXCEPT !.reloaded = TRUE, !.leaving = @ \cup LeavingValves(Program[n]),
                                !.lost = @ \cup NotDriven(Program[n])],
                     Program[n], TakeOver(rt, P, Program[n]))
  /\ UNCHANGED <<now, passed, trusted, alarm, bad, line, up, queue, disk, older>>

AlarmChange ==
  /\ ~passed
  /\ alarm' = ~alarm
  /\ IF alarm THEN UNCHANGED troubles ELSE Trouble("alarm")
  /\ UNCHANGED <<now, passed, trusted, bad, line, up, prog, rt, queue, disk, older, seen>>

WritesFail(l) ==
  /\ ~passed
  /\ bad' = IF l \in bad THEN bad \ {l} ELSE bad \cup {l}
  /\ IF l \in bad THEN UNCHANGED troubles ELSE Trouble("bad")
  /\ UNCHANGED <<now, passed, trusted, alarm, line, up, prog, rt, queue, disk, older, seen>>

ClockTrusted ==
  /\ up /\ ~passed /\ ~trusted
  /\ trusted' = TRUE
  /\ UNCHANGED <<now, passed, alarm, bad, line, up, prog, rt, queue, disk, older, troubles, seen>>

\* What is of no account to the next process.
Unread(h) == [h EXCEPT !.byHand = {}, !.leaving = {}, !.fresh = FALSE, !.reloaded = FALSE]

\* What a process remembers ends with it.
Ends == up /\ up' = FALSE /\ passed' = FALSE /\ trusted' = FALSE /\ rt' = Fresh /\ queue' = <<>> /\ older' = disk'

\* A clean stop lets go of what is due, switches every output off and writes the record.
Stop ==
  /\ Trouble("stop")
  /\ line' = [l \in Lines |-> line[l] /\ (l \in bad \/ l \notin {P.line[c] : c \in P.cards} \cup ToRelease(rt))]
  /\ disk' = RecordOf(rt)
  /\ Ends
  /\ seen' = [Unread(seen) EXCEPT !.lost = {l \in @ \cup ToRelease(rt) : line'[l]}]
  /\ UNCHANGED <<now, alarm, bad, prog>>

\* A killed process may lose the record of its last pass; its lines stay as they are, or fall off.
Kill ==
  /\ Trouble("kill")
  /\ line' \in {line, [x \in Lines |-> FALSE]}
  /\ disk' \in {disk} \cup (IF seen.fresh THEN {older} ELSE {})
  /\ Ends
  /\ seen' = [Unread(seen) EXCEPT !.lost = {l \in @ \cup ToRelease(rt) : line'[l]}, !.stale = rt.due \/ disk' # disk]
  /\ UNCHANGED <<now, alarm, bad, prog>>

\* What the record says is taken for what happened; the ends of schedules that were taken out are not in it.
OpenAgain(i) ==
  CASE i \notin Ids(P) -> Never
    [] i \in Ids(P) /\ seen.stale -> disk.scheds[i].endWall
    [] i \in Ids(P) /\ ~seen.stale -> seen.open[i]
BegunAgain == {b \in seen.begun : b[1] \in Ids(P) /\ (seen.stale => disk.scheds[b[1]].ran = b[2])}

Restart ==
  /\ ~up
  /\ up' = TRUE /\ passed' = FALSE /\ queue' = <<>>
  /\ trusted' \in BOOLEAN
  /\ rt' = ColdLoad(disk, trusted')
  /\ seen' = [Tells([seen EXCEPT !.open = [i \in Sids |-> OpenAgain(i)]]) EXCEPT
                !.late = IF trusted' THEN @ ELSE @ + Behind, !.begun = BegunAgain, !.stale = FALSE]
  /\ UNCHANGED <<now, alarm, bad, line, prog, disk, older, troubles>>

Init ==
  /\ now = 0 /\ passed = FALSE /\ trusted = TRUE /\ alarm = FALSE /\ bad = {} /\ line = [l \in Lines |-> FALSE]
  /\ up = TRUE /\ prog = FirstProgram /\ rt = Fresh /\ queue = <<>>
  /\ disk = RecordOf(Fresh) /\ older = RecordOf(Fresh) /\ troubles = 0 /\ seen = NotSeen

Next ==
  \/ Pass \/ Tick \/ AlarmChange \/ ClockTrusted
  \/ \E c \in Commands(P) : Command(c)
  \/ \E n \in DOMAIN Program : Reload(n)
  \/ \E l \in WeakLines : WritesFail(l)
  \/ Stop \/ Kill \/ Restart

Spec == Init /\ [][Next]_vars
-----------------------------------------------------------------------------
(* Properties. *)

\* Schedules have ids of their own, and a run takes time and is over before the next day's start, whichever program
\* has its schedule by then.
SchedulesApart ==
  /\ \A n \in DOMAIN Program : \A j, k \in DOMAIN Program[n].schedules :
       Program[n].schedules[j].id = Program[n].schedules[k].id => j = k
  /\ \A n, m \in DOMAIN Program : \A d \in SeqRange(Program[n].schedules), e \in SeqRange(Program[m].schedules) :
       d.dur > 0 /\ (d.id = e.id => d.start + d.win + d.dur + Behind <= Day + e.start + 1)

Memories == [ran : Nat \cup {Never}, missed : Nat \cup {Never}, end : Nat \cup {Never}, endWall : Nat \cup {Never}]

\* Types, and: a run is of a plot of the program, a release of a line that is not in use, and a schedule that
\* is not in the program remembers nothing.
TypeOK ==
  /\ now \in 0 .. Horizon /\ {passed, trusted, alarm, up} \subseteq BOOLEAN
  /\ bad \subseteq Lines /\ line \in [Lines -> BOOLEAN] /\ prog \in DOMAIN Program
  /\ troubles \in 0 .. MaxTroubles
  /\ rt.level \in [Cards -> BOOLEAN] /\ rt.copy \in [Cards -> BOOLEAN] /\ rt.dirty \subseteq rt.known
  /\ rt.written \in [Cards -> {"none", "on", "off"}] /\ rt.scheds \in [Sids -> Memories]
  /\ DOMAIN rt.runs \subseteq DOMAIN P.plots
  /\ \A r \in rt.releases : r.line \notin InUse(P)
  /\ \A i \in Sids \ Ids(P) : rt.scheds[i] = NoMemory

Settled == up /\ passed

Valves == UNION {P.plots[q] : q \in DOMAIN P.plots}

\* A valve that is on has something that will close it, or was switched on by hand; a run has its valves open,
\* but for those a person closed; and the pump does not run with all valves closed, unless by hand.
ValvesFollowRuns ==
  Settled =>
    /\ \A c \in P.cards \ {P.pump} : rt.level[c] => c \in Closers(rt) \cup seen.byHand
    /\ \A c \in RunningCards(rt) : rt.level[c] \/ c \in seen.byHand
    /\ P.pump # NoCard /\ rt.level[P.pump] =>
         (\E c \in Valves : rt.level[c]) \/ seen.byHand # {}

\* The valves of a plot that was taken out while it ran are closed in the next pass, "a plot taken out of the
\* program while it ran: the run ends, its valves close" (_end_removed_run).
RemovedRunsClose ==
  Settled => \A c \in seen.leaving : rt.level[c] => c \in Closers(rt) \cup seen.byHand

\* A schedule that started ends once, at its time and told, whatever programs are loaded in between, and does not
\* start again that day; a restart goes on with it to its end, or tells that it was cut short.
EndsOf(i) ==
  {o.end : o \in {x \in SeqRange(rt.orphans) : x.id = i /\ x.announce}}
    \cup ({rt.scheds[i].end} \ {Never})
RunsEndAsStarted ==
  /\ ~seen.amiss
  /\ up => \A i \in Sids :
       IF seen.open[i] = Never THEN EndsOf(i) = {}
       ELSE \E e \in EndsOf(i) : /\ EndsOf(i) = {e}
                                 /\ e \in seen.open[i] .. seen.open[i] + seen.late
                                 /\ Settled => now < e

\* A line is on when the card on it is, and off when no card is: whatever programs took over from one another,
\* whatever was moved, dropped, put back or read as an input, but for a line whose release failed or was lost, and
\* for one the process never wrote before its card was taken out.
LinesFollowCards ==
  Settled => \A l \in Lines \ (P.inputs \cup bad \cup seen.lost) :
               line[l] = \E c \in P.cards : P.line[c] = l /\ rt.level[c]

=============================================================================
