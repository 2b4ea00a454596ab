# Verification of the Agal One node agent

The agent (`src/agal_one_agent/`) runs on a small board beside a farm's pumps and
valves. It runs a program the cloud compiles ("bundle"), reads inputs, drives outputs,
carries out signed commands, reports what happened, and updates itself. This directory
holds TLA+ models of its parts, checked with TLC, and theorems about them, checked with
TLAPS. `PROJECT.json` maps each definition to the source lines it stands for.

## 1. Inventory

| part (source) | state it keeps | operations | what is hard | what makes it correct |
|---|---|---|---|---|
| RuntimeV3 (`blocks/v3/runtime.py`) | program, runs, pending commands, state file | start, stop, pass, sample, command, reload, take-over | pass, sampler, commands and the state writer in turn behind one lock; restarts | a run ends, resumes or is cut short, never lost; no output left on |
| latching valve (`v3/valve.py`) | position, FAULT, pulse mark, coils | pulse, reset, close before a stop | a crash, a write that fails, or a supply that drops at any step of a pulse | the position vouched for is true; never both coils |
| E-stop, power, motor guard (`v3/safety.py`, `v3/guard.py`) | latch, wait, trip, lockout | update per pass, load, record | restarts, unreliable clock, contacts that cannot be read | no motor starts while latched, locked out or without power |
| program compiler (`v3/program.py`), expressions (`blocks/expr.py`) | none | build, evaluate | none: pure | refuses what it cannot run |
| ProgramHost (`blocks/host.py`), ProgramSync (`blocks/sync.py`) | active runtime, held bundle, switch in progress, program.json | compile, switch, start, stop, pull | six kinds of threads; the lock let go of between steps | one runtime at a time; nothing left behind; what is stored runs |
| BlockRuntime, language 1 (`blocks/runtime.py`) | cards and their lines, the NAB's copies, plot and schedule runs, orphans, releases, state file | pass, command, take-over, stop, load | a take-over between two passes, failing writes, restarts, a record that is lost | what was opened is closed; a schedule ends once and as started; a line follows its card |
| CloudSink (`blocks/cloud.py`) | outbox, pending snapshots | submit, post, flush | two workers, budgets, refusals | order, bounded, the latest value arrives, a flush that says so has sent all |
| command gate (`command_signing.py`) | ids seen, journal, snapshot | admit, compact, load | crashes between write and execution, full set, failing writes | a command is carried out once at most |
| command acks (`command_acks.py`) | queue, post in flight | submit, post, settle, close | retries, superseding, a full queue | acks of a command in order; final ones settle |
| OTA (`ota_updater.py`, `systemd/`) | state file, files on the card | prepare, install, probation, confirm, undo, rollback | two processes, power cuts anywhere, deadlines on a wall clock | an update that is over left one whole, confirmed version running |
| node events (`node_events.py`) | queue | submit, post, close | retries for 24 h, budget, cap | in order; an alarm is not dropped for less; each one posted or given up |
| telemetry (`telemetry_buffer.py`, `_uploader.py`, `_publisher.py`) | SQLite ring | append, fetch, mark sent, prune | caps during an upload, lost answers, kills, power losses | nothing dropped unsent without a report; twice only when it could not be known |
| network care (`net_care.py`) | silences, findings, the adapter's power saving | answered, no answer, sample, probe, check | threads that hand over what they found for an old silence, an adapter that changes | a gap's cause is its own; what the heartbeat says of the adapter is of that adapter |
| server time, clock care (`server_time.py`, `clock_care.py`) | anchor, offset samples | note, now, offset, read | a wall clock that steps, answers read out of order | the backend's time, whatever the wall clock does; an offset of one clock only |
| heartbeat (`heartbeat.py`) | timer, flag | beat, nudge, pause, resume, stop | timers that replace one another, a beat on its way at a stop | the chain of beats does not break; offline is said last |
| port links (`ports/links.py`), port tools (`ports/`) | who drives a port | link, check | links changed while used | one writer per output |
| legacy protection (`sensors/protection.py`) | window, cut, baseline | sample, learn, start and stop told | a command's thread and the monitor's around one relay | a pump that runs dry is cut off, by a window of one run |
| LoRa (`lora_listener.py`, `lora_bridge.py`) | last sequence numbers, pairing window | frame, pair | lost, repeated, reordered frames | a frame counted once |
| live cadence, boot reconciler, executor, handlers, sensors, bench, simulator, config | little or none | | | |

How they meet: `main.py` starts everything and checks the runtime once a second. MQTT
delivers commands: `CommandGate.admit`, then `execute_command`, then the host's
`apply_command`, answered through `CommandAcks`. A `syncProgram` poke makes `ProgramSync`
pull a bundle into the host. A pass of the runtime hands events, snapshots and acks to
queues with a thread each, and its record to the state file's writer: no pass waits for
the network, and only a pulse, a reset, a cold start and a clean stop wait for the disk.
An update installs a version and asks systemd for a restart; a timer of its own, a second
process, rolls it back when it does not confirm itself.

`PROJECT.json` lists the hazards line by line with the properties that cover them.

## 2. Plan

Done, in this order: LatchingValve, MotorSafety, CommandReplay, CommandAcks, OtaUpdate,
ProgramHost, ScheduleRuns, PlotRuns; then the services: NodeEvents, TelemetryStore,
ProgramReports, CardValues, ServerClock, LinkGaps, WifiCare, Heartbeats, DryRunGuard.

Next, by weight:

1. Theorems about the runs: ScheduleRuns' types and NeverTooMuch, with the fold lemmas that
   PlotRuns' proofs have (section 5), then what relates runs and valves in both.
2. Rules, sequences and interlocks of a bundle-v3 program, with the E-stop and the motors,
   composed with ScheduleRuns' passes, and what a take-over of a bundle-v3 program does to
   each line (PlotRuns has it for language 1).
3. Port links, LoRa's counters and pairing, the live cadence.

## 3. The modules

Every module keeps the control of its source (guards, order, early returns, failures) and
reduces data to what its properties tell apart. Constants that say "may" turn a failure on
or off; section 4 says which ones no passing run turns on, and what TLC then finds. A
definition named like another with an underscore and a word more (`ReadSupply_Stale`) is a
mutant: the plausible bug that the property `PROJECT.json` pairs it with must find.

### LatchingValve, VouchedValve

One latching valve: the two coil lines, the valve's true position, the relay supply, the
state file with its writer, the driver's fields, and a program counter for the thread that
carries out a pass or a stop, so that a crash can fall between any two writes. A pulse is:
other coil off, mark on disk, line on, line off, supply read, position and mark on disk.
`VouchedValve` is what the driver promises: it may vouch for a position, stop vouching at
any time, and vouch again only for the position the valve then has; `VouchedValveSpec`
checks the refinement.

Abstractions: the writer keeps one record, the newest handed over (as the code's slot). The
record at the end of a pass may or may not be due. A supply that drops during a pulse is
not back before it is read after it. A process that dies releases its lines or leaves them
as they were; with `UnmarkedKept` false, a coil is left on only while its pulse's mark is
on disk, which is what a death in a pulse gives. A coil left on unmarked takes a failure more:
a write off that failed and a death after the pass recorded the end of the pulse
(`blocks/v3/runtime.py:1985-1990`), or a second death before the boot pass has written that
coil off. Those are the cases `UnmarkedKept` adds. Fairness:
the thread and the writer go on (weak), a process that died is started again (systemd's
`Restart=always`), and a coil that is written off again and again is off in the end
(strong, `SwitchesOff`): a write that fails for ever would leave any driver helpless.

### MotorSafety

One motor under an E-stop, a power sense and a guard, the run that wants it on, and the
state file. A pass is one step, as it holds the lock; the sampler, the writer, the stop,
crashes, reboots, the panel and the mains interleave with it. Time is counted in passes: the
lockout and the wait are small bounds, and `cool`, `dark` and `owed` watch, independently of
the node, what is still owed since the last trip, cut and press.

The contacts of the button, the reset and the mains may be unreadable (`Unreadable`), the
clock right, right and not known to be, or behind (`Clocks`), a write to the motor may fail,
a record handed over dies with the process, and a press may fall between two passes. What the
code then does not keep is in the histories, so that `StartsAllowed` asks for all the rest:
`owed` is a press that a pass read (a press no pass read is none), until the reset is pressed at
the panel, or until a held reset could not be read and is read again, which the code takes for
pressed; `fresh` says whose record is still with the writer, and a death lets go of those; a
trip whose end was written on a clock that was behind the one of the next start is let go of
(`EndForgotten`), while one met on a clock that is behind is waited out in full. Debounce, and a
state file that cannot be read, are not modelled; the motor's safe state is off. Fairness is
weak: the process is started again, passes, the writer and time go on. Liveness has a run
of its own, with contacts that can be read and a motor that can be written: with them failing
for ever nothing resumes, and `RunResumes` asks only for what mains and a trusted clock allow.

### CommandReplay

The replay store of the command gate: ids in memory, snapshot, journal with lines that may
be torn or fail, compaction, the floor below which ids are refused, crashes between any two
writes. The trusted time at which a command is judged is any of `Times`, so no run depends
on a clock. A snapshot that cannot be read (set aside as `.corrupt`) is not modelled.

### CommandAcks

The queue of acks with its one worker. A countdown stands for each deadline; tries saturate
at `Tries`; a post that failed or was not answered may have arrived. Acks of a command come
in the order the executor makes them. The queue is lost with the process. Fairness: the
worker looks and settles (`Worker`, weak: it is one thread, which always does one or the
other), time passes, a stop ends; `FinalSettles` says that again and again either all final
acks are settled or the process has closed the queue. `MCCommands` holds both ends of a command,
the gate and the acks: they share no state, so one of them moves in a behaviour (`turn`).

### OtaUpdate

The state file, the files on the card (whole, or a mixture that does not start), the version
in memory, pip, the undo, the verify timer's rollback, and the boots. Time is counted in units,
of 150 s in the instance: how many are left to the deadline in the state file, and how many the
thread has `spent` since it last wrote it. The code bounds a pip by `PIP_TIMEOUT_S` and looks at
the outputs every 10 s; an undo has no bound (two checks, a download and a pip of its own), so
any number of deadlines passes under it. `MaxCuts` bounds power cuts, ends of a process (the
agent's or the timer's), a clock set forward under an install, and malformed commands in doubt;
each may come at any step. `crossed` is history: the first of five things the update does not
provide for (`Crossings`): an undo that outlasted its deadline, the clock set over it, a
malformed command, the end of a process that ran on after its undo failed, the timer's process
killed in a rollback. The properties name which of them they except, and hold through everything
else. Assumed: a queued restart comes before another download or a passed deadline; a probation
thread that ended is gone before the next update; systemctl accepts a restart. An undo may fail,
again and again. Fairness: starting, pip, the undo, deadlines and the timer are weakly fair;
connecting and a rollback that succeeds strongly so: they are tried for ever.

### ProgramHost

Both runtimes behind one lock, the pull, the language-switch thread, main and the process.
One action is one hold of the lock. Programs are a language and a version; every language-3
program has an E-stop, which persists (its loss is MotorSafety's subject). Compiling refuses
by choice. Joins do not time out, waits for the lock are unbounded, program.json is written.
A pull checks for runs in one hold of the lock and switches in another: runs, commands, passes,
stops and switches of others may come between. A switch may begin while main stops the host, and
a program the pull has stored may fail to take over. What the code gives up there is in
histories: `late`, a runtime that got work, or had a pass under way, in that gap; `passing`, a
pass under way at a pull's own switch; `inStop`, a switch begun in the stop; `failed`, the stored
program whose take-over failed. Fairness: threads, pull and main go on (weak); a pass with
nothing in progress and no latch comes again and again, and neither commands nor pulls keep step
with the checks made once a second (strong).

### ScheduleRuns

The runs of a bundle-v3 program's schedules. `Pass` is a whole pass of the runtime: each
step of `_step` is an operator from the state (`rt`, the `_State` and the outputs' levels)
to the state after it, composed in the code's order by `PassResult`; `Reload`, `Stop`,
`Kill` and `Restart` are a program load, the two ends of a process and its start from the
record on disk. A killed process may lose the record its last pass handed over. Time is in
ticks of about a minute: a pass in every tick, and what happens in a tick comes before its
pass. Only schedules write the outputs, which are valves, open them at the start and close
the same ones at the end; every schedule is enabled, every day. Left out: rules, motors, the
E-stop, a handover of "now", a pause's `then`, days and sun times. `seen` is history only:
how long a run ran, which starts were made, which runs a reload or midnight gave another
time, and where the code leaves valves and runs apart: a valve closed under its run by a part not
in force that holds, by the timer of a switch by hand or by the late end of another run (`under`),
one that a switch of parts leaves open for a schedule that has not run yet (`handed`), one that a
person opened (`direct`). `ValvesFollowRuns` names these and holds of all else; each was taken out
in turn, and TLC found it needed. `EndsAreTold` asks nothing of a run that another plan took over,
of one whose schedule the program no longer has (its end is an orphaned one), nor of one resumed
later than planned whose process ended then: the time left is counted from the planned end
(`v3/runtime.py:458`), so the restart takes the delay off it with nothing told (`late`).

### PlotRuns

The language-1 runtime. A pass is one action, composed of operators from the runtime's state
to its state after each step of `step`, in the code's order: commands, resumed runs, rules of
the cards, the NAB's reads, schedules and orphaned ends, rules of the NAB, expiring runs, the
NAB's writes, the lines. `Reload` is a take-over: values, rule states and schedules carried
over, runs of plots that are gone ended, outputs that are gone or moved let go of by the next
pass. `Stop`, `Kill` and `Start` go through the record on disk; a kill may lose the last one.
A clock that is not trusted is behind by `Behind`. The instance has three programs, so that a
reload takes out a plot that runs, moves a card to another line, makes a line an input, and
brings all of it back; rules of each kind of the code; two schedules over a midnight; a hand
that switches a valve and a line whose writes fail for a while.

`seen` is history: which schedules were told to run, with which end, the plots that left
while they ran, who switched a valve by hand, releases that were lost. The properties leave
out what the code does not promise there: a release whose write failed is not tried again,
one pending at a kill is forgotten, and a line this process has not written is left as it is
when its card is taken out, "this agent never drove it" (`blocks/runtime.py:605`; all three are
in `seen.lost`); a run resumed on a clock that was behind
may end that much later (`seen.late`). Facts read off the model, none a broken promise of the
code: a schedule taken out and put back on the same day, within its window and after its end,
runs again; the ends of orphans are not in the record; a run of a command is recorded and not
resumed; a stop accepted between the boot pass and a resume is overridden by it; a run cut
short is told again when the process is killed before its next record; two plots that share
a valve keep the pump on for one another when one is stopped.

### The services

Nine threads or queues beside the program, each a module of its own with an `Init`, a `Next`
and its properties. They share no state, so `MCServices` lets one of them move in a behaviour
(`turn`) and checks each as it would be checked alone.

* `NodeEvents`: the queue of events, the event in flight, the hourly budget, the deadline.
  A post may arrive and not be answered. An event's id is its place among those raised.
* `TelemetryStore`: the table, its two caps and its retention, the uploader's batch, its
  answer, and the marks. Rows and the batch are sets, and the code's orders a row's rank in
  them (`GoesBefore` for what is dropped, `FetchedBefore` for what is sent). Any post or answer
  may be lost, the process killed between two steps, and a power loss may take what was committed since the last checkpoint. An append or a mark may
  fail, or be committed and its prune not (`SampleNotPruned`, as often as `MaxUnpruned`;
  `MarkFails`): rows that were answered for are then sent again, which `TwiceUnmarked` allows and
  nothing else. `SQLite`'s own steps are atomic. The byte cap is counted in rows (`FileRows`), the
  file does not shrink, and in the run it is passed too.
* `ProgramReports`: the outbox of acks and alerts, and the last ack that the heartbeat carries.
* `CardValues`: snapshots of card values and output levels, merged while a post is on its way.
* `ServerClock`: the anchor of the backend's time, the offset's samples, the clock block. Half
  seconds are the unit; a step of the wall clock is more than `STEP_MS`, a slew one unit. The
  offset is the median of the samples, found by counting (`Kth`).
* `LinkGaps`: silences, the link's samples, the probe rounds, and the cause of a gap.
  `drops` is the carrier's own count, which a sample may or may not have.
* `WifiCare`: the adapter, its power saving, and the network block of a heartbeat.
* `Heartbeats`: the beat, the timer, and who replaces it. A heartbeat that was on its way when
  a stop came may say online after offline (`crossed`): its post is under no lock.
* `DryRunGuard`: the protection of a pump without a program, one dry-run window against the
  relay's commands. The relay is written before the monitor is told, on a thread of its own:
  a first reading of a window may be from before the start, a start that crosses a cut leaves
  `cutoff_active` set with the pump on (`startCrossed`), and a stop does not end a learning
  window, so that a baseline may be learned from a pump that is off.

Fairness of the services: threads run and requests end (`ThreadsWork`, weak), deadlines,
budgets and intervals pass (`TimePasses`, weak), and what is tried for ever succeeds at last
(`TriesSucceed`, strong: a batch, a snapshot, the relay's write; no connection that is never
made again, no line that never switches). The pump's monitor is read and its seconds counted
again and again (strong), as its loop does neither in a fixed order with the commands.

## 4. The runs

The passing runs, with their bounds:

| run | bounds | shows |
|---|---|---|
| `valve` | two resets; failing coil and disk writes; deaths anywhere, lines kept | the position vouched for is true, coils never together, pulses only when allowed, every accepted reset answered, no coil left on by a process that lives, the refinement of `VouchedValve` |
| `motor` | one death; contacts of button, reset and mains that fail, a motor line that fails, lost records, a clock right or behind until NTP | every start is allowed by latch, lockout and power, across a restart too; a motor that could not be switched off is not forgotten |
| `motor_live` | one death, a clock unproven until NTP | an interrupted run resumes or ends |
| `commands` | the gate: four commands, a set of two, a window of two, failing writes; the acks: two commands of three acks, a queue of two, two tries; one of the two moves in a behaviour | never twice, refused while up, fresh ones not stale; order and superseding; given up late only; final acks settle |
| `ota` | two releases after the first version, units of 150 s, any two cuts (a power cut, a killed process, a clock set forward, a malformed command), failing undos of any length | an update that is over left one whole version that is the one recorded and running; no rollback under an install; rollbacks finish; no update stays in doubt |
| `host` | three programs, kills, switches at any moment | one runtime at a time, starts alone, nothing left behind or running after a stop but where named, the latch stays over a switch, what is stored runs and what is loaded gets to run |
| `runs` | one field, two schedules over a midnight, three programs that hand valves on, three valves, seven ticks, any two troubles, two ticks of outage | the valves follow the runs both ways but where named, a start is made once, no run outlives its window or gets more than its time, one cut short is told |
| `plots` | two plots, two schedules over a midnight, three programs, four lines, four ticks, any three troubles | a valve that is on has something that closes it and a run has its valves, a schedule ends once and as it started, a line follows its card through take-overs |
| `services` | three events, readings and changes, four reports, queues of two, one kill or power loss, two silences, one drop of the Wi-Fi, two adapters, three pauses, three pump commands | see `MCServices`: what the node sends is in order and complete, what it takes for true is, no step drops the more important, everything leaves the node at last |

The bounds are the smallest with the interesting cases: two of what can race (resets, acks
of one command), a set smaller than the commands sent, one more program or release than a
switch needs (a hold replaced by another), and a death before and after every write.
In `runs` and `plots` a day has four ticks, so that a run crosses midnight; in `runs` the horizon
takes in the first schedule's start of the next day. The services' bounds are one more than their
caps, so that each queue is full once and something must leave it. `CHECK_DEADLOCK FALSE`
stands in `commands.cfg` and `services.cfg`, where a worker has ended once all is settled and
its queue closed, in `runs.cfg`, `runs_uneven.cfg`, `plots.cfg` and `plots_left.cfg`, where the
last tick is the end, and in `ota.cfg`, where a malformed command may leave a node nothing starts.

The runs that find a divergence, each with one finding in `PROJECT.json`:

| run | finds |
|---|---|
| `ota_malformed` | a malformed command ends a probation |
| `runs_uneven` | a part that is not in force holds for its valve in FAULT and closes what the part in force has open, whose run goes on (`v3/runtime.py:1345`); `CHANGELOG.md:590` has only the blocks that use the valve hold |
| `plots_left` | two take-overs with no pass between: the first plans to close the valves of the plot it takes out, the second carries the levels of the first and plans nothing; the valves stay open for ever |

Other constants leave a case out of the passing runs because the code does not hold the
property there. Setting one in the cfg of the run shows how:

| in | set | TLC finds violated | because |
|---|---|---|---|
| `valve.cfg` | `UnmarkedKept = TRUE` | `NeverBothCoils` | a write off that fails after a pulse and one death (`v3/runtime.py:1985`), or two deaths in a row, leave a coil on and unmarked, and the next start takes only the marked one for unknown (`v3/runtime.py:392`) |
| `commands.cfg` | `TornAppends = TRUE` | `NeverTwice` | an append joins a line that was torn when the rewrite at start failed too; no restart reads the joined line, and a command is carried out twice (`command_signing.py:454`) |
| `plots.cfg` | `ReloadsMeet = TRUE`, and in MCPlotRuns `p3` with `v1` taken out of `cards`, `nab`, `line` and `BootRule` out of `rules` | `LinesFollowCards` | two programs are loaded with no pass between: the first takes a card out that is on, the second brings it back on another line; the release that was planned finds the card in the program and leaves what was last written to it (`blocks/runtime.py:1564`), so the pass takes the new line for on already (`:1534`), and the card is on while its line stays off |
| `plots.cfg` | in MCPlotRuns `Watered("s1", 0, 5, 2, "A")` in `p1` and no `ASSUME SchedulesApart`; `Horizon = 6` | `RunsEndAsStarted` | a schedule that runs for longer than a day starts again while it runs: only the day of its last start is looked at (`blocks/runtime.py:1400`), so the first run is never told to end |

Where the code does not keep a promise in a case the runs do reach, the property excepts that case
by name, with a history variable, and holds of all else. What is excepted, and what happens there:

| property | excepts | because |
|---|---|---|
| `StartsAllowed` | a press or a trip still with the writer when the process ends (`fresh`) | the record of a latch is handed over and not waited for (`v3/runtime.py:990-996`): the next start knows nothing of it |
| | a press that no pass reads, or whose reset is held as it ends (`Unread`); a held reset that cannot be read for a pass (`lapsed`) | a reset that cannot be read counts as off, so one that is held looks newly pressed (`v3/safety.py:48`) |
| | a lockout whose end was written on a clock behind the one of the next start (`EndForgotten`) | what is left of it is counted on the wall clock (`v3/guard.py:190`) |
| `NeverUnderInstall`, `SettledGood`, `RollbackFinishes` | an undo that outlasts its deadline, a clock set over it (`Overrun`) | one grace is set before pip, and `_undo` (`ota_updater.py:1399-1406`) never renews it: the timer rolls back under the undo |
| `SettledGood`, `RollbackFinishes` | a malformed command, the end of a process that ran on after a failed undo, the timer killed in a rollback | after a failed undo and a restart the rollback does not restart the process (`ota_updater.py:1658`), and a timer killed in a rollback leaves files half put back under a state that does not say so, so that the new version may still be confirmed |
| `NothingLeftBehind` | work, or a pass under way, on the old runtime in the gap of a pull's own switch (`late`) | `compile` looks for runs in one hold of the lock and switches in the next, which looks at the latch only (`blocks/host.py:272-280`), against `_begin_switch_locked`, "at a moment with no run in progress" |
| `StopsHold` | a switch begun in the stop, of a runtime that still ran (`inStop`) | the stop lets the lock go before it stops the runtime (`blocks/host.py:466`), and the switch sees no stop come after it, against "it starts nothing after this stop" |
| | a latch in a pass under way at a pull's own switch (`passing`) | the switch looked at the latch before that pass |
| `ProgramRuns` | a stored program whose take-over fails (`failed`) | the pull finds nothing held and stores (`blocks/sync.py:126-132`) while the switch is in progress |
| `ValvesFollowRuns` | a run whose valve is closed under it (`under`): by a part not in force that holds, by the timer of a switch by hand, by the end of a run that an outage put off | `v3/runtime.py:1345`, `2382`, and `972` with `1236`: the old run's end actions are due after the new run's start in the same pass |
| | an open valve that a switch of parts hands to another schedule (`handed`) | no release is planned for what a new part writes (`v3/runtime.py:709`, `1096`): it stays open until that schedule has run |
| `EndsAreTold` | a run resumed later than planned whose process ends (`late`) | the time left is counted from the planned end (`v3/runtime.py:458`) |
| `NothingLostOrMixed` | readings sent again whose answer was lost, or whose mark failed or was lost (`unmarked`) | `mark_sent` may raise after the answer, and the drain ends with the rows unsent (`telemetry_uploader.py:86-90`, `125`) |

A property of TelemetryStore is stated and in no run, as it does not hold: `DropsWhatItMust`,
that readings not yet sent make room only for what is there. `_prune_locked` measures the
file by `page_count`, which no `DELETE` lowers (`telemetry_buffer.py:422`): once the byte cap
was passed, every prune takes another tenth of the table, sent or not, however little is left. `StoreSpec` with
`MaxReadings = 4`, `Urgent = {}`, `MaxRows = 4`, `FileRows = 2`, `BatchRows = 2`,
`MaxAged = 1`, `MaxDowns = 0` shows it; the passing properties hold nevertheless, as what is
dropped is told.

Larger instances that pass, and are too slow to keep: `plots` with `Horizon = 5`
(241,022 states) or with `inputs |-> {}` in `p3`, where a line nothing uses any more has
nobody to switch it off but the release (154,350), and `services` with `CountRead = {TRUE, FALSE}` or with
`MaxRounds = 2` (about half a million each), and `runs` with `MaxOutage = 3` (1,782,812). The largest
that are kept are `commands` (3,356,819), `runs` (958,633) and `motor` (780,130).

## 5. The proofs

Each theorem holds for every value of the constants that the named assumptions of its module
allow: any number of programs, commands, releases, readings, deaths, any caps and times. The
runs check the same formulas on instances. Where a theorem assumes that a failure stays out,
the constant is one that the passing run sets the same way, and the first table of exceptions in
section 4 shows what the code does otherwise.

| module | assumes | proves |
|---|---|---|
| `LatchingValveProofs` | nothing | `TypeOK` |
| | `UnmarkedKept = FALSE` | `NeverBothCoils`, `VouchedIsTrue`, the refinement `VouchedValveSpec` |
| `MotorSafetyProofs` | nothing | `TypeOK`, `NoForgottenMotor`, `StartsAllowed`, and its mains part alone |
| `CommandReplayProofs` | nothing | `TypeOK`, `NotAgainWhileUp`, `FreshNotStale` |
| | lines are torn or unwritable, not both | `NeverTwice` |
| `CommandAcksProofs` | nothing | `TypeOK`, `NeverOvertaken`, `GivenUpLate` |
| `OtaUpdateProofs` | nothing | `TypeOK`, `NeverUnderInstall`, `RollbackFinishes`, `SettledGood`, and `OverwrittenOnly`: what `ota_malformed` refutes fails in no other way |
| `ProgramHostProofs` | nothing | `TypeOK`, `StartsAlone`, `NothingLeftBehind`, `StopsHold`, its latch part alone, and `StoredRuns` (the safety half of `ProgramRuns`) |
| `PlotRunsProofs` | nothing | `TypeOK` |
| | `~ReloadsMeet`: a pass sees each program before the next is loaded | `LinesFollowCards` |
| | `SchedulesApart`: ids are distinct, a run takes time and is over before the schedule's next start | `RunsEndAsStarted` |
| `ServicesProofs` | nothing | `TypesOK`, `NothingLostOrMixed`, `NodeKnows`, `NoStepBack`, and each service's part of them alone |

How they go. Each needs an invariant that says more than the property:

* LatchingValve: which fields each place of the thread fixes (`Inv`), which coil may be on
  there (`CoilInv`), that the mark on disk covers a coil that is on (`MarkInv`), and that
  whatever could be vouched for, in memory, in the writer's slot or on disk, is true
  (`VouchInv`): a position in the slot becomes the one a restart vouches for.
* MotorSafety: what is still owed since the last press, trip and cut is kept by the memory
  while the process is up and, but for what `fresh` says, by the record on disk for the next one
  (`LatchInv`, `LockInv`);
  of mains nothing is written, and nothing is owed when the process is down, as it begins
  with a wait of its own (`PowerInv`). A pass is a chain of operators: each has a lemma that
  says which part of the memory it leaves and what it makes of the rest, and the proof of a
  pass goes along the chain. A start is then a pass that ends with nothing to forbid it
  (`Unforbidden`).
* CommandReplay: an id carried out is in memory or below the floor, and on disk in the
  snapshot or the journal, at every place of the thread.
* CommandAcks: of two acks that are related (of one command, or both final), the one made
  first goes first in the queue, the one in flight before all in the queue, and what arrived
  before both (`OrderInv`). `PausedLong` is what the order of final acks rests on: none in
  the queue waits longer than the queue does, so an older one is not passed over.
* OtaUpdate: while an update prepares nothing is in doubt, and while it installs the deadline
  is as far ahead as the time spent since it was set leaves of the grace (`Apart`), until an
  undo or the clock overruns it; then, by what is under way, which version runs, is
  recorded and lies on the card (`SInv`).
* ProgramHost: only the active runtime has threads, and its flag is down in a switch and
  before a start (`Alone`); a switch decided at the end of a pass begins with no run and no
  command waiting, and until its take-over no pass may make one, or the runtime is `late`
  (`LeaveInv`); a switch that began before a stop counts fewer stops than there are (`StopInv`);
  the stored bundle is what runs, what the switch in progress carries, or what failed to take
  over (`StoreInv`).
* PlotRuns: a pass, a take-over and a load are folds over the program's schedules, rules,
  actions and plots. Each fold is taken apart once (`SchedulesFold`, `RulesFold`, ...: the
  states it goes through, the first given and each a step from the one before), by an induction
  on numbers that comes from the least element of a set (`Smallest`, `Induct`), as the library's
  induction takes an operator. What every step keeps, the fold then keeps (`FoldKeeps`), and a
  pass is a chain of such folds. The types are those of all that the runtime remembers
  (`Remembered`, `Memory`, `OfProgram`), not only of what `TypeOK` names: the queues of resumes
  and of orphaned ends, and the records on disk, as a start reads them. `LinesFollowCards` is
  not inductive: a pass writes only what differs from what it last wrote, so that must be what
  is on the line (`WrittenIsThere`), also for cards that come back (`GoneForgotten`); a line
  that is not in use is off or will be let go (`UnusedOff`), and after a pass nothing is left to
  let go (`ReleasesWait`). `RunsEndAsStarted` compares a history of what was told with what is
  remembered, and the two meet only at the end of a pass (`RunsInv`). In between, each schedule
  is told of once at most (`Once`), so the history after a pass is read off the set of what was
  told, whatever the order (`HeardOf`, `TellsOnce`). A schedule of the program is known by its
  memory, one that was taken out by the single end that waits for it (`InProgram`, `TakenOut`),
  and no start is known that is later than its last; a take-over moves schedules one by one from
  the one to the other (`Carried`), so that no fold has to look at two of them. While the process
  runs, the record says the same unless something is due to be recorded (`Running`), and when it
  does not, the record is what a start may take for what happened, unless it is an old one
  (`Resting`). `SchedulesApart` is what makes a start find no earlier run (`StartsWhenOver`):
  the planned end, the start window and the clock's error stay short of the next day's start,
  in whichever program the schedule is by then. The run checks it of its programs.
* The services: a sequence of ids that only grows, with what is in hand before it and what
  arrived before both (events, acks); a beat that is due has a timer, a thread or a timer of a
  pause that is over to send it (`BeatsOrder`); the samples of a gap are in the order they were
  read, wherever the threads hold them (`SamplesInOrder`), and findings are of the silence that
  lasts (`FindingsOfNow`); a sample's offset is off by its answer's delay at most, and a wall
  clock stepped since is further off than slews go (`ClockKnown`), so that the median is of one
  clock; the newest of a value is pending, else in hand, else with the backend (`ValuesKnown`,
  `OutsKnown`); a row of a batch is the row of that reading in the table, though a power loss
  may give its seq to another (`BatchKnown`), and what arrived and is not marked was answered by
  none or waits for its mark (`ArrivalsKnown`). `OneMoves` says that a step of all is a step
  of one that leaves the others' variables, so that each part's theorem is one of the whole.

Only model-checked, and why: liveness (`NothingLeftUndone`, `RunResumes`, `FinalSettles`,
`DoubtEndsWell` but for `RollbackFinishes`, `LoadedRuns` of `ProgramRuns`, `AllSettle`), which
is out of the prover's reach; and these safety properties, for which no proof was found:

* PlotRuns' `ValvesFollowRuns`: who may close a valve is read off the program's actions and
  rules, and it holds of programs whose end actions undo their start actions, which the
  compiler of the cloud sees to and nothing in the node. The theorem needs that stated first.
* ScheduleRuns' properties: the module uses the folds of the
  community modules, whose definitions by an operator parameter the proofs cannot take apart;
  PlotRuns shows the form that can be.

## 6. Not modelled

* Parsing, compiling, the expression language, signatures and canonical JSON; the transport
  (its failures are choices); configuration; sensors, bench and simulator.
* Of a bundle-v3 program: rules, sequences, interlocks and motors in its passes, what a
  take-over does to each line, several valves or motors at once, debounce, the budget of
  refusal answers, a state file or snapshot that cannot be read. That a switch of language
  raises over a run whose start actions wait to be applied again (`v3/runtime.py:673`) is
  covered by no property.
* Of language 1: alerts and their texts, the data log, the reporting policy, `driven_levels`
  and the reasons for which a node is busy, days, sun times, expressions (a rule's condition
  is one of two), the change to and from language 3 (ProgramHost has it as a step).
* The executor and its handlers but for the relay's commands, the boot reconciler, live
  cadence, port links and tools, LoRa, and the ultrasonic level: no module yet.
