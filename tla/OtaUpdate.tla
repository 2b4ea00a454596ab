------------------------------ MODULE OtaUpdate ------------------------------
(***************************************************************************)
(* A managed update of the agent (ota_updater.py, main.py's boot).  Three  *)
(* actors share one state file and the installed files: the update's       *)
(* thread, which installs a release and restarts the node; the new         *)
(* version's own probation, which confirms it; and the verify timer, a     *)
(* process of its own, which puts the previous version back when it was    *)
(* not confirmed in time.  The node may be cut off, or its process killed, *)
(* between any two steps.                                                  *)
(*                                                                         *)
(* Versions are numbers.  Time is counted in units: how many are left to   *)
(* the deadline of the state file, and how many the thread has spent since *)
(* it last wrote it.  An install that was broken off in the middle is      *)
(* assumed not to start.                                                   *)
(***************************************************************************)
EXTENDS Naturals

CONSTANTS
  MaxVersion,         \* bound: the newest release
  MaxCuts,            \* bound: power cuts, killed processes, set clocks and malformed commands in doubt
  PipTimeout,         \* PIP_TIMEOUT_S
  VerifyDeadline,     \* VERIFY_DEADLINE_S
  ProbationDeadline   \* PROBATION_DEADLINE_S

InstallGrace == 2 * PipTimeout + VerifyDeadline

ASSUME OtaUpdateAssumption ==
  /\ MaxVersion \in Nat /\ MaxCuts \in Nat
  /\ {PipTimeout, VerifyDeadline, ProbationDeadline} \subseteq Nat \ {0}
  /\ ProbationDeadline <= InstallGrace

Versions == 0 .. MaxVersion
None == MaxVersion + 1     \* no version, and the files of a half-done install
Mixed == None

\* A release is sound; or it cannot be imported; or it starts and never connects.
Fates == {"sound", "broken", "mute"}
Phases == {"idle", "waiting", "downloading", "pending_verify", "failed", "rolled_back"}
\* A deadline that is n units ahead; one that is past; and one whose hold is over too (_rollback_hold).
Ahead(n) == n + 1
Past == 1
HoldOver == 0
Deadlines == HoldOver .. Ahead(InstallGrace)
\* The least a rollback waits before it is tried again (ROLLBACK_RETRY_S) is less than a unit.
Retry == Ahead(1)

VARIABLES
  st,       \* ota_state.json
  files,    \* the version in the venv
  fate,     \* of each release
  run,      \* the version the agent's process runs, from memory
  proc,     \* how far that process is
  asked,    \* in_probation of main
  probing,  \* the Probation thread is alive
  beat,     \* a fresh heartbeat of the target holds a rollback up
  upd,      \* where the update's thread is
  spent,    \* the time since it last kept the deadline ahead, while it installs or waits
  back,     \* the state the verify timer's rollback read, or NoRollback
  queued,   \* systemd has a restart of the agent queued
  cuts,
  good,     \* history: the last version that was confirmed
  crossed   \* history: what came first that the update does not provide for (Crossings), or "nothing"

agent == <<run, proc, asked, probing, upd, spent, queued>>
vars == <<st, files, fate, agent, beat, back, cuts, good, crossed>>

\* An undo outlasted its deadline; the clock was set forward under an install or a restart; a malformed
\* command came in doubt; the process that ran on after its undo failed ended; or the verify timer's
\* process was killed in a rollback.
Crossings == {"undo", "clock", "command", "kept", "verify"}
Crosses(what) == crossed' = IF crossed = "nothing" THEN what ELSE crossed
Cut == cuts < MaxCuts /\ cuts' = cuts + 1

Over(phase, previous, target) ==
  [phase |-> phase, previous |-> previous, target |-> target,
   deadline |-> HoldOver, tried |-> FALSE, begun |-> FALSE, kept |-> FALSE]
Pending(previous, target, deadline) ==
  [Over("pending_verify", previous, target) EXCEPT !.deadline = deadline]

\* tried: rollbackAttempts; begun: probationEpoch; kept: runningPrevious.
States == [phase : Phases, previous : Versions \cup {None}, target : Versions \cup {None},
           deadline : Deadlines, tried : BOOLEAN, begun : BOOLEAN, kept : BOOLEAN]
NoRollback == Over("idle", None, None)

InDoubt == st.phase = "pending_verify"
Held == back # NoRollback     \* the state lock is the verify timer's

TypeOK ==
  /\ st \in States /\ back \in States
  /\ files \in Versions \cup {Mixed} /\ good \in Versions
  /\ fate \in [Versions -> Fates]
  /\ run \in Versions \cup {None}
  /\ proc \in {"down", "booting", "connecting", "up"}
  /\ upd \in {"none", "waiting", "downloading", "pip", "wait", "undo"}
  /\ {asked, probing, beat, queued} \subseteq BOOLEAN
  /\ cuts \in 0 .. MaxCuts /\ spent \in 0 .. PipTimeout
  /\ crossed \in Crossings \cup {"nothing"}
  /\ (proc = "down") <=> (run = None)
  /\ proc = "down" => upd = "none" /\ ~probing /\ ~asked

Init ==
  /\ st = Over("idle", None, None) /\ back = NoRollback
  /\ files = 0 /\ good = 0
  /\ fate \in {f \in [Versions -> Fates] : f[0] = "sound"}
  /\ run = 0 /\ proc = "up" /\ upd = "none" /\ cuts = 0
  /\ asked = FALSE /\ probing = FALSE /\ beat = FALSE /\ queued = FALSE
  /\ spent = 0 /\ crossed = "nothing"

-----------------------------------------------------------------------------
(* The agent's process. *)

Ended ==
  /\ run' = None /\ proc' = "down" /\ upd' = "none" /\ spent' = 0
  /\ asked' = FALSE /\ probing' = FALSE

Start ==
  /\ proc = "down" /\ ~queued
  /\ files # Mixed /\ fate[files] # "broken"
  /\ run' = files /\ proc' = "booting"
  /\ UNCHANGED <<st, files, fate, asked, probing, upd, spent, queued, beat, back, cuts, good, crossed>>

\* settle_interrupted, then begin_probation: the deadline counts from this boot, once.
Interrupted == st.phase \in {"waiting", "downloading"}
Begins_EveryBoot == InDoubt /\ run = st.target /\ ~st.tried /\ ~Held
Begins == InDoubt /\ run = st.target /\ ~st.begun /\ ~st.tried /\ ~Held

Boot ==
  /\ proc = "booting"
  /\ st' = CASE Interrupted -> Over("failed", st.previous, st.target)
             [] Begins -> [st EXCEPT !.begun = TRUE,
                             !.deadline = IF @ > Ahead(ProbationDeadline) THEN @ ELSE Ahead(ProbationDeadline)]
             [] OTHER -> st
  /\ proc' = "connecting" /\ asked' = InDoubt
  /\ UNCHANGED <<files, fate, run, probing, upd, spent, queued, beat, back, cuts, good, crossed>>

Connect ==
  /\ proc = "connecting" /\ fate[run] = "sound"
  /\ proc' = "up"
  /\ UNCHANGED <<st, files, fate, run, asked, probing, upd, spent, queued, beat, back, cuts, good, crossed>>

NeverConnects ==
  /\ proc = "connecting" /\ Ended
  /\ UNCHANGED <<st, files, fate, queued, beat, back, cuts, good, crossed>>

\* A process that was told to stop leaves main's loop first.
StartProbation ==
  /\ proc = "up" /\ asked /\ ~queued
  /\ asked' = FALSE /\ probing' = InDoubt
  /\ UNCHANGED <<st, files, fate, run, proc, upd, spent, queued, beat, back, cuts, good, crossed>>

Tick ==
  /\ probing /\ ~beat /\ run = st.target
  /\ beat' = TRUE
  /\ UNCHANGED <<st, files, fate, agent, back, cuts, good, crossed>>

BeatGoesStale ==
  /\ beat /\ beat' = FALSE
  /\ UNCHANGED <<st, files, fate, agent, back, cuts, good, crossed>>

\* confirm_update, when a check finds the node healthy.
MayConfirm == InDoubt /\ ~Held /\ ~st.tried

Confirm ==
  /\ probing /\ MayConfirm
  /\ IF run = st.target
       THEN st' = Over("idle", st.target, st.target) /\ good' = st.target
       ELSE st' = Over("failed", run, st.target) /\ good' = good
  /\ probing' = FALSE /\ beat' = FALSE
  /\ UNCHANGED <<files, fate, run, proc, asked, upd, spent, queued, back, cuts, crossed>>

ProbationOver ==
  /\ probing /\ ~InDoubt
  /\ probing' = FALSE /\ beat' = FALSE
  /\ UNCHANGED <<st, files, fate, run, proc, asked, upd, spent, queued, back, cuts, good, crossed>>

-----------------------------------------------------------------------------
(* The update's thread. *)

Receptive == proc = "up" /\ upd = "none"

EndFailed ==
  /\ upd' = "none" /\ st' = Over("failed", st.previous, st.target)
  /\ UNCHANGED <<files, fate, run, proc, asked, probing, spent, queued, beat, back, cuts, good, crossed>>

\* A command while an update is in doubt changes nothing, unless its version is no release version
\* (None): that is looked at first, and refused.
Ignored(v) == InDoubt /\ v # None

Command(v) ==
  /\ Receptive /\ crossed = "nothing"     \* bound: no further update after such a crossing
  /\ ~Ignored(v)
  /\ LET older == files # Mixed /\ v < files
         phase == IF v = None \/ older THEN "failed" ELSE IF v = files THEN "idle" ELSE "waiting" IN
       /\ st' = Over(phase, files, v)
       /\ upd' = IF phase = "waiting" THEN "waiting" ELSE "none"
  /\ IF InDoubt THEN Cut /\ Crosses("command") ELSE UNCHANGED <<cuts, crossed>>
  /\ UNCHANGED <<files, fate, run, proc, asked, probing, spent, queued, beat, back, good>>

NotPrepared == upd \in {"waiting", "downloading"} /\ EndFailed

IdleAtLast ==
  /\ upd = "waiting"
  /\ upd' = "downloading" /\ st' = Over("downloading", st.previous, st.target)
  /\ UNCHANGED <<files, fate, run, proc, asked, probing, spent, queued, beat, back, cuts, good, crossed>>

\* What the thread writes before pip, and keep_deadline_ahead writes again, whole.
KeptAhead_DeadlineOnly == [phase |-> "pending_verify", deadline |-> Ahead(InstallGrace)]
KeptAhead_Short == Pending(st.previous, st.target, Ahead(VerifyDeadline))
KeptAhead == Pending(st.previous, st.target, Ahead(InstallGrace))

\* Download and snapshot are done.  They outlast the seconds a finished probation's thread lives,
\* and a restart that was queued.
Prepared ==
  /\ upd = "downloading" /\ files # Mixed /\ ~probing /\ ~queued
  /\ upd' = "pip" /\ st' = KeptAhead
  /\ UNCHANGED <<files, fate, run, proc, asked, probing, spent, queued, beat, back, cuts, good, crossed>>

PipStep ==
  /\ upd = "pip" /\ files # st.target
  /\ files' = IF files = Mixed THEN st.target ELSE Mixed
  /\ UNCHANGED <<st, fate, agent, beat, back, cuts, good, crossed>>

Installed ==
  /\ upd = "pip" /\ files = st.target
  /\ st' = KeptAhead /\ upd' = "wait" /\ spent' = 0
  /\ UNCHANGED <<files, fate, run, proc, asked, probing, queued, beat, back, cuts, good, crossed>>

\* Before each pip that adds a library, and at each look at the outputs while one is on.
StillBusy ==
  /\ upd = "wait" \/ (upd = "pip" /\ files = st.target)
  /\ st' = KeptAhead /\ spent' = 0
  /\ UNCHANGED <<files, fate, run, proc, asked, probing, upd, queued, beat, back, cuts, good, crossed>>

GoesWrong ==
  /\ upd \in {"pip", "wait"} /\ upd' = "undo" /\ spent' = 0
  /\ UNCHANGED <<st, files, fate, run, proc, asked, probing, queued, beat, back, cuts, good, crossed>>

Ready ==
  /\ upd = "wait"
  /\ st' = Pending(st.previous, st.target, Ahead(VerifyDeadline)) /\ beat' = FALSE
  /\ upd' = "none" /\ spent' = 0 /\ queued' = TRUE
  /\ UNCHANGED <<files, fate, run, proc, asked, probing, back, cuts, good, crossed>>

\* _go_back takes out what is installed, be it the previous version, then copies or installs that one.
GoBackStep(s) == files' = IF files = Mixed THEN s.previous ELSE Mixed

UndoStep ==
  /\ upd = "undo" /\ GoBackStep(st)
  /\ UNCHANGED <<st, fate, agent, beat, back, cuts, good, crossed>>

Undone ==
  /\ upd = "undo" /\ files = st.previous /\ EndFailed

\* _undo: no restart, the process runs the previous version from memory.
UndoFailed == [Pending(st.previous, st.target, Retry) EXCEPT !.tried = TRUE, !.kept = TRUE]

UndoFails ==
  /\ upd = "undo"
  /\ st' = UndoFailed
  /\ upd' = "none"
  /\ UNCHANGED <<files, fate, run, proc, asked, probing, spent, queued, beat, back, cuts, good, crossed>>

-----------------------------------------------------------------------------
(* The verify timer. *)

\* The rollback waits while the new version is up, but not for ever (_rollback_hold).
Due == InDoubt /\ \/ st.deadline = HoldOver
                  \/ st.deadline = Past /\ ~beat

RollBack ==
  /\ ~Held /\ Due
  /\ back' = st
  /\ UNCHANGED <<st, files, fate, agent, beat, cuts, good, crossed>>

RollBackStep ==
  /\ Held /\ GoBackStep(back)
  /\ UNCHANGED <<st, fate, agent, beat, back, cuts, good, crossed>>

NeedsRestart == ~back.kept

RolledBack ==
  /\ Held /\ files = back.previous
  /\ st' = Over("rolled_back", back.previous, back.target)
  /\ beat' = FALSE /\ back' = NoRollback
  /\ queued' = (queued \/ NeedsRestart)
  /\ UNCHANGED <<files, fate, run, proc, asked, probing, upd, spent, cuts, good, crossed>>

AttemptNoted_Retry == [back EXCEPT !.deadline = Retry]
AttemptNoted == [back EXCEPT !.tried = TRUE, !.deadline = Retry]

RollBackFails ==
  /\ Held
  /\ st' = AttemptNoted
  /\ back' = NoRollback
  /\ UNCHANGED <<files, fate, agent, beat, cuts, good, crossed>>

-----------------------------------------------------------------------------
(* Time, systemd and the power. *)

\* pip is given up after PipTimeout, the outputs are looked at sooner than a unit, and a queued restart
\* is done in less; nothing bounds an undo: two checks, a download and a pip of its own.
DeadlinePasses ==
  /\ InDoubt /\ st.deadline # HoldOver /\ ~queued
  /\ upd = "pip" => spent < PipTimeout
  /\ upd = "wait" => spent = 0
  /\ st' = [st EXCEPT !.deadline = @ - 1]
  /\ spent' = IF upd \in {"pip", "wait"} THEN spent + 1 ELSE 0
  /\ IF upd = "undo" /\ st'.deadline = Past THEN Crosses("undo") ELSE UNCHANGED crossed
  /\ UNCHANGED <<files, fate, run, proc, asked, probing, upd, queued, beat, back, cuts, good>>

\* The wall clock is set forward, by a time source that comes back.
ClockJumps ==
  /\ InDoubt /\ st.deadline > Past /\ (upd # "none" \/ queued)
  /\ \E d \in {Past, HoldOver} : st' = [st EXCEPT !.deadline = d]
  /\ Cut /\ Crosses("clock")
  /\ UNCHANGED <<files, fate, agent, beat, back, good>>

Restart ==
  /\ queued /\ queued' = FALSE /\ Ended
  /\ UNCHANGED <<st, files, fate, beat, back, cuts, good, crossed>>

EndsKept == IF InDoubt /\ st.kept THEN Crosses("kept") ELSE UNCHANGED crossed

Die ==
  /\ proc # "down" /\ Cut
  /\ Ended /\ EndsKept
  /\ UNCHANGED <<st, files, fate, queued, beat, back, good>>

PowerCut ==
  /\ Cut /\ Ended /\ EndsKept
  /\ beat' = FALSE /\ back' = NoRollback /\ queued' = FALSE
  /\ UNCHANGED <<st, files, fate, good>>

VerifyDies ==
  /\ Held /\ Cut
  /\ back' = NoRollback
  /\ Crosses("verify")
  /\ UNCHANGED <<st, files, fate, agent, beat, good>>

Next ==
  \/ Start \/ Boot \/ Connect \/ NeverConnects
  \/ StartProbation \/ Tick \/ BeatGoesStale \/ Confirm \/ ProbationOver
  \/ \E v \in Versions \cup {None} : Command(v)
  \/ NotPrepared \/ IdleAtLast \/ Prepared \/ PipStep \/ Installed \/ StillBusy
  \/ GoesWrong \/ Ready \/ UndoStep \/ Undone \/ UndoFails
  \/ RollBack \/ RollBackStep \/ RolledBack \/ RollBackFails
  \/ DeadlinePasses \/ ClockJumps \/ Restart \/ Die \/ PowerCut \/ VerifyDies

Spec == Init /\ [][Next]_vars

\* systemd starts what can start; the timer runs every minute; a node that can connect does so
\* now and then; a rollback that is tried again and again works in the end.
FairSpec ==
  /\ Spec
  /\ WF_vars(Start) /\ WF_vars(Boot) /\ SF_vars(Connect) /\ WF_vars(Restart)
  /\ WF_vars(PipStep) /\ SF_vars(Installed) /\ WF_vars(Ready) /\ WF_vars(UndoStep) /\ SF_vars(Undone)
  /\ WF_vars(DeadlinePasses) /\ WF_vars(RollBack) /\ SF_vars(RollBackStep) /\ SF_vars(RolledBack)

-----------------------------------------------------------------------------
(* What an update promises. *)

\* Once an update is over, however it ended, the version on the card is the last one that was
\* confirmed: never a half-done install, never a release nothing checks any more.
SettledWhole == ~InDoubt => files = good

\* Then the process runs that version too, as soon as the restart that was asked for is done.
SettledRuns == ~InDoubt /\ ~queued /\ run # None => run = good

\* An update that is over leaves a node whose card and process are of the version confirmed last,
\* unless something came that the update does not provide for.
SettledGood == crossed = "nothing" => SettledWhole /\ SettledRuns

\* An undo outlasted its deadline, or the clock was set over it.
Overrun == crossed \in {"undo", "clock"}

\* Comment at PIP_TIMEOUT_S: the verify timer never puts the snapshot back under a running install,
\* however slow its pips, its libraries and its wait are, unless the deadline was overrun: the code sets
\* no deadline of an undo's own, which begins with what the install has left.
NeverUnderInstall == Held /\ upd # "none" => Overrun

\* A rollback that was begun and failed may have changed files: from there the update ends
\* rolled back and no other way.
RollbackFinishes ==
  [][crossed' = "nothing" /\ InDoubt /\ st.tried /\ st'.phase # st.phase => st'.phase = "rolled_back"]_vars

\* An update in doubt is failed by its own undo or by the previous version's own check.
FailedByItself == upd = "undo" \/ (probing /\ run # st.target)

\* _perform_update: the state of an update in doubt is what the verify timer acts on, no command
\* writes over it; it is failed only by its own undo or by the previous version's own check.
NotOverwritten == [][InDoubt /\ st'.phase = "failed" => FailedByItself]_vars

\* The same with the two ways the code leaves open: a malformed command, and what follows an overrun.
OverwrittenOnly ==
  [][InDoubt /\ st'.phase = "failed" => FailedByItself \/ Command(None) \/ Overrun]_vars

\* No update stays in doubt for ever.
DoubtEnds == []<>~InDoubt

\* Every update ends, and ends rolled back once a rollback was begun, whoever was cut off in between.
DoubtEndsWell == RollbackFinishes /\ DoubtEnds
=============================================================================
