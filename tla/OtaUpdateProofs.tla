--------------------------- MODULE OtaUpdateProofs ---------------------------
(***************************************************************************)
(* Theorems of OtaUpdate, for any number of releases, cuts and units of    *)
(* time: types; no rollback under an install whose deadline was not        *)
(* overrun; what a step may do with an update in doubt; and that an update *)
(* that is over leaves the confirmed version, installed and running,       *)
(* unless one of the crossings came.                                       *)
(***************************************************************************)
EXTENDS OtaUpdate, TLAPS

\* The deadlines that are written are deadlines.
LEMMA DeadlineNumbers ==
  /\ InstallGrace \in Nat /\ {PipTimeout, VerifyDeadline, ProbationDeadline} \subseteq Nat \ {0}
  /\ InstallGrace = 2 * PipTimeout + VerifyDeadline
  /\ Deadlines = 0 .. InstallGrace + 1 /\ HoldOver = 0 /\ Past = 1 /\ Retry = 2
  /\ \A n : Ahead(n) = n + 1
  /\ {HoldOver, Past, Retry, Ahead(InstallGrace), Ahead(VerifyDeadline), Ahead(ProbationDeadline)}
       \subseteq Deadlines
  BY OtaUpdateAssumption DEF InstallGrace, Deadlines, HoldOver, Past, Retry, Ahead

\* The later of two deadlines, and the one a unit before.
LEMMA Later ==
  ASSUME NEW n \in Deadlines, NEW m \in Deadlines
  PROVE  /\ n >= n
         /\ (IF n > m THEN n ELSE m) \in Deadlines /\ (IF n > m THEN n ELSE m) >= n
         /\ n # HoldOver => n - 1 \in Deadlines
  BY DeadlineNumbers

\* Numbers and names: no version is None, and a state that is over is a state.
LEMMA Facts ==
  /\ None \notin Versions /\ 0 \in Versions /\ 0 \in 0 .. MaxCuts
  /\ NoRollback \in States /\ NoRollback.phase = "idle"
  /\ \A p \in Phases, v, t \in Versions \cup {None} :
       /\ Over(p, v, t) \in States /\ Pending(v, t, Retry) \in States
       /\ Pending(v, t, Ahead(InstallGrace)) \in States /\ Pending(v, t, Ahead(VerifyDeadline)) \in States
  <1>1. None \notin Versions /\ 0 \in Versions /\ 0 \in 0 .. MaxCuts
    BY OtaUpdateAssumption DEF None, Versions
  <1>2. ASSUME NEW p \in Phases, NEW v \in Versions \cup {None}, NEW t \in Versions \cup {None}
        PROVE  Over(p, v, t) \in States
    BY DeadlineNumbers DEF Over, States
  <1>3. "idle" \in Phases /\ "pending_verify" \in Phases
    BY DEF Phases
  <1>4. ASSUME NEW v \in Versions \cup {None}, NEW t \in Versions \cup {None}, NEW d \in Deadlines
        PROVE  Pending(v, t, d) \in States
    BY <1>2, <1>3 DEF Pending, States
  <1>5. NoRollback \in States /\ NoRollback.phase = "idle"
    BY <1>2, <1>3 DEF NoRollback, Over
  <1> QED BY <1>1, <1>2, <1>4, <1>5, DeadlineNumbers

\* Reading what was written.
LEMMA Readings ==
  /\ \A p, v, t : /\ Over(p, v, t).phase = p /\ Over(p, v, t).previous = v /\ Over(p, v, t).target = t
                  /\ Over(p, v, t).deadline = HoldOver
                  /\ Over(p, v, t).tried = FALSE /\ Over(p, v, t).begun = FALSE /\ Over(p, v, t).kept = FALSE
  /\ \A v, t, d : /\ Pending(v, t, d).phase = "pending_verify" /\ Pending(v, t, d).previous = v
                  /\ Pending(v, t, d).target = t /\ Pending(v, t, d).deadline = d
                  /\ Pending(v, t, d).tried = FALSE /\ Pending(v, t, d).begun = FALSE
                  /\ Pending(v, t, d).kept = FALSE
  BY DEF Over, Pending

\* The fields of a state are of their types.
LEMMA StateReadings ==
  ASSUME NEW s \in States
  PROVE  /\ s.phase \in Phases /\ s.previous \in Versions \cup {None} /\ s.target \in Versions \cup {None}
         /\ s.deadline \in Deadlines /\ s.tried \in BOOLEAN /\ s.begun \in BOOLEAN /\ s.kept \in BOOLEAN
  BY DEF States

\* The state after an undo that failed.
LEMMA UndoFailedFacts ==
  ASSUME st \in States
  PROVE  /\ UndoFailed \in States /\ UndoFailed.phase = "pending_verify"
         /\ UndoFailed.previous = st.previous /\ UndoFailed.target = st.target
         /\ UndoFailed.deadline = Retry /\ UndoFailed.tried = TRUE /\ UndoFailed.kept = TRUE
  <1>1. Pending(st.previous, st.target, Retry) \in States
    BY Facts, StateReadings DEF Phases
  <1>2. UndoFailed \in States
    BY <1>1 DEF UndoFailed, States
  <1>3. /\ UndoFailed.phase = "pending_verify" /\ UndoFailed.previous = st.previous
        /\ UndoFailed.target = st.target /\ UndoFailed.deadline = Retry
        /\ UndoFailed.tried = TRUE /\ UndoFailed.kept = TRUE
    <2> DEFINE p == Pending(st.previous, st.target, Retry)
    <2>1. /\ p.phase = "pending_verify" /\ p.previous = st.previous
          /\ p.target = st.target /\ p.deadline = Retry
      BY Readings
    <2>2. UndoFailed = [p EXCEPT !.tried = TRUE, !.kept = TRUE] /\ p \in States
      BY <1>1 DEF UndoFailed
    <2> HIDE DEF p
    <2>3. /\ UndoFailed.phase = p.phase /\ UndoFailed.previous = p.previous /\ UndoFailed.target = p.target
          /\ UndoFailed.deadline = p.deadline
      BY <2>2 DEF States
    <2>4. UndoFailed.tried = TRUE /\ UndoFailed.kept = TRUE
      BY <2>2 DEF States
    <2> QED BY <2>1, <2>3, <2>4
  <1> QED BY <1>2, <1>3

\* The state a rollback that failed leaves.
LEMMA NotedFacts ==
  ASSUME back \in States
  PROVE  /\ AttemptNoted \in States /\ AttemptNoted.phase = back.phase
         /\ AttemptNoted.previous = back.previous /\ AttemptNoted.target = back.target
         /\ AttemptNoted.tried = TRUE /\ AttemptNoted.kept = back.kept /\ AttemptNoted.deadline = Retry
  <1>1. AttemptNoted = [back EXCEPT !.tried = TRUE, !.deadline = Retry]
    BY DEF AttemptNoted
  <1>2. AttemptNoted \in States
    <2>1. Retry \in Deadlines
      BY DeadlineNumbers
    <2> QED BY <1>1, <2>1, Zenon DEF States
  <1>3. /\ AttemptNoted.phase = back.phase /\ AttemptNoted.previous = back.previous
        /\ AttemptNoted.target = back.target /\ AttemptNoted.kept = back.kept
    BY <1>1 DEF States
  <1>4. AttemptNoted.tried = TRUE /\ AttemptNoted.deadline = Retry
    BY <1>1 DEF States
  <1> QED BY <1>2, <1>3, <1>4

\* A step that changes no more than the deadline, and notes that the probation was begun.
Keeps ==
  /\ st' \in States /\ st'.phase = st.phase /\ st'.previous = st.previous /\ st'.target = st.target
  /\ st'.tried = st.tried /\ st'.kept = st.kept

\* A boot settles an update that was interrupted, and otherwise at most begins the probation.
LEMMA BootFacts ==
  ASSUME st \in States, Boot
  PROVE  \/ st' = Over("failed", st.previous, st.target) /\ Interrupted
         \/ Keeps /\ st'.deadline >= st.deadline /\ (st' # st => Begins)
  <1>1. CASE Interrupted
    <2>1. ~Begins
      BY <1>1 DEF Interrupted, Begins, InDoubt
    <2> QED BY <1>1, <2>1, Zenon DEF Boot
  <1>2. CASE ~Interrupted /\ Begins
    <2> DEFINE d == IF st.deadline > Ahead(ProbationDeadline) THEN st.deadline ELSE Ahead(ProbationDeadline)
    <2>1. st' = [st EXCEPT !.begun = TRUE, !.deadline = d]
      BY <1>2, Zenon DEF Boot
    <2>2. d \in Deadlines /\ d >= st.deadline
      <3>1. st.deadline \in Deadlines /\ Ahead(ProbationDeadline) \in Deadlines
        BY StateReadings, DeadlineNumbers
      <3> QED BY <3>1, Later, Zenon
    <2> HIDE DEF d
    <2>3. st' \in States
      BY <2>1, <2>2 DEF States
    <2>4. /\ st'.phase = st.phase /\ st'.previous = st.previous /\ st'.target = st.target
          /\ st'.tried = st.tried /\ st'.kept = st.kept /\ st'.deadline = d
      BY <2>1 DEF States
    <2> QED BY <1>2, <2>2, <2>3, <2>4 DEF Keeps
  <1>3. CASE ~Interrupted /\ ~Begins
    <2>1. st' = st
      BY <1>3 DEF Boot
    <2>2. st.deadline >= st.deadline
      <3>1. st.deadline \in Deadlines
        BY StateReadings
      <3> QED BY <3>1, Later, Zenon
    <2> QED BY <2>1, <2>2 DEF Keeps
  <1> QED BY <1>1, <1>2, <1>3

\* A deadline that passes is all that changes.
LEMMA DeadlineFacts ==
  ASSUME st \in States, DeadlinePasses
  PROVE  Keeps /\ st'.deadline = st.deadline - 1
  <1> DEFINE d == st.deadline - 1
  <1>1. st' = [st EXCEPT !.deadline = d]
    BY DEF DeadlinePasses
  <1>2. d \in Deadlines
    <2>1. st.deadline \in Deadlines /\ st.deadline # HoldOver
      BY StateReadings DEF DeadlinePasses
    <2> QED BY <2>1, Later, Zenon
  <1> HIDE DEF d
  <1>3. st' \in States
    BY <1>1, <1>2 DEF States
  <1>4. /\ st'.phase = st.phase /\ st'.previous = st.previous /\ st'.target = st.target
        /\ st'.tried = st.tried /\ st'.kept = st.kept /\ st'.deadline = d
    BY <1>1 DEF States
  <1> QED BY <1>3, <1>4 DEF Keeps, d

\* A clock that is set forward ends the deadline and changes nothing else.
LEMMA JumpFacts ==
  ASSUME st \in States, ClockJumps
  PROVE  Keeps
  <1>1. PICK d \in {Past, HoldOver} : st' = [st EXCEPT !.deadline = d]
    BY DEF ClockJumps
  <1>2. d \in Deadlines
    BY <1>1, DeadlineNumbers
  <1>3. st' \in States
    BY <1>1, <1>2 DEF States
  <1>4. /\ st'.phase = st.phase /\ st'.previous = st.previous /\ st'.target = st.target
        /\ st'.tried = st.tried /\ st'.kept = st.kept
    BY <1>1 DEF States
  <1> QED BY <1>3, <1>4 DEF Keeps

-----------------------------------------------------------------------------
\* What may cross an update, and in which step.
LEMMA CrossingSteps ==
  ASSUME Next
  PROVE  \/ UNCHANGED crossed
         \/ DeadlinePasses /\ upd = "undo" /\ st'.deadline = Past /\ Crosses("undo")
         \/ ClockJumps /\ Crosses("clock")
         \/ (\E v \in Versions \cup {None} : Command(v)) /\ InDoubt /\ Crosses("command")
         \/ (Die \/ PowerCut) /\ InDoubt /\ st.kept /\ Crosses("kept")
         \/ VerifyDies /\ Crosses("verify")
  <1>1. CASE \/ Start \/ Boot \/ Connect \/ NeverConnects \/ StartProbation \/ Tick \/ BeatGoesStale
             \/ Confirm \/ ProbationOver \/ NotPrepared \/ IdleAtLast \/ Prepared \/ PipStep \/ Installed
             \/ StillBusy
    BY <1>1 DEF Start, Boot, Connect, NeverConnects, StartProbation, Tick, BeatGoesStale, Confirm,
                ProbationOver, NotPrepared, EndFailed, IdleAtLast, Prepared, PipStep, Installed, StillBusy
  <1>2. CASE \/ GoesWrong \/ Ready \/ UndoStep \/ Undone \/ UndoFails \/ RollBack \/ RollBackStep
             \/ RolledBack \/ RollBackFails \/ Restart
    BY <1>2 DEF GoesWrong, Ready, UndoStep, Undone, EndFailed, UndoFails, RollBack, RollBackStep, RolledBack,
                RollBackFails, Restart
  <1>3. CASE DeadlinePasses
    BY <1>3 DEF DeadlinePasses
  <1>4. CASE ClockJumps \/ VerifyDies
    BY <1>4 DEF ClockJumps, VerifyDies
  <1>5. ASSUME NEW v \in Versions \cup {None}, Command(v)
        PROVE  UNCHANGED crossed \/ (InDoubt /\ Crosses("command"))
    BY <1>5 DEF Command
  <1>6. CASE Die \/ PowerCut
    BY <1>6 DEF Die, PowerCut, EndsKept
  <1> QED BY <1>1, <1>2, <1>3, <1>4, <1>5, <1>6 DEF Next

\* A step after which nothing has crossed the update.
LEMMA Uncrossed ==
  ASSUME Next, crossed' = "nothing"
  PROVE  /\ crossed = "nothing" /\ ~ClockJumps /\ ~VerifyDies
         /\ \A v : Command(v) => ~InDoubt
         /\ Die \/ PowerCut => ~(InDoubt /\ st.kept)
         /\ DeadlinePasses => ~(upd = "undo" /\ st'.deadline = Past)
  <1>1. \A what \in Crossings : ~Crosses(what)
    BY DEF Crosses, Crossings
  <1>2. {"undo", "clock", "command", "kept", "verify"} \subseteq Crossings
    BY DEF Crossings
  <1>3. crossed = "nothing"
    BY <1>1, <1>2, CrossingSteps
  <1>4. ~ClockJumps /\ ~VerifyDies
    BY <1>1, <1>2 DEF ClockJumps, VerifyDies
  <1>5. \A v : Command(v) => ~InDoubt
    BY <1>1, <1>2 DEF Command
  <1>6. Die \/ PowerCut => ~(InDoubt /\ st.kept)
    BY <1>1, <1>2 DEF Die, PowerCut, EndsKept
  <1>7. DeadlinePasses => ~(upd = "undo" /\ st'.deadline = Past)
    BY <1>1, <1>2 DEF DeadlinePasses
  <1> QED BY <1>3, <1>4, <1>5, <1>6, <1>7

\* An end of the process keeps the types.
LEMMA EndedTypes ==
  ASSUME TypeOK, Ended, UNCHANGED <<st, files, fate, good>>, crossed' \in Crossings \cup {"nothing"},
         back' \in States, beat' \in BOOLEAN, queued' \in BOOLEAN, cuts' \in 0 .. MaxCuts
  PROVE  TypeOK'
  <1>1. spent' \in 0 .. PipTimeout
    BY DeadlineNumbers DEF Ended
  <1> QED BY <1>1 DEF TypeOK, Ended

\* What crosses an update is one of the crossings.
LEMMA CrossedTypes ==
  ASSUME TypeOK, Next
  PROVE  crossed' \in Crossings \cup {"nothing"}
  <1>1. CASE UNCHANGED crossed
    BY <1>1 DEF TypeOK
  <1>2. ASSUME NEW what \in Crossings, Crosses(what)
        PROVE  crossed' \in Crossings \cup {"nothing"}
    BY <1>2 DEF TypeOK, Crosses
  <1>3. {"undo", "clock", "command", "kept", "verify"} \subseteq Crossings
    BY DEF Crossings
  <1> QED BY <1>1, <1>2, <1>3, CrossingSteps

\* A power cut counts as one of the bounded number of them.
LEMMA CutTypes ==
  ASSUME TypeOK, Cut
  PROVE  cuts' \in 0 .. MaxCuts
  BY OtaUpdateAssumption DEF TypeOK, Cut

\* A step of what changes the installed files.
LEMMA GoBackTypes ==
  ASSUME NEW s \in States, GoBackStep(s)
  PROVE  files' \in Versions \cup {Mixed}
  BY StateReadings DEF GoBackStep, Mixed

\* Every step keeps the types.
LEMMA NextTypes ==
  ASSUME TypeOK, Next
  PROVE  TypeOK'
  <1>0. crossed' \in Crossings \cup {"nothing"} /\ 0 \in 0 .. PipTimeout
    BY CrossedTypes, DeadlineNumbers
  <1>1. CASE Start
    BY <1>1 DEF TypeOK, Start, Mixed, agent
  <1>2. CASE Boot
    <2>1. st' \in States
      <3>1. Over("failed", st.previous, st.target) \in States
        BY Facts, StateReadings DEF TypeOK, Phases
      <3> QED BY <1>2, <3>1, BootFacts DEF TypeOK, Keeps
    <2>2. proc = "booting" /\ asked' \in BOOLEAN /\ proc' = "connecting"
      BY <1>2 DEF Boot, InDoubt
    <2> QED BY <1>2, <2>1, <2>2 DEF TypeOK, Boot
  <1>3. CASE Connect
    BY <1>3 DEF TypeOK, Connect, agent
  <1>4. CASE NeverConnects
    BY <1>4, <1>0 DEF TypeOK, NeverConnects, Ended, agent
  <1>5. CASE StartProbation
    <2>1. proc = "up" /\ asked' = FALSE /\ probing' \in BOOLEAN
      BY <1>5 DEF StartProbation, InDoubt
    <2> QED BY <1>5, <2>1 DEF TypeOK, StartProbation
  <1>6. CASE Tick
    BY <1>6 DEF TypeOK, Tick, agent
  <1>7. CASE BeatGoesStale
    BY <1>7 DEF TypeOK, BeatGoesStale, agent
  <1>8. CASE Confirm
    <2>1. proc # "down" /\ run \in Versions
      BY <1>8 DEF TypeOK, Confirm
    <2>2. st' \in States /\ good' \in Versions
      BY <1>8, <2>1, Facts, StateReadings DEF TypeOK, Confirm, Phases
    <2> QED BY <1>8, <2>1, <2>2 DEF TypeOK, Confirm
  <1>9. CASE ProbationOver
    BY <1>9 DEF TypeOK, ProbationOver, agent
  <1>10. ASSUME NEW v \in Versions \cup {None}, Command(v)
        PROVE  TypeOK'
    <2>1. PICK phase \in {"failed", "idle", "waiting"} :
             st' = Over(phase, files, v) /\ upd' \in {"waiting", "none"}
      BY <1>10 DEF Command
    <2>2. st' \in States
      BY <2>1, Facts DEF TypeOK, Mixed, Phases
    <2>3. proc = "up"
      BY <1>10 DEF Command, Receptive
    <2>4. cuts' \in 0 .. MaxCuts
      BY <1>10, CutTypes DEF TypeOK, Command
    <2> QED BY <1>10, <1>0, <2>1, <2>2, <2>3, <2>4 DEF TypeOK, Command
  <1>11. CASE NotPrepared
    BY <1>11, Facts, StateReadings DEF TypeOK, NotPrepared, EndFailed, Phases
  <1>12. CASE IdleAtLast
    BY <1>12, Facts, StateReadings DEF TypeOK, IdleAtLast, Phases
  <1>13. CASE Prepared
    BY <1>13, Facts, StateReadings DEF TypeOK, Prepared, KeptAhead, Phases
  <1>14. CASE PipStep
    <2>1. files' \in Versions \cup {Mixed}
      BY <1>14, StateReadings DEF TypeOK, PipStep, Mixed
    <2> QED BY <1>14, <2>1 DEF TypeOK, PipStep, agent
  <1>15. CASE Installed
    BY <1>15, <1>0, Facts, StateReadings DEF TypeOK, Installed, KeptAhead, Phases
  <1>16. CASE StillBusy
    BY <1>16, <1>0, Facts, StateReadings DEF TypeOK, StillBusy, KeptAhead, Phases, agent
  <1>17. CASE GoesWrong
    BY <1>17, <1>0 DEF TypeOK, GoesWrong, agent
  <1>18. CASE Ready
    BY <1>18, <1>0, Facts, StateReadings DEF TypeOK, Ready, Phases
  <1>19. CASE UndoStep
    <2>1. files' \in Versions \cup {Mixed}
      BY <1>19, GoBackTypes DEF TypeOK, UndoStep
    <2> QED BY <1>19, <2>1 DEF TypeOK, UndoStep, agent
  <1>20. CASE Undone
    BY <1>20, Facts, StateReadings DEF TypeOK, Undone, EndFailed, Phases
  <1>21. CASE UndoFails
    <2>1. st' \in States
      BY <1>21, UndoFailedFacts DEF TypeOK, UndoFails
    <2> QED BY <1>21, <2>1 DEF TypeOK, UndoFails
  <1>22. CASE RollBack
    BY <1>22 DEF TypeOK, RollBack, Due, agent
  <1>23. CASE RollBackStep
    <2>1. files' \in Versions \cup {Mixed}
      BY <1>23, GoBackTypes DEF TypeOK, RollBackStep
    <2> QED BY <1>23, <2>1 DEF TypeOK, RollBackStep, agent
  <1>24. CASE RolledBack
    BY <1>24, Facts, StateReadings DEF TypeOK, RolledBack, NeedsRestart, Phases
  <1>25. CASE RollBackFails
    <2>1. st' \in States /\ back' \in States
      BY <1>25, Facts, NotedFacts DEF TypeOK, RollBackFails
    <2> QED BY <1>25, <2>1 DEF TypeOK, RollBackFails, agent
  <1>26. CASE DeadlinePasses
    <2>1. st' \in States
      BY <1>26, DeadlineFacts DEF TypeOK, Keeps
    <2>2. spent' \in 0 .. PipTimeout
      BY <1>26, DeadlineNumbers DEF TypeOK, DeadlinePasses
    <2> QED BY <1>26, <1>0, <2>1, <2>2 DEF TypeOK, DeadlinePasses
  <1>27. CASE Restart
    BY <1>27, <1>0 DEF TypeOK, Restart, Ended, agent
  <1>28. CASE Die
    <2>1. back' \in States /\ beat' \in BOOLEAN /\ queued' \in BOOLEAN
      BY <1>28 DEF TypeOK, Die
    <2> QED BY <1>28, <2>1, <1>0, CutTypes, EndedTypes DEF Die
  <1>29. CASE PowerCut
    <2>1. back' \in States /\ beat' \in BOOLEAN /\ queued' \in BOOLEAN
      BY <1>29, Facts DEF PowerCut
    <2> QED BY <1>29, <2>1, <1>0, CutTypes, EndedTypes DEF PowerCut
  <1>30. CASE ClockJumps
    <2>1. st' \in States
      BY <1>30, JumpFacts DEF TypeOK, Keeps
    <2>2. cuts' \in 0 .. MaxCuts
      BY <1>30, CutTypes DEF ClockJumps
    <2> QED BY <1>30, <1>0, <2>1, <2>2 DEF TypeOK, ClockJumps, agent
  <1>31. CASE VerifyDies
    <2>1. cuts' \in 0 .. MaxCuts /\ back' \in States
      BY <1>31, CutTypes, Facts DEF VerifyDies
    <2> QED BY <1>31, <1>0, <2>1 DEF TypeOK, VerifyDies, agent
  <1> QED BY <1>1, <1>2, <1>3, <1>4, <1>5, <1>6, <1>7, <1>8, <1>9, <1>10, <1>11, <1>12, <1>13, <1>14, <1>15,
             <1>16, <1>17, <1>18, <1>19, <1>20, <1>21, <1>22, <1>23, <1>24, <1>25, <1>26, <1>27, <1>28,
             <1>29, <1>30, <1>31 DEF Next

\* The state, the processes and the versions are of their types, and a process that is down works on nothing.
THEOREM Types == Spec => []TypeOK
  <1>1. Init => TypeOK
    <2> SUFFICES ASSUME Init PROVE TypeOK
      OBVIOUS
    <2>1. st \in States /\ back \in States
      BY Facts DEF Init, NoRollback
    <2>2. fate \in [Versions -> Fates]
      BY DEF Init
    <2>3. 0 \in 0 .. PipTimeout
      BY DeadlineNumbers
    <2> QED BY <2>1, <2>2, <2>3, Facts DEF Init, TypeOK
  <1>2. TypeOK /\ [Next]_vars => TypeOK'
    <2> SUFFICES ASSUME TypeOK, [Next]_vars PROVE TypeOK'
      OBVIOUS
    <2>1. CASE UNCHANGED vars
      BY <2>1 DEF TypeOK, vars, agent
    <2> QED BY <2>1, NextTypes
  <1> QED BY <1>1, <1>2, PTL DEF Spec

-----------------------------------------------------------------------------
\* The steps of an update, and the phases they are taken in.
Prepares == {"waiting", "downloading"}
Installs == {"pip", "wait", "undo"}

\* The deadline of an install is ahead by what the thread has left to spend; that of an undo is not past.
Timely ==
  /\ upd \in {"pip", "wait"} => st.deadline + spent >= Ahead(InstallGrace)
  /\ upd = "wait" => spent <= 1
  /\ upd = "undo" => st.deadline > Past

\* While an update prepares, nothing is in doubt; while it installs what is in doubt, the deadline is ahead
\* and no rollback was begun; the verify timer acts on what is in doubt only.
Apart ==
  /\ upd \in Prepares => ~InDoubt
  /\ upd \in Installs /\ InDoubt => Timely /\ ~st.tried
  /\ Held => InDoubt /\ upd = "none"

\* After a crossing that is no overrun the update's thread has nothing under way.
IdleAfter == crossed \in Crossings /\ ~Overrun => upd = "none"

\* Installs and rollbacks are apart until something crosses the update.
AInv == (crossed = "nothing" => Apart) /\ IdleAfter /\ (Held => back.phase = "pending_verify")

\* No rollback is due while the deadline of an install or an undo is ahead.
LEMMA NotDue ==
  ASSUME TypeOK, upd \in Installs, Timely
  PROVE  st.deadline > Past /\ ~Due
  <1>1. st.deadline \in 0 .. InstallGrace + 1 /\ spent \in 0 .. PipTimeout
    BY StateReadings, DeadlineNumbers DEF TypeOK
  <1>2. st.deadline > Past
    BY <1>1, DeadlineNumbers DEF Timely, Installs
  <1> QED BY <1>1, <1>2, DeadlineNumbers DEF Due

\* A deadline that is only put further away stays ahead.
LEMMA LaterTimely ==
  ASSUME TypeOK, TypeOK', Timely, upd' = upd, spent' = spent, st'.deadline >= st.deadline
  PROVE  Timely'
  <1>1. {st.deadline, st'.deadline} \subseteq 0 .. InstallGrace + 1 /\ spent \in 0 .. PipTimeout
    BY StateReadings, DeadlineNumbers DEF TypeOK
  <1>2. Ahead(InstallGrace) = InstallGrace + 1 /\ InstallGrace \in Nat /\ Past = 1
    BY DeadlineNumbers
  <1>3. {"pip", "wait"} \cap {upd} # {} => st'.deadline + spent' >= Ahead(InstallGrace)
    BY <1>1, <1>2 DEF Timely
  <1>4. (upd = "wait" => spent' <= 1) /\ (upd = "undo" => st'.deadline > Past)
    BY <1>1, <1>2 DEF Timely
  <1> QED BY <1>3, <1>4 DEF Timely

\* A unit of time that passes leaves the deadline ahead.
LEMMA StaysTimely ==
  ASSUME TypeOK, Timely, upd \in Installs, DeadlinePasses, ~(upd = "undo" /\ st'.deadline = Past)
  PROVE  Timely'
  <1>1. st.deadline \in 0 .. InstallGrace + 1 /\ spent \in 0 .. PipTimeout /\ st'.deadline = st.deadline - 1
    BY StateReadings, DeadlineNumbers, DeadlineFacts DEF TypeOK
  <1>2. CASE upd \in {"pip", "wait"}
    <2>1. spent' = spent + 1 /\ upd' = upd
      BY <1>2 DEF DeadlinePasses
    <2>2. upd = "wait" => spent = 0
      BY DEF DeadlinePasses
    <2>3. st.deadline + spent >= Ahead(InstallGrace)
      BY <1>2 DEF Timely
    <2>4. Ahead(InstallGrace) \in Nat
      BY DeadlineNumbers
    <2>5. st'.deadline + spent' >= Ahead(InstallGrace)
      BY <1>1, <2>1, <2>3, <2>4
    <2>6. upd = "wait" => spent' <= 1
      BY <2>1, <2>2
    <2> QED BY <1>2, <2>1, <2>5, <2>6 DEF Timely
  <1>3. CASE upd = "undo"
    <2>1. upd' = "undo"
      BY <1>3 DEF DeadlinePasses
    <2> QED BY <1>1, <1>3, <2>1, DeadlineNumbers DEF Timely
  <1> QED BY <1>2, <1>3 DEF Installs

\* A deadline that is kept ahead, with nothing spent yet or what the thread has spent.
LEMMA FreshTimely ==
  ASSUME TypeOK', upd' \in {"pip", "wait"}, upd' = "wait" => spent' = 0,
         st'.deadline = Ahead(InstallGrace)
  PROVE  Timely'
  BY DeadlineNumbers DEF TypeOK, Timely

\* Every step keeps the installs apart from the rollbacks.
LEMMA NextApart ==
  ASSUME TypeOK, TypeOK', Apart, Next, crossed' = "nothing"
  PROVE  Apart'
  <1>1. CASE Start
    BY <1>1, Readings DEF Apart, Timely, Prepares, Installs, InDoubt, Held, TypeOK, Start, Mixed, agent
  <1>2. CASE Boot
    <2>1. Timely /\ upd' \in Installs /\ InDoubt' => Timely'
      <3>1. st'.deadline >= st.deadline \/ Interrupted
        BY <1>2, BootFacts DEF TypeOK
      <3>2. upd' = upd /\ spent' = spent
        BY <1>2 DEF Boot
      <3>3. upd' \in Installs /\ InDoubt' => ~Interrupted
        BY <1>2, Readings, BootFacts DEF TypeOK, Interrupted, InDoubt, Keeps
      <3> QED BY <3>1, <3>2, <3>3, LaterTimely
    <2>2. back' = back
      BY <1>2 DEF Boot
    <2> QED BY <1>2, <2>1, <2>2, Readings, BootFacts
            DEF Apart, Prepares, Installs, InDoubt, Held, TypeOK, Boot, Keeps, Interrupted
  <1>3. CASE Connect
    BY <1>3, Readings DEF Apart, Timely, Prepares, Installs, InDoubt, Held, TypeOK, Connect, agent
  <1>4. CASE NeverConnects
    BY <1>4, Readings DEF Apart, Timely, Prepares, Installs, InDoubt, Held, TypeOK, NeverConnects, Ended, agent
  <1>5. CASE StartProbation
    BY <1>5, Readings DEF Apart, Timely, Prepares, Installs, InDoubt, Held, TypeOK, StartProbation, agent
  <1>6. CASE Tick
    BY <1>6, Readings DEF Apart, Timely, Prepares, Installs, InDoubt, Held, TypeOK, Tick, agent
  <1>7. CASE BeatGoesStale
    BY <1>7, Readings DEF Apart, Timely, Prepares, Installs, InDoubt, Held, TypeOK, BeatGoesStale, agent
  <1>8. CASE Confirm
    BY <1>8, Readings DEF Apart, Timely, Prepares, Installs, InDoubt, Held, TypeOK, Confirm, MayConfirm, agent
  <1>9. CASE ProbationOver
    BY <1>9, Readings DEF Apart, Timely, Prepares, Installs, InDoubt, Held, TypeOK, ProbationOver, agent
  <1>10. ASSUME NEW v \in Versions \cup {None}, Command(v)
        PROVE  Apart'
    <2>1. ~InDoubt
      BY <1>10, Uncrossed
    <2> QED BY <1>10, <2>1, Readings DEF Apart, Timely, Prepares, Installs, InDoubt, Held, TypeOK, Command, Receptive
  <1>11. CASE NotPrepared
    BY <1>11, Readings DEF Apart, Timely, Prepares, Installs, InDoubt, Held, TypeOK, NotPrepared, EndFailed,
       agent
  <1>12. CASE IdleAtLast
    BY <1>12, Readings DEF Apart, Timely, Prepares, Installs, InDoubt, Held, TypeOK, IdleAtLast, agent
  <1>13. CASE Prepared
    <2>1. Timely'
      BY <1>13, Readings, FreshTimely DEF Prepared, KeptAhead
    <2> QED BY <1>13, <2>1, Readings DEF Apart, Prepares, Installs, InDoubt, Held, TypeOK, Prepared, KeptAhead
  <1>14. CASE PipStep
    BY <1>14, Readings DEF Apart, Timely, Prepares, Installs, InDoubt, Held, TypeOK, PipStep, agent
  <1>15. CASE Installed
    <2>1. Timely'
      BY <1>15, Readings, FreshTimely DEF Installed, KeptAhead
    <2> QED BY <1>15, <2>1, Readings DEF Apart, Prepares, Installs, InDoubt, Held, TypeOK, Installed, KeptAhead
  <1>16. CASE StillBusy
    <2>1. upd' \in {"pip", "wait"} /\ spent' = 0
      BY <1>16 DEF StillBusy
    <2>2. Timely'
      BY <1>16, <2>1, Readings, FreshTimely DEF StillBusy, KeptAhead
    <2> QED BY <1>16, <2>2, Readings DEF Apart, Prepares, Installs, InDoubt, Held, TypeOK, StillBusy, KeptAhead
  <1>17. CASE GoesWrong
    <2>1. InDoubt => Timely'
      <3> SUFFICES ASSUME InDoubt PROVE Timely'
        OBVIOUS
      <3>1. upd \in Installs /\ Timely
        BY <1>17 DEF GoesWrong, Apart, Installs
      <3>2. st.deadline > Past
        BY <3>1, NotDue
      <3> QED BY <1>17, <3>2 DEF GoesWrong, Timely
    <2> QED BY <1>17, <2>1 DEF Apart, Prepares, Installs, InDoubt, Held, GoesWrong
  <1>18. CASE Ready
    BY <1>18, Readings DEF Apart, Timely, Prepares, Installs, InDoubt, Held, TypeOK, Ready, agent
  <1>19. CASE UndoStep
    BY <1>19, Readings DEF Apart, Timely, Prepares, Installs, InDoubt, Held, TypeOK, UndoStep, GoBackStep,
       agent
  <1>20. CASE Undone
    BY <1>20, Readings DEF Apart, Timely, Prepares, Installs, InDoubt, Held, TypeOK, Undone, EndFailed, agent
  <1>21. CASE UndoFails
    BY <1>21, UndoFailedFacts DEF Apart, Timely, Prepares, Installs, InDoubt, Held, TypeOK, UndoFails
  <1>22. CASE RollBack
    <2>1. InDoubt /\ Due /\ UNCHANGED <<st, upd, spent>> /\ back' = st
      BY <1>22 DEF RollBack, Due, agent
    <2>2. upd \notin Installs
      BY <2>1, NotDue DEF Apart
    <2>3. upd = "none"
      BY <2>1, <2>2 DEF Apart, TypeOK, Prepares, Installs
    <2> QED BY <2>1, <2>3 DEF Apart, Prepares, Installs, InDoubt, Held
  <1>23. CASE RollBackStep
    BY <1>23, Readings DEF Apart, Timely, Prepares, Installs, InDoubt, Held, TypeOK, RollBackStep, GoBackStep,
       agent
  <1>24. CASE RolledBack
    BY <1>24, Readings DEF Apart, Timely, Prepares, Installs, InDoubt, Held, TypeOK, RolledBack, NeedsRestart,
       agent
  <1>25. CASE RollBackFails
    BY <1>25, NotedFacts DEF Apart, Timely, Prepares, Installs, InDoubt, Held, TypeOK, RollBackFails, agent
  <1>26. CASE DeadlinePasses
    <2>1. Timely /\ upd \in Installs => Timely'
      BY <1>26, StaysTimely, Uncrossed
    <2>2. UNCHANGED <<upd, back>> /\ Keeps
      BY <1>26, DeadlineFacts DEF DeadlinePasses, TypeOK
    <2> QED BY <2>1, <2>2 DEF Apart, Prepares, Installs, InDoubt, Held, Keeps
  <1>27. CASE Restart
    BY <1>27, Readings DEF Apart, Timely, Prepares, Installs, InDoubt, Held, TypeOK, Restart, Ended, agent
  <1>28. CASE Die
    BY <1>28, Readings DEF Apart, Timely, Prepares, Installs, InDoubt, Held, TypeOK, Die, Ended, Cut, agent
  <1>29. CASE PowerCut
    BY <1>29, Readings DEF Apart, Timely, Prepares, Installs, InDoubt, Held, TypeOK, PowerCut, Ended, Cut,
       agent
  <1>30. ~ClockJumps /\ ~VerifyDies
    BY Uncrossed
  <1> QED BY <1>30, <1>1, <1>2, <1>3, <1>4, <1>5, <1>6, <1>7, <1>8, <1>9, <1>10, <1>11, <1>12, <1>13, <1>14, <1>15,
             <1>16, <1>17, <1>18, <1>19, <1>20, <1>21, <1>22, <1>23, <1>24, <1>25, <1>26, <1>27, <1>28,
             <1>29 DEF Next

\* After a crossing that is no overrun the thread stays idle: no further update is begun.
LEMMA NextIdleAfter ==
  ASSUME TypeOK, TypeOK', AInv, Next
  PROVE  IdleAfter'
  <1> SUFFICES ASSUME crossed' \in Crossings, ~Overrun' PROVE upd' = "none"
    BY DEF IdleAfter
  <1>1. CASE crossed # "nothing"
    <2>1. crossed' = crossed
      BY <1>1, CrossingSteps DEF Crosses
    <2>2. upd = "none"
      BY <1>1, <2>1 DEF AInv, IdleAfter, TypeOK, Overrun
    <2>3. \A v : ~Command(v)
      BY <1>1 DEF Command
    <2> QED BY <2>2, <2>3 DEF Next, Start, Boot, Connect, NeverConnects, StartProbation, Tick, BeatGoesStale,
              Confirm, ProbationOver, NotPrepared, IdleAtLast, Prepared, PipStep, Installed, StillBusy,
              GoesWrong, Ready, UndoStep, Undone, UndoFails, RollBack, RollBackStep, RolledBack, RollBackFails,
              DeadlinePasses, ClockJumps, Restart, Die, PowerCut, VerifyDies, Ended, agent
  <1>2. CASE crossed = "nothing"
    <2>1. crossed' # crossed /\ crossed' \notin {"undo", "clock"}
      BY <1>2 DEF Crossings, Overrun
    <2>2. CASE (\E v \in Versions \cup {None} : Command(v)) /\ InDoubt /\ Crosses("command")
      <3>1. PICK v \in Versions \cup {None} : Command(v)
        BY <2>2
      <3>2. v = None
        BY <2>2, <3>1 DEF Command, Ignored
      <3> QED BY <3>1, <3>2 DEF Command
    <2>3. CASE Die \/ PowerCut
      BY <2>3 DEF Die, PowerCut, Ended
    <2>4. CASE VerifyDies
      <3>1. upd = "none"
        BY <2>4, <1>2 DEF VerifyDies, AInv, Apart
      <3> QED BY <2>4, <3>1 DEF VerifyDies, agent
    <2> QED BY <1>2, <2>1, <2>2, <2>3, <2>4, CrossingSteps DEF Crosses
  <1> QED BY <1>1, <1>2

\* Installs and rollbacks are apart in every state that nothing has crossed.
LEMMA AlwaysApart == Spec => [](TypeOK /\ AInv)
  <1>1. Init => AInv
    BY DEF Init, AInv, Apart, IdleAfter, Held, Prepares, Installs
  <1>2. TypeOK /\ TypeOK' /\ AInv /\ [Next]_vars => AInv'
    <2> SUFFICES ASSUME TypeOK, TypeOK', AInv, [Next]_vars PROVE AInv'
      OBVIOUS
    <2>1. CASE UNCHANGED vars
      BY <2>1 DEF AInv, IdleAfter, Overrun, Apart, Timely, InDoubt, Held, vars, agent
    <2>2. CASE Next
      <3>1. ASSUME crossed' = "nothing" PROVE Apart'
        BY <2>2, <3>1, Uncrossed, NextApart DEF AInv
      <3>2. back' \in {back, NoRollback} \/ (back' = st /\ InDoubt)
        BY <2>2 DEF Next, Start, Boot, Connect, NeverConnects, StartProbation, Tick, BeatGoesStale,
              Confirm, ProbationOver, Command, NotPrepared, EndFailed, IdleAtLast, Prepared, PipStep, Installed,
              StillBusy, GoesWrong, Ready, UndoStep, Undone, UndoFails, RollBack, Due, RollBackStep, RolledBack,
              RollBackFails, DeadlinePasses, ClockJumps, Restart, Die, PowerCut, VerifyDies
      <3>3. Held' => back'.phase = "pending_verify"
        BY <3>2 DEF AInv, Held, InDoubt
      <3> QED BY <2>2, <3>1, <3>3, NextIdleAfter DEF AInv
    <2> QED BY <2>1, <2>2
  <1> QED BY <1>1, <1>2, Types, PTL DEF Spec

\* The verify timer never puts files back under a running install, whatever ends, dies or is cut off
\* meanwhile, but for an undo that outlasts its deadline and a clock that is set over it.
THEOREM NeverUnder == Spec => []NeverUnderInstall
  <1>1. TypeOK /\ AInv => NeverUnderInstall
    BY DEF TypeOK, AInv, Apart, IdleAfter, NeverUnderInstall
  <1> QED BY <1>1, AlwaysApart, PTL

\* What a step may do with an update in doubt.
LEMMA DoubtSteps ==
  ASSUME TypeOK, AInv, Next, InDoubt, st'.phase # st.phase, ~Overrun
  PROVE  /\ crossed' = "nothing" /\ st.tried => st'.phase = "rolled_back"
         /\ st'.phase = "failed" => FailedByItself \/ Command(None)
  <1> USE DEF InDoubt, FailedByItself
  <1>0. /\ upd \notin Prepares
        /\ upd \in Installs => crossed = "nothing" /\ ~st.tried
        /\ Held => back.phase = "pending_verify"
    BY DEF TypeOK, AInv, Apart, IdleAfter, Prepares, Installs
  <1>1. CASE \/ Start \/ Connect \/ NeverConnects \/ StartProbation \/ Tick \/ BeatGoesStale
             \/ ProbationOver \/ PipStep \/ GoesWrong \/ UndoStep \/ RollBack \/ RollBackStep
             \/ Restart \/ Die \/ PowerCut \/ VerifyDies
    <2>1. st' = st
      BY <1>1 DEF Start, Connect, NeverConnects, StartProbation, Tick, BeatGoesStale, ProbationOver,
                  PipStep, GoesWrong, UndoStep, RollBack, RollBackStep, Restart, Die, PowerCut, VerifyDies
    <2> QED BY <2>1
  <1>2. CASE Boot
    BY <1>2, BootFacts DEF TypeOK, Keeps, Interrupted
  <1>3. CASE Confirm
    BY <1>3, Readings DEF Confirm, MayConfirm
  <1>4. ASSUME NEW v \in Versions \cup {None}, Command(v)
        PROVE  v = None /\ crossed' # "nothing"
    <2>1. v = None
      BY <1>4 DEF Command, Ignored
    <2> QED BY <1>4, <2>1, Uncrossed
  <1>5. CASE NotPrepared \/ IdleAtLast \/ Prepared
    BY <1>0, <1>5 DEF NotPrepared, IdleAtLast, Prepared, Prepares
  <1>6. CASE Installed \/ StillBusy \/ Ready
    BY <1>6, Readings DEF Installed, StillBusy, Ready, KeptAhead
  <1>7. CASE Undone
    BY <1>0, <1>7 DEF Undone, Installs
  <1>8. CASE UndoFails
    BY <1>8, UndoFailedFacts DEF UndoFails, TypeOK
  <1>9. CASE RolledBack
    BY <1>9, Readings DEF RolledBack
  <1>10. CASE RollBackFails
    <2>1. AttemptNoted.phase = back.phase /\ st' = AttemptNoted /\ Held
      BY <1>10, NotedFacts DEF RollBackFails, TypeOK
    <2> QED BY <1>0, <2>1
  <1>11. CASE DeadlinePasses
    BY <1>11, DeadlineFacts DEF TypeOK, Keeps
  <1>12. CASE ClockJumps
    BY <1>12, JumpFacts DEF TypeOK, Keeps
  <1> QED BY <1>1, <1>2, <1>3, <1>4, <1>5, <1>6, <1>7, <1>8, <1>9, <1>10, <1>11,
             <1>12 DEF Next

\* An update whose rollback was begun and failed ends rolled back and no other way, as long as nothing
\* crosses it.
THEOREM Finishes == Spec => RollbackFinishes
  <1>1. TypeOK /\ AInv /\ [Next]_vars =>
          [crossed' = "nothing" /\ InDoubt /\ st.tried /\ st'.phase # st.phase => st'.phase = "rolled_back"]_vars
    <2> SUFFICES ASSUME TypeOK, AInv, Next, crossed' = "nothing", InDoubt, st.tried, st'.phase # st.phase
                 PROVE  st'.phase = "rolled_back"
      OBVIOUS
    <2>1. ~Overrun
      BY Uncrossed DEF Overrun
    <2> QED BY <2>1, DoubtSteps
  <1> QED BY <1>1, AlwaysApart, PTL DEF Spec, RollbackFinishes

\* Nothing writes a failure over an update in doubt but its own undo, the previous version's own check, a
\* malformed command, and what follows an overrun.
THEOREM NeverOverwritten == Spec => OverwrittenOnly
  <1>1. TypeOK /\ AInv /\ [Next]_vars =>
          [InDoubt /\ st'.phase = "failed" => FailedByItself \/ Command(None) \/ Overrun]_vars
    <2> SUFFICES ASSUME TypeOK, AInv, Next, InDoubt, st'.phase = "failed", ~Overrun
                 PROVE  FailedByItself \/ Command(None)
      OBVIOUS
    <2>1. st'.phase # st.phase
      BY DEF InDoubt
    <2> QED BY <2>1, DoubtSteps
  <1> QED BY <1>1, AlwaysApart, PTL DEF Spec, OverwrittenOnly

-----------------------------------------------------------------------------
\* What the process does.  Only a process that is up updates and probes, a probation is no longer asked for,
\* and one that is asked for is of an update in doubt, or a restart comes first.
ProcessInv ==
  /\ upd # "none" => proc = "up"
  /\ probing => proc = "up" /\ ~asked
  /\ asked => proc \in {"connecting", "up"} /\ (InDoubt \/ queued)

\* An update that prepares comes from the version confirmed last.
PrepareInv == upd \in Prepares => ~InDoubt /\ st.previous = good /\ st.target \in Versions

\* While an update installs, the process runs the previous version and nothing else is under way.
InstallInv ==
  upd \in Installs =>
    /\ InDoubt /\ ~st.tried /\ ~st.kept
    /\ ~asked /\ ~probing /\ ~queued /\ run = st.previous
    /\ upd = "wait" => files = st.target

\* A restart that is queued while an update is in doubt is the one its install asked for.
QueuedInv ==
  InDoubt /\ queued =>
    /\ upd = "none" /\ ~Held /\ st.deadline > Past /\ ~st.tried /\ ~st.kept
    /\ files = st.target /\ run \in {None, st.previous} /\ proc \in {"down", "up"} /\ ~asked /\ ~probing

\* What is in doubt goes back to the version confirmed last.  Till a rollback touches the files, a process
\* that was started since runs what is installed; the process that stays after its undo failed runs the
\* previous version.
DoubtInv ==
  InDoubt =>
    /\ st.previous = good /\ st.target \in Versions /\ files \in {st.previous, st.target, Mixed}
    /\ ~queued /\ ~st.tried /\ ~Held /\ upd = "none" => run \in {None, files}
    /\ st.kept => proc = "up" /\ run = st.previous /\ ~asked /\ ~probing /\ ~queued

\* The verify timer goes back to what the state says.
HeldInv == Held => back.previous = st.previous /\ back.target = st.target /\ back.kept = st.kept

\* The inductive invariant of a settled update.
SInv ==
  /\ ProcessInv /\ PrepareInv /\ InstallInv /\ QueuedInv /\ DoubtInv /\ HeldInv
  /\ SettledWhole /\ SettledRuns

\* Every step keeps what is said of the process, the update and the files.
LEMMA NextSInv ==
  ASSUME TypeOK, TypeOK', Apart, Apart', SInv, Next, crossed' = "nothing",
         Held => back.phase = "pending_verify"
  PROVE  SInv'
  <1> USE DEF SInv, ProcessInv, PrepareInv, InstallInv, QueuedInv, DoubtInv, HeldInv, SettledWhole, SettledRuns,
             Prepares, Installs, InDoubt, Held, Mixed
  <1>1. CASE Start
    BY <1>1, Readings, Facts DEF Apart, TypeOK, Start, Mixed, agent
  <1>2. CASE Boot
    BY <1>2, Readings, BootFacts DEF Apart, TypeOK, Boot, Keeps, Interrupted
  <1>3. CASE Connect
    BY <1>3, Readings, Facts DEF Apart, TypeOK, Connect, agent
  <1>4. CASE NeverConnects
    BY <1>4, Readings, Facts DEF Apart, TypeOK, NeverConnects, Ended, agent
  <1>5. CASE StartProbation
    BY <1>5, Readings, Facts DEF Apart, TypeOK, StartProbation, agent
  <1>6. CASE Tick
    BY <1>6, Readings, Facts DEF Apart, TypeOK, Tick, agent
  <1>7. CASE BeatGoesStale
    BY <1>7, Readings, Facts DEF Apart, TypeOK, BeatGoesStale, agent
  <1>8. CASE Confirm
    BY <1>8, Readings, Facts DEF Apart, TypeOK, Confirm, MayConfirm, agent
  <1>9. CASE ProbationOver
    BY <1>9, Readings, Facts DEF Apart, TypeOK, ProbationOver, agent
  <1>10. ASSUME NEW v \in Versions \cup {None}, Command(v)
        PROVE  SInv'
    BY <1>10, Uncrossed, Readings, Facts DEF Apart, TypeOK, Command, Receptive, Ignored, agent
  <1>11. CASE NotPrepared
    BY <1>11, Readings, Facts DEF Apart, TypeOK, NotPrepared, EndFailed, agent
  <1>12. CASE IdleAtLast
    BY <1>12, Readings, Facts DEF Apart, TypeOK, IdleAtLast, agent
  <1>13. CASE Prepared
    BY <1>13, Readings, Facts DEF Apart, TypeOK, Prepared, KeptAhead, agent
  <1>14. CASE PipStep
    BY <1>14, Readings, Facts DEF Apart, TypeOK, PipStep, agent
  <1>15. CASE Installed
    BY <1>15, Readings, Facts DEF Apart, TypeOK, Installed, KeptAhead, agent
  <1>16. CASE StillBusy
    BY <1>16, Readings, Facts DEF Apart, TypeOK, StillBusy, KeptAhead, agent
  <1>17. CASE GoesWrong
    BY <1>17, Readings, Facts DEF Apart, TypeOK, GoesWrong, agent
  <1>18. CASE Ready
    <2>1. Ahead(VerifyDeadline) > Past
      BY DeadlineNumbers
    <2> QED BY <1>18, <2>1, Readings, Facts DEF Apart, TypeOK, Ready, agent
  <1>19. CASE UndoStep
    BY <1>19, Readings, Facts DEF Apart, TypeOK, UndoStep, GoBackStep, agent
  <1>20. CASE Undone
    BY <1>20, Readings, Facts DEF Apart, TypeOK, Undone, EndFailed, agent
  <1>21. CASE UndoFails
    BY <1>21, UndoFailedFacts DEF Apart, TypeOK, UndoFails
  <1>22. CASE RollBack
    <2>1. InDoubt /\ Due /\ back' = st
          /\ UNCHANGED <<st, files, run, proc, asked, probing, upd, queued, good>>
      BY <1>22 DEF RollBack, Due, agent
    <2>2. upd = "none"
      BY <2>1, NotDue DEF Apart, TypeOK
    <2>3. ~queued
      <3>1. st.deadline \in Nat
        BY StateReadings, DeadlineNumbers DEF TypeOK
      <3> QED BY <2>1, <3>1, DeadlineNumbers DEF Due
    <2>4. (ProcessInv /\ PrepareInv /\ InstallInv /\ QueuedInv)'
      BY <2>1, <2>2, <2>3
    <2>5. DoubtInv' /\ HeldInv'
      BY <2>1, <2>2, <2>3, Facts
    <2>6. (SettledWhole /\ SettledRuns)'
      BY <2>1
    <2> QED BY <2>4, <2>5, <2>6
  <1>23. CASE RollBackStep
    BY <1>23, Readings, Facts DEF Apart, TypeOK, RollBackStep, GoBackStep, agent
  <1>24. CASE RolledBack
    <2>1. InDoubt /\ upd = "none" /\ files = good /\ back.kept = st.kept
      BY <1>24 DEF Apart, RolledBack
    <2>2. ~InDoubt' /\ back' = NoRollback
      BY <1>24, Readings DEF RolledBack
    <2>3. queued' = (queued \/ ~st.kept)
      BY <1>24, <2>1 DEF RolledBack, NeedsRestart
    <2>4. UNCHANGED <<files, fate, run, proc, asked, probing, upd, good>>
      BY <1>24 DEF RolledBack
    <2> QED BY <2>1, <2>2, <2>3, <2>4
  <1>25. CASE RollBackFails
    BY <1>25, NotedFacts DEF Apart, TypeOK, RollBackFails, agent
  <1>26. CASE DeadlinePasses
    BY <1>26, DeadlineFacts DEF Apart, TypeOK, DeadlinePasses, Keeps, agent
  <1>27. CASE Restart
    BY <1>27, Readings, Facts DEF Apart, TypeOK, Restart, Ended, agent
  <1>28. CASE Die
    BY <1>28, Uncrossed, Readings, Facts DEF Apart, TypeOK, Die, Ended, Cut, agent
  <1>29. CASE PowerCut
    BY <1>29, Uncrossed, Readings, Facts DEF Apart, TypeOK, PowerCut, Ended, Cut, agent
  <1>30. ~ClockJumps /\ ~VerifyDies
    BY Uncrossed
  <1> QED BY <1>30, <1>1, <1>2, <1>3, <1>4, <1>5, <1>6, <1>7, <1>8, <1>9, <1>10, <1>11, <1>12, <1>13, <1>14, <1>15,
             <1>16, <1>17, <1>18, <1>19, <1>20, <1>21, <1>22, <1>23, <1>24, <1>25, <1>26, <1>27, <1>28,
             <1>29 DEF Next

\* An update that is over, however it ended, leaves the version confirmed last on the card and, once the
\* restart that was asked for is done, running, whatever was cut off in between, unless something crossed it.
THEOREM Settled == Spec => []SettledGood
  <1>1. Init => SInv
    BY DEF Init, SInv, ProcessInv, PrepareInv, InstallInv, QueuedInv, DoubtInv, HeldInv, SettledWhole,
           SettledRuns, InDoubt, Held, Over, Prepares, Installs
  <1> DEFINE S == crossed = "nothing" => SInv
  <1>2. TypeOK /\ TypeOK' /\ AInv /\ AInv' /\ S /\ [Next]_vars => S'
    <2> SUFFICES ASSUME TypeOK, TypeOK', AInv, AInv', S, [Next]_vars, crossed' = "nothing" PROVE SInv'
      OBVIOUS
    <2>1. CASE UNCHANGED vars
      BY <2>1 DEF SInv, ProcessInv, PrepareInv, InstallInv, QueuedInv, DoubtInv, HeldInv, SettledWhole,
                  SettledRuns, InDoubt, Held, vars, agent
    <2>2. CASE Next
      <3>1. SInv /\ Apart /\ Apart' /\ (Held => back.phase = "pending_verify")
        BY <2>2, Uncrossed DEF AInv
      <3> QED BY <2>2, <3>1, NextSInv
    <2> QED BY <2>1, <2>2
  <1>3. S => SettledGood
    BY DEF SInv, SettledGood
  <1> QED BY <1>1, <1>2, <1>3, AlwaysApart, PTL DEF Spec
=============================================================================
