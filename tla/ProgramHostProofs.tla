------------------------- MODULE ProgramHostProofs -------------------------
(***************************************************************************)
(* Theorems of ProgramHost, for any number of versions and with a process  *)
(* that may be killed at any moment: types; never two runtimes; nothing    *)
(* left behind on the runtime that does not run; that neither a stop nor a *)
(* latched E-stop is undone by a switch; and that what is stored runs.     *)
(* None of them assumes that a gap of the lock is closed: what may come in *)
(* one is in the history that the properties except.                       *)
(***************************************************************************)
EXTENDS ProgramHost, TLAPS

\* Whatever carries a bundle holds one, and a process that is down carries none.
PullCarries ==
  /\ pull.at # "idle" => pull.bundle \in Bundles
  /\ plan.by = "pull" => pull.at = "switching"
PlanCarries == Switching => plan.bundle \in Bundles /\ pending = None /\ active # 0
DownIsEmpty ==
  /\ main = "start" => active # 0
  /\ main = "down" => active = 0 /\ pull = NoPull /\ ~Switching
  /\ main \in {"down", "boot", "up", "start"} => stops = 0

TInv == HostTypes /\ PullCarries /\ PlanCarries /\ DownIsEmpty

\* Languages and bundles.
LEMMA Facts ==
  /\ 1 \in Langs /\ 3 \in Langs /\ 0 \notin Langs
  /\ None \notin Bundles
  /\ \A b \in Bundles : b.lang \in Langs /\ b.version \in 1 .. MaxVersion /\ b # None
  BY ProgramHostAssumption DEF Langs, Bundles, None

\* The plan of no switch is a plan.
LEMMA IdlePlan ==
  /\ 0 \in 0 .. 1 /\ 1 \in 0 .. 1
  /\ NoPlan \in [bundle : Bundles \cup {None}, was : BOOLEAN, stops : 0 .. 1, by : {"nobody", "pull", "thread"}]
  <1>1. 0 \in 0 .. 1 /\ 1 \in 0 .. 1
    OBVIOUS
  <1> QED BY <1>1 DEF NoPlan

-----------------------------------------------------------------------------
\* What an action leaves alone keeps its type.
LEMMA Kept ==
  /\ ProgramTypes /\ UNCHANGED <<cloud, stored, active, loaded, pending>> => ProgramTypes'
  /\ PlanTypes /\ UNCHANGED <<plan, host>> => PlanTypes'
  /\ ThreadTypes /\ UNCHANGED threads => ThreadTypes'
  /\ WorkTypes /\ UNCHANGED work => WorkTypes'
  /\ MainTypes /\ UNCHANGED <<main, stopping, pull>> => MainTypes'
  <1>1. ProgramTypes /\ UNCHANGED <<cloud, stored, active, loaded, pending>> => ProgramTypes'
    BY DEF ProgramTypes
  <1>2. PlanTypes /\ UNCHANGED <<plan, host>> => PlanTypes'
    BY DEF PlanTypes, host
  <1>3. ThreadTypes /\ UNCHANGED threads => ThreadTypes'
    BY DEF ThreadTypes, threads
  <1>4. WorkTypes /\ UNCHANGED work => WorkTypes'
    BY DEF WorkTypes, work
  <1>5. MainTypes /\ UNCHANGED <<main, stopping, pull>> => MainTypes'
    BY DEF MainTypes
  <1> QED BY <1>1, <1>2, <1>3, <1>4, <1>5

\* A change of one runtime's flag, loop and sampler.
LEMMA ThreadUpdates ==
  ASSUME ThreadTypes, NEW l \in Langs, NEW b \in BOOLEAN,
         NEW place \in {"none", "top", "pass", "hook"}
  PROVE  /\ [running EXCEPT ![l] = b] \in [Langs -> BOOLEAN]
         /\ [sampling EXCEPT ![l] = b] \in [Langs -> BOOLEAN]
         /\ [loop EXCEPT ![l] = place] \in [Langs -> {"none", "top", "pass", "hook"}]
  BY DEF ThreadTypes

\* A start keeps the types of the threads.
LEMMA StartedTypes ==
  ASSUME ThreadTypes, NEW asked \in BOOLEAN, NEW l \in Langs, NEW refused \in BOOLEAN,
         StartedIf(asked, l, refused)
  PROVE  ThreadTypes'
  <1> DEFINE starts == asked /\ ~running[l]
  <1>1. /\ (running[l] \/ starts) \in BOOLEAN /\ (sampling[l] \/ starts) \in BOOLEAN
        /\ (IF starts THEN "top" ELSE loop[l]) \in {"none", "top", "pass", "hook"}
        /\ (refused /\ ~(starts /\ l = 3)) \in BOOLEAN
    BY DEF ThreadTypes
  <1>2. running' \in [Langs -> BOOLEAN] /\ sampling' \in [Langs -> BOOLEAN]
    BY <1>1 DEF ThreadTypes, StartedIf
  <1>3. loop' \in [Langs -> {"none", "top", "pass", "hook"}]
    BY <1>1 DEF ThreadTypes, StartedIf
  <1>4. refusing' \in BOOLEAN
    BY <1>1 DEF StartedIf
  <1> QED BY <1>2, <1>3, <1>4 DEF ThreadTypes

\* A switch begun takes the held bundle and keeps the types.
LEMMA BeginTypes ==
  ASSUME TInv, NEW by \in {"pull", "thread"}, BeginSwitch(by), pending # None,
         UNCHANGED <<cloud, stored, active, loaded, host>>
  PROVE  /\ ProgramTypes' /\ PlanTypes' /\ PlanCarries'
         /\ running' \in [Langs -> BOOLEAN]
         /\ plan' # NoPlan /\ plan'.by = by
  <1>1. pending \in Bundles /\ active \in Langs
    BY DEF TInv, HostTypes, ProgramTypes
  <1>2. (running[active] \/ started) \in BOOLEAN /\ stops \in 0 .. 1
    BY <1>1 DEF TInv, HostTypes, ThreadTypes, PlanTypes
  <1>3. running' \in [Langs -> BOOLEAN]
    BY <1>1 DEF TInv, HostTypes, ThreadTypes, BeginSwitch
  <1>4. plan'.by # NoPlan.by
    BY DEF BeginSwitch, NoPlan
  <1>5. plan' \in [bundle : Bundles \cup {None}, was : BOOLEAN, stops : 0 .. 1, by : {"nobody", "pull", "thread"}]
    BY <1>1, <1>2 DEF BeginSwitch
  <1>6. ProgramTypes'
    BY <1>1 DEF TInv, HostTypes, ProgramTypes, BeginSwitch
  <1>7. PlanTypes'
    BY <1>5 DEF TInv, HostTypes, PlanTypes, host
  <1>8. PlanCarries'
    BY <1>1, Facts DEF PlanCarries, BeginSwitch
  <1>9. plan'.by = by
    BY DEF BeginSwitch
  <1> QED BY <1>3, <1>4, <1>6, <1>7, <1>8, <1>9

\* The types: a runtime's steps, the switch, the pull and the command, main, and the whole.
LEMMA RuntimeTInv ==
  ASSUME TInv, NEW l \in Langs, RuntimeNext(l) PROVE TInv'
  <1> USE DEF TInv, HostTypes, PullCarries, DownIsEmpty
  <1>1. CASE LoopTop(l)
    <2>1. ThreadTypes'
      BY <1>1 DEF ThreadTypes, LoopTop, Enters
    <2> QED BY <1>1, <2>1, Kept DEF LoopTop, PlanCarries, Switching, program, work, host
  <1>2. CASE Pass(l)
    <2>1. ThreadTypes'
      BY <1>2 DEF ThreadTypes, Pass, Enters
    <2>2. busy' \in [Langs -> BOOLEAN] /\ latched' \in BOOLEAN
      BY <1>2 DEF WorkTypes, Pass
    <2>3. waiting' \in [Langs -> BOOLEAN] /\ booted' \in BOOLEAN
      BY <1>2 DEF WorkTypes, Pass
    <2> QED BY <1>2, <2>1, <2>2, <2>3, Kept DEF WorkTypes, Pass, PlanCarries, Switching, program, host
  <1>3. CASE SamplerEnds(l)
    <2>1. ThreadTypes'
      BY <1>3 DEF ThreadTypes, SamplerEnds
    <2> QED BY <1>3, <2>1, Kept DEF SamplerEnds, PlanCarries, Switching, program, work, host
  <1>4. CASE AfterPassSwitches(l)
    <2>1. BeginSwitch("thread") /\ pending # None
      BY <1>4 DEF AfterPassSwitches, HookSwitches
    <2>2. loop' \in [Langs -> {"none", "top", "pass", "hook"}]
      BY <1>4 DEF ThreadTypes, AfterPassSwitches, Enters
    <2>3. ProgramTypes' /\ PlanTypes' /\ PlanCarries' /\ running' \in [Langs -> BOOLEAN] /\ plan'.by = "thread"
      BY <1>4, <2>1, BeginTypes DEF AfterPassSwitches
    <2>4. ThreadTypes'
      BY <1>4, <2>2, <2>3 DEF ThreadTypes, AfterPassSwitches
    <2>5. main # "down"
      BY <2>1 DEF BeginSwitch, ProgramTypes
    <2> QED BY <1>4, <2>3, <2>4, <2>5, Kept DEF AfterPassSwitches, host
  <1>5. CASE AfterPass(l)
    <2>1. ThreadTypes'
      BY <1>5 DEF ThreadTypes, AfterPass, Enters
    <2> QED BY <1>5, <2>1, Kept DEF AfterPass, PlanCarries, Switching, program, work, host
  <1> QED BY <1>1, <1>2, <1>3, <1>4, <1>5 DEF RuntimeNext

\* The end of a switch, made or failed, keeps the type invariant.
LEMMA SwitchTInv ==
  ASSUME TInv, TakeOver \/ TakeOverFails PROVE TInv'
  <1> USE DEF TInv, HostTypes
  <1>1. PICK l \in Langs, b \in Bundles : Takes(l, b) /\ b.lang = l
    <2>1. CASE TakeOver
      BY <2>1, Facts DEF TakeOver, Takes, PlanCarries
    <2>2. CASE TakeOverFails
      <3>1. active \in Langs /\ loaded[active] \in Bundles /\ loaded[active].lang = active
        BY <2>2, Facts DEF TakeOverFails, Takes, PlanCarries, ProgramTypes, None
      <3> QED BY <2>2, <3>1 DEF TakeOverFails
    <2> QED BY <2>1, <2>2
  <1>2. Switching /\ plan.bundle \in Bundles /\ pending = None /\ pending' = None
    BY <1>1 DEF Takes, PlanCarries
  <1>3. stored' \in Bundles \cup {None}
    BY <1>2 DEF TakeOver, TakeOverFails, ProgramTypes
  <1>4. ProgramTypes'
    BY <1>1, <1>2, <1>3, Facts DEF ProgramTypes, Takes
  <1>5. StartsAfter \in BOOLEAN /\ (refusing \/ active = 3) \in BOOLEAN
    BY DEF StartsAfter, PlanTypes, ThreadTypes
  <1>6. ThreadTypes'
    BY <1>1, <1>5, StartedTypes DEF Takes
  <1>7. PlanTypes'
    BY <1>1 DEF Takes, PlanTypes, NoPlan, host
  <1>8. WorkTypes'
    <2>1. busy' \in [Langs -> BOOLEAN] /\ waiting' \in [Langs -> BOOLEAN]
      BY <1>1 DEF Takes, WorkTypes
    <2>2. booted' \in BOOLEAN /\ latched' \in BOOLEAN
      BY <1>1 DEF Takes, WorkTypes
    <2> QED BY <2>1, <2>2 DEF WorkTypes
  <1>9. /\ pull' \in [at : {"idle", "compile", "switch", "switching", "check"}, bundle : Bundles \cup {None}]
        /\ PullCarries'
    <2>1. plan'.by = "nobody"
      BY <1>1 DEF Takes, NoPlan
    <2>2. pull' \in {pull, NoPull} \/ (plan.by = "pull" /\ pull' = [pull EXCEPT !.at = "check"])
      BY DEF TakeOver, TakeOverFails
    <2> QED BY <2>1, <2>2 DEF PullCarries, MainTypes, NoPull
  <1>10. MainTypes' /\ PlanCarries' /\ DownIsEmpty'
    BY <1>1, <1>9, Facts DEF Takes, MainTypes, PlanCarries, DownIsEmpty, Switching, host
  <1> QED BY <1>4, <1>6, <1>7, <1>8, <1>9, <1>10

\* Every step of a pull keeps the type invariant.
LEMMA PullTInv ==
  ASSUME TInv, PullNext \/ Fetch \/ Publish \/ Command PROVE TInv'
  <1> USE DEF TInv, HostTypes, DownIsEmpty
  <1> DEFINE PullTypes == pull \in [at : {"idle", "compile", "switch", "switching", "check"},
                                    bundle : Bundles \cup {None}]
  <1>1. CASE Refuse
    <2>1. PullTypes' /\ PullCarries'
      BY <1>1 DEF Refuse, MainTypes, PullCarries, NoPull, NoPlan, Switching, program
    <2> QED BY <1>1, <2>1, Kept DEF Refuse, MainTypes, PlanCarries, Switching, program, host
  <1>2. CASE Load
    <2>1. pull.bundle \in Bundles /\ pull.bundle.lang \in Langs /\ pull.bundle # None
      BY <1>2, Facts DEF Load, PullCarries
    <2>2. ProgramTypes'
      BY <1>2, <2>1, Facts DEF Load, ProgramTypes
    <2>3. PullTypes' /\ PullCarries'
      BY <1>2, <2>1 DEF Load, MainTypes, PullCarries, NoPlan, Switching
    <2>4. busy' \in [Langs -> BOOLEAN]
      BY <1>2, <2>1 DEF Load, WorkTypes
    <2>5. WorkTypes'
      BY <1>2, <2>4 DEF Load, WorkTypes
    <2>6. main # "down"
      BY <1>2 DEF Load, NoPull
    <2> QED BY <1>2, <2>2, <2>3, <2>5, <2>6, Kept DEF Load, MainTypes, PlanCarries, Switching, host
  <1>3. CASE Hold
    <2>1. pull.bundle \in Bundles /\ pull.bundle.lang \in Langs /\ pull.bundle # None
      BY <1>3, Facts DEF Hold, PullCarries
    <2>2. ProgramTypes'
      BY <1>3, <2>1, Facts DEF Hold, ProgramTypes
    <2>3. PullTypes' /\ PullCarries'
      <3>1. pull' \in {[pull EXCEPT !.at = "check"], [pull EXCEPT !.at = "switch"]}
        BY <1>3 DEF Hold
      <3> QED BY <1>3, <2>1, <3>1 DEF Hold, MainTypes, PullCarries, NoPlan, Switching
    <2>4. main # "down"
      BY <1>3 DEF Hold, NoPull
    <2> QED BY <1>3, <2>2, <2>3, <2>4, Kept DEF Hold, MainTypes, PlanCarries, Switching, host
  <1>4. CASE SwitchNow
    <2>1. BeginSwitch("pull") /\ pending # None
      BY <1>4 DEF SwitchNow
    <2>2. ProgramTypes' /\ PlanTypes' /\ PlanCarries' /\ running' \in [Langs -> BOOLEAN]
      BY <1>4, <2>1, BeginTypes DEF SwitchNow
    <2>3. PullTypes' /\ PullCarries'
      BY <1>4 DEF SwitchNow, MainTypes, PullCarries
    <2>4. ThreadTypes'
      BY <1>4, <2>2 DEF ThreadTypes, SwitchNow
    <2>5. main # "down"
      BY <1>4 DEF SwitchNow, NoPull
    <2> QED BY <1>4, <2>2, <2>3, <2>4, <2>5, Kept DEF SwitchNow, MainTypes, host
  <1>5. CASE NoSwitchNow
    <2>1. PullTypes' /\ PullCarries'
      BY <1>5 DEF NoSwitchNow, MainTypes, PullCarries, program
    <2>2. main # "down"
      BY <1>5 DEF NoSwitchNow, NoPull
    <2> QED BY <1>5, <2>1, <2>2, Kept DEF NoSwitchNow, MainTypes, PlanCarries, Switching, program, host
  <1>6. CASE Store
    <2>1. PullTypes' /\ PullCarries'
      BY <1>6 DEF Store, MainTypes, PullCarries, NoPull, program
    <2>2. ProgramTypes'
      BY <1>6 DEF Store, ProgramTypes, MainTypes, program
    <2> QED BY <1>6, <2>1, <2>2, Kept DEF Store, MainTypes, PlanCarries, Switching, program, host
  <1>7. CASE Fetch
    <2>1. PullTypes' /\ PullCarries'
      BY <1>7 DEF Fetch, MainTypes, PullCarries, ProgramTypes, program
    <2> QED BY <1>7, <2>1, Kept DEF Fetch, Up, MainTypes, PlanCarries, Switching, program, host
  <1>8. CASE Publish
    <2>1. cloud' \in Bundles
      <3>1. PICK l \in Langs : cloud' = [lang |-> l, version |-> cloud.version + 1]
        BY <1>8 DEF Publish
      <3>2. cloud.version + 1 \in 1 .. MaxVersion
        BY <1>8, ProgramHostAssumption DEF Publish, ProgramTypes, Bundles
      <3> QED BY <3>1, <3>2 DEF Bundles
    <2>2. ProgramTypes'
      BY <1>8, <2>1 DEF Publish, ProgramTypes, program
    <2> QED BY <1>8, <2>2, Kept DEF Publish, PullCarries, PlanCarries, Switching, program, host
  <1>9. CASE Command
    <2>1. active \in Langs
      BY <1>9 DEF Command, ProgramTypes
    <2>2. waiting' \in [Langs -> BOOLEAN]
      BY <1>9, <2>1 DEF Command, WorkTypes
    <2>3. WorkTypes'
      BY <1>9, <2>2 DEF Command, WorkTypes
    <2> QED BY <1>9, <2>3, Kept DEF Command, PullCarries, PlanCarries, Switching, program, host
  <1> QED BY <1>1, <1>2, <1>3, <1>4, <1>5, <1>6, <1>7, <1>8, <1>9 DEF PullNext

\* The host's start keeps the types.
LEMMA HostStartTypes ==
  ASSUME ThreadTypes, PlanTypes, active \in Langs, HostStart PROVE ThreadTypes' /\ started' \in BOOLEAN
  <1>1. CASE Switching
    BY <1>1, Kept DEF HostStart, PlanTypes
  <1>2. CASE ~Switching
    <2>1. refusing \in BOOLEAN
      BY DEF ThreadTypes
    <2> QED BY <1>2, <2>1, StartedTypes DEF HostStart
  <1> QED BY <1>1, <1>2

\* Every step of main's thread keeps the type invariant.
LEMMA MainTInv ==
  ASSUME TInv, MainNext \/ StopAsked \/ ProcessGone PROVE TInv'
  <1> USE DEF TInv, HostTypes, PullCarries, PlanCarries
  <1> DEFINE Places == {"down", "boot", "up", "start", "waiting", "stopping", "joining", "ended"}
  <1>1. CASE NewProcess
    <2>1. ProgramTypes'
      BY <1>1, Facts DEF NewProcess, ProgramTypes, DownIsEmpty
    <2>2. busy' \in [Langs -> BOOLEAN]
      BY <1>1 DEF NewProcess, WorkTypes, ProgramTypes, Bundles
    <2>3. WorkTypes'
      BY <1>1, <2>2 DEF NewProcess, WorkTypes
    <2> QED BY <1>1, <2>1, <2>3, Kept DEF NewProcess, MainTypes, DownIsEmpty, Switching, host
  <1>2. CASE MainStarts \/ MainRestarts
    <2>1. active # 0 \/ MainStarts
      BY <1>2 DEF MainRestarts, DownIsEmpty
    <2>2. CASE active # 0
      <3>1. ThreadTypes' /\ started' \in BOOLEAN
        BY <1>2, <2>2, HostStartTypes DEF MainStarts, MainRestarts, ProgramTypes
      <3>2. PlanTypes'
        BY <1>2, <3>1 DEF MainStarts, MainRestarts, PlanTypes, program
      <3> QED BY <1>2, <3>1, <3>2, Kept DEF MainStarts, MainRestarts, MainTypes, DownIsEmpty, Switching, program
    <2>3. CASE active = 0 /\ MainStarts
      BY <2>3, Kept DEF MainStarts, MainTypes, DownIsEmpty, Switching, program, host
    <2> QED BY <2>1, <2>2, <2>3
  <1>3. CASE MainChecks
    BY <1>3, Kept DEF MainChecks, NeedsStart, MainTypes, DownIsEmpty, Switching, program, host
  <1>4. CASE StopAsked
    <2>1. stopping' \in Langs \cup {0} /\ main' \in {"waiting", "stopping"}
      BY <1>4 DEF StopAsked, MainTypes, ProgramTypes
    <2>2. stops' = 1 /\ started' = FALSE
      BY <1>4 DEF StopAsked, DownIsEmpty
    <2>3. PlanTypes'
      BY <1>4, <2>2, IdlePlan DEF StopAsked, PlanTypes, program
    <2> QED BY <1>4, <2>1, <2>3, Kept DEF StopAsked, MainTypes, DownIsEmpty, Switching, program
  <1>5. CASE StopGoesOn
    <2>1. stopping' \in Langs \cup {0}
      BY <1>5 DEF StopGoesOn, ProgramTypes
    <2> QED BY <1>5, <2>1, Kept DEF StopGoesOn, MainTypes, DownIsEmpty, Switching, program, host
  <1>6. CASE RuntimeStops
    <2>1. running' \in [Langs -> BOOLEAN] /\ refusing' \in BOOLEAN
      BY <1>6 DEF RuntimeStops, MainTypes, ThreadTypes
    <2>2. ThreadTypes'
      BY <1>6, <2>1 DEF RuntimeStops, ThreadTypes
    <2>3. PlanCarries'
      BY <1>6 DEF RuntimeStops, Switching, program
    <2> QED BY <1>6, <2>2, <2>3, Kept DEF RuntimeStops, MainTypes, DownIsEmpty, Switching, program, host
  <1>7. CASE StopDone
    BY <1>7, Kept DEF StopDone, MainTypes, DownIsEmpty, Switching, program, host
  <1>8. CASE ProcessGone
    <2>1. ThreadTypes'
      BY <1>8 DEF ProcessGone, ThreadTypes, NoRuntime
    <2>2. WorkTypes'
      BY <1>8 DEF ProcessGone, WorkTypes, NoRuntime
    <2>3. ProgramTypes'
      BY <1>8 DEF ProcessGone, ProgramTypes, None
    <2>4. PlanTypes'
      BY <1>8, IdlePlan DEF ProcessGone, PlanTypes
    <2>5. MainTypes'
      BY <1>8 DEF ProcessGone, MainTypes, NoPull
    <2> QED BY <1>8, <2>1, <2>2, <2>3, <2>4, <2>5 DEF ProcessGone, DownIsEmpty, Switching, NoPull, NoPlan
  <1> QED BY <1>1, <1>2, <1>3, <1>4, <1>5, <1>6, <1>7, <1>8 DEF MainNext

\* A new node satisfies the type invariant.
LEMMA InitTInv == Init => TInv
  <1> SUFFICES ASSUME Init PROVE TInv
    OBVIOUS
  <1>1. cloud \in Bundles
    BY ProgramHostAssumption DEF Init, Bundles
  <1>2. ProgramTypes
    BY <1>1 DEF Init, ProgramTypes, None
  <1>3. PlanTypes
    BY IdlePlan DEF Init, PlanTypes
  <1>7. MainTypes
    BY DEF Init, MainTypes, NoPull
  <1>4. ThreadTypes
    BY DEF Init, ThreadTypes, NoRuntime
  <1>5. WorkTypes
    BY DEF Init, WorkTypes, NoRuntime
  <1>6. PullCarries /\ PlanCarries /\ DownIsEmpty
    BY DEF Init, PullCarries, PlanCarries, DownIsEmpty, Switching, NoPlan, NoPull
  <1> QED BY <1>2, <1>3, <1>4, <1>5, <1>6, <1>7 DEF TInv, HostTypes

\* Every step keeps the type invariant.
LEMMA NextTInv == TInv /\ [Next]_vars => TInv'
  <1> SUFFICES ASSUME TInv, [Next]_vars PROVE TInv'
    OBVIOUS
  <1>1. CASE UNCHANGED vars
    BY <1>1, Kept DEF vars, TInv, HostTypes, PullCarries, PlanCarries, DownIsEmpty, Switching, program, host
  <1>2. CASE Next
    BY <1>2, RuntimeTInv, SwitchTInv, PullTInv, MainTInv DEF Next
  <1> QED BY <1>1, <1>2

\* What the properties except keeps its type.
LEMMA NextHistory == TInv /\ HistoryTypes /\ [Next]_vars => HistoryTypes'
  <1> SUFFICES ASSUME TInv, HistoryTypes, [Next]_vars PROVE HistoryTypes'
    OBVIOUS
  <1> USE DEF HistoryTypes
  <1>1. ASSUME NEW by, Begun(by) PROVE HistoryTypes'
    BY <1>1 DEF Begun
  <1>2. ASSUME NEW l, NEW b, Takes(l, b), failed' \in Bundles \cup {None} PROVE HistoryTypes'
    BY <1>2 DEF Takes
  <1>3. CASE UNCHANGED vars
    BY <1>3 DEF vars, history
  <1>4. CASE \E l \in Langs : RuntimeNext(l)
    BY <1>1, <1>4 DEF RuntimeNext, LoopTop, Pass, SamplerEnds, AfterPassSwitches, AfterPass, history
  <1>5. CASE TakeOver
    BY <1>2, <1>5 DEF TakeOver
  <1>6. CASE TakeOverFails
    <2>1. plan.bundle \in Bundles
      BY <1>6 DEF TakeOverFails, Takes, TInv, PlanCarries
    <2> QED BY <1>2, <1>6, <2>1 DEF TakeOverFails
  <1>7. CASE PullNext \/ Publish \/ Fetch \/ Command
    BY <1>1, <1>7 DEF PullNext, Refuse, Load, Hold, SwitchNow, NoSwitchNow, Store, Publish, Fetch, Command, history
  <1>8. CASE MainNext \/ StopAsked
    BY <1>8 DEF MainNext, NewProcess, MainStarts, MainChecks, MainRestarts, StopGoesOn, RuntimeStops, StopDone,
                StopAsked, history
  <1>9. CASE ProcessGone
    BY <1>9 DEF ProcessGone, NoRuntime
  <1> QED BY <1>3, <1>4, <1>5, <1>6, <1>7, <1>8, <1>9 DEF Next

\* Whatever the bounds: every variable keeps its type, and a held bundle is of the other language.
THEOREM TypeCorrect == Spec => []TypeOK
  <1>1. Init => HistoryTypes
    BY DEF Init, HistoryTypes, NoRuntime
  <1>2. TInv /\ HistoryTypes => TypeOK
    BY DEF TInv, TypeOK
  <1> QED BY <1>1, <1>2, InitTInv, NextTInv, NextHistory, PTL DEF Spec

-----------------------------------------------------------------------------
(***************************************************************************)
(* Never two runtimes.  Only the active runtime has threads; a switch in   *)
(* progress has lowered every flag; and until main stops the host, a       *)
(* runtime whose flag is down, with no switch to blame, has no threads.    *)
(***************************************************************************)
OnlyActive == \A l \in Langs : running[l] \/ ~Joined(l) => l = active
FlagsDown == Switching => \A l \in Langs : ~running[l]
NoStray ==
  ~Switching /\ main \in {"boot", "up", "start"} => \A l \in Langs : running[l] \/ Joined(l)

Alone == OnlyActive /\ FlagsDown /\ NoStray
AllJoined == \A l \in Langs : Joined(l)

\* A runtime is started, if at all, with every thread gone.
LEMMA StartedAlone ==
  ASSUME ThreadTypes, NEW asked \in BOOLEAN, NEW l \in Langs, NEW refused,
         AllJoined \/ running[l], StartedIf(asked, l, refused)
  PROVE  /\ \A m \in Langs : m # l => (running'[m] = running[m] /\ (Joined(m)' <=> Joined(m)))
         /\ ~running[l] /\ running'[l] => AllJoined
         /\ running'[l] \/ (Joined(l)' <=> Joined(l))
         /\ running[l] => running'[l]
  <1> DEFINE starts == asked /\ ~running[l]
  <1>1. \A m \in Langs : m # l => (running'[m] = running[m] /\ loop'[m] = loop[m] /\ sampling'[m] = sampling[m])
    BY DEF ThreadTypes, StartedIf
  <1>2. ~running[l] /\ running'[l] => AllJoined
    OBVIOUS
  <1>3. running'[l] = (running[l] \/ starts) /\ loop'[l] = (IF starts THEN "top" ELSE loop[l])
        /\ sampling'[l] = (sampling[l] \/ starts)
    BY DEF ThreadTypes, StartedIf
  <1>4. CASE starts
    BY <1>1, <1>2, <1>3, <1>4 DEF Joined
  <1>5. CASE ~starts
    BY <1>1, <1>2, <1>3, <1>5 DEF Joined, ThreadTypes
  <1> QED BY <1>4, <1>5

\* An action that starts nothing and adds no thread.
LEMMA NothingStarted ==
  ASSUME UNCHANGED <<running, loop, sampling>>
  PROVE  \A l \in Langs : running'[l] = running[l] /\ (Joined(l)' <=> Joined(l))
  BY DEF Joined

StartedWithNone == \A l \in Langs : ~running[l] /\ running'[l] => AllJoined

\* No flag and no thread changes, and the active runtime and the switch do not either.
LEMMA QuietStep ==
  ASSUME Alone, UNCHANGED <<running, loop, sampling, active, plan>>,
         NoStray' \/ main' \in {"waiting", "stopping", "joining", "ended"} \/ main \in {"boot", "up", "start"}
  PROVE  Alone' /\ StartedWithNone
  <1>1. StartedWithNone
    BY DEF StartedWithNone
  <1>2. OnlyActive' /\ FlagsDown'
    BY NothingStarted DEF Alone, OnlyActive, FlagsDown, Switching
  <1>3. NoStray'
    BY NothingStarted DEF Alone, NoStray, Switching
  <1> QED BY <1>1, <1>2, <1>3 DEF Alone

\* A switch begins: every flag is down from here.
LEMMA BeginAlone ==
  ASSUME TInv, Alone, NEW by \in {"pull", "thread"}, BeginSwitch(by), pending # None,
         UNCHANGED <<cloud, stored, active, loaded, host>>, UNCHANGED sampling,
         \A l \in Langs : loop'[l] = loop[l] \/ loop[l] # "none"
  PROVE  Alone' /\ StartedWithNone
  <1>1. plan' # NoPlan
    BY BeginTypes
  <1>2. active \in Langs
    BY DEF TInv, HostTypes, ProgramTypes
  <1>3. \A l \in Langs : ~running'[l]
    BY <1>2 DEF Alone, OnlyActive, BeginSwitch, TInv, HostTypes, ThreadTypes
  <1>4. \A l \in Langs : ~Joined(l)' => ~Joined(l)
    BY DEF Joined
  <1> QED BY <1>1, <1>3, <1>4 DEF Alone, OnlyActive, FlagsDown, NoStray, Switching, StartedWithNone

\* Alone: a runtime's steps, the switch, the pull and the command, main, and the whole.
LEMMA RuntimeAlone ==
  ASSUME TInv, Alone, NEW l \in Langs, RuntimeNext(l) PROVE Alone' /\ StartedWithNone
  <1> USE DEF TInv, HostTypes, ThreadTypes
  <1>1. CASE AfterPassSwitches(l)
    <2>1. \A m \in Langs : loop'[m] = loop[m] \/ loop[m] # "none"
      BY <1>1 DEF AfterPassSwitches, Enters
    <2> QED BY <1>1, <2>1, BeginAlone DEF AfterPassSwitches, HookSwitches
  <1>2. CASE LoopTop(l) \/ Pass(l) \/ SamplerEnds(l) \/ AfterPass(l)
    <2>1. UNCHANGED <<running, active, plan, main>>
      BY <1>2 DEF LoopTop, Pass, SamplerEnds, AfterPass, program
    <2>2. \A m \in Langs : ~Joined(m)' => ~Joined(m)
      BY <1>2 DEF LoopTop, Pass, SamplerEnds, AfterPass, Enters, Joined
    <2>3. StartedWithNone
      BY <2>1 DEF StartedWithNone
    <2> QED BY <2>1, <2>2, <2>3 DEF Alone, OnlyActive, FlagsDown, NoStray, Switching
  <1> QED BY <1>1, <1>2 DEF RuntimeNext

\* The end of a switch starts a runtime only with every thread ended.
LEMMA SwitchAlone ==
  ASSUME TInv, Alone, TakeOver \/ TakeOverFails PROVE Alone' /\ StartedWithNone
  <1> USE DEF TInv, HostTypes
  <1>1. PICK l \in Langs, b \in Bundles \cup {None} : Takes(l, b)
    BY Facts DEF TakeOver, TakeOverFails, Takes, PlanCarries, ProgramTypes
  <1>2. AllJoined /\ \A m \in Langs : ~running[m]
    BY <1>1 DEF Takes, Alone, OnlyActive, FlagsDown, AllJoined
  <1>3. StartsAfter \in BOOLEAN
    BY DEF StartsAfter, PlanTypes
  <1>4. /\ \A m \in Langs : m # l => (running'[m] = running[m] /\ (Joined(m)' <=> Joined(m)))
        /\ running'[l] \/ (Joined(l)' <=> Joined(l))
    BY <1>1, <1>2, <1>3, StartedAlone DEF Takes
  <1>5. StartedWithNone
    BY <1>2 DEF StartedWithNone
  <1>6. active' = l /\ ~Switching'
    BY <1>1 DEF Takes, Switching
  <1> QED BY <1>2, <1>4, <1>5, <1>6 DEF Alone, OnlyActive, FlagsDown, NoStray, AllJoined

\* No step of a pull starts a thread.
LEMMA PullAlone ==
  ASSUME TInv, Alone, PullNext \/ Fetch \/ Publish \/ Command PROVE Alone' /\ StartedWithNone
  <1> USE DEF TInv, HostTypes
  <1>1. CASE SwitchNow
    BY <1>1, BeginAlone DEF SwitchNow
  <1>2. CASE Load
    <2>1. UNCHANGED <<running, loop, sampling, plan, main>> /\ (active' = active \/ active = 0)
      BY <1>2 DEF Load, threads
    <2>2. active = 0 => \A l \in Langs : ~running[l] /\ Joined(l)
      BY Facts DEF Alone, OnlyActive
    <2>3. StartedWithNone
      BY <2>1 DEF StartedWithNone
    <2> QED BY <2>1, <2>2, <2>3, NothingStarted DEF Alone, OnlyActive, FlagsDown, NoStray, Switching
  <1>3. CASE Refuse \/ Hold \/ NoSwitchNow \/ Store \/ Fetch \/ Publish \/ Command
    <2>1. UNCHANGED <<running, loop, sampling, active, plan, main>>
      BY <1>3 DEF Refuse, Hold, NoSwitchNow, Store, Fetch, Publish, Command, threads, program
    <2> QED BY <2>1, QuietStep, NothingStarted DEF Alone, NoStray, Switching
  <1> QED BY <1>1, <1>2, <1>3 DEF PullNext

\* main starts only the active runtime, and only outside a switch.
LEMMA MainAlone ==
  ASSUME TInv, Alone, MainNext \/ StopAsked \/ ProcessGone PROVE Alone' /\ StartedWithNone
  <1> USE DEF TInv, HostTypes
  <1>1. CASE NewProcess
    <2>1. UNCHANGED <<running, loop, sampling, plan>> /\ active = 0
      BY <1>1 DEF NewProcess, threads, DownIsEmpty
    <2>2. \A l \in Langs : ~running[l] /\ Joined(l)
      BY <2>1, Facts DEF Alone, OnlyActive
    <2> QED BY <2>1, <2>2, NothingStarted DEF Alone, OnlyActive, FlagsDown, NoStray, Switching, StartedWithNone
  <1>2. CASE ((MainStarts /\ active # 0) \/ MainRestarts) /\ ~Switching
    <2>1. active \in Langs /\ UNCHANGED <<active, plan>> /\ main \in {"boot", "start"}
      BY <1>2 DEF MainStarts, MainRestarts, DownIsEmpty, ProgramTypes, program
    <2>2. StartedIf(TRUE, active, refusing)
      BY <1>2 DEF MainStarts, MainRestarts, HostStart
    <2>3. AllJoined \/ running[active]
      BY <1>2, <2>1 DEF Alone, OnlyActive, NoStray, AllJoined
    <2>4. /\ \A m \in Langs : m # active => (running'[m] = running[m] /\ (Joined(m)' <=> Joined(m)))
          /\ ~running[active] /\ running'[active] => AllJoined
          /\ running'[active] \/ (Joined(active)' <=> Joined(active))
          /\ running[active] => running'[active]
      BY <2>1, <2>2, <2>3, StartedAlone
    <2> QED BY <1>2, <2>1, <2>3, <2>4 DEF Alone, OnlyActive, FlagsDown, NoStray, AllJoined, Switching,
         StartedWithNone
  <1>3. CASE (MainStarts \/ MainRestarts) /\ (active = 0 \/ Switching)
    <2>1. UNCHANGED <<running, loop, sampling, active, plan>> /\ main \in {"boot", "up", "start"}
      BY <1>3 DEF MainStarts, MainRestarts, HostStart, DownIsEmpty, threads, program
    <2> QED BY <2>1, QuietStep
  <1>4. CASE MainChecks \/ StopAsked \/ StopGoesOn \/ StopDone
    <2>1. UNCHANGED <<running, loop, sampling, active, plan>>
      BY <1>4 DEF MainChecks, StopAsked, StopGoesOn, StopDone, threads, program
    <2>2. main \in {"boot", "up", "start"} \/ main' \in {"waiting", "stopping", "joining", "ended"}
      BY <1>4 DEF MainChecks, StopAsked, StopGoesOn, StopDone
    <2> QED BY <2>1, <2>2, QuietStep
  <1>5. CASE RuntimeStops
    <2>1. /\ UNCHANGED <<loop, sampling, active, plan>> /\ main' = "joining"
          /\ \A l \in Langs : running'[l] => running[l]
      BY <1>5 DEF RuntimeStops, program, ThreadTypes
    <2>2. \A l \in Langs : Joined(l)' <=> Joined(l)
      BY <2>1 DEF Joined
    <2> QED BY <2>1, <2>2 DEF Alone, OnlyActive, FlagsDown, NoStray, Switching, StartedWithNone
  <1>6. CASE ProcessGone
    <2>1. \A l \in Langs : ~running'[l] /\ Joined(l)'
      BY <1>6 DEF ProcessGone, NoRuntime, Joined
    <2> QED BY <2>1 DEF Alone, OnlyActive, FlagsDown, NoStray, StartedWithNone
  <1> QED BY <1>1, <1>2, <1>3, <1>4, <1>5, <1>6 DEF MainNext

\* A new node runs no thread.
LEMMA InitAlone == Init => Alone
  BY DEF Init, Alone, OnlyActive, FlagsDown, NoStray, NoRuntime, Joined

\* Every step keeps the one runtime alone, and starts one only with no thread alive.
LEMMA NextAlone == TInv /\ Alone /\ [Next]_vars => Alone' /\ StartedWithNone
  <1> SUFFICES ASSUME TInv, Alone, [Next]_vars PROVE Alone' /\ StartedWithNone
    OBVIOUS
  <1>1. CASE UNCHANGED vars
    <2>1. UNCHANGED <<running, loop, sampling, active, plan, main>>
      BY <1>1 DEF vars, threads, program
    <2> QED BY <2>1, QuietStep, NothingStarted DEF Alone, NoStray, Switching
  <1>2. CASE Next
    BY <1>2, RuntimeAlone, SwitchAlone, PullAlone, MainAlone DEF Next
  <1> QED BY <1>1, <1>2

\* Never two runtime threads, at any instant, whoever starts the runtime and however the switch, a
\* stop and a pull fall: a runtime is started only when no thread of either is alive.
THEOREM StartsAloneHolds == Spec => StartsAlone
  <1>1. StartedWithNone => \A l \in Langs : ~running[l] /\ running'[l]
                              => \A m \in Langs : ~sampling[m] /\ loop[m] = "none"
    BY DEF StartedWithNone, AllJoined, Joined
  <1> QED BY <1>1, InitTInv, NextTInv, InitAlone, NextAlone, PTL DEF Spec, StartsAlone

\* Only the runtime that is active has a loop, at every state.
LEMMA AlwaysAlone == Spec => [](TInv /\ HistoryTypes /\ Alone)
  <1>1. TInv /\ HistoryTypes /\ Alone /\ [Next]_vars => TInv' /\ HistoryTypes' /\ Alone'
    BY NextTInv, NextHistory, NextAlone
  <1>2. Init => HistoryTypes
    BY DEF Init, HistoryTypes, NoRuntime
  <1> QED BY <1>1, <1>2, InitTInv, InitAlone, PTL DEF Spec

-----------------------------------------------------------------------------
(***************************************************************************)
(* Nothing left behind, and a latched E-stop keeps language 3.  A switch   *)
(* begins with no run in progress, no command waiting and no pass under    *)
(* way, or it is known as late; until its take-over no pass may make one.  *)
(***************************************************************************)
QuietSwitch == Switching => late[active] \/ (~BusyReason(active) /\ loop[active] # "pass")
UnlatchedSwitch ==
  Switching /\ active = 3 /\ plan.bundle.lang # 3 => passing \/ (~latched /\ loop[3] # "pass")

LeaveInv == NothingLeftBehind /\ QuietSwitch /\ UnlatchedSwitch

\* A switch begins: what it was begun over is known.
LEMMA BeginLeaves ==
  ASSUME TInv, HistoryTypes, LeaveInv, NEW by \in {"pull", "thread"}, BeginSwitch(by), Begun(by),
         pending # None, ~LeavingLatched,
         by = "thread" => ~BusyReason(active) /\ loop[active] = "hook",
         UNCHANGED <<active, busy, waiting, latched>>,
         loop'[active] = "pass" => loop[active] = "pass"
  PROVE  LeaveInv'
  <1> USE DEF LeaveInv, NothingLeftBehind, BusyReason
  <1>1. active \in Langs
    BY DEF TInv, HostTypes, ProgramTypes
  <1>2. /\ late'[active] <=> (by = "pull" /\ (BusyReason(active) \/ loop[active] = "pass"))
        /\ \A l \in Langs : l # active => late'[l] = late[l]
        /\ passing' <=> (by = "pull" /\ loop[active] = "pass")
    BY <1>1 DEF Begun, HistoryTypes
  <1>3. plan'.bundle = pending
    BY DEF BeginSwitch
  <1>4. NothingLeftBehind'
    BY <1>2
  <1>5. QuietSwitch'
    BY <1>2 DEF QuietSwitch
  <1>6. UnlatchedSwitch'
    BY <1>2, <1>3 DEF UnlatchedSwitch, LeavingLatched
  <1> QED BY <1>4, <1>5, <1>6

\* A step of a runtime's loop; the hook begins a switch only with nothing in progress.
LEMMA RuntimeLeaves ==
  ASSUME TInv, HistoryTypes, Alone, LeaveInv, NEW l \in Langs, RuntimeNext(l)
  PROVE  LeaveInv' /\ (active = 3 /\ active' = 1 /\ latched => passing)
  <1>1. CASE LoopTop(l) \/ SamplerEnds(l) \/ AfterPass(l)
    <2>1. UNCHANGED <<active, plan, busy, waiting, latched, late, passing>>
          /\ \A m \in Langs : loop'[m] = "pass" => running[m] \/ loop[m] = "pass"
      BY <1>1 DEF LoopTop, SamplerEnds, AfterPass, Enters, program, work, history, TInv, HostTypes, ThreadTypes
    <2>2. Switching => ~running[active] /\ active \in Langs
      BY DEF Alone, FlagsDown, TInv, HostTypes, PlanCarries, ProgramTypes
    <2>3. NothingLeftBehind'
      BY <2>1 DEF LeaveInv, NothingLeftBehind
    <2>4. QuietSwitch'
      BY <2>1, <2>2 DEF LeaveInv, QuietSwitch, BusyReason, Switching
    <2>5. UnlatchedSwitch'
      BY <2>1, <2>2 DEF LeaveInv, UnlatchedSwitch, Switching
    <2> QED BY <2>1, <2>3, <2>4, <2>5 DEF LeaveInv
  <1>2. CASE Pass(l)
    <2>1. l = active /\ loop[l] = "pass"
      BY <1>2 DEF Alone, OnlyActive, Joined, Pass
    <2>2. /\ UNCHANGED <<active, plan, late, passing>>
          /\ \A m \in Langs : m # l => busy'[m] = busy[m] /\ waiting'[m] = waiting[m]
          /\ loop'[l] # "pass"
          /\ l # 3 => latched' = latched
      BY <1>2 DEF Pass, Enters, program, history, TInv, HostTypes, ThreadTypes, WorkTypes
    <2>3. NothingLeftBehind'
      BY <2>1, <2>2 DEF LeaveInv, NothingLeftBehind
    <2>4. QuietSwitch'
      BY <2>1, <2>2 DEF LeaveInv, QuietSwitch, Switching
    <2>5. UnlatchedSwitch'
      BY <2>1, <2>2 DEF LeaveInv, UnlatchedSwitch, Switching
    <2> QED BY <2>2, <2>3, <2>4, <2>5 DEF LeaveInv
  <1>3. CASE AfterPassSwitches(l)
    <2>1. l = active /\ active \in Langs /\ loop[active] = "hook"
      BY <1>3 DEF Alone, OnlyActive, AfterPassSwitches, HookSwitches
    <2>2. ~HoldReason /\ pending # None /\ BeginSwitch("thread") /\ Begun("thread")
      BY <1>3 DEF AfterPassSwitches, HookSwitches
    <2>3. ~BusyReason(active) /\ ~LeavingLatched
      BY <2>1, <2>2, Facts DEF HoldReason
    <2>4. UNCHANGED <<active, busy, waiting, latched>> /\ loop'[active] = "top"
      BY <1>3, <2>1 DEF AfterPassSwitches, Enters, work, TInv, HostTypes, ThreadTypes
    <2>5. LeaveInv'
      BY <2>1, <2>2, <2>3, <2>4, BeginLeaves
    <2> QED BY <2>4, <2>5
  <1> QED BY <1>1, <1>2, <1>3 DEF RuntimeNext

\* The end of a switch: what is left on the runtime that is left came late.
LEMMA SwitchLeaves ==
  ASSUME TInv, HistoryTypes, Alone, LeaveInv, TakeOver \/ TakeOverFails
  PROVE  LeaveInv' /\ (active = 3 /\ active' = 1 /\ latched => passing)
  <1>1. PICK l, b : l \in Langs /\ Takes(l, b) /\ (l # active => l = plan.bundle.lang)
    BY Facts DEF TakeOver, TakeOverFails, Takes, PlanCarries, ProgramTypes, TInv, HostTypes
  <1>2. Switching /\ ~Switching' /\ active' = l /\ UNCHANGED waiting /\ active \in Langs
    BY <1>1 DEF Takes, Switching, TInv, HostTypes, PlanCarries, ProgramTypes
  <1>3. \A m \in Langs : m # l => busy'[m] = busy[m] /\ late'[m] = late[m]
    BY <1>1 DEF Takes, TInv, HostTypes, WorkTypes, HistoryTypes
  <1>4. ~late[active] => ~busy[active] /\ ~waiting[active]
    BY <1>2 DEF LeaveInv, QuietSwitch, BusyReason
  <1>5. NothingLeftBehind'
    BY <1>2, <1>3, <1>4 DEF LeaveInv, NothingLeftBehind
  <1>6. active = 3 /\ active' = 1 /\ latched => passing
    BY <1>1, <1>2 DEF LeaveInv, UnlatchedSwitch
  <1> QED BY <1>2, <1>5, <1>6 DEF LeaveInv, QuietSwitch, UnlatchedSwitch

\* A pull that switches found nothing in progress; what has begun since is known.
LEMMA PullLeaves ==
  ASSUME TInv, HistoryTypes, Alone, LeaveInv, PullNext \/ Fetch \/ Publish \/ Command
  PROVE  LeaveInv' /\ (active = 3 /\ active' = 1 /\ latched => passing)
  <1>1. CASE Refuse \/ Hold \/ NoSwitchNow \/ Store \/ Fetch \/ Publish
    <2>1. UNCHANGED <<active, plan, busy, waiting, loop, latched, late, passing>>
      BY <1>1 DEF Refuse, Hold, NoSwitchNow, Store, Fetch, Publish, program, work, threads, history
    <2> QED BY <2>1 DEF LeaveInv, NothingLeftBehind, QuietSwitch, UnlatchedSwitch, BusyReason, Switching
  <1>2. CASE Load
    <2>1. /\ ~Switching /\ UNCHANGED <<plan, waiting, late>> /\ active' = pull.bundle.lang
          /\ active' \in Langs
      BY <1>2, Facts DEF Load, PullCarries, TInv
    <2>2. active \in {0, active'}
      BY <1>2, <2>1 DEF Load
    <2>3. \A m \in Langs : m # active' => busy'[m] = busy[m]
      BY <1>2, <2>1 DEF Load, TInv, HostTypes, WorkTypes
    <2>4. NothingLeftBehind'
      BY <2>1, <2>2, <2>3, Facts DEF LeaveInv, NothingLeftBehind
    <2> QED BY <2>1, <2>2, <2>4 DEF LeaveInv, QuietSwitch, UnlatchedSwitch, Switching
  <1>3. CASE SwitchNow
    <2>1. pending # None /\ ~LeavingLatched /\ BeginSwitch("pull") /\ Begun("pull")
      BY <1>3 DEF SwitchNow
    <2>2. UNCHANGED <<active, busy, waiting, latched, loop>>
      BY <1>3 DEF SwitchNow, work
    <2>3. LeaveInv'
      BY <2>1, <2>2, BeginLeaves
    <2> QED BY <2>2, <2>3
  <1>4. CASE Command
    <2>1. /\ ~Switching /\ active \in Langs /\ UNCHANGED <<active, plan, busy, late>>
          /\ \A m \in Langs : m # active => waiting'[m] = waiting[m]
      BY <1>4 DEF Command, program, history, TInv, HostTypes, ProgramTypes, WorkTypes
    <2>2. NothingLeftBehind'
      BY <2>1 DEF LeaveInv, NothingLeftBehind
    <2> QED BY <2>1, <2>2 DEF LeaveInv, QuietSwitch, UnlatchedSwitch, Switching
  <1> QED BY <1>1, <1>2, <1>3, <1>4 DEF PullNext

\* main's thread makes no work on a runtime that does not run.
LEMMA MainLeaves ==
  ASSUME TInv, HistoryTypes, Alone, LeaveInv, MainNext \/ StopAsked \/ ProcessGone
  PROVE  LeaveInv' /\ (active = 3 /\ active' = 1 /\ latched => passing)
  <1>1. CASE NewProcess
    <2>1. active = 0 /\ ~Switching /\ ~Switching'
      BY <1>1 DEF NewProcess, DownIsEmpty, Switching, TInv
    <2>2. /\ UNCHANGED <<waiting, late>>
          /\ \A m \in Langs : busy'[m] => busy[m] \/ m = active'
          /\ active' = 0 => UNCHANGED busy
      BY <1>1, Facts DEF NewProcess, ProgramTypes, WorkTypes, TInv, HostTypes, history
    <2>3. NothingLeftBehind'
      BY <2>1, <2>2, Facts DEF LeaveInv, NothingLeftBehind
    <2> QED BY <2>1, <2>3 DEF LeaveInv, QuietSwitch, UnlatchedSwitch
  <1>2. CASE MainStarts \/ MainRestarts
    <2>1. UNCHANGED <<active, plan, busy, waiting, latched, late, passing>>
      BY <1>2 DEF MainStarts, MainRestarts, program, work, history
    <2>2. Switching => UNCHANGED loop
      BY <1>2 DEF MainStarts, MainRestarts, HostStart, threads
    <2> QED BY <2>1, <2>2 DEF LeaveInv, NothingLeftBehind, QuietSwitch, UnlatchedSwitch, BusyReason, Switching
  <1>3. CASE MainChecks \/ StopAsked \/ StopGoesOn \/ RuntimeStops \/ StopDone
    <2>1. UNCHANGED <<active, plan, busy, waiting, loop, latched, late, passing>>
      BY <1>3 DEF MainChecks, StopAsked, StopGoesOn, RuntimeStops, StopDone, program, work, threads, history
    <2> QED BY <2>1 DEF LeaveInv, NothingLeftBehind, QuietSwitch, UnlatchedSwitch, BusyReason, Switching
  <1>4. CASE ProcessGone
    BY <1>4 DEF ProcessGone, NoRuntime, Switching, LeaveInv, NothingLeftBehind, QuietSwitch, UnlatchedSwitch
  <1> QED BY <1>1, <1>2, <1>3, <1>4 DEF MainNext

\* Every step leaves nothing behind, nor a latched E-stop, but for what came late.
LEMMA NextLeaves ==
  ASSUME TInv, HistoryTypes, Alone, LeaveInv, [Next]_vars
  PROVE  LeaveInv' /\ (active = 3 /\ active' = 1 /\ latched => passing)
  <1>1. CASE UNCHANGED vars
    BY <1>1 DEF vars, program, threads, work, history, LeaveInv, NothingLeftBehind, QuietSwitch, UnlatchedSwitch,
                BusyReason, Switching
  <1>2. CASE Next
    BY <1>2, RuntimeLeaves, SwitchLeaves, PullLeaves, MainLeaves DEF Next
  <1> QED BY <1>1, <1>2

\* Nothing has begun in a new node.
LEMMA InitLeaves == Init => LeaveInv
  BY DEF Init, LeaveInv, NothingLeftBehind, QuietSwitch, UnlatchedSwitch, NoRuntime, Switching

\* Of the language that is left nothing is busy or waits but what came late.
LEMMA AlwaysLeaves == Spec => []LeaveInv
  <1>1. TInv /\ HistoryTypes /\ Alone /\ LeaveInv /\ [Next]_vars => LeaveInv'
    BY NextLeaves
  <1> QED BY <1>1, InitLeaves, AlwaysAlone, PTL DEF Spec

\* A switch of language leaves no run in progress and no accepted command on the runtime that does not run, but
\* for what came between the check of a pull and the switch it made itself: every switch at the end of a pass,
\* and every pull that nothing came between, leaves nothing.
THEOREM NothingLeft == Spec => []NothingLeftBehind
  <1>1. LeaveInv => NothingLeftBehind
    BY DEF LeaveInv
  <1> QED BY <1>1, AlwaysLeaves, PTL

\* The node does not leave language 3 while the E-stop is latched, but when it latches in a pass that was under
\* way as a pull's own switch began.
THEOREM LatchHolds == Spec => LatchStays
  <1>1. TInv /\ HistoryTypes /\ Alone /\ LeaveInv /\ [Next]_vars
          => [active = 3 /\ active' = 1 /\ latched => passing]_vars
    BY NextLeaves
  <1> QED BY <1>1, AlwaysAlone, AlwaysLeaves, PTL DEF Spec, LatchStays

-----------------------------------------------------------------------------
(***************************************************************************)
(* main's stop is final, but for a switch of a runtime that ran, begun in  *)
(* the stop.  A switch that began before the stop was asked for sees that  *)
(* another stop came (stops); one that begins later, once the runtime's    *)
(* flag is down, finds nothing running to start again.                     *)
(***************************************************************************)
Stops == {"waiting", "stopping", "joining", "ended"}
PlanBefore == Switching => plan.stops <= stops /\ (main \in Stops /\ plan.was => plan.stops < stops)
NotStarted == main \in Stops => ~started
FlagDown == main \in {"waiting", "joining", "ended"} => \A l \in Langs : ~running[l]
StopsOne == main \in {"stopping", "joining"} => \A l \in Langs : running[l] \/ ~Joined(l) => l = stopping
AllEnded == main = "ended" => \A l \in Langs : Joined(l)

StopInv == inStop \/ (PlanBefore /\ NotStarted /\ FlagDown /\ StopsOne /\ AllEnded)

\* A switch begun in a stop has nothing to start again, or is known.
LEMMA BeginStops ==
  ASSUME TInv, Alone, StopInv, NEW by \in {"pull", "thread"}, BeginSwitch(by), Begun(by),
         UNCHANGED <<main, stops, started, sampling, stopping, active>>, active \in Langs,
         \A l \in Langs : loop'[l] = loop[l] \/ loop[l] # "none"
  PROVE  StopInv'
  <1> SUFFICES ASSUME ~inStop' PROVE StopInv'
    BY DEF StopInv
  <1> USE DEF PlanBefore, NotStarted, FlagDown, StopsOne, AllEnded
  <1>1. ~inStop /\ ~(main \in {"stopping", "joining"} /\ running[active])
    BY DEF Begun
  <1>2. stops \in 0 .. 1
    BY DEF TInv, HostTypes, PlanTypes
  <1>3. plan'.was = (running[active] \/ started) /\ plan'.stops = stops
    BY DEF BeginSwitch
  <1>4. \A l \in Langs : running'[l] => running[l]
    BY DEF BeginSwitch, TInv, HostTypes, ThreadTypes
  <1>5. \A l \in Langs : ~Joined(l)' => ~Joined(l)
    BY DEF Joined
  <1>6. PlanBefore /\ NotStarted /\ FlagDown /\ StopsOne /\ AllEnded
    BY <1>1 DEF StopInv
  <1>7. main \in Stops => ~plan'.was
    BY <1>1, <1>3, <1>6 DEF Stops
  <1>8. PlanBefore' /\ NotStarted'
    BY <1>2, <1>3, <1>6, <1>7
  <1>9. FlagDown' /\ StopsOne' /\ AllEnded'
    BY <1>4, <1>5, <1>6
  <1> QED BY <1>8, <1>9 DEF StopInv

\* A step that starts nothing, adds no thread, and leaves main, the switch and the stop as they are.
LEMMA QuietStops ==
  ASSUME StopInv, UNCHANGED <<main, stops, started, stopping, plan, inStop>>,
         \A l \in Langs : (running'[l] => running[l]) /\ (~Joined(l)' => ~Joined(l))
  PROVE  StopInv'
  BY DEF StopInv, PlanBefore, NotStarted, FlagDown, StopsOne, AllEnded, Switching

\* A runtime's own steps keep a stop a stop.
LEMMA RuntimeStopsToo ==
  ASSUME TInv, Alone, StopInv, NEW l \in Langs, RuntimeNext(l) PROVE StopInv'
  <1> USE DEF TInv, HostTypes, ThreadTypes
  <1>1. CASE AfterPassSwitches(l)
    <2>1. \A m \in Langs : loop'[m] = loop[m] \/ loop[m] # "none"
      BY <1>1 DEF AfterPassSwitches, Enters
    <2>2. active \in Langs
      BY <1>1 DEF Alone, OnlyActive, AfterPassSwitches, HookSwitches
    <2> QED BY <1>1, <2>1, <2>2, BeginStops DEF AfterPassSwitches, host
  <1>2. CASE LoopTop(l) \/ Pass(l) \/ SamplerEnds(l) \/ AfterPass(l)
    <2>1. UNCHANGED <<main, stops, started, stopping, plan, running, inStop>>
      BY <1>2 DEF LoopTop, Pass, SamplerEnds, AfterPass, program, host, history
    <2>2. \A m \in Langs : ~Joined(m)' => ~Joined(m)
      BY <1>2 DEF LoopTop, Pass, SamplerEnds, AfterPass, Enters, Joined
    <2> QED BY <2>1, <2>2, QuietStops
  <1> QED BY <1>1, <1>2 DEF RuntimeNext

\* The end of a switch starts nothing after a stop.
LEMMA SwitchStops ==
  ASSUME TInv, Alone, StopInv, TakeOver \/ TakeOverFails PROVE StopInv'
  <1>1. PICK l, b : l \in Langs /\ Takes(l, b)
    BY Facts DEF TakeOver, TakeOverFails, Takes, PlanCarries, ProgramTypes, TInv, HostTypes
  <1>2. /\ Switching /\ ~Switching' /\ UNCHANGED <<main, stops, started, stopping, inStop>>
        /\ StartedIf(StartsAfter, l, refusing \/ active = 3)
    BY <1>1 DEF Takes, Switching, host
  <1> SUFFICES ASSUME ~inStop PROVE StopInv'
    BY <1>2 DEF StopInv
  <1> USE DEF PlanBefore, NotStarted, FlagDown, StopsOne, AllEnded
  <1>3. PlanBefore /\ NotStarted /\ FlagDown /\ StopsOne /\ AllEnded
    BY DEF StopInv
  <1>4. main \in Stops => ~StartsAfter
    BY <1>2, <1>3 DEF StartsAfter, TInv, HostTypes, PlanTypes
  <1>5. main \in Stops => \A m \in Langs : running'[m] = running[m] /\ (Joined(m)' <=> Joined(m))
    BY <1>2, <1>4 DEF StartedIf, Joined, TInv, HostTypes, ThreadTypes
  <1> QED BY <1>2, <1>3, <1>5 DEF StopInv, Stops

\* So do the pull's.
LEMMA PullStops ==
  ASSUME TInv, Alone, StopInv, PullNext \/ Fetch \/ Publish \/ Command PROVE StopInv'
  <1>1. CASE SwitchNow
    <2>1. UNCHANGED <<main, stops, started, sampling, stopping, active, loop>> /\ BeginSwitch("pull") /\ Begun("pull")
      BY <1>1 DEF SwitchNow, host
    <2>2. active \in Langs
      BY <1>1 DEF SwitchNow, TInv, HostTypes, ProgramTypes
    <2> QED BY <2>1, <2>2, BeginStops
  <1>2. CASE Refuse \/ Load \/ Hold \/ NoSwitchNow \/ Store \/ Fetch \/ Publish \/ Command
    <2>1. UNCHANGED <<main, stops, started, stopping, plan, running, loop, sampling, inStop>>
      BY <1>2 DEF Refuse, Load, Hold, NoSwitchNow, Store, Fetch, Publish, Command, program, host, threads, history
    <2> QED BY <2>1, QuietStops, NothingStarted
  <1> QED BY <1>1, <1>2 DEF PullNext

\* main's own steps: the stop takes the runtime that has threads, and ends with them.
LEMMA MainStops ==
  ASSUME TInv, Alone, StopInv, MainNext \/ StopAsked PROVE StopInv'
  <1>1. UNCHANGED inStop
    BY DEF MainNext, NewProcess, MainStarts, MainChecks, MainRestarts, StopGoesOn, RuntimeStops, StopDone,
           StopAsked, history
  <1> SUFFICES ASSUME ~inStop PROVE StopInv'
    BY <1>1 DEF StopInv
  <1> USE DEF PlanBefore, NotStarted, FlagDown, StopsOne, AllEnded, Stops
  <1>2. PlanBefore /\ NotStarted /\ FlagDown /\ StopsOne /\ AllEnded
    BY DEF StopInv
  <1>3. CASE NewProcess
    BY <1>3 DEF NewProcess, TInv, DownIsEmpty, Switching, StopInv
  <1>4. CASE MainStarts \/ MainRestarts
    <2>1. main' = "up" /\ UNCHANGED <<plan, stops>>
      BY <1>4 DEF MainStarts, MainRestarts, program
    <2> QED BY <1>2, <2>1 DEF Switching, StopInv
  <1>5. CASE MainChecks
    BY <1>2, <1>5 DEF MainChecks, program, host, Switching, StopInv
  <1>6. CASE StopAsked
    <2>1. /\ ~started' /\ stops' = stops + 1 /\ UNCHANGED <<plan, running, loop, sampling>>
          /\ IF Switching THEN main' = "waiting" ELSE main' = "stopping" /\ stopping' = active
      BY <1>6 DEF StopAsked, program, threads
    <2>2. stops \in 0 .. 1 /\ (Switching => plan.stops \in 0 .. 1)
      BY DEF TInv, HostTypes, PlanTypes
    <2>3. Switching => \A l \in Langs : ~running[l]
      BY DEF Alone, FlagsDown
    <2>4. \A l \in Langs : running[l] \/ ~Joined(l) => l = active
      BY DEF Alone, OnlyActive
    <2> QED BY <1>2, <2>1, <2>2, <2>3, <2>4, NothingStarted DEF Switching, StopInv
  <1>7. CASE StopGoesOn
    <2>1. /\ ~Switching /\ main = "waiting" /\ main' = "stopping" /\ stopping' = active
          /\ UNCHANGED <<plan, running, loop, sampling, started, stops>>
      BY <1>7 DEF StopGoesOn, program, threads, host
    <2>2. \A l \in Langs : running[l] \/ ~Joined(l) => l = active
      BY DEF Alone, OnlyActive
    <2> QED BY <1>2, <2>1, <2>2, NothingStarted DEF Switching, StopInv
  <1>8. CASE RuntimeStops
    <2>1. /\ main = "stopping" /\ main' = "joining"
          /\ UNCHANGED <<plan, loop, sampling, started, stops, stopping>>
          /\ running' = [running EXCEPT ![stopping] = FALSE]
      BY <1>8 DEF RuntimeStops, program, host
    <2>2. \A l \in Langs : ~running'[l] /\ (Joined(l)' <=> Joined(l))
      BY <1>2, <2>1 DEF Joined, TInv, HostTypes, ThreadTypes
    <2> QED BY <1>2, <2>1, <2>2 DEF Switching, StopInv
  <1>9. CASE StopDone
    <2>1. /\ main \in {"stopping", "joining"} /\ main' = "ended"
          /\ UNCHANGED <<plan, running, loop, sampling, started, stops, stopping>>
          /\ stopping = 0 \/ (main = "joining" /\ (Joined(stopping) \/ running[stopping]))
      BY <1>9 DEF StopDone, program, threads, host
    <2>2. \A l \in Langs : ~running[l] /\ Joined(l)
      BY <1>2, <2>1, Facts
    <2> QED BY <1>2, <2>1, <2>2, NothingStarted DEF Switching, StopInv
  <1> QED BY <1>3, <1>4, <1>5, <1>6, <1>7, <1>8, <1>9 DEF MainNext

\* So does every step.
LEMMA NextStops == ASSUME TInv, Alone, StopInv, [Next]_vars PROVE StopInv'
  <1>1. CASE UNCHANGED vars
    <2>1. UNCHANGED <<main, stops, started, stopping, plan, running, loop, sampling, inStop>>
      BY <1>1 DEF vars, program, threads, host, history
    <2> QED BY <2>1, QuietStops, NothingStarted
  <1>2. CASE ProcessGone
    BY <1>2 DEF ProcessGone, Switching, StopInv, PlanBefore, NotStarted, FlagDown, StopsOne, AllEnded, Stops
  <1>3. CASE Next /\ ~ProcessGone
    BY <1>3, RuntimeStopsToo, SwitchStops, PullStops, MainStops DEF Next
  <1> QED BY <1>1, <1>2, <1>3

\* Neither stop is undone by a change of program.  After main's stop nothing runs, whatever switch was held, begun
\* or made when it was asked for, waited for, or begun once the runtime's flag is down; only a switch that begins
\* between the stop's hold of the lock and that flag has a runtime to start again, and only the active one.  And a
\* latched E-stop keeps language 3.
THEOREM StopsHoldAlways == Spec => StopsHold
  <1>1. Init => StopInv
    BY DEF Init, StopInv, PlanBefore, NotStarted, FlagDown, StopsOne, AllEnded, Stops, Switching
  <1>2. TInv /\ Alone /\ StopInv /\ [Next]_vars => StopInv'
    BY NextStops
  <1>3. Alone /\ StopInv => StopIsFinal
    BY DEF StopInv, StopIsFinal, FlagDown, AllEnded, Joined, Alone, OnlyActive
  <1> QED BY <1>1, <1>2, <1>3, AlwaysAlone, LatchHolds, PTL DEF Spec, StopsHold

-----------------------------------------------------------------------------
(***************************************************************************)
(* What is stored runs, or has failed to take over.  A pull that is past   *)
(* its compile answers for one program: it is held, or its switch is under *)
(* way, or it runs, or it has failed; and between pulls what is stored     *)
(* runs, is about to, or has failed.                                       *)
(***************************************************************************)
StoredRunsOrFailed == stored \in {loaded[active], failed}
StoredSafe == StoredRunsOrFailed \/ (Switching /\ stored = plan.bundle)
PullIsHeld == pending = pull.bundle /\ StoredRunsOrFailed
PullSwitches == pending = None /\ Switching /\ plan.bundle = pull.bundle
PullRuns == pending = None /\ ~Switching /\ pull.bundle \in {loaded[active], failed}

StoreInv ==
  /\ active # 0 /\ pull.at \in {"idle", "compile"} => StoredSafe
  /\ pull.at \in {"switch", "check"} => active # 0 /\ (PullIsHeld \/ PullSwitches \/ PullRuns)
  /\ pull.at = "switching" => active # 0 /\ PullSwitches /\ plan.by = "pull" /\ StoredRunsOrFailed

\* A step that neither stores nor loads, and leaves the pull and the switch as they are.
LEMMA QuietStore ==
  ASSUME StoreInv, UNCHANGED <<stored, active, loaded, pending, plan, pull, failed>>
  PROVE  StoreInv'
  BY DEF StoreInv, StoredRunsOrFailed, StoredSafe, PullIsHeld, PullSwitches, PullRuns, Switching

\* A runtime's own steps keep the stored program the one that runs.
LEMMA RuntimeStores ==
  ASSUME TInv, StoreInv, NEW l \in Langs, RuntimeNext(l)
  PROVE  StoreInv'
  <1>1. CASE AfterPassSwitches(l)
    <2>1. pending # None /\ plan'.bundle = pending /\ pending' = None
          /\ UNCHANGED <<stored, active, loaded, pull, failed>>
      BY <1>1 DEF AfterPassSwitches, HookSwitches, BeginSwitch, Begun
    <2>2. ~Switching /\ pending \in Bundles /\ plan' # NoPlan
      BY <2>1, Facts DEF TInv, HostTypes, ProgramTypes, PlanCarries, NoPlan
    <2> QED BY <2>1, <2>2 DEF StoreInv, StoredRunsOrFailed, StoredSafe, PullIsHeld, PullSwitches, PullRuns, Switching
  <1>2. CASE LoopTop(l) \/ Pass(l) \/ SamplerEnds(l) \/ AfterPass(l)
    BY <1>2, QuietStore DEF LoopTop, Pass, SamplerEnds, AfterPass, program, history
  <1> QED BY <1>1, <1>2 DEF RuntimeNext

\* What a switch takes over it stores; one that fails after it was stored is known as failed.
LEMMA SwitchStores ==
  ASSUME TInv, StoreInv, TakeOver \/ TakeOverFails
  PROVE  StoreInv'
  <1> USE DEF StoreInv, StoredRunsOrFailed, StoredSafe, PullIsHeld, PullSwitches, PullRuns, TInv, HostTypes
  <1>1. CASE TakeOver
    <2>1. Switching /\ plan.bundle \in Bundles /\ pending = None /\ plan.bundle.lang \in Langs
      BY <1>1, Facts DEF TakeOver, Takes, PlanCarries
    <2>2. /\ active' = plan.bundle.lang /\ loaded'[active'] = plan.bundle /\ stored' = plan.bundle
          /\ pending' = None /\ ~Switching'
      BY <1>1, <2>1 DEF TakeOver, Takes, Switching, ProgramTypes
    <2>3. pull' = pull \/ (plan.by = "pull" /\ pull'.at = "check" /\ pull'.bundle = pull.bundle)
      BY <1>1 DEF TakeOver, MainTypes
    <2>4. active' # 0 /\ pull.at = "switching" => plan.by = "pull"
      BY <2>1, <2>2, Facts
    <2>5. plan.by = "pull" => pull.at = "switching"
      BY DEF PullCarries
    <2>6. pull.at # "idle" => pull.bundle \in Bundles
      BY DEF PullCarries
    <2>7. pull'.at \in {"idle", "compile"} => pull' = pull
      BY <2>3
    <2>8. pull'.at = "switching" => FALSE
      BY <1>1, <2>3, <2>5 DEF TakeOver, MainTypes
    <2>9. pull'.at \in {"switch", "check"} => pull'.bundle = plan.bundle
      BY <2>1, <2>3, <2>5, <2>6, Facts
    <2>10. active' # 0
      BY <2>1, <2>2, Facts
    <2> QED BY <2>2, <2>8, <2>9, <2>10
  <1>2. CASE TakeOverFails
    <2>1. Switching /\ pending = None /\ pending' = None /\ active' = active /\ active # 0 /\ active \in Langs
      BY <1>2 DEF TakeOverFails, Takes, PlanCarries, ProgramTypes
    <2>2. loaded'[active] = loaded[active] /\ stored' = stored /\ ~Switching'
      BY <1>2, <2>1 DEF TakeOverFails, Takes, Switching, ProgramTypes
    <2>3. failed' = IF StoredEarly THEN plan.bundle ELSE failed
      BY <1>2 DEF TakeOverFails
    <2>4. pull' = NoPull \/ (pull' = pull /\ plan.by # "pull")
      BY <1>2 DEF TakeOverFails
    <2>5. pull.at \in {"switch", "check"} => pull.bundle = plan.bundle /\ failed' = pull.bundle
      BY <2>1, <2>3, Facts DEF StoredEarly, PullCarries
    <2>6. pull.at \notin {"switch", "check"} => stored \in {loaded[active], failed'}
      <3>1. pull.at \notin {"switch", "check"} => StoredSafe
        BY <2>1 DEF MainTypes
      <3> QED BY <2>3, <3>1 DEF StoredEarly
    <2>7. plan.by = "pull" => pull.at = "switching"
      BY DEF PullCarries
    <2>8. pull.at = "switching" => plan.by = "pull"
      OBVIOUS
    <2>9. CASE pull' = NoPull /\ pull.at \notin {"switch", "check"}
      BY <2>1, <2>2, <2>6, <2>9 DEF NoPull
    <2>10. CASE pull' = pull /\ plan.by # "pull"
      BY <2>1, <2>2, <2>5, <2>6, <2>8, <2>10
    <2>11. pull' = NoPull => pull.at \notin {"switch", "check"} \/ pull' = pull
      BY <1>2, <2>7 DEF TakeOverFails
    <2>12. pull' = pull /\ plan.by = "pull" => pull.at \notin {"switch", "check"}
      BY <2>7
    <2> QED BY <2>4, <2>7, <2>9, <2>10, <2>11
  <1> QED BY <1>1, <1>2

\* So do the pull's.
LEMMA PullStores ==
  ASSUME TInv, StoreInv, PullNext \/ Fetch \/ Publish \/ Command
  PROVE  StoreInv'
  <1> USE DEF StoreInv, StoredRunsOrFailed, StoredSafe, PullIsHeld, PullSwitches, PullRuns, TInv, HostTypes
  <1>1. CASE Refuse
    BY <1>1 DEF Refuse, NoPull, program, Switching, history
  <1>2. CASE Load
    <2>1. pull.bundle \in Bundles /\ pull.bundle.lang \in Langs
      BY <1>2, Facts DEF Load, PullCarries
    <2>2. /\ active' = pull.bundle.lang /\ loaded'[active'] = pull.bundle /\ pending' = None
          /\ ~Switching' /\ pull'.at = "check" /\ pull'.bundle = pull.bundle
      BY <1>2, <2>1 DEF Load, Switching, ProgramTypes, MainTypes
    <2> QED BY <2>1, <2>2, Facts
  <1>3. CASE Hold
    <2>1. /\ pending' = pull.bundle /\ pull'.at \in {"check", "switch"} /\ pull'.bundle = pull.bundle
          /\ ~Switching /\ active # 0 /\ pull.at = "compile" /\ UNCHANGED <<stored, active, loaded, failed>>
      BY <1>3 DEF Hold, MainTypes, history
    <2> QED BY <2>1
  <1>4. CASE SwitchNow
    <2>1. /\ pull.at = "switch" /\ pull'.at = "switching" /\ pull'.bundle = pull.bundle /\ pending # None
          /\ plan'.bundle = pending /\ pending' = None /\ plan'.by = "pull"
          /\ UNCHANGED <<stored, active, loaded, failed>>
      BY <1>4 DEF SwitchNow, BeginSwitch, Begun, MainTypes
    <2>2. plan' # NoPlan
      BY <2>1 DEF NoPlan
    <2> QED BY <2>1, <2>2 DEF Switching
  <1>5. CASE NoSwitchNow
    <2>1. pull.at = "switch" /\ pull'.at = "check" /\ pull'.bundle = pull.bundle
      BY <1>5 DEF NoSwitchNow, MainTypes
    <2>2. UNCHANGED <<stored, active, loaded, pending, plan, failed>>
      BY <1>5 DEF NoSwitchNow, program, history
    <2> QED BY <2>1, <2>2 DEF Switching
  <1>6. CASE Store
    <2>1. /\ pull.at = "check" /\ pull' = NoPull /\ UNCHANGED <<active, loaded, pending, plan, failed>>
          /\ stored' = IF IsHeld(pull.bundle) THEN stored ELSE pull.bundle
      BY <1>6 DEF Store, program, history
    <2>2. pull.bundle \in Bundles /\ pull.bundle.version # None.version
      BY <2>1, Facts DEF PullCarries, None, Bundles
    <2>3. pending = pull.bundle => IsHeld(pull.bundle)
      BY DEF IsHeld
    <2>4. pending = None => ~IsHeld(pull.bundle)
      BY <2>2 DEF IsHeld
    <2> QED BY <2>1, <2>3, <2>4 DEF NoPull, Switching
  <1>7. CASE Fetch
    <2>1. pull.at = "idle" /\ pull'.at = "compile" /\ UNCHANGED <<stored, active, loaded, pending, plan, failed>>
      BY <1>7 DEF Fetch, program, history
    <2> QED BY <2>1 DEF Switching
  <1>8. CASE Publish \/ Command
    BY <1>8, QuietStore DEF Publish, Command, program, history
  <1> QED BY <1>1, <1>2, <1>3, <1>4, <1>5, <1>6, <1>7, <1>8 DEF PullNext

\* So do the main thread's.
LEMMA MainStores ==
  ASSUME TInv, StoreInv, MainNext \/ StopAsked \/ ProcessGone
  PROVE  StoreInv'
  <1>1. CASE NewProcess
    <2>1. pull = NoPull /\ UNCHANGED <<stored, pending, plan, pull>> /\ active = 0
      BY <1>1 DEF NewProcess, TInv, DownIsEmpty
    <2>2. active' # 0 => stored = loaded'[active']
      BY <1>1, <2>1, Facts DEF NewProcess, TInv, HostTypes, ProgramTypes
    <2> QED BY <2>1, <2>2 DEF StoreInv, StoredRunsOrFailed, StoredSafe, NoPull
  <1>2. CASE ProcessGone
    BY <1>2 DEF ProcessGone, StoreInv, NoPull
  <1>3. CASE MainStarts \/ MainChecks \/ MainRestarts \/ StopGoesOn \/ RuntimeStops \/ StopDone \/ StopAsked
    BY <1>3, QuietStore
       DEF MainStarts, MainChecks, MainRestarts, StopGoesOn, RuntimeStops, StopDone, StopAsked, program, history
  <1> QED BY <1>1, <1>2, <1>3 DEF MainNext

\* program.json is the bundle that runs whenever no pull and no switch is under way, over kills and restarts and
\* stops in between; or it is the program whose switch failed after the pull had stored it.
THEOREM StoredIsRun == Spec => []StoredRuns
  <1>1. Init => StoreInv
    BY DEF Init, StoreInv, NoPull
  <1>2. TInv /\ StoreInv /\ [Next]_vars => StoreInv'
    BY RuntimeStores, SwitchStores, PullStores, MainStores, QuietStore DEF Next, vars, program, history
  <1>3. StoreInv => StoredRuns
    BY DEF StoreInv, StoredSafe, StoredRunsOrFailed, StoredRuns
  <1> QED BY <1>1, <1>2, <1>3, AlwaysAlone, PTL DEF Spec
=============================================================================
