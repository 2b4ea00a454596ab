---------------------------- MODULE ServicesProofs ----------------------------
(***************************************************************************)
(* Theorems of the services beside the program, for every bound, cap and   *)
(* set of cards, adapters and threads.  Each service has an invariant of   *)
(* its own: the numbers of what waits, is in hand and has arrived grow     *)
(* (events, acks); the backend, with what is in hand and what waits over   *)
(* it, is the latest value (cards); a row of the table that is marked has  *)
(* arrived, and one that has arrived unmarked lost its answer or its mark  *)
(* (readings); the samples of the clock and of the link are of what they   *)
(* measured.                                                               *)
(* One service moves at a time, so that the invariants hold together.      *)
(***************************************************************************)
EXTENDS MCServices, FiniteSetTheorems, SequenceTheorems, WellFoundedInduction, TLAPS

-----------------------------------------------------------------------------
(* Numbers and sequences. *)

\* A set of numbers has a smallest one.
LEMMA Smallest ==
  ASSUME NEW T, T \subseteq Nat, T # {}
  PROVE  \E n \in T : \A m \in T : n <= m
  <1> DEFINE R == OpToRel(<, Nat)
  <1>1. IsWellFoundedOn(R, Nat)
    BY NatLessThanWellFounded
  <1>2. \A x, y \in Nat : <<x, y>> \in R <=> x < y
    BY DEF OpToRel
  <1> HIDE DEF R
  <1>3. PICK n \in T : \A m \in T : <<m, n>> \notin R
    BY <1>1, WFMin
  <1>4. ASSUME NEW m \in T
        PROVE  n <= m
    <2>1. m \in Nat /\ n \in Nat
      OBVIOUS
    <2>2. ~(m < n)
      BY <1>2, <1>3, <2>1
    <2> QED BY <2>1, <2>2
  <1> QED BY <1>4

\* A sequence without the element at one place.
LEMMA RemoveAtFacts ==
  ASSUME NEW S, NEW q \in Seq(S), NEW i \in 1..Len(q)
  PROVE  /\ RemoveAt(q, i) \in Seq(S) /\ Len(RemoveAt(q, i)) = Len(q) - 1
         /\ \A j \in 1..(Len(q) - 1) : RemoveAt(q, i)[j] = IF j < i THEN q[j] ELSE q[j + 1]
  <1> DEFINE s == SubSeq(q, 1, i - 1)
             t == SubSeq(q, i + 1, Len(q))
  <1>1. s \in Seq(S) /\ Len(s) = i - 1 /\ \A j \in 1..(i - 1) : s[j] = q[j]
    <2>1. \A j \in 1..(i - 1) : q[j] \in S
      OBVIOUS
    <2> QED BY <2>1, SubSeqProperties
  <1>2. t \in Seq(S) /\ Len(t) = Len(q) - i /\ \A j \in 1..(Len(q) - i) : t[j] = q[i + j]
    <2>1. \A j \in (i + 1)..Len(q) : q[j] \in S
      OBVIOUS
    <2> QED BY <2>1, SubSeqProperties
  <1>3. RemoveAt(q, i) = s \o t
    BY DEF RemoveAt
  <1> HIDE DEF s, t
  <1>4. /\ s \o t \in Seq(S) /\ Len(s \o t) = Len(s) + Len(t)
        /\ \A j \in 1..(Len(s) + Len(t)) : (s \o t)[j] = IF j <= Len(s) THEN s[j] ELSE t[j - Len(s)]
    BY <1>1, <1>2, ConcatProperties
  <1>5. ASSUME NEW j \in 1..(Len(q) - 1)
        PROVE  (s \o t)[j] = IF j < i THEN q[j] ELSE q[j + 1]
    <2>1. (s \o t)[j] = IF j <= i - 1 THEN s[j] ELSE t[j - (i - 1)]
      BY <1>1, <1>2, <1>4
    <2>2. CASE j < i
      BY <1>1, <2>1, <2>2
    <2>3. CASE ~(j < i)
      <3>1. j - (i - 1) \in 1..(Len(q) - i) /\ i + (j - (i - 1)) = j + 1
        BY <2>3
      <3>2. t[j - (i - 1)] = q[i + (j - (i - 1))]
        BY <3>1, <1>2
      <3> QED BY <2>1, <2>3, <3>1, <3>2
    <2> QED BY <2>2, <2>3
  <1> QED BY <1>1, <1>2, <1>3, <1>4, <1>5

\* What waits in order: the numbers of what is in a queue, and that they grow.
IdsOf(q) == {q[i].id : i \in DOMAIN q}
IdsGrow(q) == \A i, j \in DOMAIN q : i < j => q[i].id < q[j].id

\* One is taken out of a queue.
LEMMA GrowRemoved ==
  ASSUME NEW S, \A x \in S : x.id \in Nat, NEW q \in Seq(S), IdsGrow(q), NEW i \in 1..Len(q)
  PROVE  IdsGrow(RemoveAt(q, i)) /\ IdsOf(RemoveAt(q, i)) \subseteq IdsOf(q)
  <1> DEFINE p == RemoveAt(q, i)
  <1>1. /\ p \in Seq(S) /\ Len(p) = Len(q) - 1 /\ Len(q) \in Nat
        /\ \A j \in 1..(Len(q) - 1) : p[j] = IF j < i THEN q[j] ELSE q[j + 1]
    BY RemoveAtFacts
  <1> HIDE DEF p
  <1>2. \A j \in DOMAIN p : j \in DOMAIN q /\ j + 1 \in DOMAIN q /\ p[j] = IF j < i THEN q[j] ELSE q[j + 1]
    BY <1>1
  <1>3. IdsOf(p) \subseteq IdsOf(q)
    BY <1>2 DEF IdsOf
  <1>4. \A j \in DOMAIN q : q[j] \in S /\ q[j].id \in Nat
    OBVIOUS
  <1>5. ASSUME NEW j \in DOMAIN p, NEW k \in DOMAIN p, j < k
        PROVE  p[j].id < p[k].id
    <2>1. j \in Nat /\ k \in Nat
      BY <1>1
    <2>2. PICK x \in DOMAIN q, y \in DOMAIN q : p[j] = q[x] /\ p[k] = q[y] /\ x < y
      <3>1. CASE j < i /\ k < i
        BY <1>2, <1>5, <3>1
      <3>2. CASE j < i /\ ~(k < i)
        BY <1>2, <1>5, <2>1, <3>2
      <3>3. CASE ~(j < i)
        <4>1. ~(k < i) /\ j + 1 < k + 1
          BY <1>5, <2>1, <3>3
        <4> QED BY <1>2, <3>3, <4>1
      <3> QED BY <3>1, <3>2, <3>3
    <2> QED BY <2>2 DEF IdsGrow
  <1> QED BY <1>3, <1>5 DEF p, IdsGrow

\* One more comes to the end.
LEMMA GrowAppended ==
  ASSUME NEW S, NEW q \in Seq(S), IdsGrow(q), NEW e \in S, \A x \in IdsOf(q) : x < e.id
  PROVE  IdsGrow(Append(q, e)) /\ IdsOf(Append(q, e)) = IdsOf(q) \cup {e.id}
  <1> DEFINE p == Append(q, e)
  <1>1. /\ DOMAIN p = 1..(Len(q) + 1) /\ DOMAIN q = 1..Len(q) /\ Len(q) \in Nat
        /\ p[Len(q) + 1] = e /\ \A i \in 1..Len(q) : p[i] = q[i]
    OBVIOUS
  <1> HIDE DEF p
  <1>2. \A i \in DOMAIN p : i \in DOMAIN q \/ i = Len(q) + 1
    BY <1>1
  <1>3. \A i \in DOMAIN q : q[i].id \in IdsOf(q) /\ i \in DOMAIN p /\ i # Len(q) + 1
    BY <1>1 DEF IdsOf
  <1>4. IdsOf(p) = IdsOf(q) \cup {e.id}
    BY <1>1, <1>2, <1>3 DEF IdsOf
  <1>5. IdsGrow(p)
    BY <1>1, <1>2, <1>3 DEF IdsGrow
  <1> QED BY <1>4, <1>5 DEF p

\* The first is taken.
LEMMA GrowTaken ==
  ASSUME NEW S, NEW q \in Seq(S), q # <<>>, IdsGrow(q)
  PROVE  /\ Head(q) \in S /\ Head(q).id \in IdsOf(q) /\ Tail(q) \in Seq(S) /\ Len(Tail(q)) = Len(q) - 1
         /\ IdsGrow(Tail(q)) /\ IdsOf(Tail(q)) \subseteq IdsOf(q)
         /\ \A x \in IdsOf(Tail(q)) : Head(q).id < x
  <1> DEFINE p == Tail(q)
  <1>1. /\ DOMAIN p = 1..(Len(q) - 1) /\ DOMAIN q = 1..Len(q) /\ Len(q) \in Nat \ {0}
        /\ Head(q) = q[1] /\ \A i \in 1..(Len(q) - 1) : p[i] = q[i + 1]
        /\ p \in Seq(S) /\ Len(p) = Len(q) - 1
    OBVIOUS
  <1> HIDE DEF p
  <1>2. 1 \in DOMAIN q /\ \A i \in DOMAIN p : i + 1 \in DOMAIN q /\ 1 < i + 1
    BY <1>1
  <1>3. Head(q) \in S /\ Head(q).id \in IdsOf(q) /\ IdsOf(p) \subseteq IdsOf(q)
    BY <1>1, <1>2 DEF IdsOf
  <1>4. IdsGrow(p)
    BY <1>1, <1>2 DEF IdsGrow
  <1>5. \A x \in IdsOf(p) : Head(q).id < x
    BY <1>1, <1>2 DEF IdsGrow, IdsOf
  <1> QED BY <1>1, <1>3, <1>4, <1>5 DEF p

\* One goes back to the front.
LEMMA GrowRequeued ==
  ASSUME NEW S, NEW q \in Seq(S), IdsGrow(q), NEW e \in S, \A x \in IdsOf(q) : e.id < x
  PROVE  <<e>> \o q \in Seq(S) /\ IdsGrow(<<e>> \o q) /\ IdsOf(<<e>> \o q) = IdsOf(q) \cup {e.id}
  <1> DEFINE p == <<e>> \o q
  <1>1. /\ DOMAIN p = 1..(Len(q) + 1) /\ DOMAIN q = 1..Len(q) /\ Len(q) \in Nat
        /\ p[1] = e /\ \A i \in 2..(Len(q) + 1) : p[i] = q[i - 1]
        /\ p \in Seq(S)
    OBVIOUS
  <1> HIDE DEF p
  <1>2. \A i \in DOMAIN p : i = 1 \/ (i \in 2..(Len(q) + 1) /\ i - 1 \in DOMAIN q)
    BY <1>1
  <1>3. \A i \in DOMAIN q : i + 1 \in DOMAIN p /\ p[i + 1] = q[i] /\ q[i].id \in IdsOf(q)
    BY <1>1 DEF IdsOf
  <1>4. IdsOf(p) = IdsOf(q) \cup {e.id}
    <2>1. 1 \in DOMAIN p
      BY <1>1
    <2>2. \A i \in DOMAIN p : p[i].id \in IdsOf(q) \cup {e.id}
      BY <1>1, <1>2, <1>3
    <2>3. \A x \in IdsOf(q) \cup {e.id} : \E i \in DOMAIN p : x = p[i].id
      BY <1>1, <1>3, <2>1 DEF IdsOf
    <2> QED BY <2>2, <2>3 DEF IdsOf
  <1>5. IdsGrow(p)
    <2>1. ASSUME NEW i \in DOMAIN p, NEW j \in DOMAIN p, i < j
          PROVE  p[i].id < p[j].id
      <3>1. i \in Nat /\ j \in 2..(Len(q) + 1) /\ j - 1 \in DOMAIN q /\ p[j] = q[j - 1]
        BY <1>1, <2>1
      <3>2. CASE i = 1
        BY <1>1, <1>3, <3>1, <3>2
      <3>3. CASE i # 1
        <4>1. i - 1 \in DOMAIN q /\ p[i] = q[i - 1] /\ i - 1 < j - 1
          BY <1>1, <2>1, <3>1, <3>3
        <4> QED BY <3>1, <4>1 DEF IdsGrow
      <3> QED BY <3>2, <3>3
    <2> QED BY <2>1 DEF IdsGrow
  <1> QED BY <1>1, <1>4, <1>5 DEF p

-----------------------------------------------------------------------------
(* The heartbeat. *)

BeatsSpec == BeatsInit /\ [][BeatsNext]_beatVars

AtMostOneSchedules == \A b, c \in Beats : beatPhase[b] = "scheduling" /\ beatPhase[c] = "scheduling" => b = c

BeatFlags ==
  beating \in BOOLEAN /\ ended \in BOOLEAN /\ timer \in BOOLEAN /\ pausing \in BOOLEAN /\ crossed \in BOOLEAN
  /\ nudging \in BOOLEAN

BeatsTyped ==
  /\ beatPhase \in [Beats -> {"none", "sending", "scheduling"}]
  /\ strays \in Nat /\ said \in {"nothing", "online", "offline"} /\ pauses \in 0..MaxPauses

\* A stray timer is of a pause that is over; a pause finds the chain stopped; after a clean stop nothing is on
\* its way; the chain holds.
BeatsOrder ==
  /\ AtMostOneSchedules
  /\ strays <= pauses /\ (pausing => strays < pauses /\ ~beating)
  /\ ended => ~beating /\ ~pausing
  /\ ended /\ ~crossed => said = "offline" /\ ~timer /\ strays = 0 /\ ~nudging /\ \A b \in Beats : beatPhase[b] = "none"
  /\ beating /\ ~pausing => timer \/ strays > 0 \/ \E b \in Beats : beatPhase[b] # "none"

\* At the start the chain holds: one thread sends the first beat.
LEMMA BeatsStart == BeatsInit => BeatFlags /\ BeatsTyped /\ BeatsOrder
  <1> SUFFICES ASSUME BeatsInit
               PROVE  BeatFlags /\ BeatsTyped /\ BeatsOrder
    OBVIOUS
  <1>1. PICK b \in Beats : beatPhase = [c \in Beats |-> IF c = b THEN "sending" ELSE "none"]
    BY DEF BeatsInit
  <1>2. BeatFlags
    BY Zenon DEF BeatsInit, BeatFlags
  <1>3. BeatsTyped /\ BeatsOrder
    BY <1>1, HeartbeatsAssumption DEF BeatsInit, BeatsTyped, BeatsOrder, AtMostOneSchedules
  <1> QED BY <1>2, <1>3

\* Every step leaves the flags Boolean.
LEMMA BeatFlagsStep == BeatFlags /\ [BeatsNext]_beatVars => BeatFlags'
  BY Zenon DEF BeatFlags, BeatsNext, TimerFires, Nudge, NudgeStarts, Pause, PauseForgets, Resume, StopBeats,
       ScheduleNext, SendBeat,
               beatVars

\* A pause may leave a timer that is none of the chain's: the strays stay countable.
LEMMA BeatsTypesStep == BeatsTyped /\ BeatsOrder /\ [BeatsNext]_beatVars => BeatsTyped'
  <1> SUFFICES ASSUME BeatsTyped, BeatsOrder, [BeatsNext]_beatVars
               PROVE  BeatsTyped'
    OBVIOUS
  <1> USE HeartbeatsAssumption DEF BeatsTyped, BeatsOrder
  <1>1. CASE TimerFires
    BY <1>1 DEF TimerFires, Begins
  <1>2. CASE Nudge
    BY <1>2 DEF Nudge
  <1>2a. CASE NudgeStarts
    BY <1>2a DEF NudgeStarts, Begins
  <1>3. CASE Pause
    BY <1>3 DEF Pause
  <1>4. CASE PauseForgets
    BY <1>4 DEF PauseForgets
  <1>5. CASE Resume
    BY <1>5 DEF Resume, Begins
  <1>6. CASE StopBeats
    BY <1>6 DEF StopBeats
  <1>7. ASSUME NEW b \in Beats, ScheduleNext(b)
        PROVE  BeatsTyped'
    BY <1>7 DEF ScheduleNext
  <1>8. ASSUME NEW b \in Beats, NEW goesOut \in BOOLEAN, SendBeat(b, goesOut)
        PROVE  BeatsTyped'
    BY <1>8 DEF SendBeat
  <1>9. CASE UNCHANGED beatVars
    BY <1>9 DEF beatVars
  <1> QED BY <1>1, <1>2, <1>2a, <1>3, <1>4, <1>5, <1>6, <1>7, <1>8, <1>9 DEF BeatsNext

\* Every step keeps the order of pauses, strays and the clean stop.
LEMMA BeatsOrderStep == BeatFlags /\ BeatsTyped /\ BeatsOrder /\ [BeatsNext]_beatVars => BeatsOrder'
  <1> SUFFICES ASSUME BeatFlags, BeatsTyped, BeatsOrder, [BeatsNext]_beatVars
               PROVE  BeatsOrder'
    OBVIOUS
  <1> USE HeartbeatsAssumption DEF BeatFlags, BeatsTyped, BeatsOrder, AtMostOneSchedules, InPhase
  <1>1. CASE TimerFires
    BY <1>1 DEF TimerFires, Begins
  <1>2. CASE Nudge
    BY <1>2 DEF Nudge
  <1>2a. CASE NudgeStarts
    BY <1>2a DEF NudgeStarts, Begins
  <1>3. CASE Pause
    BY <1>3 DEF Pause
  <1>4. CASE PauseForgets
    BY <1>4 DEF PauseForgets
  <1>5. CASE Resume
    BY <1>5 DEF Resume, Begins
  <1>6. CASE StopBeats
    <2>1. ~crossed' => InPhase("sending") = {} /\ ~(strays > 0) /\ ~nudging
      BY <1>6, Zenon DEF StopBeats
    <2>2. InPhase("scheduling") = {} /\ UNCHANGED <<beatPhase, strays, pausing, nudging, pauses>> /\ ~beating' /\ ~timer'
      BY <1>6, Zenon DEF StopBeats
    <2>3. said' = "offline" /\ ~pausing
      BY <1>6, Zenon DEF StopBeats
    <2>4. ~crossed' => strays = 0 /\ ~nudging /\ \A b \in Beats : beatPhase[b] = "none"
      BY <2>1, <2>2
    <2> QED BY <2>2, <2>3, <2>4
  <1>7. ASSUME NEW b \in Beats, ScheduleNext(b)
        PROVE  BeatsOrder'
    BY <1>7 DEF ScheduleNext
  <1>8. ASSUME NEW b \in Beats, NEW goesOut \in BOOLEAN, SendBeat(b, goesOut)
        PROVE  BeatsOrder'
    BY <1>8 DEF SendBeat
  <1>9. CASE UNCHANGED beatVars
    BY <1>9 DEF beatVars
  <1> QED BY <1>1, <1>2, <1>2a, <1>3, <1>4, <1>5, <1>6, <1>7, <1>8, <1>9 DEF BeatsNext

\* At most one thread has the lock.
LEMMA BeatsTypesKnown == BeatFlags /\ BeatsTyped /\ BeatsOrder => BeatsTypeOK
  <1> SUFFICES ASSUME BeatFlags, BeatsTyped, BeatsOrder
               PROVE  BeatsTypeOK
    OBVIOUS
  <1>1. Cardinality(InPhase("scheduling")) <= 1
    <2>1. CASE InPhase("scheduling") = {}
      BY <2>1, FS_EmptySet
    <2>2. CASE InPhase("scheduling") # {}
      <3>1. PICK b \in InPhase("scheduling") : TRUE
        BY <2>2
      <3>2. InPhase("scheduling") = {b}
        BY <3>1 DEF InPhase, BeatsTyped, BeatsOrder, AtMostOneSchedules
      <3>3. Cardinality({b}) = 1
        BY FS_Singleton
      <3> QED BY <3>2, <3>3
    <2> QED BY <2>1, <2>2
  <1>2. strays \in 0..MaxPauses
    BY HeartbeatsAssumption DEF BeatsTyped, BeatsOrder
  <1> QED BY <1>1, <1>2 DEF BeatFlags, BeatsTyped, BeatsTypeOK

\* After a clean stop the last status is the offline one, and the chain never breaks.
LEMMA BeatsMeant == BeatsTyped /\ BeatsOrder => OfflineIsLast /\ ChainHolds
  BY DEF BeatsTyped, BeatsOrder, OfflineIsLast, ChainHolds, InPhase

\* The chain of heartbeats never breaks, at most one thread schedules the next, and the offline of a clean
\* stop is the last status (heartbeat.py).
THEOREM BeatsKeepOn == BeatsSpec => [](BeatsTypeOK /\ OfflineIsLast /\ ChainHolds)
  <1> DEFINE I == BeatFlags /\ BeatsTyped /\ BeatsOrder
  <1>1. BeatsInit => I
    BY BeatsStart
  <1>2. I /\ [BeatsNext]_beatVars => I'
    BY BeatFlagsStep, BeatsTypesStep, BeatsOrderStep
  <1>3. I => BeatsTypeOK /\ OfflineIsLast /\ ChainHolds
    BY BeatsTypesKnown, BeatsMeant
  <1> HIDE DEF I
  <1> QED BY <1>1, <1>2, <1>3, PTL DEF BeatsSpec

-----------------------------------------------------------------------------
(* The protection of a pump without a program. *)

GuardSpec == GuardInit /\ [][GuardNext]_guardVars

GuardFlags == relay \in BOOLEAN /\ wet \in BOOLEAN /\ cutoff \in BOOLEAN /\ startCrossed \in BOOLEAN

GuardTyped ==
  /\ command \in {"none", "start", "stop"} /\ commands \in 0..MaxCommands
  /\ sensed \in {"none", "0", "1", "2", "cut"}
  /\ known \in Unknown..2 /\ inrush \in 0..InrushTicks
  /\ low \in Never..Longest /\ lowSince \in 0..Longest
  /\ learning \in [left : Never..(InrushTicks + LearnTicks + 1), seen : SUBSET (0..2)]

\* A window is of one run, and none is without a baseline.
GuardWindow == (known = Unknown => low = Never) /\ (low # Never => lowSince >= low)

\* A cut, marked or not yet, keeps the power off but for a start; a stop on its way has cut it too.
GuardCut ==
  /\ cutoff \/ sensed = "cut" => ~relay \/ command = "start" \/ startCrossed
  /\ command = "stop" => ~relay

\* The protection starts with no window, and nothing cut.
LEMMA GuardStart == GuardInit => GuardFlags /\ GuardTyped /\ GuardWindow /\ GuardCut
  <1> SUFFICES ASSUME GuardInit
               PROVE  GuardFlags /\ GuardTyped /\ GuardWindow /\ GuardCut
    OBVIOUS
  <1>1. GuardFlags
    BY Zenon DEF GuardInit, GuardFlags
  <1>2. ConfirmTicks \in Nat /\ InrushTicks \in Nat /\ LearnTicks \in Nat /\ MaxCommands \in Nat
    BY DryRunGuardAssumption
  <1>3. GuardTyped /\ GuardWindow
    BY <1>2 DEF GuardInit, GuardTyped, GuardWindow, Unknown, Never, Longest, NotLearning
  <1>4. GuardCut
    BY DEF GuardInit, GuardCut
  <1> QED BY <1>1, <1>3, <1>4

\* Every step leaves the flags Boolean.
LEMMA GuardFlagsStep == GuardFlags /\ [GuardNext]_guardVars => GuardFlags'
  BY Zenon DEF GuardFlags, GuardNext, SetPower, Notify, ReadCurrent, Learn, Decide, MarkCut, GuardTick, Water,
               guardVars

\* What the sensor says is one of the levels.
LEMMA ReadTyped == sensed \in {"0", "1", "2"} => Reading \in 0..2
  BY DEF Reading, Digit

\* A window of low readings begins after the last start or stop: a start or a stop ends the one there was.
LEMMA GuardTypesStep == GuardTyped /\ GuardWindow /\ [GuardNext]_guardVars => (GuardTyped /\ GuardWindow)'
  <1> SUFFICES ASSUME GuardTyped, GuardWindow, [GuardNext]_guardVars
               PROVE  GuardTyped' /\ GuardWindow'
    OBVIOUS
  <1>0. ConfirmTicks \in Nat /\ InrushTicks \in Nat /\ LearnTicks \in Nat /\ MaxCommands \in Nat
    BY DryRunGuardAssumption
  <1> USE <1>0 DEF GuardTyped, GuardWindow, Unknown, Never, Longest
  <1>1. ASSUME NEW what \in {"start", "stop"}, SetPower(what)
        PROVE  GuardTyped' /\ GuardWindow'
    BY <1>1 DEF SetPower
  <1>2. CASE Notify
    BY <1>2 DEF Notify
  <1>3. CASE ReadCurrent
    <2>1. sensed' \in {"0", "1", "2"}
      BY <1>3 DEF ReadCurrent, Digit, Current
    <2> QED BY <1>3, <2>1 DEF ReadCurrent
  <1>4. CASE Learn
    <2>1. Reading \in 0..2
      BY <1>4, ReadTyped DEF Learn
    <2>2. Averages(learning.seen \cup {Reading}) \subseteq 0..2
      BY DEF Averages
    <2>3. known = Unknown
      BY <1>4 DEF Learn, InWindow
    <2> QED BY <1>4, <2>1, <2>2, <2>3 DEF Learn, NotLearning
  <1>5. ASSUME NEW fails \in BOOLEAN, Decide(fails)
        PROVE  GuardTyped' /\ GuardWindow'
    BY <1>5 DEF Decide, Recovered
  <1>6. CASE MarkCut
    BY <1>6 DEF MarkCut
  <1>7. CASE GuardTick
    BY <1>7 DEF GuardTick, Later, Sooner
  <1>8. CASE Water
    BY <1>8 DEF Water
  <1>9. CASE UNCHANGED guardVars
    BY <1>9 DEF guardVars
  <1> QED BY <1>1, <1>2, <1>3, <1>4, <1>5, <1>6, <1>7, <1>8, <1>9 DEF GuardNext

\* A cut-off is undone by a start only.
LEMMA GuardCutStep == GuardFlags /\ GuardCut /\ [GuardNext]_guardVars => GuardCut'
  <1> SUFFICES ASSUME GuardFlags, GuardCut, [GuardNext]_guardVars
               PROVE  GuardCut'
    OBVIOUS
  <1> USE DEF GuardFlags, GuardCut
  <1>1. ASSUME NEW what \in {"start", "stop"}, SetPower(what)
        PROVE  GuardCut'
    BY <1>1 DEF SetPower
  <1>2. CASE Notify
    BY <1>2 DEF Notify
  <1>3. CASE ReadCurrent
    <2>1. sensed' # "cut"
      BY <1>3 DEF ReadCurrent, Digit, Current
    <2> QED BY <1>3, <2>1 DEF ReadCurrent
  <1>4. CASE Learn
    BY <1>4 DEF Learn
  <1>5. ASSUME NEW fails \in BOOLEAN, Decide(fails)
        PROVE  GuardCut'
    BY <1>5 DEF Decide
  <1>6. CASE MarkCut
    BY <1>6 DEF MarkCut
  <1>7. CASE GuardTick
    BY <1>7 DEF GuardTick
  <1>8. CASE Water
    BY <1>8 DEF Water
  <1>9. CASE UNCHANGED guardVars
    BY <1>9 DEF guardVars
  <1> QED BY <1>1, <1>2, <1>3, <1>4, <1>5, <1>6, <1>7, <1>8, <1>9 DEF GuardNext

\* A window that confirms a cut began after the last start or stop, and the pump of a monitor that has cut is
\* without power until a start is on its way (sensors/protection.py: _step_current, notify_pump_started).
THEOREM GuardKeepsOff == GuardSpec => [](GuardTypeOK /\ WindowIsOneRuns /\ CutStaysOff)
  <1> DEFINE I == GuardFlags /\ GuardTyped /\ GuardWindow /\ GuardCut
  <1>1. GuardInit => I
    BY GuardStart
  <1>2. I /\ [GuardNext]_guardVars => I'
    BY GuardFlagsStep, GuardTypesStep, GuardCutStep
  <1>3. I => GuardTypeOK /\ WindowIsOneRuns /\ CutStaysOff
    BY DEF GuardFlags, GuardTyped, GuardWindow, GuardCut, GuardTypeOK, WindowIsOneRuns, CutStaysOff
  <1> HIDE DEF I
  <1> QED BY <1>1, <1>2, <1>3, PTL DEF GuardSpec

-----------------------------------------------------------------------------
(* Gaps of the link and what they were. *)

GapsSpec == GapsInit /\ [][GapsNext]_gapVars

Samples == LinkSample \cup {NoSample}
Found == [router : {"unknown", "answered", "silent"}, internet : {"unknown", "reachable", "unreachable"},
          lookup : {"unknown", "ok", "failed"}]
Watches ==
  [answered : BOOLEAN, missed : BOOLEAN, silence : 0..MaxSilences, base : Samples, latest : Samples,
   sampled : BOOLEAN, down : BOOLEAN, onlyDns : BOOLEAN, found : Found, from : SUBSET (1..MaxSilences)]
Probes ==
  [doing : {"idle", "waiting", "router", "internet", "lookup"}, silence : 0..MaxSilences, made : 0..MaxRounds,
   address : BOOLEAN, hung : BOOLEAN]

GapsTyped ==
  /\ wifiUp \in BOOLEAN /\ drops \in 0..MaxDrops
  /\ inHandSample \in Samples /\ watch \in Watches /\ probe \in Probes /\ roundsIn \in Nat
  /\ probe.doing # "idle" => probe.silence # 0

\* The watch starts with nothing seen and nothing found.
LEMMA GapsStart == GapsInit => GapsTyped
  <1> SUFFICES ASSUME GapsInit
               PROVE  GapsTyped
    OBVIOUS
  <1>0. MaxRounds \in Nat /\ MaxSilences \in Nat /\ MaxDrops \in Nat
    BY LinkGapsAssumption
  <1>1. NoSample \in Samples /\ NothingFound \in Found
    BY DEF Samples, NothingFound, Found
  <1>2. watch \in Watches
    BY <1>0, <1>1 DEF GapsInit, Watches
  <1>3. probe \in Probes
    BY <1>0 DEF GapsInit, Probes
  <1> QED BY <1>0, <1>1, <1>2, <1>3 DEF GapsInit, GapsTyped

\* The worse of two findings is one of them.
LEMMA WorseTyped == \A order, a, b : Worse(order, a, b) \in {a, b}
  BY DEF Worse

\* A diagnosis that is kept is of findings.
LEMMA FoundTyped ==
  ASSUME GapsTyped, NEW found \in Found, probe.silence # 0
  PROVE  FoundNow(watch, probe.silence, Silence, found) \in Watches
  <1>1. probe.silence \in 1..MaxSilences
    <2>1. probe.silence \in 0..MaxSilences
      BY DEF GapsTyped, Probes
    <2> QED BY <2>1, LinkGapsAssumption
  <1> QED BY <1>1 DEF GapsTyped, Watches, FoundNow

\* Every step of the watch, the probes and the link keeps the types.
LEMMA GapsTypesStep == GapsTyped /\ [GapsNext]_gapVars => GapsTyped'
  <1> SUFFICES ASSUME GapsTyped, [GapsNext]_gapVars
               PROVE  GapsTyped'
    OBVIOUS
  <1>0. MaxRounds \in Nat /\ MaxSilences \in Nat /\ MaxDrops \in Nat
    BY LinkGapsAssumption
  <1>1. CASE WifiChanges
    BY <1>0, <1>1 DEF WifiChanges, GapsTyped
  <1>2. ASSUME NEW kind \in {"wifi", "ethernet"}, NEW counted \in CountRead, ReadLink(kind, counted)
        PROVE  GapsTyped'
    <2>1. counted \in BOOLEAN
      BY LinkGapsAssumption
    <2>2. inHandSample' \in Samples
      <3>1. CASE kind = "wifi"
        <4>1. inHandSample' = [kind |-> "wifi", connected |-> (kind = "ethernet" \/ wifiUp),
                               count |-> IF counted THEN drops ELSE -1, drops |-> drops]
          BY <1>2, <3>1 DEF ReadLink
        <4>2. (IF counted THEN drops ELSE -1) \in -1..MaxDrops /\ drops \in 0..MaxDrops
          BY <1>0 DEF GapsTyped
        <4> QED BY <4>1, <4>2 DEF Samples, LinkSample
      <3>2. CASE kind = "ethernet"
        <4>1. inHandSample' = [kind |-> "ethernet", connected |-> TRUE, count |-> -1, drops |-> 0]
          BY <1>2, <3>2 DEF ReadLink
        <4> QED BY <4>1 DEF Samples, LinkSample
      <3> QED BY <3>1, <3>2
    <2> QED BY <1>2, <2>2 DEF ReadLink, GapsTyped
  <1>3. CASE HandSample
    <2>1. watch' \in Watches
      BY <1>3 DEF HandSample, GapsTyped, Watches
    <2>2. inHandSample' \in Samples
      BY <1>3 DEF HandSample, Samples
    <2> QED BY <1>3, <2>1, <2>2 DEF HandSample, GapsTyped
  <1>4. ASSUME NEW kind \in {"dns", "other"}, NoAnswer(kind)
        PROVE  GapsTyped'
    <2>1. watch.silence \in Nat /\ (~watch.missed /\ watch.answered => watch.silence + 1 \in 0..MaxSilences)
      BY <1>0, <1>4 DEF NoAnswer, GapsTyped, Watches
    <2>2. watch' \in Watches
      BY <1>4, <2>1 DEF NoAnswer, GapsTyped, Watches
    <2>3. roundsIn' \in Nat
      BY <1>4 DEF NoAnswer, GapsTyped
    <2> QED BY <1>4, <2>2, <2>3 DEF NoAnswer, GapsTyped
  <1>5. ASSUME NEW long \in BOOLEAN, Answered(long)
        PROVE  GapsTyped'
    <2>1. NothingFound \in Found
      BY DEF NothingFound, Found
    <2>2. watch' \in Watches
      BY <1>5, <2>1 DEF Answered, Restarted, GapsTyped, Watches
    <2> QED BY <1>5, <2>2 DEF Answered, GapsTyped
  <1>6. CASE ProbeWakes
    <2>1. Silence \in 0..MaxSilences /\ Silence # 0
      BY <1>0, <1>6 DEF ProbeWakes, Silence, GapsTyped, Watches
    <2>2. (IF probe.silence = Silence THEN probe.made ELSE 0) \in 0..MaxRounds
      BY <1>0 DEF GapsTyped, Probes
    <2>3. probe' = [probe EXCEPT !.doing = "waiting", !.silence = Silence,
                                 !.made = IF probe.silence = Silence THEN probe.made ELSE 0]
      BY <1>6 DEF ProbeWakes
    <2> HIDE DEF Silence
    <2>4. probe' \in Probes /\ probe'.silence = Silence
      BY <2>1, <2>2, <2>3 DEF GapsTyped, Probes
    <2> QED BY <1>6, <2>1, <2>4 DEF ProbeWakes, GapsTyped
  <1>7. CASE RoundBegins
    <2>1. CASE probe.made < MaxRounds /\ Silence = probe.silence
      <3>1. probe' = [probe EXCEPT !.doing = "router", !.made = probe.made + 1] /\ roundsIn' = roundsIn + 1
        BY <1>7, <2>1 DEF RoundBegins
      <3>2. probe.made + 1 \in 0..MaxRounds
        BY <1>0, <2>1 DEF GapsTyped, Probes
      <3>3. probe' \in Probes /\ probe'.silence = probe.silence
        BY <3>1, <3>2 DEF GapsTyped, Probes
      <3> QED BY <1>7, <3>1, <3>3 DEF RoundBegins, GapsTyped
    <2>2. CASE ~(probe.made < MaxRounds /\ Silence = probe.silence)
      <3>1. probe' = [probe EXCEPT !.doing = "idle"] /\ roundsIn' = roundsIn
        BY <1>7, <2>2 DEF RoundBegins
      <3>2. probe' \in Probes /\ probe'.doing = "idle"
        BY <3>1 DEF GapsTyped, Probes
      <3> QED BY <1>7, <3>1, <3>2 DEF RoundBegins, GapsTyped
    <2> QED BY <2>1, <2>2
  <1>8. CASE HungProbeEnds
    <2>1. probe' \in Probes /\ probe'.doing = probe.doing /\ probe'.silence = probe.silence
      BY <1>8 DEF HungProbeEnds, GapsTyped, Probes
    <2> QED BY <1>8, <2>1 DEF HungProbeEnds, GapsTyped
  <1>9. ASSUME NEW d \in Diagnoses, NEW hangs \in BOOLEAN, RouterProbed(d.router, hangs)
        PROVE  GapsTyped'
    <2> DEFINE f == Tool(d.router, hangs)
    <2>1. f \in {"unknown", "answered", "silent"}
      BY LinkGapsAssumption DEF Tool
    <2> HIDE DEF f
    <2>2. probe.silence # 0
      BY <1>9 DEF RouterProbed, GapsTyped
    <2>3. Worse(RouterOrder, watch.found.router, f) \in {"unknown", "answered", "silent"}
      BY <2>1, WorseTyped DEF GapsTyped, Watches, Found
    <2>4. [watch.found EXCEPT !.router = Worse(RouterOrder, watch.found.router, f)] \in Found
      BY <2>3 DEF GapsTyped, Watches, Found
    <2>5. watch' \in Watches
      BY <1>9, <2>2, <2>4, FoundTyped DEF RouterProbed, f
    <2>6. probe' \in Probes /\ probe'.silence = probe.silence
      BY <1>9 DEF RouterProbed, GapsTyped, Probes, f
    <2> QED BY <1>9, <2>2, <2>5, <2>6 DEF RouterProbed, GapsTyped
  <1>10. ASSUME NEW d \in Diagnoses, InternetProbed(d.internet)
         PROVE  GapsTyped'
    <2> DEFINE f == IF probe.address THEN d.internet ELSE "unknown"
    <2>1. f \in {"unknown", "reachable", "unreachable"}
      BY LinkGapsAssumption
    <2> HIDE DEF f
    <2>2. probe.silence # 0
      BY <1>10 DEF InternetProbed, GapsTyped
    <2>3. Worse(InternetOrder, watch.found.internet, f) \in {"unknown", "reachable", "unreachable"}
      BY <2>1, WorseTyped DEF GapsTyped, Watches, Found
    <2>4. [watch.found EXCEPT !.internet = Worse(InternetOrder, watch.found.internet, f)] \in Found
      BY <2>3 DEF GapsTyped, Watches, Found
    <2>5. watch' \in Watches
      BY <1>10, <2>2, <2>4, FoundTyped DEF InternetProbed, f
    <2>6. probe' \in Probes /\ probe'.silence = probe.silence
      BY <1>10 DEF InternetProbed, GapsTyped, Probes
    <2> QED BY <1>10, <2>2, <2>5, <2>6 DEF InternetProbed, GapsTyped
  <1>11. ASSUME NEW d \in Diagnoses, NEW hangs \in BOOLEAN, LookupProbed(d.lookup, hangs)
         PROVE  GapsTyped'
    <2> DEFINE f == Tool(d.lookup, hangs)
    <2>1. f \in {"unknown", "ok", "failed"}
      BY LinkGapsAssumption DEF Tool
    <2> HIDE DEF f
    <2>2. probe.silence # 0
      BY <1>11 DEF LookupProbed, GapsTyped
    <2>3. Worse(LookupOrder, watch.found.lookup, f) \in {"unknown", "ok", "failed"}
      BY <2>1, WorseTyped DEF GapsTyped, Watches, Found
    <2>4. [watch.found EXCEPT !.lookup = Worse(LookupOrder, watch.found.lookup, f)] \in Found
      BY <2>3 DEF GapsTyped, Watches, Found
    <2>5. watch' \in Watches
      BY <1>11, <2>2, <2>4, FoundTyped DEF LookupProbed, f
    <2>6. probe' \in Probes /\ probe'.silence = probe.silence
      BY <1>11 DEF LookupProbed, GapsTyped, Probes
    <2> QED BY <1>11, <2>2, <2>5, <2>6 DEF LookupProbed, GapsTyped
  <1>12. ASSUME NEW d \in Diagnoses, NEW hangs \in BOOLEAN, LookupOutsideSilence(d.lookup, hangs)
         PROVE  GapsTyped'
    <2>1. probe' \in Probes /\ probe'.doing = "idle"
      BY <1>12 DEF LookupOutsideSilence, GapsTyped, Probes
    <2> QED BY <1>12, <2>1 DEF LookupOutsideSilence, GapsTyped
  <1>13. CASE UNCHANGED gapVars
    BY <1>13 DEF gapVars, GapsTyped
  <1> QED
    BY <1>1, <1>2, <1>3, <1>4, <1>5, <1>6, <1>7, <1>8, <1>9, <1>10, <1>11, <1>12, <1>13 DEF GapsNext

\* A sample was read no later than now, and one was read no earlier than another: the Wi-Fi that was connected
\* and is not, or was not in the later one, has gone down in between.
Wifi(s) == s.kind = "wifi"
ReadBefore(s) ==
  /\ s.count # -1 => Wifi(s) /\ s.count = s.drops
  /\ Wifi(s) => s.drops <= drops /\ (s.connected /\ ~wifiUp => s.drops < drops)
NotEarlier(p, s) ==
  Wifi(p) /\ Wifi(s) => p.drops <= s.drops /\ (p.connected /\ ~s.connected => p.drops < s.drops)

SamplesInOrder ==
  /\ ReadBefore(watch.base) /\ ReadBefore(watch.latest) /\ ReadBefore(inHandSample)
  /\ NotEarlier(watch.base, watch.latest) /\ NotEarlier(watch.latest, inHandSample)
  /\ NotEarlier(watch.base, inHandSample)
  /\ watch.down /\ Wifi(watch.base) /\ watch.base.connected => watch.base.drops < drops

\* What was found is of the silence that lasts.
FindingsOfNow ==
  /\ watch.from # {} => watch.missed /\ watch.answered /\ watch.from = {watch.silence}
  /\ watch.from = {} => watch.found = NothingFound

\* The rounds of a silence are counted by the probe, once it has seen it.
RoundsCounted ==
  /\ probe.silence <= watch.silence
  /\ probe.silence = watch.silence => roundsIn <= probe.made
  /\ probe.silence # watch.silence => roundsIn = 0

\* The fields of a sample.
LEMMA SampleReadings ==
  ASSUME NEW s \in Samples
  PROVE  /\ s.count \in Int /\ s.drops \in Int
         /\ s.count # -1 => s.kind = "wifi"
  <1>1. CASE s = NoSample
    BY <1>1 DEF NoSample
  <1>2. CASE s # NoSample
    <2>1. s \in LinkSample
      BY <1>2 DEF Samples
    <2>2. MaxDrops \in Nat
      BY LinkGapsAssumption
    <2>3. \/ s \in [kind : {"wifi"}, connected : BOOLEAN, count : -1..MaxDrops, drops : 0..MaxDrops]
          \/ s \in [kind : {"ethernet"}, connected : {TRUE}, count : {-1}, drops : {0}]
      BY <2>1 DEF LinkSample
    <2>4. CASE s \in [kind : {"wifi"}, connected : BOOLEAN, count : -1..MaxDrops, drops : 0..MaxDrops]
      BY <2>2, <2>4
    <2>5. CASE s \in [kind : {"ethernet"}, connected : {TRUE}, count : {-1}, drops : {0}]
      <3>1. s.kind = "ethernet" /\ s.connected = TRUE /\ s.count = -1 /\ s.drops = 0
        BY <2>5
      <3> QED BY <3>1
    <2> QED BY <2>3, <2>4, <2>5
  <1> QED BY <1>1, <1>2

\* What the fields of a watch are.
LEMMA WatchReadings ==
  ASSUME GapsTyped
  PROVE  /\ watch.base \in Samples /\ watch.latest \in Samples /\ inHandSample \in Samples
         /\ watch.silence \in 0..MaxSilences /\ watch.from \in SUBSET (1..MaxSilences) /\ watch.found \in Found
         /\ drops \in 0..MaxDrops /\ probe.silence \in 0..MaxSilences /\ probe.made \in 0..MaxRounds
         /\ roundsIn \in Nat /\ MaxRounds \in Nat /\ MaxSilences \in Nat /\ MaxDrops \in Nat
  BY LinkGapsAssumption DEF GapsTyped, Watches, Probes

\* The gap is of its own silence, with its cause.
LEMMA GapOwn ==
  ASSUME GapsTyped, SamplesInOrder, FindingsOfNow, watch.answered, watch.missed, gap' = GapOf(watch)
  PROVE  GapIsItsOwn' /\ gap'.cause \in {"wifi", "router", "internet", "dns", "cloud", "unknown"}
  <1> DEFINE link == IF watch.base # NoSample THEN watch.base ELSE watch.latest
             how == IF link.kind = "wifi" THEN Dropped(watch) ELSE "not known"
  <1>0. /\ gap'.cause = CauseOf(link.kind, how, watch.found, watch.onlyDns)
        /\ gap'.silence = watch.silence /\ gap'.from = watch.from /\ gap'.dropped = how
        /\ gap'.wasDown = (watch.base = NoSample \/ ~watch.base.connected \/ drops > watch.base.drops)
        /\ gap'.missedDrop = (/\ watch.base.count >= 0 /\ watch.latest.count >= 0
                              /\ watch.latest.drops > watch.base.drops)
    BY DEF GapOf
  <1>1. gap'.cause \in {"wifi", "router", "internet", "dns", "cloud", "unknown"}
    BY <1>0 DEF CauseOf
  <1>2. gap'.from \subseteq {gap'.silence}
    BY <1>0 DEF FindingsOfNow
  <1>3. ASSUME gap'.cause \in {"router", "internet", "dns", "cloud"}
        PROVE  gap'.from # {}
    <2>1. SUFFICES ASSUME watch.found = NothingFound
                   PROVE  FALSE
      BY <1>0 DEF FindingsOfNow
    <2>2. watch.found.router = "unknown" /\ watch.found.internet = "unknown"
      BY <2>1 DEF NothingFound
    <2>3. CauseOf(link.kind, how, watch.found, watch.onlyDns) \in {"wifi", "unknown"}
      <3> HIDE DEF link, how
      <3> QED BY <2>2 DEF CauseOf
    <2> QED BY <1>0, <1>3, <2>3
  <1>4. ASSUME gap'.dropped = "yes", watch.base # NoSample, watch.base.connected
        PROVE  drops > watch.base.drops
    <2>1. link = watch.base /\ Wifi(watch.base) /\ Dropped(watch) = "yes"
      BY <1>0, <1>4 DEF Wifi
    <2>2. \/ watch.down
          \/ watch.base.count >= 0 /\ watch.latest.count >= 0 /\ watch.latest.count > watch.base.count
      BY <2>1 DEF Dropped
    <2>3. CASE watch.down
      BY <1>4, <2>1, <2>3, WatchReadings, SampleReadings DEF SamplesInOrder
    <2>4. CASE watch.base.count >= 0 /\ watch.latest.count >= 0 /\ watch.latest.count > watch.base.count
      <3>1. /\ watch.base.count \in Int /\ watch.latest.count \in Int /\ watch.base.drops \in Int
            /\ watch.latest.drops \in Int /\ drops \in Int
        BY WatchReadings, SampleReadings
      <3>2. watch.base.count = watch.base.drops /\ watch.latest.count = watch.latest.drops
            /\ watch.latest.drops <= drops
        BY <2>4, <3>1 DEF SamplesInOrder, ReadBefore
      <3> QED BY <2>4, <3>1, <3>2
    <2> QED BY <2>2, <2>3, <2>4
  <1>5. ASSUME gap'.dropped = "no", gap'.missedDrop
        PROVE  FALSE
    <2>1. /\ watch.base.count >= 0 /\ watch.latest.count >= 0 /\ watch.latest.drops > watch.base.drops
          /\ watch.base.count \in Int /\ watch.latest.count \in Int
      BY <1>0, <1>5, WatchReadings, SampleReadings
    <2>2. watch.base.count = watch.base.drops /\ watch.latest.count = watch.latest.drops /\ Wifi(watch.base)
      BY <2>1 DEF SamplesInOrder, ReadBefore
    <2>3. watch.base # NoSample
      BY <2>1 DEF NoSample
    <2>4. Dropped(watch) = "no"
      BY <1>0, <1>5, <2>2, <2>3 DEF Wifi
    <2> QED BY <2>1, <2>2, <2>4 DEF Dropped
  <1> HIDE DEF link, how
  <1> QED BY <1>0, <1>1, <1>2, <1>3, <1>4, <1>5 DEF GapIsItsOwn

GapOrder == SamplesInOrder /\ FindingsOfNow /\ RoundsCounted

\* At the start nothing was sampled, found or told.
LEMMA GapOrderStart == GapsInit => GapOrder /\ GapIsItsOwn /\ gap.cause = "none"
  BY DEF GapsInit, GapOrder, SamplesInOrder, ReadBefore, NotEarlier, Wifi, FindingsOfNow, RoundsCounted,
       GapIsItsOwn,
         NoGap, NoSample

\* The samples stay in the order they were taken in, and count what the link counts.
LEMMA SamplesInOrderStep == GapsTyped /\ SamplesInOrder /\ [GapsNext]_gapVars => SamplesInOrder'
  <1> SUFFICES ASSUME GapsTyped, SamplesInOrder, [GapsNext]_gapVars
               PROVE  SamplesInOrder'
    OBVIOUS
  <1>0. /\ drops \in Nat /\ watch.base \in Samples /\ watch.latest \in Samples /\ inHandSample \in Samples
        /\ watch.base.drops \in Int /\ watch.latest.drops \in Int /\ inHandSample.drops \in Int
    BY WatchReadings, SampleReadings
  <1> USE <1>0 DEF SamplesInOrder, ReadBefore, NotEarlier, Wifi
  <1>1. CASE WifiChanges
    BY <1>1 DEF WifiChanges
  <1>2. ASSUME NEW kind \in {"wifi", "ethernet"}, NEW counted \in CountRead, ReadLink(kind, counted)
        PROVE  SamplesInOrder'
    <2>1. UNCHANGED <<wifiUp, drops, watch>>
      BY <1>2 DEF ReadLink
    <2>2. CASE kind = "wifi"
      <3>1. /\ inHandSample'.kind = "wifi" /\ (inHandSample'.connected <=> wifiUp)
            /\ inHandSample'.drops = drops /\ inHandSample'.count \in {drops, -1}
        BY <1>2, <2>2 DEF ReadLink
      <3> QED BY <2>1, <3>1
    <2>3. CASE kind = "ethernet"
      <3>1. inHandSample'.kind = "ethernet" /\ inHandSample'.count = -1
        BY <1>2, <2>3 DEF ReadLink
      <3> QED BY <2>1, <3>1
    <2> QED BY <2>2, <2>3
  <1>3. CASE HandSample
    <2>1. /\ watch'.latest = inHandSample /\ watch'.base = watch.base /\ inHandSample' = NoSample
          /\ (watch'.down <=> watch.down \/ (Wifi(inHandSample) /\ ~inHandSample.connected))
          /\ UNCHANGED <<wifiUp, drops>>
      BY <1>3 DEF HandSample, GapsTyped, Watches
    <2>2. NoSample.kind = "none" /\ NoSample.count = -1
      BY DEF NoSample
    <2>3. watch'.down /\ Wifi(watch.base) /\ watch.base.connected => watch.base.drops < drops
      BY <2>1
    <2>4. ReadBefore(inHandSample)' /\ NotEarlier(watch.latest, inHandSample)'
          /\ NotEarlier(watch.base, inHandSample)'
      BY <2>1, <2>2
    <2> QED BY <2>1, <2>3, <2>4
  <1>4. ASSUME NEW kind \in {"dns", "other"}, NoAnswer(kind)
        PROVE  SamplesInOrder'
    <2>1. /\ watch'.latest = watch.latest /\ watch'.base = watch.base /\ watch'.down = watch.down
          /\ UNCHANGED <<wifiUp, drops, inHandSample>>
      BY <1>4 DEF NoAnswer, GapsTyped, Watches
    <2> QED BY <2>1
  <1>5. ASSUME NEW long \in BOOLEAN, Answered(long)
        PROVE  SamplesInOrder'
    <2>1. /\ watch'.latest = watch.latest /\ watch'.base = watch.latest /\ watch'.down = FALSE
          /\ UNCHANGED <<wifiUp, drops, inHandSample>>
      BY <1>5 DEF Answered, Restarted, GapsTyped, Watches
    <2> QED BY <2>1
  <1>6. ASSUME ProbeWakes \/ RoundBegins \/ HungProbeEnds \/ UNCHANGED gapVars
        PROVE  SamplesInOrder'
    <2>1. UNCHANGED <<wifiUp, drops, inHandSample, watch>>
      BY <1>6 DEF ProbeWakes, RoundBegins, HungProbeEnds, gapVars
    <2> QED BY <2>1
  <1>7. ASSUME NEW d \in Diagnoses, NEW hangs \in BOOLEAN,
               \/ RouterProbed(d.router, hangs) \/ LookupProbed(d.lookup, hangs)
               \/ LookupOutsideSilence(d.lookup, hangs) \/ InternetProbed(d.internet)
        PROVE  SamplesInOrder'
    <2>1. UNCHANGED <<wifiUp, drops, inHandSample>>
      BY <1>7 DEF RouterProbed, LookupProbed, LookupOutsideSilence, InternetProbed
    <2>2. watch' = watch \/ \E s, now, found : watch' = FoundNow(watch, s, now, found)
      BY <1>7 DEF RouterProbed, LookupProbed, LookupOutsideSilence, InternetProbed
    <2>3. watch'.latest = watch.latest /\ watch'.base = watch.base /\ watch'.down = watch.down
      BY <2>2 DEF FoundNow, GapsTyped, Watches
    <2> QED BY <2>1, <2>3
  <1> QED
    BY <1>1, <1>2, <1>3, <1>4, <1>5, <1>6, <1>7 DEF GapsNext

\* Only a finding of the silence that lasts is kept.
LEMMA FoundKept ==
  ASSUME GapsTyped, FindingsOfNow, probe.silence # 0, NEW found,
         watch' = FoundNow(watch, probe.silence, Silence, found)
  PROVE  FindingsOfNow'
  <1>1. CASE probe.silence = Silence
    <2>1. watch.missed /\ watch.answered /\ Silence = watch.silence
      BY <1>1 DEF Silence
    <2>2. /\ watch'.missed /\ watch'.answered /\ watch'.silence = watch.silence
          /\ watch'.from = watch.from \cup {watch.silence}
      BY <1>1, <2>1 DEF FoundNow, GapsTyped, Watches
    <2>3. watch'.from = {watch.silence}
      BY <2>2 DEF FindingsOfNow
    <2> QED BY <2>2, <2>3 DEF FindingsOfNow
  <1>2. CASE probe.silence # Silence
    BY <1>2 DEF FoundNow, FindingsOfNow
  <1> QED BY <1>1, <1>2

\* What is found stays of the silence that lasts.
LEMMA FindingsStep == GapsTyped /\ FindingsOfNow /\ [GapsNext]_gapVars => FindingsOfNow'
  <1> SUFFICES ASSUME GapsTyped, FindingsOfNow, [GapsNext]_gapVars
               PROVE  FindingsOfNow'
    OBVIOUS
  <1>1. CASE HandSample
    <2>1. /\ watch'.from = watch.from /\ watch'.found = watch.found /\ watch'.silence = watch.silence
          /\ (watch'.missed <=> watch.missed) /\ (watch'.answered <=> watch.answered)
      BY <1>1 DEF HandSample, GapsTyped, Watches
    <2> QED BY <2>1 DEF FindingsOfNow
  <1>2. ASSUME NEW kind \in {"dns", "other"}, NoAnswer(kind)
        PROVE  FindingsOfNow'
    <2>1. /\ watch'.from = watch.from /\ watch'.found = watch.found /\ watch'.missed
          /\ (watch'.answered <=> watch.answered)
          /\ watch.missed => watch'.silence = watch.silence
      BY <1>2 DEF NoAnswer, GapsTyped, Watches
    <2> QED BY <2>1 DEF FindingsOfNow
  <1>3. ASSUME NEW long \in BOOLEAN, Answered(long)
        PROVE  FindingsOfNow'
    <2>1. watch'.from = {} /\ watch'.found = NothingFound
      BY <1>3 DEF Answered, Restarted, GapsTyped, Watches
    <2> QED BY <2>1 DEF FindingsOfNow
  <1>4. ASSUME UNCHANGED watch
        PROVE  FindingsOfNow'
    BY <1>4 DEF FindingsOfNow
  <1>5. ASSUME NEW d \in Diagnoses, NEW hangs \in BOOLEAN,
               RouterProbed(d.router, hangs) \/ LookupProbed(d.lookup, hangs) \/ InternetProbed(d.internet)
        PROVE  FindingsOfNow'
    <2>1. probe.silence # 0
      BY <1>5 DEF RouterProbed, LookupProbed, InternetProbed, GapsTyped
    <2>2. \E found : watch' = FoundNow(watch, probe.silence, Silence, found)
      BY <1>5 DEF RouterProbed, LookupProbed, InternetProbed
    <2> QED BY <2>1, <2>2, FoundKept
  <1>6. ASSUME NEW d \in Diagnoses, NEW hangs \in BOOLEAN, LookupOutsideSilence(d.lookup, hangs)
        PROVE  FindingsOfNow'
    BY <1>4, <1>6 DEF LookupOutsideSilence
  <1>7. CASE WifiChanges \/ ProbeWakes \/ RoundBegins \/ HungProbeEnds \/ UNCHANGED gapVars
    BY <1>4, <1>7 DEF WifiChanges, ProbeWakes, RoundBegins, HungProbeEnds, gapVars
  <1>8. ASSUME NEW kind \in {"wifi", "ethernet"}, NEW counted \in CountRead, ReadLink(kind, counted)
        PROVE  FindingsOfNow'
    BY <1>4, <1>8 DEF ReadLink
  <1> QED BY <1>1, <1>2, <1>3, <1>5, <1>6, <1>7, <1>8 DEF GapsNext

\* The probe counts every round of the silence it has seen.
LEMMA RoundsStep == GapsTyped /\ RoundsCounted /\ [GapsNext]_gapVars => RoundsCounted'
  <1> SUFFICES ASSUME GapsTyped, RoundsCounted, [GapsNext]_gapVars
               PROVE  RoundsCounted'
    OBVIOUS
  <1>0. watch.silence \in Nat /\ probe.silence \in Nat /\ probe.made \in Nat /\ roundsIn \in Nat
    BY WatchReadings
  <1> USE <1>0 DEF RoundsCounted
  <1>1. CASE HandSample
    <2>1. watch'.silence = watch.silence /\ UNCHANGED <<probe, roundsIn>>
      BY <1>1 DEF HandSample, GapsTyped, Watches
    <2> QED BY <2>1
  <1>2. ASSUME NEW kind \in {"dns", "other"}, NoAnswer(kind)
        PROVE  RoundsCounted'
    <2>1. probe' = probe /\ \/ watch'.silence = watch.silence /\ roundsIn' = roundsIn
                            \/ watch'.silence = watch.silence + 1 /\ roundsIn' = 0
      BY <1>2 DEF NoAnswer, GapsTyped, Watches
    <2> QED BY <2>1
  <1>3. ASSUME NEW long \in BOOLEAN, Answered(long)
        PROVE  RoundsCounted'
    <2>1. watch'.silence = watch.silence /\ UNCHANGED <<probe, roundsIn>>
      BY <1>3 DEF Answered, Restarted, GapsTyped, Watches
    <2> QED BY <2>1
  <1>4. CASE ProbeWakes
    <2>1. Silence = watch.silence
      BY <1>4 DEF ProbeWakes, Silence
    <2>2. /\ probe'.silence = watch.silence
          /\ probe'.made = IF probe.silence = watch.silence THEN probe.made ELSE 0
          /\ UNCHANGED <<watch, roundsIn>>
      BY <1>4, <2>1 DEF ProbeWakes, GapsTyped, Probes
    <2> QED BY <2>2
  <1>5. CASE RoundBegins
    <2>1. /\ probe'.silence = probe.silence /\ watch' = watch
          /\ \/ probe'.made = probe.made /\ roundsIn' = roundsIn
             \/ probe'.made = probe.made + 1 /\ roundsIn' = roundsIn + 1 /\ Silence = probe.silence
      BY <1>5 DEF RoundBegins, GapsTyped, Probes
    <2>2. probe.doing # "idle" /\ probe.silence # 0
      BY <1>5 DEF RoundBegins, GapsTyped
    <2>3. Silence = probe.silence => probe.silence = watch.silence
      BY <2>2 DEF Silence
    <2> QED BY <2>1, <2>3
  <1>6. ASSUME NEW d \in Diagnoses, NEW hangs \in BOOLEAN,
               \/ RouterProbed(d.router, hangs) \/ LookupProbed(d.lookup, hangs)
               \/ LookupOutsideSilence(d.lookup, hangs) \/ InternetProbed(d.internet)
        PROVE  RoundsCounted'
    <2>1. probe'.silence = probe.silence /\ probe'.made = probe.made /\ roundsIn' = roundsIn
      BY <1>6 DEF RouterProbed, LookupProbed, LookupOutsideSilence, InternetProbed, GapsTyped, Probes
    <2>2. watch' = watch \/ \E s, now, found : watch' = FoundNow(watch, s, now, found)
      BY <1>6 DEF RouterProbed, LookupProbed, LookupOutsideSilence, InternetProbed
    <2>3. watch'.silence = watch.silence
      BY <2>2 DEF FoundNow, GapsTyped, Watches
    <2> QED BY <2>1, <2>3
  <1>7. CASE HungProbeEnds
    <2>1. probe'.silence = probe.silence /\ probe'.made = probe.made /\ UNCHANGED <<watch, roundsIn>>
      BY <1>7 DEF HungProbeEnds, GapsTyped, Probes
    <2> QED BY <2>1
  <1>8. ASSUME UNCHANGED <<watch, probe, roundsIn>>
        PROVE  RoundsCounted'
    BY <1>8
  <1>9. CASE WifiChanges \/ UNCHANGED gapVars
    BY <1>8, <1>9 DEF WifiChanges, gapVars
  <1>10. ASSUME NEW kind \in {"wifi", "ethernet"}, NEW counted \in CountRead, ReadLink(kind, counted)
         PROVE  RoundsCounted'
    BY <1>8, <1>10 DEF ReadLink
  <1> QED BY <1>1, <1>2, <1>3, <1>4, <1>5, <1>6, <1>7, <1>9, <1>10 DEF GapsNext

Causes == {"none", "wifi", "router", "internet", "dns", "cloud", "unknown"}

\* A gap is raised by an answer only.
LEMMA GapStep ==
  ASSUME GapsTyped, SamplesInOrder, FindingsOfNow, GapIsItsOwn, gap.cause \in Causes, [GapsNext]_gapVars
  PROVE  GapIsItsOwn' /\ gap'.cause \in Causes
  <1>1. ASSUME gap' = NoGap
        PROVE  GapIsItsOwn' /\ gap'.cause \in Causes
    BY <1>1 DEF NoGap, GapIsItsOwn, Causes
  <1>2. ASSUME NEW long \in BOOLEAN, Answered(long), gap' # NoGap
        PROVE  GapIsItsOwn' /\ gap'.cause \in Causes
    <2>1. watch.answered /\ watch.missed /\ gap' = GapOf(watch)
      BY <1>2 DEF Answered
    <2> QED BY <2>1, GapOwn DEF Causes
  <1>3. CASE UNCHANGED gapVars
    BY <1>3 DEF gapVars, GapIsItsOwn
  <1>4. ASSUME GapsNext, gap' # NoGap
        PROVE  \E long \in BOOLEAN : Answered(long)
    BY <1>4 DEF GapsNext, WifiChanges, ReadLink, HandSample, NoAnswer, ProbeWakes, RoundBegins, HungProbeEnds,
                RouterProbed, LookupProbed, LookupOutsideSilence, InternetProbed
  <1> QED BY <1>1, <1>2, <1>3, <1>4

\* A gap is told with findings of its own silence only, and a silence gets a bounded number of probe rounds
\* (net_care.py: the link watch and its probes).
THEOREM GapsAreExplained == GapsSpec => [](GapsTypeOK /\ GapIsItsOwn /\ RoundsBounded)
  <1> DEFINE I == GapsTyped /\ GapOrder /\ GapIsItsOwn /\ gap.cause \in Causes
  <1>1. GapsInit => I
    BY GapsStart, GapOrderStart DEF Causes
  <1>2. I /\ [GapsNext]_gapVars => I'
    BY GapsTypesStep, SamplesInOrderStep, FindingsStep, RoundsStep, GapStep DEF GapOrder
  <1>3. I => RoundsBounded
    BY WatchReadings DEF GapOrder, RoundsCounted, RoundsBounded
  <1>4. I => GapsTypeOK
    BY DEF GapsTyped, Watches, Probes, Found, Samples, GapsTypeOK, Causes
  <1> HIDE DEF I
  <1>5. I => GapIsItsOwn
    BY DEF I
  <1> QED BY <1>1, <1>2, <1>3, <1>4, <1>5, PTL DEF GapsSpec

-----------------------------------------------------------------------------
(* The Wi-Fi's power saving. *)

WifiSpec == WifiInit /\ [][WifiNext]_wifiVars

Care == [iface : Adapters \cup {"none"}, reported : {"none", "on", "off", "unknown"},
         held : BOOLEAN, due : BOOLEAN, hung : BOOLEAN]

\* What the agent holds off it has turned off and read off.
HeldIsOff(c, off) == c.held => c.iface \in off

\* The adapter that is there now is looked at as one of which nothing is known, or as before.
LEMMA AtAdapterFacts ==
  ASSUME NEW c \in Care, adapter \in Adapters
  PROVE  AtAdapter(c) \in Care /\ AtAdapter(c).iface = adapter /\ (AtAdapter(c).held => AtAdapter(c) = c)
  BY DEF AtAdapter, Care

\* A check leaves power saving held only when it found it off, and held before, or ran the tool and read it so.
LEMMA CheckFacts ==
  ASSUME NEW c \in Care, adapter \in Adapters, saving \in [Adapters -> {"on", "off"}],
         NEW first \in BOOLEAN, NEW set \in BOOLEAN, NEW done \in BOOLEAN, NEW again \in BOOLEAN
  PROVE  LET d == CheckPowerSave(c, first, set, done, again) IN
         /\ d \in Care /\ d.iface = c.iface
         /\ d.held => d.reported = "off" /\ (c.held \/ (first /\ set /\ again /\ saving[adapter] = "on"))
  <1>1. CASE ~first
    BY <1>1 DEF CheckPowerSave, Care
  <1>2. CASE first /\ saving[adapter] = "off"
    BY <1>2 DEF CheckPowerSave, Care
  <1>3. CASE first /\ saving[adapter] # "off" /\ again /\ set
    BY <1>3 DEF CheckPowerSave, Care
  <1>4. CASE first /\ saving[adapter] # "off" /\ ~(again /\ set)
    BY <1>4 DEF CheckPowerSave, Care
  <1> QED BY <1>1, <1>2, <1>3, <1>4

\* A check keeps the adapter it holds among those it turned off, and the block it writes says no more.
LEMMA CareStepFacts ==
  ASSUME WifiTypeOK, HeldIsOff(care, offByAgent),
         NEW connected \in BOOLEAN, NEW first \in BOOLEAN, NEW set \in BOOLEAN, NEW done \in BOOLEAN, NEW again \in BOOLEAN,
         NEW hangs \in BOOLEAN, CareStep(connected, first, set, done, again, hangs)
  PROVE  /\ care' \in Care /\ saving' \in [Adapters -> {"on", "off"}] /\ offByAgent' \subseteq Adapters
         /\ HeldIsOff(care', offByAgent')
         /\ LinkKind = "wifi" => care'.iface = adapter
         /\ block' = IF LinkKind = "none" THEN NoBlock ELSE BlockOf(LinkKind, connected, care')
  <1> care \in Care /\ saving \in [Adapters -> {"on", "off"}] /\ offByAgent \subseteq Adapters
    BY DEF WifiTypeOK, Care
  <1>1. CASE LinkKind # "wifi"
    BY <1>1 DEF CareStep
  <1>2. CASE LinkKind = "wifi"
    <2>1. adapter \in Adapters
      BY <1>2 DEF LinkKind, WifiTypeOK
    <2>0. PICK here \in Care : here = AtAdapter(care) /\ here.iface = adapter /\ (here.held => here = care)
      BY <2>1, AtAdapterFacts
    <2>2. PICK f \in BOOLEAN : f <=> first /\ ~care.hung
      BY Zenon
    <2>3. CASE ~here.due
      <3>1. care' = here /\ saving' = saving /\ offByAgent' = offByAgent
        BY <1>2, <2>0, <2>3 DEF CareStep
      <3>2. HeldIsOff(here, offByAgent)
        BY <2>0 DEF HeldIsOff
      <3> QED BY <1>2, <2>0, <3>1, <3>2 DEF CareStep
    <2>4. CASE here.due
      <3>1. PICK n \in BOOLEAN, d \in BOOLEAN, g \in BOOLEAN :
                   (n <=> set /\ f) /\ (d <=> done /\ f) /\ (g <=> again /\ f)
        BY Zenon
      <3> DEFINE seen == CheckPowerSave(here, f, n, d, g)
      <3>2. /\ care' = [seen EXCEPT !.due = FALSE, !.hung = @ \/ hangs]
            /\ saving' = IF f /\ n /\ saving[adapter] = "on" THEN [saving EXCEPT ![adapter] = "off"] ELSE saving
            /\ offByAgent' = IF f /\ n /\ saving[adapter] = "on" /\ g THEN offByAgent \cup {adapter}
                             ELSE IF care'.reported # "off" THEN offByAgent \ {adapter} ELSE offByAgent
            /\ block' = BlockOf(LinkKind, connected, care')
        BY <1>2, <2>0, <2>2, <2>4, <3>1 DEF CareStep
      <3>3. /\ seen \in Care /\ seen.iface = adapter
            /\ seen.held => seen.reported = "off" /\ (here.held \/ (f /\ n /\ g /\ saving[adapter] = "on"))
        <4>1. saving \in [Adapters -> {"on", "off"}] /\ adapter \in Adapters /\ here \in Care
              /\ f \in BOOLEAN /\ n \in BOOLEAN /\ d \in BOOLEAN /\ g \in BOOLEAN
          BY <2>1
        <4>2. /\ seen \in Care /\ seen.iface = here.iface
              /\ seen.held => seen.reported = "off" /\ (here.held \/ (f /\ n /\ g /\ saving[adapter] = "on"))
          BY <4>1, CheckFacts
        <4> QED BY <2>0, <4>2
      <3> HIDE DEF seen
      <3>4. /\ care' \in Care /\ care'.iface = adapter /\ care'.reported = seen.reported
            /\ care'.held <=> seen.held
        BY <3>2, <3>3 DEF Care
      <3>5. care'.held => care'.iface \in offByAgent'
        <4>1. CASE f /\ n /\ saving[adapter] = "on" /\ g
          BY <3>2, <3>4, <4>1
        <4>2. CASE ~(f /\ n /\ saving[adapter] = "on" /\ g)
          BY <2>0, <3>2, <3>3, <3>4, <4>2 DEF HeldIsOff
        <4> QED BY <4>1, <4>2
      <3>6. saving' \in [Adapters -> {"on", "off"}] /\ offByAgent' \subseteq Adapters
        BY <2>1, <3>2
      <3> QED BY <1>2, <3>2, <3>4, <3>5, <3>6 DEF HeldIsOff
    <2> QED BY <2>3, <2>4
  <1> QED BY <1>1, <1>2

\* The block of a link is of its type, and speaks of what is held only of the adapter that is there.
LEMMA BlockFacts ==
  ASSUME NEW c \in Care, NEW connected
  PROVE  LET b == BlockOf(LinkKind, connected, c) IN
         /\ LinkKind # "none" => b.kind \in {"wifi", "ethernet"}
         /\ b.powerSave \in {"none", "on", "off", "unknown"}
         /\ b.held => c.held /\ LinkKind = "wifi" /\ b.iface = adapter
  BY DEF BlockOf, LinkKind, Care

\* A block that is new says held only of an adapter whose saving the agent turned off.
LEMMA WifiStep ==
  WifiTypeOK /\ HeldIsOff(care, offByAgent) /\ [WifiNext]_wifiVars
    => /\ WifiTypeOK' /\ HeldIsOff(care, offByAgent)'
       /\ block'.held /\ block' # block => block'.iface \in offByAgent'
  <1> DEFINE Good == /\ WifiTypeOK' /\ HeldIsOff(care, offByAgent)'
                     /\ block'.held /\ block' # block => block'.iface \in offByAgent'
  <1> SUFFICES ASSUME WifiTypeOK, HeldIsOff(care, offByAgent), [WifiNext]_wifiVars
               PROVE  Good
    OBVIOUS
  <1>1. ASSUME NEW connected \in BOOLEAN, NEW first \in BOOLEAN, NEW set \in BOOLEAN, NEW done \in BOOLEAN,
               NEW again \in BOOLEAN, NEW hangs \in BOOLEAN, CareStep(connected, first, set, done, again, hangs)
        PROVE  Good
    <2>1. /\ care' \in Care /\ saving' \in [Adapters -> {"on", "off"}] /\ offByAgent' \subseteq Adapters
          /\ HeldIsOff(care', offByAgent')
          /\ LinkKind = "wifi" => care'.iface = adapter
          /\ block' = IF LinkKind = "none" THEN NoBlock ELSE BlockOf(LinkKind, connected, care')
      BY <1>1, CareStepFacts
    <2>2. adapter' = adapter /\ cable' = cable
      BY <1>1 DEF CareStep
    <2>3. /\ block'.kind \in {"none", "wifi", "ethernet"}
          /\ block'.powerSave \in {"none", "on", "off", "unknown"}
          /\ block'.held => care'.held /\ LinkKind = "wifi" /\ block'.iface = adapter
      <3>1. CASE LinkKind = "none"
        BY <2>1, <3>1 DEF NoBlock
      <3>2. CASE LinkKind # "none"
        BY <2>1, <3>2, BlockFacts
      <3> QED BY <3>1, <3>2
    <2>4. WifiTypeOK'
      BY <2>1, <2>2, <2>3 DEF WifiTypeOK, Care
    <2> QED BY <2>1, <2>3, <2>4 DEF HeldIsOff
  <1>2. CASE CheckDue
    BY <1>2 DEF CheckDue, WifiTypeOK, HeldIsOff
  <1>3. CASE PowerToolEnds
    BY <1>3 DEF PowerToolEnds, WifiTypeOK, HeldIsOff
  <1>4. ASSUME NEW a \in Adapters, NEW state \in {"on", "off"}, SavingSet(a, state)
        PROVE  Good
    BY <1>4 DEF SavingSet, WifiTypeOK, HeldIsOff
  <1>5. ASSUME NEW a \in Adapters \cup {"none"}, NEW c \in {"none", "down", "up"}, Plugged(a, c)
        PROVE  Good
    BY <1>5 DEF Plugged, WifiTypeOK, HeldIsOff
  <1>6. CASE UNCHANGED wifiVars
    BY <1>6 DEF wifiVars, WifiTypeOK, HeldIsOff
  <1> QED BY <1>1, <1>2, <1>3, <1>4, <1>5, <1>6 DEF WifiNext

\* The agent claims to hold an adapter's power saving off only when the agent found it on and read it off after its tool (net_care.py:
\* _check_power_save).
THEOREM WifiKeepsItsWord == WifiSpec => []WifiTypeOK /\ HeldIsOurs
  <1> DEFINE I == WifiTypeOK /\ HeldIsOff(care, offByAgent)
             Told == block'.held /\ block' # block => block'.iface \in offByAgent'
  <1>1. WifiInit => I
    BY DEF WifiInit, WifiTypeOK, HeldIsOff, NoBlock
  <1>2. I /\ [WifiNext]_wifiVars => I' /\ Told
    BY WifiStep
  <1>3. I => WifiTypeOK
    OBVIOUS
  <1>4. I /\ [WifiNext]_wifiVars => [Told]_wifiVars
    BY <1>2
  <1> QED BY <1>1, <1>2, <1>3, <1>4, PTL DEF WifiSpec, HeldIsOurs

-----------------------------------------------------------------------------
(* The node's events. *)

EventsSpec == EventsInit /\ [][EventsNext]_eventVars

EventsTyped ==
  /\ waiting \in Seq(Event) /\ posting \in Event \cup {NoEvent}
  /\ tokens \in 0..Burst /\ stopping \in {"no", "flushing", "closed"}
  /\ raised \in 0..MaxEvents /\ late \in 0..raised
  /\ fate \in [1..MaxEvents -> Fates] /\ arrived \in Seq(1..MaxEvents)

\* What waits was raised in its order, what is in flight before it, and what arrived no later than either: an
\* event whose answer was lost has arrived, and goes back to wait.
EventsQueued ==
  /\ IdsGrow(waiting) /\ \A x \in IdsOf(waiting) : x \in 1..raised
  /\ posting # NoEvent => posting.id \in 1..raised /\ \A x \in IdsOf(waiting) : posting.id < x
  /\ \A i, j \in DOMAIN arrived : i < j => arrived[i] < arrived[j]
  /\ \A i \in DOMAIN arrived : arrived[i] <= raised /\ \A x \in IdsOf(waiting) : arrived[i] <= x
  /\ posting # NoEvent => \A i \in DOMAIN arrived : arrived[i] <= posting.id

\* The event dropped for room: a place of the queue, and of an alarm only when all are.
LEMMA VictimFacts ==
  ASSUME NEW q \in Seq(Event), q # <<>>
  PROVE  /\ Victim(q) \in 1..Len(q)
         /\ q[Victim(q)].alarm => \A j \in DOMAIN q : q[j].alarm
  <1> DEFINE plain == {i \in DOMAIN q : ~q[i].alarm}
  <1>1. CASE plain = {}
    BY <1>1 DEF Victim
  <1>2. CASE plain # {}
    <2>1. plain \subseteq Nat
      OBVIOUS
    <2>2. \E i \in plain : \A j \in plain : i <= j
      <3> HIDE DEF plain
      <3> QED BY <1>2, <2>1, Smallest
    <2>3. Victim(q) \in plain
      BY <1>2, <2>2 DEF Victim
    <2> QED BY <2>3
  <1> QED BY <1>1, <1>2

\* The queue with room for one more.
RoomMade == IF Full(waiting) THEN RemoveAt(waiting, Victim(waiting)) ELSE waiting

\* The queue after room was made, and the event it cost.
LEMMA RoomMadeFacts ==
  ASSUME EventsTyped, EventsQueued
  PROVE  /\ RoomMade \in Seq(Event) /\ IdsGrow(RoomMade) /\ IdsOf(RoomMade) \subseteq IdsOf(waiting)
         /\ Full(waiting) => Victim(waiting) \in DOMAIN waiting
  <1>1. CASE ~Full(waiting)
    BY <1>1 DEF RoomMade, EventsTyped, EventsQueued
  <1>2. CASE Full(waiting)
    <2>1. waiting \in Seq(Event) /\ waiting # <<>>
      BY <1>2, NodeEventsAssumption DEF EventsTyped, Full
    <2>2. Victim(waiting) \in 1..Len(waiting)
      BY <2>1, VictimFacts
    <2>3. \A x \in Event : x.id \in Nat
      BY NodeEventsAssumption DEF Event
    <2>4. IdsGrow(waiting)
      BY DEF EventsQueued
    <2>5. /\ RemoveAt(waiting, Victim(waiting)) \in Seq(Event)
          /\ IdsGrow(RemoveAt(waiting, Victim(waiting)))
          /\ IdsOf(RemoveAt(waiting, Victim(waiting))) \subseteq IdsOf(waiting)
      BY <2>1, <2>2, <2>3, <2>4, RemoveAtFacts, GrowRemoved
    <2> QED BY <1>2, <2>1, <2>2, <2>5 DEF RoomMade
  <1> QED BY <1>1, <1>2

\* Every step leaves backingOff Boolean.
LEMMA BackingOffStep == backingOff \in BOOLEAN /\ [EventsNext]_eventVars => backingOff' \in BOOLEAN
  BY Zenon DEF EventsNext, Submit, TakeEvent, Post, BackoffEnds, TokenBack, DeadlinePasses, CloseBegins,
       CloseEnds,
               eventVars

\* What the worker does with an event leaves it among the fates, and never for room.
LEMMA SettledFacts ==
  \A e, ans : Settled(e, ans) \in Fates \ {"room", "none", "unsent"}
  BY DEF Settled, Fates

\* Every step keeps the numbers growing: what arrived, then what is in hand, then what waits.
LEMMA EventsStep == EventsTyped /\ EventsQueued /\ [EventsNext]_eventVars => EventsTyped' /\ EventsQueued'
  <1> SUFFICES ASSUME EventsTyped, EventsQueued, [EventsNext]_eventVars
               PROVE  EventsTyped' /\ EventsQueued'
    OBVIOUS
  <1> USE NodeEventsAssumption
  <1>1. ASSUME NEW alarm \in BOOLEAN, Submit(alarm)
        PROVE  EventsTyped' /\ EventsQueued'
    <2> DEFINE e == [id |-> raised + 1, alarm |-> alarm]
    <2>1. /\ raised \in 0..MaxEvents /\ raised < MaxEvents /\ raised' = raised + 1
          /\ raised + 1 \in 1..MaxEvents
          /\ UNCHANGED <<posting, backingOff, tokens, stopping, late, arrived>>
      BY <1>1 DEF Submit, EventsTyped
    <2>2. e \in Event
      BY <2>1 DEF Event
    <2>3. fate' \in [1..MaxEvents -> Fates]
      BY <1>1, <2>1 DEF Submit, EventsTyped, Fates
    <2>4. waiting' = waiting \/ waiting' = Append(RoomMade, e)
      BY <1>1 DEF Submit, RoomMade
    <2> HIDE DEF e
    <2>5. waiting' \in Seq(Event) /\ IdsGrow(waiting')
          /\ IdsOf(waiting') \subseteq IdsOf(waiting) \cup {raised + 1}
      <3>1. CASE waiting' = waiting
        BY <3>1 DEF EventsTyped, EventsQueued
      <3>2. CASE waiting' = Append(RoomMade, e)
        <4>1. RoomMade \in Seq(Event) /\ IdsGrow(RoomMade) /\ IdsOf(RoomMade) \subseteq IdsOf(waiting)
          BY RoomMadeFacts
        <4>2. e.id = raised + 1 /\ \A x \in IdsOf(RoomMade) : x < e.id
          BY <2>1, <4>1 DEF e, EventsQueued
        <4>3. IdsGrow(Append(RoomMade, e)) /\ IdsOf(Append(RoomMade, e)) = IdsOf(RoomMade) \cup {e.id}
          BY <2>2, <4>1, <4>2, GrowAppended
        <4>4. Append(RoomMade, e) \in Seq(Event)
          BY <2>2, <4>1
        <4> QED BY <3>2, <4>1, <4>2, <4>3, <4>4
      <3> QED BY <2>4, <3>1, <3>2
    <2>6. EventsTyped'
      BY <2>1, <2>3, <2>5 DEF EventsTyped
    <2>7. \A x \in IdsOf(waiting') : x \in IdsOf(waiting) \/ x = raised + 1
      BY <2>5
    <2>8. EventsQueued'
      <3>1. raised \in Nat /\ \A i \in DOMAIN arrived : arrived[i] \in Nat /\ arrived[i] <= raised
        BY DEF EventsTyped, EventsQueued
      <3>2. \A x \in IdsOf(waiting) : x \in 1..raised /\ x \in Nat
        BY <3>1 DEF EventsQueued
      <3>3. \A x \in IdsOf(waiting') : x \in 1..raised'
        BY <2>1, <2>7, <3>1, <3>2
      <3>4. posting' # NoEvent => posting'.id \in 1..raised' /\ \A x \in IdsOf(waiting') : posting'.id < x
        BY <2>1, <2>7, <3>1 DEF EventsQueued
      <3>5. \A i \in DOMAIN arrived : arrived[i] <= raised' /\ \A x \in IdsOf(waiting') : arrived[i] <= x
        BY <2>1, <2>7, <3>1 DEF EventsQueued
      <3>6. \A i, j \in DOMAIN arrived' : i < j => arrived'[i] < arrived'[j]
        BY <2>1 DEF EventsQueued
      <3>7. posting' # NoEvent => \A i \in DOMAIN arrived' : arrived'[i] <= posting'.id
        BY <2>1 DEF EventsQueued
      <3> QED BY <2>1, <2>5, <3>3, <3>4, <3>5, <3>6, <3>7 DEF EventsQueued
    <2> QED BY <2>6, <2>8
  <1>2. CASE TakeEvent
    <2>1. /\ posting = NoEvent /\ waiting \in Seq(Event) /\ waiting # <<>> /\ IdsGrow(waiting)
          /\ posting' = Head(waiting) /\ waiting' = Tail(waiting)
          /\ UNCHANGED <<backingOff, stopping, raised, late, fate, arrived>>
      BY <1>2 DEF TakeEvent, EventsTyped, EventsQueued
    <2>2. tokens' \in 0..Burst
      BY <1>2 DEF TakeEvent, EventsTyped
    <2>3. /\ posting' \in Event /\ posting'.id \in IdsOf(waiting) /\ waiting' \in Seq(Event)
          /\ IdsGrow(waiting') /\ IdsOf(waiting') \subseteq IdsOf(waiting)
          /\ \A x \in IdsOf(waiting') : posting'.id < x
      BY <2>1, GrowTaken
    <2>4. EventsTyped'
      BY <2>1, <2>2, <2>3 DEF EventsTyped
    <2>5. EventsQueued'
      BY <2>1, <2>3 DEF EventsQueued
    <2> QED BY <2>4, <2>5
  <1>3. ASSUME NEW ans \in Answers, Post(ans)
        PROVE  EventsTyped' /\ EventsQueued'
    <2>1. /\ posting \in Event /\ posting # NoEvent /\ posting' = NoEvent /\ posting.id \in 1..MaxEvents
          /\ UNCHANGED <<tokens, stopping, raised, late>>
      BY <1>3 DEF Post, EventsTyped, Event
    <2>2. fate' \in [1..MaxEvents -> Fates]
      BY <1>3, <2>1, SettledFacts DEF Post, EventsTyped
    <2>3. /\ waiting' \in Seq(Event) /\ IdsGrow(waiting')
          /\ \A x \in IdsOf(waiting') : x \in IdsOf(waiting) \/ x = posting.id
      <3>1. CASE waiting' = waiting
        BY <3>1 DEF EventsTyped, EventsQueued
      <3>2. CASE waiting' = <<posting>> \o waiting
        <4>1. waiting \in Seq(Event) /\ IdsGrow(waiting) /\ \A x \in IdsOf(waiting) : posting.id < x
          BY <2>1 DEF EventsTyped, EventsQueued
        <4> QED BY <2>1, <3>2, <4>1, GrowRequeued
      <3> QED BY <1>3, <3>1, <3>2 DEF Post, Requeue
    <2>4. \A i \in DOMAIN arrived : arrived[i] \in Nat /\ arrived[i] <= posting.id
      BY <2>1 DEF EventsTyped, EventsQueued
    <2>5. /\ arrived' \in Seq(1..MaxEvents)
          /\ \A i, j \in DOMAIN arrived' : i < j => arrived'[i] < arrived'[j]
          /\ \A i \in DOMAIN arrived' : arrived'[i] \in Nat /\ arrived'[i] <= posting.id
      <3>0. arrived \in Seq(1..MaxEvents) /\ \A i, j \in DOMAIN arrived : i < j => arrived[i] < arrived[j]
        BY DEF EventsTyped, EventsQueued
      <3>1. CASE arrived' = arrived
        BY <2>4, <3>0, <3>1
      <3>2. CASE arrived' = Append(arrived, posting.id) /\ posting.id \notin Range(arrived)
        <4>1. \A i \in DOMAIN arrived : arrived[i] # posting.id
          BY <3>2 DEF Range
        <4>2. \A i \in DOMAIN arrived : arrived[i] < posting.id
          BY <2>1, <2>4, <4>1
        <4> DEFINE p == Append(arrived, posting.id)
        <4>3. /\ p \in Seq(1..MaxEvents) /\ DOMAIN p = 1..(Len(arrived) + 1) /\ DOMAIN arrived = 1..Len(arrived)
              /\ p[Len(arrived) + 1] = posting.id /\ \A i \in DOMAIN arrived : p[i] = arrived[i]
              /\ Len(arrived) \in Nat
          BY <2>1, <3>0
        <4> HIDE DEF p
        <4>4. \A i \in DOMAIN p : i \in DOMAIN arrived \/ i = Len(arrived) + 1
          BY <4>3
        <4>5. \A i, j \in DOMAIN p : i < j => i \in DOMAIN arrived
          BY <4>3
        <4>6. \A i, j \in DOMAIN p : i < j => p[i] < p[j]
          BY <3>0, <4>2, <4>3, <4>4, <4>5
        <4>7. \A i \in DOMAIN p : p[i] \in Nat /\ p[i] <= posting.id
          <5>1. posting.id \in Nat
            BY <2>1
          <5>2. TAKE i \in DOMAIN p
          <5>3. CASE i \in DOMAIN arrived
            BY <2>4, <4>3, <5>3
          <5>4. CASE i = Len(arrived) + 1
            BY <4>3, <5>1, <5>4
          <5> QED BY <4>4, <5>3, <5>4
        <4> QED BY <3>2, <4>3, <4>6, <4>7 DEF p
      <3> QED BY <1>3, <3>1, <3>2 DEF Post
    <2>6. EventsTyped'
      BY <2>1, <2>2, <2>3, <2>5 DEF EventsTyped
    <2>7. EventsQueued'
      <3>1. posting.id \in 1..raised /\ \A x \in IdsOf(waiting) : posting.id < x /\ x \in 1..raised
        BY <2>1 DEF EventsQueued
      <3>2. raised \in Nat
        BY DEF EventsTyped
      <3>3. \A x \in IdsOf(waiting') : x \in 1..raised /\ posting.id <= x
        BY <2>1, <2>3, <3>1, <3>2
      <3>4. \A i \in DOMAIN arrived' : arrived'[i] <= raised /\ \A x \in IdsOf(waiting') : arrived'[i] <= x
        BY <2>1, <2>5, <3>1, <3>2, <3>3
      <3> QED BY <2>1, <2>3, <2>5, <3>3, <3>4 DEF EventsQueued
    <2> QED BY <2>6, <2>7
  <1>4. CASE BackoffEnds
    BY <1>4 DEF BackoffEnds, EventsTyped, EventsQueued, IdsGrow, IdsOf
  <1>5. CASE TokenBack
    BY <1>5 DEF TokenBack, EventsTyped, EventsQueued, IdsGrow, IdsOf
  <1>6. CASE DeadlinePasses
    BY <1>6 DEF DeadlinePasses, EventsTyped, EventsQueued, IdsGrow, IdsOf
  <1>7. CASE CloseBegins
    BY <1>7 DEF CloseBegins, EventsTyped, EventsQueued, IdsGrow, IdsOf
  <1>8. CASE CloseEnds
    BY <1>8 DEF CloseEnds, EventsTyped, EventsQueued, IdsGrow, IdsOf, Fates
  <1>9. CASE UNCHANGED eventVars
    BY <1>9 DEF eventVars, EventsTyped, EventsQueued, IdsGrow, IdsOf
  <1> QED BY <1>1, <1>2, <1>3, <1>4, <1>5, <1>6, <1>7, <1>8, <1>9 DEF EventsNext

\* No alarm is dropped for room while an event that is none waits.
LEMMA EventsAlarms ==
  ASSUME EventsTyped, EventsQueued, EventsNext, NEW i \in DOMAIN waiting,
         waiting[i].alarm, fate'[waiting[i].id] = "room", fate[waiting[i].id] = "waiting"
  PROVE  \A j \in DOMAIN waiting : waiting[j].alarm
  <1>0. /\ waiting \in Seq(Event) /\ \A j \in DOMAIN waiting : waiting[j].id \in 1..MaxEvents /\ j \in Nat
        /\ fate \in [1..MaxEvents -> Fates]
    <2>1. waiting \in Seq(Event) /\ \A j \in DOMAIN waiting : waiting[j] \in Event /\ j \in Nat
      BY DEF EventsTyped
    <2> QED BY <2>1 DEF EventsTyped, Event
  <1>1. ASSUME NEW alarm \in BOOLEAN, Submit(alarm)
        PROVE  \A j \in DOMAIN waiting : waiting[j].alarm
    <2>1. Full(waiting) /\ waiting[i].id = waiting[Victim(waiting)].id
      BY <1>0, <1>1 DEF Submit
    <2>2. waiting # <<>> /\ Victim(waiting) \in DOMAIN waiting
      BY <1>0, <2>1, RoomMadeFacts
    <2>3. /\ i \in Nat /\ Victim(waiting) \in Nat
          /\ \A a, b \in DOMAIN waiting : waiting[a].id \in Nat /\ (a < b => waiting[a].id < waiting[b].id)
      BY <1>0, <2>2 DEF EventsQueued, IdsGrow
    <2>4. i = Victim(waiting)
      BY <2>1, <2>2, <2>3
    <2> QED BY <1>0, <2>2, <2>4, VictimFacts
  <1>2. ASSUME NEW ans \in Answers, Post(ans)
        PROVE  FALSE
    <2>1. posting \in Event /\ posting.id \in 1..MaxEvents
      BY <1>2 DEF Post, EventsTyped, Event
    <2>2. Settled(posting, ans) # "room"
      BY SettledFacts
    <2> QED BY <1>0, <1>2, <2>1, <2>2 DEF Post
  <1>3. CASE TakeEvent \/ BackoffEnds \/ TokenBack \/ DeadlinePasses \/ CloseBegins
    BY <1>3 DEF TakeEvent, BackoffEnds, TokenBack, DeadlinePasses, CloseBegins
  <1>4. CASE CloseEnds
    BY <1>0, <1>4 DEF CloseEnds
  <1> QED BY <1>1, <1>2, <1>3, <1>4 DEF EventsNext

\* Events arrive in the order they were raised, and an alarm makes room only when all that waits are alarms
\* (node_events.py: _make_room_locked, _settle_locked).
THEOREM EventsKeepOrder == EventsSpec => [](EventsTypeOK /\ EventsInOrder) /\ AlarmsStay
  <1> DEFINE I == backingOff \in BOOLEAN /\ EventsTyped /\ EventsQueued
             Stays == \A i \in DOMAIN waiting :
                        waiting[i].alarm /\ fate'[waiting[i].id] = "room" /\ fate[waiting[i].id] = "waiting"
                          => \A j \in DOMAIN waiting : waiting[j].alarm
  <1>1. EventsInit => I
    <2>1. EventsInit => backingOff \in BOOLEAN
      BY Zenon DEF EventsInit
    <2>2. EventsInit => EventsTyped /\ EventsQueued
      BY NodeEventsAssumption DEF EventsInit, EventsTyped, EventsQueued, IdsGrow, IdsOf, Fates
    <2> QED BY <2>1, <2>2
  <1>2. I /\ [EventsNext]_eventVars => I'
    BY BackingOffStep, EventsStep
  <1>3. I => EventsTypeOK /\ EventsInOrder
    BY DEF EventsTyped, EventsQueued, EventsTypeOK, EventsInOrder
  <1>4. I /\ [EventsNext]_eventVars => [Stays]_eventVars
    BY EventsAlarms
  <1> QED BY <1>1, <1>2, <1>3, <1>4, PTL DEF EventsSpec, AlarmsStay

-----------------------------------------------------------------------------
(* The program's reports. *)

ReportsSpec == ReportsInit /\ [][ReportsNext]_reportVars

ReportsTyped ==
  /\ outbox \in Seq(Report) /\ Len(outbox) <= OutboxCap
  /\ sending \in Report \cup {NoReport} /\ handed \in 0..MaxReports /\ lastAck \in 0..handed
  /\ acked \in Seq(1..MaxReports) /\ unsentAcks \subseteq 1..handed

\* What waits was handed over in its order, what is being sent before it, and what arrived before both.
ReportsQueued ==
  /\ IdsGrow(outbox) /\ \A x \in IdsOf(outbox) : x \in 1..handed
  /\ sending # NoReport => sending.id \in 1..handed /\ \A x \in IdsOf(outbox) : sending.id < x
  /\ \A i, j \in DOMAIN acked : i < j => acked[i] < acked[j]
  /\ \A i \in DOMAIN acked : acked[i] <= handed /\ \A x \in IdsOf(outbox) : acked[i] < x
  /\ sending # NoReport => \A i \in DOMAIN acked : acked[i] < sending.id

\* Every step leaves outboxClosed Boolean.
LEMMA OutboxClosedStep == outboxClosed \in BOOLEAN /\ [ReportsNext]_reportVars => outboxClosed' \in BOOLEAN
  BY Zenon DEF ReportsNext, HandOver, TakeReport, SendReport, CloseOutbox, reportVars

\* The report that leaves for room: an ack only when all are.
LEMMA LeavesFacts ==
  ASSUME NEW q \in Seq(Report), q # <<>>
  PROVE  /\ Leaves(q) \in 1..Len(q)
         /\ IsAck(q[Leaves(q)]) => \A j \in DOMAIN q : IsAck(q[j])
  <1> DEFINE alerts == {i \in DOMAIN q : ~IsAck(q[i])}
  <1>1. CASE alerts = {}
    BY <1>1 DEF Leaves
  <1>2. CASE alerts # {}
    <2>1. alerts \subseteq Nat
      OBVIOUS
    <2>2. \E i \in alerts : \A j \in alerts : i <= j
      <3> HIDE DEF alerts
      <3> QED BY <1>2, <2>1, Smallest
    <2>3. Leaves(q) \in alerts
      BY <1>2, <2>2 DEF Leaves
    <2> QED BY <2>3
  <1> QED BY <1>1, <1>2

\* Room is made in an outbox that is full, and an ack leaves it only when all are acks.
LEMMA RoomInFacts ==
  ASSUME NEW q \in Seq(Report), Len(q) <= OutboxCap, IdsGrow(q)
  PROVE  /\ RoomIn(q) \in Seq(Report) /\ Len(RoomIn(q)) < OutboxCap /\ IdsGrow(RoomIn(q))
         /\ IdsOf(RoomIn(q)) \subseteq IdsOf(q)
         /\ ~(AcksIn(q) \subseteq AcksIn(RoomIn(q))) => \A j \in DOMAIN q : IsAck(q[j])
  <1>0. OutboxCap \in Nat \ {0} /\ MaxReports \in Nat
    BY ProgramReportsAssumption
  <1>1. CASE ~(Len(q) >= OutboxCap)
    BY <1>0, <1>1 DEF RoomIn
  <1>2. CASE Len(q) >= OutboxCap
    <2>1. q # <<>> /\ Len(q) = OutboxCap
      BY <1>0, <1>2
    <2>2. /\ Leaves(q) \in 1..Len(q)
          /\ IsAck(q[Leaves(q)]) => \A j \in DOMAIN q : IsAck(q[j])
      BY <2>1, LeavesFacts
    <2>3. \A x \in Report : x.id \in Nat
      BY <1>0 DEF Report
    <2> DEFINE p == RoomIn(q)
    <2>4. p = RemoveAt(q, Leaves(q))
      BY <1>2 DEF RoomIn
    <2> HIDE DEF p
    <2>5. /\ p \in Seq(Report) /\ Len(p) = Len(q) - 1
          /\ \A j \in 1..(Len(q) - 1) : p[j] = IF j < Leaves(q) THEN q[j] ELSE q[j + 1]
      BY <2>2, <2>4, RemoveAtFacts
    <2>6. IdsGrow(p) /\ IdsOf(p) \subseteq IdsOf(q)
      BY <2>2, <2>3, <2>4, GrowRemoved
    <2>7. ASSUME ~IsAck(q[Leaves(q)])
          PROVE  AcksIn(q) \subseteq AcksIn(p)
      <3>1. SUFFICES ASSUME NEW j \in DOMAIN q, IsAck(q[j])
                     PROVE  \E k \in DOMAIN p : p[k] = q[j]
        BY DEF AcksIn
      <3>2. DOMAIN p = 1..(Len(q) - 1) /\ j \in 1..Len(q) /\ j # Leaves(q) /\ Leaves(q) \in 1..Len(q)
        BY <2>2, <2>5, <2>7, <3>1
      <3>3. CASE j < Leaves(q)
        BY <2>5, <3>2, <3>3
      <3>4. CASE ~(j < Leaves(q))
        <4>1. j - 1 \in 1..(Len(q) - 1) /\ ~(j - 1 < Leaves(q)) /\ (j - 1) + 1 = j
          BY <3>2, <3>4
        <4> QED BY <2>5, <3>2, <4>1
      <3> QED BY <3>3, <3>4
    <2> QED BY <1>0, <2>1, <2>2, <2>5, <2>6, <2>7 DEF p
  <1> QED BY <1>1, <1>2

\* Every step keeps the acks in the order of their numbers: what arrived, then what is on its way, then the
\* others.
LEMMA ReportsStep == ReportsTyped /\ ReportsQueued /\ [ReportsNext]_reportVars => ReportsTyped'
      /\ ReportsQueued'
  <1> SUFFICES ASSUME ReportsTyped, ReportsQueued, [ReportsNext]_reportVars
               PROVE  ReportsTyped' /\ ReportsQueued'
    OBVIOUS
  <1> USE ProgramReportsAssumption
  <1>0. /\ outbox \in Seq(Report) /\ Len(outbox) <= OutboxCap /\ IdsGrow(outbox)
        /\ \A x \in IdsOf(outbox) : x \in 1..handed
        /\ handed \in 0..MaxReports /\ lastAck \in 0..handed /\ unsentAcks \subseteq 1..handed
    BY DEF ReportsTyped, ReportsQueued
  <1>00. AcksIn(outbox) \subseteq IdsOf(outbox)
    BY DEF AcksIn, IdsOf
  <1>1. ASSUME NEW kind \in Kinds, HandOver(kind)
        PROVE  ReportsTyped' /\ ReportsQueued'
    <2> DEFINE r == [id |-> handed + 1, kind |-> kind]
    <2>1. /\ handed < MaxReports /\ handed' = handed + 1 /\ handed + 1 \in 1..MaxReports
          /\ UNCHANGED <<sending, outboxClosed, acked>>
      BY <1>0, <1>1 DEF HandOver
    <2>2. r \in Report /\ r.id = handed + 1
      BY <2>1 DEF Report
    <2>3. outbox' = outbox \/ outbox' = Append(RoomIn(outbox), r)
      BY <1>1 DEF HandOver
    <2>4. lastAck' \in 0..handed'
      BY <1>0, <1>1, <2>1 DEF HandOver
    <2>5. unsentAcks' \subseteq unsentAcks \cup {handed + 1} \cup AcksIn(outbox)
      BY <1>1 DEF HandOver
    <2> HIDE DEF r
    <2>6. /\ outbox' \in Seq(Report) /\ Len(outbox') <= OutboxCap /\ IdsGrow(outbox')
          /\ \A x \in IdsOf(outbox') : x \in IdsOf(outbox) \/ x = handed + 1
      <3>1. CASE outbox' = outbox
        BY <1>0, <3>1
      <3>2. CASE outbox' = Append(RoomIn(outbox), r)
        <4>1. /\ RoomIn(outbox) \in Seq(Report) /\ Len(RoomIn(outbox)) < OutboxCap /\ IdsGrow(RoomIn(outbox))
              /\ IdsOf(RoomIn(outbox)) \subseteq IdsOf(outbox)
          BY <1>0, RoomInFacts
        <4>2. \A x \in IdsOf(RoomIn(outbox)) : x < r.id
          BY <1>0, <2>1, <2>2, <4>1
        <4>3. /\ IdsGrow(Append(RoomIn(outbox), r))
              /\ IdsOf(Append(RoomIn(outbox), r)) = IdsOf(RoomIn(outbox)) \cup {r.id}
          BY <2>2, <4>1, <4>2, GrowAppended
        <4>4. Append(RoomIn(outbox), r) \in Seq(Report) /\ Len(Append(RoomIn(outbox), r)) <= OutboxCap
          BY <2>2, <4>1
        <4> QED BY <2>2, <3>2, <4>1, <4>3, <4>4
      <3> QED BY <2>3, <3>1, <3>2
    <2>7. unsentAcks' \subseteq 1..handed'
      BY <1>0, <1>00, <2>1, <2>5
    <2>8. ReportsTyped'
      BY <2>1, <2>4, <2>6, <2>7 DEF ReportsTyped
    <2>9. ReportsQueued'
      <3>1. handed \in Nat /\ \A i \in DOMAIN acked : acked[i] \in Nat /\ acked[i] <= handed
        BY DEF ReportsTyped, ReportsQueued
      <3>2. \A x \in IdsOf(outbox') : x \in 1..handed'
        BY <1>0, <2>1, <2>6, <3>1
      <3>3. sending' # NoReport => sending'.id \in 1..handed' /\ \A x \in IdsOf(outbox') : sending'.id < x
        BY <2>1, <2>6, <3>1 DEF ReportsQueued
      <3>4. \A i \in DOMAIN acked : acked[i] <= handed' /\ \A x \in IdsOf(outbox') : acked[i] < x
        BY <2>1, <2>6, <3>1 DEF ReportsQueued
      <3> QED BY <2>1, <2>6, <3>2, <3>3, <3>4 DEF ReportsQueued
    <2> QED BY <2>8, <2>9
  <1>2. CASE TakeReport
    <2>1. /\ sending = NoReport /\ outbox # <<>> /\ sending' = Head(outbox) /\ outbox' = Tail(outbox)
          /\ UNCHANGED <<outboxClosed, handed, lastAck, acked, unsentAcks>>
      BY <1>2 DEF TakeReport
    <2>2. /\ sending' \in Report /\ sending'.id \in IdsOf(outbox) /\ outbox' \in Seq(Report)
          /\ Len(outbox') = Len(outbox) - 1 /\ IdsGrow(outbox') /\ IdsOf(outbox') \subseteq IdsOf(outbox)
          /\ \A x \in IdsOf(outbox') : sending'.id < x
      BY <1>0, <2>1, GrowTaken
    <2>3. ReportsTyped'
      BY <1>0, <2>1, <2>2 DEF ReportsTyped
    <2>4. ReportsQueued'
      BY <2>1, <2>2 DEF ReportsQueued
    <2> QED BY <2>3, <2>4
  <1>3. ASSUME NEW arrives \in BOOLEAN, SendReport(arrives)
        PROVE  ReportsTyped' /\ ReportsQueued'
    <2>1. /\ sending \in Report /\ sending # NoReport /\ sending' = NoReport /\ sending.id \in 1..MaxReports
          /\ UNCHANGED <<outbox, outboxClosed, handed, lastAck, unsentAcks>>
      BY <1>3 DEF SendReport, ReportsTyped, Report
    <2>2. acked' = acked \/ acked' = Append(acked, sending.id)
      BY <1>3 DEF SendReport
    <2>3. /\ acked \in Seq(1..MaxReports) /\ \A i, j \in DOMAIN acked : i < j => acked[i] < acked[j]
          /\ \A i \in DOMAIN acked : acked[i] \in Nat /\ acked[i] < sending.id
      BY <2>1 DEF ReportsTyped, ReportsQueued
    <2>4. sending.id \in 1..handed /\ \A x \in IdsOf(outbox) : sending.id < x
      BY <2>1 DEF ReportsQueued
    <2>5. CASE acked' = acked
      BY <2>1, <2>5 DEF ReportsTyped, ReportsQueued
    <2>6. CASE acked' = Append(acked, sending.id)
      <3> DEFINE p == Append(acked, sending.id)
      <3>1. /\ p \in Seq(1..MaxReports) /\ DOMAIN p = 1..(Len(acked) + 1) /\ DOMAIN acked = 1..Len(acked)
            /\ p[Len(acked) + 1] = sending.id /\ \A i \in DOMAIN acked : p[i] = acked[i]
            /\ Len(acked) \in Nat
        BY <2>1, <2>3
      <3> HIDE DEF p
      <3>2. \A i \in DOMAIN p : i \in DOMAIN acked \/ i = Len(acked) + 1
        BY <3>1
      <3>3. \A i, j \in DOMAIN p : i < j => i \in DOMAIN acked
        BY <3>1
      <3>4. \A i, j \in DOMAIN p : i < j => p[i] < p[j]
        BY <2>3, <3>1, <3>2, <3>3
      <3>5. \A i \in DOMAIN p : p[i] <= handed /\ \A x \in IdsOf(outbox) : p[i] < x
        <4>1. TAKE i \in DOMAIN p
        <4>2. CASE i \in DOMAIN acked
          BY <3>1, <4>2 DEF ReportsQueued
        <4>3. CASE i = Len(acked) + 1
          BY <2>4, <3>1, <4>3
        <4> QED BY <3>2, <4>2, <4>3
      <3>6. acked' = p
        BY <2>6 DEF p
      <3>7. ReportsTyped'
        BY <2>1, <3>1, <3>6 DEF ReportsTyped
      <3> QED BY <1>0, <2>1, <3>4, <3>5, <3>6, <3>7 DEF ReportsQueued
    <2> QED BY <2>2, <2>5, <2>6
  <1>4. CASE CloseOutbox
    <2>1. /\ UNCHANGED <<outbox, sending, handed, lastAck, acked>>
          /\ unsentAcks' = unsentAcks \cup AcksIn(outbox)
      BY <1>4 DEF CloseOutbox
    <2>2. unsentAcks' \subseteq 1..handed
      BY <1>0, <1>00, <2>1
    <2> QED BY <2>1, <2>2 DEF ReportsTyped, ReportsQueued
  <1>5. CASE UNCHANGED reportVars
    BY <1>5 DEF reportVars, ReportsTyped, ReportsQueued
  <1> QED BY <1>1, <1>2, <1>3, <1>4, <1>5 DEF ReportsNext

\* An ack leaves an open outbox unsent only when all that waits are acks.
LEMMA ReportsAcks ==
  ASSUME ReportsTyped, ReportsQueued, ReportsNext, unsentAcks' # unsentAcks, ~outboxClosed'
  PROVE  \A i \in DOMAIN outbox : IsAck(outbox[i])
  <1>1. outbox \in Seq(Report) /\ Len(outbox) <= OutboxCap /\ IdsGrow(outbox)
    BY DEF ReportsTyped, ReportsQueued
  <1>2. PICK kind \in Kinds : HandOver(kind)
    BY DEF ReportsNext, TakeReport, SendReport, CloseOutbox
  <1>3. ~(AcksIn(outbox) \subseteq AcksIn(RoomIn(outbox)))
    BY <1>2 DEF HandOver
  <1> QED BY <1>1, <1>3, RoomInFacts

\* Acks arrive in the order they were made, and one leaves an open outbox unsent only when it holds nothing
\* but acks (blocks/cloud.py: _Outbox.submit).
THEOREM AcksGoInOrder == ReportsSpec => [](ReportsTypeOK /\ AcksInOrder) /\ AcksLeaveOnlyToAcks
  <1> DEFINE I == outboxClosed \in BOOLEAN /\ ReportsTyped /\ ReportsQueued
             OnlyAcks == unsentAcks' # unsentAcks /\ ~outboxClosed' => \A i \in DOMAIN outbox : IsAck(outbox[i])
  <1>1. ReportsInit => I
    <2>1. ReportsInit => outboxClosed \in BOOLEAN
      BY Zenon DEF ReportsInit
    <2>2. ReportsInit => ReportsTyped /\ ReportsQueued
      BY ProgramReportsAssumption DEF ReportsInit, ReportsTyped, ReportsQueued, IdsGrow, IdsOf
    <2> QED BY <2>1, <2>2
  <1>2. I /\ [ReportsNext]_reportVars => I'
    BY OutboxClosedStep, ReportsStep
  <1>3. I => ReportsTypeOK /\ AcksInOrder
    BY DEF ReportsTyped, ReportsQueued, ReportsTypeOK, AcksInOrder
  <1>4. I /\ [ReportsNext]_reportVars => [OnlyAcks]_reportVars
    BY ReportsAcks
  <1> QED BY <1>1, <1>2, <1>3, <1>4, PTL DEF ReportsSpec, AcksLeaveOnlyToAcks

-----------------------------------------------------------------------------
(* The clock. *)

ClockSpec == ClockInit /\ [][ClockNext]_clockVars

ClockFlags == inStep \in BOOLEAN /\ toolHung \in BOOLEAN /\ answered \in BOOLEAN
ClockReadTyped == reading.source \in Sources /\ reading.service \in {"timesyncd", "none", "unknown"}

ClockTyped ==
  /\ tick \in 0..ClockTime /\ skew \in Skews /\ slews \in 0..MaxSlews
  /\ samples \in Seq(OffsetSample) /\ Len(samples) <= MaxSamples
  /\ anchor = NoAnchor \/ (anchor.mono \in 0..tick /\ anchor.server \in (anchor.mono - MaxDelay)..anchor.mono)
  /\ samples = <<>> <=> anchor = NoAnchor

\* A sample is off by its answer's delay at most.
Measured(x) == x.offset \in x.drift..(x.drift + MaxDelay)

\* Since the last answer the wall clock was only slewed; when it was stepped since, it is further from the newest
\* sample than slews and a small step go.
ClockKnown ==
  /\ \A i \in DOMAIN samples : Measured(samples[i])
  /\ answered => samples # <<>> /\ \A i \in DOMAIN samples : Gap(skew, samples[i].drift) <= slews
  /\ ~answered /\ samples # <<>> => Gap(skew, samples[Len(samples)].drift) > StepSize + MaxSlews - slews

\* Every step leaves the flags Boolean.
LEMMA ClockFlagsStep == ClockFlags /\ [ClockNext]_clockVars => ClockFlags'
  BY Zenon DEF ClockFlags, ClockNext, Observe, ReadClock, HungToolEnds, ClockTick, Slew, StepClock, clockVars

\* Every reading of the clock has a source and a service.
LEMMA ReadingStep == ClockReadTyped /\ [ClockNext]_clockVars => ClockReadTyped'
  <1> SUFFICES ASSUME ClockReadTyped, [ClockNext]_clockVars
               PROVE  ClockReadTyped'
    OBVIOUS
  <1>1. ASSUME NEW timedatectl \in ToolEnds({"answers"}), NEW systemctl \in ToolEnds({"timesyncd", "none"}),
               NEW rtc \in BOOLEAN, ReadClock(timedatectl, systemctl, rtc)
        PROVE  ClockReadTyped'
    <2>1. \A sync : SourceOf(sync, rtc) \in Sources
      BY DEF SourceOf, Sources
    <2>2. reading'.source \in Sources
      BY <1>1, <2>1 DEF ReadClock
    <2>3. reading'.service \in {"timesyncd", "none", "unknown"}
      BY <1>1 DEF ReadClock, ToolEnds
    <2> QED BY <2>2, <2>3 DEF ClockReadTyped
  <1>2. CASE reading' = reading
    BY <1>2 DEF ClockReadTyped
  <1> QED BY <1>1, <1>2 DEF ClockNext, Observe, HungToolEnds, ClockTick, Slew, StepClock, clockVars

\* What is numbers.
LEMMA ClockNumbers ==
  ASSUME ClockTyped
  PROVE  /\ tick \in Nat /\ skew \in Int /\ slews \in Nat /\ slews <= MaxSlews /\ MaxSlews \in Nat
        /\ MaxDelay \in Nat
         /\ \A i \in DOMAIN samples : samples[i] \in OffsetSample /\ samples[i].drift \in Int
               /\ samples[i].offset \in Int
  <1>1. \A i \in DOMAIN samples : samples[i] \in OffsetSample
    BY DEF ClockTyped
  <1>2. \A i \in DOMAIN samples : samples[i].drift \in Int /\ samples[i].offset \in Int
    <2>1. \A x \in OffsetSample : x.drift \in Int /\ x.offset \in Int
      BY DEF OffsetSample
    <2> QED BY <1>1, <2>1
  <1>3. MaxSlews \in Nat /\ MaxDelay \in Nat
    BY ServerClockAssumption
  <1>4. tick \in Nat /\ skew \in Int /\ slews \in Nat /\ slews <= MaxSlews
    <2>1. ClockTime \in Nat /\ Skews \subseteq Int
      BY ServerClockAssumption
    <2>2. tick \in 0 .. ClockTime /\ skew \in Skews /\ slews \in 0 .. MaxSlews
      BY DEF ClockTyped
    <2> QED BY <1>3, <2>1, <2>2
  <1> QED BY <1>1, <1>2, <1>3, <1>4

\* One more sample: the newest is the last, and the others are of before, unless the clock was stepped since.
LEMMA AddSampleFacts ==
  ASSUME NEW h \in Seq(OffsetSample), Len(h) <= MaxSamples, NEW o \in Int, NEW d \in Int
  PROVE  LET a == AddSample(h, o, d)
             stepped == h # <<>> /\ Gap(d, h[Len(h)].drift) > StepSize
         IN  /\ a \in Seq(OffsetSample) /\ a # <<>> /\ Len(a) <= MaxSamples
             /\ a[Len(a)] = [offset |-> o, drift |-> d]
             /\ \A i \in DOMAIN a : a[i] = [offset |-> o, drift |-> d] \/ (~stepped
                   /\ \E j \in DOMAIN h : a[i] = h[j])
  <1> DEFINE x == [offset |-> o, drift |-> d]
             stepped == h # <<>> /\ Gap(d, h[Len(h)].drift) > StepSize
             old == IF stepped THEN <<>> ELSE h
             all == Append(old, x)
  <1>1. Last(h) = h[Len(h)]
    BY DEF Last
  <1>2. AddSample(h, o, d) = IF Len(all) > MaxSamples THEN Tail(all) ELSE all
    BY <1>1 DEF AddSample
  <1>3. MaxSamples \in Nat \ {0} /\ x \in OffsetSample
    BY ServerClockAssumption DEF OffsetSample
  <1>4. old \in Seq(OffsetSample) /\ Len(old) <= MaxSamples /\ \A j \in DOMAIN old : ~stepped
        /\ j \in DOMAIN h /\ old[j] = h[j]
    BY <1>3
  <1> HIDE DEF x, stepped, old
  <1>5. /\ all \in Seq(OffsetSample) /\ Len(all) = Len(old) + 1 /\ all[Len(all)] = x
        /\ \A i \in 1..Len(old) : all[i] = old[i]
    BY <1>3, <1>4
  <1> HIDE DEF all
  <1>6. CASE ~(Len(all) > MaxSamples)
    <2>1. \A i \in DOMAIN all : i = Len(all) \/ i \in DOMAIN old
      BY <1>4, <1>5
    <2>2. all # <<>>
      BY <1>4, <1>5
    <2>3. \A i \in DOMAIN all : all[i] = x \/ (~stepped /\ \E j \in DOMAIN h : all[i] = h[j])
      <3> TAKE i \in DOMAIN all
      <3>1. CASE i = Len(all)
        BY <1>5, <3>1
      <3>2. CASE i \in DOMAIN old
        BY <1>4, <1>5, <3>2
      <3> QED BY <2>1, <3>1, <3>2
    <2>4. AddSample(h, o, d) = all /\ Len(all) <= MaxSamples
      BY <1>2, <1>3, <1>5, <1>6
    <2> QED BY <1>5, <2>2, <2>3, <2>4 DEF x, stepped
  <1>7. CASE Len(all) > MaxSamples
    <2> DEFINE t == Tail(all)
    <2>1. Len(old) = MaxSamples /\ Len(all) = MaxSamples + 1
      BY <1>3, <1>4, <1>5, <1>7
    <2>2. /\ t \in Seq(OffsetSample) /\ Len(t) = MaxSamples /\ t # <<>>
          /\ \A i \in 1..MaxSamples : t[i] = all[i + 1]
      <3>1. all \in Seq(OffsetSample) /\ Len(all) = MaxSamples + 1 /\ MaxSamples \in Nat \ {0}
        BY <1>3, <1>5, <2>1
      <3>2. all # <<>>
        BY <3>1
      <3>3. t \in Seq(OffsetSample) /\ Len(t) = MaxSamples /\ \A i \in 1..MaxSamples : t[i] = all[i + 1]
        BY <3>1, <3>2
      <3> QED BY <3>1, <3>3
    <2>3. t[Len(t)] = x
      BY <1>3, <1>5, <2>1, <2>2
    <2>4. \A i \in DOMAIN t : t[i] = x \/ \E j \in DOMAIN old : t[i] = old[j]
      <3> TAKE i \in DOMAIN t
      <3>1. i \in 1..MaxSamples /\ t[i] = all[i + 1]
        BY <2>2
      <3>2. CASE i = MaxSamples
        BY <1>5, <2>1, <3>1, <3>2
      <3>3. CASE i # MaxSamples
        <4>1. i + 1 \in 1..Len(old) /\ i + 1 \in DOMAIN old
          BY <1>3, <1>4, <2>1, <3>1, <3>3
        <4> QED BY <1>5, <3>1, <4>1
      <3> QED BY <3>2, <3>3
    <2> HIDE DEF t
    <2>5. AddSample(h, o, d) = t
      BY <1>2, <1>7 DEF t
    <2> QED BY <1>3, <1>4, <2>2, <2>3, <2>4, <2>5 DEF x, stepped
  <1> QED BY <1>6, <1>7

\* A step away is further than the slews since bring back.
LEMMA GapLeft ==
  ASSUME NEW a \in Int, NEW b \in Int, NEW d \in Int, NEW m \in Nat, NEW n \in Nat, n <= m,
         Gap(a, b) > StepSize + m, Gap(b, d) <= n
  PROVE  Gap(a, d) > StepSize + m - n
  BY DEF Gap, StepSize

\* Every step keeps the anchor and the samples true to the clock they measured.
LEMMA ClockStep == ClockTyped /\ ClockKnown /\ [ClockNext]_clockVars => ClockTyped' /\ ClockKnown'
  <1> SUFFICES ASSUME ClockTyped, ClockKnown, [ClockNext]_clockVars
               PROVE  ClockTyped' /\ ClockKnown'
    OBVIOUS
  <1>0. /\ tick \in Nat /\ skew \in Int /\ slews \in Nat /\ slews <= MaxSlews /\ MaxSlews \in Nat
        /\ MaxDelay \in Nat
        /\ \A i \in DOMAIN samples : samples[i] \in OffsetSample /\ samples[i].drift \in Int
              /\ samples[i].offset \in Int
    BY ClockNumbers
  <1>00. samples \in Seq(OffsetSample) /\ Len(samples) \in Nat /\ Len(samples) <= MaxSamples
    BY DEF ClockTyped
  <1> USE ServerClockAssumption
  <1>1. ASSUME NEW delay \in 0..MaxDelay, Observe(delay)
        PROVE  ClockTyped' /\ ClockKnown'
    <2> DEFINE o == (tick + skew) - (tick - delay)
               x == [offset |-> o, drift |-> skew]
               stepped == samples # <<>> /\ Gap(skew, samples[Len(samples)].drift) > StepSize
    <2>1. /\ anchor' = [server |-> tick - delay, mono |-> tick] /\ samples' = AddSample(samples, o, skew)
          /\ answered' = TRUE /\ UNCHANGED <<tick, skew, slews>>
      BY <1>1 DEF Observe
    <2>2. o \in Int /\ o = skew + delay
      BY <1>0
    <2> HIDE DEF o
    <2>3. /\ samples' \in Seq(OffsetSample) /\ samples' # <<>> /\ Len(samples') <= MaxSamples
          /\ \A i \in DOMAIN samples' : samples'[i] = x \/ (~stepped
                /\ \E j \in DOMAIN samples : samples'[i] = samples[j])
      BY <1>0, <1>00, <2>1, <2>2, AddSampleFacts
    <2> HIDE DEF x, stepped
    <2>4. ClockTyped'
      <3>1. /\ anchor' # NoAnchor /\ anchor'.mono \in 0..tick
            /\ anchor'.server \in (anchor'.mono - MaxDelay)..anchor'.mono
        BY <1>0, <2>1 DEF NoAnchor
      <3> QED BY <2>1, <2>3, <3>1 DEF ClockTyped
    <2>5. Measured(x) /\ Gap(skew, x.drift) <= slews
      BY <1>0, <2>2 DEF x, Measured, Gap
    <2>6. ~answered /\ samples # <<>> => stepped
      BY <1>0, <1>00 DEF ClockKnown, stepped, StepSize, Gap
    <2>7. ASSUME NEW i \in DOMAIN samples'
          PROVE  Measured(samples'[i]) /\ Gap(skew, samples'[i].drift) <= slews
      <3>1. CASE samples'[i] = x
        BY <2>5, <3>1
      <3>2. CASE ~stepped /\ \E j \in DOMAIN samples : samples'[i] = samples[j]
        <4>1. PICK j \in DOMAIN samples : samples'[i] = samples[j]
          BY <3>2
        <4>2. samples # <<>>
          BY <1>00
        <4>3. answered
          BY <2>6, <3>2, <4>2
        <4> QED BY <4>1, <4>3 DEF ClockKnown
      <3> QED BY <2>3, <3>1, <3>2
    <2>8. ClockKnown'
      BY <2>1, <2>3, <2>7 DEF ClockKnown
    <2> QED BY <2>4, <2>8
  <1>2. CASE UNCHANGED <<tick, skew, anchor, samples, slews, answered>>
    BY <1>2 DEF ClockTyped, ClockKnown
  <1>3. CASE ClockTick
    <2>1. tick' = tick + 1 /\ tick' \in 0..ClockTime /\ UNCHANGED <<skew, anchor, samples, slews, answered>>
      BY <1>0, <1>3 DEF ClockTick
    <2>2. ClockTyped'
      BY <1>0, <2>1 DEF ClockTyped
    <2> QED BY <2>1, <2>2 DEF ClockKnown
  <1>4. CASE Slew
    <2>1. /\ skew' \in Skews /\ (skew' = skew - 1 \/ skew' = skew + 1) /\ slews' = slews + 1
          /\ slews' <= MaxSlews
          /\ UNCHANGED <<tick, anchor, samples, answered>>
      BY <1>0, <1>4 DEF Slew
    <2>2. ClockTyped'
      BY <1>0, <2>1 DEF ClockTyped
    <2>3. answered' => \A i \in DOMAIN samples' : Gap(skew', samples'[i].drift) <= slews'
      BY <1>0, <2>1 DEF ClockKnown, Gap
    <2>4. ~answered'
          /\ samples' # <<>> => Gap(skew', samples'[Len(samples')].drift) > StepSize + MaxSlews - slews'
      <3>1. SUFFICES ASSUME ~answered, samples # <<>>
                     PROVE  Gap(skew', samples[Len(samples)].drift) > StepSize + MaxSlews - (slews + 1)
        BY <2>1
      <3>2. samples[Len(samples)].drift \in Int
        BY <1>0, <1>00, <3>1
      <3> QED BY <1>0, <2>1, <3>1, <3>2 DEF ClockKnown, Gap, StepSize
    <2> QED BY <2>1, <2>2, <2>3, <2>4 DEF ClockKnown
  <1>5. CASE StepClock
    <2>1. /\ answered \/ samples = <<>>
          /\ skew' \in Skews /\ skew' \in Int /\ Gap(skew', skew) > StepSize + MaxSlews /\ answered' = FALSE
          /\ UNCHANGED <<tick, anchor, samples, slews>>
      BY <1>5 DEF StepClock, ClockTyped
    <2>2. ClockTyped'
      BY <1>0, <2>1 DEF ClockTyped
    <2>3. samples # <<>> => Gap(skew', samples[Len(samples)].drift) > StepSize + MaxSlews - slews
      <3>1. SUFFICES ASSUME samples # <<>>
                     PROVE  Gap(skew', samples[Len(samples)].drift) > StepSize + MaxSlews - slews
        OBVIOUS
      <3>2. Len(samples) \in DOMAIN samples /\ samples[Len(samples)].drift \in Int
        BY <1>0, <1>00, <3>1
      <3>3. Gap(skew, samples[Len(samples)].drift) <= slews
        BY <2>1, <3>1, <3>2 DEF ClockKnown
      <3> QED BY <1>0, <2>1, <3>2, <3>3, GapLeft
    <2> QED BY <2>1, <2>2, <2>3 DEF ClockKnown
  <1>6. CASE HungToolEnds
    BY <1>2, <1>6 DEF HungToolEnds
  <1>7. ASSUME NEW timedatectl \in ToolEnds({"answers"}), NEW systemctl \in ToolEnds({"timesyncd", "none"}),
               NEW rtc \in BOOLEAN, ReadClock(timedatectl, systemctl, rtc)
        PROVE  ClockTyped' /\ ClockKnown'
    BY <1>2, <1>7 DEF ReadClock
  <1>8. CASE UNCHANGED clockVars
    BY <1>2, <1>8 DEF clockVars
  <1> QED BY <1>1, <1>3, <1>4, <1>5, <1>6, <1>7, <1>8 DEF ClockNext

\* A set of places of a sequence is counted.
LEMMA PlacesCounted ==
  ASSUME NEW n \in Nat, NEW P \in SUBSET (1..n)
  PROVE  IsFiniteSet(P) /\ Cardinality(P) \in Nat /\ Cardinality(P) <= n /\ (P = 1..n => Cardinality(P) = n)
  <1>1. IsFiniteSet(1..n) /\ Cardinality(1..n) = n
    BY FS_Interval
  <1>2. IsFiniteSet(P) /\ Cardinality(P) <= Cardinality(1..n)
    BY <1>1, FS_Subset
  <1> QED BY <1>1, <1>2, FS_CardinalityType

\* The k-th of some offsets is between what they are between.
LEMMA KthFacts ==
  ASSUME NEW h \in Seq(OffsetSample), NEW k \in 1..Len(h), NEW lo \in Int, NEW hi \in Int,
         \A i \in DOMAIN h : h[i].offset \in lo..hi
  PROVE  Kth(h, k) \in lo..hi
  <1> DEFINE Under(v) == {i \in DOMAIN h : h[i].offset < v}
             UpTo(v) == {i \in DOMAIN h : h[i].offset <= v}
             vals == {h[i].offset : i \in DOMAIN h}
             Enough == {m \in Nat : Cardinality(UpTo(lo + m)) >= k}
  <1>1. Len(h) \in Nat /\ DOMAIN h = 1..Len(h) /\ k \in Nat /\ k <= Len(h) /\ 1 <= k
    OBVIOUS
  <1>2. \A i \in DOMAIN h : h[i].offset \in Int /\ lo <= h[i].offset /\ h[i].offset <= hi
    OBVIOUS
  <1>3. ASSUME NEW w \in Int
        PROVE  /\ Cardinality(Under(w)) \in Nat /\ Cardinality(UpTo(w)) \in Nat
               /\ UpTo(w) = DOMAIN h => Cardinality(UpTo(w)) >= k
    <2>1. Under(w) \in SUBSET (1..Len(h)) /\ UpTo(w) \in SUBSET (1..Len(h))
      BY <1>1
    <2> HIDE DEF Under, UpTo
    <2> QED BY <1>1, <2>1, PlacesCounted
  <1>4. Enough # {}
    <2>1. 1 \in DOMAIN h
      BY <1>1
    <2>2. hi - lo \in Nat /\ lo + (hi - lo) = hi
      BY <1>2, <2>1
    <2>3. UpTo(hi) = DOMAIN h
      BY <1>2
    <2> HIDE DEF UpTo
    <2>4. Cardinality(UpTo(hi)) >= k
      BY <1>3, <2>3, Zenon
    <2>5. hi - lo \in Enough
      BY <2>2, <2>4
    <2> QED BY <2>5
  <1>5. PICK m \in Enough : \A n \in Enough : m <= n
    <2>1. Enough \subseteq Nat
      OBVIOUS
    <2> HIDE DEF Enough
    <2> QED BY <1>4, <2>1, Smallest
  <1> DEFINE v == lo + m
  <1>6. v \in Int /\ Cardinality(UpTo(v)) >= k /\ m \in Nat
    OBVIOUS
  <1>7. Cardinality(Under(v)) < k
    <2>1. CASE m = 0
      <3>1. Under(v) = {}
        BY <1>2, <2>1
      <3>2. Cardinality({}) = 0
        BY FS_EmptySet
      <3>3. Cardinality(Under(v)) = 0
        BY <3>1, <3>2
      <3> HIDE DEF Under
      <3> QED BY <1>1, <3>3
    <2>2. CASE m # 0
      <3>1. m - 1 \in Nat /\ ~(m <= m - 1) /\ lo + (m - 1) \in Int
        BY <1>6, <2>2
      <3>2. m - 1 \notin Enough
        BY <1>5, <3>1
      <3>3. Under(v) = UpTo(lo + (m - 1))
        BY <1>2, <1>6
      <3>4. ~(Cardinality(UpTo(lo + (m - 1))) >= k)
        BY <3>1, <3>2
      <3> HIDE DEF Under, UpTo, v
      <3>5. Cardinality(UpTo(lo + (m - 1))) \in Nat
        BY <1>3, <3>1, Zenon
      <3> QED BY <1>1, <3>3, <3>4, <3>5
    <2> QED BY <2>1, <2>2
  <1>8. v \in vals
    <2>1. Under(v) # UpTo(v)
      <3> HIDE DEF Under, UpTo, v
      <3>1. Cardinality(Under(v)) \in Nat
        BY <1>3, <1>6, Zenon
      <3> QED BY <1>1, <1>6, <1>7, <3>1
    <2>2. PICK i \in DOMAIN h : h[i].offset <= v /\ ~(h[i].offset < v)
      BY <2>1
    <2>3. h[i].offset \in Int /\ v \in Int
      BY <1>2, <1>6
    <2>4. h[i].offset = v
      <3> HIDE DEF v
      <3> QED BY <2>2, <2>3
    <2> QED BY <2>4
  <1>9. \E w \in vals : Cardinality(Under(w)) < k /\ Cardinality(UpTo(w)) >= k
    <2> HIDE DEF Under, UpTo, vals, v
    <2> QED BY <1>6, <1>7, <1>8
  <1>10. Kth(h, k) \in vals
    BY <1>9 DEF Kth
  <1> QED BY <1>2, <1>10

\* What is now, by the backend, is its time, an answer's delay late at most.
LEMMA ClockBackend == ClockTyped => BackendTimeHolds
  <1> SUFFICES ASSUME ClockTyped, BackendNow # NoNow
               PROVE  BackendNow \in (tick - MaxDelay)..tick
    BY DEF BackendTimeHolds
  <1>1. tick \in Nat /\ MaxDelay \in Nat
    BY ClockNumbers
  <1>2. anchor # NoAnchor
    BY DEF BackendNow
  <1> QED BY <1>1, <1>2 DEF BackendNow, ClockTyped

\* The median of what is measured since the last step is the clock's offset.
LEMMA ClockMedian == ClockTyped /\ ClockKnown => OffsetIsTheClocks
  <1> SUFFICES ASSUME ClockTyped, ClockKnown, answered
               PROVE  Offset(samples) \in (skew - MaxSlews)..(skew + MaxSlews + MaxDelay)
    BY DEF OffsetIsTheClocks
  <1>0. /\ skew \in Int /\ slews \in Nat /\ slews <= MaxSlews /\ MaxSlews \in Nat /\ MaxDelay \in Nat
        /\ \A i \in DOMAIN samples : samples[i].drift \in Int /\ samples[i].offset \in Int
    BY ClockNumbers
  <1> DEFINE lo == skew - MaxSlews
             hi == skew + MaxSlews + MaxDelay
  <1>1. samples \in Seq(OffsetSample) /\ samples # <<>> /\ Len(samples) \in Nat \ {0}
    BY DEF ClockTyped, ClockKnown
  <1>2. lo \in Int /\ hi \in Int
    BY <1>0
  <1>3. \A i \in DOMAIN samples : samples[i].offset \in lo..hi
    BY <1>0 DEF ClockKnown, Measured, Gap
  <1> HIDE DEF lo, hi
  <1>4. \A k \in 1..Len(samples) : Kth(samples, k) \in lo..hi
    BY <1>1, <1>2, <1>3, KthFacts
  <1> DEFINE n == Len(samples)
  <1>5. CASE n % 2 = 1
    <2>1. (n + 1) \div 2 \in 1..n
      BY <1>1
    <2>2. Offset(samples) = Kth(samples, (n + 1) \div 2)
      BY <1>5 DEF Offset
    <2> QED BY <1>4, <2>1, <2>2 DEF lo, hi
  <1>6. CASE n % 2 # 1
    <2>1. n \div 2 \in 1..n /\ n \div 2 + 1 \in 1..n
      BY <1>1, <1>6
    <2>2. PICK a \in lo..hi : a = Kth(samples, n \div 2)
      BY <1>4, <2>1
    <2>3. PICK b \in lo..hi : b = Kth(samples, n \div 2 + 1)
      BY <1>4, <2>1
    <2>4. Offset(samples) = (a + b) \div 2
      BY <1>6, <2>2, <2>3 DEF Offset
    <2>5. (a + b) \div 2 \in lo..hi
      BY <1>2
    <2> QED BY <2>4, <2>5 DEF lo, hi
  <1> QED BY <1>5, <1>6

\* The backend's time is late by an answer's delay at most, whatever the wall clock does, and the offset that
\* is reported is the wall clock's as it is (server_time.py).
THEOREM ClockIsKnown == ClockSpec => [](ClockTypeOK /\ BackendTimeHolds /\ OffsetIsTheClocks)
  <1> DEFINE I == ClockFlags /\ ClockReadTyped /\ ClockTyped /\ ClockKnown
  <1>1. ClockInit => I
    <2>1. ClockInit => ClockFlags
      BY Zenon DEF ClockInit, ClockFlags
    <2>2. ClockInit => ClockReadTyped /\ ClockTyped /\ ClockKnown
      BY ServerClockAssumption DEF ClockInit, ClockReadTyped, ClockTyped, ClockKnown, NotRead, Sources
    <2> QED BY <2>1, <2>2
  <1>2. I /\ [ClockNext]_clockVars => I'
    BY ClockFlagsStep, ReadingStep, ClockStep
  <1>3. I => ClockTypeOK /\ BackendTimeHolds /\ OffsetIsTheClocks
    <2>1. I => ClockTypeOK
      <3> SUFFICES ASSUME I
                   PROVE  ClockTypeOK
        OBVIOUS
      <3>1. {inStep, toolHung} \subseteq BOOLEAN
        BY Zenon DEF ClockFlags
      <3>2. (samples = <<>>) = (anchor = NoAnchor)
        BY Zenon DEF ClockTyped
      <3>3. anchor = NoAnchor \/ (anchor.mono \in 0..tick /\ anchor.server \in -MaxDelay..tick)
        BY ClockNumbers DEF ClockTyped
      <3> QED BY <3>1, <3>2, <3>3 DEF ClockFlags, ClockReadTyped, ClockTyped, ClockTypeOK
    <2> QED BY <2>1, ClockBackend, ClockMedian
  <1> QED BY <1>1, <1>2, <1>3, PTL DEF ClockSpec

-----------------------------------------------------------------------------
(* The card values. *)

CardsSpec == CardsInit /\ [][CardsNext]_cardVars

CardFlags == idle \in BOOLEAN /\ uploaderStopped \in BOOLEAN

CardsTyped ==
  /\ pending \in Seq(Snapshot) /\ pendingOuts \in [CardAssets -> Changes]
  /\ inHand \in Snapshot \cup {NoSnapshot}
  /\ cardLoop \in {"asleep", "next", "taken", "posting"}
  /\ recent \subseteq CardAssets /\ cardTokens \in 0..CardBurst /\ changes \in Changes
  /\ latest \in [CardAssets -> [values : Values, outs : Changes]]
  /\ backend \in [CardAssets -> [values : Values, outs : Changes]]

\* Snapshots are of different assets.
OnePerAsset(q) == \A i, j \in DOMAIN q : q[i].asset = q[j].asset => i = j

\* The snapshot in hand, of an asset.
HandValues(a) == IF inHand.asset = a THEN inHand.values ELSE NoValues
HandOuts(a) == IF inHand.asset = a THEN inHand.outs ELSE 0

\* The newest of a value is what is pending, else what is in hand, else what the backend has.
ValuesKnown ==
  \A a \in CardAssets : \A k \in CardKeys :
    latest[a].values[k] = OverOuts(PendingOf(a)[k], OverOuts(HandValues(a)[k], backend[a].values[k]))
OutsKnown ==
  \A a \in CardAssets : latest[a].outs = OverOuts(pendingOuts[a], OverOuts(HandOuts(a), backend[a].outs))

\* Levels wait with a snapshot of their asset, the levels in hand are in the post, and when all is done nothing
\* is pending or in hand.
CardsHeld ==
  /\ \A s \in Range(pending) : s.outs = 0
  /\ cardLoop \in {"taken", "posting"} => inHand \in Snapshot
  /\ cardLoop \notin {"taken", "posting"} => inHand = NoSnapshot
  /\ cardLoop = "taken" => inHand.outs = 0
  /\ \A a \in CardAssets : pendingOuts[a] # 0 =>
       (\E s \in Range(pending) : s.asset = a) \/ (cardLoop = "taken" /\ inHand.asset = a)
  /\ idle => pending = <<>> /\ cardLoop \notin {"taken", "posting"}

CardsInv == CardsTyped /\ OnePerAsset(pending) /\ ValuesKnown /\ OutsKnown /\ CardsHeld

\* What is in a sequence.
LEMMA RangeAppended ==
  ASSUME NEW S, NEW q \in Seq(S), NEW e \in S
  PROVE  /\ Append(q, e) \in Seq(S) /\ Range(Append(q, e)) = Range(q) \cup {e}
         /\ <<e>> \o q \in Seq(S) /\ Range(<<e>> \o q) = Range(q) \cup {e}
  <1> DEFINE p == Append(q, e)
             r == <<e>> \o q
  <1>1. /\ p \in Seq(S) /\ DOMAIN p = 1..(Len(q) + 1) /\ DOMAIN q = 1..Len(q) /\ Len(q) \in Nat
        /\ p[Len(q) + 1] = e /\ \A i \in DOMAIN q : p[i] = q[i]
        /\ r \in Seq(S) /\ DOMAIN r = 1..(Len(q) + 1)
        /\ r[1] = e /\ \A i \in 2..(Len(q) + 1) : r[i] = q[i - 1]
    OBVIOUS
  <1> HIDE DEF p, r
  <1>2. Range(p) = Range(q) \cup {e}
    <2>1. \A i \in DOMAIN p : i \in DOMAIN q \/ i = Len(q) + 1
      BY <1>1
    <2>2. Len(q) + 1 \in DOMAIN p /\ \A i \in DOMAIN q : i \in DOMAIN p
      BY <1>1
    <2> QED BY <1>1, <2>1, <2>2 DEF Range
  <1>3. Range(r) = Range(q) \cup {e}
    <2>1. \A i \in DOMAIN r : i = 1 \/ (i \in 2..(Len(q) + 1) /\ i - 1 \in DOMAIN q)
      BY <1>1
    <2>2. 1 \in DOMAIN r /\ \A i \in DOMAIN q : i + 1 \in DOMAIN r /\ r[i + 1] = q[i]
      BY <1>1
    <2>3. \A x \in Range(r) : x \in Range(q) \cup {e}
      BY <1>1, <2>1 DEF Range
    <2>4. \A x \in Range(q) \cup {e} : x \in Range(r)
      BY <1>1, <2>2 DEF Range
    <2> QED BY <2>3, <2>4
  <1> QED BY <1>1, <1>2, <1>3 DEF p, r

\* One of several different snapshots is taken out.
LEMMA SnapshotRemoved ==
  ASSUME NEW q \in Seq(Snapshot), OnePerAsset(q), NEW i \in DOMAIN q
  PROVE  /\ RemoveAt(q, i) \in Seq(Snapshot) /\ OnePerAsset(RemoveAt(q, i))
         /\ Range(RemoveAt(q, i)) = {s \in Range(q) : s.asset # q[i].asset}
  <1> DEFINE p == RemoveAt(q, i)
  <1>1. /\ p \in Seq(Snapshot) /\ Len(p) = Len(q) - 1 /\ Len(q) \in Nat /\ DOMAIN q = 1..Len(q)
        /\ DOMAIN p = 1..(Len(q) - 1)
        /\ \A j \in 1..(Len(q) - 1) : p[j] = IF j < i THEN q[j] ELSE q[j + 1]
    BY RemoveAtFacts
  <1> HIDE DEF p
  <1>2. \A j \in DOMAIN p : j \in DOMAIN q /\ j + 1 \in DOMAIN q /\ p[j] = IF j < i THEN q[j] ELSE q[j + 1]
    BY <1>1
  <1>3. \A j \in DOMAIN p : \E k \in DOMAIN q : k # i /\ p[j] = q[k]
    BY <1>1, <1>2
  <1>4. \A k \in DOMAIN q : k # i => \E j \in DOMAIN p : p[j] = q[k]
    <2> SUFFICES ASSUME NEW k \in DOMAIN q, k # i
                 PROVE  \E j \in DOMAIN p : p[j] = q[k]
      OBVIOUS
    <2>1. CASE k < i
      <3>1. k \in DOMAIN p
        BY <1>1, <2>1
      <3> QED BY <1>2, <2>1, <3>1
    <2>2. CASE ~(k < i)
      <3>1. k - 1 \in DOMAIN p /\ ~(k - 1 < i) /\ (k - 1) + 1 = k
        BY <1>1, <2>2
      <3> QED BY <1>2, <3>1
    <2> QED BY <2>1, <2>2
  <1>5. OnePerAsset(p)
    <2> SUFFICES ASSUME NEW j \in DOMAIN p, NEW k \in DOMAIN p, p[j].asset = p[k].asset
                 PROVE  j = k
      BY DEF OnePerAsset
    <2>0. j \in Nat /\ k \in Nat /\ i \in Nat
      BY <1>1
    <2>1. (IF j < i THEN j ELSE j + 1) = (IF k < i THEN k ELSE k + 1)
      BY <1>2 DEF OnePerAsset
    <2> QED BY <2>0, <2>1
  <1>6. Range(p) = {s \in Range(q) : s.asset # q[i].asset}
    <2>1. \A x \in Range(p) : x \in Range(q) /\ x.asset # q[i].asset
      BY <1>3 DEF Range, OnePerAsset
    <2>2. \A x \in Range(q) : x.asset # q[i].asset => x \in Range(p)
      BY <1>4 DEF Range
    <2> QED BY <2>1, <2>2
  <1> QED BY <1>1, <1>5, <1>6 DEF p

\* The snapshots of the others.
LEMMA OthersFacts ==
  ASSUME CardsTyped, OnePerAsset(pending), NEW a
  PROVE  /\ Others(a) \in Seq(Snapshot) /\ OnePerAsset(Others(a))
         /\ Range(Others(a)) = {s \in Range(pending) : s.asset # a}
  <1> DEFINE places == {i \in DOMAIN pending : pending[i].asset = a}
  <1>1. CASE places = {}
    <2>1. Others(a) = pending
      BY <1>1 DEF Others
    <2> QED BY <1>1, <2>1 DEF CardsTyped, Range
  <1>2. CASE places # {}
    <2>1. PICK i \in places : i = CHOOSE j \in places : TRUE
      BY <1>2
    <2>2. Others(a) = RemoveAt(pending, i) /\ i \in DOMAIN pending /\ pending[i].asset = a
      BY <1>2, <2>1 DEF Others
    <2> QED BY <2>2, SnapshotRemoved DEF CardsTyped
  <1> QED BY <1>1, <1>2

\* What is pending of an asset, in a queue of snapshots.
PendingIn(q, a) ==
  IF \E i \in DOMAIN q : q[i].asset = a THEN (CHOOSE s \in Range(q) : s.asset = a).values ELSE NoValues

\* What waits for an asset are values.
LEMMA PendingInFacts ==
  ASSUME NEW q \in Seq(Snapshot), OnePerAsset(q), NEW a
  PROVE  /\ \A s \in Range(q) : s.asset = a => PendingIn(q, a) = s.values
         /\ (\A s \in Range(q) : s.asset # a) => PendingIn(q, a) = NoValues
         /\ PendingIn(q, a) \in Values
  <1>0. NoValues \in Values
    BY CardValuesAssumption DEF NoValues, Values, Changes
  <1>1. ASSUME NEW s \in Range(q), NEW t \in Range(q), s.asset = t.asset
        PROVE  s = t
    BY <1>1 DEF Range, OnePerAsset
  <1>2. \A s \in Range(q) : s \in Snapshot
    BY DEF Range
  <1>3. CASE \E s \in Range(q) : s.asset = a
    <2>1. PICK s \in Range(q) : s.asset = a
      BY <1>3
    <2>2. (CHOOSE t \in Range(q) : t.asset = a) = s
      BY <1>1, <2>1
    <2>3. \E i \in DOMAIN q : q[i].asset = a
      BY <2>1 DEF Range
    <2>4. PendingIn(q, a) = s.values
      BY <2>2, <2>3 DEF PendingIn
    <2>5. \A t \in Range(q) : t.asset = a => t = s
      BY <1>1, <2>1
    <2> QED BY <1>2, <2>1, <2>4, <2>5 DEF Snapshot
  <1>4. CASE ~\E s \in Range(q) : s.asset = a
    <2>1. ~\E i \in DOMAIN q : q[i].asset = a
      BY <1>4 DEF Range
    <2> QED BY <1>0, <1>4, <2>1 DEF PendingIn
  <1> QED BY <1>3, <1>4

\* A snapshot takes the place of the one of its asset.
LEMMA PendingMerged ==
  ASSUME NEW q \in Seq(Snapshot), OnePerAsset(q), NEW p \in Seq(Snapshot), OnePerAsset(p), NEW x \in Snapshot,
         Range(p) = {s \in Range(q) : s.asset # x.asset} \cup {x}
  PROVE  /\ PendingIn(p, x.asset) = x.values
         /\ \A b : b # x.asset => PendingIn(p, b) = PendingIn(q, b)
  <1>1. x \in Range(p)
    OBVIOUS
  <1>2. PendingIn(p, x.asset) = x.values
    BY <1>1, PendingInFacts
  <1>3. ASSUME NEW b, b # x.asset
        PROVE  PendingIn(p, b) = PendingIn(q, b)
    <2>1. \A s : s.asset = b => (s \in Range(p) <=> s \in Range(q))
      BY <1>3
    <2>2. CASE \E s \in Range(q) : s.asset = b
      <3>1. PICK s \in Range(q) : s.asset = b
        BY <2>2
      <3>2. s \in Range(p)
        BY <2>1, <3>1
      <3> QED BY <3>1, <3>2, PendingInFacts
    <2>3. CASE ~\E s \in Range(q) : s.asset = b
      <3>1. (\A s \in Range(q) : s.asset # b) /\ (\A s \in Range(p) : s.asset # b)
        BY <2>1, <2>3
      <3> QED BY <3>1, PendingInFacts
    <2> QED BY <2>2, <2>3
  <1> QED BY <1>2, <1>3

\* A snapshot leaves the queue.
LEMMA PendingLeft ==
  ASSUME NEW q \in Seq(Snapshot), OnePerAsset(q), NEW p \in Seq(Snapshot), OnePerAsset(p), NEW a,
         Range(p) = {s \in Range(q) : s.asset # a}
  PROVE  /\ PendingIn(p, a) = NoValues
         /\ \A b : b # a => PendingIn(p, b) = PendingIn(q, b)
  <1>1. \A s \in Range(p) : s.asset # a
    OBVIOUS
  <1>2. PendingIn(p, a) = NoValues
    BY <1>1, PendingInFacts
  <1>3. ASSUME NEW b, b # a
        PROVE  PendingIn(p, b) = PendingIn(q, b)
    <2>1. \A s : s.asset = b => (s \in Range(p) <=> s \in Range(q))
      BY <1>3
    <2>2. CASE \E s \in Range(q) : s.asset = b
      <3>1. PICK s \in Range(q) : s.asset = b
        BY <2>2
      <3>2. s \in Range(p)
        BY <2>1, <3>1
      <3> QED BY <3>1, <3>2, PendingInFacts
    <2>3. CASE ~\E s \in Range(q) : s.asset = b
      <3>1. (\A s \in Range(q) : s.asset # b) /\ (\A s \in Range(p) : s.asset # b)
        BY <2>1, <2>3
      <3> QED BY <3>1, PendingInFacts
    <2> QED BY <2>2, <2>3
  <1> QED BY <1>2, <1>3

\* A snapshot comes to the end, or goes back to the front, in place of the one of its asset.
LEMMA PendingWith ==
  ASSUME CardsTyped, OnePerAsset(pending), NEW x \in Snapshot, NEW p,
         p = Append(Others(x.asset), x) \/ p = <<x>> \o Others(x.asset)
  PROVE  /\ p \in Seq(Snapshot) /\ OnePerAsset(p)
         /\ Range(p) = {s \in Range(pending) : s.asset # x.asset} \cup {x}
         /\ PendingIn(p, x.asset) = x.values
         /\ \A b : b # x.asset => PendingIn(p, b) = PendingIn(pending, b)
  <1> DEFINE o == Others(x.asset)
  <1>1. /\ o \in Seq(Snapshot) /\ OnePerAsset(o)
        /\ Range(o) = {s \in Range(pending) : s.asset # x.asset}
    BY OthersFacts
  <1> HIDE DEF o
  <1>2. p \in Seq(Snapshot) /\ Range(p) = Range(o) \cup {x}
    <2>1. CASE p = Append(o, x)
      BY <1>1, <2>1, RangeAppended
    <2>2. CASE p = <<x>> \o o
      BY <1>1, <2>2, RangeAppended
    <2> QED BY <2>1, <2>2 DEF o
  <1>3. \A i \in DOMAIN o : o[i].asset # x.asset
    BY <1>1 DEF Range
  <1>4. OnePerAsset(p)
    <2>1. CASE p = Append(o, x)
      <3>1. /\ DOMAIN p = 1..(Len(o) + 1) /\ DOMAIN o = 1..Len(o) /\ Len(o) \in Nat
            /\ p[Len(o) + 1] = x /\ \A i \in DOMAIN o : p[i] = o[i]
        BY <1>1, <2>1
      <3>2. \A i \in DOMAIN p : i \in DOMAIN o \/ i = Len(o) + 1
        BY <3>1
      <3> QED BY <1>1, <1>3, <3>1, <3>2 DEF OnePerAsset
    <2>2. CASE p = <<x>> \o o
      <3>1. /\ DOMAIN p = 1..(Len(o) + 1) /\ DOMAIN o = 1..Len(o) /\ Len(o) \in Nat
            /\ p[1] = x /\ \A i \in 2..(Len(o) + 1) : p[i] = o[i - 1]
        BY <1>1, <2>2
      <3>2. \A i \in DOMAIN p : i \in Nat /\ (i = 1 \/ (i - 1 \in DOMAIN o /\ p[i] = o[i - 1]))
        BY <3>1
      <3>3. ASSUME NEW i \in DOMAIN p, NEW j \in DOMAIN p, p[i].asset = p[j].asset
            PROVE  i = j
        <4>1. CASE i = 1 \/ j = 1
          BY <1>3, <3>1, <3>2, <3>3, <4>1
        <4>2. CASE i # 1 /\ j # 1
          <5>1. i - 1 = j - 1
            BY <1>1, <3>2, <3>3, <4>2 DEF OnePerAsset
          <5> QED BY <3>2, <5>1
        <4> QED BY <4>1, <4>2
      <3> QED BY <3>3 DEF OnePerAsset
    <2> QED BY <2>1, <2>2 DEF o
  <1>5. pending \in Seq(Snapshot)
    BY DEF CardsTyped
  <1>6. Range(p) = {s \in Range(pending) : s.asset # x.asset} \cup {x}
    BY <1>1, <1>2
  <1>7. /\ PendingIn(p, x.asset) = x.values
        /\ \A b : b # x.asset => PendingIn(p, b) = PendingIn(pending, b)
    BY <1>2, <1>4, <1>5, <1>6, PendingMerged
  <1> QED BY <1>2, <1>4, <1>6, <1>7

\* Every step leaves the flags Boolean.
LEMMA CardFlagsStep == CardFlags /\ [CardsNext]_cardVars => CardFlags'
  <1> SUFFICES ASSUME CardFlags, [CardsNext]_cardVars
               PROVE  CardFlags'
    OBVIOUS
  <1>1. CASE NextSnapshot
    <2>1. idle' = idle \/ idle' = (idle \/ ~uploaderStopped)
      BY <1>1, Zenon DEF NextSnapshot
    <2>2. (idle \/ ~uploaderStopped) \in BOOLEAN
      BY Zenon
    <2> QED BY <1>1, <2>1, <2>2, Zenon DEF NextSnapshot, CardFlags
  <1>2. ASSUME NEW a \in CardAssets, NEW k \in CardKeys, ChangeValue(a, k)
        PROVE  CardFlags'
    BY <1>2, Zenon DEF ChangeValue, CardFlags
  <1>3. ASSUME NEW a \in CardAssets, ChangeOutputs(a)
        PROVE  CardFlags'
    BY <1>3, Zenon DEF ChangeOutputs, CardFlags
  <1>4. ASSUME NEW lands \in BOOLEAN, NEW ok \in BOOLEAN, PostSnapshot(lands, ok)
        PROVE  CardFlags'
    BY <1>4, Zenon DEF PostSnapshot, CardFlags
  <1>5. ASSUME NEW a \in CardAssets, IntervalOver(a)
        PROVE  CardFlags'
    BY <1>5, Zenon DEF IntervalOver, CardFlags
  <1>6. CASE WakeCards \/ Claim \/ CardTokenBack \/ StopCards \/ UNCHANGED cardVars
    BY <1>6, Zenon DEF WakeCards, Claim, CardTokenBack, StopCards, cardVars, CardFlags
  <1> QED BY <1>1, <1>2, <1>3, <1>4, <1>5, <1>6 DEF CardsNext

\* One set of values over another.
LEMMA OverFacts ==
  ASSUME NEW v \in Values, NEW w \in Values
  PROVE  Over(v, w) \in Values /\ \A k \in CardKeys : Over(v, w)[k] = OverOuts(v[k], w[k])
  BY DEF Over, OverOuts, Values

\* The newer of two changes of the outputs is a change.
LEMMA OverOutsFacts ==
  ASSUME NEW m \in Changes, NEW n \in Changes
  PROVE  OverOuts(m, n) \in Changes
  BY DEF OverOuts

\* Reading the state by what is pending of each asset.
LEMMA PendingRead ==
  /\ \A a : PendingOf(a) = PendingIn(pending, a)
  /\ \A a : PendingOf(a)' = PendingIn(pending', a)
  BY DEF PendingOf, PendingIn

\* What the parts of the state are.
LEMMA CardsTypes ==
  ASSUME CardsInv
  PROVE  /\ \A a : PendingOf(a) \in Values /\ HandValues(a) \in Values /\ HandOuts(a) \in Changes
         /\ NoValues \in Values /\ 0 \in Changes /\ Changes \subseteq Nat
         /\ \A a \in CardAssets : /\ pendingOuts[a] \in Changes
                                  /\ latest[a] \in [values : Values, outs : Changes]
                                  /\ backend[a] \in [values : Values, outs : Changes]
  <1>1. NoValues \in Values /\ 0 \in Changes /\ Changes \subseteq Nat
    BY CardValuesAssumption DEF NoValues, Values, Changes
  <1>2. ASSUME NEW a
        PROVE  PendingOf(a) \in Values
    BY PendingRead, PendingInFacts DEF CardsInv, CardsTyped
  <1>3. ASSUME NEW a
        PROVE  HandValues(a) \in Values /\ HandOuts(a) \in Changes
    BY <1>1 DEF CardsInv, CardsTyped, HandValues, HandOuts, Snapshot, NoSnapshot
  <1> QED BY <1>1, <1>2, <1>3 DEF CardsInv, CardsTyped

\* A change of a value or of the levels.
LEMMA ChangeKept ==
  ASSUME CardsInv, NEW a \in CardAssets, NEW x \in Snapshot, x.asset = a, x.outs = 0, changes < MaxChanges,
         changes' = changes + 1, pending' = Append(Others(a), x), idle' = FALSE,
         UNCHANGED <<inHand, cardLoop, recent, cardTokens, uploaderStopped, backend>>,
         \/ /\ pendingOuts' = pendingOuts
            /\ \E k \in CardKeys :
                 /\ x.values = Over([NoValues EXCEPT ![k] = changes + 1], PendingOf(a))
                 /\ latest' = [latest EXCEPT ![a].values[k] = changes + 1]
         \/ /\ pendingOuts' = [pendingOuts EXCEPT ![a] = changes + 1]
            /\ x.values = PendingOf(a) /\ latest' = [latest EXCEPT ![a].outs = changes + 1]
  PROVE  CardsInv'
  <1>0. /\ CardsTyped /\ OnePerAsset(pending) /\ ValuesKnown /\ OutsKnown /\ CardsHeld
        /\ changes + 1 \in Changes /\ changes + 1 # 0 /\ ~idle'
    <2>1. ~idle'
      BY Zenon
    <2> QED BY <2>1, CardValuesAssumption DEF CardsInv, CardsTyped, Changes
  <1>1. /\ pending' \in Seq(Snapshot) /\ OnePerAsset(pending')
        /\ Range(pending') = {s \in Range(pending) : s.asset # a} \cup {x}
        /\ PendingIn(pending', a) = x.values
        /\ \A b : b # a => PendingIn(pending', b) = PendingIn(pending, b)
    <2>1. pending' = Append(Others(x.asset), x)
      OBVIOUS
    <2>2. /\ pending' \in Seq(Snapshot) /\ OnePerAsset(pending')
          /\ Range(pending') = {s \in Range(pending) : s.asset # x.asset} \cup {x}
          /\ PendingIn(pending', x.asset) = x.values
          /\ \A b : b # x.asset => PendingIn(pending', b) = PendingIn(pending, b)
      BY <1>0, <2>1, PendingWith
    <2> QED BY <2>2
  <1>2. /\ \A b : PendingOf(b) \in Values /\ HandValues(b) \in Values /\ HandOuts(b) \in Changes
        /\ NoValues \in Values /\ 0 \in Changes /\ Changes \subseteq Nat
        /\ \A b \in CardAssets : /\ pendingOuts[b] \in Changes
                                 /\ latest[b] \in [values : Values, outs : Changes]
                                 /\ backend[b] \in [values : Values, outs : Changes]
    BY CardsTypes
  <1>3. \A b : HandValues(b)' = HandValues(b) /\ HandOuts(b)' = HandOuts(b)
    BY DEF HandValues, HandOuts
  <1>4. /\ latest' \in [CardAssets -> [values : Values, outs : Changes]]
        /\ pendingOuts' \in [CardAssets -> Changes]
    <2>1. latest \in [CardAssets -> [values : Values, outs : Changes]]
          /\ pendingOuts \in [CardAssets -> Changes]
      BY <1>0 DEF CardsTyped
    <2>2. ASSUME NEW k \in CardKeys, latest' = [latest EXCEPT ![a].values[k] = changes + 1]
          PROVE  latest' \in [CardAssets -> [values : Values, outs : Changes]]
      <3>1. latest[a] \in [values : Values, outs : Changes] /\ latest[a].values \in [CardKeys -> Changes]
        BY <1>2 DEF Values
      <3>2. [latest[a].values EXCEPT ![k] = changes + 1] \in Values
        BY <1>0, <3>1 DEF Values
      <3>3. [latest[a] EXCEPT !.values = [@ EXCEPT ![k] = changes + 1]] \in [values : Values, outs : Changes]
        BY <3>1, <3>2
      <3>4. latest' = [latest EXCEPT ![a] = [latest[a] EXCEPT !.values = [@ EXCEPT ![k] = changes + 1]]]
        BY <2>1, <2>2
      <3> QED BY <2>1, <3>3, <3>4
    <2>3. ASSUME latest' = [latest EXCEPT ![a].outs = changes + 1]
          PROVE  latest' \in [CardAssets -> [values : Values, outs : Changes]]
      BY <1>0, <2>1, <2>3
    <2>4. pendingOuts' \in [CardAssets -> Changes]
      BY <1>0, <2>1
    <2> QED BY <2>2, <2>3, <2>4
  <1>5. CardsTyped'
    BY <1>0, <1>1, <1>4 DEF CardsTyped
  <1>6. ValuesKnown'
    <2> SUFFICES ASSUME NEW b \in CardAssets, NEW j \in CardKeys
                 PROVE  latest'[b].values[j] =
                          OverOuts(PendingIn(pending', b)[j], OverOuts(HandValues(b)[j], backend[b].values[j]))
      BY <1>3, PendingRead DEF ValuesKnown
    <2>0. latest[b].values[j] =
            OverOuts(PendingIn(pending, b)[j], OverOuts(HandValues(b)[j], backend[b].values[j]))
      BY <1>0, PendingRead DEF ValuesKnown
    <2>1. ASSUME NEW k \in CardKeys, x.values = Over([NoValues EXCEPT ![k] = changes + 1], PendingOf(a)),
                 latest' = [latest EXCEPT ![a].values[k] = changes + 1]
          PROVE  latest'[b].values[j] =
                   OverOuts(PendingIn(pending', b)[j], OverOuts(HandValues(b)[j], backend[b].values[j]))
      <3>1. CASE b # a
        <4>1. latest'[b] = latest[b]
          BY <1>0, <2>1, <3>1 DEF CardsTyped
        <4> QED BY <1>1, <2>0, <3>1, <4>1
      <3>2. CASE b = a
        <4> DEFINE n == [NoValues EXCEPT ![k] = changes + 1]
        <4>1. n \in Values /\ n[j] = IF j = k THEN changes + 1 ELSE 0
          BY <1>0, <1>2 DEF NoValues, Values
        <4> HIDE DEF n
        <4>2. x.values[j] = OverOuts(n[j], PendingOf(a)[j])
          <5>1. x.values = Over(n, PendingOf(a))
            BY <2>1 DEF n
          <5>2. n \in Values /\ PendingOf(a) \in Values
            BY <1>2, <4>1
          <5> QED BY <5>1, <5>2, OverFacts
        <4>3. latest'[a].values[j] = IF j = k THEN changes + 1 ELSE latest[a].values[j]
          <5>1. latest'[a].values = [latest[a].values EXCEPT ![k] = changes + 1]
            BY <1>0, <1>2, <2>1 DEF CardsTyped
          <5>2. latest[a].values \in Values
            BY <1>2
          <5> QED BY <5>1, <5>2 DEF Values
        <4>4. PendingOf(a) = PendingIn(pending, a)
          BY PendingRead
        <4> QED BY <1>0, <1>1, <2>0, <3>2, <4>1, <4>2, <4>3, <4>4 DEF OverOuts
      <3> QED BY <3>1, <3>2
    <2>2. ASSUME x.values = PendingOf(a), latest' = [latest EXCEPT ![a].outs = changes + 1]
          PROVE  latest'[b].values[j] =
                   OverOuts(PendingIn(pending', b)[j], OverOuts(HandValues(b)[j], backend[b].values[j]))
      <3>1. latest'[b].values = latest[b].values
        BY <1>0, <1>2, <2>2 DEF CardsTyped
      <3>2. PendingIn(pending', b) = PendingIn(pending, b)
        BY <1>1, <2>2, PendingRead
      <3> QED BY <2>0, <3>1, <3>2
    <2> QED BY <2>1, <2>2
  <1>7. OutsKnown'
    <2> SUFFICES ASSUME NEW b \in CardAssets
                 PROVE  latest'[b].outs = OverOuts(pendingOuts'[b], OverOuts(HandOuts(b), backend[b].outs))
      BY <1>3 DEF OutsKnown
    <2>0. latest[b].outs = OverOuts(pendingOuts[b], OverOuts(HandOuts(b), backend[b].outs))
      BY <1>0 DEF OutsKnown
    <2>1. ASSUME pendingOuts' = pendingOuts, NEW k \in CardKeys,
                 latest' = [latest EXCEPT ![a].values[k] = changes + 1]
          PROVE  latest'[b].outs = latest[b].outs
      BY <1>0, <1>2, <2>1 DEF CardsTyped
    <2>2. ASSUME pendingOuts' = [pendingOuts EXCEPT ![a] = changes + 1],
                 latest' = [latest EXCEPT ![a].outs = changes + 1]
          PROVE  latest'[b].outs = OverOuts(pendingOuts'[b], OverOuts(HandOuts(b), backend[b].outs))
      BY <1>0, <1>2, <2>0, <2>2 DEF CardsTyped, OverOuts
    <2> QED BY <2>0, <2>1, <2>2
  <1>8. CardsHeld'
    <2>1. \A s \in Range(pending') : s.outs = 0
      BY <1>0, <1>1 DEF CardsHeld
    <2>2. ASSUME NEW b \in CardAssets, pendingOuts'[b] # 0
          PROVE  (\E s \in Range(pending') : s.asset = b) \/ (cardLoop = "taken" /\ inHand.asset = b)
      <3>1. CASE b = a
        BY <1>1, <3>1
      <3>2. CASE b # a
        <4>1. pendingOuts[b] # 0
          BY <1>0, <2>2, <3>2 DEF CardsTyped
        <4> QED BY <1>0, <1>1, <3>2, <4>1 DEF CardsHeld
      <3> QED BY <3>1, <3>2
    <2> QED BY <1>0, <2>1, <2>2 DEF CardsHeld
  <1> QED BY <1>1, <1>5, <1>6, <1>7, <1>8 DEF CardsInv

\* What goes back to the front is under what came meanwhile.
LEMMA PutBackFacts ==
  ASSUME CardsInv, NEW s \in Snapshot, PutBack(s)
  PROVE  /\ pending' \in Seq(Snapshot) /\ OnePerAsset(pending')
         /\ \A t \in Range(pending') : t.outs = 0
         /\ \E t \in Range(pending') : t.asset = s.asset
         /\ \A t \in Range(pending) : t.asset # s.asset => t \in Range(pending')
         /\ \A k \in CardKeys :
              PendingIn(pending', s.asset)[k] = OverOuts(PendingIn(pending, s.asset)[k], s.values[k])
         /\ \A b : b # s.asset => PendingIn(pending', b) = PendingIn(pending, b)
         /\ pendingOuts' \in [CardAssets -> Changes]
         /\ pendingOuts'[s.asset] = OverOuts(pendingOuts[s.asset], s.outs)
         /\ \A b \in CardAssets : b # s.asset => pendingOuts'[b] = pendingOuts[b]
  <1> DEFINE v == Over(PendingOf(s.asset), s.values)
             x == Taken(s.asset, v)
  <1>0. s.asset \in CardAssets /\ s.values \in Values /\ s.outs \in Changes
    BY DEF Snapshot
  <1>1. PendingOf(s.asset) \in Values /\ 0 \in Changes /\ pendingOuts[s.asset] \in Changes
    BY <1>0, CardsTypes
  <1>2. v \in Values /\ \A k \in CardKeys : v[k] = OverOuts(PendingOf(s.asset)[k], s.values[k])
    BY <1>0, <1>1, OverFacts
  <1>3. pending' = <<x>> \o Others(s.asset)
        /\ pendingOuts' = [pendingOuts EXCEPT ![s.asset] = OverOuts(@, s.outs)]
    BY DEF PutBack
  <1> HIDE DEF v
  <1>4. x \in Snapshot /\ x.asset = s.asset /\ x.values = v /\ x.outs = 0
    BY <1>0, <1>1, <1>2 DEF Taken, Snapshot
  <1> HIDE DEF x
  <1>5. CardsTyped /\ OnePerAsset(pending) /\ CardsHeld
    BY DEF CardsInv
  <1>6. pending' = <<x>> \o Others(x.asset)
    BY <1>3, <1>4
  <1>7. /\ pending' \in Seq(Snapshot) /\ OnePerAsset(pending')
        /\ Range(pending') = {t \in Range(pending) : t.asset # x.asset} \cup {x}
        /\ PendingIn(pending', x.asset) = x.values
        /\ \A b : b # x.asset => PendingIn(pending', b) = PendingIn(pending, b)
    <2>1. \/ pending' = Append(Others(x.asset), x)
          \/ pending' = <<x>> \o Others(x.asset)
      BY <1>6
    <2>2. x \in Snapshot
      BY <1>4
    <2> QED BY <1>5, <2>1, <2>2, PendingWith, Zenon
  <1>8. /\ \A t \in Range(pending') : t.outs = 0
        /\ \E t \in Range(pending') : t.asset = s.asset
        /\ \A t \in Range(pending) : t.asset # s.asset => t \in Range(pending')
    BY <1>4, <1>5, <1>7 DEF CardsHeld
  <1>9. /\ pendingOuts' \in [CardAssets -> Changes]
        /\ pendingOuts'[s.asset] = OverOuts(pendingOuts[s.asset], s.outs)
        /\ \A b \in CardAssets : b # s.asset => pendingOuts'[b] = pendingOuts[b]
    <2>1. OverOuts(pendingOuts[s.asset], s.outs) \in Changes
      BY <1>0, <1>1, OverOutsFacts
    <2> QED BY <1>0, <1>3, <1>5, <2>1 DEF CardsTyped
  <1>10. PendingOf(s.asset) = PendingIn(pending, s.asset)
    BY PendingRead
  <1> QED BY <1>2, <1>4, <1>7, <1>8, <1>9, <1>10

\* The snapshot in hand goes back: posted and unanswered, refused, or not allowed yet.
LEMMA HandBack ==
  ASSUME CardsInv, cardLoop \in {"taken", "posting"}, NEW s \in Snapshot,
         s.asset = inHand.asset, s.values = inHand.values,
         s.outs = inHand.outs \/ (inHand.outs = 0 /\ s.outs = pendingOuts[inHand.asset]),
         PutBack(s), inHand' = NoSnapshot, cardLoop' = "next", ~idle',
         backend' = backend \/
           backend' = [backend EXCEPT ![inHand.asset] = [values |-> Over(inHand.values, @.values),
                                                         outs |-> OverOuts(inHand.outs, @.outs)]],
         recent' \subseteq CardAssets, cardTokens' \in 0..CardBurst, UNCHANGED <<changes, latest>>
  PROVE  CardsInv'
  <1> DEFINE a == inHand.asset
  <1>0. CardsTyped /\ OnePerAsset(pending) /\ ValuesKnown /\ OutsKnown /\ CardsHeld /\ inHand \in Snapshot
    BY DEF CardsInv, CardsHeld
  <1>1. /\ a \in CardAssets /\ inHand.values \in Values /\ inHand.outs \in Changes
        /\ backend[a] \in [values : Values, outs : Changes]
        /\ backend \in [CardAssets -> [values : Values, outs : Changes]]
    BY <1>0 DEF CardsTyped, Snapshot
  <1>2. /\ pending' \in Seq(Snapshot) /\ OnePerAsset(pending')
        /\ \A t \in Range(pending') : t.outs = 0
        /\ \E t \in Range(pending') : t.asset = a
        /\ \A t \in Range(pending) : t.asset # a => t \in Range(pending')
        /\ \A k \in CardKeys : PendingIn(pending', a)[k] = OverOuts(PendingIn(pending, a)[k], inHand.values[k])
        /\ \A b : b # a => PendingIn(pending', b) = PendingIn(pending, b)
        /\ pendingOuts' \in [CardAssets -> Changes]
        /\ pendingOuts'[a] = OverOuts(pendingOuts[a], s.outs)
        /\ \A b \in CardAssets : b # a => pendingOuts'[b] = pendingOuts[b]
    BY PutBackFacts
  <1>3. \A b : HandValues(b)' = NoValues /\ HandOuts(b)' = 0
    BY DEF HandValues, HandOuts, NoSnapshot
  <1>4. \A b : b # a => HandValues(b) = NoValues /\ HandOuts(b) = 0
    BY DEF HandValues, HandOuts
  <1>5. HandValues(a) = inHand.values /\ HandOuts(a) = inHand.outs
    BY DEF HandValues, HandOuts
  <1> HIDE DEF a
  <1>6. /\ backend' \in [CardAssets -> [values : Values, outs : Changes]]
        /\ \A b \in CardAssets : b # a => backend'[b] = backend[b]
        /\ backend'[a] = backend[a]
           \/ (/\ \A k \in CardKeys : backend'[a].values[k] = OverOuts(inHand.values[k], backend[a].values[k])
               /\ backend'[a].outs = OverOuts(inHand.outs, backend[a].outs))
    <2>1. CASE backend' = backend
      BY <1>1, <2>1
    <2>2. CASE backend' = [backend EXCEPT ![inHand.asset] = [values |-> Over(inHand.values, @.values),
                                                             outs |-> OverOuts(inHand.outs, @.outs)]]
      <3>1. PICK v \in Values : v = Over(inHand.values, backend[a].values)
                                /\ \A k \in CardKeys : v[k] = OverOuts(inHand.values[k], backend[a].values[k])
        BY <1>1, OverFacts
      <3>2. PICK n \in Changes : n = OverOuts(inHand.outs, backend[a].outs)
        BY <1>1, OverOutsFacts
      <3>3. backend' = [backend EXCEPT ![a] = [values |-> v, outs |-> n]]
        BY <2>2, <3>1, <3>2 DEF a
      <3> QED BY <1>1, <3>1, <3>2, <3>3
    <2> QED BY <2>1, <2>2
  <1>7. CardsTyped'
    <2>1. NoSnapshot \in Snapshot \cup {NoSnapshot}
      OBVIOUS
    <2> QED BY <1>0, <1>2, <1>6, <2>1 DEF CardsTyped
  <1>8. ValuesKnown'
    <2> SUFFICES ASSUME NEW b \in CardAssets, NEW k \in CardKeys
                 PROVE  latest[b].values[k] =
                          OverOuts(PendingIn(pending', b)[k], OverOuts(0, backend'[b].values[k]))
      BY <1>3, PendingRead DEF ValuesKnown, NoValues
    <2>1. latest[b].values[k] =
            OverOuts(PendingIn(pending, b)[k], OverOuts(HandValues(b)[k], backend[b].values[k]))
      BY <1>0, PendingRead DEF ValuesKnown
    <2>2. CASE b # a
      BY <1>2, <1>4, <1>6, <2>1, <2>2 DEF NoValues
    <2>3. CASE b = a
      <3>1. PendingIn(pending', a)[k] = OverOuts(PendingIn(pending, a)[k], inHand.values[k])
        BY <1>2
      <3>2. backend'[a] = backend[a] \/ backend'[a].values[k] = OverOuts(inHand.values[k], backend[a].values[k])
        BY <1>6
      <3> QED BY <1>5, <2>1, <2>3, <3>1, <3>2 DEF OverOuts
    <2> QED BY <2>2, <2>3
  <1>9. OutsKnown'
    <2> SUFFICES ASSUME NEW b \in CardAssets
                 PROVE  latest[b].outs = OverOuts(pendingOuts'[b], OverOuts(0, backend'[b].outs))
      BY <1>3 DEF OutsKnown
    <2>1. latest[b].outs = OverOuts(pendingOuts[b], OverOuts(HandOuts(b), backend[b].outs))
      BY <1>0 DEF OutsKnown
    <2>2. CASE b # a
      BY <1>2, <1>4, <1>6, <2>1, <2>2
    <2>3. CASE b = a
      BY <1>2, <1>5, <1>6, <2>1, <2>3 DEF OverOuts, a
    <2> QED BY <2>2, <2>3
  <1>10. CardsHeld'
    <2>1. ASSUME NEW b \in CardAssets, pendingOuts'[b] # 0
          PROVE  \E t \in Range(pending') : t.asset = b
      <3>1. CASE b = a
        BY <1>2, <3>1
      <3>2. CASE b # a
        BY <1>0, <1>2, <2>1, <3>2 DEF CardsHeld, a
      <3> QED BY <3>1, <3>2
    <2> QED BY <1>2, <2>1 DEF CardsHeld
  <1> QED BY <1>2, <1>7, <1>8, <1>9, <1>10 DEF CardsInv

\* A snapshot is taken in hand.
LEMMA SnapshotTaken ==
  ASSUME CardsInv, NEW i \in DOMAIN pending, cardLoop = "next", ~idle',
         inHand' = pending[i], pending' = RemoveAt(pending, i), cardLoop' = "taken",
         UNCHANGED <<pendingOuts, recent, cardTokens, changes, latest, backend>>
  PROVE  CardsInv'
  <1>a. PICK a : a = pending[i].asset
    OBVIOUS
  <1>0. CardsTyped /\ OnePerAsset(pending) /\ ValuesKnown /\ OutsKnown /\ CardsHeld /\ pending \in Seq(Snapshot)
    BY DEF CardsInv, CardsTyped
  <1>1. pending[i] \in Snapshot /\ pending[i] \in Range(pending) /\ pending[i].outs = 0 /\ inHand = NoSnapshot
    BY <1>0 DEF CardsHeld, Range
  <1>2. /\ pending' \in Seq(Snapshot) /\ OnePerAsset(pending')
        /\ Range(pending') = {s \in Range(pending) : s.asset # a}
    BY <1>0, <1>a, SnapshotRemoved
  <1>3. PendingIn(pending, a) = pending[i].values
    BY <1>0, <1>1, <1>a, PendingInFacts
  <1>4. PendingIn(pending', a) = NoValues /\ \A b : b # a => PendingIn(pending', b) = PendingIn(pending, b)
    BY <1>0, <1>2, PendingLeft
  <1>5. CardsTyped'
    BY <1>0, <1>1, <1>2 DEF CardsTyped
  <1>6. \A b : HandValues(b) = NoValues /\ HandOuts(b) = 0
    BY <1>1 DEF HandValues, HandOuts, NoSnapshot
  <1>7. /\ HandValues(a)' = pending[i].values /\ \A b : b # a => HandValues(b)' = NoValues
        /\ \A b : HandOuts(b)' = 0
    <2>1. inHand' = pending[i]
      OBVIOUS
    <2>2. \A b : HandValues(b)' = IF a = b THEN pending[i].values ELSE NoValues
      BY <1>a, <2>1 DEF HandValues
    <2>3. \A b : HandOuts(b)' = 0
      BY <1>1, <2>1 DEF HandOuts
    <2> QED BY <2>2, <2>3
  <1>8. ValuesKnown'
    <2> SUFFICES ASSUME NEW b \in CardAssets, NEW k \in CardKeys
                 PROVE  latest[b].values[k] =
                          OverOuts(PendingIn(pending', b)[k], OverOuts(HandValues(b)'[k], backend[b].values[k]))
      BY PendingRead DEF ValuesKnown
    <2>1. latest[b].values[k] =
            OverOuts(PendingIn(pending, b)[k], OverOuts(HandValues(b)[k], backend[b].values[k]))
      BY <1>0, PendingRead DEF ValuesKnown
    <2>2. CASE b # a
      BY <1>4, <1>6, <1>7, <2>1, <2>2
    <2>3. CASE b = a
      <3>1. PendingIn(pending', a)[k] = 0 /\ HandValues(a)[k] = 0
        BY <1>4, <1>6 DEF NoValues
      <3>2. PendingIn(pending, a)[k] = pending[i].values[k] /\ HandValues(a)'[k] = pending[i].values[k]
        BY <1>3, <1>7
      <3> QED BY <2>1, <2>3, <3>1, <3>2 DEF OverOuts
    <2> QED BY <2>2, <2>3
  <1>9. OutsKnown'
    BY <1>0, <1>6, <1>7 DEF OutsKnown
  <1>10. CardsHeld'
    <2>1. ASSUME NEW b \in CardAssets, pendingOuts[b] # 0
          PROVE  (\E s \in Range(pending') : s.asset = b) \/ inHand'.asset = b
      <3>1. PICK s \in Range(pending) : s.asset = b
        BY <1>0, <2>1 DEF CardsHeld
      <3> QED BY <1>2, <1>a, <3>1
    <2> QED BY <1>0, <1>1, <1>2, <2>1 DEF CardsHeld
  <1> QED BY <1>2, <1>5, <1>8, <1>9, <1>10 DEF CardsInv

\* The levels go into the snapshot in hand, and it is posted.
LEMMA LevelsClaimed ==
  ASSUME CardsInv, cardLoop = "taken", cardLoop' = "posting", cardTokens' \in 0..CardBurst,
         inHand' = [inHand EXCEPT !.outs = pendingOuts[inHand.asset]],
         pendingOuts' = [pendingOuts EXCEPT ![inHand.asset] = 0],
         UNCHANGED <<pending, recent, idle, changes, latest, backend>>
  PROVE  CardsInv'
  <1>a. PICK a : a = inHand.asset
    OBVIOUS
  <1>0. /\ CardsTyped /\ OnePerAsset(pending) /\ ValuesKnown /\ OutsKnown /\ CardsHeld
        /\ inHand \in Snapshot /\ inHand.outs = 0 /\ ~idle
    BY DEF CardsInv, CardsHeld
  <1>1. /\ a \in CardAssets /\ pendingOuts[a] \in Changes /\ pendingOuts \in [CardAssets -> Changes]
        /\ 0 \in Changes
    BY <1>0, <1>a, CardsTypes DEF Snapshot, CardsTyped
  <1>2. /\ inHand' \in Snapshot /\ inHand'.asset = a /\ inHand'.values = inHand.values
        /\ inHand'.outs = pendingOuts[a]
    BY <1>0, <1>1, <1>a DEF Snapshot
  <1>3. /\ pendingOuts' \in [CardAssets -> Changes] /\ pendingOuts'[a] = 0
        /\ \A b \in CardAssets : b # a => pendingOuts'[b] = pendingOuts[b]
    BY <1>1, <1>a
  <1>4. CardsTyped'
    BY <1>0, <1>2, <1>3 DEF CardsTyped
  <1>5. \A b : HandValues(b)' = HandValues(b)
    BY <1>2, <1>a DEF HandValues
  <1>6. ValuesKnown'
    <2> SUFFICES ASSUME NEW b \in CardAssets, NEW k \in CardKeys
                 PROVE  latest[b].values[k] =
                          OverOuts(PendingIn(pending', b)[k], OverOuts(HandValues(b)'[k], backend[b].values[k]))
      BY PendingRead DEF ValuesKnown
    <2> QED BY <1>0, <1>5, PendingRead DEF ValuesKnown
  <1>7. OutsKnown'
    <2> SUFFICES ASSUME NEW b \in CardAssets
                 PROVE  latest[b].outs = OverOuts(pendingOuts'[b], OverOuts(HandOuts(b)', backend[b].outs))
      BY DEF OutsKnown
    <2>1. latest[b].outs = OverOuts(pendingOuts[b], OverOuts(HandOuts(b), backend[b].outs))
      BY <1>0 DEF OutsKnown
    <2>2. CASE b # a
      BY <1>2, <1>3, <2>1, <2>2, <1>a DEF HandOuts
    <2>3. CASE b = a
      BY <1>0, <1>2, <1>3, <2>1, <2>3, <1>a DEF HandOuts, OverOuts
    <2> QED BY <2>2, <2>3
  <1>8. CardsHeld'
    BY <1>0, <1>2, <1>3, <1>a DEF CardsHeld
  <1> QED BY <1>0, <1>4, <1>6, <1>7, <1>8 DEF CardsInv

\* The post was answered: the backend has what was in hand.
LEMMA PostAnswered ==
  ASSUME CardsInv, cardLoop = "posting", cardLoop' = "next", inHand' = NoSnapshot,
         backend' = [backend EXCEPT ![inHand.asset] = [values |-> Over(inHand.values, @.values),
                                                       outs |-> OverOuts(inHand.outs, @.outs)]],
         recent' \subseteq CardAssets,
         UNCHANGED <<pending, pendingOuts, idle, cardTokens, changes, latest>>
  PROVE  CardsInv'
  <1>a. PICK a : a = inHand.asset
    OBVIOUS
  <1>0. /\ CardsTyped /\ OnePerAsset(pending) /\ ValuesKnown /\ OutsKnown /\ CardsHeld
        /\ inHand \in Snapshot /\ ~idle
    BY DEF CardsInv, CardsHeld
  <1>1. /\ a \in CardAssets /\ inHand.values \in Values /\ inHand.outs \in Changes
        /\ backend[a] \in [values : Values, outs : Changes]
        /\ backend \in [CardAssets -> [values : Values, outs : Changes]]
    BY <1>0, <1>a DEF CardsTyped, Snapshot
  <1>2. /\ \A b : HandValues(b)' = NoValues /\ HandOuts(b)' = 0
        /\ \A b : b # a => HandValues(b) = NoValues /\ HandOuts(b) = 0
        /\ HandValues(a) = inHand.values /\ HandOuts(a) = inHand.outs
    BY <1>a DEF HandValues, HandOuts, NoSnapshot
  <1>3. /\ backend' \in [CardAssets -> [values : Values, outs : Changes]]
        /\ \A b \in CardAssets : b # a => backend'[b] = backend[b]
        /\ \A k \in CardKeys : backend'[a].values[k] = OverOuts(inHand.values[k], backend[a].values[k])
        /\ backend'[a].outs = OverOuts(inHand.outs, backend[a].outs)
    <2>1. PICK v \in Values : v = Over(inHand.values, backend[a].values)
                              /\ \A k \in CardKeys : v[k] = OverOuts(inHand.values[k], backend[a].values[k])
      BY <1>1, OverFacts
    <2>2. PICK n \in Changes : n = OverOuts(inHand.outs, backend[a].outs)
      BY <1>1, OverOutsFacts
    <2>3. backend' = [backend EXCEPT ![a] = [values |-> v, outs |-> n]]
      BY <2>1, <2>2, <1>a
    <2>4. PICK has \in [values : Values, outs : Changes] : has = [values |-> v, outs |-> n]
      OBVIOUS
    <2>5. backend' = [backend EXCEPT ![a] = has]
      BY <2>3, <2>4
    <2> DEFINE Has == [values : Values, outs : Changes]
    <2>a. has \in Has /\ a \in CardAssets /\ backend \in [CardAssets -> Has]
      BY <1>1, <2>4
    <2> HIDE DEF Has
    <2>b. backend' \in [CardAssets -> Has]
      BY <2>a, <2>5
    <2>c. backend'[a] = has /\ \A b \in CardAssets : b # a => backend'[b] = backend[b]
      BY <2>a, <2>5
    <2>6. /\ backend' \in [CardAssets -> [values : Values, outs : Changes]]
          /\ \A b \in CardAssets : b # a => backend'[b] = backend[b]
          /\ backend'[a] = has
      BY <2>b, <2>c DEF Has
    <2>7. backend'[a].values = v /\ backend'[a].outs = n
      BY <2>4, <2>6
    <2> QED BY <2>1, <2>2, <2>6, <2>7
  <1>4. CardsTyped'
    <2>1. NoSnapshot \in Snapshot \cup {NoSnapshot}
      OBVIOUS
    <2> QED BY <1>0, <1>3, <2>1 DEF CardsTyped
  <1>5. ValuesKnown'
    <2> SUFFICES ASSUME NEW b \in CardAssets, NEW k \in CardKeys
                 PROVE  latest[b].values[k] =
                          OverOuts(PendingIn(pending, b)[k], OverOuts(0, backend'[b].values[k]))
      BY <1>2, PendingRead DEF ValuesKnown, NoValues
    <2>1. latest[b].values[k] =
            OverOuts(PendingIn(pending, b)[k], OverOuts(HandValues(b)[k], backend[b].values[k]))
      BY <1>0, PendingRead DEF ValuesKnown
    <2>2. CASE b # a
      BY <1>2, <1>3, <2>1, <2>2 DEF NoValues
    <2>3. CASE b = a
      BY <1>2, <1>3, <2>1, <2>3 DEF OverOuts
    <2> QED BY <2>2, <2>3
  <1>6. OutsKnown'
    <2> SUFFICES ASSUME NEW b \in CardAssets
                 PROVE  latest[b].outs = OverOuts(pendingOuts[b], OverOuts(0, backend'[b].outs))
      BY <1>2 DEF OutsKnown
    <2> QED BY <1>0, <1>2, <1>3 DEF OutsKnown, OverOuts
  <1>7. CardsHeld'
    BY <1>0 DEF CardsHeld
  <1> QED BY <1>0, <1>4, <1>5, <1>6, <1>7 DEF CardsInv

\* The thread sleeps, wakes, or is done, and time passes: what is pending and in hand stays.
LEMMA CardsRest ==
  ASSUME CardsInv, UNCHANGED <<pending, pendingOuts, inHand, changes, latest, backend>>,
         (cardLoop \notin {"taken", "posting"} /\ cardLoop' \in {"asleep", "next"}) \/ cardLoop' = cardLoop,
         recent' \subseteq CardAssets, cardTokens' \in 0..CardBurst,
         idle' => idle \/ (pending = <<>> /\ cardLoop' \notin {"taken", "posting"})
  PROVE  CardsInv'
  <1>1. CardsTyped' /\ OnePerAsset(pending')
    BY DEF CardsInv, CardsTyped
  <1>2. ValuesKnown' /\ OutsKnown'
    <2>1. \A b : HandValues(b)' = HandValues(b) /\ HandOuts(b)' = HandOuts(b) /\ PendingOf(b)' = PendingOf(b)
      BY PendingRead DEF HandValues, HandOuts
    <2> QED BY <2>1 DEF CardsInv, ValuesKnown, OutsKnown
  <1>3. CardsHeld'
    BY DEF CardsInv, CardsHeld
  <1> QED BY <1>1, <1>2, <1>3 DEF CardsInv

\* Every step keeps what waits, what is in hand and what the backend has, together, the latest values.
LEMMA CardsStep == CardFlags /\ CardsInv /\ [CardsNext]_cardVars => CardsInv'
  <1> SUFFICES ASSUME CardFlags, CardsInv, [CardsNext]_cardVars
               PROVE  CardsInv'
    OBVIOUS
  <1>0. /\ CardsTyped /\ CardsHeld /\ \A a : PendingOf(a) \in Values /\ NoValues \in Values /\ 0 \in Changes
        /\ CardBurst \in Nat /\ recent \subseteq CardAssets /\ cardTokens \in 0..CardBurst
    BY CardsTypes, CardValuesAssumption DEF CardsInv, CardsTyped
  <1>1. ASSUME NEW a \in CardAssets, NEW k \in CardKeys, ChangeValue(a, k)
        PROVE  CardsInv'
    <2>1. changes + 1 \in Changes
      BY <1>0, <1>1, CardValuesAssumption DEF ChangeValue, CardsTyped, Changes
    <2>2. [NoValues EXCEPT ![k] = changes + 1] \in Values
      BY <1>0, <2>1 DEF Values
    <2> DEFINE x == Taken(a, Over([NoValues EXCEPT ![k] = changes + 1], PendingOf(a)))
    <2>3. x \in Snapshot /\ x.asset = a /\ x.outs = 0
      BY <1>0, <2>2, OverFacts DEF Taken, Snapshot
    <2>4. x.values = Over([NoValues EXCEPT ![k] = changes + 1], PendingOf(a))
      BY DEF Taken
    <2>5. pending' = Append(Others(a), x)
      BY <1>1 DEF ChangeValue
    <2> HIDE DEF x
    <2> QED BY <1>1, <2>3, <2>4, <2>5, ChangeKept DEF ChangeValue
  <1>2. ASSUME NEW a \in CardAssets, ChangeOutputs(a)
        PROVE  CardsInv'
    <2> DEFINE x == Taken(a, PendingOf(a))
    <2>1. x \in Snapshot /\ x.asset = a /\ x.outs = 0 /\ x.values = PendingOf(a)
      BY <1>0 DEF Taken, Snapshot
    <2>2. pending' = Append(Others(a), x)
      BY <1>2 DEF ChangeOutputs
    <2> HIDE DEF x
    <2> QED BY <1>2, <2>1, <2>2, ChangeKept DEF ChangeOutputs
  <1>3. CASE WakeCards
    BY <1>0, <1>3, CardsRest DEF WakeCards
  <1>4. CASE NextSnapshot
    <2>1. CASE uploaderStopped \/ pending = <<>>
      <3>1. /\ UNCHANGED <<pending, pendingOuts, inHand, changes, latest, backend, recent, cardTokens>>
            /\ cardLoop = "next" /\ cardLoop' = "asleep"
        BY <1>4, <2>1 DEF NextSnapshot
      <3>2. idle' => idle \/ pending = <<>>
        BY <1>4, <2>1, Zenon DEF NextSnapshot
      <3> QED BY <1>0, <3>1, <3>2, CardsRest
    <2>2. CASE ~(uploaderStopped \/ pending = <<>>)
      <3> DEFINE due == {i \in DOMAIN pending : pending[i].asset \notin recent}
      <3>1. /\ due # {} /\ cardLoop = "next" /\ cardLoop' = "taken" /\ idle' = idle
            /\ LET i == CHOOSE i \in due : \A j \in due : i <= j IN
                 inHand' = pending[i] /\ pending' = RemoveAt(pending, i)
            /\ UNCHANGED <<pendingOuts, recent, cardTokens, changes, latest, backend>>
        BY <1>4, <2>2 DEF NextSnapshot
      <3>2. due \subseteq DOMAIN pending /\ due \subseteq Nat
        BY <1>0 DEF CardsTyped
      <3> HIDE DEF due
      <3>3. \E i \in due : \A j \in due : i <= j
        BY <3>1, <3>2, Smallest
      <3>4. PICK i \in due : inHand' = pending[i] /\ pending' = RemoveAt(pending, i)
        BY <3>1, <3>3
      <3>5. i \in DOMAIN pending /\ ~idle'
        BY <1>0, <2>2, <3>1, <3>2 DEF CardsHeld
      <3> QED BY <3>1, <3>4, <3>5, SnapshotTaken
    <2> QED BY <2>1, <2>2
  <1>5. CASE Claim
    <2>1. CASE cardTokens > 0
      <3>1. cardTokens' \in 0..CardBurst
        BY <1>0, <1>5, <2>1 DEF Claim
      <3> QED BY <1>5, <2>1, <3>1, LevelsClaimed DEF Claim
    <2>2. CASE ~(cardTokens > 0)
      <3> DEFINE s == [inHand EXCEPT !.outs = pendingOuts[inHand.asset]]
      <3>1. /\ cardLoop = "taken" /\ PutBack(s) /\ cardLoop' = "next" /\ inHand' = NoSnapshot
            /\ UNCHANGED <<recent, idle, cardTokens, changes, latest, backend>>
        BY <1>5, <2>2 DEF Claim
      <3>2. inHand \in Snapshot /\ inHand.outs = 0 /\ ~idle
        BY <1>0, <3>1 DEF CardsHeld
      <3>3. /\ s \in Snapshot /\ s.asset = inHand.asset /\ s.values = inHand.values
            /\ s.outs = pendingOuts[inHand.asset]
        BY <1>0, <3>2 DEF Snapshot, CardsTyped
      <3> HIDE DEF s
      <3> QED BY <1>0, <3>1, <3>2, <3>3, HandBack
    <2> QED BY <2>1, <2>2
  <1>6. ASSUME NEW lands \in BOOLEAN, NEW ok \in BOOLEAN, PostSnapshot(lands, ok)
        PROVE  CardsInv'
    <2>1. /\ cardLoop = "posting" /\ inHand \in Snapshot /\ inHand' = NoSnapshot /\ cardLoop' = "next"
          /\ recent' = recent \cup {inHand.asset} /\ UNCHANGED <<cardTokens, changes, latest>>
          /\ backend' = backend \/
               backend' = [backend EXCEPT ![inHand.asset] = [values |-> Over(inHand.values, @.values),
                                                             outs |-> OverOuts(inHand.outs, @.outs)]]
      BY <1>0, <1>6 DEF PostSnapshot, CardsHeld
    <2>2. recent' \subseteq CardAssets
      BY <1>0, <2>1 DEF Snapshot
    <2>3. CASE ok
      <3>1. /\ UNCHANGED <<pending, pendingOuts, idle>>
            /\ backend' = [backend EXCEPT ![inHand.asset] = [values |-> Over(inHand.values, @.values),
                                                             outs |-> OverOuts(inHand.outs, @.outs)]]
        BY <1>6, <2>3 DEF PostSnapshot
      <3> QED BY <2>1, <2>2, <3>1, PostAnswered
    <2>4. CASE ~ok
      <3>1. PutBack(inHand)
        BY <1>6, <2>4 DEF PostSnapshot
      <3>2. ~idle'
        BY <1>6, <2>4, Zenon DEF PostSnapshot
      <3> QED BY <1>0, <2>1, <2>2, <3>1, <3>2, HandBack
    <2> QED BY <2>3, <2>4
  <1>7. ASSUME NEW a \in CardAssets, IntervalOver(a)
        PROVE  CardsInv'
    BY <1>0, <1>7, CardsRest DEF IntervalOver
  <1>8. CASE CardTokenBack
    <2>1. cardTokens' \in 0..CardBurst
      BY <1>0, <1>8 DEF CardTokenBack
    <2> QED BY <1>0, <1>8, <2>1, CardsRest DEF CardTokenBack
  <1>9. CASE StopCards
    BY <1>0, <1>9, CardsRest DEF StopCards
  <1>10. CASE UNCHANGED cardVars
    BY <1>0, <1>10, CardsRest DEF cardVars
  <1> QED BY <1>1, <1>2, <1>3, <1>4, <1>5, <1>6, <1>7, <1>8, <1>9, <1>10 DEF CardsNext

\* What is nowhere pending or in hand is with the backend.
LEMMA IdleKnown == CardsInv => IdleIsSent
  <1> SUFFICES ASSUME CardsInv, idle
               PROVE  backend = latest
    BY DEF IdleIsSent
  <1>0. /\ CardsTyped /\ ValuesKnown /\ OutsKnown /\ CardsHeld /\ pending = <<>> /\ inHand = NoSnapshot
        /\ cardLoop \notin {"taken", "posting"}
    BY DEF CardsInv, CardsHeld
  <1>1. Range(pending) = {}
    BY <1>0 DEF Range
  <1>2. \A a \in CardAssets : pendingOuts[a] = 0
    BY <1>0, <1>1 DEF CardsHeld
  <1>3. \A a : PendingOf(a) = NoValues /\ HandValues(a) = NoValues /\ HandOuts(a) = 0
    BY <1>0 DEF PendingOf, HandValues, HandOuts, NoSnapshot
  <1>4. ASSUME NEW a \in CardAssets
        PROVE  backend[a] = latest[a]
    <2>1. latest[a] \in [values : Values, outs : Changes] /\ backend[a] \in [values : Values, outs : Changes]
      BY <1>0 DEF CardsTyped
    <2>2. \A k \in CardKeys : latest[a].values[k] = backend[a].values[k]
      BY <1>0, <1>3 DEF ValuesKnown, OverOuts, NoValues
    <2>3. latest[a].values = backend[a].values
      BY <2>1, <2>2 DEF Values
    <2>4. latest[a].outs = backend[a].outs
      BY <1>0, <1>2, <1>3 DEF OutsKnown, OverOuts
    <2> QED BY <2>1, <2>3, <2>4
  <1> QED BY <1>0, <1>4 DEF CardsTyped

\* The latest value of a card is what the backend has, with what is in hand and then what waits over it, so
\* that a flush that says all is sent is right (blocks/cloud.py: _VariableUploader).
THEOREM CardsArrive == CardsSpec => [](CardsTypeOK /\ IdleIsSent)
  <1> DEFINE I == CardFlags /\ CardsInv
  <1>1. CardsInit => I
    <2>1. CardsInit => CardFlags
      BY Zenon DEF CardsInit, CardFlags
    <2>2. CardsInit => CardsInv
      <3> SUFFICES ASSUME CardsInit
                   PROVE  CardsInv
        OBVIOUS
      <3>1. 0 \in Changes /\ NoValues \in Values /\ CardBurst \in 0..CardBurst
        BY CardValuesAssumption DEF Changes, NoValues, Values
      <3>2. CardsTyped /\ OnePerAsset(pending)
        BY <3>1 DEF CardsInit, CardsTyped, NothingYet, OnePerAsset
      <3>3. \A a : PendingOf(a) = NoValues /\ HandValues(a) = NoValues /\ HandOuts(a) = 0
        BY DEF CardsInit, PendingOf, HandValues, HandOuts, NoSnapshot
      <3>4. ValuesKnown /\ OutsKnown
        BY <3>3 DEF CardsInit, NothingYet, ValuesKnown, OutsKnown, NoValues, OverOuts
      <3>5. CardsHeld
        BY DEF CardsInit, CardsHeld, Range
      <3> QED BY <3>2, <3>4, <3>5 DEF CardsInv
    <2> QED BY <2>1, <2>2
  <1>2. I /\ [CardsNext]_cardVars => I'
    BY CardFlagsStep, CardsStep
  <1>3. I => CardsTypeOK /\ IdleIsSent
    <2>1. CardFlags => {idle, uploaderStopped} \subseteq BOOLEAN
      BY Zenon DEF CardFlags
    <2>2. CardsInv => {latest, backend} \subseteq [CardAssets -> [values : Values, outs : Changes]]
      BY DEF CardsInv, CardsTyped
    <2> QED BY <2>1, <2>2, IdleKnown DEF CardsInv, CardsTyped, CardsTypeOK, OnePerAsset
  <1> QED BY <1>1, <1>2, <1>3, PTL DEF CardsSpec

-----------------------------------------------------------------------------
(* What is stored, and its uploader. *)

\* B[r] are those of S that come before r: an order of all of S.
Orders(S, B) ==
  /\ B \in [S -> SUBSET S]
  /\ \A r \in S : r \notin B[r]
  /\ \A r, s \in S : r # s => r \in B[s] \/ s \in B[r]
  /\ \A r, s \in S : s \in B[r] => B[s] \subseteq B[r]

\* Those before one are fewer than those before a later one, so that each number below the size of S is the
\* place of exactly one.
LEMMA Places ==
  ASSUME NEW S, IsFiniteSet(S), NEW B, Orders(S, B)
  PROVE  /\ Cardinality(S) \in Nat
         /\ \A r \in S : Cardinality(B[r]) \in 0..(Cardinality(S) - 1)
         /\ [r \in S |-> Cardinality(B[r])] \in Bijection(S, 0..(Cardinality(S) - 1))
         /\ \A r, s \in S : s \in B[r] => Cardinality(B[s]) < Cardinality(B[r])
  <1> DEFINE f == [r \in S |-> Cardinality(B[r])]
             T == 0..(Cardinality(S) - 1)
  <1>1. Cardinality(S) \in Nat
    BY FS_CardinalityType
  <1>2. \A r \in S : IsFiniteSet(B[r]) /\ Cardinality(B[r]) \in Nat
    <2> TAKE r \in S
    <2>1. B[r] \in SUBSET S
      BY DEF Orders
    <2> QED BY <2>1, FS_Subset, FS_CardinalityType
  <1>3. ASSUME NEW r \in S
        PROVE  Cardinality(B[r]) \in T
    <2>1. B[r] \in SUBSET S /\ S # B[r]
      BY DEF Orders
    <2>2. Cardinality(B[r]) <= Cardinality(S) /\ Cardinality(S) # Cardinality(B[r])
      BY <2>1, FS_Subset
    <2> QED BY <1>1, <1>2, <2>2
  <1>4. ASSUME NEW r \in S, NEW s \in S, s \in B[r]
        PROVE  Cardinality(B[s]) < Cardinality(B[r])
    <2>1. B[s] \in SUBSET B[r] /\ B[r] # B[s]
      BY <1>4 DEF Orders
    <2>2. IsFiniteSet(B[r])
      BY <1>2
    <2>3. Cardinality(B[s]) <= Cardinality(B[r]) /\ Cardinality(B[r]) # Cardinality(B[s])
      BY <2>1, <2>2, FS_Subset
    <2> QED BY <1>2, <2>3
  <1>5. f \in Injection(S, T)
    <2>1. f \in [S -> T]
      BY <1>3
    <2>2. ASSUME NEW r \in S, NEW s \in S, f[r] = f[s]
          PROVE  r = s
      <3>1. SUFFICES ASSUME r # s
                     PROVE  FALSE
        OBVIOUS
      <3>2. r \in B[s] \/ s \in B[r]
        BY <3>1 DEF Orders
      <3>3. Cardinality(B[r]) < Cardinality(B[s]) \/ Cardinality(B[s]) < Cardinality(B[r])
        BY <1>4, <3>2
      <3> QED BY <1>2, <2>2, <3>3
    <2> QED BY <2>1, <2>2 DEF Injection, IsInjective
  <1>6. IsFiniteSet(T) /\ Cardinality(T) = Cardinality(S)
    <2>1. IsFiniteSet(0..(Cardinality(S) - 1))
          /\ Cardinality(0..(Cardinality(S) - 1)) =
               IF 0 > Cardinality(S) - 1 THEN 0 ELSE Cardinality(S) - 1 - 0 + 1
      BY <1>1, FS_Interval
    <2> QED BY <1>1, <2>1
  <1> HIDE DEF f, T
  <1>7. f \in Surjection(S, T)
    BY <1>5, <1>6, FS_Injection
  <1>8. f \in Bijection(S, T)
    BY <1>5, <1>7 DEF Bijection
  <1> QED BY <1>1, <1>3, <1>4, <1>8 DEF f, T

Foremost(S, B, n) == {r \in S : Cardinality(B[r]) < n}
Hindmost(S, B, n) == {r \in S : Cardinality(B[r]) >= n}

\* So n of them have fewer than n before them, and the others have n or more.
LEMMA FirstOnes ==
  ASSUME NEW S, IsFiniteSet(S), NEW B, Orders(S, B), NEW n \in 0..Cardinality(S)
  PROVE  Cardinality(Foremost(S, B, n)) = n /\ Cardinality(Hindmost(S, B, n)) = Cardinality(S) - n
  <1> USE DEF Foremost, Hindmost
  <1> DEFINE first == Foremost(S, B, n)
             others == Hindmost(S, B, n)
             f == [r \in S |-> Cardinality(B[r])]
             g == [r \in first |-> Cardinality(B[r])]
  <1>1. /\ Cardinality(S) \in Nat /\ \A r \in S : Cardinality(B[r]) \in 0..(Cardinality(S) - 1)
        /\ f \in Bijection(S, 0..(Cardinality(S) - 1))
    BY Places
  <1>2. g \in Bijection(first, 0..(n - 1))
    <2>1. g \in [first -> 0..(n - 1)]
      BY <1>1
    <2>2. \A r, s \in first : g[r] = g[s] => r = s
      BY <1>1 DEF Bijection, Injection, IsInjective
    <2>3. ASSUME NEW k \in 0..(n - 1)
          PROVE  \E r \in first : g[r] = k
      <3>1. k \in 0..(Cardinality(S) - 1)
        BY <1>1
      <3>2. PICK r \in S : f[r] = k
        BY <1>1, <3>1 DEF Bijection, Surjection
      <3> QED BY <3>2
    <2> HIDE DEF g, first
    <2>4. DOMAIN g = first
      BY <2>1
    <2> QED BY <2>1, <2>2, <2>3, <2>4 DEF Bijection, Injection, Surjection, IsInjective
  <1> HIDE DEF f, g
  <1>3. first \in SUBSET S /\ others = S \ first /\ first \cap others = {} /\ S = first \cup others
    BY <1>1
  <1> HIDE DEF first, others, Foremost, Hindmost
  <1>4. IsFiniteSet(first) /\ IsFiniteSet(others) /\ Cardinality(first) \in Nat /\ Cardinality(others) \in Nat
    <2>1. others \in SUBSET S
      BY <1>3
    <2> QED BY <1>3, <2>1, FS_Subset, FS_CardinalityType
  <1>5. Cardinality(0..(n - 1)) = n
    <2>1. Cardinality(0..(n - 1)) = IF 0 > n - 1 THEN 0 ELSE n - 1 - 0 + 1
      BY FS_Interval
    <2> QED BY <2>1
  <1>6. Cardinality(first) = n
    BY <1>2, <1>4, <1>5, FS_Bijection DEF ExistsBijection
  <1>7. Cardinality(S) = Cardinality(first) + Cardinality(others) - Cardinality({})
    BY <1>3, <1>4, FS_Union
  <1> QED BY <1>1, <1>4, <1>6, <1>7, FS_EmptySet DEF first, others

-----------------------------------------------------------------------------
(* Pruning. *)

\* Rows of which no two have the same seq, nor the same reading.
RowsApart(rows) ==
  /\ rows \subseteq Row /\ IsFiniteSet(rows)
  /\ \A r, s \in rows : r.seq = s.seq \/ r.reading = s.reading => r = s

\* The order in which rows go, and that in which they are fetched.
Goers(rows) == [r \in rows |-> {s \in rows : GoesBefore(s, r)}]
Fetchers(rows) == [r \in rows |-> {s \in rows : FetchedBefore(s, r)}]

\* Both orders are orders of all rows.
LEMMA RowsInOrder ==
  ASSUME NEW rows, RowsApart(rows)
  PROVE  Orders(rows, Goers(rows)) /\ Orders(rows, Fetchers(rows))
  <1>1. \A r \in rows : r.seq \in Int
    BY DEF RowsApart, Row, Readings
  <1>2. \A r, s \in rows : r.seq < s.seq \/ s.seq < r.seq \/ r = s
    BY <1>1 DEF RowsApart
  <1>3. \A r \in rows : ~(r.seq < r.seq)
    BY <1>1
  <1>4. \A r, s, t \in rows : r.seq < s.seq /\ s.seq < t.seq => r.seq < t.seq
    BY <1>1
  <1>5. Orders(rows, Goers(rows))
    <2>1. \A r \in rows : ~GoesBefore(r, r)
      BY <1>3, Zenon DEF GoesBefore
    <2>2. \A r, s \in rows : r # s => GoesBefore(r, s) \/ GoesBefore(s, r)
      BY <1>2, Zenon DEF GoesBefore
    <2>3. \A r, s, t \in rows : GoesBefore(r, s) /\ GoesBefore(s, t) => GoesBefore(r, t)
      BY <1>4, Zenon DEF GoesBefore
    <2>4. Goers(rows) \in [rows -> SUBSET rows] /\ \A r, s \in rows : s \in Goers(rows)[r] <=> GoesBefore(s, r)
      BY DEF Goers
    <2> QED BY <2>1, <2>2, <2>3, <2>4 DEF Orders
  <1>6. Orders(rows, Fetchers(rows))
    <2>1. \A r \in rows : ~FetchedBefore(r, r)
      BY <1>3, Zenon DEF FetchedBefore
    <2>2. \A r, s \in rows : r # s => FetchedBefore(r, s) \/ FetchedBefore(s, r)
      BY <1>2, Zenon DEF FetchedBefore
    <2>3. \A r, s, t \in rows : FetchedBefore(r, s) /\ FetchedBefore(s, t) => FetchedBefore(r, t)
      BY <1>4, Zenon DEF FetchedBefore
    <2>4. /\ Fetchers(rows) \in [rows -> SUBSET rows]
          /\ \A r, s \in rows : s \in Fetchers(rows)[r] <=> FetchedBefore(s, r)
      BY DEF Fetchers
    <2> QED BY <2>1, <2>2, <2>3, <2>4 DEF Orders
  <1> QED BY <1>5, <1>6

\* The sent ones go first, and as many as are asked.
LEMMA DropFacts ==
  ASSUME NEW rows, RowsApart(rows), NEW n
  PROVE  /\ DropFirst(rows, n) \in SUBSET rows /\ RowsApart(DropFirst(rows, n))
         /\ n \in 0..Cardinality(rows) => Cardinality(DropFirst(rows, n)) = Cardinality(rows) - n
         /\ n \in Nat /\ (\E r \in rows \ DropFirst(rows, n) : ~r.sent) => \A k \in DropFirst(rows, n) : ~k.sent
  <1> DEFINE B == Goers(rows)
  <1>1. Orders(rows, B) /\ IsFiniteSet(rows)
    BY RowsInOrder DEF RowsApart
  <1>2. \A r \in rows : B[r] = {s \in rows : GoesBefore(s, r)}
    BY DEF Goers
  <1>3. DropFirst(rows, n) = Hindmost(rows, B, n)
    BY <1>2 DEF DropFirst, Hindmost
  <1> HIDE DEF B
  <1>4. DropFirst(rows, n) \in SUBSET rows
    BY <1>3 DEF Hindmost
  <1>5. RowsApart(DropFirst(rows, n))
    <2>1. IsFiniteSet(DropFirst(rows, n))
      BY <1>1, <1>4, FS_Subset
    <2> QED BY <1>4, <2>1 DEF RowsApart
  <1>6. n \in 0..Cardinality(rows) => Cardinality(DropFirst(rows, n)) = Cardinality(rows) - n
    BY <1>1, <1>3, FirstOnes
  <1>7. ASSUME n \in Nat, NEW r \in rows \ DropFirst(rows, n), ~r.sent, NEW k \in DropFirst(rows, n)
        PROVE  ~k.sent
    <2>1. SUFFICES ASSUME k.sent
                   PROVE  FALSE
      OBVIOUS
    <2>2. k \in rows /\ GoesBefore(k, r)
      BY <1>4, <1>7, <2>1, Zenon DEF GoesBefore
    <2>3. k \in B[r]
      BY <1>2, <2>2
    <2>4. /\ Cardinality(B[k]) < Cardinality(B[r]) /\ Cardinality(B[k]) \in 0..(Cardinality(rows) - 1)
          /\ Cardinality(B[r]) \in 0..(Cardinality(rows) - 1) /\ Cardinality(rows) \in Nat
      BY <1>1, <1>4, <2>3, Places
    <2>5. Cardinality(B[k]) >= n /\ ~(Cardinality(B[r]) >= n)
      BY <1>3, <1>4, <1>7 DEF Hindmost
    <2> QED BY <1>7, <2>4, <2>5
  <1> QED BY <1>4, <1>5, <1>6, <1>7

\* A batch is of the unsent rows, and no larger than asked.
LEMMA FetchFacts ==
  ASSUME NEW rows, RowsApart(rows), NEW n \in 0..Cardinality(rows)
  PROVE  FirstFetched(rows, n) \in SUBSET rows /\ Cardinality(FirstFetched(rows, n)) = n
  <1> DEFINE B == Fetchers(rows)
  <1>1. Orders(rows, B) /\ IsFiniteSet(rows)
    BY RowsInOrder DEF RowsApart
  <1>2. \A r \in rows : B[r] = {s \in rows : FetchedBefore(s, r)}
    BY DEF Fetchers
  <1>3. FirstFetched(rows, n) = Foremost(rows, B, n)
    BY <1>2 DEF FirstFetched, Foremost
  <1> HIDE DEF B
  <1>4. Cardinality(Foremost(rows, B, n)) = n
    BY <1>1, FirstOnes
  <1> QED BY <1>3, <1>4 DEF Foremost

\* What pruning leaves: no more than the table may hold; what goes unsent is told as an overflow, and goes only
\* when no sent one is left.
LEMMA PrunedFacts ==
  ASSUME NEW rows, RowsApart(rows), NEW room
  PROVE  LET left == Pruned(rows, room)
         IN  /\ left \in SUBSET rows /\ RowsApart(left) /\ Cardinality(left) <= MaxRows
             /\ Unsent(left) # Unsent(rows) => Overflows(rows, room) /\ Unsent(left) = left
  <1> DEFINE e == Expired(rows)
             o == OverRows(e)
             l == OverFile(o, room)
  <1>1. e \in SUBSET rows /\ Unsent(e) = Unsent(rows)
    BY DEF Expired, Unsent
  <1>2. RowsApart(e)
    <2>1. IsFiniteSet(e)
      BY <1>1, FS_Subset DEF RowsApart
    <2> QED BY <1>1, <2>1 DEF RowsApart
  <1>3. Cardinality(e) \in Nat /\ MaxRows \in Nat
    BY <1>2, FS_CardinalityType, TelemetryStoreAssumption DEF RowsApart
  <1> HIDE DEF e
  <1>4. /\ o \in SUBSET e /\ RowsApart(o) /\ Cardinality(o) <= MaxRows
        /\ Unsent(o) # Unsent(e) => Cardinality(e) > MaxRows /\ Unsent(o) = o
    <2>1. CASE Cardinality(e) > MaxRows
      <3> DEFINE n == Cardinality(e) - MaxRows
      <3>1. n \in 0..Cardinality(e) /\ n \in Nat /\ Cardinality(e) - n = MaxRows
        BY <1>3, <2>1
      <3>2. o = DropFirst(e, n)
        BY <2>1 DEF OverRows
      <3> HIDE DEF n, o
      <3>3. o \in SUBSET e /\ RowsApart(o) /\ Cardinality(o) = MaxRows
        BY <1>2, <3>1, <3>2, DropFacts
      <3>4. (\E r \in e \ o : ~r.sent) => \A k \in o : ~k.sent
        BY <1>2, <3>1, <3>2, DropFacts
      <3>5. Unsent(o) # Unsent(e) => Unsent(o) = o
        BY <3>3, <3>4 DEF Unsent
      <3> QED BY <1>3, <2>1, <3>3, <3>5
    <2>2. CASE ~(Cardinality(e) > MaxRows)
      BY <1>2, <1>3, <2>2 DEF OverRows
    <2> QED BY <2>1, <2>2
  <1> HIDE DEF o
  <1>5. /\ l \in SUBSET o /\ RowsApart(l)
        /\ Unsent(l) # Unsent(o) => room > FileRows /\ Unsent(l) = l
    <2>1. CASE room > FileRows
      <3>1. PICK n \in Nat : l = DropFirst(o, n)
        <4>1. Cardinality(o) \in Nat
          BY <1>4, FS_CardinalityType DEF RowsApart
        <4> DEFINE m == IF Cardinality(o) > 10 THEN Cardinality(o) \div 10 ELSE 1
        <4>2. m \in Nat
          BY <4>1
        <4>3. l = DropFirst(o, m)
          BY <2>1 DEF OverFile
        <4> HIDE DEF m
        <4> QED BY <4>2, <4>3
      <3> HIDE DEF l
      <3>2. l \in SUBSET o /\ RowsApart(l)
        BY <1>4, <3>1, DropFacts
      <3>3. (\E r \in o \ l : ~r.sent) => \A k \in l : ~k.sent
        BY <1>4, <3>1, DropFacts
      <3> QED BY <2>1, <3>2, <3>3 DEF Unsent
    <2>2. CASE ~(room > FileRows)
      BY <1>4, <2>2 DEF OverFile
    <2> QED BY <2>1, <2>2
  <1>6. l = Pruned(rows, room)
    BY DEF Pruned, e, o
  <1> HIDE DEF l
  <1>7. Cardinality(l) <= MaxRows
    <2>1. Cardinality(l) <= Cardinality(o) /\ Cardinality(l) \in Nat /\ Cardinality(o) \in Nat
      BY <1>4, <1>5, FS_Subset, FS_CardinalityType DEF RowsApart
    <2> QED BY <1>3, <1>4, <2>1
  <1>8. Unsent(l) # Unsent(rows) => Overflows(rows, room) /\ Unsent(l) = l
    <2>1. CASE Unsent(l) # Unsent(o)
      BY <1>5, <2>1 DEF Overflows
    <2>2. CASE Unsent(l) = Unsent(o) /\ Unsent(o) # Unsent(e)
      <3>1. Unsent(o) = o /\ Cardinality(e) > MaxRows
        BY <1>4, <2>2
      <3>2. Unsent(l) = l
        BY <1>5, <3>1 DEF Unsent
      <3> QED BY <3>1, <3>2 DEF Overflows, e
    <2>3. CASE Unsent(l) = Unsent(o) /\ Unsent(o) = Unsent(e)
      BY <1>1, <2>3
    <2> QED BY <2>1, <2>2, <2>3
  <1> QED BY <1>1, <1>4, <1>5, <1>6, <1>7, <1>8

\* The rows after a change and the pruning that follows: each unsent one is there, or told as dropped.
LEMMA KeepFacts ==
  ASSUME NEW rows, RowsApart(rows), NEW next, NEW told \in History,
         Keep(rows, next, told), table.room \in Nat, overflowed \in BOOLEAN
  PROVE  /\ table' = [rows |-> table'.rows, next |-> next, room |-> table'.room]
         /\ table'.rows \in SUBSET rows /\ RowsApart(table'.rows) /\ Cardinality(table'.rows) <= MaxRows
         /\ table'.next = next /\ table'.room \in Nat /\ overflowed' \in BOOLEAN
         /\ kept' \in History /\ kept'.sampled = told.sampled /\ kept'.arrived = told.arrived
         /\ kept'.twice = told.twice /\ kept'.unmarked = told.unmarked
         /\ kept'.cut = told.cut /\ kept'.unpruned = told.unpruned
         /\ told.told \subseteq kept'.told
         /\ Of(Unsent(rows)) \subseteq Of(Unsent(table'.rows)) \cup kept'.told
         /\ kept'.dropped # told.dropped => Unsent(table'.rows) = table'.rows
  <1>1. PICK room : room = Larger(table.room, Cardinality(rows))
    OBVIOUS
  <1>2. PICK left : left = Pruned(rows, room)
    OBVIOUS
  <1>3. PICK lost : lost = Of(Unsent(rows)) \ Of(left)
    OBVIOUS
  <1>4. /\ table' = [rows |-> left, next |-> next, room |-> room]
        /\ overflowed' = (overflowed \/ Overflows(rows, room))
        /\ kept' = [told EXCEPT !.dropped = @ \cup lost, !.told = IF overflowed' THEN @ \cup lost ELSE @]
    BY <1>1, <1>2, <1>3, Zenon DEF Keep
  <1>5. /\ left \in SUBSET rows /\ RowsApart(left) /\ Cardinality(left) <= MaxRows
        /\ Unsent(left) # Unsent(rows) => Overflows(rows, room) /\ Unsent(left) = left
    BY <1>2, PrunedFacts
  <1>6. room \in Nat
    <2>1. Cardinality(rows) \in Nat
      BY FS_CardinalityType DEF RowsApart
    <2> QED BY <1>1, <2>1 DEF Larger
  <1>7. lost \in SUBSET Readings
    BY <1>3 DEF RowsApart, Of, Unsent, Row
  <1>8. lost # {} => overflowed' /\ Unsent(left) = left
    <2> SUFFICES ASSUME lost # {}
                 PROVE  Unsent(left) # Unsent(rows)
      BY <1>4, <1>5, Zenon
    <2>1. PICK r \in Unsent(rows) : r.reading \notin Of(left)
      BY <1>3 DEF Of
    <2>2. r \notin Unsent(left)
      BY <2>1 DEF Of, Unsent
    <2> QED BY <2>1, <2>2
  <1>9. kept' = [told EXCEPT !.dropped = @ \cup lost, !.told = @ \cup lost]
        \/ (lost = {} /\ kept' = [told EXCEPT !.dropped = @ \cup lost, !.told = @])
    <2>1. CASE overflowed'
      BY <1>4, <2>1, Zenon
    <2>2. CASE ~overflowed'
      BY <1>4, <1>8, <2>2, Zenon
    <2> QED BY <2>1, <2>2, Zenon
  <1>10. /\ kept' \in History /\ kept'.sampled = told.sampled /\ kept'.arrived = told.arrived
         /\ kept'.twice = told.twice /\ kept'.unmarked = told.unmarked
         /\ kept'.cut = told.cut /\ kept'.unpruned = told.unpruned
         /\ kept'.dropped = told.dropped \cup lost /\ kept'.told = told.told \cup lost
    BY <1>7, <1>9 DEF History
  <1>11. overflowed' \in BOOLEAN
    BY <1>4, Zenon
  <1>12. Of(Unsent(rows)) \subseteq Of(Unsent(left)) \cup lost
    <2> SUFFICES ASSUME NEW r \in Unsent(rows), r.reading \in Of(left)
                 PROVE  r.reading \in Of(Unsent(left))
      BY <1>3 DEF Of
    <2>1. PICK k \in left : k.reading = r.reading
      BY DEF Of
    <2>2. k = r
      BY <1>5, <2>1 DEF RowsApart, Unsent
    <2> QED BY <2>1, <2>2 DEF Of, Unsent
  <1>13. kept'.dropped # told.dropped => Unsent(left) = left
    BY <1>8, <1>10
  <1> QED BY <1>4, <1>5, <1>6, <1>10, <1>11, <1>12, <1>13

-----------------------------------------------------------------------------
(* The invariant of the store. *)

StoreFlags == uploaded \in BOOLEAN /\ running \in BOOLEAN

\* A table: its rows are of readings sampled, and one marked as sent has arrived.
TableKnown(t) ==
  /\ t = [rows |-> t.rows, next |-> t.next, room |-> t.room]
  /\ RowsApart(t.rows) /\ Cardinality(t.rows) <= MaxRows + kept.unpruned
  /\ t.next \in 1..(kept.sampled + 1) /\ t.room \in Nat
  /\ \A r \in t.rows : r.seq < t.next /\ r.reading <= kept.sampled /\ (r.sent => r.reading \in kept.arrived)

\* A batch: a row of its seq in the table is of its reading, and one answered for has arrived.
BatchKnown ==
  /\ batch \subseteq Row /\ IsFiniteSet(batch) /\ Cardinality(batch) <= BatchRows
  /\ \A b \in batch : b.seq < table.next /\ b.reading <= kept.sampled
  /\ \A b \in batch, r \in table.rows : b.seq = r.seq <=> b.reading = r.reading
  /\ uploading # "posting" => batch = {} /\ answer = "none"
  /\ answer = "ok" => Of(batch) \subseteq kept.arrived

StoreTyped ==
  /\ aged \in 0..MaxReadings /\ overflowed \in BOOLEAN /\ downs \in 0..MaxDowns
  /\ answer \in {"none", "ok", "failed"} /\ uploading \in {"asleep", "draining", "posting"}
  /\ kept \in History

\* What has arrived and is still unsent, here or in a batch, arrived unmarked, or its mark is yet to come.
ArrivalsKnown ==
  /\ TwiceUnmarked /\ kept.arrived \subseteq 1..kept.sampled
  /\ kept.arrived \cap (Of(Unsent(table.rows)) \cup Of(batch)) \subseteq
       kept.unmarked \cup (IF answer = "ok" THEN Of(batch) ELSE {})

StoreInv ==
  StoreTyped /\ TableKnown(table) /\ TableKnown(synced) /\ BatchKnown /\ ArrivalsKnown /\ NothingLostQuietly

\* The table starts empty.
LEMMA StoreStarts == StoreInit => StoreFlags /\ StoreInv
  <1> SUFFICES ASSUME StoreInit
               PROVE  StoreFlags /\ StoreInv
    OBVIOUS
  <1>1. StoreFlags
    BY Zenon DEF StoreInit, StoreFlags
  <1>2. kept \in History /\ kept.sampled = 0 /\ kept.arrived = {} /\ kept.twice = {} /\ kept.unpruned = 0
    BY TelemetryStoreAssumption DEF StoreInit, History
  <1>3. StoreTyped
    <2>1. overflowed \in BOOLEAN
      BY Zenon DEF StoreInit
    <2> QED BY <1>2, <2>1, TelemetryStoreAssumption DEF StoreInit, StoreTyped
  <1>4. TableKnown(EmptyTable)
    BY <1>2, FS_EmptySet, TelemetryStoreAssumption DEF EmptyTable, TableKnown, RowsApart
  <1>5. BatchKnown /\ ArrivalsKnown /\ NothingLostQuietly
    BY <1>2, FS_EmptySet, TelemetryStoreAssumption
    DEF StoreInit, BatchKnown, ArrivalsKnown, TwiceUnmarked, NothingLostQuietly, Of, Unsent, EmptyTable
  <1> QED BY <1>1, <1>3, <1>4, <1>5 DEF StoreInv, StoreInit

\* No unsent row is dropped, or none is left but unsent ones.
DropsInOrder == kept'.dropped # kept.dropped => Unsent(table'.rows) = table'.rows

\* Every step leaves the flags Boolean.
LEMMA StoreFlagsStep == StoreFlags /\ [StoreNext]_storeVars => StoreFlags'
  BY Zenon DEF StoreFlags, StoreNext, Sample, SampleNotKept, SampleNotPruned, WakeUploader, FetchBatch, PostBatch, UploadFailed,
               MarkSent, MarkFails, StopUploader, Ages, Checkpoint, Restart, storeVars

\* The row of a reading that is sampled is one more in the table.
LEMMA AppendedFacts ==
  ASSUME StoreInv, kept.sampled < MaxReadings, NEW n, n = kept.sampled + 1
  PROVE  /\ n \in 1..MaxReadings /\ kept.sampled \in Nat /\ table.next \in Nat /\ table.next \in 1..n
         /\ RowsApart(Appended(n)) /\ Cardinality(Appended(n)) <= MaxRows + kept.unpruned + 1
         /\ \A r \in Appended(n) :
              r.seq < table.next + 1 /\ r.reading <= n /\ (r.sent => r.reading \in kept.arrived)
         /\ \A b \in batch, r \in Appended(n) : b.seq = r.seq <=> b.reading = r.reading
         /\ Of(Unsent(Appended(n))) = Of(Unsent(table.rows)) \cup {n}
  <1>1. PICK rows : rows = Appended(n)
    OBVIOUS
  <1>2. PICK row : row = [reading |-> n, seq |-> table.next, urgent |-> n \in Urgent, sent |-> FALSE]
    OBVIOUS
  <1>3. rows = table.rows \cup {row}
    BY <1>1, <1>2 DEF Appended
  <1>6. /\ StoreTyped /\ TableKnown(table) /\ BatchKnown
        /\ MaxReadings \in Nat /\ MaxRows \in Nat
    BY TelemetryStoreAssumption DEF StoreInv
  <1>7. kept.sampled \in Nat /\ table.next \in Nat /\ n \in 1..MaxReadings /\ table.next \in 1..n
    BY <1>6 DEF StoreTyped, TableKnown, History
  <1>9. row.reading = n /\ row.seq = table.next /\ row.sent = FALSE /\ row \in Row
    <2>1. PICK u \in BOOLEAN : u <=> n \in Urgent
      BY Zenon
    <2>2. PICK v \in BOOLEAN : v <=> FALSE
      BY Zenon
    <2>3. row = [reading |-> n, seq |-> table.next, urgent |-> u, sent |-> v]
      BY <1>2, <2>1, <2>2, Zenon
    <2>4. n \in Readings /\ table.next \in Readings
      BY <1>6, <1>7 DEF Readings
    <2> QED BY <2>1, <2>2, <2>3, <2>4 DEF Row
  <1>10. \A r \in table.rows : r.seq \in Nat /\ r.reading \in Nat /\ r.seq # row.seq /\ r.reading # row.reading
    BY <1>6, <1>7, <1>9 DEF TableKnown, RowsApart, Row, Readings
  <1>11. RowsApart(rows) /\ Cardinality(rows) <= MaxRows + kept.unpruned + 1
    <2>0. kept.unpruned \in Nat
      BY <1>6, TelemetryStoreAssumption DEF StoreTyped, History
    <2>1. /\ IsFiniteSet(table.rows) /\ Cardinality(table.rows) \in Nat
          /\ Cardinality(table.rows) <= MaxRows + kept.unpruned
      BY <1>6, FS_CardinalityType DEF TableKnown, RowsApart
    <2>2. IsFiniteSet(rows) /\ Cardinality(rows) <= MaxRows + kept.unpruned + 1
      <3>1. /\ IsFiniteSet(rows)
            /\ Cardinality(rows) =
                 IF row \in table.rows THEN Cardinality(table.rows) ELSE Cardinality(table.rows) + 1
        BY <1>3, <2>1, FS_AddElement
      <3> QED BY <1>6, <2>0, <2>1, <3>1
    <2>3. rows \subseteq Row
      BY <1>3, <1>6, <1>9 DEF TableKnown, RowsApart
    <2>4. \A r, s \in rows : r.seq = s.seq \/ r.reading = s.reading => r = s
      BY <1>3, <1>6, <1>10 DEF TableKnown, RowsApart
    <2> QED BY <2>2, <2>3, <2>4 DEF RowsApart
  <1>15. \A r \in rows : r.seq < table.next + 1 /\ r.reading <= n /\ (r.sent => r.reading \in kept.arrived)
    BY <1>3, <1>6, <1>7, <1>9, <1>10 DEF TableKnown
  <1>16. \A b \in batch, r \in rows : b.seq = r.seq <=> b.reading = r.reading
    <2>1. \A b \in batch : b.seq \in Nat /\ b.reading \in Nat /\ b.seq < table.next /\ b.reading < n
      BY <1>6, <1>7 DEF BatchKnown, Row, Readings
    <2> QED BY <1>3, <1>6, <1>9, <2>1 DEF BatchKnown
  <1>19. Of(Unsent(rows)) = Of(Unsent(table.rows)) \cup {n}
    BY <1>3, <1>9 DEF Of, Unsent
  <1> QED BY <1>1, <1>7, <1>11, <1>15, <1>16, <1>19

\* A step that appends a reading and leaves of the rows what it tells or keeps.
Appends(n) ==
  /\ table' = [rows |-> table'.rows, next |-> table.next + 1, room |-> table'.room]
  /\ table'.rows \in SUBSET Appended(n) /\ RowsApart(table'.rows)
  /\ Cardinality(table'.rows) <= MaxRows + kept'.unpruned
  /\ table'.next = table.next + 1 /\ table'.room \in Nat /\ overflowed' \in BOOLEAN
  /\ kept' \in History /\ kept'.sampled = n /\ kept'.arrived = kept.arrived
  /\ kept'.twice = kept.twice /\ kept'.unmarked = kept.unmarked /\ kept'.cut = kept.cut
  /\ kept.told \subseteq kept'.told /\ kept.unpruned <= kept'.unpruned
  /\ Of(Unsent(Appended(n))) \subseteq Of(Unsent(table'.rows)) \cup kept'.told

\* It keeps the invariant.
LEMMA AppendStep ==
  ASSUME StoreInv, kept.sampled < MaxReadings, NEW n, n = kept.sampled + 1, Appends(n),
         UNCHANGED <<synced, aged, batch, answer, uploading, uploaded, running, downs>>
  PROVE  StoreInv'
  <1>1. /\ StoreTyped /\ TableKnown(table) /\ TableKnown(synced) /\ BatchKnown /\ ArrivalsKnown
        /\ NothingLostQuietly /\ MaxReadings \in Nat /\ MaxRows \in Nat
    BY TelemetryStoreAssumption DEF StoreInv
  <1>2. PICK rows : rows = Appended(n)
    OBVIOUS
  <1>3. /\ n \in 1..MaxReadings /\ kept.sampled \in Nat /\ table.next \in Nat /\ table.next \in 1..n
        /\ \A r \in rows : r.seq < table.next + 1 /\ r.reading <= n /\ (r.sent => r.reading \in kept.arrived)
        /\ \A b \in batch, r \in rows : b.seq = r.seq <=> b.reading = r.reading
        /\ Of(Unsent(rows)) = Of(Unsent(table.rows)) \cup {n}
    BY <1>2, AppendedFacts
  <1>4. /\ table' = [rows |-> table'.rows, next |-> table.next + 1, room |-> table'.room]
        /\ table'.rows \in SUBSET rows /\ RowsApart(table'.rows)
        /\ Cardinality(table'.rows) <= MaxRows + kept'.unpruned
        /\ table'.next = table.next + 1 /\ table'.room \in Nat /\ overflowed' \in BOOLEAN
        /\ kept' \in History /\ kept'.sampled = n /\ kept'.arrived = kept.arrived
        /\ kept'.twice = kept.twice /\ kept'.unmarked = kept.unmarked /\ kept'.cut = kept.cut
        /\ kept.told \subseteq kept'.told /\ kept.unpruned <= kept'.unpruned
        /\ Of(Unsent(rows)) \subseteq Of(Unsent(table'.rows)) \cup kept'.told
    BY <1>2 DEF Appends
  <1>5. StoreTyped'
    BY <1>1, <1>4 DEF StoreTyped
  <1>6. TableKnown(table)'
    BY <1>3, <1>4 DEF TableKnown
  <1>7. TableKnown(synced)'
    <2>1. \A r \in synced.rows : r.reading \in Nat
      BY <1>1 DEF TableKnown, RowsApart, Row, Readings
    <2>2. Cardinality(synced.rows) <= MaxRows + kept'.unpruned
      <3>1. Cardinality(synced.rows) \in Nat
        BY <1>1, FS_CardinalityType DEF TableKnown, RowsApart
      <3>2. kept.unpruned \in Int /\ kept'.unpruned \in Int
        BY <1>1, <1>4, TelemetryStoreAssumption DEF StoreTyped, History
      <3> QED BY <1>1, <1>4, <3>1, <3>2 DEF TableKnown
    <2> QED BY <1>1, <1>3, <1>4, <2>1, <2>2 DEF TableKnown
  <1>8. BatchKnown'
    <2>1. \A b \in batch : b.seq \in Nat /\ b.reading \in Nat
      BY <1>1 DEF BatchKnown, Row, Readings
    <2> QED BY <1>1, <1>3, <1>4, <2>1 DEF BatchKnown
  <1>9. n \notin kept.arrived
    <2>1. kept.arrived \subseteq 1..kept.sampled
      BY <1>1 DEF ArrivalsKnown
    <2> QED BY <1>3, <2>1
  <1>10. ArrivalsKnown'
    <2>1. Of(Unsent(table'.rows)) \subseteq Of(Unsent(table.rows)) \cup {n}
      BY <1>3, <1>4 DEF Of, Unsent
    <2>2. kept.arrived \subseteq 1..n
      BY <1>1, <1>3 DEF ArrivalsKnown
    <2> QED BY <1>1, <1>4, <1>9, <2>1, <2>2 DEF ArrivalsKnown, TwiceUnmarked, Of
  <1>11. NothingLostQuietly'
    <2>1. \A r \in 1..n : r \in 1..kept.sampled \/ r = n
      BY <1>3
    <2> QED BY <1>1, <1>3, <1>4, <2>1 DEF NothingLostQuietly
  <1> QED BY <1>5, <1>6, <1>7, <1>8, <1>10, <1>11 DEF StoreInv

\* A reading is sampled and stored.
LEMMA SampleStep ==
  ASSUME StoreInv, Sample
  PROVE  StoreInv' /\ DropsInOrder
  <1>1. PICK n : n = kept.sampled + 1
    OBVIOUS
  <1>2. PICK rows : rows = Appended(n)
    OBVIOUS
  <1>3. PICK told : told = [kept EXCEPT !.sampled = n]
    OBVIOUS
  <1>4. /\ Keep(rows, table.next + 1, told) /\ kept.sampled < MaxReadings
        /\ UNCHANGED <<synced, aged, batch, answer, uploading, uploaded, running, downs>>
    BY <1>1, <1>2, <1>3, Zenon DEF Sample
  <1>5. n \in 1..MaxReadings /\ RowsApart(rows)
    BY <1>1, <1>2, <1>4, AppendedFacts
  <1>6. /\ told \in History /\ told.sampled = n /\ told.arrived = kept.arrived /\ told.twice = kept.twice
        /\ told.unmarked = kept.unmarked /\ told.cut = kept.cut /\ told.told = kept.told
        /\ told.dropped = kept.dropped /\ told.unpruned = kept.unpruned
    BY <1>3, <1>5 DEF StoreInv, StoreTyped, History
  <1>7. table.room \in Nat /\ overflowed \in BOOLEAN /\ kept.unpruned \in Nat /\ MaxRows \in Nat
    BY TelemetryStoreAssumption DEF StoreInv, TableKnown, StoreTyped, History
  <1>8. /\ table' = [rows |-> table'.rows, next |-> table.next + 1, room |-> table'.room]
        /\ table'.rows \in SUBSET rows /\ RowsApart(table'.rows) /\ Cardinality(table'.rows) <= MaxRows
        /\ table'.next = table.next + 1 /\ table'.room \in Nat /\ overflowed' \in BOOLEAN
        /\ kept' \in History /\ kept'.sampled = n /\ kept'.arrived = kept.arrived
        /\ kept'.twice = kept.twice /\ kept'.unmarked = kept.unmarked /\ kept'.cut = kept.cut
        /\ kept.told \subseteq kept'.told /\ kept'.unpruned = kept.unpruned
        /\ Of(Unsent(rows)) \subseteq Of(Unsent(table'.rows)) \cup kept'.told /\ DropsInOrder
    BY <1>4, <1>5, <1>6, <1>7, KeepFacts DEF DropsInOrder
  <1>9. Cardinality(table'.rows) <= MaxRows + kept'.unpruned
    <2>1. Cardinality(table'.rows) \in Nat
      BY <1>8, FS_CardinalityType DEF RowsApart
    <2> QED BY <1>7, <1>8, <2>1
  <1>10. Appends(n)
    BY <1>2, <1>7, <1>8, <1>9 DEF Appends
  <1> QED BY <1>1, <1>4, <1>8, <1>10, AppendStep

\* A reading is sampled and stored, and nothing is pruned.
LEMMA SampleNotPrunedStep ==
  ASSUME StoreInv, SampleNotPruned
  PROVE  StoreInv' /\ kept'.dropped = kept.dropped
  <1>1. PICK n : n = kept.sampled + 1
    OBVIOUS
  <1>2. PICK rows : rows = Appended(n)
    OBVIOUS
  <1>3. PICK room : room = Larger(table.room, Cardinality(rows))
    OBVIOUS
  <1>4. /\ table' = [rows |-> rows, next |-> table.next + 1, room |-> room]
        /\ kept' = [kept EXCEPT !.sampled = n, !.unpruned = @ + 1]
        /\ kept.sampled < MaxReadings /\ kept.unpruned < MaxUnpruned
        /\ UNCHANGED <<synced, aged, overflowed, batch, answer, uploading, uploaded, running, downs>>
    BY <1>1, <1>2, <1>3, Zenon DEF SampleNotPruned
  <1>5. /\ n \in 1..MaxReadings /\ RowsApart(rows) /\ Cardinality(rows) <= MaxRows + kept.unpruned + 1
    BY <1>1, <1>2, <1>4, AppendedFacts
  <1>6. /\ kept \in History /\ table.room \in Nat /\ overflowed \in BOOLEAN /\ kept.unpruned \in Nat
        /\ MaxRows \in Nat /\ MaxUnpruned \in Nat
    BY TelemetryStoreAssumption DEF StoreInv, TableKnown, StoreTyped, History
  <1>7. room \in Nat
    BY <1>3, <1>5, <1>6, FS_CardinalityType DEF Larger, RowsApart
  <1>8. /\ kept' \in History /\ kept'.sampled = n /\ kept'.arrived = kept.arrived /\ kept'.twice = kept.twice
        /\ kept'.unmarked = kept.unmarked /\ kept'.cut = kept.cut /\ kept'.told = kept.told
        /\ kept'.dropped = kept.dropped /\ kept'.unpruned = kept.unpruned + 1
    <2>1. n \in 0..MaxReadings /\ kept.unpruned + 1 \in 0..MaxUnpruned
      BY <1>4, <1>5, <1>6
    <2> QED BY <1>4, <1>6, <2>1 DEF History
  <1>9. Cardinality(rows) <= MaxRows + (kept.unpruned + 1)
    <2>1. Cardinality(rows) \in Nat
      BY <1>5, FS_CardinalityType DEF RowsApart
    <2> QED BY <1>5, <1>6, <2>1
  <1>10. Appends(n)
    BY <1>2, <1>4, <1>5, <1>6, <1>7, <1>8, <1>9 DEF Appends
  <1> QED BY <1>1, <1>4, <1>8, <1>10, AppendStep

\* A reading is sampled and cannot be stored.
LEMMA SampleNotKeptStep ==
  ASSUME StoreInv, SampleNotKept
  PROVE  StoreInv'
  <1>1. PICK n : n = kept.sampled + 1
    OBVIOUS
  <1>2. /\ StoreTyped /\ TableKnown(table) /\ TableKnown(synced) /\ BatchKnown /\ ArrivalsKnown
        /\ NothingLostQuietly /\ MaxReadings \in Nat
    BY TelemetryStoreAssumption DEF StoreInv
  <1>3. /\ kept' = [kept EXCEPT !.sampled = n, !.cut = @ \cup {n}] /\ kept.sampled < MaxReadings
        /\ UNCHANGED <<table, synced, aged, overflowed, batch, answer, uploading, downs>>
    BY <1>1 DEF SampleNotKept
  <1>4. kept.sampled \in Nat /\ n \in 1..MaxReadings
    BY <1>1, <1>2, <1>3 DEF StoreTyped, History
  <1>5. /\ kept' \in History /\ kept'.sampled = n /\ kept'.arrived = kept.arrived /\ kept'.twice = kept.twice
        /\ kept'.unmarked = kept.unmarked /\ kept'.cut = kept.cut \cup {n} /\ kept'.told = kept.told
        /\ kept'.unpruned = kept.unpruned
    <2>1. kept \in History /\ n \in 0..MaxReadings /\ n \in Readings
      BY <1>2, <1>4 DEF StoreTyped, Readings
    <2>2. {n} \in SUBSET Readings
      BY <2>1
    <2> QED BY <1>3, <2>1, <2>2 DEF History
  <1>6. StoreTyped'
    BY <1>2, <1>3, <1>5 DEF StoreTyped
  <1>7. TableKnown(table)' /\ TableKnown(synced)'
    <2>1. \A r \in table.rows \cup synced.rows : r.reading \in Nat
      BY <1>2 DEF TableKnown, RowsApart, Row, Readings
    <2>2. TableKnown(table)'
      BY <1>1, <1>2, <1>3, <1>4, <1>5, <2>1 DEF TableKnown
    <2>3. TableKnown(synced)'
      BY <1>1, <1>2, <1>3, <1>4, <1>5, <2>1 DEF TableKnown
    <2> QED BY <2>2, <2>3
  <1>8. BatchKnown'
    <2>1. \A b \in batch : b.reading \in Nat
      BY <1>2 DEF BatchKnown, Row, Readings
    <2> QED BY <1>1, <1>2, <1>3, <1>4, <1>5, <2>1 DEF BatchKnown
  <1>9. ArrivalsKnown'
    <2>1. kept.arrived \subseteq 1..n
      BY <1>1, <1>2, <1>4 DEF ArrivalsKnown
    <2> QED BY <1>2, <1>3, <1>5, <2>1 DEF ArrivalsKnown, TwiceUnmarked
  <1>10. NothingLostQuietly'
    <2>1. \A r \in 1..n : r \in 1..kept.sampled \/ r = n
      BY <1>1, <1>4
    <2> QED BY <1>2, <1>3, <1>5, <2>1 DEF NothingLostQuietly
  <1> QED BY <1>6, <1>7, <1>8, <1>9, <1>10 DEF StoreInv

\* A batch is taken.
LEMMA FetchStep ==
  ASSUME StoreInv, FetchBatch
  PROVE  StoreInv'
  <1>1. PICK rows : rows = Unsent(table.rows)
    OBVIOUS
  <1>2. /\ StoreTyped /\ TableKnown(table) /\ TableKnown(synced) /\ BatchKnown /\ ArrivalsKnown
        /\ NothingLostQuietly /\ BatchRows \in Nat
    BY TelemetryStoreAssumption DEF StoreInv
  <1>3. /\ uploading = "draining" /\ uploading' \in {"asleep", "posting"} /\ batch = {} /\ answer = "none"
        /\ UNCHANGED <<table, synced, aged, overflowed, answer, downs, kept>>
    BY <1>2 DEF FetchBatch, BatchKnown
  <1>4. CASE UNCHANGED batch
    BY <1>2, <1>3, <1>4 DEF StoreInv, StoreTyped, TableKnown, BatchKnown, ArrivalsKnown, TwiceUnmarked,
                            NothingLostQuietly, Of
  <1>5. ASSUME NEW n \in 1..BatchRows, n <= Cardinality(rows), batch' = FirstFetched(rows, n),
               uploading' = "posting"
        PROVE  StoreInv'
    <2>1. RowsApart(rows)
      <3>1. rows \in SUBSET table.rows
        BY <1>1 DEF Unsent
      <3>2. IsFiniteSet(rows)
        BY <1>2, <3>1, FS_Subset DEF TableKnown, RowsApart
      <3> QED BY <1>2, <3>1, <3>2 DEF TableKnown, RowsApart
    <2>2. Cardinality(rows) \in Nat /\ IsFiniteSet(rows) /\ n \in 0..Cardinality(rows)
      BY <1>5, <2>1, FS_CardinalityType DEF RowsApart
    <2>3. batch' \in SUBSET rows /\ Cardinality(batch') = n
      BY <1>5, <2>1, <2>2, FetchFacts
    <2>4. IsFiniteSet(batch')
      BY <2>2, <2>3, FS_Subset
    <2>5. BatchKnown'
      <3>1. batch' \in SUBSET table.rows /\ batch' \subseteq Row
        BY <1>1, <2>1, <2>3 DEF Unsent, RowsApart
      <3>2. /\ \A b \in batch' : b.seq < table.next /\ b.reading <= kept.sampled
            /\ \A b \in batch', r \in table.rows : b.seq = r.seq <=> b.reading = r.reading
        BY <1>2, <3>1 DEF TableKnown, RowsApart
      <3>3. Cardinality(batch') <= BatchRows
        BY <1>2, <2>3
      <3> QED BY <1>3, <1>5, <2>4, <3>1, <3>2, <3>3 DEF BatchKnown
    <2>6. ArrivalsKnown'
      <3>1. Of(batch') \subseteq Of(Unsent(table.rows))
        BY <1>1, <2>3 DEF Of
      <3> QED BY <1>2, <1>3, <3>1 DEF ArrivalsKnown, TwiceUnmarked
    <2> QED BY <1>2, <1>3, <2>5, <2>6 DEF StoreInv, StoreTyped, TableKnown, NothingLostQuietly
  <1> QED BY <1>1, <1>4, <1>5 DEF FetchBatch

\* A batch goes out.
LEMMA PostBatchStep ==
  ASSUME StoreInv, NEW lands \in BOOLEAN, NEW seen \in BOOLEAN, PostBatch(lands, seen)
  PROVE  StoreInv'
  <1>1. PICK these : these = Of(batch)
    OBVIOUS
  <1>2. /\ StoreTyped /\ TableKnown(table) /\ TableKnown(synced) /\ BatchKnown /\ ArrivalsKnown
        /\ NothingLostQuietly /\ MaxReadings \in Nat
    BY TelemetryStoreAssumption DEF StoreInv
  <1>3. /\ uploading = "posting" /\ answer = "none"
        /\ UNCHANGED <<table, synced, aged, overflowed, batch, uploading, downs>>
    BY DEF PostBatch
  <1>4. these \subseteq 1..kept.sampled /\ these \subseteq Readings
        /\ kept.arrived \cap these \subseteq kept.unmarked
    <2>1. these \subseteq Readings /\ kept.sampled \in Nat
      BY <1>1, <1>2 DEF BatchKnown, Row, Of, StoreTyped, History
    <2>2. these \subseteq 1..kept.sampled
      BY <1>1, <1>2, <2>1 DEF BatchKnown, Of, Readings
    <2> QED BY <1>1, <1>2, <1>3, <2>1, <2>2 DEF ArrivalsKnown
  <1>5. \/ lands /\ seen /\ answer' = "ok"
           /\ kept' = [kept EXCEPT !.arrived = @ \cup these, !.twice = @ \cup (kept.arrived \cap these),
                                   !.unmarked = @]
        \/ lands /\ ~seen /\ answer' = "failed"
           /\ kept' = [kept EXCEPT !.arrived = @ \cup these, !.twice = @ \cup (kept.arrived \cap these),
                                   !.unmarked = @ \cup these]
        \/ ~lands /\ answer' = "failed" /\ kept' = kept
    BY <1>1, Zenon DEF PostBatch
  <1>6. ASSUME NEW more \in SUBSET Readings,
               kept' = [kept EXCEPT !.arrived = @ \cup these, !.twice = @ \cup (kept.arrived \cap these),
                                    !.unmarked = @ \cup more],
               \/ answer' = "ok"
               \/ answer' = "failed" /\ more = these
        PROVE  StoreInv'
    <2>1. /\ kept' \in History /\ kept'.sampled = kept.sampled /\ kept'.arrived = kept.arrived \cup these
          /\ kept'.twice = kept.twice \cup (kept.arrived \cap these)
          /\ kept'.unmarked = kept.unmarked \cup more /\ kept'.cut = kept.cut /\ kept'.told = kept.told
          /\ kept'.unpruned = kept.unpruned
      BY <1>2, <1>4, <1>6 DEF StoreTyped, History
    <2>2. StoreTyped'
      BY <1>2, <1>3, <1>6, <2>1 DEF StoreTyped
    <2>3. TableKnown(table)' /\ TableKnown(synced)'
      BY <1>2, <1>3, <2>1 DEF TableKnown
    <2>4. BatchKnown'
      BY <1>1, <1>2, <1>3, <2>1 DEF BatchKnown
    <2>5. ArrivalsKnown'
      BY <1>1, <1>2, <1>3, <1>4, <1>6, <2>1 DEF ArrivalsKnown, TwiceUnmarked
    <2>6. NothingLostQuietly'
      BY <1>2, <1>3, <2>1 DEF NothingLostQuietly
    <2> QED BY <2>2, <2>3, <2>4, <2>5, <2>6 DEF StoreInv
  <1>7. CASE lands /\ seen
    <2>1. kept' = [kept EXCEPT !.arrived = @ \cup these, !.twice = @ \cup (kept.arrived \cap these),
                               !.unmarked = @ \cup {}] /\ answer' = "ok"
      BY <1>5, <1>7
    <2>2. {} \in SUBSET Readings
      OBVIOUS
    <2> QED BY <1>6, <2>1, <2>2, Zenon
  <1>8. CASE lands /\ ~seen
    BY <1>4, <1>5, <1>6, <1>8
  <1>9. CASE ~lands
    BY <1>2, <1>3, <1>5, <1>9 DEF StoreInv, StoreTyped, TableKnown, BatchKnown, ArrivalsKnown, TwiceUnmarked,
                                  NothingLostQuietly
  <1> QED BY <1>7, <1>8, <1>9

\* The batch failed, and waits in the table.
LEMMA UploadFailedStep ==
  ASSUME StoreInv, UploadFailed
  PROVE  StoreInv'
  <1>1. /\ answer = "failed" /\ answer' = "none" /\ batch' = {} /\ uploading' = "asleep"
        /\ UNCHANGED <<table, synced, aged, overflowed, downs, kept>>
    BY DEF UploadFailed
  <1>2. BatchRows \in Nat
    BY TelemetryStoreAssumption
  <1>3. Of(batch') = {}
    BY <1>1 DEF Of
  <1> QED BY <1>1, <1>2, <1>3, FS_EmptySet DEF StoreInv, StoreTyped, TableKnown, BatchKnown, ArrivalsKnown,
                                               TwiceUnmarked, NothingLostQuietly

\* Rows marked are the rows they were, some of them sent.
LEMMA MarkedFacts ==
  ASSUME NEW rows, RowsApart(rows), NEW seqs
  PROVE  /\ RowsApart(Marked(rows, seqs)) /\ Cardinality(Marked(rows, seqs)) <= Cardinality(rows)
         /\ \A m \in Marked(rows, seqs) : \E r \in rows :
              m.seq = r.seq /\ m.reading = r.reading /\ (m.sent <=> r.sent \/ r.seq \in seqs)
         /\ \A r \in rows : ~r.sent /\ r.seq \notin seqs => r.reading \in Of(Unsent(Marked(rows, seqs)))
  <1> DEFINE mark(r) == [r EXCEPT !.sent = @ \/ r.seq \in seqs]
             f == [r \in rows |-> mark(r)]
  <1>1. PICK marked : marked = Marked(rows, seqs)
    OBVIOUS
  <1>2. ASSUME NEW r \in rows
        PROVE  /\ mark(r) \in Row /\ mark(r).seq = r.seq /\ mark(r).reading = r.reading
               /\ mark(r).sent <=> r.sent \/ r.seq \in seqs
    <2>1. PICK v \in BOOLEAN : v <=> r.sent \/ r.seq \in seqs
      BY Zenon
    <2>2. r \in Row
      BY DEF RowsApart
    <2>3. mark(r) = [r EXCEPT !.sent = v]
      <3>1. v = (r.sent \/ r.seq \in seqs)
        BY <2>1, Zenon
      <3> QED BY <3>1, Zenon
    <2> HIDE DEF mark
    <2>4. mark(r) \in Row /\ mark(r).seq = r.seq /\ mark(r).reading = r.reading /\ mark(r).sent = v
      BY <2>2, <2>3 DEF Row
    <2> QED BY <2>1, <2>4
  <1>3. marked = {mark(r) : r \in rows}
    BY <1>1 DEF Marked
  <1> HIDE DEF mark
  <1>4. f \in Surjection(rows, marked)
    BY <1>3 DEF Surjection
  <1>5. IsFiniteSet(marked) /\ Cardinality(marked) <= Cardinality(rows)
    BY <1>4, FS_Surjection DEF RowsApart
  <1>6. RowsApart(marked)
    BY <1>2, <1>3, <1>5 DEF RowsApart
  <1>7. \A r \in rows : ~r.sent /\ r.seq \notin seqs => r.reading \in Of(Unsent(marked))
    <2> SUFFICES ASSUME NEW r \in rows, ~r.sent, r.seq \notin seqs
                 PROVE  r.reading \in Of(Unsent(marked))
      OBVIOUS
    <2>1. mark(r) \in marked /\ mark(r).reading = r.reading /\ ~mark(r).sent
      BY <1>2, <1>3
    <2>2. mark(r) \in Unsent(marked)
      BY <2>1 DEF Unsent
    <2> QED BY <2>1, <2>2 DEF Of
  <1> QED BY <1>1, <1>2, <1>3, <1>5, <1>6, <1>7

\* The batch was answered for, and is marked.
LEMMA MarkSentStep ==
  ASSUME StoreInv, MarkSent
  PROVE  StoreInv' /\ DropsInOrder
  <1>1. PICK seqs : seqs = {b.seq : b \in batch}
    OBVIOUS
  <1>2. PICK rows : rows = Marked(table.rows, seqs)
    OBVIOUS
  <1>3. /\ StoreTyped /\ TableKnown(table) /\ TableKnown(synced) /\ BatchKnown /\ ArrivalsKnown
        /\ NothingLostQuietly /\ MaxRows \in Nat /\ BatchRows \in Nat
    BY TelemetryStoreAssumption DEF StoreInv
  <1>4. /\ answer = "ok" /\ Keep(rows, table.next, kept) /\ answer' = "none" /\ batch' = {}
        /\ uploading' \in {"asleep", "draining"} /\ UNCHANGED <<synced, aged, downs>>
    BY <1>1, <1>2 DEF MarkSent
  <1>5. /\ RowsApart(rows) /\ Cardinality(rows) <= Cardinality(table.rows)
        /\ \A m \in rows : \E r \in table.rows :
              m.seq = r.seq /\ m.reading = r.reading /\ (m.sent <=> r.sent \/ r.seq \in seqs)
        /\ \A r \in table.rows : ~r.sent /\ r.seq \notin seqs => r.reading \in Of(Unsent(rows))
    BY <1>2, <1>3, MarkedFacts DEF TableKnown
  <1>7. kept \in History /\ table.room \in Nat /\ overflowed \in BOOLEAN
    BY <1>3 DEF StoreTyped, TableKnown
  <1>8. /\ table' = [rows |-> table'.rows, next |-> table.next, room |-> table'.room]
        /\ table'.rows \in SUBSET rows /\ RowsApart(table'.rows) /\ Cardinality(table'.rows) <= MaxRows
        /\ table'.next = table.next /\ table'.room \in Nat /\ overflowed' \in BOOLEAN
        /\ kept' \in History /\ kept'.sampled = kept.sampled /\ kept'.arrived = kept.arrived
        /\ kept'.twice = kept.twice /\ kept'.unmarked = kept.unmarked /\ kept'.cut = kept.cut /\ kept'.unpruned = kept.unpruned
        /\ kept.told \subseteq kept'.told
        /\ Of(Unsent(rows)) \subseteq Of(Unsent(table'.rows)) \cup kept'.told /\ DropsInOrder
    BY <1>4, <1>5, <1>7, KeepFacts DEF DropsInOrder
  <1>9. \A r \in table.rows : r.seq \in seqs <=> r.reading \in Of(batch)
    BY <1>1, <1>3 DEF BatchKnown, Of
  <1>10. StoreTyped'
    BY <1>3, <1>4, <1>8 DEF StoreTyped
  <1>11. TableKnown(table)'
    <2>1. \A m \in rows : m.seq < table.next /\ m.reading <= kept.sampled
          /\ (m.sent => m.reading \in kept.arrived)
      BY <1>3, <1>4, <1>5, <1>9 DEF TableKnown, BatchKnown
    <2>2. Cardinality(table'.rows) <= MaxRows + kept'.unpruned
      <3>1. Cardinality(table'.rows) \in Nat /\ kept.unpruned \in Nat
        BY <1>3, <1>8, FS_CardinalityType, TelemetryStoreAssumption DEF RowsApart, StoreTyped, History
      <3> QED BY <1>3, <1>8, <3>1
    <2> QED BY <1>3, <1>8, <2>1, <2>2 DEF TableKnown
  <1>12. TableKnown(synced)'
    BY <1>3, <1>4, <1>8 DEF TableKnown
  <1>13. BatchKnown'
    BY <1>3, <1>4, FS_EmptySet DEF BatchKnown
  <1>14. ArrivalsKnown'
    <2>1. ASSUME NEW n \in Of(Unsent(table'.rows)), n \in kept.arrived
          PROVE  n \in kept.unmarked
      <3>1. PICK m \in rows : m.reading = n /\ ~m.sent
        BY <1>8, <2>1 DEF Of, Unsent
      <3>2. PICK r \in table.rows : m.reading = r.reading /\ ~r.sent /\ r.seq \notin seqs
        BY <1>5, <3>1
      <3>3. n \in Of(Unsent(table.rows)) /\ n \notin Of(batch)
        BY <1>9, <3>1, <3>2 DEF Of, Unsent
      <3> QED BY <1>3, <2>1, <3>3 DEF ArrivalsKnown
    <2>2. Of(batch') = {}
      BY <1>4 DEF Of
    <2> QED BY <1>3, <1>4, <1>8, <2>1, <2>2 DEF ArrivalsKnown, TwiceUnmarked
  <1>15. NothingLostQuietly'
    <2>1. ASSUME NEW n \in Of(Unsent(table.rows)), n \notin kept.arrived
          PROVE  n \in Of(Unsent(rows))
      <3>1. PICK r \in table.rows : r.reading = n /\ ~r.sent
        BY DEF Of, Unsent
      <3>2. r.seq \notin seqs
        BY <1>3, <1>4, <1>9, <2>1, <3>1 DEF BatchKnown
      <3> QED BY <1>5, <3>1, <3>2
    <2> QED BY <1>3, <1>8, <2>1 DEF NothingLostQuietly
  <1> QED BY <1>8, <1>10, <1>11, <1>12, <1>13, <1>14, <1>15 DEF StoreInv

\* The mark of a batch that was answered for fails, or the prune after it.
LEMMA MarkFailsStep ==
  ASSUME StoreInv, MarkFails
  PROVE  StoreInv' /\ kept'.dropped = kept.dropped
  <1>1. PICK seqs : seqs = {b.seq : b \in batch}
    OBVIOUS
  <1>2. PICK rows \in {table.rows, Marked(table.rows, seqs)} :
          /\ table' = [table EXCEPT !.rows = rows]
          /\ kept' = [kept EXCEPT !.unmarked = @ \cup (Of(batch) \cap Of(Unsent(rows)))]
    BY <1>1 DEF MarkFails
  <1>3. /\ StoreTyped /\ TableKnown(table) /\ TableKnown(synced) /\ BatchKnown /\ ArrivalsKnown
        /\ NothingLostQuietly /\ MaxRows \in Nat /\ BatchRows \in Nat
    BY TelemetryStoreAssumption DEF StoreInv
  <1>4. /\ answer = "ok" /\ answer' = "none" /\ batch' = {} /\ uploading' = "asleep"
        /\ UNCHANGED <<synced, aged, overflowed, downs>>
    BY DEF MarkFails
  <1>5. /\ RowsApart(rows) /\ Cardinality(rows) <= Cardinality(table.rows)
        /\ \A m \in rows : \E r \in table.rows :
              m.seq = r.seq /\ m.reading = r.reading /\ (r.sent => m.sent)
              /\ (m.sent => r.sent \/ r.seq \in seqs)
        /\ \A r \in table.rows : ~r.sent /\ r.seq \notin seqs => r.reading \in Of(Unsent(rows))
    <2>1. CASE rows = table.rows
      <3>1. RowsApart(table.rows) /\ Cardinality(table.rows) \in Int
        BY <1>3, FS_CardinalityType DEF TableKnown, RowsApart
      <3> QED BY <2>1, <3>1 DEF Of, Unsent
    <2>2. CASE rows = Marked(table.rows, seqs)
      <3>1. /\ RowsApart(rows) /\ Cardinality(rows) <= Cardinality(table.rows)
            /\ \A m \in rows : \E r \in table.rows :
                 m.seq = r.seq /\ m.reading = r.reading /\ (m.sent <=> r.sent \/ r.seq \in seqs)
            /\ \A r \in table.rows : ~r.sent /\ r.seq \notin seqs => r.reading \in Of(Unsent(rows))
        BY <1>3, <2>2, MarkedFacts DEF TableKnown
      <3> QED BY <3>1
    <2> QED BY <1>2, <2>1, <2>2
  <1>6. PICK more : more = Of(batch) \cap Of(Unsent(rows)) /\ more \in SUBSET Readings
    <2>1. Of(batch) \in SUBSET Readings
      BY <1>3 DEF BatchKnown, Of, Row
    <2> QED BY <2>1
  <1>7. /\ kept' \in History /\ kept'.sampled = kept.sampled /\ kept'.arrived = kept.arrived
        /\ kept'.twice = kept.twice /\ kept'.unmarked = kept.unmarked \cup more /\ kept'.cut = kept.cut
        /\ kept'.told = kept.told /\ kept'.dropped = kept.dropped /\ kept'.unpruned = kept.unpruned
    BY <1>2, <1>3, <1>6 DEF StoreTyped, History
  <1>8. table' = [rows |-> rows, next |-> table.next, room |-> table.room]
    BY <1>2, <1>3 DEF TableKnown
  <1>9. \A r \in table.rows : r.seq \in seqs <=> r.reading \in Of(batch)
    BY <1>1, <1>3 DEF BatchKnown, Of
  <1>10. StoreTyped'
    BY <1>3, <1>4, <1>7 DEF StoreTyped
  <1>11. TableKnown(table)'
    <2>1. \A m \in rows : m.seq < table.next /\ m.reading <= kept.sampled
          /\ (m.sent => m.reading \in kept.arrived)
      BY <1>3, <1>4, <1>5, <1>9 DEF TableKnown, BatchKnown
    <2>2. Cardinality(rows) <= MaxRows + kept.unpruned
      <3>1. Cardinality(rows) \in Nat /\ Cardinality(table.rows) \in Nat /\ kept.unpruned \in Nat
        BY <1>3, <1>5, FS_CardinalityType, TelemetryStoreAssumption DEF TableKnown, RowsApart, StoreTyped, History
      <3> QED BY <1>3, <1>5, <3>1 DEF TableKnown
    <2> QED BY <1>3, <1>5, <1>7, <1>8, <2>1, <2>2 DEF TableKnown
  <1>12. TableKnown(synced)'
    BY <1>3, <1>4, <1>7 DEF TableKnown
  <1>13. BatchKnown'
    BY <1>3, <1>4, FS_EmptySet DEF BatchKnown
  <1>14. ArrivalsKnown'
    <2>1. ASSUME NEW n \in Of(Unsent(rows)), n \in kept.arrived
          PROVE  n \in kept.unmarked \cup more
      <3>1. PICK m \in rows : m.reading = n /\ ~m.sent
        BY <2>1 DEF Of, Unsent
      <3>2. PICK r \in table.rows : m.reading = r.reading /\ ~r.sent
        BY <1>5, <3>1
      <3>3. n \in Of(Unsent(table.rows))
        BY <3>1, <3>2 DEF Of, Unsent
      <3>4. n \in kept.unmarked \cup Of(batch)
        BY <1>3, <1>4, <2>1, <3>3 DEF ArrivalsKnown
      <3> QED BY <1>6, <2>1, <3>4
    <2>2. Of(batch') = {}
      BY <1>4 DEF Of
    <2>3. table'.rows = rows
      BY <1>8
    <2> QED BY <1>3, <1>4, <1>7, <2>1, <2>2, <2>3 DEF ArrivalsKnown, TwiceUnmarked
  <1>15. NothingLostQuietly'
    <2>1. ASSUME NEW n \in Of(Unsent(table.rows)), n \notin kept.arrived
          PROVE  n \in Of(Unsent(rows))
      <3>1. PICK r \in table.rows : r.reading = n /\ ~r.sent
        BY DEF Of, Unsent
      <3>2. r.seq \notin seqs
        BY <1>3, <1>4, <1>9, <2>1, <3>1 DEF BatchKnown
      <3> QED BY <1>5, <3>1, <3>2
    <2> QED BY <1>3, <1>7, <1>8, <2>1 DEF NothingLostQuietly
  <1> QED BY <1>7, <1>10, <1>11, <1>12, <1>13, <1>14, <1>15 DEF StoreInv

\* The process ends and starts again, with the table it has or the one the log's checkpoint left.
LEMMA RestartStep ==
  ASSUME StoreInv, NEW powerLoss \in BOOLEAN, Restart(powerLoss)
  PROVE  StoreInv'
  <1>1. PICK t : t = table'
    OBVIOUS
  <1>2. PICK more : more = kept.arrived \cap (Of(batch) \cup Of(Unsent(t.rows)))
    OBVIOUS
  <1>3. PICK gone : gone = Of(table.rows) \ Of(t.rows)
    OBVIOUS
  <1>4. /\ StoreTyped /\ TableKnown(table) /\ TableKnown(synced) /\ BatchKnown /\ ArrivalsKnown
        /\ NothingLostQuietly /\ MaxDowns \in Nat /\ BatchRows \in Nat
    BY TelemetryStoreAssumption DEF StoreInv
  <1>5. t = table \/ t = synced
    BY <1>1 DEF Restart
  <1>6. kept' = [kept EXCEPT !.cut = @ \cup gone, !.unmarked = @ \cup more]
    <2>1. CASE powerLoss
      BY <1>1, <1>2, <1>3, <2>1 DEF Restart
    <2>2. CASE ~powerLoss
      <3>1. t = table /\ gone = {}
        BY <1>1, <1>3, <2>2 DEF Restart
      <3>2. kept.cut \cup gone = kept.cut
        BY <3>1
      <3>3. kept' = [kept EXCEPT !.cut = @, !.unmarked = @ \cup more]
        BY <1>1, <1>2, <2>2 DEF Restart
      <3> QED BY <1>4, <3>2, <3>3 DEF StoreTyped, History
    <2> QED BY <2>1, <2>2
  <1>7. /\ downs' \in 0..MaxDowns /\ answer' = "none" /\ batch' = {} /\ uploading' = "asleep"
        /\ UNCHANGED <<synced, aged>>
    BY <1>4 DEF Restart, StoreTyped
  <1>8. overflowed' \in BOOLEAN
    BY Zenon DEF Restart
  <1>9. gone \in SUBSET Readings /\ more \in SUBSET Readings
    BY <1>2, <1>3, <1>4 DEF TableKnown, RowsApart, Row, Of, StoreTyped, History
  <1>10. /\ kept' \in History /\ kept'.sampled = kept.sampled /\ kept'.arrived = kept.arrived
         /\ kept'.twice = kept.twice /\ kept'.unmarked = kept.unmarked \cup more
         /\ kept'.cut = kept.cut \cup gone /\ kept'.told = kept.told
         /\ kept'.unpruned = kept.unpruned
    BY <1>4, <1>6, <1>9 DEF StoreTyped, History
  <1>11. StoreTyped'
    BY <1>4, <1>7, <1>8, <1>10 DEF StoreTyped
  <1>12. TableKnown(table)' /\ TableKnown(synced)'
    <2>1. TableKnown(t)
      BY <1>4, <1>5
    <2>2. TableKnown(table)'
      BY <1>1, <1>10, <2>1 DEF TableKnown
    <2>3. TableKnown(synced)'
      BY <1>4, <1>7, <1>10 DEF TableKnown
    <2> QED BY <2>2, <2>3
  <1>13. BatchKnown'
    BY <1>4, <1>7, FS_EmptySet DEF BatchKnown
  <1>14. ArrivalsKnown'
    <2>1. Of(batch') = {}
      BY <1>7 DEF Of
    <2> QED BY <1>1, <1>2, <1>4, <1>7, <1>10, <2>1 DEF ArrivalsKnown, TwiceUnmarked
  <1>15. NothingLostQuietly'
    <2>1. ASSUME NEW n \in Of(Unsent(table.rows))
          PROVE  n \in kept.arrived \cup gone \cup Of(Unsent(t.rows))
      <3>1. n \in Of(table.rows)
        BY DEF Of, Unsent
      <3>2. CASE n \notin Of(t.rows)
        BY <1>3, <3>1, <3>2
      <3>3. CASE n \in Of(t.rows)
        <4>1. PICK r \in t.rows : r.reading = n
          BY <3>3 DEF Of
        <4>2. r.sent => n \in kept.arrived
          BY <1>4, <1>5, <4>1 DEF TableKnown
        <4>3. ~r.sent => n \in Of(Unsent(t.rows))
          BY <4>1 DEF Of, Unsent
        <4> QED BY <4>2, <4>3
      <3> QED BY <3>2, <3>3
    <2> QED BY <1>1, <1>4, <1>10, <2>1 DEF NothingLostQuietly
  <1> QED BY <1>11, <1>12, <1>13, <1>14, <1>15 DEF StoreInv

\* Every step keeps the invariant, and none drops an unsent row while a sent one is left.
LEMMA StoreStep == StoreInv /\ [StoreNext]_storeVars => StoreInv' /\ DropsInOrder
  <1> SUFFICES ASSUME StoreInv, [StoreNext]_storeVars
               PROVE  StoreInv' /\ DropsInOrder
    OBVIOUS
  <1>a. kept \in History
    BY DEF StoreInv, StoreTyped
  <1>b. UNCHANGED kept => DropsInOrder
    BY DEF DropsInOrder
  <1>c. SampleNotKept \/ (\E powerLoss \in BOOLEAN : Restart(powerLoss))
          \/ (\E lands, seen \in BOOLEAN : PostBatch(lands, seen)) => kept'.dropped = kept.dropped
    BY <1>a DEF SampleNotKept, Restart, PostBatch, History
  <1>d. FetchBatch \/ UploadFailed => UNCHANGED kept
    BY DEF FetchBatch, UploadFailed
  <1>e. kept'.dropped = kept.dropped => DropsInOrder
    BY DEF DropsInOrder
  <1> USE <1>b DEF StoreInv, StoreTyped, TableKnown, BatchKnown, ArrivalsKnown, TwiceUnmarked,
       NothingLostQuietly
  <1>1. CASE WakeUploader
    BY <1>1 DEF WakeUploader
  <1>2. CASE StopUploader
    BY <1>2 DEF StopUploader
  <1>3. CASE Ages
    <2>1. aged' \in 0..MaxReadings
      BY <1>3, TelemetryStoreAssumption DEF Ages, History
    <2> QED BY <1>3, <2>1 DEF Ages
  <1>4. CASE Checkpoint
    BY <1>4 DEF Checkpoint
  <1>5. CASE UNCHANGED storeVars
    BY <1>5 DEF storeVars
  <1> QED BY <1>1, <1>2, <1>3, <1>4, <1>5, <1>c, <1>d, <1>e, SampleStep, SampleNotKeptStep,
             SampleNotPrunedStep, FetchStep, PostBatchStep, UploadFailedStep, MarkSentStep, MarkFailsStep,
             RestartStep DEF StoreNext

\* The invariant says what the types are.
LEMMA StoreTypesKnown == StoreFlags /\ StoreInv => StoreTypeOK
  <1> SUFFICES ASSUME StoreFlags, StoreInv
               PROVE  StoreTypeOK
    OBVIOUS
  <1>1. ASSUME NEW t, TableKnown(t)
        PROVE  t \in [rows : SUBSET Row, next : 1..(MaxReadings + 1), room : Nat]
    <2>1. /\ t = [rows |-> t.rows, next |-> t.next, room |-> t.room] /\ t.rows \in SUBSET Row
          /\ t.room \in Nat
      BY <1>1 DEF TableKnown, RowsApart
    <2>2. t.next \in 1..(MaxReadings + 1)
      BY <1>1, TelemetryStoreAssumption DEF TableKnown, StoreInv, StoreTyped, History
    <2> QED BY <2>1, <2>2
  <1>2. uploaded \in BOOLEAN /\ running \in BOOLEAN
    BY Zenon DEF StoreFlags
  <1> QED BY <1>1, <1>2 DEF StoreInv, StoreTyped, BatchKnown, TableKnown, StoreTypeOK

\* No reading is lost in silence, none arrives twice unless its answer or its mark was lost or failed, the
\* table stays within its rows but for an append that no prune followed, and a sent row goes before an unsent one (telemetry_buffer.py, telemetry_uploader.py).
THEOREM ReadingsKept ==
  StoreSpec => [](StoreTypeOK /\ NothingLostQuietly /\ TwiceUnmarked) /\ SentGoFirst
  <1> DEFINE I == StoreFlags /\ StoreInv
  <1>1. StoreInit => I
    BY StoreStarts
  <1>2. I /\ [StoreNext]_storeVars => I'
    BY StoreFlagsStep, StoreStep
  <1>3. I => StoreTypeOK /\ NothingLostQuietly /\ TwiceUnmarked
    BY StoreTypesKnown DEF StoreInv, ArrivalsKnown
  <1>4. I /\ [StoreNext]_storeVars =>
          [kept'.dropped # kept.dropped => Unsent(table'.rows) = table'.rows]_storeVars
    BY StoreStep DEF DropsInOrder
  <1> HIDE DEF I
  <1> QED BY <1>1, <1>2, <1>3, <1>4, PTL DEF StoreSpec, SentGoFirst

-----------------------------------------------------------------------------
(* The services together: one moves and the others rest, so that each behaves as it does alone. *)

Parts ==
  /\ EventsSpec /\ StoreSpec /\ ReportsSpec /\ CardsSpec /\ ClockSpec /\ GapsSpec /\ WifiSpec /\ BeatsSpec
  /\ GuardSpec

\* A step is one of a service, and none of the others'.
LEMMA OneMoves ==
  [Next]_allVars =>
    /\ [EventsNext]_eventVars /\ [StoreNext]_storeVars /\ [ReportsNext]_reportVars /\ [CardsNext]_cardVars
    /\ [ClockNext]_clockVars /\ [GapsNext]_gapVars /\ [WifiNext]_wifiVars /\ [BeatsNext]_beatVars
    /\ [GuardNext]_guardVars
  BY DEF Next, allVars, EventsAlone, StoreAlone, ReportsAlone, CardsAlone, ClockAlone, GapsAlone, WifiAlone,
         BeatsAlone, GuardAlone

\* So every behaviour is one of each service.
LEMMA PartsRun == Spec => Parts
  <1>1. Init => /\ EventsInit /\ StoreInit /\ ReportsInit /\ CardsInit /\ ClockInit /\ GapsInit /\ WifiInit
                /\ BeatsInit /\ GuardInit
    BY DEF Init
  <1> QED BY <1>1, OneMoves, PTL
          DEF Spec, Parts, EventsSpec, StoreSpec, ReportsSpec, CardsSpec, ClockSpec, GapsSpec, WifiSpec,
              BeatsSpec, GuardSpec

\* The state of every service is of its type: no more rows in the table than it may hold, no more in a batch
\* than is asked, at most one thread that schedules the next beat.
THEOREM AllTyped == Spec => []TypesOK
  BY PartsRun, EventsKeepOrder, ReadingsKept, AcksGoInOrder, CardsArrive, ClockIsKnown, GapsAreExplained,
     WifiKeepsItsWord, BeatsKeepOn, GuardKeepsOff, PTL DEF Parts, TypesOK

\* What the node sends arrives in order and complete: events, acks, readings, card values and the last status.
THEOREM SentAsMeant == Spec => []NothingLostOrMixed
  BY PartsRun, EventsKeepOrder, ReadingsKept, AcksGoInOrder, CardsArrive, BeatsKeepOn, PTL
  DEF Parts, NothingLostOrMixed

\* What the node takes for true is: the backend's time, the clock's offset, a gap's cause, the heartbeat's
\* chain, a pump that runs dry.
THEOREM TakenForTrue == Spec => []NodeKnows
  BY PartsRun, ClockIsKnown, GapsAreExplained, BeatsKeepOn, GuardKeepsOff, PTL DEF Parts, NodeKnows

\* Room is made of what matters least, and the Wi-Fi's power saving is claimed by who turned it off.
THEOREM NeverBack == Spec => NoStepBack
  BY PartsRun, EventsKeepOrder, ReadingsKept, AcksGoInOrder, WifiKeepsItsWord, PTL DEF Parts, NoStepBack

=============================================================================
