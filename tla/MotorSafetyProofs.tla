------------------------- MODULE MotorSafetyProofs -------------------------
(***************************************************************************)
(* Theorems of MotorSafety, for every lockout and every wait: types, no    *)
(* forgotten motor, and no start while the E-stop, the guard or the power  *)
(* forbids one.                                                            *)
(***************************************************************************)
EXTENDS MotorSafety, TLAPS

\* The memories a runtime may have.
Memory ==
  [up : BOOLEAN, booted : BOOLEAN, latched : BOOLEAN, released : BOOLEAN,
   prevReset : {"none", "on", "off"}, mains : {"unknown", "present", "absent"},
   wait : {"none", "cut", "restoring", "restart"}, resumeIn : 0..ResumeAfter,
   awaitClock : BOOLEAN, tripped : BOOLEAN, lockLeft : 0..Lockout, lockOn : ClockStates,
   running : BOOLEAN, run : Runs, level : BOOLEAN, written : {"none", "on", "off"}, due : BOOLEAN]

PanelTypes   == button \in BOOLEAN /\ knob \in BOOLEAN /\ mains \in BOOLEAN /\ clock \in ClockStates
LineTypes    == line \in BOOLEAN /\ left \in 0..Deaths
HistoryTypes ==
  /\ owed \in BOOLEAN /\ cool \in 0..Lockout /\ dark \in 0..ResumeAfter
  /\ fresh \subseteq Obligations /\ lapsed \in BOOLEAN
FileTypes    == disk \in Records /\ writer \in [handed : BOOLEAN, record : Records]

TInv == PanelTypes /\ LineTypes /\ HistoryTypes /\ FileTypes /\ rt \in Memory

\* The newest record of a runtime: the one its writer holds, else the one on disk.
Newest == IF writer.handed THEN writer.record ELSE disk

\* What a record or a memory leaves of a lockout.
Keeps(tripped, for) == cool <= IF tripped THEN for ELSE 0

\* A press read is latched, in the memory and its newest record, and on disk once that record has landed;
\* a reset that goes on while the released button waits for it has paid for it, or could not be read.
LatchInv ==
  /\ rt.up => Newest.latched = rt.latched
  /\ rt.up /\ owed => rt.latched
  /\ owed /\ "press" \notin fresh => disk.latched
  /\ rt.up /\ rt.released /\ rt.prevReset = "off" /\ knob /\ ~button => ~owed \/ lapsed

\* What is left of a lockout is left in the memory and its newest record, and on disk once that record
\* has landed.
LockInv ==
  /\ rt.up => Keeps(rt.tripped, rt.lockLeft)
  /\ rt.up => Keeps(Newest.tripped, Newest.until)
  /\ "trip" \notin fresh => Keeps(disk.tripped, disk.until)

\* A wait lasts at least as long as mains asks for.
PowerInv ==
  /\ ~rt.up => dark = 0
  /\ rt.mains = "absent" <=> rt.wait = "cut"
  /\ CASE rt.wait = "none" -> dark = 0
       [] rt.wait = "restoring" \/ (rt.wait = "restart" /\ rt.booted) -> dark <= rt.resumeIn
       [] OTHER -> TRUE

\* A process that is down left no record with its writer.
DownInv == ~rt.up => ~writer.handed /\ fresh = {}

StartInv == LatchInv /\ LockInv /\ PowerInv /\ DownInv

-----------------------------------------------------------------------------
(* What the built-ins of a pass make of a memory: each keeps it one, and   *)
(* the fields it leaves alone.                                             *)

SameProcess(n, m) == n.up = m.up /\ n.booted = m.booted /\ n.written = m.written
SameEStop(n, m)   == n.latched = m.latched /\ n.released = m.released /\ n.prevReset = m.prevReset
SamePower(n, m)   == n.mains = m.mains /\ n.wait = m.wait /\ n.resumeIn = m.resumeIn
SameGuard(n, m)   == n.tripped = m.tripped /\ n.lockLeft = m.lockLeft /\ n.lockOn = m.lockOn

USE DEF SameProcess, SameEStop, SamePower, SameGuard

\* What a reading may be.
ButtonSigns == {"pressed", "released", "unreadable"}
ResetSigns  == {"on", "off", "unreadable"}
MainsSigns  == {"present", "absent", "unreadable"}

USE DEF ButtonSigns, ResetSigns, MainsSigns

\* A reset that goes on while the released button waits for it.
Clears(m, b, k) == b = "released" /\ m.released /\ k = "on" /\ m.prevReset = "off"

\* The wait of a restart, mains read, and the end of a wait.
LEMMA BootPassFacts ==
  ASSUME NEW m \in Memory, NEW p, p = BootPass(m)
  PROVE  /\ p \in Memory /\ p.up = m.up /\ p.booted /\ p.written = m.written /\ p.due = m.due
         /\ SameEStop(p, m) /\ SameGuard(p, m) /\ p.mains = m.mains /\ p.wait = m.wait
         /\ p.resumeIn = IF ~m.booted /\ m.wait = "restart" THEN ResumeAfter ELSE m.resumeIn
  <1>1. ResumeAfter \in 0..ResumeAfter
    BY MotorSafetyAssumption
  <1> QED BY <1>1 DEF BootPass, Memory

\* An interrupt of the runs leaves the process, the E-stop, the power and the guard as they are.
LEMMA InterruptFacts ==
  ASSUME NEW m \in Memory, NEW p, p = Interrupt(m)
  PROVE  /\ p \in Memory /\ p.due = m.due
         /\ SameProcess(p, m) /\ SameEStop(p, m) /\ SamePower(p, m) /\ SameGuard(p, m)
  <1> DEFINE to == IF m.run = "running" THEN "interrupted" ELSE m.run
  <1>1. to \in Runs
    BY DEF Memory, Runs
  <1>2. p = [m EXCEPT !.run = to, !.level = FALSE]
    BY DEF Interrupt
  <1> HIDE DEF to
  <1>3. p \in Memory
    BY <1>1, <1>2, ZenonT(30) DEF Memory
  <1>4. p.due = m.due /\ SameProcess(p, m) /\ SameEStop(p, m) /\ SamePower(p, m) /\ SameGuard(p, m)
    BY <1>2, SMTT(30) DEF Memory
  <1> QED BY <1>3, <1>4

\* The wait, and what is left of it, once mains is read.
SensedWait(m, r) ==
  IF r = "absent" /\ m.mains # "absent" THEN "cut"
  ELSE IF r = "present" /\ m.mains = "absent" THEN "restoring" ELSE m.wait
SensedLeft(m, r) ==
  IF r = "absent" /\ m.mains # "absent" THEN 0
  ELSE IF r = "present" /\ m.mains = "absent" THEN ResumeAfter ELSE m.resumeIn
SensedMains(m, r) == IF r = "unreadable" THEN m.mains ELSE r

\* The power sense changes the power's part of the memory only.
LEMMA SensePowerFacts ==
  ASSUME NEW m \in Memory, NEW r \in MainsSigns,
         NEW p, p = SensePower(m, r)
  PROVE  /\ p \in Memory
         /\ SameProcess(p, m) /\ SameEStop(p, m) /\ SameGuard(p, m) /\ p.due = m.due
         /\ p.mains = SensedMains(m, r) /\ p.wait = SensedWait(m, r) /\ p.resumeIn = SensedLeft(m, r)
  <1> USE DEF SensedMains, SensedWait, SensedLeft
  <1>1. ResumeAfter \in 0..ResumeAfter /\ 0 \in 0..ResumeAfter
    BY MotorSafetyAssumption
  <1>2. CASE r = "absent" /\ m.mains # "absent"
    <2> DEFINE i == Interrupt(m)
    <2>1. p = [i EXCEPT !.mains = "absent", !.wait = "cut", !.resumeIn = 0]
      BY <1>2 DEF SensePower
    <2>2. /\ i \in Memory /\ i.due = m.due
          /\ SameProcess(i, m) /\ SameEStop(i, m) /\ SameGuard(i, m)
      BY InterruptFacts
    <2> HIDE DEF i
    <2>3. p \in Memory
      BY <1>1, <2>1, <2>2, ZenonT(30) DEF Memory
    <2>4. /\ p.due = i.due /\ SameProcess(p, i) /\ SameEStop(p, i) /\ SameGuard(p, i)
          /\ p.mains = "absent" /\ p.wait = "cut" /\ p.resumeIn = 0
      BY <2>1, <2>2, SMTT(30) DEF Memory
    <2> QED BY <1>2, <2>2, <2>3, <2>4
  <1>3. CASE r = "present" /\ m.mains = "absent"
    <2>1. p = [m EXCEPT !.mains = "present", !.wait = "restoring", !.resumeIn = ResumeAfter]
      BY <1>3 DEF SensePower
    <2> QED BY <1>1, <1>3, <2>1 DEF Memory
  <1>4. CASE r = "present" /\ m.mains # "absent"
    <2>1. p = [m EXCEPT !.mains = "present"]
      BY <1>4 DEF SensePower
    <2> QED BY <1>4, <2>1 DEF Memory
  <1>5. CASE r = "unreadable" \/ (r = "absent" /\ m.mains = "absent")
    BY <1>5 DEF SensePower, Memory
  <1> QED BY <1>2, <1>3, <1>4, <1>5

\* Runs that resume change nothing else.
LEMMA ResumeRunsFacts ==
  ASSUME NEW m \in Memory, NEW over \in BOOLEAN, NEW p, p = ResumeRuns(m, over)
  PROVE  /\ p \in Memory /\ p.due = m.due
         /\ SameProcess(p, m) /\ SameEStop(p, m) /\ SamePower(p, m) /\ SameGuard(p, m)
  BY ZenonT(30) DEF ResumeRuns, Memory, Runs

\* The E-stop and the guard: what they make of the memory.
EStopAfter(e, m, b, k) ==
  /\ e.latched = (b # "released" \/ (m.latched /\ ~Clears(m, b, k)))
  /\ e.released = (e.latched /\ b = "released")
  /\ e.prevReset = IF k = "on" THEN "on" ELSE "off"
  /\ e.latched # m.latched => e.due

GuardAfter(e, m) ==
  \/ SameGuard(e, m) /\ ~(m.tripped /\ m.lockLeft = 0)
  \/ e.tripped = FALSE /\ m.tripped /\ m.lockLeft = 0 /\ e.lockOn = "trusted" /\ e.due
  \/ e.tripped /\ e.lockLeft = Lockout /\ e.lockOn = clock /\ e.due /\ (m.tripped => m.lockLeft = 0)

\* The E-stop block changes the E-stop's part of the memory only.
LEMMA EStopFacts ==
  ASSUME NEW m \in Memory, NEW e,
         NEW b \in ButtonSigns, NEW k \in ResetSigns, e = EStop(m, b, k)
  PROVE  e \in Memory /\ SameProcess(e, m) /\ SamePower(e, m) /\ SameGuard(e, m) /\ EStopAfter(e, m, b, k)
  <1> DEFINE latched == b # "released" \/ (m.latched /\ ~Clears(m, b, k))
  <1>1. e = [m EXCEPT !.latched = latched, !.released = latched /\ b = "released",
               !.prevReset = IF k = "on" THEN "on" ELSE "off",
               !.level = m.level /\ (m.latched \/ ~latched), !.due = m.due \/ latched # m.latched]
    BY DEF EStop, Clears
  <1>2. latched \in BOOLEAN
    BY DEF Clears
  <1> HIDE DEF latched
  <1> DEFINE released == latched /\ b = "released"
             prevReset == IF k = "on" THEN "on" ELSE "off"
             level == m.level /\ (m.latched \/ ~latched)
             due == m.due \/ latched # m.latched
  <1>3. /\ released \in BOOLEAN /\ prevReset \in {"none", "on", "off"} /\ level \in BOOLEAN
        /\ due \in BOOLEAN /\ (latched # m.latched => due)
    BY <1>2
  <1>4. e = [m EXCEPT !.latched = latched, !.released = released, !.prevReset = prevReset,
               !.level = level, !.due = due]
    BY <1>1
  <1> HIDE DEF released, prevReset, level, due
  <1>5. e \in Memory
    <2> DEFINE first  == [m EXCEPT !.latched = latched, !.released = released]
               second == [first EXCEPT !.prevReset = prevReset, !.level = level]
    <2>1. first \in Memory
      BY <1>2, <1>3 DEF Memory
    <2>2. e = [second EXCEPT !.due = due]
      BY <1>4
    <2> HIDE DEF first
    <2>3. second \in Memory
      BY <1>3, <2>1 DEF Memory
    <2> HIDE DEF second
    <2> QED BY <1>3, <2>2, <2>3 DEF Memory
  <1>6. /\ SameProcess(e, m) /\ SamePower(e, m) /\ SameGuard(e, m)
        /\ e.latched = latched /\ e.released = released /\ e.prevReset = prevReset /\ e.due = due
    <2>1. SameProcess(e, m) /\ SamePower(e, m) /\ SameGuard(e, m)
      BY <1>4 DEF Memory
    <2>2. e.latched = latched /\ e.released = released /\ e.prevReset = prevReset
      BY <1>4 DEF Memory
    <2>3. e.due = due
      BY <1>4 DEF Memory
    <2> QED BY <2>1, <2>2, <2>3
  <1> QED BY <1>3, <1>5, <1>6 DEF latched, released, prevReset, EStopAfter

\* A wait ends when its time is over: in a cut when the power is known to be absent.
LEMMA EndWaitFacts ==
  ASSUME NEW m \in Memory, NEW over \in BOOLEAN, NEW p, p = EndWait(m, over)
  PROVE  /\ p \in Memory /\ p.due = m.due /\ p.mains = m.mains /\ p.resumeIn = m.resumeIn
         /\ SameProcess(p, m) /\ SameEStop(p, m) /\ SameGuard(p, m)
         /\ p.wait = IF m.wait \in {"restoring", "restart"} /\ m.resumeIn = 0
                     THEN IF m.mains = "absent" THEN "cut" ELSE "none" ELSE m.wait
  <1> DEFINE waited == [m EXCEPT !.wait = "none", !.resumeIn = 0]
  <1>1. 0 \in 0..ResumeAfter
    BY MotorSafetyAssumption
  <1>2. waited \in Memory
    BY <1>1 DEF Memory
  <1>3. /\ SameProcess(waited, m) /\ SameEStop(waited, m) /\ SameGuard(waited, m)
        /\ waited.mains = m.mains /\ waited.due = m.due
    BY DEF Memory
  <1>4. waited.wait = "none" /\ waited.resumeIn = 0
    BY DEF Memory
  <1>5. CASE m.wait \in {"restoring", "restart"} /\ m.resumeIn = 0
    <2>1. CASE m.mains = "absent"
      <3>1. p = [m EXCEPT !.wait = "cut"]
        BY <1>5, <2>1 DEF EndWait
      <3> QED BY <1>5, <2>1, <3>1 DEF Memory
    <2>2. CASE m.mains # "absent" /\ ClockDecides(m, over)
      <3>1. p = ResumeRuns(waited, over)
        BY <1>5, <2>2 DEF EndWait
      <3> HIDE DEF waited
      <3> QED BY <1>2, <1>3, <1>4, <1>5, <2>2, <3>1, ResumeRunsFacts
    <2>3. CASE m.mains # "absent" /\ ~ClockDecides(m, over)
      <3>1. p = [waited EXCEPT !.awaitClock = TRUE]
        BY <1>5, <2>3 DEF EndWait
      <3> HIDE DEF waited
      <3>2. /\ p \in Memory /\ p.due = waited.due /\ SameProcess(p, waited)
            /\ SameEStop(p, waited) /\ SamePower(p, waited) /\ SameGuard(p, waited)
        BY <1>2, <3>1 DEF Memory
      <3> QED BY <1>3, <1>4, <1>5, <2>3, <3>2
    <2> QED BY <2>1, <2>2, <2>3
  <1>6. CASE ~(m.wait \in {"restoring", "restart"} /\ m.resumeIn = 0)
    <2>1. p = m \/ p = ResumeRuns(m, over)
      BY <1>6 DEF EndWait
    <2> QED BY <1>6, <2>1, ResumeRunsFacts
  <1> QED BY <1>5, <1>6

\* All of _power: what it makes of the runtime's wait.
BootedLeft(r) ==
  IF r = "absent" /\ rt.mains # "absent" THEN 0
  ELSE IF (r = "present" /\ rt.mains = "absent") \/ (~rt.booted /\ rt.wait = "restart")
       THEN ResumeAfter ELSE rt.resumeIn
PowerAfter(p, r) ==
  /\ p.mains = SensedMains(rt, r) /\ p.resumeIn = BootedLeft(r)
  /\ p.wait = IF SensedWait(rt, r) \in {"restoring", "restart"} /\ BootedLeft(r) = 0
              THEN IF p.mains = "absent" THEN "cut" ELSE "none" ELSE SensedWait(rt, r)

\* What the power blocks make of the memory.
LEMMA PoweredFacts ==
  ASSUME rt \in Memory, NEW r \in MainsSigns, NEW p \in Powered(r)
  PROVE  /\ p \in Memory /\ p.up = rt.up /\ p.booted /\ p.written = rt.written /\ p.due = rt.due
         /\ SameEStop(p, rt) /\ SameGuard(p, rt) /\ PowerAfter(p, r)
  <1> DEFINE b == BootPass(rt)
             s == SensePower(b, r)
  <1>1. PICK over \in BOOLEAN : p = EndWait(s, over)
    BY DEF Powered
  <1>2. /\ b \in Memory /\ b.up = rt.up /\ b.booted /\ b.written = rt.written
        /\ SameEStop(b, rt) /\ SameGuard(b, rt) /\ b.mains = rt.mains /\ b.wait = rt.wait /\ b.due = rt.due
        /\ b.resumeIn = IF ~rt.booted /\ rt.wait = "restart" THEN ResumeAfter ELSE rt.resumeIn
    BY BootPassFacts
  <1> HIDE DEF b
  <1>3. /\ s \in Memory
        /\ SameProcess(s, b) /\ SameEStop(s, b) /\ SameGuard(s, b) /\ s.due = b.due
        /\ s.mains = SensedMains(b, r) /\ s.wait = SensedWait(b, r) /\ s.resumeIn = SensedLeft(b, r)
    <2>1. s = SensePower(b, r)
      OBVIOUS
    <2> HIDE DEF s
    <2>2. b \in Memory
      BY <1>2
    <2> QED BY <2>1, <2>2, SensePowerFacts
  <1> HIDE DEF s
  <1>4. /\ p \in Memory
        /\ SameProcess(p, s) /\ SameEStop(p, s) /\ SameGuard(p, s) /\ p.mains = s.mains
        /\ p.resumeIn = s.resumeIn /\ p.due = s.due
        /\ p.wait = IF s.wait \in {"restoring", "restart"} /\ s.resumeIn = 0
                     THEN IF s.mains = "absent" THEN "cut" ELSE "none" ELSE s.wait
    BY <1>1, <1>3, EndWaitFacts
  <1>5. /\ p.mains = s.mains /\ p.resumeIn = s.resumeIn /\ b.mains = rt.mains /\ b.wait = rt.wait
    BY <1>2, <1>4
  <1>6. s.wait = SensedWait(rt, r) /\ s.resumeIn = BootedLeft(r) /\ s.mains = SensedMains(rt, r)
    BY <1>2, <1>3 DEF SensedMains, SensedWait, SensedLeft, BootedLeft
  <1>7. PowerAfter(p, r)
    BY <1>4, <1>5, <1>6 DEF PowerAfter
  <1> QED BY <1>2, <1>3, <1>4, <1>7

\* The E-stop and the guard.
LEMMA KeptFacts ==
  ASSUME NEW m \in Memory, NEW b \in ButtonSigns, NEW k \in ResetSigns,
         NEW e \in Kept(m, b, k), clock \in ClockStates
  PROVE  e \in Memory /\ SameProcess(e, m) /\ SamePower(e, m) /\ EStopAfter(e, m, b, k) /\ GuardAfter(e, m)
  <1> DEFINE s == EStop(m, b, k)
             x == Expire(s)
  <1>1. PICK bad \in BOOLEAN, ends \in BOOLEAN : e = Guards(s, bad, ends)
    BY DEF Kept
  <1>2. s \in Memory /\ SameProcess(s, m) /\ SamePower(s, m) /\ SameGuard(s, m) /\ EStopAfter(s, m, b, k)
    BY EStopFacts
  <1> HIDE DEF s
  <1>3. /\ x \in Memory
        /\ SameProcess(x, s) /\ SameEStop(x, s) /\ SamePower(x, s) /\ x.lockLeft = s.lockLeft
        /\ x.tripped = (s.tripped /\ s.lockLeft # 0)
        /\ IF s.tripped /\ s.lockLeft = 0 THEN x.lockOn = "trusted" /\ x.due
           ELSE x.lockOn = s.lockOn /\ x.due = s.due
    <2>1. CASE s.tripped /\ s.lockLeft = 0
      <3>1. x = [s EXCEPT !.tripped = FALSE, !.lockOn = "trusted", !.due = TRUE]
        BY <2>1 DEF Expire
      <3> HIDE DEF x
      <3>2. /\ x \in Memory /\ SameProcess(x, s) /\ SameEStop(x, s) /\ SamePower(x, s)
            /\ x.lockLeft = s.lockLeft
            /\ x.tripped = FALSE /\ x.lockOn = "trusted" /\ x.due
        BY <1>2, <3>1 DEF Memory, ClockStates
      <3> QED BY <2>1, <3>2
    <2>2. CASE ~(s.tripped /\ s.lockLeft = 0)
      <3>1. x = s
        BY <2>2 DEF Expire
      <3> HIDE DEF x
      <3>2. s.tripped \in BOOLEAN
        BY <1>2 DEF Memory
      <3> QED BY <1>2, <2>2, <3>1, <3>2
    <2> QED BY <2>1, <2>2
  <1> HIDE DEF x
  <1>4. e = x \/ (~x.tripped /\ e = Trip(x, ends))
    BY <1>1 DEF Guards, x
  <1>5. ASSUME ~x.tripped, e = Trip(x, ends)
        PROVE  /\ e \in Memory /\ e.tripped /\ e.lockLeft = Lockout /\ e.lockOn = clock /\ e.due
               /\ SameProcess(e, x) /\ SameEStop(e, x) /\ SamePower(e, x)
    <2>1. Lockout \in 0..Lockout
      BY MotorSafetyAssumption
    <2>2. x \in Memory
      BY <1>3
    <2> DEFINE to == IF ends /\ x.run = "running" THEN "none" ELSE x.run
    <2>3. to \in Runs
      BY <2>2 DEF Memory, Runs
    <2>4. e = [x EXCEPT !.tripped = TRUE, !.lockLeft = Lockout, !.lockOn = clock, !.level = FALSE,
                        !.due = TRUE, !.run = to]
      BY <1>5 DEF Trip
    <2> HIDE DEF to
    <2> QED BY <2>1, <2>2, <2>3, <2>4 DEF Memory
  <1>6. SameProcess(e, s) /\ SameEStop(e, s) /\ SamePower(e, s) /\ e \in Memory /\ (s.due => e.due)
    <2>1. CASE e = x
      BY <1>3, <2>1
    <2>2. CASE ~x.tripped /\ e = Trip(x, ends)
      BY <1>3, <1>5, <2>2
    <2> QED BY <1>4, <2>1, <2>2
  <1>7. EStopAfter(e, m, b, k)
    BY <1>2, <1>6 DEF EStopAfter
  <1>8. GuardAfter(e, m)
    <2>1. CASE e = x /\ s.tripped /\ s.lockLeft = 0
      <3>1. e.tripped = FALSE /\ e.lockOn = "trusted" /\ e.due
        BY <1>3, <2>1
      <3> QED BY <1>2, <2>1, <3>1 DEF GuardAfter
    <2>2. CASE e = x /\ ~(s.tripped /\ s.lockLeft = 0)
      <3>1. e.tripped = s.tripped /\ e.lockLeft = s.lockLeft /\ e.lockOn = s.lockOn
        BY <1>2, <1>3, <2>2 DEF Memory
      <3> QED BY <1>2, <2>2, <3>1 DEF GuardAfter
    <2>3. CASE ~x.tripped /\ e = Trip(x, ends)
      <3>1. e.tripped /\ e.lockLeft = Lockout /\ e.lockOn = clock /\ e.due
        BY <1>5, <2>3
      <3>2. s.tripped => s.lockLeft = 0
        BY <1>3, <2>3
      <3> QED BY <1>2, <3>1, <3>2 DEF GuardAfter
    <2> QED BY <1>4, <2>1, <2>2, <2>3
  <1> QED BY <1>2, <1>6, <1>7, <1>8

\* The program's wishes and the vetoes.
LEMMA AskedFacts ==
  ASSUME NEW m \in Memory, NEW a \in Asked(m)
  PROVE  /\ a \in Memory
         /\ SameProcess(a, m) /\ SameEStop(a, m) /\ SamePower(a, m) /\ SameGuard(a, m)
         /\ a.level => ~Vetoed(m)
         /\ m.due => a.due
  <1>1. PICK want \in BOOLEAN, next \in {"none", "running"} : a = Vetoes(Blocks(m, want, next))
    BY DEF Asked
  <1> DEFINE x == Blocks(m, want, next)
  <1>2. /\ x \in Memory
        /\ SameProcess(x, m) /\ SameEStop(x, m) /\ SamePower(x, m) /\ SameGuard(x, m)
        /\ m.due => x.due
    <2> DEFINE to == IF m.wait = "none" /\ ~m.latched /\ m.run # "interrupted" THEN next ELSE m.run
               due == m.due \/ m.run # next
    <2>1. x = [m EXCEPT !.level = want, !.due = due, !.run = to]
      BY DEF Blocks
    <2>2. to \in Runs /\ due \in BOOLEAN /\ (m.due => due)
      BY DEF Memory, Runs
    <2> HIDE DEF to, due, x
    <2> QED BY <2>1, <2>2 DEF Memory
  <1> HIDE DEF x
  <1>3. Vetoed(x) = Vetoed(m)
    BY <1>2 DEF Vetoed, LockedOut
  <1>4. a = Vetoes(x)
    BY <1>1 DEF x
  <1>5. Vetoed(x) \in BOOLEAN
    BY <1>2 DEF Vetoed, LockedOut
  <1> QED BY <1>2, <1>3, <1>4, <1>5, ZenonT(30) DEF Vetoes, Memory

\* The writes.
LEMMA FlushFacts ==
  ASSUME NEW m \in Memory, NEW ok \in BOOLEAN
  PROVE  LET z == [Flush(m, ok) EXCEPT !.due = FALSE] IN
         /\ z \in Memory
         /\ SameEStop(z, m) /\ SamePower(z, m) /\ SameGuard(z, m) /\ z.up = m.up /\ z.booted = m.booted
         /\ z.level = m.level
         /\ z.written = IF m.written = OnOff(m.level) \/ ~ok THEN m.written ELSE OnOff(m.level)
  <1> DEFINE z == [Flush(m, ok) EXCEPT !.due = FALSE]
  <1>1. CASE m.written = OnOff(m.level) \/ ~ok
    BY <1>1 DEF Flush, Memory
  <1>2. CASE ~(m.written = OnOff(m.level) \/ ~ok)
    <2>1. Flush(m, ok) = [m EXCEPT !.written = OnOff(m.level), !.running = m.level]
      BY <1>2 DEF Flush
    <2> DEFINE new == OnOff(m.level)
    <2>2. new \in {"none", "on", "off"} /\ m.level \in BOOLEAN
      BY DEF OnOff, Memory
    <2>3. z = [m EXCEPT !.written = new, !.running = m.level, !.due = FALSE]
      <3>1. Flush(m, ok) = [m EXCEPT !.written = new, !.running = m.level]
        BY <2>1
      <3> HIDE DEF new
      <3> QED BY <2>2, <3>1, ZenonT(30) DEF Memory
    <2> HIDE DEF new, z
    <2>4. /\ z \in Memory
          /\ SameEStop(z, m) /\ SamePower(z, m) /\ SameGuard(z, m) /\ z.up = m.up /\ z.booted = m.booted
          /\ z.level = m.level /\ z.written = new
      BY <2>2, <2>3, ZenonT(30) DEF Memory
    <2> QED BY <1>2, <2>4 DEF new, z
  <1> QED BY <1>1, <1>2

\* The readings, and what a record may hold.
LEMMA Readings ==
  /\ ButtonReadings \subseteq ButtonSigns
  /\ ResetReadings \subseteq ResetSigns
  /\ MainsReadings \subseteq MainsSigns
  /\ Writes \subseteq BOOLEAN
  BY DEF ButtonReadings, ResetReadings, MainsReadings, MayFail, Writes

\* The records and the memory that stand for nothing.
LEMMA RecordTypes ==
  /\ Nothing \in Records /\ NoWrite \in [handed : BOOLEAN, record : Records] /\ NoWrite.handed = FALSE
  /\ NoWrite.record = Nothing /\ Nothing.on = "trusted"
  /\ DownRt \in Memory /\ DownRt.up = FALSE /\ DownRt.written = "none" /\ DownRt.wait = "none"
  /\ DownRt.mains = "unknown"
  /\ DownRt.lockOn = "trusted" /\ ~DownRt.booted /\ ~DownRt.released
  <1>1. 0 \in 0..Lockout /\ 0 \in 0..ResumeAfter
    BY MotorSafetyAssumption
  <1>2. Nothing \in Records /\ Nothing.on = "trusted"
    BY <1>1 DEF Nothing, Records, ClockStates
  <1>3. NoWrite \in [handed : BOOLEAN, record : Records] /\ NoWrite.handed = FALSE /\ NoWrite.record = Nothing
    BY <1>2 DEF NoWrite
  <1>4. /\ DownRt \in Memory /\ DownRt.up = FALSE /\ DownRt.written = "none" /\ DownRt.wait = "none"
        /\ DownRt.mains = "unknown"
        /\ DownRt.lockOn = "trusted" /\ ~DownRt.booted /\ ~DownRt.released
    BY <1>1 DEF DownRt, Memory, Runs, ClockStates
  <1> QED BY <1>2, <1>3, <1>4

\* What is saved of the memory.
LEMMA ToStateTypes ==
  ASSUME NEW m \in Memory
  PROVE  /\ ToState(m) \in Records /\ ToState(m).latched = m.latched /\ ToState(m).tripped = m.tripped
         /\ ToState(m).until = m.lockLeft /\ ToState(m).on = m.lockOn
  BY DEF ToState, Records, Memory

\* What the writer gets.
LEMMA HandOverTypes ==
  ASSUME NEW m \in Memory, HandOver(m)
  PROVE  writer' \in [handed : BOOLEAN, record : Records] /\ writer'.handed /\ writer'.record = ToState(m)
  BY ToStateTypes DEF HandOver

-----------------------------------------------------------------------------
(* What a whole step does: the pass, and the load of a restart.            *)

\* What a pass leaves of the line, the memory and the record, by what its built-ins made of the memory.
Leaves(b, k, r, e) ==
  /\ rt' \in Memory /\ rt'.up = e.up /\ rt'.booted = e.booted
  /\ SameEStop(rt', e) /\ SamePower(rt', e) /\ SameGuard(rt', e)
  /\ Remember(b, k, r, e)
  /\ \/ line' = line /\ rt'.written = e.written
     \/ line' = TRUE /\ rt'.written = "on" /\ ~Vetoed(e)
     \/ line' = FALSE /\ rt'.written = "off"
  /\ HandOver(rt') \/ (~e.due /\ UNCHANGED writer)

\* A pass, from what its blocks read to what it leaves.
LEMMA PassLeaves ==
  ASSUME rt \in Memory, clock \in ClockStates, Pass
  PROVE  \E r \in MainsReadings, b \in ButtonReadings, k \in ResetReadings :
           \E p \in Powered(r) : \E e \in Kept(p, b, k) : Leaves(b, k, r, e)
  <1> DEFINE Ends(r, b, k, e, a, ok) ==
              /\ line' = LineAfter(a, ok)
              /\ rt' = [Flush(a, ok) EXCEPT !.due = FALSE]
              /\ Remember(b, k, r, e)
              /\ HandOver(rt') \/ (~a.due /\ UNCHANGED writer)
  <1>1. PICK r \in MainsReadings, b \in ButtonReadings, k \in ResetReadings :
          \E p \in Powered(r) : \E e \in Kept(p, b, k) : \E a \in Asked(e) :
            \E ok \in IF a.written = OnOff(a.level) THEN {TRUE} ELSE Writes : Ends(r, b, k, e, a, ok)
    BY ZenonT(20) DEF Pass
  <1>2. PICK p \in Powered(r) : \E e \in Kept(p, b, k) : \E a \in Asked(e) :
          \E ok \in IF a.written = OnOff(a.level) THEN {TRUE} ELSE Writes : Ends(r, b, k, e, a, ok)
    BY <1>1
  <1>3. PICK e \in Kept(p, b, k) : \E a \in Asked(e) :
          \E ok \in IF a.written = OnOff(a.level) THEN {TRUE} ELSE Writes : Ends(r, b, k, e, a, ok)
    BY <1>2
  <1> HIDE DEF Ends
  <1>4. PICK a \in Asked(e), ok \in BOOLEAN : Ends(r, b, k, e, a, ok)
    <2>1. Writes \subseteq BOOLEAN
      BY Readings
    <2>2. PICK a \in Asked(e) :
            \E ok \in IF a.written = OnOff(a.level) THEN {TRUE} ELSE Writes : Ends(r, b, k, e, a, ok)
      BY <1>3
    <2>3. PICK ok \in IF a.written = OnOff(a.level) THEN {TRUE} ELSE Writes : Ends(r, b, k, e, a, ok)
      BY <2>2
    <2>4. ok \in BOOLEAN
      BY <2>1
    <2> QED BY <2>3, <2>4
  <1>5. r \in MainsSigns /\ b \in ButtonSigns /\ k \in ResetSigns
    BY Readings
  <1>6. p \in Memory
    BY <1>5, PoweredFacts
  <1>7. e \in Memory
    BY <1>5, <1>6, KeptFacts
  <1>8. /\ a \in Memory /\ SameProcess(a, e) /\ SameEStop(a, e) /\ SamePower(a, e) /\ SameGuard(a, e)
        /\ (a.level => ~Vetoed(e)) /\ (e.due => a.due)
    BY <1>7, AskedFacts
  <1>9. /\ rt' \in Memory /\ SameEStop(rt', a) /\ SamePower(rt', a) /\ SameGuard(rt', a)
        /\ rt'.up = a.up /\ rt'.booted = a.booted
        /\ rt'.written = IF a.written = OnOff(a.level) \/ ~ok THEN a.written ELSE OnOff(a.level)
    BY <1>4, <1>8, FlushFacts DEF Ends
  <1>10. \/ line' = line /\ rt'.written = e.written
         \/ line' = TRUE /\ rt'.written = "on" /\ ~Vetoed(e)
         \/ line' = FALSE /\ rt'.written = "off"
    <2>1. CASE a.written = OnOff(a.level) \/ ~ok
      BY <1>4, <1>8, <1>9, <2>1 DEF Ends, LineAfter
    <2>2. CASE ~(a.written = OnOff(a.level) \/ ~ok)
      <3>1. line' = a.level /\ rt'.written = OnOff(a.level) /\ a.level \in BOOLEAN
        BY <1>4, <1>8, <1>9, <2>2 DEF Ends, LineAfter, Memory
      <3> QED BY <1>8, <3>1 DEF OnOff
    <2> QED BY <2>1, <2>2
  <1>11. HandOver(rt') \/ (~e.due /\ UNCHANGED writer)
    BY <1>4, <1>8 DEF Ends
  <1>12. Leaves(b, k, r, e)
    BY <1>4, <1>8, <1>9, <1>10, <1>11 DEF Leaves, Ends
  <1> QED BY <1>12

\* A pass, as one step of the runtime: some readings, and a memory made of them that it leaves.
PassMakes(r, b, k, e) ==
  /\ e \in Memory /\ e.up = rt.up /\ e.booted /\ e.written = rt.written
  /\ EStopAfter(e, rt, b, k) /\ GuardAfter(e, rt) /\ PowerAfter(e, r) /\ Leaves(b, k, r, e)

\* The same, with what its blocks made of the memory told by its parts.
LEMMA PassSteps ==
  ASSUME rt \in Memory, clock \in ClockStates, Pass
  PROVE  \E r \in MainsReadings, b \in ButtonReadings, k \in ResetReadings, e \in Memory : PassMakes(r, b, k, e)
  <1>1. PICK r \in MainsReadings, b \in ButtonReadings, k \in ResetReadings :
          \E p \in Powered(r) : \E e \in Kept(p, b, k) : Leaves(b, k, r, e)
    BY PassLeaves
  <1>2. PICK p \in Powered(r) : \E e \in Kept(p, b, k) : Leaves(b, k, r, e)
    BY <1>1
  <1>3. PICK e \in Kept(p, b, k) : Leaves(b, k, r, e)
    BY <1>2
  <1>4. /\ p \in Memory /\ p.up = rt.up /\ p.booted /\ p.written = rt.written
        /\ SameEStop(p, rt) /\ SameGuard(p, rt) /\ PowerAfter(p, r)
    BY Readings, PoweredFacts
  <1>5. e \in Memory /\ SameProcess(e, p) /\ SamePower(e, p) /\ EStopAfter(e, p, b, k) /\ GuardAfter(e, p)
    <2>1. p \in Memory
      BY <1>4
    <2>2. b \in ButtonSigns /\ k \in ResetSigns
      BY Readings
    <2> QED BY <2>1, <2>2, KeptFacts
  <1>6. EStopAfter(e, rt, b, k)
    <2>1. Clears(rt, b, k) = Clears(p, b, k)
      BY <1>4 DEF Clears
    <2> QED BY <1>4, <1>5, <2>1 DEF EStopAfter
  <1>7. GuardAfter(e, rt)
    BY <1>4, <1>5 DEF GuardAfter
  <1>8. PowerAfter(e, r)
    BY <1>4, <1>5 DEF PowerAfter
  <1> QED BY <1>3, <1>4, <1>5, <1>6, <1>7, <1>8 DEF PassMakes

-----------------------------------------------------------------------------
(* Types.                                                                  *)

\* A count one lower is a count.
LEMMA LessTypes ==
  ASSUME NEW N \in Nat, NEW n \in 0..N PROVE Less(n) \in 0..N /\ Less(n) <= n
  BY DEF Less

\* The types hold at the start.
LEMMA InitTInv == Init => TInv
  <1> SUFFICES ASSUME Init PROVE TInv
    OBVIOUS
  <1>1. 0 \in 0..Lockout /\ 0 \in 0..ResumeAfter /\ Deaths \in 0..Deaths
    BY MotorSafetyAssumption
  <1>2. PanelTypes /\ LineTypes /\ HistoryTypes
    BY <1>1, MotorSafetyAssumption DEF Init, PanelTypes, LineTypes, HistoryTypes
  <1> QED BY <1>2, RecordTypes DEF Init, TInv, FileTypes

\* A cold load keeps the types.
LEMMA ColdLoadTypes ==
  ASSUME TInv, ColdLoad
  PROVE  /\ rt' \in Memory /\ HandOver(rt') /\ rt'.up /\ ~rt'.booted /\ rt'.written = "none"
         /\ rt'.latched = disk.latched /\ ~rt'.released /\ rt'.mains = "unknown"
         /\ rt'.wait \in {"none", "restart"}
         /\ rt'.tripped = (LoadLockout(disk) > 0) /\ rt'.lockLeft = LoadLockout(disk)
         /\ rt'.lockOn \in {clock, "trusted"}
  <1>1. PICK goes \in BOOLEAN :
          rt' = [DownRt EXCEPT !.up = TRUE, !.latched = disk.latched, !.tripped = LoadLockout(disk) > 0,
              !.lockLeft = LoadLockout(disk), !.lockOn = IF LoadLockout(disk) > 0 THEN clock ELSE "trusted",
              !.run = IF disk.run /\ ~goes THEN "interrupted" ELSE "none",
              !.wait = IF disk.run /\ ~goes THEN "restart" ELSE "none", !.due = TRUE]
    BY DEF ColdLoad
  <1> DEFINE lock == LoadLockout(disk)
             on == IF LoadLockout(disk) > 0 THEN clock ELSE "trusted"
             run == IF disk.run /\ ~goes THEN "interrupted" ELSE "none"
             wait == IF disk.run /\ ~goes THEN "restart" ELSE "none"
             held == LoadLockout(disk) > 0
  <1>2. disk \in Records /\ clock \in ClockStates /\ Lockout \in Nat
    BY MotorSafetyAssumption DEF TInv, FileTypes, PanelTypes
  <1>3. lock \in 0..Lockout
    BY <1>2, MotorSafetyAssumption DEF LoadLockout, Records, ClockOk
  <1>4. on \in ClockStates /\ on \in {clock, "trusted"} /\ run \in Runs /\ wait \in {"none", "restart"}
        /\ held \in BOOLEAN /\ disk.latched \in BOOLEAN
    BY <1>2 DEF Runs, ClockStates, Records
  <1>5. rt' = [DownRt EXCEPT !.up = TRUE, !.latched = disk.latched, !.tripped = held,
              !.lockLeft = lock, !.lockOn = on, !.run = run, !.wait = wait, !.due = TRUE]
    BY <1>1
  <1>6. HandOver(rt')
    BY DEF ColdLoad
  <1> HIDE DEF lock, on, run, wait, held
  <1>7. /\ rt' \in Memory /\ rt'.up /\ ~rt'.booted /\ rt'.written = "none"
        /\ rt'.latched = disk.latched /\ ~rt'.released /\ rt'.mains = "unknown" /\ rt'.wait = wait
        /\ rt'.tripped = held /\ rt'.lockLeft = lock /\ rt'.lockOn = on
    <2> DEFINE half == [DownRt EXCEPT !.up = TRUE, !.latched = disk.latched, !.run = run, !.wait = wait]
    <2>1. DownRt \in Memory /\ DownRt.written = "none" /\ ~DownRt.booted /\ ~DownRt.released
          /\ DownRt.mains = "unknown"
      BY RecordTypes
    <2>2. /\ half \in Memory /\ half.up /\ half.latched = disk.latched /\ half.wait = wait
          /\ half.booted = DownRt.booted /\ half.written = DownRt.written
          /\ half.released = DownRt.released /\ half.mains = DownRt.mains
      BY <1>4, <2>1, ZenonT(30) DEF Memory
    <2>3. rt' = [half EXCEPT !.tripped = held, !.lockLeft = lock, !.lockOn = on, !.due = TRUE]
      BY <1>5, <2>1 DEF Memory
    <2> HIDE DEF half
    <2>4. /\ rt' \in Memory /\ rt'.tripped = held /\ rt'.lockLeft = lock /\ rt'.lockOn = on
          /\ SameProcess(rt', half) /\ SameEStop(rt', half) /\ SamePower(rt', half)
      BY <1>3, <1>4, <2>2, <2>3, ZenonT(30) DEF Memory
    <2> QED BY <2>1, <2>2, <2>3, <2>4
  <1> QED BY <1>4, <1>6, <1>7 DEF lock, held

\* A pass keeps the types.
LEMMA PassTInv ==
  ASSUME TInv, Pass PROVE TInv'
  <1> USE DEF TInv
  <1>1. PICK r \in MainsReadings, b \in ButtonReadings, k \in ResetReadings, e \in Memory : PassMakes(r, b, k, e)
    BY PassSteps DEF PanelTypes
  <1>2. Leaves(b, k, r, e)
    BY <1>1 DEF PassMakes
  <1>3. PanelTypes' /\ disk' = disk /\ left' = left
    BY DEF Pass, PanelTypes, world
  <1>4. line' \in BOOLEAN
    BY <1>2 DEF Leaves, LineTypes
  <1>5. HistoryTypes'
    <2>1. Lockout \in 0..Lockout /\ ResumeAfter \in 0..ResumeAfter
      BY MotorSafetyAssumption
    <2> QED BY <1>2, <2>1 DEF Leaves, Remember, HistoryTypes
  <1>6. rt' \in Memory
    BY <1>2 DEF Leaves
  <1>7. writer' \in [handed : BOOLEAN, record : Records]
    <2>1. HandOver(rt') \/ UNCHANGED writer
      BY <1>2 DEF Leaves
    <2>2. CASE HandOver(rt')
      BY <1>6, <2>2, HandOverTypes, ToStateTypes DEF HandOver
    <2> QED BY <2>1, <2>2 DEF FileTypes
  <1> QED BY <1>3, <1>4, <1>5, <1>6, <1>7 DEF LineTypes, FileTypes

\* A death keeps the types.
LEMMA DieTypes ==
  ASSUME TInv, NEW landed \in BOOLEAN, Die(landed), left > 0
  PROVE  /\ HistoryTypes' /\ rt' \in Memory /\ rt'.up = FALSE /\ left' \in 0..Deaths
         /\ writer' \in [handed : BOOLEAN, record : Records] /\ UNCHANGED <<button, knob, mains>>
  <1>1. /\ dark' = 0 /\ rt' = DownRt /\ left' = left - 1 /\ fresh' = {} /\ lapsed' = FALSE
        /\ writer' = NoWrite /\ UNCHANGED <<button, knob, mains>>
        /\ owed' \in BOOLEAN /\ cool' \in {cool, 0}
    BY DEF Die
  <1>2. left' \in 0..Deaths
    BY <1>1, MotorSafetyAssumption DEF TInv, LineTypes
  <1>3. 0 \in 0..ResumeAfter /\ 0 \in 0..Lockout
    BY MotorSafetyAssumption
  <1>4. HistoryTypes'
    BY <1>1, <1>3 DEF TInv, HistoryTypes
  <1> QED BY <1>1, <1>2, <1>4, RecordTypes

\* Time keeps the types.
LEMMA TickTypes ==
  ASSUME TInv, Tick
  PROVE  /\ HistoryTypes' /\ FileTypes' /\ rt' \in Memory
         /\ SameProcess(rt', rt) /\ SameEStop(rt', rt)
         /\ rt'.mains = rt.mains /\ rt'.wait = rt.wait /\ rt'.resumeIn = Less(rt.resumeIn)
         /\ rt'.tripped = rt.tripped /\ rt'.lockLeft = Less(rt.lockLeft) /\ rt'.lockOn = rt.lockOn
         /\ disk'.latched = disk.latched /\ disk'.tripped = disk.tripped /\ disk'.on = disk.on
         /\ disk'.until = Less(disk.until)
         /\ writer'.handed = writer.handed /\ writer'.record.latched = writer.record.latched
         /\ writer'.record.tripped = writer.record.tripped /\ writer'.record.on = writer.record.on
         /\ writer'.record.until = Less(writer.record.until)
  <1>1. Lockout \in Nat /\ ResumeAfter \in Nat
    BY MotorSafetyAssumption
  <1>2. /\ cool \in 0..Lockout /\ dark \in 0..ResumeAfter /\ rt \in Memory /\ disk \in Records
        /\ writer \in [handed : BOOLEAN, record : Records]
    BY DEF TInv, HistoryTypes, FileTypes
  <1>3. /\ rt.lockLeft \in 0..Lockout /\ rt.resumeIn \in 0..ResumeAfter
        /\ disk.until \in 0..Lockout /\ writer.record \in Records /\ writer.record.until \in 0..Lockout
    BY <1>2 DEF Memory, Records
  <1>4. /\ Less(rt.lockLeft) \in 0..Lockout /\ Less(disk.until) \in 0..Lockout
        /\ Less(writer.record.until) \in 0..Lockout /\ Less(cool) \in 0..Lockout
        /\ Less(rt.resumeIn) \in 0..ResumeAfter /\ Less(dark) \in 0..ResumeAfter
    BY <1>1, <1>2, <1>3, LessTypes
  <1>5. HistoryTypes'
    BY <1>2, <1>4 DEF Tick, TInv, HistoryTypes
  <1>6. /\ rt' \in Memory /\ SameProcess(rt', rt) /\ SameEStop(rt', rt)
        /\ rt'.mains = rt.mains /\ rt'.wait = rt.wait /\ rt'.resumeIn = Less(rt.resumeIn)
        /\ rt'.tripped = rt.tripped /\ rt'.lockLeft = Less(rt.lockLeft) /\ rt'.lockOn = rt.lockOn
    BY <1>2, <1>4 DEF Tick, Memory
  <1>7. /\ disk' \in Records /\ disk'.latched = disk.latched /\ disk'.tripped = disk.tripped
        /\ disk'.on = disk.on
        /\ disk'.until = Less(disk.until)
    BY <1>2, <1>4 DEF Tick, Records
  <1>8. /\ writer' \in [handed : BOOLEAN, record : Records]
        /\ writer'.handed = writer.handed /\ writer'.record.latched = writer.record.latched
        /\ writer'.record.tripped = writer.record.tripped /\ writer'.record.on = writer.record.on
        /\ writer'.record.until = Less(writer.record.until)
    <2>1. writer' = [writer EXCEPT !.record = [writer.record EXCEPT !.until = Less(writer.record.until)]]
      BY DEF Tick
    <2> DEFINE new == [writer.record EXCEPT !.until = Less(writer.record.until)]
    <2>2. /\ new \in Records /\ new.latched = writer.record.latched /\ new.tripped = writer.record.tripped
          /\ new.on = writer.record.on /\ new.until = Less(writer.record.until)
      BY <1>3, <1>4 DEF Records
    <2>3. writer' = [writer EXCEPT !.record = new]
      BY <2>1
    <2> HIDE DEF new
    <2>4. /\ writer' \in [handed : BOOLEAN, record : Records] /\ writer'.handed = writer.handed
          /\ writer'.record = new
      BY <1>2, <2>2, <2>3
    <2> QED BY <2>2, <2>4
  <1> QED BY <1>5, <1>6, <1>7, <1>8 DEF FileTypes

\* Every step keeps the types.
LEMMA NextTInv == TInv /\ [Next]_vars => TInv'
  <1> SUFFICES ASSUME TInv, [Next]_vars PROVE TInv'
    OBVIOUS
  <1> USE DEF TInv
  <1>1. CASE ColdLoad
    <2>1. rt' \in Memory /\ HandOver(rt')
      BY <1>1, ColdLoadTypes
    <2>2. writer' \in [handed : BOOLEAN, record : Records]
      BY <2>1, ToStateTypes DEF HandOver
    <2>3. HistoryTypes'
      BY <1>1, MotorSafetyAssumption DEF ColdLoad, HistoryTypes
    <2> QED BY <1>1, <2>1, <2>2, <2>3 DEF ColdLoad, world, PanelTypes, LineTypes, FileTypes
  <1>2. CASE Pass
    BY <1>2, PassTInv
  <1>3. CASE WriterLands
    BY <1>3, RecordTypes DEF WriterLands, world, PanelTypes, LineTypes, HistoryTypes, FileTypes
  <1>4. CASE Crash
    <2>1. Die(FALSE) /\ left > 0 /\ line' \in {line, FALSE} /\ UNCHANGED <<disk, clock>>
      BY <1>4 DEF Crash
    <2> QED BY <2>1, DieTypes DEF PanelTypes, LineTypes, FileTypes
  <1>5. CASE Reboot
    <2>1. Die(FALSE) /\ left > 0 /\ line' = FALSE /\ UNCHANGED disk /\ clock' \in ClockStates
      BY <1>5, MotorSafetyAssumption DEF Reboot
    <2> QED BY <2>1, DieTypes DEF PanelTypes, LineTypes, FileTypes
  <1>6. CASE Stop
    <2>1. line' \in BOOLEAN /\ left > 0 /\ UNCHANGED clock
      BY <1>6 DEF Stop, LineTypes
    <2>2. disk' \in Records
      BY <1>6, ToStateTypes DEF Stop, FileTypes
    <2>3. PICK landed \in BOOLEAN : Die(landed)
      BY <1>6 DEF Stop
    <2> QED BY <2>1, <2>2, <2>3, DieTypes DEF PanelTypes, LineTypes, FileTypes
  <1>7. CASE World
    <2>1. PanelTypes' /\ owed' \in BOOLEAN
      BY <1>7 DEF World, PushButton, ReleaseButton, PressReset, LetResetGo, MainsChange, ClockSet,
                  PanelTypes, HistoryTypes, ClockStates
    <2>2. HistoryTypes'
      BY <1>7, <2>1 DEF World, PanelTypes, HistoryTypes
    <2> QED BY <1>7, <2>1, <2>2 DEF World, LineTypes, FileTypes
  <1>8. CASE Tick
    BY <1>8, TickTypes DEF Tick, world, PanelTypes, LineTypes
  <1>9. CASE UNCHANGED vars
    BY <1>9 DEF vars, world, history, PanelTypes, LineTypes, HistoryTypes, FileTypes
  <1> QED BY <1>1, <1>2, <1>3, <1>4, <1>5, <1>6, <1>7, <1>8, <1>9 DEF Next

\* Every variable keeps its type.
THEOREM Types == Spec => []TypeOK
  <1>1. TInv => TypeOK
    BY DEF TInv, TypeOK, PanelTypes, LineTypes, HistoryTypes, FileTypes, Memory
  <1> QED BY <1>1, InitTInv, NextTInv, PTL DEF Spec

-----------------------------------------------------------------------------
(* The line, and what keeps it from going on.                              *)

\* What a step may do to the line: only a pass turns it on, and tells; only a stop and a death turn it
\* off without telling, and they end the memory.
LEMMA LineSteps ==
  ASSUME TInv, [Next]_vars
  PROVE  \/ line' = line /\ rt'.written = rt.written
         \/ line' \in {line, FALSE} /\ rt'.written = "none"
         \/ Pass /\ rt'.written = OnOff(line')
  <1> USE DEF TInv
  <1>1. CASE ColdLoad
    <2>1. rt'.written = "none"
      BY <1>1, ColdLoadTypes
    <2> QED BY <1>1, <2>1 DEF ColdLoad
  <1>2. CASE Pass
    <2>1. PICK r \in MainsReadings, b \in ButtonReadings, k \in ResetReadings, e \in Memory : PassMakes(r, b, k, e)
      BY <1>2, PassSteps DEF PanelTypes
    <2> QED BY <1>2, <2>1 DEF PassMakes, Leaves, OnOff
  <1>3. CASE Crash \/ Reboot
    BY <1>3, RecordTypes DEF Crash, Reboot, Die
  <1>4. CASE Stop
    BY <1>4, RecordTypes DEF Stop, Die
  <1>5. CASE Tick
    BY <1>5, TickTypes DEF Tick
  <1>6. CASE WriterLands \/ World \/ UNCHANGED vars
    BY <1>6 DEF WriterLands, World, vars
  <1> QED BY <1>1, <1>2, <1>3, <1>4, <1>5, <1>6 DEF Next

\* The node never takes the motor for off while its line is on (_flush).
THEOREM LineKnown == Spec => []NoForgottenMotor
  <1>1. Init => NoForgottenMotor
    BY DEF Init, NoForgottenMotor
  <1>2. TInv /\ NoForgottenMotor /\ [Next]_vars => NoForgottenMotor'
    BY LineSteps DEF NoForgottenMotor, OnOff
  <1> QED BY <1>1, <1>2, InitTInv, NextTInv, PTL DEF Spec

-----------------------------------------------------------------------------
(* The three promises about a start, whatever is lost or cannot be read:   *)
(* the history lets go of what the code lets go of, and of nothing more.   *)

\* What a readable button and reset show is what they are.
LEMMA ReadPanel ==
  ASSUME button \in BOOLEAN, knob \in BOOLEAN, NEW b \in ButtonReadings, NEW k \in ResetReadings
  PROVE  (b = "released" => ~button) /\ (k = "on" => knob) /\ (k = "off" => ~knob)
  BY DEF ButtonReadings, ResetReadings, MayFail

\* What a death leaves: no memory, no record with the writer, nothing of it in the history.
LEMMA DeathLeaves ==
  ASSUME Crash \/ Reboot \/ Stop
  PROVE  /\ rt.up /\ rt' = DownRt /\ ~rt'.up /\ writer' = NoWrite /\ ~writer'.handed /\ dark' = 0
         /\ fresh' = {} /\ UNCHANGED <<button, knob>>
  BY RecordTypes DEF Crash, Reboot, Stop, Die

\* And of what it is owed: either the memory is written on the way out, or what was not on disk is lost.
LEMMA DeathKeeps ==
  ASSUME TInv, Crash \/ Reboot \/ Stop
  PROVE  /\ (owed' => owed) /\ cool' \in {cool, 0}
         /\ \/ disk' = ToState(rt)
            \/ disk' = disk /\ (owed' => "press" \notin fresh) /\ ("trip" \in fresh => cool' = 0)
  <1>1. /\ Die(TRUE) \/ Die(FALSE)
        /\ Die(FALSE) \/ disk' = ToState(rt)
        /\ disk' = ToState(rt) \/ disk' = disk
    BY DEF Crash, Reboot, Stop
  <1>2. CASE Die(FALSE) /\ disk' = disk
    BY <1>2 DEF Die
  <1>3. CASE disk' = ToState(rt)
    BY <1>1, <1>3 DEF Die
  <1> QED BY <1>1, <1>2, <1>3

\* The record after a step that hands one over, and after one that does not.
LEMMA Handed ==
  ASSUME TInv, HandOver(rt'), rt' \in Memory
  PROVE  /\ Newest' = writer'.record /\ writer'.handed /\ Newest'.latched = rt'.latched
         /\ Newest'.tripped = rt'.tripped /\ Newest'.until = rt'.lockLeft
         /\ writer'.record.on = rt'.lockOn
  BY ToStateTypes DEF HandOver, Newest

\* Nothing written, nothing handed over: the newest record stays.
LEMMA NotHanded ==
  ASSUME UNCHANGED <<disk, writer>> PROVE Newest' = Newest
  BY DEF Newest

\* The writer's record lands, and is the newest as before.
LEMMA Landed ==
  ASSUME WriterLands PROVE Newest' = Newest /\ ~writer'.handed /\ disk' = Newest
  BY RecordTypes DEF WriterLands, Newest

\* Every step keeps a press that was read latched, in the memory and in the newest record.
LEMMA NextLatch ==
  ASSUME TInv, LatchInv, DownInv, [Next]_vars PROVE LatchInv' /\ DownInv'
  <1> USE DEF LatchInv, DownInv
  <1>0. /\ rt \in Memory /\ rt.latched \in BOOLEAN /\ rt.released \in BOOLEAN
        /\ button \in BOOLEAN /\ knob \in BOOLEAN
        /\ owed \in BOOLEAN /\ clock \in ClockStates /\ lapsed \in BOOLEAN
    BY DEF TInv, Memory, PanelTypes, HistoryTypes
  <1>1. CASE ColdLoad
    <2>1. rt' \in Memory /\ HandOver(rt') /\ rt'.up /\ rt'.latched = disk.latched /\ ~rt'.released
      BY <1>1, ColdLoadTypes
    <2>2. Newest'.latched = rt'.latched
      BY <2>1, Handed
    <2>3. ~rt.up /\ UNCHANGED <<owed, fresh, disk>>
      BY <1>1 DEF ColdLoad
    <2> QED BY <2>1, <2>2, <2>3
  <1>2. CASE Pass
    <2>1. PICK r \in MainsReadings, b \in ButtonReadings, k \in ResetReadings, e \in Memory : PassMakes(r, b, k, e)
      BY <1>0, <1>2, PassSteps
    <2>2. /\ EStopAfter(e, rt, b, k) /\ SameEStop(rt', e) /\ rt' \in Memory /\ rt'.up = rt.up /\ rt.up
          /\ HandOver(rt') \/ (~e.due /\ UNCHANGED writer)
      BY <1>2, <2>1 DEF PassMakes, Leaves, Pass
    <2>3. /\ owed' = (b # "released" \/ (owed /\ ~(lapsed /\ k = "on")))
          /\ lapsed' = (knob /\ k = "unreadable")
          /\ writer'.handed /\ owed' /\ ("press" \in fresh \/ ~owed) => "press" \in fresh'
      BY <2>1 DEF PassMakes, Leaves, Remember, Obligations
    <2>4. UNCHANGED <<button, knob, disk>>
      BY <1>2 DEF Pass, world
    <2>5. (b = "released" => ~button) /\ (k = "on" => knob) /\ (k = "off" => ~knob) /\ k \in ResetSigns
      BY <1>0, ReadPanel, Readings
    <2>6. Newest'.latched = rt'.latched
      <3>1. CASE HandOver(rt')
        BY <2>2, <3>1, Handed
      <3>2. CASE ~e.due /\ UNCHANGED writer
        <4>1. e.latched = rt.latched
          BY <2>2, <3>2 DEF EStopAfter
        <4> QED BY <2>2, <2>4, <3>2, <4>1, NotHanded
      <3> QED BY <2>2, <3>1, <3>2
    <2>7. owed' => rt'.latched
      <3>1. CASE b # "released"
        BY <2>2, <3>1 DEF EStopAfter
      <3>2. CASE b = "released" /\ owed /\ ~(lapsed /\ k = "on")
        <4>1. ~Clears(rt, b, k)
          BY <2>2, <2>5, <3>2 DEF Clears
        <4> QED BY <2>2, <3>2, <4>1 DEF EStopAfter
      <3> QED BY <2>3, <3>1, <3>2
    <2>8. owed' /\ "press" \notin fresh' => disk'.latched
      <3>1. CASE owed /\ "press" \notin fresh
        BY <2>4, <3>1
      <3>2. CASE ~writer'.handed
        BY <2>6, <2>7, <3>2 DEF Newest
      <3> QED BY <2>3, <3>1, <3>2
    <2>9. rt'.prevReset = "off" /\ knob' => lapsed'
      BY <2>2, <2>3, <2>4, <2>5 DEF EStopAfter
    <2> QED BY <2>2, <2>6, <2>7, <2>8, <2>9
  <1>3. CASE WriterLands
    <2>1. Newest' = Newest /\ disk' = Newest /\ writer.handed /\ UNCHANGED <<rt, owed, lapsed, button, knob>>
          /\ fresh' = {} /\ ~writer'.handed
      BY <1>3, Landed DEF WriterLands, world
    <2> QED BY <2>1
  <1>4. CASE Crash \/ Reboot \/ Stop
    <2>1. owed' => disk'.latched
      <3>1. CASE disk' = ToState(rt)
        BY <1>0, <1>4, <3>1, DeathLeaves, DeathKeeps, ToStateTypes
      <3>2. CASE disk' = disk /\ (owed' => "press" \notin fresh)
        BY <1>4, <3>2, DeathKeeps
      <3> QED BY <1>4, <3>1, <3>2, DeathKeeps
    <2> QED BY <1>4, <2>1, DeathLeaves
  <1>5. CASE World
    <2>1. Newest' = Newest /\ UNCHANGED <<rt, writer, disk>> /\ lapsed' = (lapsed /\ knob')
          /\ fresh' = {what \in fresh : what = "press" => owed'}
      BY <1>5, NotHanded DEF World
    <2>2. owed' => owed
      BY <1>0, <1>5 DEF World, PushButton, ReleaseButton, PressReset, LetResetGo, MainsChange, ClockSet
    <2>3. rt.up /\ rt.released /\ rt.prevReset = "off" /\ knob' /\ ~button' => ~owed' \/ lapsed'
      BY <1>0, <1>5, <2>1
         DEF World, PushButton, ReleaseButton, PressReset, LetResetGo, MainsChange, ClockSet, Unread
    <2> QED BY <2>1, <2>2, <2>3
  <1>6. CASE Tick
    <2>1. Newest'.latched = Newest.latched
      BY <1>6, TickTypes DEF Newest
    <2>2. UNCHANGED <<owed, lapsed, button, knob>> /\ fresh' = {what \in fresh : what = "trip" => cool' > 0}
      BY <1>6 DEF Tick, world
    <2>3. "press" \in fresh' <=> "press" \in fresh
      BY <2>2
    <2>4. rt.up \/ fresh' = {}
      BY <2>2
    <2> QED BY <1>6, <2>1, <2>2, <2>3, <2>4, TickTypes
  <1>7. CASE UNCHANGED vars
    BY <1>7, NotHanded DEF vars, world, history
  <1> QED BY <1>1, <1>2, <1>3, <1>4, <1>5, <1>6, <1>7 DEF Next

\* Every step keeps the lock as long as the memory and the record say.
LEMMA NextLock ==
  ASSUME TInv, LockInv, DownInv, [Next]_vars PROVE LockInv'
  <1> USE DEF LockInv, DownInv, Keeps
  <1>0. /\ rt \in Memory /\ cool \in 0..Lockout /\ clock \in ClockStates /\ disk \in Records
        /\ writer \in [handed : BOOLEAN, record : Records] /\ Lockout \in Nat /\ Lockout > 0
    BY MotorSafetyAssumption DEF TInv, PanelTypes, HistoryTypes, FileTypes
  <1>00. /\ rt.tripped \in BOOLEAN /\ rt.lockLeft \in 0..Lockout /\ disk.tripped \in BOOLEAN
         /\ disk.until \in 0..Lockout
         /\ writer.handed \in BOOLEAN /\ writer.record.tripped \in BOOLEAN
         /\ writer.record.until \in 0..Lockout
    BY <1>0 DEF Memory, Records
  <1>1. CASE ColdLoad
    <2>1. /\ rt' \in Memory /\ HandOver(rt') /\ rt'.up
          /\ rt'.tripped = (LoadLockout(disk) > 0) /\ rt'.lockLeft = LoadLockout(disk)
      BY <1>1, ColdLoadTypes
    <2>2. ~rt.up /\ UNCHANGED <<fresh, disk>> /\ cool' = IF EndForgotten THEN 0 ELSE cool
      BY <1>1 DEF ColdLoad
    <2>3. LoadLockout(disk) \in 0..Lockout /\ cool' <= LoadLockout(disk) /\ cool' \in 0..Lockout
      <3>1. cool <= IF disk.tripped THEN disk.until ELSE 0
        BY <2>2
      <3>2. CASE EndForgotten
        BY <1>0, <1>00, <2>2, <3>2 DEF LoadLockout
      <3>3. CASE ~EndForgotten
        BY <1>0, <1>00, <2>2, <3>1, <3>3 DEF LoadLockout, EndForgotten
      <3> QED BY <3>2, <3>3
    <2>4. cool' <= (IF rt'.tripped THEN rt'.lockLeft ELSE 0)
      <3> DEFINE lock == LoadLockout(disk)
      <3>1. rt'.tripped = (lock > 0) /\ rt'.lockLeft = lock /\ lock \in 0..Lockout /\ cool' <= lock
        BY <2>1, <2>3
      <3> HIDE DEF lock
      <3>2. CASE lock = 0
        BY <1>0, <3>1, <3>2
      <3>3. CASE lock > 0
        BY <1>0, <3>1, <3>3
      <3> QED BY <1>0, <3>1, <3>2, <3>3
    <2>5. Newest'.tripped = rt'.tripped /\ Newest'.until = rt'.lockLeft
      BY <2>1, Handed
    <2>6. cool' <= (IF disk'.tripped THEN disk'.until ELSE 0)
      <3>1. cool <= IF disk.tripped THEN disk.until ELSE 0
        BY <2>2
      <3> QED BY <1>0, <1>00, <2>2, <3>1
    <2> QED BY <2>4, <2>5, <2>6
  <1>2. CASE Pass
    <2>1. PICK r \in MainsReadings, b \in ButtonReadings, k \in ResetReadings, e \in Memory : PassMakes(r, b, k, e)
      BY <1>0, <1>2, PassSteps
    <2>2. /\ GuardAfter(e, rt) /\ SameGuard(rt', e) /\ rt' \in Memory /\ rt'.up /\ rt.up
          /\ HandOver(rt') \/ (~e.due /\ UNCHANGED writer)
      BY <1>2, <2>1 DEF PassMakes, Leaves, Pass
    <2>3. /\ cool' = (IF Trips(e) THEN Lockout ELSE cool)
          /\ writer'.handed /\ (Trips(e) \/ "trip" \in fresh) => "trip" \in fresh'
      BY <2>1 DEF PassMakes, Leaves, Remember, Obligations
    <2>4. disk' = disk
      BY <1>2 DEF Pass
    <2>5. cool' <= (IF rt'.tripped THEN rt'.lockLeft ELSE 0)
      <3>1. CASE SameGuard(e, rt) /\ ~(rt.tripped /\ rt.lockLeft = 0)
        BY <1>0, <1>00, <2>2, <2>3, <3>1 DEF Trips
      <3>2. CASE e.tripped = FALSE /\ rt.tripped /\ rt.lockLeft = 0 /\ e.lockOn = "trusted" /\ e.due
        BY <1>0, <1>00, <2>2, <2>3, <3>2 DEF Trips
      <3>3. CASE e.tripped /\ e.lockLeft = Lockout /\ e.lockOn = clock /\ e.due /\ (rt.tripped => rt.lockLeft = 0)
        BY <1>0, <1>00, <2>2, <2>3, <3>3 DEF Trips
      <3> QED BY <2>2, <3>1, <3>2, <3>3 DEF GuardAfter
    <2>6. cool' <= (IF Newest'.tripped THEN Newest'.until ELSE 0)
      <3>1. CASE HandOver(rt')
        <4>1. Newest'.tripped = rt'.tripped /\ Newest'.until = rt'.lockLeft
          BY <2>2, <3>1, Handed
        <4> QED BY <2>5, <4>1
      <3>2. CASE ~e.due /\ UNCHANGED writer
        <4>1. Newest' = Newest
          BY <2>4, <3>2, NotHanded
        <4>2. ~Trips(e)
          BY <1>0, <1>00, <2>2, <3>2 DEF GuardAfter, Trips
        <4> QED BY <2>2, <2>3, <4>1, <4>2
      <3> QED BY <2>2, <3>1, <3>2
    <2>7. "trip" \notin fresh' => cool' <= (IF disk'.tripped THEN disk'.until ELSE 0)
      <3>1. CASE ~writer'.handed
        BY <2>6, <3>1 DEF Newest
      <3>2. CASE ~Trips(e) /\ "trip" \notin fresh
        BY <2>3, <2>4, <3>2
      <3> QED BY <2>3, <3>1, <3>2
    <2> QED BY <2>5, <2>6, <2>7
  <1>3. CASE WriterLands
    <2>1. Newest' = Newest /\ disk' = Newest /\ rt.up /\ UNCHANGED <<rt, cool>>
      BY <1>3, Landed DEF WriterLands
    <2> QED BY <2>1
  <1>4. CASE Crash \/ Reboot \/ Stop
    <2>1. rt.up /\ ~rt'.up /\ cool' \in {cool, 0}
      BY <1>4, DeathLeaves, DeathKeeps
    <2>2. cool' <= (IF disk'.tripped THEN disk'.until ELSE 0)
      <3>1. CASE disk' = disk /\ ("trip" \in fresh => cool' = 0)
        BY <1>0, <1>00, <2>1, <3>1
      <3>2. CASE disk' = ToState(rt)
        <4>1. disk'.tripped = rt.tripped /\ disk'.until = rt.lockLeft
          BY <1>0, <3>2, ToStateTypes
        <4> QED BY <1>0, <1>00, <2>1, <4>1
      <3> QED BY <1>4, <3>1, <3>2, DeathKeeps
    <2> QED BY <2>1, <2>2
  <1>5. CASE World
    <2>1. Newest' = Newest /\ UNCHANGED <<rt, writer, disk, cool>>
          /\ fresh' = {what \in fresh : what = "press" => owed'}
      BY <1>5, NotHanded DEF World
    <2>2. "trip" \in fresh' <=> "trip" \in fresh
      BY <2>1
    <2> QED BY <2>1, <2>2
  <1>6. CASE Tick
    <2>1. Newest.tripped \in BOOLEAN /\ Newest.until \in 0..Lockout
      BY <1>0, <1>00 DEF Newest
    <2>2. Newest'.tripped = Newest.tripped /\ Newest'.until = Less(Newest.until)
      BY <1>6, TickTypes DEF Newest
    <2>3. /\ cool' = Less(cool) /\ rt'.up = rt.up /\ rt'.tripped = rt.tripped
          /\ rt'.lockLeft = Less(rt.lockLeft)
          /\ disk'.tripped = disk.tripped /\ disk'.until = Less(disk.until)
          /\ fresh' = {what \in fresh : what = "trip" => cool' > 0}
      BY <1>6, TickTypes DEF Tick
    <2>4. Keeps(rt.tripped, rt.lockLeft) => cool' <= (IF rt'.tripped THEN rt'.lockLeft ELSE 0)
      BY <1>0, <1>00, <2>3 DEF Less
    <2>5. rt.up => Less(cool) <= IF Newest.tripped THEN Less(Newest.until) ELSE 0
      <3>1. rt.up => cool <= IF Newest.tripped THEN Newest.until ELSE 0
        OBVIOUS
      <3> QED BY <1>0, <2>1, <3>1 DEF Less
    <2>6. Keeps(disk.tripped, disk.until) => cool' <= (IF disk'.tripped THEN disk'.until ELSE 0)
      BY <1>0, <1>00, <2>3 DEF Less
    <2>7. "trip" \notin fresh' => cool' <= (IF disk'.tripped THEN disk'.until ELSE 0)
      <3>1. CASE "trip" \notin fresh
        BY <2>6, <3>1
      <3>2. CASE ~(cool' > 0)
        <4>1. cool' = 0 /\ disk'.until \in Nat
          BY <1>0, <1>00, <2>3, <3>2 DEF Less
        <4> QED BY <4>1
      <3> QED BY <2>3, <3>1, <3>2
    <2> QED BY <2>2, <2>3, <2>4, <2>5, <2>7
  <1>7. CASE UNCHANGED vars
    BY <1>7, NotHanded DEF vars, world, history
  <1> QED BY <1>1, <1>2, <1>3, <1>4, <1>5, <1>6, <1>7 DEF Next

\* Every step keeps a wait as long as the mains asks for.
LEMMA NextPower ==
  ASSUME TInv, PowerInv, [Next]_vars PROVE PowerInv'
  <1> USE DEF PowerInv
  <1>0. /\ rt \in Memory /\ dark \in 0..ResumeAfter /\ clock \in ClockStates /\ ResumeAfter \in Nat
        /\ ResumeAfter > 0
        /\ rt.resumeIn \in 0..ResumeAfter /\ rt.mains \in {"unknown", "present", "absent"}
        /\ rt.wait \in {"none", "cut", "restoring", "restart"}
    BY MotorSafetyAssumption DEF TInv, PanelTypes, HistoryTypes, Memory
  <1>1. CASE ColdLoad
    <2>1. rt'.up /\ ~rt'.booted /\ rt'.mains = "unknown" /\ rt'.wait \in {"none", "restart"}
      BY <1>1, ColdLoadTypes
    <2>2. dark' = 0
      BY <1>1 DEF ColdLoad
    <2> QED BY <2>1, <2>2
  <1>2. CASE Pass
    <2>1. PICK r \in MainsReadings, b \in ButtonReadings, k \in ResetReadings, e \in Memory : PassMakes(r, b, k, e)
      BY <1>0, <1>2, PassSteps
    <2>2. r \in MainsSigns
      BY Readings
    <2>3. /\ PowerAfter(e, r) /\ SamePower(rt', e) /\ rt'.up /\ rt'.booted
          /\ dark' = IF r = "absent" \/ (~rt.booted /\ rt.wait = "restart") THEN ResumeAfter ELSE dark
      BY <1>2, <2>1 DEF PassMakes, Leaves, Remember, Pass
    <2>4. /\ rt'.mains = SensedMains(rt, r) /\ rt'.resumeIn = BootedLeft(r)
          /\ rt'.wait = IF SensedWait(rt, r) \in {"restoring", "restart"} /\ BootedLeft(r) = 0
                        THEN IF rt'.mains = "absent" THEN "cut" ELSE "none" ELSE SensedWait(rt, r)
      BY <2>3 DEF PowerAfter
    <2>5. CASE r = "absent"
      <3>1. SensedWait(rt, r) = "cut" /\ SensedMains(rt, r) = "absent"
        BY <2>5 DEF SensedWait, SensedMains
      <3> QED BY <2>3, <2>4, <3>1
    <2>6. CASE r = "present" /\ rt.mains = "absent"
      <3>1. SensedWait(rt, r) = "restoring" /\ SensedMains(rt, r) = "present" /\ BootedLeft(r) = ResumeAfter
        BY <2>6 DEF SensedWait, SensedMains, BootedLeft
      <3>2. dark' <= ResumeAfter
        BY <1>0, <2>3
      <3> QED BY <1>0, <2>3, <2>4, <3>1, <3>2
    <2>7. CASE r # "absent" /\ ~(r = "present" /\ rt.mains = "absent")
      <3>1. SensedWait(rt, r) = rt.wait /\ (SensedMains(rt, r) = "absent" <=> rt.mains = "absent")
        BY <2>2, <2>7 DEF SensedWait, SensedMains
      <3>2. CASE ~rt.booted /\ rt.wait = "restart"
        <4>1. BootedLeft(r) = ResumeAfter /\ dark' = ResumeAfter
          BY <2>3, <2>7, <3>2 DEF BootedLeft
        <4> QED BY <1>0, <2>3, <2>4, <3>1, <3>2, <4>1
      <3>3. CASE ~(~rt.booted /\ rt.wait = "restart")
        <4>1. BootedLeft(r) = rt.resumeIn /\ dark' = dark
          BY <2>3, <2>7, <3>3 DEF BootedLeft
        <4>2. CASE rt.wait \in {"restoring", "restart"} /\ rt.resumeIn = 0
          <5>1. dark' = 0 /\ rt'.wait = "none" /\ rt'.mains # "absent"
            BY <1>0, <2>4, <3>1, <3>3, <4>1, <4>2
          <5> QED BY <2>3, <5>1
        <4>3. CASE ~(rt.wait \in {"restoring", "restart"} /\ rt.resumeIn = 0)
          <5>1. /\ rt'.wait = rt.wait /\ rt'.resumeIn = rt.resumeIn /\ dark' = dark
                /\ (rt'.mains = "absent" <=> rt.mains = "absent")
            BY <2>4, <3>1, <4>1, <4>3
          <5> QED BY <1>0, <2>3, <3>3, <5>1
        <4> QED BY <4>2, <4>3
      <3> QED BY <3>2, <3>3
    <2> QED BY <2>5, <2>6, <2>7
  <1>3. CASE Crash \/ Reboot \/ Stop
    BY <1>3, DeathLeaves, RecordTypes
  <1>4. CASE Tick
    <2>1. /\ dark' = (IF rt.mains = "absent" THEN dark ELSE Less(dark)) /\ rt'.resumeIn = Less(rt.resumeIn)
          /\ rt'.up = rt.up /\ rt'.booted = rt.booted /\ rt'.mains = rt.mains /\ rt'.wait = rt.wait
      BY <1>4, TickTypes DEF Tick
    <2>2. dark = 0 => dark' = 0
      BY <2>1 DEF Less
    <2>3. dark <= rt.resumeIn /\ rt.mains # "absent" => dark' <= rt'.resumeIn
      BY <1>0, <2>1 DEF Less
    <2> QED BY <1>0, <2>1, <2>2, <2>3
  <1>5. CASE WriterLands \/ World \/ UNCHANGED vars
    BY <1>5 DEF WriterLands, World, vars, history
  <1> QED BY <1>1, <1>2, <1>3, <1>4, <1>5 DEF Next

\* A step that starts the motor leaves a memory that forbids it nothing.
LEMMA Unforbidden ==
  ASSUME TInv, [Next]_vars, Starts
  PROVE  rt'.up /\ ~rt'.latched /\ rt'.wait = "none" /\ ~(rt'.tripped /\ rt'.lockLeft > 0)
  <1>1. line' = TRUE /\ line = FALSE
    BY DEF Starts, TInv, LineTypes
  <1>2. CASE Pass
    <2>1. rt \in Memory /\ clock \in ClockStates /\ rt.up
      BY <1>2 DEF TInv, PanelTypes, Pass
    <2>2. PICK r \in MainsReadings, b \in ButtonReadings, k \in ResetReadings, e \in Memory : PassMakes(r, b, k, e)
      BY <1>2, <2>1, PassSteps
    <2>3. /\ rt'.up = e.up /\ e.up = rt.up /\ SameEStop(rt', e) /\ SamePower(rt', e) /\ SameGuard(rt', e)
          /\ ~Vetoed(e)
      BY <1>1, <2>2 DEF PassMakes, Leaves
    <2> QED BY <2>1, <2>3 DEF Vetoed, LockedOut
  <1>3. CASE ~Pass
    BY <1>1, <1>3, LineSteps
  <1> QED BY <1>2, <1>3

\* No motor starts while mains is sensed absent, nor before it is back for ResumeAfter (_power, _vetoes).
THEOREM NoStartWithoutPower == Spec => [][PowerHonoured]_vars
  <1>1. Init => PowerInv
    BY RecordTypes DEF Init, PowerInv
  <1>2. TInv /\ TInv' /\ PowerInv' /\ [Next]_vars => [PowerHonoured]_vars
    BY Unforbidden DEF PowerInv, PowerHonoured
  <1> QED BY <1>1, <1>2, InitTInv, NextTInv, NextPower, PTL DEF Spec

\* Whatever asks for it, through deaths between any two steps, lost records, inputs that cannot be read and
\* clocks set wrong: the motor does not start while its E-stop is latched, its lockout runs, or mains is
\* absent or not long back (_estop, _vetoes, guard.py load_state, _power).
THEOREM NoUnsafeStart == Spec => StartsAllowed
  <1>1. Init => StartInv
    <2> SUFFICES ASSUME Init PROVE StartInv
      OBVIOUS
    <2>1. /\ ~rt.up /\ rt.wait = "none" /\ rt.mains = "unknown"
          /\ ~writer.handed /\ fresh = {} /\ ~owed /\ cool = 0 /\ dark = 0 /\ disk = Nothing
      BY RecordTypes DEF Init
    <2>2. disk.tripped = FALSE
      BY <2>1 DEF Nothing
    <2> QED BY <2>1, <2>2 DEF StartInv, LatchInv, LockInv, PowerInv, DownInv, Keeps
  <1>2. TInv /\ StartInv /\ [Next]_vars => StartInv'
    BY NextLatch, NextLock, NextPower DEF StartInv
  <1>3. ASSUME TInv, TInv', StartInv', [Next]_vars PROVE LatchHonoured /\ LockoutHonoured /\ PowerHonoured
    <2>1. CASE Starts
      <3>1. rt'.up /\ ~rt'.latched /\ rt'.wait = "none" /\ ~(rt'.tripped /\ rt'.lockLeft > 0)
        BY <1>3, <2>1, Unforbidden
      <3>2. ~owed'
        BY <1>3, <3>1 DEF StartInv, LatchInv
      <3>3. cool' = 0
        <4>1. /\ rt'.tripped \in BOOLEAN /\ rt'.lockLeft \in 0..Lockout /\ cool' \in 0..Lockout
              /\ Lockout \in Nat
          BY <1>3, MotorSafetyAssumption DEF TInv, HistoryTypes, Memory
        <4> QED BY <1>3, <3>1, <4>1 DEF StartInv, LockInv, Keeps
      <3>4. dark' = 0
        BY <1>3, <3>1 DEF StartInv, PowerInv
      <3> QED BY <3>2, <3>3, <3>4 DEF LatchHonoured, LockoutHonoured, PowerHonoured
    <2>2. CASE ~Starts
      BY <2>2 DEF LatchHonoured, LockoutHonoured, PowerHonoured
    <2> QED BY <2>1, <2>2
  <1>4. TInv /\ TInv' /\ StartInv' /\ [Next]_vars => [LatchHonoured /\ LockoutHonoured /\ PowerHonoured]_vars
    BY <1>3
  <1> QED BY <1>1, <1>2, <1>4, InitTInv, NextTInv, PTL DEF Spec, StartsAllowed
=============================================================================
