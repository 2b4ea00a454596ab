------------------------- MODULE CommandReplayProofs -------------------------
(***************************************************************************)
(* Theorems of CommandReplay, for any ids, window, size of the set, clock  *)
(* and length of the journal.                                              *)
(*                                                                         *)
(* The argument for NeverTwice: a command carried out is on disk, in the   *)
(* snapshot or in a readable line of the journal (Recorded); whatever is   *)
(* on disk is in the set in memory while the gate takes commands, or will  *)
(* be once the journal is read (Remembers); and the set, with its floor,   *)
(* never lets go of what it covers (RememberedCovers).                     *)
(***************************************************************************)
EXTENDS CommandReplay, FiniteSetTheorems, TLAPS

\* On disk so that a load finds it: in the snapshot, or in a line of the journal from the k-th on.
InJournal(id, k) == \E n \in k..Len(journal) : journal[n] = id
Recorded(id) == Covers(snap, id) \/ InJournal(id, 1)

\* The set in memory holds what is on disk, or will when the load is over.
Remembers ==
  \A id \in Ids : Recorded(id) =>
    \/ pc = "down" \/ Covers(mem, id)
    \/ pc = "load" /\ InJournal(id, at)

\* What is recorded or carried out is a command.
HandFull == pc \in {"append", "carry"} => cur # NoId

\* The command in hand has not been carried out, is remembered, and is recorded before it is.
InHand ==
  cur # NoId =>
       /\ pc \in {"append", "snapshot", "truncate", "carry"}
       /\ runs[cur] = 0 \/ cur \in lost
       /\ Covers(mem, cur)
       /\ pc = "append" \/ Recorded(cur) \/ cur \in lost

\* A part of a line is only ever there before the load's compaction, which empties the journal.
TornOnlyAtStart ==
  torn => /\ TornAppends
          /\ pc \in {"down", "load", "snapshot", "truncate"}
          /\ cur = NoId

\* A command carried out is on disk, unless its line could not be written.
CarriedRecorded == \A id \in Ids : runs[id] >= 1 => Recorded(id) \/ id \in lost

Inv ==
  /\ ReplayTypeOK
  /\ CarriedRecorded /\ NeverTwice
  /\ HandFull /\ Remembers /\ InHand /\ TornOnlyAtStart
  /\ pc = "truncate" => snap = mem
  /\ pc = "down" => mem = Empty

-----------------------------------------------------------------------------
\* What the set is after an id came in: a set, no larger than Cap, that covers what it covered, and
\* that id.
LEMMA RememberedCovers ==
  ASSUME NEW m \in Sets, Cardinality(m.seen) <= Cap, NEW id \in Ids, NEW r \in Remembering(m, id)
  PROVE  /\ r \in Sets /\ Cardinality(r.seen) <= Cap
         /\ Covers(r, id)
         /\ \A j \in Ids : Covers(m, j) => Covers(r, j)
  <1> DEFINE high == Bigger(m.high, SigTs[id])
             kept == InWindow(m.seen \cup {id}, high)
  <1>1. /\ m.seen \subseteq Ids /\ m.high \in Nat /\ m.evicted \in Nat \cup {-1}
        /\ \A i \in Ids : SigTs[i] \in Nat
        /\ Window \in Nat /\ Cap \in Nat
    BY CommandReplayAssumption DEF Sets
  <1>2. high \in Nat /\ high >= m.high /\ high >= SigTs[id]
    BY <1>1 DEF Bigger
  <1>3. kept \subseteq Ids /\ \A i \in kept : SigTs[i] >= high - Window
    BY <1>1 DEF InWindow
  <1>4. \A j \in m.seen \cup {id} : j \in kept \/ SigTs[j] < high - Window
    <2> HIDE DEF high
    <2> QED BY <1>1, <1>2 DEF InWindow
  <1>5. IsFiniteSet(m.seen) /\ IsFiniteSet(kept) /\ Cardinality(kept) \in Nat /\ Cardinality(kept) <= Cap + 1
    <2>1. IsFiniteSet(m.seen) /\ IsFiniteSet(m.seen \cup {id})
      BY <1>1, FS_Subset, FS_AddElement, CommandReplayAssumption
    <2>2. Cardinality(m.seen \cup {id}) <= Cap + 1
      <3>1. Cardinality(m.seen \cup {id}) = IF id \in m.seen THEN Cardinality(m.seen) ELSE Cardinality(m.seen) + 1
        BY <2>1, FS_AddElement
      <3>2. Cardinality(m.seen) \in Nat
        BY <2>1, FS_CardinalityType
      <3> QED BY <1>1, <3>1, <3>2
    <2>3. kept \subseteq m.seen \cup {id}
      BY DEF InWindow
    <2> HIDE DEF kept
    <2>4. IsFiniteSet(kept) /\ Cardinality(kept) <= Cardinality(m.seen \cup {id})
      BY <2>1, <2>3, FS_Subset
    <2> QED BY <1>1, <2>1, <2>2, <2>4, FS_CardinalityType
  <1>6. CASE Cardinality(kept) <= Cap
    <2>1. r = [m EXCEPT !.seen = kept, !.high = high]
      BY <1>6 DEF Remembering
    <2> HIDE DEF kept, high
    <2>2. r.seen = kept /\ r.high = high /\ r.evicted = m.evicted /\ r \in Sets
      BY <1>1, <1>2, <1>3, <2>1 DEF Sets
    <2> QED BY <1>1, <1>2, <1>3, <1>4, <1>6, <2>2 DEF Covers, Floor, Bigger
  <1>7. CASE ~(Cardinality(kept) <= Cap)
    <2>1. PICK o \in Oldest(kept) : r = [seen |-> kept \ {o}, high |-> high, evicted |-> Bigger(m.evicted, SigTs[o])]
      BY <1>7 DEF Remembering
    <2> HIDE DEF kept, high
    <2>2. o \in kept /\ o \in Ids
      BY <1>3 DEF Oldest
    <2>3. /\ r.seen = kept \ {o} /\ r.high = high
          /\ r.evicted \in Nat /\ r.evicted >= m.evicted /\ r.evicted >= SigTs[o]
      BY <1>1, <2>1, <2>2 DEF Bigger
    <2>4. r \in Sets
      BY <1>2, <1>3, <2>1, <2>3 DEF Sets
    <2>5. Cardinality(r.seen) <= Cap
      <3>1. Cardinality(kept \ {o}) = Cardinality(kept) - 1
        BY <1>5, <2>2, FS_RemoveElement
      <3> QED BY <1>1, <1>5, <2>3, <3>1
    <2>6. Covers(r, id) /\ \A j \in Ids : Covers(m, j) => Covers(r, j)
      BY <1>1, <1>2, <1>3, <1>4, <2>2, <2>3 DEF Covers, Floor, Bigger
    <2> QED BY <2>4, <2>5, <2>6
  <1> QED BY <1>6, <1>7

\* The empty set covers nothing.
LEMMA EmptyCovers == Empty \in Sets /\ Cardinality(Empty.seen) <= Cap /\ \A id \in Ids : ~Covers(Empty, id)
  <1>1. Cardinality(Empty.seen) = 0
    BY FS_EmptySet DEF Empty
  <1> QED BY <1>1, CommandReplayAssumption DEF Empty, Sets, Covers, Floor, Bigger

\* A journal with a whole line more, and no part of one before it, has that line.
LEMMA WithLineHas ==
  ASSUME journal \in Seq(Ids \cup {NoId}), cur \in Ids, NEW k \in Nat \ {0}
  PROVE  /\ WithLine(cur) \in Seq(Ids \cup {NoId})
         /\ Len(WithLine(cur)) = Len(journal) + 1
         /\ \A n \in 1..Len(journal) : WithLine(cur)[n] = journal[n]
         /\ WithLine(cur)[Len(journal) + 1] = IF torn THEN NoId ELSE cur
  BY DEF WithLine

\* The program starts with nothing accepted.
LEMMA InitInv == ASSUME ReplayInit PROVE Inv
  <1>1. Sets # {} /\ Empty \in Sets /\ Cardinality(Empty.seen) <= Cap
    BY EmptyCovers
  <1>2. ReplayTypeOK
    <2>1. journal \in Seq(Ids \cup {NoId}) /\ runs \in [Ids -> Nat]
      BY DEF ReplayInit
    <2>2. lines \in Nat /\ at \in Nat \ {0}
      BY DEF ReplayInit
    <2>3. pc \in Pcs /\ torn \in BOOLEAN
      BY Zenon DEF ReplayInit, Pcs
    <2> QED BY <1>1, <2>1, <2>2, <2>3 DEF ReplayInit, ReplayTypeOK
  <1>3. HandFull /\ Remembers /\ InHand /\ TornOnlyAtStart /\ CarriedRecorded /\ NeverTwice
    BY EmptyCovers DEF ReplayInit, HandFull, CarriedRecorded, Remembers, InHand, TornOnlyAtStart, NeverTwice
  <1> QED BY <1>2, <1>3 DEF ReplayInit, Inv

\* Every step leaves a command in the hand that records or carries out.
LEMMA StepFull == ASSUME ReplayTypeOK, HandFull, [ReplayNext]_replayVars PROVE HandFull'
  <1>1. CASE Start \/ LoadLine \/ Loaded
    BY <1>1 DEF HandFull, Start, LoadLine, Loaded
  <1>2. CASE Snapshot \/ Truncate
    BY <1>2 DEF HandFull, Snapshot, Truncate, AfterCompact
  <1>3. ASSUME NEW id \in Ids, Admit(id) PROVE HandFull'
    BY <1>3, CommandReplayAssumption DEF HandFull, Admit
  <1>4. CASE AppendLine \/ Carry \/ Crash
    BY <1>4 DEF HandFull, AppendLine, Carry, Crash
  <1>5. CASE UNCHANGED replayVars
    BY <1>5 DEF HandFull, replayVars
  <1> QED BY <1>1, <1>2, <1>3, <1>4, <1>5 DEF ReplayNext

\* Every step keeps the types.
LEMMA StepTyped == ASSUME ReplayTypeOK, HandFull, [ReplayNext]_replayVars PROVE ReplayTypeOK'
  <1> USE DEF ReplayTypeOK
  <1>1. CASE Start
    BY <1>1 DEF Start, disk, Pcs
  <1>2. CASE LoadLine
    <2>1. mem' \in Sets /\ Cardinality(mem'.seen) <= Cap
      <3>1. CASE journal[at] = NoId
        BY <1>2, <3>1 DEF LoadLine
      <3>2. CASE journal[at] # NoId
        <4>1. journal[at] \in Ids /\ mem' \in Remembering(mem, journal[at])
          BY <1>2, <3>2 DEF LoadLine
        <4> QED BY <4>1, RememberedCovers
      <3> QED BY <3>1, <3>2
    <2> QED BY <1>2, <2>1 DEF LoadLine, disk
  <1>3. CASE Loaded
    BY <1>3 DEF Loaded, disk, Pcs
  <1>4. CASE Snapshot
    BY <1>4 DEF Snapshot, AfterCompact, Pcs
  <1>5. CASE Truncate
    <2>1. journal' \in Seq(Ids \cup {NoId})
      <3>1. journal' = <<>> \/ journal' = journal
        BY <1>5, Zenon DEF Truncate
      <3>2. <<>> \in Seq(Ids \cup {NoId})
        OBVIOUS
      <3> QED BY <3>1, <3>2, Zenon
    <2>4. lines' \in Nat
      BY <1>5 DEF Truncate
    <2>3. torn' \in BOOLEAN
      BY <1>5, Zenon DEF Truncate
    <2>2. pc' \in Pcs
      BY <1>5 DEF Truncate, AfterCompact, Pcs
    <2> QED BY <1>5, <2>1, <2>2, <2>3, <2>4 DEF Truncate
  <1>6. ASSUME NEW id \in Ids, Admit(id) PROVE ReplayTypeOK'
    <2>1. mem' \in Sets /\ Cardinality(mem'.seen) <= Cap
      BY <1>6, RememberedCovers DEF Admit
    <2> QED BY <1>6, <2>1 DEF Admit, disk, Pcs
  <1>7. CASE AppendLine
    <2>1. cur \in Ids \cup {NoId} => WithLine(cur) \in Seq(Ids \cup {NoId})
      BY DEF WithLine
    <2>2. journal' \in Seq(Ids \cup {NoId}) /\ torn' \in BOOLEAN
      BY <1>7, <2>1 DEF AppendLine
    <2>3. pc' \in Pcs /\ lines' \in Nat
      BY <1>7 DEF AppendLine, Pcs
    <2>4. lost' \subseteq Ids
      BY <1>7 DEF AppendLine, HandFull
    <2> QED BY <1>7, <2>2, <2>3, <2>4 DEF AppendLine
  <1>8. CASE Carry
    <2>1. cur \in Ids /\ runs' \in [Ids -> Nat]
      BY <1>8 DEF Carry, HandFull
    <2>2. pc' \in Pcs /\ cur' \in Ids \cup {NoId}
      BY <1>8 DEF Carry, Pcs
    <2> QED BY <1>8, <2>1, <2>2 DEF Carry, disk
  <1>9. CASE Crash
    <2>1. WithLine(cur) \in Seq(Ids \cup {NoId})
      BY DEF WithLine
    <2>2. journal' \in Seq(Ids \cup {NoId}) /\ torn' \in BOOLEAN /\ snap' = snap
      BY <1>9, <2>1 DEF Crash, disk
    <2>3. lines' \in Nat /\ at' \in Nat \ {0} /\ pc' \in Pcs
      BY <1>9 DEF Crash, Pcs
    <2> QED BY <1>9, <2>2, <2>3, EmptyCovers DEF Crash
  <1>10. CASE UNCHANGED replayVars
    BY <1>10 DEF replayVars, disk
  <1> QED BY <1>1, <1>2, <1>3, <1>4, <1>5, <1>6, <1>7, <1>8, <1>9, <1>10 DEF ReplayNext

\* Every variable keeps its type, and the set never holds more ids than Cap.
THEOREM TypeCorrect == ReplaySpec => []ReplayTypeOK
  <1>1. ReplayInit => ReplayTypeOK /\ HandFull
    BY InitInv DEF Inv
  <1>2. ReplayTypeOK /\ HandFull /\ [ReplayNext]_replayVars => (ReplayTypeOK /\ HandFull)'
    BY StepTyped, StepFull
  <1> QED BY <1>1, <1>2, PTL DEF ReplaySpec

-----------------------------------------------------------------------------
(* NeverTwice.  A leaf about the disk needs how a line more reads.         *)

\* With a line more in the journal, what was recorded still is, and nothing is but that and the line's id.
LEMMA RecordedAfterLine ==
  ASSUME ReplayTypeOK, cur \in Ids, snap' = snap, journal' = WithLine(cur), NEW id \in Ids
  PROVE  /\ Recorded(id) => Recorded(id)'
         /\ Recorded(id)' => Recorded(id) \/ id = cur
         /\ ~torn /\ id = cur => Recorded(id)'
  <1>1. journal \in Seq(Ids \cup {NoId}) /\ Len(journal) \in Nat
    BY DEF ReplayTypeOK
  <1>2. /\ Len(journal') = Len(journal) + 1
        /\ \A n \in 1..Len(journal) : journal'[n] = journal[n]
        /\ journal'[Len(journal) + 1] = IF torn THEN NoId ELSE cur
    BY <1>1, WithLineHas
  <1>3. Covers(snap, id)' = Covers(snap, id)
    BY DEF Covers, Floor, Bigger
  <1>4. InJournal(id, 1) => InJournal(id, 1)'
    BY <1>1, <1>2 DEF InJournal
  <1>5. InJournal(id, 1)' => InJournal(id, 1) \/ id = cur
    BY <1>1, <1>2, CommandReplayAssumption DEF InJournal
  <1>6. ~torn /\ id = cur => InJournal(id, 1)'
    <2>1. Len(journal) + 1 \in 1..Len(journal')
      BY <1>1, <1>2
    <2> QED BY <1>2, <2>1 DEF InJournal
  <1> QED BY <1>3, <1>4, <1>5, <1>6 DEF Recorded

\* With the disk as it was, so is what is recorded.
LEMMA RecordedSame ==
  ASSUME snap' = snap, journal' = journal, NEW id
  PROVE  Recorded(id)' = Recorded(id)
  BY DEF Recorded, Covers, InJournal

\* Every step keeps the invariant, when no write that fails leaves a part of a line behind.
LEMMA StepInv ==
  ASSUME ~(WriteMayFail /\ TornAppends), Inv, [ReplayNext]_replayVars
  PROVE  Inv'
  <1>0. ReplayTypeOK' /\ HandFull'
    BY StepTyped, StepFull DEF Inv
  <1>t. ReplayTypeOK /\ HandFull
    BY DEF Inv
  <1>1. CASE Start
    <2>1. /\ pc = "down" /\ pc' = "load" /\ at' = 1 /\ mem' = snap
          /\ UNCHANGED <<snap, journal, torn, cur, runs, lost>>
      BY <1>1 DEF Start, disk
    <2>2. \A id \in Ids : Recorded(id)' = Recorded(id)
      BY <2>1, RecordedSame
    <2>3. Remembers'
      BY <2>1, <2>2 DEF Remembers, Recorded, InJournal, Covers
    <2> QED BY <1>0, <2>1, <2>2, <2>3 DEF Inv, CarriedRecorded, NeverTwice, InHand, TornOnlyAtStart
  <1>2. CASE LoadLine
    <2>1. /\ pc = "load" /\ pc' = "load" /\ at <= Len(journal) /\ at' = at + 1
          /\ UNCHANGED <<snap, journal, torn, cur, runs, lost>>
      BY <1>2 DEF LoadLine, disk
    <2>2. \A id \in Ids : Recorded(id)' = Recorded(id)
      BY <2>1, RecordedSame
    <2>3. \A id \in Ids : (Covers(mem, id) => Covers(mem', id)) /\ (id = journal[at] => Covers(mem', id))
      <3>1. CASE journal[at] = NoId
        BY <1>2, <3>1, CommandReplayAssumption DEF LoadLine
      <3>2. CASE journal[at] # NoId
        <4>1. journal[at] \in Ids /\ mem' \in Remembering(mem, journal[at])
          BY <1>t, <1>2, <3>2 DEF LoadLine, ReplayTypeOK
        <4> QED BY <1>t, <4>1, RememberedCovers DEF ReplayTypeOK
      <3> QED BY <3>1, <3>2
    <2>4. \A id \in Ids : InJournal(id, at) => id = journal[at] \/ InJournal(id, at)'
      <3>1. at \in Nat /\ Len(journal) \in Nat
        BY <1>t DEF ReplayTypeOK
      <3> QED BY <2>1, <3>1 DEF InJournal
    <2>5. Remembers'
      <3>1. \A id \in Ids : Covers(mem, id)' = Covers(mem', id)
        BY DEF Covers, Floor, Bigger
      <3> QED BY <2>1, <2>2, <2>3, <2>4, <3>1 DEF Remembers, Inv
    <2> QED BY <1>0, <2>1, <2>2, <2>5 DEF Inv, CarriedRecorded, NeverTwice, InHand, TornOnlyAtStart
  <1>3. CASE Loaded
    <2>1. /\ pc = "load" /\ at > Len(journal) /\ UNCHANGED <<mem, snap, journal, torn, cur, runs, lost>>
          /\ pc' \in {"up", "snapshot"} /\ (torn => pc' = "snapshot")
      <3>1. Len(journal) + 1 > 0
        BY <1>t DEF ReplayTypeOK
      <3> QED BY <1>3, <3>1 DEF Loaded, disk
    <2>2. \A id \in Ids : Recorded(id)' = Recorded(id)
      BY <2>1, RecordedSame
    <2>3. \A id \in Ids : ~InJournal(id, at) /\ Covers(mem, id)' = Covers(mem, id)
      BY <1>t, <2>1 DEF InJournal, ReplayTypeOK, Covers
    <2>4. Remembers'
      BY <2>1, <2>2, <2>3 DEF Remembers, Inv
    <2> QED BY <1>0, <2>1, <2>2, <2>4 DEF Inv, CarriedRecorded, NeverTwice, InHand, TornOnlyAtStart
  <1>4. CASE Snapshot
    <2>1. /\ pc = "snapshot" /\ UNCHANGED <<mem, journal, torn, cur, runs, lost>>
          /\ \/ snap' = mem /\ pc' = "truncate"
             \/ snap' = snap /\ WriteMayFail /\ pc' = IF cur = NoId THEN "up" ELSE "carry"
      BY <1>4 DEF Snapshot, AfterCompact
    <2>2. \A id \in Ids : Covers(mem, id)' = Covers(mem, id) /\ Covers(snap, id)' = Covers(snap', id)
      BY <2>1 DEF Covers, Floor
    <2>3. \A id \in Ids : (Recorded(id) => Recorded(id)') /\ (Recorded(id)' => Covers(mem, id))
      BY <2>1, <2>2 DEF Recorded, InJournal, Inv, Remembers
    <2>4. Remembers' /\ CarriedRecorded' /\ NeverTwice'
      BY <2>1, <2>2, <2>3 DEF Remembers, Inv, CarriedRecorded, NeverTwice
    <2>5. InHand'
      <3>1. cur # NoId => cur \in Ids /\ (Recorded(cur) => Recorded(cur)') /\ Covers(mem, cur)' = Covers(mem, cur)
        BY <1>t, <2>1, <2>2, <2>3 DEF ReplayTypeOK, Recorded, Covers, InJournal
      <3> QED BY <2>1, <3>1 DEF InHand, Inv
    <2>6. TornOnlyAtStart'
      BY <2>1 DEF Inv, TornOnlyAtStart
    <2> QED BY <1>0, <2>1, <2>4, <2>5, <2>6 DEF Inv
  <1>5. CASE Truncate
    <2>1. /\ pc = "truncate" /\ UNCHANGED <<mem, snap, cur, runs, lost>> /\ snap = mem
          /\ pc' = IF cur = NoId THEN "up" ELSE "carry"
          /\ journal' = <<>> \/ journal' = journal
          /\ torn' => torn /\ WriteMayFail
      BY <1>5 DEF Truncate, AfterCompact, Inv
    <2>2. \A id \in Ids : Covers(mem, id)' = Covers(mem, id) /\ Covers(snap, id)' = Covers(mem, id)
      BY <2>1 DEF Covers, Floor
    <2>3. \A id \in Ids : Recorded(id) => Covers(mem, id)
      BY <2>1 DEF Inv, Remembers
    <2>4. \A id \in Ids : InJournal(id, 1)' => InJournal(id, 1)
      BY <2>1 DEF InJournal
    <2>5. \A id \in Ids : (Recorded(id) => Recorded(id)') /\ (Recorded(id)' => Covers(mem, id))
      BY <2>1, <2>2, <2>3, <2>4 DEF Recorded
    <2>6. Remembers' /\ CarriedRecorded' /\ NeverTwice'
      BY <2>1, <2>2, <2>5 DEF Remembers, Inv, CarriedRecorded, NeverTwice
    <2>7. InHand'
      <3>1. cur # NoId => cur \in Ids /\ Recorded(cur)' /\ Covers(mem, cur)'
        <4>1. cur # NoId => cur \in Ids /\ Covers(mem, cur)
          BY <1>t DEF ReplayTypeOK, Inv, InHand
        <4>2. Covers(mem, cur) => Covers(snap, cur)' /\ Covers(mem, cur)'
          BY <2>1 DEF Covers, Floor
        <4> QED BY <4>1, <4>2 DEF Recorded
      <3> QED BY <2>1, <3>1 DEF InHand, Inv
    <2>8. TornOnlyAtStart'
      BY <2>1 DEF Inv, TornOnlyAtStart
    <2> QED BY <1>0, <2>1, <2>6, <2>7, <2>8 DEF Inv
  <1>6. ASSUME NEW id \in Ids, Admit(id) PROVE Inv'
    <2>1. /\ pc = "up" /\ pc' = "append" /\ cur' = id /\ mem' \in Remembering(mem, id)
          /\ UNCHANGED <<snap, journal, torn, runs, lost>>
      BY <1>6 DEF Admit, disk
    <2>2. /\ Covers(mem', id) /\ \A j \in Ids : Covers(mem, j) => Covers(mem', j)
      BY <1>t, <2>1, RememberedCovers DEF ReplayTypeOK
    <2>3. \A j \in Ids : Recorded(j)' = Recorded(j) /\ Covers(mem, j)' = Covers(mem', j)
      BY <2>1, RecordedSame DEF Covers, Floor
    <2>4. Remembers' /\ CarriedRecorded' /\ NeverTwice'
      BY <2>1, <2>2, <2>3 DEF Remembers, Inv, CarriedRecorded, NeverTwice
    <2>5. ~Covers(mem, id)
      <3>1. SigTs[id] \in Nat /\ Floor(mem) \in Int /\ SigTs[id] >= Floor(mem) /\ id \notin mem.seen
        BY <1>t, <1>6, CommandReplayAssumption, SMTT(30) DEF Admit, Accepted, Floor, Bigger, ReplayTypeOK, Sets
      <3> QED BY <3>1 DEF Covers
    <2>6. runs[id] = 0 \/ id \in lost
      <3>1. ~Recorded(id)
        BY <2>1, <2>5 DEF Inv, Remembers
      <3>2. runs[id] \in Nat
        BY <1>t DEF ReplayTypeOK
      <3> QED BY <3>1, <3>2 DEF Inv, CarriedRecorded
    <2>7. InHand'
      <3>1. Covers(mem, cur)'
        BY <2>1, <2>2 DEF Covers, Floor
      <3> QED BY <2>1, <2>6, <3>1 DEF InHand
    <2>8. TornOnlyAtStart'
      BY <2>1 DEF Inv, TornOnlyAtStart
    <2> QED BY <1>0, <2>1, <2>4, <2>7, <2>8 DEF Inv
  <1>7. CASE AppendLine
    <2>1. /\ pc = "append" /\ pc' \in {"snapshot", "carry"} /\ ~torn /\ cur \in Ids
          /\ UNCHANGED <<mem, snap, cur, runs>>
          /\ journal' = journal \/ journal' = WithLine(cur)
          /\ (lost' = lost /\ journal' = WithLine(cur)) \/ lost' = lost \cup {cur}
      BY <1>t, <1>7 DEF AppendLine, ReplayTypeOK, HandFull, Inv, TornOnlyAtStart
    <2>2. ~torn'
      BY <1>7, <2>1 DEF AppendLine
    <2>3. \A id \in Ids : Covers(mem, id)' = Covers(mem, id)
      BY <2>1 DEF Covers, Floor
    <2>4. \A id \in Ids : /\ Recorded(id) => Recorded(id)'
                          /\ Recorded(id)' => Recorded(id) \/ id = cur
                          /\ id = cur => Recorded(id)' \/ id \in lost'
      <3>1. CASE journal' = journal /\ lost' = lost \cup {cur}
        BY <2>1, <3>1, RecordedSame
      <3>2. CASE journal' = WithLine(cur)
        BY <1>t, <2>1, <3>2, RecordedAfterLine
      <3> QED BY <2>1, <3>1, <3>2
    <2>5. Covers(mem, cur)
      BY <1>t, <2>1, CommandReplayAssumption DEF Inv, InHand
    <2>6. Remembers' /\ CarriedRecorded' /\ NeverTwice'
      BY <2>1, <2>3, <2>4, <2>5 DEF Remembers, Inv, CarriedRecorded, NeverTwice
    <2>7. InHand'
      <3>1. Covers(mem, cur)'
        BY <2>1, <2>5 DEF Covers, Floor
      <3>2. Recorded(cur)' \/ cur' \in lost'
        <4>1. PICK id \in Ids : id = cur
          BY <2>1
        <4>2. Recorded(id)' \/ id \in lost'
          BY <2>4, <4>1
        <4> QED BY <2>1, <4>1, <4>2 DEF Recorded, Covers, InJournal
      <3> QED BY <2>1, <3>1, <3>2, CommandReplayAssumption DEF InHand, Inv
    <2> QED BY <1>0, <2>1, <2>2, <2>6, <2>7 DEF Inv, TornOnlyAtStart
  <1>8. CASE Carry
    <2>1. /\ pc = "carry" /\ pc' = "up" /\ cur' = NoId /\ cur \in Ids
          /\ runs' = [runs EXCEPT ![cur] = @ + 1]
          /\ UNCHANGED <<mem, snap, journal, torn, lost>>
      BY <1>t, <1>8 DEF Carry, disk, ReplayTypeOK, HandFull
    <2>2. \A id \in Ids : Recorded(id)' = Recorded(id) /\ Covers(mem, id)' = Covers(mem, id)
      BY <2>1, RecordedSame DEF Covers, Floor
    <2>3. cur \in lost \/ (runs[cur] = 0 /\ Recorded(cur))
      BY <2>1, CommandReplayAssumption DEF Inv, InHand
    <2>4. \A id \in Ids : runs'[id] = IF id = cur THEN runs[id] + 1 ELSE runs[id]
      BY <1>t, <2>1 DEF ReplayTypeOK
    <2>5. NeverTwice'
      BY <1>t, <2>1, <2>3, <2>4 DEF NeverTwice, Inv, ReplayTypeOK
    <2>6. CarriedRecorded'
      BY <2>1, <2>2, <2>3, <2>4 DEF CarriedRecorded, Inv
    <2>7. Remembers'
      BY <2>1, <2>2 DEF Remembers, Inv
    <2> QED BY <1>0, <2>1, <2>5, <2>6, <2>7 DEF Inv, InHand, TornOnlyAtStart
  <1>9. CASE Crash
    <2>1. /\ pc' = "down" /\ cur' = NoId /\ mem' = Empty /\ UNCHANGED <<snap, runs, lost>>
          /\ journal' = journal \/ (pc = "append" /\ journal' = WithLine(cur))
          /\ torn' => torn \/ TornAppends
      BY <1>9 DEF Crash, disk
    <2>2. \A id \in Ids : Recorded(id) => Recorded(id)'
      <3>1. CASE journal' = journal
        BY <2>1, <3>1, RecordedSame
      <3>2. CASE pc = "append" /\ journal' = WithLine(cur)
        <4>1. cur \in Ids
          BY <1>t, <3>2 DEF ReplayTypeOK, HandFull
        <4> QED BY <1>t, <2>1, <3>2, <4>1, RecordedAfterLine
      <3> QED BY <2>1, <3>1, <3>2
    <2>3. Remembers' /\ CarriedRecorded' /\ NeverTwice'
      BY <2>1, <2>2 DEF Remembers, Inv, CarriedRecorded, NeverTwice
    <2> QED BY <1>0, <2>1, <2>3 DEF Inv, InHand, TornOnlyAtStart
  <1>10. CASE UNCHANGED replayVars
    <2>1. UNCHANGED <<mem, snap, journal, torn, pc, at, cur, runs, lost>>
      BY <1>10 DEF replayVars, disk
    <2>2. \A id : Recorded(id)' = Recorded(id)
      BY <2>1 DEF Recorded, Covers, InJournal
    <2> QED BY <1>0, <2>1, <2>2 DEF Inv, CarriedRecorded, NeverTwice, Remembers, InHand, TornOnlyAtStart,
                                    Recorded, Covers, InJournal
  <1> QED BY <1>1, <1>2, <1>3, <1>4, <1>5, <1>6, <1>7, <1>8, <1>9, <1>10 DEF ReplayNext

\* No command is carried out twice but one whose line could not be written, if a write that fails
\* leaves no part of a line behind (command_signing.py, ReplayStore).
THEOREM NeverTwiceHolds ==
  ASSUME ~(WriteMayFail /\ TornAppends)
  PROVE  ReplaySpec => []NeverTwice
  <1>1. ReplayInit => Inv
    BY InitInv
  <1>2. Inv /\ [ReplayNext]_replayVars => Inv'
    BY StepInv
  <1>3. Inv => NeverTwice
    BY DEF Inv
  <1> QED BY <1>1, <1>2, <1>3, PTL DEF ReplaySpec

-----------------------------------------------------------------------------
\* What the set holds while there is no process: nothing.
DownEmpty == pc = "down" => mem = Empty

\* A command the set covers stays covered as long as the process runs.
LEMMA StepCovers ==
  ASSUME ReplayTypeOK, HandFull, DownEmpty, [ReplayNext]_replayVars, NEW id \in Ids, Covers(mem, id)
  PROVE  Covers(mem', id) \/ pc' = "down"
  <1>1. CASE Start
    BY <1>1, EmptyCovers DEF Start, DownEmpty
  <1>2. CASE LoadLine
    <2>1. CASE journal[at] = NoId
      BY <1>2, <2>1 DEF LoadLine
    <2>2. CASE journal[at] # NoId
      <3>1. journal[at] \in Ids /\ mem' \in Remembering(mem, journal[at])
        BY <1>2, <2>2 DEF LoadLine, ReplayTypeOK
      <3> QED BY <3>1, RememberedCovers DEF ReplayTypeOK
    <2> QED BY <2>1, <2>2
  <1>3. ASSUME NEW j \in Ids, Admit(j) PROVE Covers(mem', id)
    BY <1>3, RememberedCovers DEF Admit, ReplayTypeOK
  <1>4. CASE Loaded \/ Snapshot \/ Truncate \/ AppendLine \/ Carry \/ UNCHANGED replayVars
    <2>1. mem' = mem
      BY <1>4 DEF Loaded, Snapshot, Truncate, AppendLine, Carry, replayVars
    <2> QED BY <2>1
  <1>5. CASE Crash
    BY <1>5 DEF Crash
  <1> QED BY <1>1, <1>2, <1>3, <1>4, <1>5 DEF ReplayNext

\* A command the gate once took is refused as long as the process runs, whatever writes fail
\* (ReplayState._remember and floor).
THEOREM NotAgainWhileUpHolds == ReplaySpec => NotAgainWhileUp
  <1>1. ReplayInit => ReplayTypeOK /\ HandFull /\ DownEmpty
    BY InitInv DEF Inv, DownEmpty
  <1>2. ReplayTypeOK /\ HandFull /\ DownEmpty /\ [ReplayNext]_replayVars => (ReplayTypeOK /\ HandFull /\ DownEmpty)'
    <2>1. DownEmpty /\ [ReplayNext]_replayVars => DownEmpty'
      BY DEF DownEmpty, ReplayNext, replayVars, Start, LoadLine, Loaded, Snapshot, Truncate, AfterCompact, Admit,
             AppendLine, Carry, Crash
    <2> QED BY <2>1, StepTyped, StepFull
  <1>3. ReplayTypeOK /\ HandFull /\ DownEmpty /\ [ReplayNext]_replayVars =>
          [\A id \in Ids : Covers(mem, id) => Covers(mem', id) \/ pc' = "down"]_replayVars
    BY StepCovers
  <1> QED BY <1>1, <1>2, <1>3, PTL DEF ReplaySpec, NotAgainWhileUp

-----------------------------------------------------------------------------
(* FreshNotStale.                                                          *)

\* More than Cap commands were signed at or after the newest that went for want of room.
Crowded(m) == m.evicted >= 0 => Cardinality({i \in admitted : SigTs[i] >= m.evicted}) > Cap

\* What the set and the disk hold was accepted.
Given ==
  /\ mem.seen \subseteq admitted /\ snap.seen \subseteq admitted
  /\ \A n \in 1..Len(journal) : journal[n] \in admitted \cup {NoId}
  /\ cur \in admitted \cup {NoId}
  /\ Crowded(mem) /\ Crowded(snap)

\* An id that comes in evicts another only when more than Cap accepted ones are as new as that.
LEMMA RememberedCrowded ==
  ASSUME ReplayTypeOK, NEW id \in Ids, mem' \in Remembering(mem, id),
         admitted' \subseteq Ids, admitted \subseteq admitted', id \in admitted', mem.seen \subseteq admitted, Crowded(mem)
  PROVE  mem'.seen \subseteq admitted' /\ Crowded(mem)'
  <1> DEFINE high == Bigger(mem.high, SigTs[id])
             kept == InWindow(mem.seen \cup {id}, high)
             NoOlder(ts) == {i \in admitted' : SigTs[i] >= ts}
  <1>1. kept \subseteq admitted' /\ kept \subseteq Ids
    BY DEF InWindow, ReplayTypeOK, Sets
  <1>2. \A i \in Ids : SigTs[i] \in Nat
    BY CommandReplayAssumption
  <1>3. ASSUME NEW ts \in Int, NEW T \in SUBSET NoOlder(ts), Cardinality(T) > Cap PROVE Cardinality(NoOlder(ts)) > Cap
    <2>1. IsFiniteSet(NoOlder(ts)) /\ NoOlder(ts) \subseteq Ids
      BY FS_Subset, CommandReplayAssumption
    <2>2. /\ Cardinality(T) <= Cardinality(NoOlder(ts)) /\ IsFiniteSet(T)
      BY <2>1, FS_Subset
    <2>3. Cardinality(T) \in Nat /\ Cardinality(NoOlder(ts)) \in Nat /\ Cap \in Nat
      BY <2>1, <2>2, FS_CardinalityType, CommandReplayAssumption
    <2> HIDE DEF NoOlder
    <2> QED BY <1>3, <2>2, <2>3
  <1>4. mem.evicted >= 0 => Cardinality(NoOlder(mem.evicted)) > Cap
    <2>1. CASE mem.evicted >= 0
      <3>1. mem.evicted \in Int
        BY DEF ReplayTypeOK, Sets
      <3>2. {i \in admitted : SigTs[i] >= mem.evicted} \subseteq NoOlder(mem.evicted)
        OBVIOUS
      <3>3. Cardinality({i \in admitted : SigTs[i] >= mem.evicted}) > Cap
        BY <2>1 DEF Crowded
      <3> HIDE DEF NoOlder
      <3> QED BY <1>3, <3>1, <3>2, <3>3
    <2> QED BY <2>1
  <1>5. CASE Cardinality(kept) <= Cap
    <2>1. mem' = [mem EXCEPT !.seen = kept, !.high = high]
      BY <1>5 DEF Remembering
    <2>2. mem'.seen = kept /\ mem'.evicted = mem.evicted
      BY <2>1 DEF ReplayTypeOK, Sets
    <2> QED BY <1>1, <1>4, <2>2 DEF Crowded
  <1>6. CASE ~(Cardinality(kept) <= Cap)
    <2>1. PICK o \in Oldest(kept) : mem' = [seen |-> kept \ {o}, high |-> high, evicted |-> Bigger(mem.evicted, SigTs[o])]
      BY <1>6 DEF Remembering
    <2>2. o \in Ids /\ kept \subseteq NoOlder(SigTs[o])
      BY <1>1 DEF Oldest
    <2>3. Cardinality(kept) > Cap
      <3>1. Cardinality(kept) \in Nat /\ Cap \in Nat
        <4>1. IsFiniteSet(kept)
          BY <1>1, FS_Subset, CommandReplayAssumption
        <4> QED BY <4>1, FS_CardinalityType, CommandReplayAssumption
      <3> QED BY <1>6, <3>1
    <2>4. Cardinality(NoOlder(SigTs[o])) > Cap
      <3> HIDE DEF NoOlder, kept
      <3> QED BY <1>2, <1>3, <2>2, <2>3
    <2>5. mem'.evicted = mem.evicted \/ mem'.evicted = SigTs[o]
      BY <2>1 DEF Bigger
    <2> QED BY <1>1, <1>4, <2>1, <2>4, <2>5 DEF Crowded
  <1> QED BY <1>5, <1>6

\* Every step keeps Given.
LEMMA StepGiven == ASSUME ReplayTypeOK, HandFull, ReplayTypeOK', Given, [ReplayNext]_replayVars PROVE Given'
  <1>1. CASE Start
    BY <1>1 DEF Start, disk, Given, Crowded
  <1>2. CASE LoadLine
    <2>1. UNCHANGED <<snap, journal, cur, admitted>>
      BY <1>2 DEF LoadLine, disk
    <2>2. mem'.seen \subseteq admitted' /\ Crowded(mem)'
      <3>1. CASE journal[at] = NoId
        BY <1>2, <2>1, <3>1 DEF LoadLine, Given, Crowded
      <3>2. CASE journal[at] # NoId
        <4>1. at \in 1..Len(journal) /\ mem' \in Remembering(mem, journal[at])
          BY <1>2, <3>2 DEF LoadLine, ReplayTypeOK
        <4>2. journal[at] \in Ids /\ journal[at] \in admitted
          BY <3>2, <4>1 DEF Given, ReplayTypeOK
        <4>3. admitted' \subseteq Ids /\ admitted \subseteq admitted' /\ journal[at] \in admitted'
          BY <2>1, <4>2 DEF ReplayTypeOK
        <4> QED BY <4>1, <4>2, <4>3, RememberedCrowded DEF Given
      <3> QED BY <3>1, <3>2
    <2> QED BY <2>1, <2>2 DEF Given, Crowded
  <1>3. CASE Loaded \/ Carry \/ UNCHANGED replayVars
    <2>1. UNCHANGED <<mem, snap, journal, admitted>> /\ cur' \in {cur, NoId}
      BY <1>3 DEF Loaded, Carry, replayVars, disk
    <2> QED BY <2>1 DEF Given, Crowded
  <1>4. CASE Snapshot
    <2>1. UNCHANGED <<mem, journal, cur, admitted>> /\ snap' \in {mem, snap}
      BY <1>4 DEF Snapshot
    <2> QED BY <2>1 DEF Given, Crowded
  <1>5. CASE Truncate
    <2>1. UNCHANGED <<mem, snap, cur, admitted>> /\ (journal' = <<>> \/ journal' = journal)
      BY <1>5 DEF Truncate
    <2> QED BY <2>1 DEF Given, Crowded
  <1>6. ASSUME NEW id \in Ids, Admit(id) PROVE Given'
    <2>1. UNCHANGED <<snap, journal>> /\ cur' = id /\ admitted' = admitted \cup {id} /\ mem' \in Remembering(mem, id)
      BY <1>6 DEF Admit, disk
    <2>2. mem'.seen \subseteq admitted' /\ Crowded(mem)'
      <3>1. admitted' \subseteq Ids /\ admitted \subseteq admitted' /\ id \in admitted'
        BY <2>1 DEF ReplayTypeOK
      <3> QED BY <2>1, <3>1, RememberedCrowded DEF Given
    <2>3. Crowded(snap)'
      <3> DEFINE Newer(g) == {i \in g : SigTs[i] >= snap.evicted}
      <3>1. IsFiniteSet(Newer(admitted')) /\ Newer(admitted) \subseteq Newer(admitted')
        BY <2>1, FS_Subset, CommandReplayAssumption DEF ReplayTypeOK
      <3>2. Cardinality(Newer(admitted)) <= Cardinality(Newer(admitted')) /\ IsFiniteSet(Newer(admitted))
        BY <3>1, FS_Subset
      <3>3. Cardinality(Newer(admitted)) \in Nat /\ Cardinality(Newer(admitted')) \in Nat /\ Cap \in Nat
        BY <3>1, <3>2, FS_CardinalityType, CommandReplayAssumption
      <3>4. snap.evicted >= 0 => Cardinality(Newer(admitted)) > Cap
        BY DEF Given, Crowded
      <3>5. snap.evicted >= 0 => Cardinality(Newer(admitted')) > Cap
        <4> HIDE DEF Newer
        <4> QED BY <3>2, <3>3, <3>4
      <3> QED BY <2>1, <3>5 DEF Crowded
    <2> QED BY <2>1, <2>2, <2>3 DEF Given
  <1>7. CASE AppendLine \/ Crash
    <2>1. /\ snap' = snap /\ admitted' = admitted /\ cur' \in {cur, NoId}
          /\ mem' = mem \/ mem' = Empty
          /\ journal' = journal \/ (pc = "append" /\ journal' = WithLine(cur))
      BY <1>7 DEF AppendLine, Crash, disk
    <2>2. \A n \in 1..Len(journal') : journal'[n] \in admitted' \cup {NoId}
      <3>1. CASE journal' = journal
        BY <2>1, <3>1 DEF Given
      <3>2. CASE pc = "append" /\ journal' = WithLine(cur)
        <4>1. /\ journal \in Seq(Ids \cup {NoId}) /\ Len(journal) \in Nat /\ cur \in Ids
          BY <3>2 DEF ReplayTypeOK, HandFull
        <4>2. /\ Len(journal') = Len(journal) + 1
              /\ \A n \in 1..Len(journal) : journal'[n] = journal[n]
              /\ journal'[Len(journal) + 1] \in {NoId, cur}
          BY <3>2, <4>1, WithLineHas
        <4>3. \A n \in 1..Len(journal') : n \in 1..Len(journal) \/ n = Len(journal) + 1
          BY <4>1, <4>2
        <4> QED BY <2>1, <4>2, <4>3 DEF Given
      <3> QED BY <2>1, <3>1, <3>2
    <2>3. Empty.seen = {} /\ ~(Empty.evicted >= 0)
      BY DEF Empty
    <2>4. mem'.seen \subseteq admitted' /\ Crowded(mem)'
      BY <2>1, <2>3 DEF Given, Crowded
    <2>5. snap'.seen \subseteq admitted' /\ Crowded(snap)' /\ cur' \in admitted' \cup {NoId}
      BY <2>1 DEF Given, Crowded
    <2> QED BY <2>2, <2>4, <2>5 DEF Given
  <1> QED BY <1>1, <1>2, <1>3, <1>4, <1>5, <1>6, <1>7 DEF ReplayNext

\* What makes a command stale is the window, or more newer commands than the set holds.
LEMMA GivenFresh == ASSUME ReplayTypeOK, Given PROVE FreshNotStale
  <1> SUFFICES ASSUME NEW id \in Ids, SigTs[id] < Floor(mem), ~(SigTs[id] < mem.high - Window)
               PROVE  Cardinality({i \in admitted : SigTs[i] >= SigTs[id]}) > Cap
    BY DEF FreshNotStale
  <1> DEFINE Newer(ts) == {i \in admitted : SigTs[i] >= ts}
  <1>1. /\ \A i \in Ids : SigTs[i] \in Nat
        /\ mem.high \in Nat /\ mem.evicted \in Nat \cup {-1} /\ Window \in Nat
    BY CommandReplayAssumption DEF ReplayTypeOK, Sets
  <1>2. mem.evicted >= SigTs[id] /\ mem.evicted >= 0
    BY <1>1 DEF Floor, Bigger
  <1>3. Cardinality(Newer(mem.evicted)) > Cap
    BY <1>2 DEF Given, Crowded
  <1>4. IsFiniteSet(Newer(SigTs[id])) /\ Newer(mem.evicted) \subseteq Newer(SigTs[id])
    BY <1>1, <1>2, FS_Subset, CommandReplayAssumption DEF ReplayTypeOK
  <1>5. Cardinality(Newer(mem.evicted)) <= Cardinality(Newer(SigTs[id])) /\ IsFiniteSet(Newer(mem.evicted))
    BY <1>4, FS_Subset
  <1>6. Cardinality(Newer(mem.evicted)) \in Nat /\ Cardinality(Newer(SigTs[id])) \in Nat /\ Cap \in Nat
    BY <1>4, <1>5, FS_CardinalityType, CommandReplayAssumption
  <1>7. Cardinality(Newer(SigTs[id])) > Cap
    <2> HIDE DEF Newer
    <2> QED BY <1>3, <1>5, <1>6
  <1> QED BY <1>7

\* What the set forgets for want of room costs no newer command its execution (ReplayState._remember:
\* it is the oldest that goes, and the floor with it).
THEOREM FreshNotStaleHolds == ReplaySpec => []FreshNotStale
  <1>1. ReplayInit => ReplayTypeOK /\ HandFull /\ Given
    <2>1. Empty.seen = {} /\ ~(Empty.evicted >= 0)
      BY DEF Empty
    <2>2. ReplayInit => Given
      BY <2>1 DEF ReplayInit, Given, Crowded
    <2> QED BY <2>2, InitInv DEF Inv
  <1>2. ReplayTypeOK /\ HandFull /\ Given /\ [ReplayNext]_replayVars => (ReplayTypeOK /\ HandFull /\ Given)'
    BY StepTyped, StepFull, StepGiven
  <1>3. ReplayTypeOK /\ Given => FreshNotStale
    BY GivenFresh
  <1> QED BY <1>1, <1>2, <1>3, PTL DEF ReplaySpec
=============================================================================
