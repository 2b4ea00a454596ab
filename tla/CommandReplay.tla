---------------------------- MODULE CommandReplay ----------------------------
(***************************************************************************)
(* Which commands a node carries out, and how often (command_signing.py).  *)
(* A message whose signature holds comes to the gate any number of times,  *)
(* in any order: QoS 1 delivers again, and anyone can send again what was  *)
(* on the topic.  The gate checks it against the ids it accepted           *)
(* (ReplayState), records the id in the state directory (ReplayStore: a    *)
(* snapshot and a journal) and hands the command on.  The process may die  *)
(* between any two steps, and a write may fail or be cut short.            *)
(*                                                                         *)
(* The gate holds its lock through a check, so one message at a time is    *)
(* between its check and its hand-over.  An id is signed once: SigTs.      *)
(***************************************************************************)
EXTENDS Integers, FiniteSets, Sequences

CONSTANTS
  Ids,               \* command ids of messages signed for this node
  NoId,              \* an unreadable line of the journal; no command in hand
  SigTs,             \* when the backend signed each
  Window,            \* REPLAY_WINDOW_MS
  Cap,               \* REPLAY_SET_MAX
  MaxAge, MaxAhead,  \* MAX_AGE_MS, MAX_AHEAD_MS
  Times,             \* what the node's trusted now may be
  CompactEvery,      \* COMPACT_EVERY
  WriteMayFail,      \* TRUE: a write or its sync may raise
  TornAppends,       \* TRUE: an append that raises, or that the crash cuts short, may leave a part of its line
  MaxLines, MaxRuns  \* bounds: lines of the journal, times one command is carried out

ASSUME CommandReplayAssumption ==
  /\ SigTs \in [Ids -> Nat] /\ IsFiniteSet(Ids) /\ NoId \notin Ids
  /\ Window \in Nat /\ Cap \in Nat \ {0} /\ MaxAge \in Nat /\ MaxAhead \in Nat
  /\ Times \subseteq Nat /\ CompactEvery \in Nat \ {0}
  /\ WriteMayFail \in BOOLEAN /\ TornAppends \in BOOLEAN
  /\ MaxLines \in Nat /\ MaxRuns \in Nat

VARIABLES
  mem,      \* the replay set in memory: seen, high_water, evicted_floor
  snap,     \* the snapshot on disk, of the same form
  journal,  \* the journal's lines: an id, or NoId where the line cannot be read
  torn,     \* the journal ends in a part of a line
  lines,    \* _journal_lines
  pc,       \* where the process is
  at,       \* the journal line a load reads next
  cur,      \* the command in hand
  runs,     \* history: how often each command was handed on to be carried out
  admitted,    \* history: the ids accepted
  lost      \* history: the ids whose append failed

disk == <<snap, journal, torn>>
replayVars == <<mem, disk, lines, pc, at, cur, runs, admitted, lost>>

Empty == [seen |-> {}, high |-> 0, evicted |-> -1]

Pcs == {"down", "load", "up", "append", "snapshot", "truncate", "carry"}

-----------------------------------------------------------------------------
(* ReplayState.  A definition with an underscore and a word more           *)
(* (Oldest_First) is a mutant: the bug a property must find.               *)

Bigger(a, b) == IF a >= b THEN a ELSE b

\* ReplayState.floor: the oldest SigTs a command may carry.
Floor(m) == Bigger(m.high - Window, m.evicted + 1)

Oldest_First(ids) == {i \in ids : \A j \in ids : SigTs[i] >= SigTs[j]}

\* The ids that may be evicted: the oldest.  (The code takes the first accepted of them.)
Oldest(ids) == {i \in ids : \A j \in ids : SigTs[i] <= SigTs[j]}

\* What is left once `high` moved the window.
InWindow(ids, high) == {i \in ids : SigTs[i] >= high - Window}

Remembering_WindowOnly(m, id) ==
  LET high == Bigger(m.high, SigTs[id])  kept == InWindow(m.seen \cup {id}, high) IN
  IF Cardinality(kept) <= Cap THEN {[m EXCEPT !.seen = kept, !.high = high]}
  ELSE {[m EXCEPT !.seen = kept \ {o}, !.high = high] : o \in Oldest(kept)}

Remembering_ThenEvicts(m, id) ==
  LET high == Bigger(m.high, SigTs[id])  kept == InWindow(m.seen, high) IN
  IF Cardinality(kept) <= Cap THEN {[m EXCEPT !.seen = kept \cup {id}, !.high = high]}
  ELSE {[seen |-> (kept \ {o}) \cup {id}, high |-> high, evicted |-> Bigger(m.evicted, SigTs[o])] : o \in Oldest(kept)}

\* ReplayState._remember: what the set may be with `id` in it.  One id comes in, so one goes out at most.
Remembering(m, id) ==
  LET high == Bigger(m.high, SigTs[id])  kept == InWindow(m.seen \cup {id}, high) IN
  IF Cardinality(kept) <= Cap THEN {[m EXCEPT !.seen = kept, !.high = high]}
  ELSE {[seen |-> kept \ {o}, high |-> high, evicted |-> Bigger(m.evicted, SigTs[o])] : o \in Oldest(kept)}

\* verify_command, after the signature: not accepted before, not below the floor, within the window
\* of a trusted now.
Accepted(id) ==
  /\ id \notin mem.seen
  /\ SigTs[id] >= Floor(mem)
  /\ \E now \in Times : now - SigTs[id] <= MaxAge /\ SigTs[id] - now <= MaxAhead

-----------------------------------------------------------------------------
ReplayInit ==
  /\ mem = Empty /\ snap = Empty /\ journal = <<>> /\ torn = FALSE
  /\ lines = 0 /\ pc = "down" /\ at = 1 /\ cur = NoId
  /\ runs = [i \in Ids |-> 0] /\ admitted = {} /\ lost = {}

\* ReplayStore._load begins: the snapshot.
Start ==
  /\ pc = "down"
  /\ mem' = snap /\ pc' = "load" /\ at' = 1 /\ lines' = 0
  /\ UNCHANGED <<disk, cur, runs, admitted, lost>>

\* One line of the journal, an unreadable one passed over.
LoadLine ==
  /\ pc = "load" /\ at <= Len(journal)
  /\ at' = at + 1
  /\ IF journal[at] = NoId THEN UNCHANGED mem ELSE mem' \in Remembering(mem, journal[at])
  /\ UNCHANGED <<disk, lines, pc, cur, runs, admitted, lost>>

\* The journal is read, a torn last line with it; what it held is folded into the snapshot.
Loaded ==
  /\ pc = "load" /\ at > Len(journal)
  /\ lines' = Len(journal) + (IF torn THEN 1 ELSE 0)
  /\ pc' = IF lines' > 0 THEN "snapshot" ELSE "up"
  /\ UNCHANGED <<mem, disk, at, cur, runs, admitted, lost>>

\* What follows a compaction, or its failure: the command in hand, if there is one.
AfterCompact == pc' = IF cur = NoId THEN "up" ELSE "carry"

\* _compact: the snapshot, written aside and renamed; it holds every id the journal does.
Snapshot ==
  /\ pc = "snapshot"
  /\ \/ snap' = mem /\ pc' = "truncate"
     \/ WriteMayFail /\ AfterCompact /\ UNCHANGED snap
  /\ UNCHANGED <<mem, journal, torn, lines, at, cur, runs, admitted, lost>>

\* _compact: the journal emptied, once the snapshot is on disk.  The sync may fail when it is empty.
Truncate ==
  /\ pc = "truncate"
  /\ \/ journal' = <<>> /\ torn' = FALSE /\ (lines' = 0 \/ (WriteMayFail /\ UNCHANGED lines))
     \/ WriteMayFail /\ UNCHANGED <<journal, torn, lines>>
  /\ AfterCompact
  /\ UNCHANGED <<mem, snap, at, cur, runs, admitted, lost>>

\* CommandGate.admit of a message it accepts: remembered, then recorded.  One it refuses changes nothing.
Admit(id) ==
  /\ pc = "up" /\ Accepted(id) /\ runs[id] < MaxRuns
  /\ mem' \in Remembering(mem, id)
  /\ cur' = id /\ pc' = "append" /\ admitted' = admitted \cup {id}
  /\ UNCHANGED <<disk, lines, at, runs, lost>>

\* The file with a whole line more: one that follows a part of a line is one line with it.
WithLine(id) == Append(journal, IF torn THEN NoId ELSE id)

AppendLine_WhenCompacting ==
  /\ pc = "append"
  /\ lines' = lines + 1 /\ pc' = (IF lines' >= CompactEvery THEN "snapshot" ELSE "carry")
  /\ UNCHANGED <<mem, disk, at, cur, runs, admitted, lost>>

\* ReplayStore.remember: the line is on the card before the command is carried out; a command whose
\* line cannot be written is carried out all the same.
AppendLine ==
  /\ pc = "append" /\ Len(journal) < MaxLines
  /\ \/ /\ journal' = WithLine(cur) /\ torn' = FALSE /\ lines' = lines + 1
        /\ pc' = (IF lines' >= CompactEvery THEN "snapshot" ELSE "carry")
        /\ UNCHANGED lost
     \/ /\ WriteMayFail
        /\ \/ (torn' = torn \/ (TornAppends /\ torn' = TRUE)) /\ UNCHANGED journal
           \/ journal' = WithLine(cur) /\ torn' = FALSE
        /\ lost' = lost \cup {cur} /\ pc' = "carry"
        /\ UNCHANGED lines
  /\ UNCHANGED <<mem, snap, at, cur, runs, admitted>>

\* on_command: the command is carried out.
Carry ==
  /\ pc = "carry"
  /\ runs' = [runs EXCEPT ![cur] = @ + 1]
  /\ cur' = NoId /\ pc' = "up"
  /\ UNCHANGED <<mem, disk, lines, at, admitted, lost>>

\* The process dies; in an append, with nothing, a part or the whole of the line written.
Crash ==
  /\ pc # "down"
  /\ mem' = Empty /\ lines' = 0 /\ pc' = "down" /\ at' = 1 /\ cur' = NoId
  /\ \/ UNCHANGED disk
     \/ TornAppends /\ pc = "append" /\ torn' = TRUE /\ UNCHANGED <<snap, journal>>
     \/ /\ pc = "append" /\ Len(journal) < MaxLines
        /\ journal' = WithLine(cur) /\ torn' = FALSE /\ UNCHANGED snap
  /\ UNCHANGED <<runs, admitted, lost>>

ReplayNext ==
  \/ Start \/ LoadLine \/ Loaded \/ Snapshot \/ Truncate
  \/ \E id \in Ids : Admit(id)
  \/ AppendLine \/ Carry \/ Crash

ReplaySpec == ReplayInit /\ [][ReplayNext]_replayVars

-----------------------------------------------------------------------------
(* Properties.                                                             *)

Sets == [seen : SUBSET Ids, high : Nat, evicted : Nat \cup {-1}]

\* Every variable keeps its type, and no more ids are remembered than Cap.
ReplayTypeOK ==
  /\ mem \in Sets /\ snap \in Sets
  /\ Cardinality(mem.seen) <= Cap /\ Cardinality(snap.seen) <= Cap
  /\ journal \in Seq(Ids \cup {NoId}) /\ torn \in BOOLEAN
  /\ lines \in Nat /\ pc \in Pcs /\ at \in Nat \ {0} /\ cur \in Ids \cup {NoId}
  /\ runs \in [Ids -> Nat] /\ admitted \subseteq Ids /\ lost \subseteq Ids

\* A command is carried out once at most, whatever is delivered again and whenever the process dies,
\* but for one whose id could not be recorded (command_signing.py, ReplayStore).
NeverTwice == \A id \in Ids : runs[id] <= 1 \/ id \in lost

\* An id once carried out is refused as long as the process runs, though its line could not be
\* written: it is remembered, or the floor has passed it.
Covers(m, id) == id \in m.seen \/ SigTs[id] < Floor(m)
NotAgainWhileUp == [][\A id \in Ids : Covers(mem, id) => Covers(mem', id) \/ pc' = "down"]_replayVars

\* What the set forgets for want of room costs no newer command its execution: one below the floor
\* left the window, or more commands than the set holds were signed no earlier.
FreshNotStale ==
  \A id \in Ids : SigTs[id] < Floor(mem) =>
    \/ SigTs[id] < mem.high - Window
    \/ Cardinality({i \in admitted : SigTs[i] >= SigTs[id]}) > Cap
=============================================================================
