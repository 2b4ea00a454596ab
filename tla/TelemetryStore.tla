---------------------------- MODULE TelemetryStore ----------------------------
(***************************************************************************)
(* The durable readings (telemetry_buffer.py): a SQLite table that every   *)
(* sampling cycle appends to, and the uploader (telemetry_uploader.py)     *)
(* that posts its unsent rows in batches and marks them.  Batches may be   *)
(* lost, and so may their answers; a transaction may fail, on a full disk  *)
(* or a locked database; the process may be killed between any two steps,  *)
(* and a power loss may take every commit since the last checkpoint of the *)
(* log (WAL, synchronous=NORMAL).                                          *)
(*                                                                         *)
(* A reading is known by a number of its own, which the node does not have:*)
(* it knows the row's seq, which a later row gets again when a power loss  *)
(* took the first.                                                         *)
(***************************************************************************)
EXTENDS Integers, FiniteSets

CONSTANTS
  MaxReadings,  \* bound: readings sampled
  Urgent,       \* bound: the urgent ones among them
  MaxRows,      \* max_rows
  FileRows,     \* rows that fit in buffer_max_bytes
  BatchRows,    \* max_readings
  MaxAged,      \* bound: readings that get old
  MaxUnpruned,  \* bound: appends that no prune follows
  MaxDowns      \* bound: kills and power losses

ASSUME TelemetryStoreAssumption ==
  /\ {MaxReadings, MaxRows, FileRows, BatchRows} \subseteq Nat \ {0}
  /\ Urgent \subseteq Nat /\ {MaxAged, MaxUnpruned, MaxDowns} \subseteq Nat

VARIABLES
  table,        \* [the rows; the next seq; the rows the file has room for]
  synced,       \* the table as of the last checkpoint
  aged,         \* readings up to this one are older than the retention window
  overflowed,   \* _overflow_reported
  batch,        \* the rows in the uploader's hands
  answer,       \* of the batch in its hands
  uploading,    \* where drain_all is: "asleep", "draining" or "posting"
  uploaded,     \* total_sent is not 0
  running,      \* _running
  downs,        \* kills and power losses so far
  kept          \* history: [sampled, arrived, twice, unmarked, dropped, told, cut, unpruned]; unmarked: arrived,
                \* but the answer was lost or the mark was; unpruned: appends that no prune followed

storeVars == <<table, synced, aged, overflowed, batch, answer, uploading, uploaded, running, downs, kept>>

Readings == 1..MaxReadings
Row == [reading : Readings, seq : Readings, urgent : BOOLEAN, sent : BOOLEAN]

History == [sampled : 0..MaxReadings, arrived : SUBSET Readings, twice : SUBSET Readings,
            unmarked : SUBSET Readings, dropped : SUBSET Readings, told : SUBSET Readings, cut : SUBSET Readings,
            unpruned : 0..MaxUnpruned]

StoreTypeOK ==
  /\ {table, synced} \subseteq [rows : SUBSET Row, next : 1..MaxReadings + 1, room : Nat]
  /\ aged \in 0..MaxReadings /\ overflowed \in BOOLEAN
  /\ batch \subseteq Row /\ Cardinality(batch) <= BatchRows
  /\ answer \in {"none", "ok", "failed"}
  /\ uploading \in {"asleep", "draining", "posting"}
  /\ {uploaded, running} \subseteq BOOLEAN /\ downs \in 0..MaxDowns
  /\ kept \in History
  /\ Cardinality(table.rows) <= MaxRows + kept.unpruned

EmptyTable == [rows |-> {}, next |-> 1, room |-> 0]

StoreInit ==
  /\ table = EmptyTable /\ synced = EmptyTable /\ aged = 0 /\ overflowed = FALSE
  /\ batch = {} /\ answer = "none" /\ uploading = "asleep" /\ uploaded = FALSE /\ running = TRUE /\ downs = 0
  /\ kept = [sampled |-> 0, arrived |-> {}, twice |-> {}, unmarked |-> {}, dropped |-> {}, told |-> {},
             cut |-> {}, unpruned |-> 0]

Of(rows) == {r.reading : r \in rows}
Unsent(rows) == {r \in rows : ~r.sent}
-----------------------------------------------------------------------------
(* Pruning: after every append and every mark. *)

GoesBefore_SentLast(r, s) == IF r.sent <=> s.sent THEN r.seq < s.seq ELSE s.sent

\* ORDER BY sent DESC, seq ASC
GoesBefore(r, s) == IF r.sent <=> s.sent THEN r.seq < s.seq ELSE r.sent

\* What is left when the first n rows go.
DropFirst(rows, n) == {r \in rows : Cardinality({s \in rows : GoesBefore(s, r)}) >= n}

Expired(rows) == {r \in rows : ~(r.sent /\ r.reading <= aged)}

OverRows(rows) ==
  IF Cardinality(rows) > MaxRows THEN DropFirst(rows, Cardinality(rows) - MaxRows) ELSE rows

\* The file is measured by its pages, and a row deleted gives none back.
OverFile(rows, room) ==
  IF room > FileRows
    THEN DropFirst(rows, IF Cardinality(rows) > 10 THEN Cardinality(rows) \div 10 ELSE 1)
    ELSE rows

Larger(m, n) == IF m > n THEN m ELSE n

Pruned(rows, room) == OverFile(OverRows(Expired(rows)), room)

Overflows(rows, room) == Cardinality(Expired(rows)) > MaxRows \/ room > FileRows

\* The rows become these, and are pruned; the first overflow of a run of the process is told.
Keep(rows, next, told) ==
  LET room == Larger(table.room, Cardinality(rows))
      left == Pruned(rows, room)
  IN  /\ table' = [rows |-> left, next |-> next, room |-> room]
      /\ overflowed' = (overflowed \/ Overflows(rows, room))
      /\ kept' = [told EXCEPT
           !.dropped = @ \cup (Of(Unsent(rows)) \ Of(left)),
           !.told = IF overflowed' THEN @ \cup (Of(Unsent(rows)) \ Of(left)) ELSE @]

Appended(n) == table.rows \cup {[reading |-> n, seq |-> table.next, urgent |-> n \in Urgent, sent |-> FALSE]}

\* A sampling cycle: the readings go to the buffer before they go live.
Sample ==
  LET n == kept.sampled + 1 IN
  /\ kept.sampled < MaxReadings
  /\ Keep(Appended(n), table.next + 1, [kept EXCEPT !.sampled = n])
  /\ UNCHANGED <<synced, aged, batch, answer, uploading, uploaded, running, downs>>

\* The append is committed and its prune is not, by a kill or a failure between the two.
SampleNotPruned ==
  LET n == kept.sampled + 1 IN
  /\ kept.sampled < MaxReadings /\ kept.unpruned < MaxUnpruned
  /\ table' = [rows |-> Appended(n), next |-> table.next + 1,
                room |-> Larger(table.room, Cardinality(Appended(n)))]
  /\ kept' = [kept EXCEPT !.sampled = n, !.unpruned = @ + 1]
  /\ UNCHANGED <<synced, aged, overflowed, batch, answer, uploading, uploaded, running, downs>>

\* The disk is full, or the database locked: the cycle goes on without it.
SampleNotKept ==
  /\ kept.sampled < MaxReadings
  /\ kept' = [kept EXCEPT !.sampled = @ + 1, !.cut = @ \cup {kept.sampled + 1}]
  /\ UNCHANGED <<table, synced, aged, overflowed, batch, answer, uploading, uploaded, running, downs>>
-----------------------------------------------------------------------------
(* The uploader. *)

\* The flush window is over, the back-off is, or somebody woke it.
WakeUploader ==
  /\ uploading = "asleep" /\ running
  /\ uploading' = "draining" /\ uploaded' = FALSE
  /\ UNCHANGED <<table, synced, aged, overflowed, batch, answer, running, downs, kept>>

\* ORDER BY priority DESC, seq ASC
FetchedBefore(r, s) == IF r.urgent <=> s.urgent THEN r.seq < s.seq ELSE r.urgent

FirstFetched(rows, n) == {r \in rows : Cardinality({s \in rows : FetchedBefore(s, r)}) < n}

\* The first unsent rows; the size of the body may end a batch before BatchRows.
FetchBatch ==
  /\ uploading = "draining"
  /\ IF (~running /\ uploaded) \/ Unsent(table.rows) = {}
       THEN uploading' = "asleep" /\ UNCHANGED batch
       ELSE /\ uploading' = "posting"
            /\ \E n \in 1..BatchRows :
                 /\ n <= Cardinality(Unsent(table.rows))
                 /\ batch' = FirstFetched(Unsent(table.rows), n)
  /\ UNCHANGED <<table, synced, aged, overflowed, answer, uploaded, running, downs, kept>>

\* The batch goes out: it lands or not, and its answer is seen or not.
PostBatch(lands, seen) ==
  /\ uploading = "posting" /\ answer = "none"
  /\ answer' = IF lands /\ seen THEN "ok" ELSE "failed"
  /\ kept' = IF lands
               THEN [kept EXCEPT !.arrived = @ \cup Of(batch), !.twice = @ \cup (kept.arrived \cap Of(batch)),
                                 !.unmarked = IF seen THEN @ ELSE @ \cup Of(batch)]
               ELSE kept
  /\ UNCHANGED <<table, synced, aged, overflowed, batch, uploading, uploaded, running, downs>>

UploadFailed ==
  /\ answer = "failed"
  /\ answer' = "none" /\ batch' = {} /\ uploading' = "asleep"
  /\ UNCHANGED <<table, synced, aged, overflowed, uploaded, running, downs, kept>>

Marked_UpTo(rows, seqs) == {[r EXCEPT !.sent = @ \/ \E q \in seqs : r.seq <= q] : r \in rows}

Marked(rows, seqs) == {[r EXCEPT !.sent = @ \/ r.seq \in seqs] : r \in rows}

MarkSent ==
  /\ answer = "ok"
  /\ Keep(Marked(table.rows, {b.seq : b \in batch}), table.next, kept)
  /\ answer' = "none" /\ batch' = {} /\ uploaded' = TRUE
  /\ uploading' = IF Cardinality(batch) < BatchRows THEN "asleep" ELSE "draining"
  /\ UNCHANGED <<synced, aged, running, downs>>

\* The mark fails, or only the prune after it: the drain ends, and rows that were answered for may stay unsent.
MarkFails ==
  /\ answer = "ok"
  /\ \E rows \in {table.rows, Marked(table.rows, {b.seq : b \in batch})} :
       /\ table' = [table EXCEPT !.rows = rows]
       /\ kept' = [kept EXCEPT !.unmarked = @ \cup (Of(batch) \cap Of(Unsent(rows)))]
  /\ answer' = "none" /\ batch' = {} /\ uploading' = "asleep"
  /\ UNCHANGED <<synced, aged, overflowed, uploaded, running, downs>>

StopUploader ==
  /\ running
  /\ running' = FALSE
  /\ UNCHANGED <<table, synced, aged, overflowed, batch, answer, uploading, uploaded, downs, kept>>
-----------------------------------------------------------------------------
(* Time, and what the node does to the process. *)

Ages ==
  /\ aged < kept.sampled /\ aged < MaxAged
  /\ aged' = aged + 1
  /\ UNCHANGED <<table, synced, overflowed, batch, answer, uploading, uploaded, running, downs, kept>>

Checkpoint ==
  /\ synced # table
  /\ synced' = table
  /\ UNCHANGED <<table, aged, overflowed, batch, answer, uploading, uploaded, running, downs, kept>>

\* The process is killed, or ends after its stop, and starts again; a power loss takes it back to the checkpoint.
Restart(powerLoss) ==
  /\ downs < MaxDowns
  /\ downs' = downs + 1
  /\ table' = IF powerLoss THEN synced ELSE table
  /\ kept' = [kept EXCEPT
       !.cut = IF powerLoss THEN @ \cup (Of(table.rows) \ Of(synced.rows)) ELSE @,
       !.unmarked = @ \cup (kept.arrived \cap (Of(batch) \cup Of(Unsent(table'.rows))))]
  /\ overflowed' = FALSE /\ batch' = {} /\ answer' = "none" /\ uploading' = "asleep" /\ uploaded' = FALSE
  /\ running' = TRUE
  /\ UNCHANGED <<synced, aged>>

StoreNext ==
  \/ Sample \/ SampleNotKept \/ SampleNotPruned
  \/ WakeUploader \/ FetchBatch \/ UploadFailed \/ MarkSent \/ MarkFails \/ StopUploader
  \/ \E lands, seen \in BOOLEAN : PostBatch(lands, seen)
  \/ Ages \/ Checkpoint
  \/ \E powerLoss \in BOOLEAN : Restart(powerLoss)

StoreSpec == StoreInit /\ [][StoreNext]_storeVars
-----------------------------------------------------------------------------
\* No reading is lost in silence: one that was sampled is in the table unsent, has arrived, was dropped by a
\* run that told the overflow, or fell to a write that failed or a power loss (mark_sent only after the
\* answer, _prune_locked's order, _note_overflow).
NothingLostQuietly ==
  \A r \in 1..kept.sampled :
    r \in kept.arrived \cup kept.told \cup kept.cut \cup Of(Unsent(table.rows))

\* A reading arrives twice, under another batch id, only when the node has no mark of the first time: the
\* answer was lost, or the mark was, by a kill, a power loss, or a transaction that failed after an answer
\* that was seen (drain_all: mark_sent raises, and _run goes on with the rows still unsent).
TwiceUnmarked == kept.twice \subseteq kept.unmarked

\* Readings not yet sent make room only when no sent one is left (_prune_locked: "dropping the oldest sent
\* rows first").
SentGoFirst == [][kept'.dropped # kept.dropped => Unsent(table'.rows) = table'.rows]_storeVars

\* No reading waits: each one in the table has arrived or was dropped, unless the uploader is stopped
\* (drain_all and its back-off).
NoReadingWaits == running => Of(Unsent(table.rows)) \subseteq kept.arrived

\* Readings not yet sent make room only for what is there: after such a drop the table holds nine tenths
\* of what a cap allows at least ("Drop the oldest ~10% to get back under budget in one pass").
DropsWhatItMust ==
  [][kept'.dropped # kept.dropped =>
       \E cap \in {MaxRows, FileRows} : 10 * Cardinality(table'.rows) >= 9 * (cap - 1)]_storeVars
=============================================================================
