---------------------------- MODULE ProgramReports ----------------------------
(***************************************************************************)
(* What a pass of the program runtime reports through CloudSink's outbox   *)
(* (blocks/cloud.py): program acks and alerts, each handed over without    *)
(* waiting and sent once, in order, by one worker; and the acks of bundles *)
(* that ProgramSync rejected, which take the same way.                     *)
(***************************************************************************)
EXTENDS Integers, Sequences, FiniteSets, SequencesExt

CONSTANTS
  MaxReports,  \* bound: reports handed over
  OutboxCap    \* CAP

ASSUME ProgramReportsAssumption == {MaxReports, OutboxCap} \subseteq Nat \ {0}

VARIABLES
  outbox,      \* _queue, of reports
  sending,     \* the report being sent, or NoReport
  outboxClosed,
  handed,      \* reports handed over so far: a report's id is its place among them
  lastAck,     \* CloudSink.last_ack: what every heartbeat carries
  acked,       \* the acks that reached the backend, in order
  unsentAcks   \* acks that never went out: the outbox was full or closed

reportVars == <<outbox, sending, outboxClosed, handed, lastAck, acked, unsentAcks>>

\* applied: the runtime's own ack; rejected: ProgramSync's.
Kinds == {"applied", "rejected", "alert"}
Report == [id : 1..MaxReports, kind : Kinds]
NoReport == [id |-> 0, kind |-> "alert"]
IsAck(r) == r.kind # "alert"

ReportsTypeOK ==
  /\ outbox \in Seq(Report) /\ Len(outbox) <= OutboxCap
  /\ sending \in Report \cup {NoReport} /\ outboxClosed \in BOOLEAN
  /\ handed \in 0..MaxReports /\ lastAck \in 0..handed
  /\ acked \in Seq(1..MaxReports) /\ unsentAcks \subseteq 1..handed

ReportsInit ==
  /\ outbox = <<>> /\ sending = NoReport /\ outboxClosed = FALSE
  /\ handed = 0 /\ lastAck = 0 /\ acked = <<>> /\ unsentAcks = {}
-----------------------------------------------------------------------------
\* Past the cap the oldest alert leaves, or the oldest of all when there is none.
Leaves(q) ==
  LET alerts == {i \in DOMAIN q : ~IsAck(q[i])}
  IN  IF alerts = {} THEN 1 ELSE CHOOSE i \in alerts : \A j \in alerts : i <= j

RoomIn_Never(q) == q

RoomIn(q) == IF Len(q) >= OutboxCap THEN RemoveAt(q, Leaves(q)) ELSE q

AcksIn(q) == {q[i].id : i \in {j \in DOMAIN q : IsAck(q[j])}}

\* The state of the program is known now, whenever its ack goes out; a rejected bundle changes none.
HandOver(kind) ==
  LET r == [id |-> handed + 1, kind |-> kind] IN
  /\ handed < MaxReports
  /\ handed' = handed + 1
  /\ lastAck' = IF kind = "applied" THEN r.id ELSE lastAck
  /\ IF outboxClosed
       THEN /\ unsentAcks' = IF IsAck(r) THEN unsentAcks \cup {r.id} ELSE unsentAcks
            /\ UNCHANGED outbox
       ELSE /\ outbox' = Append(RoomIn(outbox), r)
            /\ unsentAcks' = unsentAcks \cup (AcksIn(outbox) \ AcksIn(RoomIn(outbox)))
  /\ UNCHANGED <<sending, outboxClosed, acked>>

TakeReport ==
  /\ sending = NoReport /\ ~outboxClosed /\ outbox # <<>>
  /\ sending' = Head(outbox) /\ outbox' = Tail(outbox)
  /\ UNCHANGED <<outboxClosed, handed, lastAck, acked, unsentAcks>>

\* Tried once: whether it arrives or not, the next one follows.
SendReport(arrives) ==
  /\ sending # NoReport
  /\ sending' = NoReport
  /\ acked' = IF arrives /\ IsAck(sending) THEN Append(acked, sending.id) ELSE acked
  /\ UNCHANGED <<outbox, outboxClosed, handed, lastAck, unsentAcks>>

\* main.py flushes for a few seconds before it closes: what waits then is left.
CloseOutbox ==
  /\ ~outboxClosed
  /\ outboxClosed' = TRUE
  /\ unsentAcks' = unsentAcks \cup AcksIn(outbox)
  /\ UNCHANGED <<outbox, sending, handed, lastAck, acked>>

ReportsNext ==
  \/ \E kind \in Kinds : HandOver(kind)
  \/ TakeReport
  \/ \E arrives \in BOOLEAN : SendReport(arrives)
  \/ CloseOutbox
-----------------------------------------------------------------------------
\* The backend gets the node's acks in the order the node made them: an applied that still waits is never
\* overtaken by a later rejected (post_program_ack's docstring, one outbox for both).
AcksInOrder == \A i, j \in DOMAIN acked : i < j => acked[i] < acked[j]

\* An ack that was handed over while the outbox was open goes out, unless acks alone filled the outbox or
\* the node stopped: alerts never push one out (_Outbox.submit).
AcksLeaveOnlyToAcks ==
  [][unsentAcks' # unsentAcks /\ ~outboxClosed' => \A i \in DOMAIN outbox : IsAck(outbox[i])]_reportVars

\* No report waits: none stands for ever behind one that fails.
NoReportWaits == outboxClosed \/ (outbox = <<>> /\ sending = NoReport)
=============================================================================
