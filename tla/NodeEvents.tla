------------------------------ MODULE NodeEvents ------------------------------
(***************************************************************************)
(* The HTTPS leg of the node's events (node_events.py): a queue that any   *)
(* thread fills and one worker empties, in order, one event at a time.     *)
(* An event that is not delivered goes back to the front and the others    *)
(* wait behind it, until its deadline.  Times are left out: a back-off, a  *)
(* token of the hourly budget and a deadline come when they come.          *)
(***************************************************************************)
EXTENDS Integers, Sequences, FiniteSets, SequencesExt

CONSTANTS
  MaxEvents,   \* bound: events raised
  EventCap,    \* CAP
  Burst        \* BURST

ASSUME NodeEventsAssumption == {MaxEvents, EventCap, Burst} \subseteq Nat \ {0}

VARIABLES
  waiting,     \* _queue, of events
  posting,     \* the event in flight, or NoEvent
  backingOff,  \* _due is in the future
  tokens,      \* _tokens
  stopping,    \* "no", "flushing" or "closed"
  raised,      \* events raised so far: an event's id is its place among them
  late,        \* those up to this one are past their deadline
  fate,        \* what became of each event
  arrived      \* at the ingress: ids, each at its first arrival

eventVars == <<waiting, posting, backingOff, tokens, stopping, raised, late, fate, arrived>>

\* alarm: its source is protection or node.
Event == [id : 1..MaxEvents, alarm : BOOLEAN]
NoEvent == [id |-> 0, alarm |-> FALSE]
Fates == {"none", "waiting", "posted", "refused", "old", "stopped", "room", "unsent"}

EventsTypeOK ==
  /\ waiting \in Seq(Event) /\ posting \in Event \cup {NoEvent}
  /\ backingOff \in BOOLEAN /\ tokens \in 0..Burst
  /\ stopping \in {"no", "flushing", "closed"}
  /\ raised \in 0..MaxEvents /\ late \in 0..raised
  /\ fate \in [1..MaxEvents -> Fates] /\ arrived \in Seq(1..MaxEvents)

EventsInit ==
  /\ waiting = <<>> /\ posting = NoEvent /\ backingOff = FALSE /\ tokens = Burst
  /\ stopping = "no" /\ raised = 0 /\ late = 0
  /\ fate = [i \in 1..MaxEvents |-> "none"] /\ arrived = <<>>
-----------------------------------------------------------------------------

\* The oldest event that is no alarm, else the oldest.
Victim(q) ==
  LET plain == {i \in DOMAIN q : ~q[i].alarm}
  IN  IF plain = {} THEN 1 ELSE CHOOSE i \in plain : \A j \in plain : i <= j

Full(q) == Len(q) >= EventCap

Submit(alarm) ==
  LET e == [id |-> raised + 1, alarm |-> alarm] IN
  /\ raised < MaxEvents
  /\ raised' = raised + 1
  /\ IF stopping = "closed"
       THEN /\ fate' = [fate EXCEPT ![e.id] = "unsent"]
            /\ UNCHANGED waiting
       ELSE LET v == Victim(waiting) IN
            /\ waiting' = Append(IF Full(waiting) THEN RemoveAt(waiting, v) ELSE waiting, e)
            /\ fate' = [i \in 1..MaxEvents |->
                          IF i = e.id THEN "waiting"
                          ELSE IF Full(waiting) /\ i = waiting[v].id THEN "room"
                          ELSE fate[i]]
  /\ UNCHANGED <<posting, backingOff, tokens, stopping, late, arrived>>

\* The worker takes the next event: on a clean stop neither back-off nor budget holds it.
TakeEvent ==
  /\ posting = NoEvent /\ stopping # "closed" /\ waiting # <<>>
  /\ stopping = "no" => ~backingOff /\ tokens > 0
  /\ posting' = Head(waiting) /\ waiting' = Tail(waiting)
  /\ tokens' = IF stopping = "no" THEN tokens - 1 ELSE tokens
  /\ UNCHANGED <<backingOff, stopping, raised, late, fate, arrived>>

\* "lost": the event landed and the answer did not; "busy": 408 or 5xx; "refused": any other 4xx.
Answers == {"2xx", "lost", "unreached", "busy", "429", "refused"}

Settled_NoDeadline(e, answer) ==
  IF answer = "2xx" THEN "posted"
  ELSE IF answer = "refused" THEN "refused"
  ELSE IF stopping # "no" THEN "stopped"
  ELSE "waiting"

Settled(e, answer) ==
  IF answer = "2xx" THEN "posted"
  ELSE IF answer = "refused" THEN "refused"
  ELSE IF stopping # "no" THEN "stopped"
  ELSE IF e.id <= late THEN "old"
  ELSE "waiting"

Requeue(e, q) == <<e>> \o q

\* The post and what the worker makes of its answer.
Post(answer) ==
  /\ posting # NoEvent
  /\ posting' = NoEvent
  /\ fate' = [fate EXCEPT ![posting.id] = Settled(posting, answer)]
  /\ arrived' = IF answer \in {"2xx", "lost"} /\ posting.id \notin Range(arrived)
                  THEN Append(arrived, posting.id) ELSE arrived
  /\ IF Settled(posting, answer) = "waiting"
       THEN waiting' = Requeue(posting, waiting) /\ backingOff' = TRUE
       ELSE UNCHANGED <<waiting, backingOff>>
  /\ UNCHANGED <<tokens, stopping, raised, late>>

BackoffEnds ==
  /\ backingOff
  /\ backingOff' = FALSE
  /\ UNCHANGED <<waiting, posting, tokens, stopping, raised, late, fate, arrived>>

TokenBack ==
  /\ tokens < Burst
  /\ tokens' = tokens + 1
  /\ UNCHANGED <<waiting, posting, backingOff, stopping, raised, late, fate, arrived>>

DeadlinePasses ==
  /\ late < raised
  /\ late' = late + 1
  /\ UNCHANGED <<waiting, posting, backingOff, tokens, stopping, raised, fate, arrived>>

CloseBegins ==
  /\ stopping = "no"
  /\ stopping' = "flushing"
  /\ UNCHANGED <<waiting, posting, backingOff, tokens, raised, late, fate, arrived>>

\* Everything went, or the few seconds are over.
CloseEnds ==
  /\ stopping = "flushing"
  /\ stopping' = "closed"
  /\ fate' = [i \in 1..MaxEvents |-> IF \E j \in DOMAIN waiting : waiting[j].id = i THEN "unsent" ELSE fate[i]]
  /\ UNCHANGED <<waiting, posting, backingOff, tokens, raised, late, arrived>>

EventsNext ==
  \/ \E alarm \in BOOLEAN : Submit(alarm)
  \/ TakeEvent
  \/ \E answer \in Answers : Post(answer)
  \/ BackoffEnds \/ TokenBack \/ DeadlinePasses
  \/ CloseBegins \/ CloseEnds

\* The worker runs, requests end and time passes.
EventsProgress == TakeEvent \/ \E answer \in Answers : Post(answer)
-----------------------------------------------------------------------------
\* Events reach the ingress in the order in which they were raised, whatever was retried, given up or
\* dropped in between (appendleft in _settle_locked: "the events behind it keep their order").
EventsInOrder == \A i, j \in DOMAIN arrived : i < j => arrived[i] < arrived[j]

\* An alarm is dropped for room only by alarms: when it was, at least EventCap alarms were raised around it
\* and no event that is none waits in front of the newest (_make_room_locked).
AlarmsStay ==
  [][\A i \in DOMAIN waiting :
       waiting[i].alarm /\ fate'[waiting[i].id] = "room" /\ fate[waiting[i].id] = "waiting"
         => \A j \in DOMAIN waiting : waiting[j].alarm]_eventVars

\* No event waits: one that is not delivered does not hold up the others for ever, each is posted or given
\* up with its reason (the deadline of _settle_locked).
NoEventWaits == stopping = "closed" \/ \A i \in 1..MaxEvents : fate[i] # "waiting"
=============================================================================
