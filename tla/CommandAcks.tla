----------------------------- MODULE CommandAcks -----------------------------
(***************************************************************************)
(* The queue every command ack takes to the backend (command_acks.py).     *)
(* Any thread submits; one worker holds an acknowledgement back a while,   *)
(* leaves out what a later ack of the command says as well, posts, and     *)
(* tries again what did not get through.  Time is what is left until       *)
(* something is due; the worker may be late for all of it.                 *)
(*                                                                         *)
(* A post that is answered with an error, or not at all, may have reached  *)
(* the backend all the same.                                               *)
(***************************************************************************)
EXTENDS Integers, FiniteSets, SequencesExt

CONSTANTS
  Commands, None,
  Hold,               \* COALESCE_S
  MaxWaiting,         \* MAX_WAITING
  HardCap,            \* HARD_CAP
  Tries,              \* INTERMEDIATE_TRIES
  Deadline,           \* FINAL_DEADLINE_S
  Backoff,            \* BACKOFF_S
  RateLimited,        \* RATE_LIMITED_S
  Remembered,         \* REMEMBERED_ACKNOWLEDGED
  MaxAcks             \* bound: acks submitted

ASSUME CommandAcksAssumption ==
  /\ Hold \in Nat /\ MaxWaiting \in Nat /\ HardCap \in Nat \ {0} /\ MaxWaiting <= HardCap
  /\ Tries \in Nat /\ Deadline \in Nat /\ RateLimited \in Nat /\ Remembered \in Nat \ {0}
  /\ Backoff \in Seq(Nat) /\ Backoff # <<>> /\ MaxAcks \in Nat /\ None \notin Commands

VARIABLES
  queue,         \* _queue
  flight,        \* _in_flight
  acknowledged,  \* _acknowledged, the oldest first
  paused,        \* how long until _paused_until
  flushing, closed,
  made,          \* how many acks were queued or tried to be
  told,          \* how far each command is with its own acks
  arrived,       \* history: the acks the backend has
  given          \* history: the final acks given up

ackVars == <<queue, flight, acknowledged, paused, flushing, closed, made, told, arrived, given>>

Stages == <<"acknowledged", "executing", "final">>
Intermediate == {"acknowledged", "executing"}
\* A refusal is the failed ack of a message the node carried nothing out for: it has a reason.
Kinds == Intermediate \cup {"final", "refusal"}
Final(a) == a.kind \notin Intermediate

\* What an ack is, and what becomes of it as it waits.
Said == [n : 1..MaxAcks, cmd : Commands, kind : Kinds]
What(a) == [n |-> a.n, cmd |-> a.cmd, kind |-> a.kind]

\* What the ingress answers: 2xx; 408 or 5xx; 429; any other 4xx; nothing.
Answers == {"ok", "error", "limited", "refused", "unreached"}

AtMost(a, b) == IF a <= b THEN a ELSE b
AtLeast(a, b) == IF a >= b THEN a ELSE b

\* The elements of a sequence at some of its places, in their order.
Nth(places, k) == CHOOSE i \in places : Cardinality({j \in places : j < i}) = k - 1
At(s, places) == [k \in 1..Cardinality(places) |-> s[Nth(places, k)]]

-----------------------------------------------------------------------------
(* Submitting.  A definition with an underscore and a word more            *)
(* (Kept_ByRefusals) is a mutant: the bug a property must find.            *)

MakeRoom_Oldest == [q |-> Tail(queue), gone |-> {What(queue[1])}]

\* _make_room_locked: the oldest intermediate ack goes, or the final ack queued first.
MakeRoom ==
  LET held == {i \in DOMAIN queue : ~Final(queue[i])}
      out == IF held # {} THEN CHOOSE i \in held : \A j \in held : i <= j
             ELSE CHOOSE i \in DOMAIN queue : \A j \in DOMAIN queue : queue[i].n <= queue[j].n
  IN [q |-> RemoveAt(queue, out), gone |-> IF held # {} THEN {} ELSE {What(queue[out])}]

\* An intermediate ack is not queued when too many wait; a final one always is.
Queue(a) ==
  IF ~Final(a) /\ Len(queue) >= MaxWaiting THEN UNCHANGED <<queue, given>>
  ELSE IF Final(a) /\ Len(queue) >= HardCap
    THEN queue' = Append(MakeRoom.q, a) /\ given' = given \cup MakeRoom.gone
    ELSE queue' = Append(queue, a) /\ UNCHANGED given

Others(cmd) == At(acknowledged, {i \in DOMAIN acknowledged : acknowledged[i] # cmd})

Remember_All(cmd) == Append(Others(cmd), cmd)

\* The newest ones, the command last.
Remember(cmd) ==
  LET s == Append(Others(cmd), cmd) IN
  IF Len(s) > Remembered THEN Tail(s) ELSE s

\* submit: a command's own acks come in the order of its stages; a refusal may come at any time, for a
\* copy of the message.
Submit(cmd, kind) ==
  /\ made < MaxAcks
  /\ kind # "refusal" => \E s \in 1..3 : kind = Stages[s] /\ told[cmd] < s /\ told' = [told EXCEPT ![cmd] = s]
  /\ kind = "refusal" => UNCHANGED told
  /\ made' = made + 1
  /\ acknowledged' = IF ~closed /\ kind = "acknowledged" THEN Remember(cmd) ELSE acknowledged
  /\ IF closed \/ (kind = "executing" /\ cmd \in Range(acknowledged)) THEN UNCHANGED <<queue, given>>
     ELSE Queue([n |-> made', cmd |-> cmd, kind |-> kind, tries |-> 0,
                 due |-> IF kind \in Intermediate THEN Hold ELSE 0,
                 left |-> IF kind \in Intermediate THEN 0 ELSE Deadline])
  /\ UNCHANGED <<flight, paused, flushing, closed, arrived>>

-----------------------------------------------------------------------------
(* The worker.                                                             *)

Superseded(q, i) == ~Final(q[i]) /\ \E j \in (i + 1)..Len(q) : q[j].cmd = q[i].cmd /\ q[j].kind # "refusal"

\* _drop_superseded_locked: an intermediate ack goes when a later ack of its command waits; a refusal
\* is about another message.
Kept(q) == At(q, {i \in DOMAIN q : ~Superseded(q, i)})

\* The acks that may be posted: due, and the first of their command.
Ready(q) == {i \in DOMAIN q : (flushing \/ q[i].due = 0) /\ \A j \in 1..(i - 1) : q[j].cmd # q[i].cmd}

\* _next_locked: what no longer needs to be said is dropped, then the first ack that may go is taken.
Look ==
  /\ ~closed /\ flight = None
  /\ LET q == Kept(queue)  ready == Ready(q) IN
     IF ready = {} \/ (paused > 0 /\ ~flushing) THEN queue' = q /\ UNCHANGED flight
     ELSE \E i \in ready : (\A j \in ready : i <= j) /\ flight' = q[i] /\ queue' = RemoveAt(q, i)
  /\ UNCHANGED <<acknowledged, paused, flushing, closed, made, told, arrived, given>>

Hopeless_NoDeadline(a, answer) == answer = "refused" \/ flushing \/ (~Final(a) /\ a.tries >= Tries)

\* Not to be tried again: refused for good, stopping, past its deadline, out of tries.
Hopeless(a, answer) ==
  \/ answer = "refused" \/ flushing
  \/ IF Final(a) THEN a.left = 0 ELSE a.tries >= Tries

\* How long until the next try: of a final ack, no longer than its deadline.
Wait(a, answer) ==
  LET backoff == IF answer = "limited" THEN RateLimited ELSE Backoff[AtMost(a.tries, Len(Backoff))]
  IN IF Final(a) THEN AtMost(backoff, a.left) ELSE backoff

AllWait_OnlyIngress(a, answer) == answer \in {"limited", "unreached"}

\* Every ack waits with it: the ingress is in trouble, or a later final ack would overtake it.
AllWait(a, answer) == answer \in {"limited", "unreached"} \/ Final(a)

\* _settle_locked, of an ack that failed.
TryAgain(a, answer) ==
  LET due == Wait(a, answer) IN
  /\ queue' = <<[a EXCEPT !.due = due]>> \o queue
  /\ paused' = IF AllWait(a, answer) THEN AtLeast(paused, due) ELSE paused
  /\ UNCHANGED given

\* _give_up.
GiveUp(a) == given' = given \cup (IF Final(a) THEN {What(a)} ELSE {}) /\ UNCHANGED <<queue, paused>>

\* Tries are counted as far as they make a difference.
MostTries == AtLeast(Tries, Len(Backoff))

\* The post is answered, or times out, and settled.
Settle(answer) ==
  /\ flight # None
  /\ LET a == [flight EXCEPT !.tries = AtMost(@ + 1, MostTries)] IN
     /\ \/ arrived' = arrived \cup {What(a)} /\ answer # "refused" /\ answer # "limited"
        \/ UNCHANGED arrived /\ answer # "ok"
     /\ IF answer = "ok" THEN UNCHANGED <<queue, paused, given>>
        ELSE IF Hopeless(a, answer) THEN GiveUp(a) ELSE TryAgain(a, answer)
  /\ flight' = None
  /\ UNCHANGED <<acknowledged, flushing, closed, made, told>>

-----------------------------------------------------------------------------
\* close: one more try each, then the end, when nothing waits or the time for it is over.
Flush ==
  /\ ~flushing
  /\ flushing' = TRUE
  /\ UNCHANGED <<queue, flight, acknowledged, paused, closed, made, told, arrived, given>>

Close ==
  /\ flushing /\ ~closed
  /\ closed' = TRUE
  /\ UNCHANGED <<queue, flight, acknowledged, paused, flushing, made, told, arrived, given>>

Sooner(k) == IF k = 0 THEN 0 ELSE k - 1
SoonerAck(a) == [a EXCEPT !.due = Sooner(@), !.left = Sooner(@)]

\* Time goes by.
Tick ==
  /\ paused > 0 \/ \E a \in (Range(queue) \cup {flight}) \ {None} : a.due > 0 \/ a.left > 0
  /\ queue' = [i \in DOMAIN queue |-> SoonerAck(queue[i])]
  /\ flight' = IF flight = None THEN None ELSE SoonerAck(flight)
  /\ paused' = Sooner(paused)
  /\ UNCHANGED <<acknowledged, flushing, closed, made, told, arrived, given>>

AcksInit ==
  /\ queue = <<>> /\ flight = None /\ acknowledged = <<>> /\ paused = 0
  /\ flushing = FALSE /\ closed = FALSE
  /\ made = 0 /\ told = [c \in Commands |-> 0] /\ arrived = {} /\ given = {}

AcksNext ==
  \/ \E c \in Commands, k \in Kinds : Submit(c, k)
  \/ Look \/ (\E answer \in Answers : Settle(answer))
  \/ Flush \/ Close \/ Tick

AcksSpec == AcksInit /\ [][AcksNext]_ackVars

Worker == Look \/ \E answer \in Answers : Settle(answer)

\* The worker's thread runs and a post ends in an answer or times out, time goes by, and a stop comes to
\* its end.
FairAcksSpec == AcksSpec /\ WF_ackVars(Worker) /\ WF_ackVars(Tick) /\ WF_ackVars(Close)

-----------------------------------------------------------------------------
(* Properties.                                                             *)

Acks == [n : 1..MaxAcks, cmd : Commands, kind : Kinds, tries : Nat, due : Nat, left : 0..Deadline]

AcksTypeOK ==
  /\ queue \in Seq(Acks) /\ flight \in Acks \cup {None}
  /\ acknowledged \in Seq(Commands) /\ Len(acknowledged) <= Remembered
  /\ paused \in Nat /\ flushing \in BOOLEAN /\ closed \in BOOLEAN
  /\ made \in 0..MaxAcks /\ told \in [Commands -> 0..3]
  /\ arrived \subseteq Said /\ given \subseteq Said

\* Acks of one command, and final acks of all commands but refusals, go out in the order they were
\* made: nothing is being posted that a later one of them has overtaken (command_acks.py:40-46).
NeverOvertaken ==
  flight # None =>
    \A a \in arrived : a.n > flight.n =>
      /\ a.cmd # flight.cmd
      /\ ~(a.kind = "final" /\ flight.kind = "final")

\* A final ack is given up before its deadline only when the ingress refused it, on a stop, or when
\* nothing but final acks waits and there is no room for one more.
GivenUpLate ==
  [][\A a \in given' \ given :
       \/ flushing \/ Settle("refused")
       \/ flight # None /\ What(flight) = a /\ flight.left = 0
       \/ Len(queue) >= HardCap /\ \A b \in Range(queue) : Final(b) /\ a.n <= b.n]_ackVars

\* No final ack waits or is being posted, and that of each command is with the backend or was given up,
\* not lost on the way.
FinalsSettled ==
  /\ \A a \in (Range(queue) \cup {flight}) \ {None} : ~Final(a)
  /\ \A c \in Commands : told[c] = 3 => \E a \in arrived \cup given : a.cmd = c /\ a.kind = "final"

\* With no more coming, every final ack settles, unless the node stops first.
FinalSettles == []<>(closed \/ FinalsSettled)
=============================================================================
