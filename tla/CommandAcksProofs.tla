-------------------------- MODULE CommandAcksProofs --------------------------
(***************************************************************************)
(* Theorems of CommandAcks, for any commands, bounds and waiting times:    *)
(* types, the order in which acks go out, and when a final ack is given    *)
(* up.                                                                     *)
(*                                                                         *)
(* The argument for NeverOvertaken: the acks of one command, and the final *)
(* acks of all, wait in the order they were made, the one that is posted   *)
(* first (QueueOrder, FlightFirst); a final ack that waits for its next    *)
(* try waits no longer than everything else does (PausedLong), so that the *)
(* first ack that may go is never one of two that should go the other way. *)
(***************************************************************************)
EXTENDS CommandAcks, FiniteSetTheorems, SequenceTheorems, WellFoundedInduction, TLAPS

\* A set of numbers has a smallest one.
LEMMA Smallest ==
  ASSUME NEW T, T \subseteq Nat, T # {}
  PROVE  \E n \in T : \A m \in T : n <= m
  <1> DEFINE R == OpToRel(<, Nat)
  <1>1. IsWellFoundedOn(R, Nat)
    BY NatLessThanWellFounded
  <1>2. \A x, y \in Nat : <<x, y>> \in R <=> x < y
    BY DEF OpToRel
  <1> HIDE DEF R
  <1>3. PICK n \in T : \A m \in T : <<m, n>> \notin R
    BY <1>1, WFMin
  <1>4. ASSUME NEW m \in T
        PROVE  n <= m
    <2>1. m \in Nat /\ n \in Nat
      OBVIOUS
    <2>2. ~(m < n)
      BY <1>2, <1>3, <2>1
    <2> QED BY <2>1, <2>2
  <1> QED BY <1>4

\* A sequence without the element at one place.
LEMMA RemoveAtFacts ==
  ASSUME NEW S, NEW q \in Seq(S), NEW i \in 1..Len(q)
  PROVE  /\ RemoveAt(q, i) \in Seq(S) /\ Len(RemoveAt(q, i)) = Len(q) - 1
         /\ \A j \in 1..(Len(q) - 1) : RemoveAt(q, i)[j] = IF j < i THEN q[j] ELSE q[j + 1]
  <1> DEFINE s == SubSeq(q, 1, i - 1)
             t == SubSeq(q, i + 1, Len(q))
  <1>1. s \in Seq(S) /\ Len(s) = i - 1 /\ \A j \in 1..(i - 1) : s[j] = q[j]
    <2>1. \A j \in 1..(i - 1) : q[j] \in S
      OBVIOUS
    <2> QED BY <2>1, SubSeqProperties
  <1>2. t \in Seq(S) /\ Len(t) = Len(q) - i /\ \A j \in 1..(Len(q) - i) : t[j] = q[i + j]
    <2>1. \A j \in (i + 1)..Len(q) : q[j] \in S
      OBVIOUS
    <2> QED BY <2>1, SubSeqProperties
  <1>3. RemoveAt(q, i) = s \o t
    BY DEF RemoveAt
  <1> HIDE DEF s, t
  <1>4. /\ s \o t \in Seq(S) /\ Len(s \o t) = Len(s) + Len(t)
        /\ \A j \in 1..(Len(s) + Len(t)) : (s \o t)[j] = IF j <= Len(s) THEN s[j] ELSE t[j - Len(s)]
    BY <1>1, <1>2, ConcatProperties
  <1>5. ASSUME NEW j \in 1..(Len(q) - 1)
        PROVE  (s \o t)[j] = IF j < i THEN q[j] ELSE q[j + 1]
    <2>1. (s \o t)[j] = IF j <= i - 1 THEN s[j] ELSE t[j - (i - 1)]
      BY <1>1, <1>2, <1>4
    <2>2. CASE j < i
      BY <1>1, <2>1, <2>2
    <2>3. CASE ~(j < i)
      <3>1. j - (i - 1) \in 1..(Len(q) - i) /\ i + (j - (i - 1)) = j + 1
        BY <2>3
      <3>2. t[j - (i - 1)] = q[i + (j - (i - 1))]
        BY <3>1, <1>2
      <3> QED BY <2>1, <2>3, <3>1, <3>2
    <2> QED BY <2>2, <2>3
  <1> QED BY <1>1, <1>2, <1>3, <1>4, <1>5

\* The places below one, counted.
Below(places, i) == {j \in places : j < i}

\* Among n places, the k-th is there, for every k.
LEMMA NthExists ==
  ASSUME NEW n \in Nat, NEW places \in SUBSET (1..n), NEW k \in 1..Cardinality(places)
  PROVE  \E i \in places : Cardinality(Below(places, i)) = k - 1
  <1> DEFINE Has(m) == \E i \in places : Cardinality(Below(places, i)) = m - 1
             Without == {m \in 1..Cardinality(places) : ~Has(m)}
  <1>1. IsFiniteSet(places) /\ Cardinality(places) \in Nat
    <2>1. IsFiniteSet(1..n)
      BY FS_Interval
    <2> QED BY <2>1, FS_Subset, FS_CardinalityType
  <1>2. \A i \in places : IsFiniteSet(Below(places, i)) /\ Cardinality(Below(places, i)) \in Nat
    <2> TAKE i \in places
    <2>1. Below(places, i) \in SUBSET places
      BY DEF Below
    <2> QED BY <1>1, <2>1, FS_Subset, FS_CardinalityType
  <1>3. SUFFICES ASSUME Without # {}
                 PROVE  FALSE
    OBVIOUS
  <1>4. PICK m \in Without : \A l \in Without : m <= l
    <2>1. Without \subseteq Nat
      BY <1>1
    <2> HIDE DEF Without
    <2> QED BY <1>3, <2>1, Smallest
  <1>5. m \in 1..Cardinality(places) /\ ~Has(m)
    OBVIOUS
  <1>6. CASE m = 1
    <2>1. places # {} /\ places \subseteq Nat
      BY <1>1, <1>5, FS_EmptySet
    <2>2. PICK i \in places : \A j \in places : i <= j
      BY <2>1, Smallest
    <2>3. Below(places, i) = {}
      <3>1. \A j \in places : j \in Nat /\ ~(j < i)
        BY <2>2
      <3> QED BY <3>1 DEF Below
    <2>4. Cardinality(Below(places, i)) = m - 1
      BY <1>6, <2>3, FS_EmptySet
    <2> QED BY <1>5, <2>4
  <1>7. CASE m # 1
    <2>1. m - 1 \in 1..Cardinality(places) /\ m - 1 \notin Without
      BY <1>1, <1>4, <1>5, <1>7
    <2>2. PICK i \in places : Cardinality(Below(places, i)) = m - 2
      BY <2>1
    <2> DEFINE upto == Below(places, i) \cup {i}
               rest == places \ upto
    <2>3. IsFiniteSet(upto) /\ Cardinality(upto) = m - 1
      <3>1. i \notin Below(places, i)
        BY DEF Below
      <3> QED BY <1>1, <1>2, <1>5, <2>2, <3>1, FS_AddElement
    <2>4. rest # {}
      <3>1. SUFFICES ASSUME places \subseteq upto
                     PROVE  FALSE
        OBVIOUS
      <3>2. Cardinality(places) <= m - 1
        <4> HIDE DEF upto
        <4> QED BY <2>3, <3>1, FS_Subset
      <3> QED BY <1>1, <1>5, <3>2
    <2>5. PICK j \in rest : \A l \in rest : j <= l
      <3>1. rest \subseteq Nat
        <4>1. \A l \in places : l \in Nat
          OBVIOUS
        <4> HIDE DEF upto
        <4> QED BY <4>1
      <3> HIDE DEF rest
      <3> QED BY <2>4, <3>1, Smallest
    <2>6. Below(places, j) = upto
      <3>1. j \in Nat /\ j \in places /\ i < j
        BY DEF Below
      <3>2. \A l \in places : l \in Nat /\ (l < j <=> l \in upto)
        BY <2>5, <3>1 DEF Below
      <3>3. upto \subseteq places
        BY DEF Below
      <3> HIDE DEF upto
      <3> QED BY <3>2, <3>3 DEF Below
    <2> QED BY <1>5, <2>3, <2>5, <2>6
  <1> QED BY <1>6, <1>7

\* What is taken out of a sequence keeps its order.
LEMMA AtFacts ==
  ASSUME NEW S, NEW s \in Seq(S), NEW places \in SUBSET DOMAIN s
  PROVE  /\ At(s, places) \in Seq(S) /\ Len(At(s, places)) = Cardinality(places)
         /\ Cardinality(places) <= Len(s)
         /\ \E f \in [1..Cardinality(places) -> places] :
              /\ \A k \in 1..Cardinality(places) : At(s, places)[k] = s[f[k]]
              /\ \A k, l \in 1..Cardinality(places) : k < l => f[k] < f[l]
  <1> DEFINE N == Cardinality(places)
             f == [k \in 1..N |-> Nth(places, k)]
  <1>1. DOMAIN s = 1..Len(s) /\ Len(s) \in Nat
    OBVIOUS
  <1>2. IsFiniteSet(places) /\ N \in Nat /\ N <= Len(s)
    <2>1. /\ IsFiniteSet(1..Len(s))
          /\ Cardinality(1..Len(s)) = IF 1 > Len(s) THEN 0 ELSE Len(s) - 1 + 1
      BY <1>1, FS_Interval
    <2> QED BY <1>1, <2>1, FS_Subset, FS_CardinalityType
  <1>3. \A k \in 1..N : Nth(places, k) \in places /\ Cardinality(Below(places, Nth(places, k))) = k - 1
    <2> TAKE k \in 1..N
    <2>1. \E i \in places : Cardinality(Below(places, i)) = k - 1
      BY <1>1, NthExists
    <2> QED BY <2>1 DEF Nth, Below
  <1>4. f \in [1..N -> places]
    BY <1>3
  <1>5. \A k \in 1..N : At(s, places)[k] = s[f[k]]
    BY DEF At
  <1>6. ASSUME NEW k \in 1..N, NEW l \in 1..N, k < l
        PROVE  f[k] < f[l]
    <2>1. SUFFICES ASSUME f[l] <= f[k]
                   PROVE  FALSE
      BY <1>1, <1>4
    <2>2. Below(places, f[l]) \in SUBSET Below(places, f[k]) /\ Below(places, f[k]) \in SUBSET places
      BY <1>1, <1>4, <2>1 DEF Below
    <2>3. Cardinality(Below(places, f[l])) <= Cardinality(Below(places, f[k]))
      BY <1>2, <2>2, FS_Subset
    <2> QED BY <1>3, <1>6, <2>3
  <1>7. At(s, places) \in Seq(S) /\ Len(At(s, places)) = N
    <2>1. At(s, places) = [k \in 1..N |-> s[f[k]]]
      BY DEF At
    <2>2. \A k \in 1..N : s[f[k]] \in S
      BY <1>1, <1>4
    <2> HIDE DEF f, N
    <2> QED BY <1>2, <2>1, <2>2
  <1> QED BY <1>2, <1>4, <1>5, <1>6, <1>7

-----------------------------------------------------------------------------
\* What the constants are.
LEMMA Facts ==
  /\ Hold \in Nat /\ MaxWaiting \in Nat /\ HardCap \in Nat /\ HardCap > 0 /\ Tries \in Nat /\ Deadline \in Nat
  /\ RateLimited \in Nat /\ Remembered \in Nat /\ Remembered > 0 /\ MaxAcks \in Nat
  /\ Len(Backoff) \in Nat /\ Len(Backoff) > 0 /\ \A k \in 1..Len(Backoff) : Backoff[k] \in Nat
  /\ MostTries \in Nat /\ MostTries > 0
  <1>1. Backoff \in Seq(Nat) /\ Len(Backoff) \in Nat /\ Len(Backoff) > 0
    BY CommandAcksAssumption, EmptySeq
  <1>2. \A k \in 1..Len(Backoff) : Backoff[k] \in Nat
    BY <1>1, ElementOfSeq
  <1>3. MostTries \in Nat /\ MostTries > 0
    BY <1>1, CommandAcksAssumption DEF MostTries, AtLeast
  <1> QED BY <1>1, <1>2, <1>3, CommandAcksAssumption

\* The fields of an ack.
LEMMA AckReadings ==
  ASSUME NEW a \in Acks
  PROVE  /\ a.n \in 1..MaxAcks /\ a.cmd \in Commands /\ a.kind \in Kinds
         /\ a.tries \in Nat /\ a.due \in Nat /\ a.left \in 0..Deadline
         /\ What(a) \in Said /\ What(a).n = a.n /\ What(a).cmd = a.cmd /\ What(a).kind = a.kind
  BY DEF Acks, What, Said

\* An ack is the same ack as it waits.
SameAck(b, a) == b.n = a.n /\ b.cmd = a.cmd /\ b.kind = a.kind

\* A try that is counted, a wait that begins, and time that goes by.
LEMMA AckWrites ==
  ASSUME NEW a \in Acks, NEW k \in Nat
  PROVE  /\ [a EXCEPT !.tries = k] \in Acks /\ [a EXCEPT !.due = k] \in Acks
         /\ SameAck([a EXCEPT !.tries = k], a) /\ [a EXCEPT !.tries = k].tries = k
         /\ [a EXCEPT !.tries = k].left = a.left /\ [a EXCEPT !.tries = k].due = a.due
         /\ SameAck([a EXCEPT !.due = k], a) /\ [a EXCEPT !.due = k].due = k
  <1>1. [a EXCEPT !.tries = k] \in Acks /\ [a EXCEPT !.due = k] \in Acks
    BY DEF Acks
  <1>2. /\ SameAck([a EXCEPT !.tries = k], a) /\ [a EXCEPT !.tries = k].tries = k
        /\ [a EXCEPT !.tries = k].left = a.left /\ [a EXCEPT !.tries = k].due = a.due
    BY DEF Acks, SameAck
  <1>3. SameAck([a EXCEPT !.due = k], a) /\ [a EXCEPT !.due = k].due = k
    BY DEF Acks, SameAck
  <1> QED BY <1>1, <1>2, <1>3

\* A second later an ack is the same one, and due a second sooner.
LEMMA SoonerFacts ==
  ASSUME NEW a \in Acks
  PROVE  /\ SoonerAck(a) \in Acks /\ SameAck(SoonerAck(a), a)
         /\ SoonerAck(a).due = Sooner(a.due)
  <1>1. Sooner(a.due) \in Nat /\ Sooner(a.left) \in 0..Deadline
    BY Facts, AckReadings DEF Sooner
  <1> DEFINE d == Sooner(a.due)
             l == Sooner(a.left)
  <1>2. SoonerAck(a) = [a EXCEPT !.due = d, !.left = l]
    BY DEF SoonerAck
  <1> HIDE DEF d, l
  <1>3. SoonerAck(a) \in Acks
    BY <1>1, <1>2 DEF d, l, Acks
  <1>4. SameAck(SoonerAck(a), a) /\ SoonerAck(a).due = d
    BY <1>2 DEF Acks, SameAck
  <1> QED BY <1>3, <1>4 DEF d

\* How long an ack waits that is tried again.
LEMMA WaitFacts ==
  ASSUME NEW a \in Acks, a.tries > 0, NEW answer
  PROVE  Wait(a, answer) \in Nat
  <1>1. AtMost(a.tries, Len(Backoff)) \in 1..Len(Backoff)
    BY Facts, AckReadings DEF AtMost
  <1>2. Backoff[AtMost(a.tries, Len(Backoff))] \in Nat
    BY <1>1, Facts
  <1> QED BY <1>2, Facts, AckReadings DEF Wait, AtMost

\* What makes room: one ack of the queue goes, and it is final only when all are.
RoomMade(out) ==
  /\ out \in 1..Len(queue)
  /\ MakeRoom.q = RemoveAt(queue, out)
  /\ \/ MakeRoom.gone = {}
     \/ /\ MakeRoom.gone = {What(queue[out])}
        /\ \A j \in 1..Len(queue) : Final(queue[j]) /\ queue[out].n <= queue[j].n

\* Room is made of one ack of the queue.
LEMMA MakeRoomFacts ==
  ASSUME queue \in Seq(Acks), Len(queue) > 0
  PROVE  \E out \in 1..Len(queue) : RoomMade(out)
  <1> DEFINE held == {i \in DOMAIN queue : ~Final(queue[i])}
             out == IF held # {} THEN CHOOSE i \in held : \A j \in held : i <= j
                    ELSE CHOOSE i \in DOMAIN queue : \A j \in DOMAIN queue : queue[i].n <= queue[j].n
  <1>1. DOMAIN queue = 1..Len(queue) /\ Len(queue) \in Nat
    OBVIOUS
  <1>2. /\ MakeRoom.q = RemoveAt(queue, out)
        /\ MakeRoom.gone = IF held # {} THEN {} ELSE {What(queue[out])}
    BY Zenon DEF MakeRoom
  <1>3. CASE held # {}
    <2>1. held \subseteq Nat
      BY <1>1
    <2>2. \E i \in held : \A j \in held : i <= j
      <3> HIDE DEF held
      <3> QED BY <1>3, <2>1, Smallest
    <2>3. out \in held
      BY <1>3, <2>2
    <2> QED BY <1>1, <1>2, <1>3, <2>3 DEF RoomMade
  <1>4. CASE held = {}
    <2> DEFINE numbers == {queue[i].n : i \in 1..Len(queue)}
    <2>1. numbers \subseteq Nat /\ numbers # {}
      <3>1. \A i \in 1..Len(queue) : queue[i].n \in Nat
        BY AckReadings, Facts
      <3>2. 1 \in 1..Len(queue)
        BY <1>1
      <3> QED BY <3>1, <3>2
    <2>2. PICK n \in numbers : \A m \in numbers : n <= m
      <3> HIDE DEF numbers
      <3> QED BY <2>1, Smallest
    <2>3. \E i \in DOMAIN queue : \A j \in DOMAIN queue : queue[i].n <= queue[j].n
      BY <1>1, <2>2
    <2>4. out \in DOMAIN queue /\ \A j \in DOMAIN queue : queue[out].n <= queue[j].n
      BY <1>4, <2>3
    <2>5. \A j \in 1..Len(queue) : Final(queue[j])
      BY <1>1, <1>4
    <2> HIDE DEF out
    <2>6. MakeRoom.gone = {What(queue[out])}
      BY <1>2, <1>4
    <2> QED BY <1>1, <1>2, <2>4, <2>5, <2>6 DEF RoomMade
  <1> QED BY <1>3, <1>4

\* The commands that were acknowledged, the oldest first, with one more.
LEMMA RememberFacts ==
  ASSUME acknowledged \in Seq(Commands), Len(acknowledged) <= Remembered, NEW cmd \in Commands
  PROVE  Remember(cmd) \in Seq(Commands) /\ Len(Remember(cmd)) <= Remembered
  <1> DEFINE others == Others(cmd)
             s == Append(others, cmd)
  <1>1. others \in Seq(Commands) /\ Len(others) <= Len(acknowledged) /\ Len(others) \in Nat
    <2> DEFINE places == {i \in DOMAIN acknowledged : acknowledged[i] # cmd}
    <2>1. others = At(acknowledged, places) /\ places \in SUBSET DOMAIN acknowledged
      BY DEF Others
    <2> HIDE DEF places, others
    <2>2. /\ At(acknowledged, places) \in Seq(Commands)
          /\ Len(At(acknowledged, places)) = Cardinality(places) /\ Cardinality(places) <= Len(acknowledged)
      BY <2>1, AtFacts
    <2>3. Len(At(acknowledged, places)) \in Nat
      BY <2>2, LenProperties
    <2> QED BY <2>1, <2>2, <2>3
  <1>2. Remember(cmd) = IF Len(s) > Remembered THEN Tail(s) ELSE s
    BY DEF Remember
  <1> HIDE DEF others
  <1>3. s \in Seq(Commands) /\ Len(s) = Len(others) + 1
    BY <1>1
  <1> HIDE DEF s
  <1>4. Tail(s) \in Seq(Commands) /\ Len(Tail(s)) = Len(s) - 1
    <2>1. s # <<>>
      BY <1>1, <1>3, EmptySeq
    <2> QED BY <1>3, <2>1, HeadTailProperties
  <1>5. Len(acknowledged) \in Nat
    BY LenProperties
  <1> QED BY <1>1, <1>2, <1>3, <1>4, <1>5, Facts

\* An ack that is queued comes last, and another one goes when there is no room.
LEMMA QueueFacts ==
  ASSUME queue \in Seq(Acks), given \subseteq Said, NEW a \in Acks, Queue(a)
  PROVE  /\ queue' \in Seq(Acks) /\ given' \subseteq Said
         /\ \/ queue' = queue /\ given' = given
            \/ queue' = Append(queue, a) /\ given' = given
            \/ \E out \in 1..Len(queue) : /\ RoomMade(out) /\ queue' = Append(RemoveAt(queue, out), a)
                                          /\ given' = given \cup MakeRoom.gone /\ Len(queue) >= HardCap
  <1>1. CASE queue' = queue /\ given' = given
    BY <1>1
  <1>2. CASE queue' = Append(queue, a) /\ given' = given
    BY <1>2
  <1>3. CASE /\ Len(queue) >= HardCap /\ queue' = Append(MakeRoom.q, a)
             /\ given' = given \cup MakeRoom.gone
    <2>1. Len(queue) > 0
      BY <1>3, Facts, LenProperties
    <2>2. PICK out \in 1..Len(queue) : RoomMade(out)
      BY <2>1, MakeRoomFacts
    <2>3. RemoveAt(queue, out) \in Seq(Acks) /\ MakeRoom.q = RemoveAt(queue, out)
      BY <2>2, RemoveAtFacts DEF RoomMade
    <2>4. queue[out] \in Acks
      OBVIOUS
    <2>5. MakeRoom.gone \subseteq Said
      BY <2>2, <2>4, AckReadings DEF RoomMade
    <2> QED BY <1>3, <2>2, <2>3, <2>5
  <1> QED BY <1>1, <1>2, <1>3 DEF Queue

\* What Look takes is out of what is kept.
LEMMA KeptFacts ==
  ASSUME NEW q \in Seq(Acks)
  PROVE  /\ Kept(q) \in Seq(Acks)
         /\ \E f \in [1..Len(Kept(q)) -> 1..Len(q)] :
              /\ \A k \in 1..Len(Kept(q)) : Kept(q)[k] = q[f[k]] /\ ~Superseded(q, f[k])
              /\ \A k, l \in 1..Len(Kept(q)) : k < l => f[k] < f[l]
  <1> DEFINE places == {i \in DOMAIN q : ~Superseded(q, i)}
  <1>1. Kept(q) = At(q, places) /\ places \in SUBSET DOMAIN q /\ DOMAIN q = 1..Len(q)
    BY DEF Kept
  <1>2. \A i \in places : ~Superseded(q, i)
    OBVIOUS
  <1> HIDE DEF places
  <1>3. At(q, places) \in Seq(Acks) /\ Len(At(q, places)) = Cardinality(places)
    BY <1>1, AtFacts
  <1>4. PICK f \in [1..Cardinality(places) -> places] :
           /\ \A k \in 1..Cardinality(places) : At(q, places)[k] = q[f[k]]
           /\ \A k, l \in 1..Cardinality(places) : k < l => f[k] < f[l]
    BY <1>1, AtFacts
  <1>5. f \in [1..Len(Kept(q)) -> 1..Len(q)]
    BY <1>1, <1>3, <1>4
  <1>6. \A k \in 1..Len(Kept(q)) : Kept(q)[k] = q[f[k]] /\ ~Superseded(q, f[k])
    BY <1>1, <1>2, <1>3, <1>4
  <1>7. \A k, l \in 1..Len(Kept(q)) : k < l => f[k] < f[l]
    BY <1>1, <1>3, <1>4
  <1> QED BY <1>1, <1>3, <1>5, <1>6, <1>7

\* A look drops what is superseded, and takes the first ack that may go or none.
Taken(q, i) ==
  /\ i \in Ready(q) /\ \A j \in Ready(q) : i <= j
  /\ paused = 0 \/ flushing
  /\ flight' = q[i] /\ queue' = RemoveAt(q, i)

\* A look leaves what is kept of the queue, and may take one of it.
LEMMA LookSteps ==
  ASSUME Look, paused \in Nat
  PROVE  /\ flight = None
         /\ \/ queue' = Kept(queue) /\ flight' = flight
            \/ \E i \in DOMAIN Kept(queue) : Taken(Kept(queue), i)
  <1> DEFINE q == Kept(queue)
  <1>1. flight = None
    BY DEF Look
  <1>2. CASE Ready(q) = {} \/ (paused > 0 /\ ~flushing)
    BY <1>1, <1>2 DEF Look
  <1>3. CASE ~(Ready(q) = {} \/ (paused > 0 /\ ~flushing))
    <2>1. \E i \in Ready(q) : (\A j \in Ready(q) : i <= j) /\ flight' = q[i] /\ queue' = RemoveAt(q, i)
      BY <1>3 DEF Look
    <2>2. paused = 0 \/ flushing
      BY <1>3
    <2>3. Ready(q) \subseteq DOMAIN q
      BY DEF Ready
    <2> HIDE DEF q
    <2> QED BY <1>1, <2>1, <2>2, <2>3 DEF Taken, q
  <1> QED BY <1>2, <1>3

-----------------------------------------------------------------------------
\* An ack that is submitted.
Submitted(cmd, kind) ==
  [n |-> made + 1, cmd |-> cmd, kind |-> kind, tries |-> 0,
   due |-> IF kind \in Intermediate THEN Hold ELSE 0,
   left |-> IF kind \in Intermediate THEN 0 ELSE Deadline]

\* An ack that is made has the next number and its kind.
LEMMA SubmittedFacts ==
  ASSUME made \in 0..MaxAcks, made < MaxAcks, NEW cmd \in Commands, NEW kind \in Kinds
  PROVE  /\ Submitted(cmd, kind) \in Acks /\ Submitted(cmd, kind).n = made + 1
         /\ Submitted(cmd, kind).kind = kind
         /\ Final(Submitted(cmd, kind)) => Submitted(cmd, kind).due = 0
  <1>1. made + 1 \in 1..MaxAcks /\ 0 \in Nat /\ 0 \in 0..Deadline /\ Deadline \in 0..Deadline /\ Hold \in Nat
    BY Facts
  <1>2. Submitted(cmd, kind) \in Acks
    BY <1>1 DEF Submitted, Acks
  <1>3. Submitted(cmd, kind).n = made + 1 /\ Submitted(cmd, kind).kind = kind
    BY DEF Submitted
  <1>4. Final(Submitted(cmd, kind)) => Submitted(cmd, kind).due = 0
    BY DEF Submitted, Final
  <1> QED BY <1>2, <1>3, <1>4

\* A submit counts the ack, and queues it or not.
LEMMA SubmitSteps ==
  ASSUME NEW cmd \in Commands, NEW kind \in Kinds, Submit(cmd, kind)
  PROVE  /\ made < MaxAcks /\ made' = made + 1
         /\ acknowledged' \in {acknowledged, Remember(cmd)}
         /\ UNCHANGED <<flight, paused, flushing, closed, arrived>>
         /\ (queue' = queue /\ given' = given) \/ Queue(Submitted(cmd, kind))
  <1>1. made < MaxAcks /\ made' = made + 1 /\ UNCHANGED <<flight, paused, flushing, closed, arrived>>
    BY DEF Submit
  <1>2. acknowledged' \in {acknowledged, Remember(cmd)}
    BY DEF Submit
  <1>3. (queue' = queue /\ given' = given) \/ Queue(Submitted(cmd, kind))
    BY <1>1 DEF Submit, Submitted
  <1> QED BY <1>1, <1>2, <1>3

\* A submit keeps the types.
LEMMA SubmitTypes ==
  ASSUME AcksTypeOK, NEW cmd \in Commands, NEW kind \in Kinds, Submit(cmd, kind)
  PROVE  AcksTypeOK'
  <1>1. made' \in 0..MaxAcks
    BY SubmitSteps, Facts DEF AcksTypeOK
  <1>2. told' \in [Commands -> 0..3]
    <2>1. CASE kind = "refusal"
      BY <2>1 DEF Submit, AcksTypeOK
    <2>2. CASE kind # "refusal"
      <3>1. PICK s \in 1..3 : told' = [told EXCEPT ![cmd] = s]
        BY <2>2 DEF Submit
      <3>2. s \in 0..3
        OBVIOUS
      <3> QED BY <3>1, <3>2 DEF AcksTypeOK
    <2> QED BY <2>1, <2>2
  <1>3. acknowledged' \in Seq(Commands) /\ Len(acknowledged') <= Remembered
    BY SubmitSteps, RememberFacts DEF AcksTypeOK
  <1>4. queue' \in Seq(Acks) /\ given' \subseteq Said
    <2>1. CASE Queue(Submitted(cmd, kind))
      <3>1. Submitted(cmd, kind) \in Acks
        BY SubmitSteps, SubmittedFacts DEF AcksTypeOK
      <3> QED BY <2>1, <3>1, QueueFacts DEF AcksTypeOK
    <2> QED BY <2>1, SubmitSteps DEF AcksTypeOK
  <1>5. UNCHANGED <<flight, paused, flushing, closed, arrived>>
    BY SubmitSteps
  <1> QED BY <1>1, <1>2, <1>3, <1>4, <1>5 DEF AcksTypeOK

\* A look at the queue keeps the types.
LEMMA LookTypes ==
  ASSUME AcksTypeOK, Look
  PROVE  AcksTypeOK'
  <1>1. Kept(queue) \in Seq(Acks)
    BY KeptFacts DEF AcksTypeOK
  <1>2. queue' \in Seq(Acks) /\ flight' \in Acks \cup {None}
    <2>1. CASE queue' = Kept(queue) /\ flight' = flight
      BY <1>1, <2>1 DEF AcksTypeOK
    <2>2. ASSUME NEW i \in DOMAIN Kept(queue), Taken(Kept(queue), i)
          PROVE  queue' \in Seq(Acks) /\ flight' \in Acks \cup {None}
      <3>1. i \in 1..Len(Kept(queue)) /\ Kept(queue)[i] \in Acks
        BY <1>1
      <3> QED BY <1>1, <2>2, <3>1, RemoveAtFacts DEF Taken
    <2> QED BY <2>1, <2>2, LookSteps DEF AcksTypeOK
  <1>3. UNCHANGED <<acknowledged, paused, flushing, closed, made, told, arrived, given>>
    BY DEF Look
  <1> QED BY <1>2, <1>3 DEF AcksTypeOK

\* The ack that is posted, with one more try.
Posted == [flight EXCEPT !.tries = AtMost(@ + 1, MostTries)]

\* A post counts a try and is of the same ack.
LEMMA PostedFacts ==
  ASSUME flight \in Acks
  PROVE  /\ Posted \in Acks /\ SameAck(Posted, flight) /\ Posted.tries > 0
         /\ Posted.left = flight.left /\ Posted.due = flight.due
         /\ What(Posted) = What(flight)
  <1> DEFINE k == AtMost(flight.tries + 1, MostTries)
  <1>1. Posted = [flight EXCEPT !.tries = k]
    BY DEF Posted
  <1>2. k \in Nat /\ k > 0
    BY Facts, AckReadings DEF AtMost
  <1> HIDE DEF k
  <1>3. /\ Posted \in Acks /\ SameAck(Posted, flight) /\ Posted.tries = k
        /\ Posted.left = flight.left /\ Posted.due = flight.due
    BY <1>1, <1>2, AckWrites
  <1>4. What(Posted) = What(flight)
    BY <1>3 DEF What, SameAck
  <1> QED BY <1>2, <1>3, <1>4

\* What becomes of the post that is answered: it is tried again, before all that waits, or it is over.
LEMMA SettleSteps ==
  ASSUME NEW answer \in Answers, Settle(answer), flight \in Acks
  PROVE  /\ flight # None /\ flight' = None
         /\ arrived' \in {arrived, arrived \cup {What(flight)}}
         /\ UNCHANGED <<acknowledged, flushing, closed, made, told>>
         /\ \/ UNCHANGED <<queue, paused, given>>
            \/ /\ UNCHANGED <<queue, paused>> /\ Hopeless(Posted, answer) /\ Final(Posted)
               /\ given' = given \cup {What(flight)}
            \/ ~Hopeless(Posted, answer) /\ TryAgain(Posted, answer)
  <1>1. /\ flight # None /\ flight' = None
        /\ UNCHANGED <<acknowledged, flushing, closed, made, told>>
    BY DEF Settle
  <1>2. What(Posted) = What(flight)
    BY PostedFacts
  <1>3. arrived' \in {arrived, arrived \cup {What(flight)}}
    BY <1>2 DEF Settle, Posted
  <1>4. \/ UNCHANGED <<queue, paused, given>>
        \/ Hopeless(Posted, answer) /\ GiveUp(Posted)
        \/ ~Hopeless(Posted, answer) /\ TryAgain(Posted, answer)
    BY DEF Settle, Posted
  <1> QED BY <1>1, <1>2, <1>3, <1>4 DEF GiveUp

\* An ack that is to be tried again goes back to the front, due no later than the pause ends when it is final.
LEMMA TryAgainFacts ==
  ASSUME flight \in Acks, queue \in Seq(Acks), paused \in Nat, NEW answer \in Answers, TryAgain(Posted, answer)
  PROVE  \E a \in Acks :
           /\ SameAck(a, flight) /\ queue' = <<a>> \o queue /\ given' = given
           /\ paused' \in Nat /\ paused <= paused' /\ (Final(a) => a.due <= paused')
  <1> DEFINE due == Wait(Posted, answer)
             a == [Posted EXCEPT !.due = due]
  <1>1. due \in Nat
    BY PostedFacts, WaitFacts
  <1>2. /\ queue' = <<a>> \o queue /\ given' = given
        /\ paused' = IF AllWait(Posted, answer) THEN AtLeast(paused, due) ELSE paused
    BY DEF TryAgain
  <1> HIDE DEF due
  <1>3. a \in Acks /\ SameAck(a, Posted) /\ a.due = due
    BY <1>1, PostedFacts, AckWrites
  <1>4. SameAck(a, flight)
    BY <1>3, PostedFacts DEF SameAck
  <1>5. Final(a) => AllWait(Posted, answer)
    BY <1>3 DEF SameAck, Final, AllWait
  <1> HIDE DEF a
  <1>6. paused' \in Nat /\ paused <= paused' /\ (Final(a) => a.due <= paused')
    BY <1>1, <1>2, <1>3, <1>5 DEF AtLeast
  <1> QED BY <1>2, <1>3, <1>4, <1>6

\* An answer keeps the types.
LEMMA SettleTypes ==
  ASSUME AcksTypeOK, NEW answer \in Answers, Settle(answer)
  PROVE  AcksTypeOK'
  <1>1. flight \in Acks
    BY DEF AcksTypeOK, Settle
  <1>2. What(flight) \in Said
    BY <1>1, AckReadings
  <1>3. /\ flight' = None /\ arrived' \subseteq Said
        /\ UNCHANGED <<acknowledged, flushing, closed, made, told>>
    BY <1>1, <1>2, SettleSteps DEF AcksTypeOK
  <1>4. queue' \in Seq(Acks) /\ paused' \in Nat /\ given' \subseteq Said
    <2>1. CASE TryAgain(Posted, answer)
      <3>1. PICK a \in Acks : queue' = <<a>> \o queue /\ given' = given /\ paused' \in Nat
        BY <1>1, <2>1, TryAgainFacts DEF AcksTypeOK
      <3> QED BY <3>1 DEF AcksTypeOK
    <2> QED BY <1>1, <1>2, <2>1, SettleSteps DEF AcksTypeOK
  <1> QED BY <1>3, <1>4 DEF AcksTypeOK

\* Time keeps the types.
LEMMA TickTypes ==
  ASSUME AcksTypeOK, Tick
  PROVE  AcksTypeOK'
  <1>1. queue' \in Seq(Acks)
    <2>1. queue' = [i \in 1..Len(queue) |-> SoonerAck(queue[i])] /\ Len(queue) \in Nat
      BY DEF Tick, AcksTypeOK
    <2>2. \A i \in 1..Len(queue) : SoonerAck(queue[i]) \in Acks
      BY SoonerFacts DEF AcksTypeOK
    <2> QED BY <2>1, <2>2
  <1>2. flight' \in Acks \cup {None} /\ paused' \in Nat
    BY SoonerFacts DEF Tick, AcksTypeOK, Sooner
  <1> QED BY <1>1, <1>2 DEF Tick, AcksTypeOK

\* The queue, the post and what is remembered of them are of their types.
THEOREM Types == AcksSpec => []AcksTypeOK
  <1>1. AcksInit => AcksTypeOK
    <2> SUFFICES ASSUME AcksInit PROVE AcksTypeOK
      OBVIOUS
    <2>1. <<>> \in Seq(Acks) /\ <<>> \in Seq(Commands) /\ Len(<<>>) = 0
      BY EmptySeq
    <2>2. told \in [Commands -> 0..3] /\ made \in 0..MaxAcks
      BY Facts DEF AcksInit
    <2>3. /\ queue = <<>> /\ flight = None /\ acknowledged = <<>> /\ paused = 0 /\ flushing = FALSE
          /\ closed = FALSE /\ arrived = {} /\ given = {}
      BY DEF AcksInit
    <2>4. queue \in Seq(Acks) /\ acknowledged \in Seq(Commands) /\ Len(acknowledged) <= Remembered
      BY <2>1, <2>3, Facts
    <2>5. flight \in Acks \cup {None} /\ paused \in Nat /\ flushing \in BOOLEAN /\ closed \in BOOLEAN
      BY <2>3
    <2>6. arrived \subseteq Said /\ given \subseteq Said
      BY <2>3
    <2> QED BY <2>2, <2>4, <2>5, <2>6 DEF AcksTypeOK
  <1>2. AcksTypeOK /\ [AcksNext]_ackVars => AcksTypeOK'
    <2> SUFFICES ASSUME AcksTypeOK, [AcksNext]_ackVars PROVE AcksTypeOK'
      OBVIOUS
    <2>1. CASE Flush \/ Close \/ UNCHANGED ackVars
      BY <2>1 DEF Flush, Close, ackVars, AcksTypeOK
    <2> QED BY <2>1, SubmitTypes, LookTypes, SettleTypes, TickTypes DEF AcksNext
  <1> QED BY <1>1, <1>2, PTL DEF AcksSpec

-----------------------------------------------------------------------------
\* Two acks that must go in the order they were made: of one command, or final ones that are no refusals.
Related(a, b) == a.cmd = b.cmd \/ (a.kind = "final" /\ b.kind = "final")
Ordered(a, b) == Related(a, b) => a.n < b.n

\* In a queue: all was made by now, in order, and what arrived was not made after it.
MadeIn(q) == \A i \in 1..Len(q) : q[i].n <= made
OrderIn(q) == \A i, j \in 1..Len(q) : i < j => Ordered(q[i], q[j])
ArrivedIn(q) == \A a \in arrived : \A i \in 1..Len(q) : Related(a, q[i]) => a.n <= q[i].n
FirstIn(q) == flight # None => \A i \in 1..Len(q) : Ordered(flight, q[i])
\* A final ack that waits for its next try waits no longer than the whole queue.
PauseIn(q) == \A i \in 1..Len(q) : Final(q[i]) => q[i].due <= paused

Numbered == MadeIn(queue) /\ (flight # None => flight.n <= made) /\ \A a \in arrived : a.n <= made
QueueOrder == OrderIn(queue)
FlightFirst == FirstIn(queue)
ArrivedFirst == ArrivedIn(queue) /\ (flight # None => \A a \in arrived : Related(a, flight) => a.n <= flight.n)
\* The flush of a stop waits for nothing.
PausedLong == ~flushing => PauseIn(queue)

\* The inductive invariant.
OrderInv == Numbered /\ QueueOrder /\ FlightFirst /\ ArrivedFirst /\ PausedLong

\* An ack is related to what it was, whatever became of its tries and its time.
LEMMA SameRelated ==
  ASSUME NEW a, NEW b, NEW c, NEW d, SameAck(a, c), SameAck(b, d)
  PROVE  (Related(a, b) <=> Related(c, d)) /\ (Ordered(a, b) <=> Ordered(c, d))
  BY DEF SameAck, Related, Ordered

\* One queue is left of another, in its order: f says from where each of its acks is.
Chosen(p, q, f) ==
  /\ f \in [1..Len(p) -> 1..Len(q)]
  /\ \A k \in 1..Len(p) : p[k] = q[f[k]]
  /\ \A k, l \in 1..Len(p) : k < l => f[k] < f[l]

\* What is left of a queue, in its order, keeps what is true of the queue.
LEMMA LeftOver ==
  ASSUME NEW p, Len(p) \in Nat, NEW q, Len(q) \in Nat, NEW f, Chosen(p, q, f)
  PROVE  /\ MadeIn(q) => MadeIn(p)
         /\ OrderIn(q) => OrderIn(p)
         /\ ArrivedIn(q) => ArrivedIn(p)
         /\ FirstIn(q) => FirstIn(p)
         /\ PauseIn(q) => PauseIn(p)
  <1> USE DEF Chosen
  <1>1. MadeIn(q) => MadeIn(p)
    BY DEF MadeIn
  <1>2. OrderIn(q) => OrderIn(p)
    <2> SUFFICES ASSUME OrderIn(q), NEW i \in 1..Len(p), NEW j \in 1..Len(p), i < j
                 PROVE  Ordered(p[i], p[j])
      BY DEF OrderIn
    <2>1. f[i] \in 1..Len(q) /\ f[j] \in 1..Len(q) /\ f[i] < f[j]
      OBVIOUS
    <2> QED BY <2>1 DEF OrderIn
  <1>3. ArrivedIn(q) => ArrivedIn(p)
    BY DEF ArrivedIn
  <1>4. PauseIn(q) => PauseIn(p)
    BY DEF PauseIn
  <1>5. FirstIn(q) => FirstIn(p)
    BY DEF FirstIn
  <1> QED BY <1>1, <1>2, <1>3, <1>4, <1>5

\* A queue without one of its acks.
LEMMA OneLess ==
  ASSUME NEW q \in Seq(Acks), NEW i \in 1..Len(q)
  PROVE  /\ \E f : Chosen(RemoveAt(q, i), q, f) /\ \A k \in 1..Len(RemoveAt(q, i)) : f[k] # i
         /\ RemoveAt(q, i) \in Seq(Acks) /\ Len(RemoveAt(q, i)) \in Nat /\ Len(q) \in Nat
  <1> DEFINE p == RemoveAt(q, i)
             f == [k \in 1..(Len(q) - 1) |-> IF k < i THEN k ELSE k + 1]
  <1>1. Len(q) \in Nat /\ i \in Nat /\ i >= 1 /\ i <= Len(q)
    BY LenProperties
  <1>2. /\ p \in Seq(Acks) /\ Len(p) = Len(q) - 1
        /\ \A k \in 1..(Len(q) - 1) : p[k] = IF k < i THEN q[k] ELSE q[k + 1]
    BY RemoveAtFacts
  <1> HIDE DEF p
  <1>3. f \in [1..Len(p) -> 1..Len(q)]
    BY <1>1, <1>2
  <1>4. \A k \in 1..Len(p) : f[k] = IF k < i THEN k ELSE k + 1
    BY <1>2
  <1> HIDE DEF f
  <1>5. \A k \in 1..Len(p) : p[k] = q[f[k]] /\ f[k] # i
    BY <1>1, <1>2, <1>4
  <1>6. \A k, l \in 1..Len(p) : k < l => f[k] < f[l]
    BY <1>1, <1>2, <1>4
  <1>7. Chosen(p, q, f) /\ \A k \in 1..Len(p) : f[k] # i
    BY <1>3, <1>5, <1>6 DEF Chosen
  <1>8. Len(p) \in Nat
    BY <1>1, <1>2
  <1> QED BY <1>1, <1>2, <1>7, <1>8 DEF p

-----------------------------------------------------------------------------
\* What is kept of the queue: no intermediate ack before a later one of its command.
LEMMA KeptInv ==
  ASSUME queue \in Seq(Acks), OrderInv
  PROVE  /\ Kept(queue) \in Seq(Acks)
         /\ MadeIn(Kept(queue)) /\ OrderIn(Kept(queue)) /\ ArrivedIn(Kept(queue))
         /\ ~flushing => PauseIn(Kept(queue))
         /\ \A j, k \in 1..Len(Kept(queue)) :
              j < k /\ Kept(queue)[j].cmd = Kept(queue)[k].cmd /\ Kept(queue)[k].kind # "refusal"
                => Final(Kept(queue)[j])
  <1> DEFINE p == Kept(queue)
  <1>1. p \in Seq(Acks) /\ Len(p) \in Nat /\ Len(queue) \in Nat
    BY KeptFacts, LenProperties
  <1>2. PICK f \in [1..Len(p) -> 1..Len(queue)] :
          /\ \A k \in 1..Len(p) : p[k] = queue[f[k]] /\ ~Superseded(queue, f[k])
          /\ \A k, l \in 1..Len(p) : k < l => f[k] < f[l]
    BY KeptFacts
  <1> HIDE DEF p
  <1>9. Chosen(p, queue, f)
    BY <1>2 DEF Chosen
  <1>3. /\ MadeIn(queue) => MadeIn(p)
        /\ OrderIn(queue) => OrderIn(p)
        /\ ArrivedIn(queue) => ArrivedIn(p)
        /\ PauseIn(queue) => PauseIn(p)
    BY <1>1, <1>9, LeftOver
  <1>4. MadeIn(p) /\ OrderIn(p) /\ ArrivedIn(p) /\ (~flushing => PauseIn(p))
    BY <1>3 DEF OrderInv, Numbered, QueueOrder, ArrivedFirst, PausedLong
  <1>5. ASSUME NEW j \in 1..Len(p), NEW k \in 1..Len(p),
               j < k, p[j].cmd = p[k].cmd, p[k].kind # "refusal"
        PROVE  Final(p[j])
    <2>1. /\ f[j] \in 1..Len(queue) /\ f[k] \in 1..Len(queue) /\ f[j] < f[k]
          /\ p[j] = queue[f[j]] /\ p[k] = queue[f[k]] /\ ~Superseded(queue, f[j])
      BY <1>2, <1>5
    <2>2. f[k] \in (f[j] + 1)..Len(queue)
      BY <1>1, <2>1
    <2> QED BY <1>5, <2>1, <2>2 DEF Superseded
  <1> QED BY <1>1, <1>4, <1>5 DEF p

\* The ack that is taken goes before whatever it is related to.
LEMMA TakenFirst ==
  ASSUME AcksTypeOK, OrderInv, NEW i \in DOMAIN Kept(queue), Taken(Kept(queue), i),
         NEW j \in 1..Len(Kept(queue)), j # i
  PROVE  Ordered(Kept(queue)[i], Kept(queue)[j])
  <1> DEFINE p == Kept(queue)
  <1>1. /\ p \in Seq(Acks) /\ OrderIn(p) /\ (~flushing => PauseIn(p))
        /\ \A k, l \in 1..Len(p) : k < l /\ p[k].cmd = p[l].cmd /\ p[l].kind # "refusal" => Final(p[k])
    BY KeptInv DEF AcksTypeOK
  <1>2. Taken(p, i)
    OBVIOUS
  <1> HIDE DEF p
  <1>3. DOMAIN p = 1..Len(p) /\ Len(p) \in Nat /\ i \in 1..Len(p) /\ j \in 1..Len(p)
    BY <1>1 DEF p
  <1>4. \A k \in 1..Len(p) : p[k] \in Acks
    BY <1>1
  <1> SUFFICES Ordered(p[i], p[j])
    BY DEF p
  <1>5. CASE i < j
    <2>1. OrderIn(p)
      BY <1>1
    <2> QED BY <1>3, <1>5, <2>1 DEF OrderIn
  <1>6. CASE j < i
    <2>1. p[j].cmd # p[i].cmd
      BY <1>2, <1>3, <1>6 DEF Taken, Ready
    <2>2. ASSUME p[i].kind = "final", p[j].kind = "final"
          PROVE  FALSE
      <3> DEFINE same == {k \in 1..Len(p) : p[k].cmd = p[j].cmd}
      <3>1. same \subseteq Nat /\ same # {}
        BY <1>3
      <3>2. PICK k \in same : \A l \in same : k <= l
        <4> HIDE DEF same
        <4> QED BY <3>1, Smallest
      <3>3. k \in 1..Len(p) /\ p[k].cmd = p[j].cmd /\ k <= j
        BY <1>3, <3>2
      <3>4. \A l \in 1..(k - 1) : p[l].cmd # p[k].cmd
        BY <1>3, <3>2, <3>3
      <3>5. Final(p[k])
        <4>1. CASE k = j
          BY <2>2, <4>1 DEF Final, Intermediate
        <4>2. CASE k # j
          BY <1>1, <1>3, <2>2, <3>3, <4>2
        <4> QED BY <4>1, <4>2
      <3>6. flushing \/ p[k].due = 0
        <4>1. SUFFICES ASSUME ~flushing
                       PROVE  p[k].due = 0
          BY DEF AcksTypeOK
        <4>2. paused = 0 /\ p[k].due <= paused
          BY <1>1, <1>2, <3>3, <3>5, <4>1 DEF Taken, PauseIn
        <4>3. p[k].due \in Nat
          BY <1>4, <3>3, AckReadings
        <4> QED BY <4>2, <4>3
      <3>7. k \in Ready(p)
        BY <1>3, <3>3, <3>4, <3>6 DEF Ready
      <3> QED BY <1>2, <1>3, <1>6, <3>3, <3>7 DEF Taken
    <2> QED BY <2>1, <2>2 DEF Ordered, Related
  <1> QED BY <1>3, <1>5, <1>6

\* All of it, of a queue.
Fit(q) == /\ q \in Seq(Acks) /\ MadeIn(q) /\ OrderIn(q) /\ ArrivedIn(q) /\ FirstIn(q)
          /\ ~flushing => PauseIn(q)

\* What is left of a queue that fits still fits.
LEMMA FitLeft ==
  ASSUME NEW q, Fit(q), NEW p \in Seq(Acks), NEW f, Chosen(p, q, f)
  PROVE  Fit(p)
  <1>1. Len(p) \in Nat /\ Len(q) \in Nat
    BY LenProperties DEF Fit
  <1>2. /\ MadeIn(q) => MadeIn(p)
        /\ OrderIn(q) => OrderIn(p)
        /\ ArrivedIn(q) => ArrivedIn(p)
        /\ FirstIn(q) => FirstIn(p)
        /\ PauseIn(q) => PauseIn(p)
    BY <1>1, LeftOver
  <1> QED BY <1>2 DEF Fit

\* The invariant says that the queue fits.
LEMMA FitQueue ==
  ASSUME AcksTypeOK, OrderInv
  PROVE  Fit(queue)
  BY DEF AcksTypeOK, OrderInv, Numbered, QueueOrder, ArrivedFirst, FlightFirst, PausedLong, Fit

\* An ack that is made joins the end of what is left of the queue.
LEMMA SubmitOrder ==
  ASSUME AcksTypeOK, OrderInv, NEW cmd \in Commands, NEW kind \in Kinds, Submit(cmd, kind)
  PROVE  OrderInv'
  <1> DEFINE a == Submitted(cmd, kind)
  <1>1. /\ made' = made + 1 /\ made \in Nat
        /\ UNCHANGED <<flight, paused, flushing, closed, arrived>>
    BY SubmitSteps, Facts DEF AcksTypeOK
  <1>2. a \in Acks /\ a.n = made + 1 /\ (Final(a) => a.due = 0)
    BY SubmitSteps, SubmittedFacts DEF AcksTypeOK
  <1>3. (queue' = queue /\ given' = given) \/ Queue(a)
    BY SubmitSteps
  <1> HIDE DEF a
  <1>4. \E p : Fit(p) /\ queue' \in {p, Append(p, a)}
    <2>1. CASE queue' = queue \/ queue' = Append(queue, a)
      BY <2>1, FitQueue
    <2>2. ASSUME NEW out \in 1..Len(queue), queue' = Append(RemoveAt(queue, out), a)
          PROVE  \E p : Fit(p) /\ queue' \in {p, Append(p, a)}
      <3>1. queue \in Seq(Acks)
        BY DEF AcksTypeOK
      <3>2. PICK f : Chosen(RemoveAt(queue, out), queue, f)
        BY <3>1, OneLess
      <3>3. RemoveAt(queue, out) \in Seq(Acks)
        BY <3>1, RemoveAtFacts
      <3>4. Fit(RemoveAt(queue, out))
        BY <3>2, <3>3, FitQueue, FitLeft
      <3> QED BY <2>2, <3>4
    <2>3. CASE Queue(a)
      <3>1. queue \in Seq(Acks) /\ given \subseteq Said
        BY DEF AcksTypeOK
      <3>2. \/ queue' = queue \/ queue' = Append(queue, a)
            \/ \E out \in 1..Len(queue) : queue' = Append(RemoveAt(queue, out), a)
        BY <1>2, <2>3, <3>1, QueueFacts
      <3> QED BY <2>1, <2>2, <3>2
    <2> QED BY <1>3, <2>1, <2>3
  <1>5. PICK p : Fit(p) /\ queue' \in {p, Append(p, a)}
    BY <1>4
  <1>6. p \in Seq(Acks) /\ Len(p) \in Nat /\ \A i \in 1..Len(p) : p[i] \in Acks /\ p[i].n <= made
    BY <1>5, LenProperties DEF Fit, MadeIn
  <1>7. /\ Len(queue') \in {Len(p), Len(p) + 1}
        /\ \A i \in 1..Len(queue') : \/ i \in 1..Len(p) /\ queue'[i] = p[i]
                                     \/ i = Len(p) + 1 /\ queue'[i] = a
    BY <1>2, <1>5, <1>6
  <1>8. \A i \in 1..Len(p) : p[i].n \in Nat /\ p[i].n < a.n
    BY <1>1, <1>2, <1>6, AckReadings, Facts
  <1>9. \A x \in arrived : x.n \in Nat /\ x.n <= made
    BY Facts DEF AcksTypeOK, OrderInv, Numbered, Said
  <1>10. flight # None => flight.n \in Nat /\ flight.n <= made
    BY AckReadings, Facts DEF AcksTypeOK, OrderInv, Numbered
  <1>11. Numbered'
    <2>1. MadeIn(queue)'
      BY <1>1, <1>2, <1>7, <1>8 DEF MadeIn
    <2> QED BY <1>1, <1>9, <1>10, <2>1 DEF Numbered
  <1>12. QueueOrder'
    <2>1. OrderIn(p)
      BY <1>5 DEF Fit
    <2> SUFFICES ASSUME NEW i \in 1..Len(queue'), NEW j \in 1..Len(queue'), i < j
                 PROVE  Ordered(queue'[i], queue'[j])
      BY DEF QueueOrder, OrderIn
    <2>2. i \in 1..Len(p) /\ queue'[i] = p[i]
      BY <1>6, <1>7
    <2>3. CASE j \in 1..Len(p) /\ queue'[j] = p[j]
      BY <2>1, <2>2, <2>3 DEF OrderIn
    <2>4. CASE queue'[j] = a
      BY <1>8, <2>2, <2>4 DEF Ordered
    <2> QED BY <1>7, <2>3, <2>4
  <1>13. FlightFirst'
    <2>1. FirstIn(p)
      BY <1>5 DEF Fit
    <2> SUFFICES ASSUME flight # None, NEW i \in 1..Len(queue')
                 PROVE  Ordered(flight, queue'[i])
      BY <1>1 DEF FlightFirst, FirstIn
    <2>2. CASE i \in 1..Len(p) /\ queue'[i] = p[i]
      BY <2>1, <2>2 DEF FirstIn
    <2>3. CASE queue'[i] = a
      BY <1>1, <1>2, <1>10, <2>3 DEF Ordered
    <2> QED BY <1>7, <2>2, <2>3
  <1>14. ArrivedFirst'
    <2>1. ArrivedIn(p)
      BY <1>5 DEF Fit
    <2>2. ArrivedIn(queue)'
      BY <1>1, <1>2, <1>7, <1>9, <2>1 DEF ArrivedIn
    <2> QED BY <1>1, <2>2 DEF ArrivedFirst, OrderInv
  <1>15. PausedLong'
    <2> SUFFICES ASSUME ~flushing, NEW i \in 1..Len(queue'), Final(queue'[i])
                 PROVE  queue'[i].due <= paused
      BY <1>1 DEF PausedLong, PauseIn
    <2>1. PauseIn(p)
      BY <1>5 DEF Fit
    <2> QED BY <1>2, <1>7, <2>1 DEF PauseIn, AcksTypeOK
  <1> QED BY <1>11, <1>12, <1>13, <1>14, <1>15 DEF OrderInv

\* A look leaves the order of what it keeps, and takes the first of what is related.
LEMMA LookOrder ==
  ASSUME AcksTypeOK, OrderInv, Look
  PROVE  OrderInv'
  <1> DEFINE p == Kept(queue)
  <1>1. UNCHANGED <<acknowledged, paused, flushing, closed, made, told, arrived, given>>
    BY DEF Look
  <1>2. flight = None /\ p \in Seq(Acks) /\ (\A a \in arrived : a.n <= made)
    BY LookSteps, KeptInv DEF AcksTypeOK, OrderInv, Numbered
  <1>3. MadeIn(p) /\ OrderIn(p) /\ ArrivedIn(p) /\ (~flushing => PauseIn(p))
    BY KeptInv DEF AcksTypeOK
  <1>4. Fit(p)
    BY <1>2, <1>3 DEF Fit, FirstIn
  <1>5. CASE queue' = p /\ flight' = flight
    <2> HIDE DEF p
    <2>1. MadeIn(queue)' /\ OrderIn(queue)' /\ ArrivedIn(queue)' /\ (~flushing' => PauseIn(queue)')
      BY <1>1, <1>3, <1>5 DEF MadeIn, OrderIn, ArrivedIn, PauseIn
    <2> QED BY <1>1, <1>2, <1>5, <2>1
            DEF OrderInv, Numbered, QueueOrder, FlightFirst, FirstIn, ArrivedFirst, PausedLong
  <1>6. ASSUME NEW i \in DOMAIN p, Taken(p, i)
        PROVE  OrderInv'
    <2>1. \A j \in 1..Len(p) : j # i => Ordered(p[i], p[j])
      BY <1>6, TakenFirst
    <2> HIDE DEF p
    <2>2. i \in 1..Len(p) /\ flight' = p[i] /\ queue' = RemoveAt(p, i)
      BY <1>2, <1>6 DEF Taken
    <2>3. PICK f : Chosen(queue', p, f) /\ \A k \in 1..Len(queue') : f[k] # i
      BY <1>2, <2>2, OneLess
    <2>4. queue' \in Seq(Acks)
      BY <1>2, <2>2, RemoveAtFacts
    <2>5. Fit(queue')
      BY <1>4, <2>3, <2>4, FitLeft
    <2>6. MadeIn(queue)' /\ OrderIn(queue)' /\ ArrivedIn(queue)' /\ (~flushing' => PauseIn(queue)')
      BY <1>1, <2>5 DEF Fit, MadeIn, OrderIn, ArrivedIn, PauseIn
    <2>7. flight'.n <= made /\ \A a \in arrived : Related(a, flight') => a.n <= flight'.n
      BY <1>3, <2>2 DEF MadeIn, ArrivedIn
    <2>8. ASSUME NEW k \in 1..Len(queue')
          PROVE  Ordered(flight', queue'[k])
      <3>1. f[k] \in 1..Len(p) /\ f[k] # i /\ queue'[k] = p[f[k]]
        BY <2>3 DEF Chosen
      <3> QED BY <2>1, <2>2, <3>1
    <2> QED BY <1>1, <1>2, <2>6, <2>7, <2>8
            DEF OrderInv, Numbered, QueueOrder, FlightFirst, FirstIn, ArrivedFirst, PausedLong
  <1> HIDE DEF p
  <1>7. (queue' = p /\ flight' = flight) \/ \E i \in DOMAIN p : Taken(p, i)
    BY LookSteps DEF AcksTypeOK, p
  <1> QED BY <1>5, <1>6, <1>7

\* An answer that failed puts the ack back before all that waits; one that did not may have brought it.
LEMMA SettleOrder ==
  ASSUME AcksTypeOK, OrderInv, NEW answer \in Answers, Settle(answer)
  PROVE  OrderInv'
  <1>1. flight \in Acks
    BY DEF AcksTypeOK, Settle
  <1>2. /\ flight # None /\ flight' = None
        /\ arrived' \in {arrived, arrived \cup {What(flight)}}
        /\ UNCHANGED <<acknowledged, flushing, closed, made, told>>
    BY <1>1, SettleSteps
  <1>3. /\ What(flight).n = flight.n /\ What(flight).cmd = flight.cmd /\ What(flight).kind = flight.kind
        /\ flight.n \in Nat /\ flight.n <= made
    BY <1>1, <1>2, AckReadings, Facts DEF OrderInv, Numbered
  <1>4. /\ queue \in Seq(Acks) /\ Len(queue) \in Nat /\ \A i \in 1..Len(queue) : queue[i] \in Acks
        /\ paused \in Nat /\ made \in Nat
    BY LenProperties DEF AcksTypeOK
  <1>5. \A x \in arrived' : x.n <= made
    BY <1>2, <1>3 DEF OrderInv, Numbered
  <1>6. \A x \in arrived' : \A i \in 1..Len(queue) : Related(x, queue[i]) => x.n <= queue[i].n
    <2>1. ASSUME NEW i \in 1..Len(queue), Related(What(flight), queue[i])
          PROVE  What(flight).n <= queue[i].n
      <3>1. Related(flight, queue[i])
        BY <1>3, <2>1 DEF Related
      <3>2. flight.n < queue[i].n
        BY <1>2, <3>1 DEF OrderInv, FlightFirst, FirstIn, Ordered
      <3>3. queue[i].n \in Nat
        BY <1>4, AckReadings, Facts
      <3> QED BY <1>3, <3>2, <3>3
    <2> QED BY <1>2, <2>1 DEF OrderInv, ArrivedFirst, ArrivedIn
  <1>7. CASE UNCHANGED <<queue, paused>>
    <2>1. MadeIn(queue)' /\ OrderIn(queue)' /\ ArrivedIn(queue)' /\ (~flushing' => PauseIn(queue)')
      BY <1>2, <1>6, <1>7
         DEF OrderInv, Numbered, QueueOrder, PausedLong, MadeIn, OrderIn, ArrivedIn, PauseIn
    <2> QED BY <1>2, <1>5, <2>1
            DEF OrderInv, Numbered, QueueOrder, FlightFirst, FirstIn, ArrivedFirst, PausedLong
  <1>8. CASE TryAgain(Posted, answer)
    <2>1. PICK a \in Acks :
            /\ SameAck(a, flight) /\ queue' = <<a>> \o queue
            /\ paused' \in Nat /\ paused <= paused' /\ (Final(a) => a.due <= paused')
      BY <1>1, <1>4, <1>8, TryAgainFacts
    <2>2. /\ Len(queue') = Len(queue) + 1
          /\ \A i \in 1..Len(queue') : \/ i = 1 /\ queue'[i] = a
                                       \/ i > 1 /\ i - 1 \in 1..Len(queue) /\ queue'[i] = queue[i - 1]
      BY <1>4, <2>1
    <2>3. a.n = flight.n /\ a.cmd = flight.cmd /\ a.kind = flight.kind
      BY <2>1 DEF SameAck
    <2>4. MadeIn(queue)'
      BY <1>2, <1>3, <2>2, <2>3 DEF MadeIn, OrderInv, Numbered
    <2>5. OrderIn(queue)'
      <3> SUFFICES ASSUME NEW i \in 1..Len(queue'), NEW j \in 1..Len(queue'), i < j
                   PROVE  Ordered(queue'[i], queue'[j])
        BY DEF OrderIn
      <3>1. j > 1 /\ j - 1 \in 1..Len(queue) /\ queue'[j] = queue[j - 1]
        BY <1>4, <2>2
      <3>2. CASE i = 1 /\ queue'[i] = a
        <4>1. Ordered(flight, queue[j - 1])
          BY <1>2, <3>1 DEF OrderInv, FlightFirst, FirstIn
        <4> QED BY <2>3, <3>1, <3>2, <4>1 DEF Ordered, Related
      <3>3. CASE i > 1 /\ i - 1 \in 1..Len(queue) /\ queue'[i] = queue[i - 1]
        <4>1. i - 1 < j - 1
          BY <1>4, <2>2
        <4>2. Ordered(queue[i - 1], queue[j - 1])
          BY <3>1, <3>3, <4>1 DEF OrderInv, QueueOrder, OrderIn
        <4> QED BY <3>1, <3>3, <4>2
      <3> QED BY <2>2, <3>2, <3>3
    <2>6. ArrivedIn(queue)'
      <3> SUFFICES ASSUME NEW x \in arrived', NEW i \in 1..Len(queue'), Related(x, queue'[i])
                   PROVE  x.n <= queue'[i].n
        BY DEF ArrivedIn
      <3>1. CASE i = 1 /\ queue'[i] = a
        <4>1. CASE x \in arrived
          BY <1>2, <2>3, <3>1, <4>1 DEF OrderInv, ArrivedFirst, Related
        <4>2. CASE x = What(flight)
          BY <1>3, <2>3, <3>1, <4>2
        <4> QED BY <1>2, <4>1, <4>2
      <3>2. CASE i > 1 /\ i - 1 \in 1..Len(queue) /\ queue'[i] = queue[i - 1]
        BY <1>6, <3>2
      <3> QED BY <2>2, <3>1, <3>2
    <2>7. ~flushing' => PauseIn(queue)'
      <3> SUFFICES ASSUME ~flushing, NEW i \in 1..Len(queue'), Final(queue'[i])
                   PROVE  queue'[i].due <= paused'
        BY <1>2 DEF PauseIn
      <3>1. CASE i = 1 /\ queue'[i] = a
        BY <2>1, <3>1
      <3>2. CASE i > 1 /\ i - 1 \in 1..Len(queue) /\ queue'[i] = queue[i - 1]
        <4>1. queue[i - 1].due <= paused /\ queue[i - 1].due \in Nat
          BY <1>4, <3>2, AckReadings DEF OrderInv, PausedLong, PauseIn
        <4> QED BY <1>4, <2>1, <3>2, <4>1
      <3> QED BY <2>2, <3>1, <3>2
    <2> QED BY <1>2, <1>5, <2>4, <2>5, <2>6, <2>7
            DEF OrderInv, Numbered, QueueOrder, FlightFirst, FirstIn, ArrivedFirst, PausedLong
  <1> QED BY <1>1, <1>7, <1>8, SettleSteps

\* Time that goes by changes no order, and brings every end closer by as much.
LEMMA TickOrder ==
  ASSUME AcksTypeOK, OrderInv, Tick
  PROVE  OrderInv'
  <1>1. /\ UNCHANGED <<acknowledged, flushing, closed, made, told, arrived, given>>
        /\ queue' = [i \in 1..Len(queue) |-> SoonerAck(queue[i])]
        /\ flight' = (IF flight = None THEN None ELSE SoonerAck(flight)) /\ paused' = Sooner(paused)
    BY DEF Tick, AcksTypeOK
  <1>2. /\ Len(queue) \in Nat /\ \A i \in 1..Len(queue) : queue[i] \in Acks
        /\ paused \in Nat
    BY LenProperties DEF AcksTypeOK
  <1>3. Len(queue') = Len(queue) /\ \A i \in 1..Len(queue) : queue'[i] = SoonerAck(queue[i])
    BY <1>1, <1>2
  <1>4. \A i \in 1..Len(queue) : /\ SameAck(queue'[i], queue[i])
                                 /\ queue[i].due \in Nat /\ queue'[i].due = Sooner(queue[i].due)
    BY <1>2, <1>3, SoonerFacts, AckReadings
  <1>5. flight' # None => flight # None /\ SameAck(flight', flight)
    BY <1>1, SoonerFacts DEF AcksTypeOK
  <1>6. MadeIn(queue)'
    BY <1>1, <1>3, <1>4 DEF MadeIn, SameAck, OrderInv, Numbered
  <1>7. OrderIn(queue)'
    BY <1>3, <1>4, SameRelated DEF OrderIn, OrderInv, QueueOrder
  <1>8. FirstIn(queue)'
    BY <1>3, <1>4, <1>5, SameRelated DEF FirstIn, OrderInv, FlightFirst
  <1>9. ArrivedIn(queue)'
    BY <1>1, <1>3, <1>4 DEF ArrivedIn, OrderInv, ArrivedFirst, SameAck, Related
  <1>10. ~flushing' => PauseIn(queue)'
    <2> SUFFICES ASSUME ~flushing, NEW i \in 1..Len(queue), Final(queue'[i])
                 PROVE  queue'[i].due <= paused'
      BY <1>1, <1>3 DEF PauseIn
    <2>1. Final(queue[i])
      BY <1>4 DEF SameAck, Final
    <2>2. queue[i].due <= paused
      BY <2>1 DEF OrderInv, PausedLong, PauseIn
    <2> QED BY <1>1, <1>2, <1>4, <2>2 DEF Sooner
  <1>11. flight' # None => flight'.n <= made /\ \A x \in arrived : Related(x, flight') => x.n <= flight'.n
    BY <1>5 DEF SameAck, Related, OrderInv, Numbered, ArrivedFirst
  <1> QED BY <1>1, <1>6, <1>7, <1>8, <1>9, <1>10, <1>11
          DEF OrderInv, Numbered, QueueOrder, FlightFirst, ArrivedFirst, PausedLong

\* A flush, a close and a stutter keep the order.
LEMMA StopOrder ==
  ASSUME OrderInv, Flush \/ Close \/ UNCHANGED ackVars
  PROVE  OrderInv'
  BY DEF Flush, Close, ackVars, OrderInv, Numbered, QueueOrder, FlightFirst, ArrivedFirst, PausedLong,
         MadeIn, OrderIn, ArrivedIn, FirstIn, PauseIn

\* The queue, the ack in hand and those that arrived are in order for ever.
LEMMA AlwaysOrdered == AcksSpec => []OrderInv
  <1>1. AcksInit => OrderInv
    <2> SUFFICES ASSUME AcksInit PROVE OrderInv
      OBVIOUS
    <2>1. queue = <<>> /\ Len(queue) = 0 /\ flight = None /\ arrived = {}
      BY EmptySeq DEF AcksInit
    <2> QED BY <2>1
            DEF OrderInv, Numbered, QueueOrder, FlightFirst, ArrivedFirst, PausedLong,
                MadeIn, OrderIn, ArrivedIn, FirstIn, PauseIn
  <1>2. AcksTypeOK /\ OrderInv /\ [AcksNext]_ackVars => OrderInv'
    BY SubmitOrder, LookOrder, SettleOrder, TickOrder, StopOrder DEF AcksNext
  <1> QED BY <1>1, <1>2, Types, PTL DEF AcksSpec

\* Acks of one command, and final acks of all commands but refusals, go out in the order they were made,
\* whatever is held back, lost, answered late or tried again: a final ack that waits for its next try holds
\* all of them.
THEOREM InOrder == AcksSpec => []NeverOvertaken
  <1>1. AcksTypeOK /\ OrderInv => NeverOvertaken
    <2> SUFFICES ASSUME AcksTypeOK, OrderInv, flight # None, NEW x \in arrived, x.n > flight.n
                 PROVE  x.cmd # flight.cmd /\ ~(x.kind = "final" /\ flight.kind = "final")
      BY DEF NeverOvertaken
    <2>1. flight.n \in Nat /\ x.n \in Nat
      BY AckReadings, Facts DEF AcksTypeOK, Said
    <2>2. ~Related(x, flight)
      BY <2>1 DEF OrderInv, ArrivedFirst
    <2> QED BY <2>2 DEF Related
  <1> QED BY <1>1, Types, AlwaysOrdered, PTL

-----------------------------------------------------------------------------
\* Why a final ack may be given up.
GivenUpFor(a) ==
  \/ flushing \/ Settle("refused")
  \/ flight # None /\ What(flight) = a /\ flight.left = 0
  \/ Len(queue) >= HardCap /\ \A b \in Range(queue) : Final(b) /\ a.n <= b.n

\* What a submit gives up it gives up for room.
LEMMA SubmitGives ==
  ASSUME AcksTypeOK, NEW cmd \in Commands, NEW kind \in Kinds, Submit(cmd, kind), NEW x \in given' \ given
  PROVE  GivenUpFor(x)
  <1> DEFINE a == Submitted(cmd, kind)
  <1>1. a \in Acks /\ queue \in Seq(Acks) /\ given \subseteq Said
    BY SubmitSteps, SubmittedFacts DEF AcksTypeOK
  <1>2. Queue(a)
    BY SubmitSteps
  <1> HIDE DEF a
  <1>3. PICK out \in 1..Len(queue) : RoomMade(out) /\ given' = given \cup MakeRoom.gone /\ Len(queue) >= HardCap
    <2>1. \/ given' = given
          \/ \E out \in 1..Len(queue) : /\ RoomMade(out) /\ given' = given \cup MakeRoom.gone
                                        /\ Len(queue) >= HardCap
      BY <1>1, <1>2, QueueFacts
    <2> QED BY <2>1
  <1>4. x = What(queue[out]) /\ \A j \in 1..Len(queue) : Final(queue[j]) /\ queue[out].n <= queue[j].n
    BY <1>3 DEF RoomMade
  <1>5. x.n = queue[out].n
    BY <1>1, <1>4, AckReadings
  <1>6. \A b \in Range(queue) : \E j \in 1..Len(queue) : b = queue[j]
    BY <1>1 DEF Range
  <1> QED BY <1>3, <1>4, <1>5, <1>6 DEF GivenUpFor

\* What an answer gives up it gives up for its reason.
LEMMA SettleGives ==
  ASSUME AcksTypeOK, NEW answer \in Answers, Settle(answer), NEW x \in given' \ given
  PROVE  GivenUpFor(x)
  <1>1. flight \in Acks
    BY DEF AcksTypeOK, Settle
  <1>2. flight # None /\ Hopeless(Posted, answer) /\ Final(Posted) /\ x = What(flight)
    <2>1. /\ flight # None
          /\ \/ given' = given
             \/ Hopeless(Posted, answer) /\ Final(Posted) /\ given' = given \cup {What(flight)}
             \/ TryAgain(Posted, answer)
      BY <1>1, SettleSteps
    <2>2. TryAgain(Posted, answer) => given' = given
      BY DEF TryAgain
    <2> QED BY <2>1, <2>2
  <1>3. answer = "refused" \/ flushing \/ Posted.left = 0
    BY <1>2 DEF Hopeless
  <1>4. Posted.left = flight.left
    BY <1>1, PostedFacts
  <1> QED BY <1>2, <1>3, <1>4 DEF GivenUpFor

\* A final ack is given up before its deadline only when the ingress refused it, on a stop, or for want of
\* room among final acks only.
THEOREM LateOnly == AcksSpec => GivenUpLate
  <1>1. AcksTypeOK /\ [AcksNext]_ackVars =>
          [\A a \in given' \ given :
             \/ flushing \/ Settle("refused")
             \/ flight # None /\ What(flight) = a /\ flight.left = 0
             \/ Len(queue) >= HardCap /\ \A b \in Range(queue) : Final(b) /\ a.n <= b.n]_ackVars
    <2> SUFFICES ASSUME AcksTypeOK, AcksNext, NEW x \in given' \ given
                 PROVE  GivenUpFor(x)
      BY DEF GivenUpFor
    <2>1. CASE Look \/ Flush \/ Close \/ Tick
      BY <2>1 DEF Look, Flush, Close, Tick
    <2> QED BY <2>1, SubmitGives, SettleGives DEF AcksNext
  <1> QED BY <1>1, Types, PTL DEF AcksSpec, GivenUpLate
=============================================================================
