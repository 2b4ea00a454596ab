------------------------------ MODULE CardValues ------------------------------
(***************************************************************************)
(* The uploader of card values (blocks/cloud.py, _VariableUploader): the   *)
(* pass merges what changed into one snapshot per asset, and one thread    *)
(* posts the snapshots; a post that failed, or that the budget does not    *)
(* allow yet, is merged back under what is newer.                          *)
(*                                                                         *)
(* A value is the number of the change that made it, 0 when it is not in a *)
(* snapshot.  The levels of an asset's outputs are one such value, kept    *)
(* apart from the others as in the code.                                   *)
(***************************************************************************)
EXTENDS Integers, Sequences, FiniteSets, SequencesExt

CONSTANTS
  CardAssets, CardKeys,  \* assets with a card, and their variables
  MaxChanges,            \* bound: changes
  CardBurst              \* BURST

ASSUME CardValuesAssumption == {MaxChanges, CardBurst} \subseteq Nat \ {0}

VARIABLES
  pending,      \* _pending: snapshots, the next first
  pendingOuts,  \* _pending_outputs
  inHand,       \* the snapshot the thread has taken, or NoSnapshot
  cardLoop,     \* where _loop is: "asleep", "next", "taken" or "posting"
  recent,       \* assets posted less than min_interval ago
  cardTokens,   \* _tokens
  idle,         \* _idle
  uploaderStopped,
  changes,      \* changes so far
  latest,       \* of each value, the last change
  backend       \* what the backend has of each value

cardVars == <<pending, pendingOuts, inHand, cardLoop, recent, cardTokens, idle, uploaderStopped, changes,
              latest, backend>>

Changes == 0..MaxChanges
Values == [CardKeys -> Changes]
Snapshot == [asset : CardAssets, values : Values, outs : Changes]
NoValues == [k \in CardKeys |-> 0]
NoSnapshot == [asset |-> "none", values |-> NoValues, outs |-> 0]

CardsTypeOK ==
  /\ pending \in Seq(Snapshot) /\ pendingOuts \in [CardAssets -> Changes]
  /\ inHand \in Snapshot \cup {NoSnapshot}
  /\ cardLoop \in {"asleep", "next", "taken", "posting"}
  /\ recent \subseteq CardAssets /\ cardTokens \in 0..CardBurst
  /\ {idle, uploaderStopped} \subseteq BOOLEAN /\ changes \in Changes
  /\ {latest, backend} \subseteq [CardAssets -> [values : Values, outs : Changes]]
  /\ \A i, j \in DOMAIN pending : pending[i].asset = pending[j].asset => i = j

NothingYet == [a \in CardAssets |-> [values |-> NoValues, outs |-> 0]]

CardsInit ==
  /\ pending = <<>> /\ pendingOuts = [a \in CardAssets |-> 0] /\ inHand = NoSnapshot
  /\ cardLoop = "asleep" /\ recent = {} /\ cardTokens = CardBurst /\ idle = TRUE
  /\ uploaderStopped = FALSE /\ changes = 0 /\ latest = NothingYet /\ backend = NothingYet
-----------------------------------------------------------------------------
\* dict.update: what is in the newer snapshot wins.
Over(newer, older) == [k \in CardKeys |-> IF newer[k] # 0 THEN newer[k] ELSE older[k]]
OverOuts(newer, older) == IF newer # 0 THEN newer ELSE older

PendingOf(a) ==
  IF \E i \in DOMAIN pending : pending[i].asset = a
    THEN (CHOOSE s \in Range(pending) : s.asset = a).values ELSE NoValues

\* A snapshot is known by its asset.
Others(a) ==
  LET places == {i \in DOMAIN pending : pending[i].asset = a}
  IN  IF places = {} THEN pending ELSE RemoveAt(pending, CHOOSE i \in places : TRUE)

Taken(a, values) == [asset |-> a, values |-> values, outs |-> 0]

\* A pass changed a value, or the levels of the outputs.
ChangeValue(a, k) ==
  /\ changes < MaxChanges
  /\ changes' = changes + 1
  /\ pending' = Append(Others(a), Taken(a, Over([NoValues EXCEPT ![k] = changes + 1], PendingOf(a))))
  /\ latest' = [latest EXCEPT ![a].values[k] = changes + 1]
  /\ idle' = FALSE
  /\ UNCHANGED <<pendingOuts, inHand, cardLoop, recent, cardTokens, uploaderStopped, backend>>

ChangeOutputs(a) ==
  /\ changes < MaxChanges
  /\ changes' = changes + 1
  /\ pending' = Append(Others(a), Taken(a, PendingOf(a)))
  /\ pendingOuts' = [pendingOuts EXCEPT ![a] = changes + 1]
  /\ latest' = [latest EXCEPT ![a].outs = changes + 1]
  /\ idle' = FALSE
  /\ UNCHANGED <<inHand, cardLoop, recent, cardTokens, uploaderStopped, backend>>

\* The thread polls; a change also wakes it.
WakeCards ==
  /\ cardLoop = "asleep" /\ ~uploaderStopped
  /\ cardLoop' = "next"
  /\ UNCHANGED <<pending, pendingOuts, inHand, recent, cardTokens, idle, uploaderStopped, changes, latest, backend>>

\* The first snapshot of an asset that may be posted again; with none, it waits, or sleeps when all is done.
NextSnapshot ==
  LET due == {i \in DOMAIN pending : pending[i].asset \notin recent} IN
  /\ cardLoop = "next"
  /\ IF uploaderStopped \/ pending = <<>>
       THEN /\ cardLoop' = "asleep" /\ idle' = (idle \/ ~uploaderStopped)
            /\ UNCHANGED <<pending, inHand>>
       ELSE /\ due # {}
            /\ LET i == CHOOSE i \in due : \A j \in due : i <= j IN
               inHand' = pending[i] /\ pending' = RemoveAt(pending, i)
            /\ cardLoop' = "taken"
            /\ UNCHANGED idle
  /\ UNCHANGED <<pendingOuts, recent, cardTokens, uploaderStopped, changes, latest, backend>>

\* _requeue: back to the front, under what came meanwhile.
PutBack(s) ==
  /\ pending' = <<Taken(s.asset, Over(PendingOf(s.asset), s.values))>> \o Others(s.asset)
  /\ pendingOuts' = [pendingOuts EXCEPT ![s.asset] = OverOuts(@, s.outs)]

\* The outputs go with the snapshot, and the budget says whether it goes now.
Claim ==
  LET s == [inHand EXCEPT !.outs = pendingOuts[inHand.asset]] IN
  /\ cardLoop = "taken"
  /\ IF cardTokens > 0
       THEN /\ cardTokens' = cardTokens - 1 /\ cardLoop' = "posting" /\ inHand' = s
            /\ pendingOuts' = [pendingOuts EXCEPT ![s.asset] = 0]
            /\ UNCHANGED pending
       ELSE PutBack(s) /\ cardLoop' = "next" /\ inHand' = NoSnapshot /\ UNCHANGED cardTokens
  /\ UNCHANGED <<recent, idle, uploaderStopped, changes, latest, backend>>

\* The post lands or not, and its answer is 2xx or not; after one that failed (429 too) the thread pauses.
PostSnapshot(lands, ok) ==
  /\ cardLoop = "posting"
  /\ ok => lands
  /\ backend' = IF lands
                  THEN [backend EXCEPT ![inHand.asset] = [values |-> Over(inHand.values, @.values),
                                                          outs |-> OverOuts(inHand.outs, @.outs)]]
                  ELSE backend
  /\ recent' = recent \cup {inHand.asset}
  /\ IF ok THEN UNCHANGED <<pending, pendingOuts, idle>> ELSE PutBack(inHand) /\ idle' = FALSE
  /\ inHand' = NoSnapshot /\ cardLoop' = "next"
  /\ UNCHANGED <<cardTokens, uploaderStopped, changes, latest>>

IntervalOver(a) ==
  /\ a \in recent
  /\ recent' = recent \ {a}
  /\ UNCHANGED <<pending, pendingOuts, inHand, cardLoop, cardTokens, idle, uploaderStopped, changes, latest, backend>>

CardTokenBack ==
  /\ cardTokens < CardBurst
  /\ cardTokens' = cardTokens + 1
  /\ UNCHANGED <<pending, pendingOuts, inHand, cardLoop, recent, idle, uploaderStopped, changes, latest, backend>>

StopCards ==
  /\ ~uploaderStopped
  /\ uploaderStopped' = TRUE
  /\ UNCHANGED <<pending, pendingOuts, inHand, cardLoop, recent, cardTokens, idle, changes, latest, backend>>

CardsNext ==
  \/ \E a \in CardAssets : \E k \in CardKeys : ChangeValue(a, k)
  \/ \E a \in CardAssets : ChangeOutputs(a)
  \/ WakeCards \/ NextSnapshot \/ Claim
  \/ \E lands, ok \in BOOLEAN : PostSnapshot(lands, ok)
  \/ \E a \in CardAssets : IntervalOver(a)
  \/ CardTokenBack \/ StopCards

\* The thread's own steps, and the time that passes for it.
CardsProgress ==
  \/ WakeCards \/ NextSnapshot \/ Claim
  \/ \E lands, ok \in BOOLEAN : PostSnapshot(lands, ok)
-----------------------------------------------------------------------------
\* A flush that says everything is sent is right: while _idle is set the backend has every value as it is
\* (CloudSink.flush before a stop; the flag is cleared and set under the lock).
IdleIsSent == idle => backend = latest

\* No value waits: the last value of each variable and the last levels of each asset's outputs are with the
\* backend, unless the uploader is stopped.
NoValueWaits == backend = latest \/ uploaderStopped
=============================================================================
