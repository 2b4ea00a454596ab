------------------------------ MODULE ServerClock ------------------------------
(***************************************************************************)
(* The backend's time, from the Date of its HTTPS answers (server_time.py),*)
(* what is trusted as now, and the clock block of the heartbeat            *)
(* (clock_care.py): how far the node's wall clock is from the backend's    *)
(* time and what keeps it.                                                 *)
(*                                                                         *)
(* Time is counted in half seconds.  The monotonic clock and the backend's *)
(* run alike; the wall clock is skew ahead of them, and is slewed by one   *)
(* unit or stepped by more than STEP_MS (2 units).  An answer is read up   *)
(* to MaxDelay after its Date was written, and answers are read by several *)
(* threads, so that one may overtake another.                              *)
(***************************************************************************)
EXTENDS Integers, Sequences, FiniteSets, SequencesExt

CONSTANTS
  MaxSamples,  \* MAX_SAMPLES
  MaxDelay,    \* bound: how old an answer is when it is read
  Skews,       \* bound: the wall clock's errors
  ClockTime,   \* bound: the last tick
  MaxSlews     \* bound: slews

StepSize == 2  \* STEP_MS

ASSUME ServerClockAssumption ==
  /\ MaxSamples \in Nat \ {0} /\ {MaxDelay, ClockTime, MaxSlews} \subseteq Nat /\ Skews \subseteq Int /\ 0 \in Skews

VARIABLES
  tick,        \* the backend's time, and the monotonic clock
  skew,        \* the wall clock is this much ahead
  anchor,      \* _anchor
  samples,     \* _samples, the newest last
  inStep,      \* what timedatectl would say: the clock is synchronised
  reading,     \* ClockCare._reading
  toolHung,    \* _hung lives
  slews,       \* slews so far
  answered     \* history: an answer was read since the clock was last stepped

clockVars == <<tick, skew, anchor, samples, inStep, reading, toolHung, slews, answered>>

NoAnchor == [server |-> -1, mono |-> -1]
Sources == {"ntp", "rtc", "none", "unknown"}
NotRead == [source |-> "unknown", service |-> "unknown"]
OffsetSample == [offset : Int, drift : Int]

ClockTypeOK ==
  /\ tick \in 0..ClockTime /\ skew \in Skews
  /\ anchor = NoAnchor \/ (anchor.mono \in 0..tick /\ anchor.server \in -MaxDelay..tick)
  /\ samples \in Seq(OffsetSample) /\ Len(samples) <= MaxSamples
  /\ (samples = <<>>) = (anchor = NoAnchor)
  /\ {inStep, toolHung} \subseteq BOOLEAN
  /\ reading.source \in Sources /\ reading.service \in {"timesyncd", "none", "unknown"}
  /\ slews \in 0..MaxSlews /\ answered \in BOOLEAN

ClockInit ==
  /\ tick = 0 /\ skew \in Skews /\ anchor = NoAnchor /\ samples = <<>>
  /\ inStep = FALSE /\ reading = NotRead /\ toolHung = FALSE /\ slews = 0 /\ answered = FALSE
-----------------------------------------------------------------------------
Gap(a, b) == IF a > b THEN a - b ELSE b - a

\* One more sample; a step of the wall clock against the monotonic clock forgets those before it.
AddSample(history, offset, drift) ==
  LET stepped == history # <<>> /\ Gap(drift, Last(history).drift) > StepSize
      all == Append(IF stepped THEN <<>> ELSE history, [offset |-> offset, drift |-> drift])
  IN  IF Len(all) > MaxSamples THEN Tail(all) ELSE all

\* The k-th of the offsets, the smallest first.
Kth(history, k) ==
  CHOOSE v \in {history[i].offset : i \in DOMAIN history} :
    /\ Cardinality({i \in DOMAIN history : history[i].offset < v}) < k
    /\ Cardinality({i \in DOMAIN history : history[i].offset <= v}) >= k

\* The median, or the floor of the mean of the two in the middle.
Offset(history) ==
  LET n == Len(history)
  IN  IF n % 2 = 1 THEN Kth(history, (n + 1) \div 2)
      ELSE (Kth(history, n \div 2) + Kth(history, n \div 2 + 1)) \div 2

\* An answer whose Date was written a while ago is read.  http:// answers, and those without a Date that
\* can be read, are not taken.
Observe(delay) ==
  /\ delay <= MaxDelay
  /\ anchor' = [server |-> tick - delay, mono |-> tick]
  /\ samples' = AddSample(samples, (tick + skew) - (tick - delay), skew)
  /\ answered' = TRUE
  /\ UNCHANGED <<tick, skew, inStep, reading, toolHung, slews>>

\* now_ms: None (here NoTime) until an answer has been read.
NoNow == -1000

BackendNow == IF anchor = NoAnchor THEN NoNow ELSE anchor.server + (tick - anchor.mono)

\* trusted_now: the backend's time; else the wall clock when the node's clock is good; else none.
TrustedNow(clockOk) ==
  IF BackendNow # NoNow THEN BackendNow ELSE IF clockOk THEN tick + skew ELSE NoNow
-----------------------------------------------------------------------------
(* The clock-care thread. *)

SourceOf(sync, rtc) ==
  CASE sync = "yes" -> "ntp" [] sync = "no" -> (IF rtc THEN "rtc" ELSE "none") [] OTHER -> "unknown"

\* What a tool gives: one of its answers, nothing (missing, refused, out of time), or it hangs and lives on.
\* While one lives none is started.
ToolEnds(answers) == IF toolHung THEN {"fails"} ELSE answers \cup {"fails", "hangs"}

ReadClock(timedatectl, systemctl, rtc) ==
  LET second == IF timedatectl = "hangs" THEN "fails" ELSE systemctl
  IN  /\ reading' = [source  |-> SourceOf(IF timedatectl # "answers" THEN "?" ELSE IF inStep THEN "yes" ELSE "no", rtc),
                     service |-> IF second \in {"fails", "hangs"} THEN "unknown" ELSE second]
      /\ toolHung' = (toolHung \/ "hangs" \in {timedatectl, second})
      /\ UNCHANGED <<tick, skew, anchor, samples, inStep, slews, answered>>

HungToolEnds ==
  /\ toolHung
  /\ toolHung' = FALSE
  /\ UNCHANGED <<tick, skew, anchor, samples, inStep, reading, slews, answered>>
-----------------------------------------------------------------------------
(* Time. *)

ClockTick ==
  /\ tick < ClockTime
  /\ tick' = tick + 1
  /\ UNCHANGED <<skew, anchor, samples, inStep, reading, toolHung, slews, answered>>

Slew ==
  /\ slews < MaxSlews
  /\ skew' \in {skew - 1, skew + 1} \cap Skews
  /\ slews' = slews + 1
  /\ UNCHANGED <<tick, anchor, samples, inStep, reading, toolHung, answered>>

\* The clock is set: by its service, which it then is in step with, or by hand.  Not twice between two
\* answers: a step and one back leave the samples, which are right then, and a small rest may add up.
StepClock ==
  /\ answered \/ anchor = NoAnchor
  /\ skew' \in {s \in Skews : Gap(s, skew) > StepSize + MaxSlews}
  /\ inStep' \in {FALSE, skew' = 0}
  /\ answered' = FALSE
  /\ UNCHANGED <<tick, anchor, samples, reading, toolHung, slews>>

ClockNext ==
  \/ \E delay \in 0..MaxDelay : Observe(delay)
  \/ \E timedatectl \in ToolEnds({"answers"}), systemctl \in ToolEnds({"timesyncd", "none"}), rtc \in BOOLEAN :
       ReadClock(timedatectl, systemctl, rtc)
  \/ HungToolEnds \/ ClockTick \/ Slew \/ StepClock
-----------------------------------------------------------------------------
\* What commands and events are timed by is the backend's time, late by an answer's delay at most, whatever
\* the wall clock does and in whatever order answers are read.
BackendTimeHolds == BackendNow # NoNow => BackendNow \in (tick - MaxDelay)..tick

\* The offset in the heartbeat is the wall clock's as it is: after one answer that follows a step nothing
\* from before the step counts (add_sample, the median of offset_of).
OffsetIsTheClocks ==
  answered => Offset(samples) \in (skew - MaxSlews)..(skew + MaxSlews + MaxDelay)
=============================================================================
