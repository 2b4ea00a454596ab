------------------------------- MODULE LinkGaps -------------------------------
(***************************************************************************)
(* The gaps between the cloud's answers and why they were (net_care.py,    *)
(* LinkWatch and NetworkProbe).  Requests are made by several threads and  *)
(* each says whether it was answered; the care thread reads the link and   *)
(* hands its sample over later; while a silence lasts after an answer the  *)
(* probe thread makes rounds of probes and hands each finding over when it *)
(* has it.  A gap is raised at the answer that ends a long silence.        *)
(***************************************************************************)
EXTENDS Integers, Sequences, FiniteSets

CONSTANTS
  MaxRounds,    \* PROBE_ROUNDS
  MaxSilences,  \* bound: silences
  MaxDrops,     \* bound: times that the Wi-Fi goes down
  CountRead,    \* bound: whether a reading of the link has its carrier's count, a set of BOOLEANs
  Diagnoses     \* bound: what the probes may find, a set of [router, internet, lookup]

ASSUME LinkGapsAssumption ==
  /\ {MaxRounds, MaxSilences} \subseteq Nat \ {0} /\ MaxDrops \in Nat /\ CountRead \subseteq BOOLEAN
  /\ Diagnoses \subseteq [router : {"unknown", "answered", "silent"}, internet : {"unknown", "reachable", "unreachable"},
                          lookup : {"unknown", "ok", "failed"}]

VARIABLES
  wifiUp, drops,  \* the Wi-Fi is connected; how often it was not, which its carrier count tells
  inHandSample,   \* the sample that the care thread has read, or NoSample
  watch,          \* LinkWatch's fields
  probe,          \* NetworkProbe's: [doing, silence, made, rounds of the silence it probes, address, hung]
  roundsIn,       \* history: rounds begun in this silence
  gap             \* the gap that the last step raised, with what was so, or NoGap

gapVars == <<wifiUp, drops, inHandSample, watch, probe, roundsIn, gap>>

NoSample == [kind |-> "none", connected |-> FALSE, count |-> -1, drops |-> -1]
LinkSample == [kind : {"wifi"}, connected : BOOLEAN, count : -1..MaxDrops, drops : 0..MaxDrops]
            \cup [kind : {"ethernet"}, connected : {TRUE}, count : {-1}, drops : {0}]
NothingFound == [router |-> "unknown", internet |-> "unknown", lookup |-> "unknown"]
NoGap == [cause |-> "none", silence |-> 0, from |-> {}, dropped |-> "no", wasDown |-> FALSE, missedDrop |-> FALSE]

GapsTypeOK ==
  /\ wifiUp \in BOOLEAN /\ drops \in 0..MaxDrops
  /\ {inHandSample, watch.base, watch.latest} \subseteq LinkSample \cup {NoSample}
  /\ {watch.answered, watch.missed, watch.sampled, watch.down} \subseteq BOOLEAN
  /\ watch.silence \in 0..MaxSilences /\ watch.onlyDns \in BOOLEAN
  /\ watch.found.router \in {"unknown", "answered", "silent"}
  /\ watch.found.internet \in {"unknown", "reachable", "unreachable"}
  /\ watch.found.lookup \in {"unknown", "ok", "failed"}
  /\ watch.from \subseteq 1..MaxSilences
  /\ probe.doing \in {"idle", "waiting", "router", "internet", "lookup"}
  /\ probe.silence \in 0..MaxSilences /\ probe.made \in 0..MaxRounds /\ {probe.address, probe.hung} \subseteq BOOLEAN
  /\ gap.cause \in {"none", "wifi", "router", "internet", "dns", "cloud", "unknown"}

GapsInit ==
  /\ wifiUp = TRUE /\ drops = 0 /\ inHandSample = NoSample
  /\ watch = [answered |-> FALSE, missed |-> FALSE, silence |-> 0, base |-> NoSample, latest |-> NoSample,
              sampled |-> FALSE, down |-> FALSE, onlyDns |-> FALSE, found |-> NothingFound,
              from |-> {}]
  /\ probe = [doing |-> "idle", silence |-> 0, made |-> 0, address |-> FALSE, hung |-> FALSE]
  /\ roundsIn = 0
  /\ gap = NoGap
-----------------------------------------------------------------------------
(* The link, read and handed over. *)

WifiChanges ==
  /\ drops < MaxDrops \/ ~wifiUp
  /\ wifiUp' = ~wifiUp
  /\ drops' = IF wifiUp THEN drops + 1 ELSE drops
  /\ gap' = NoGap
  /\ UNCHANGED <<inHandSample, watch, probe, roundsIn>>

\* Ethernet with a carrier goes first; the carrier's count may not be readable.
ReadLink(kind, counted) ==
  /\ inHandSample = NoSample
  /\ inHandSample' = [kind |-> kind, connected |-> (kind = "ethernet" \/ wifiUp),
                      count |-> IF kind = "wifi" /\ counted THEN drops ELSE -1, drops |-> IF kind = "wifi" THEN drops ELSE 0]
  /\ gap' = NoGap
  /\ UNCHANGED <<wifiUp, drops, watch, probe, roundsIn>>

\* After the check of the power saving, which may take its time.
HandSample ==
  LET s == inHandSample IN
  /\ s # NoSample
  /\ inHandSample' = NoSample
  /\ watch' = [watch EXCEPT
       !.latest = s,
       !.sampled = @ \/ s.kind = "wifi",
       !.down = @ \/ (s.kind = "wifi" /\ ~s.connected)]
  /\ gap' = NoGap
  /\ UNCHANGED <<wifiUp, drops, probe, roundsIn>>
-----------------------------------------------------------------------------
(* Requests. *)

Silence == IF watch.missed /\ watch.answered THEN watch.silence ELSE 0

NoAnswer(kind) ==
  LET begins == ~watch.missed /\ watch.answered IN
  /\ begins => watch.silence < MaxSilences
  /\ watch' = [watch EXCEPT
       !.silence = IF begins THEN @ + 1 ELSE @,
       !.missed = TRUE,
       !.onlyDns = kind = "dns" /\ (@ \/ ~watch.missed)]
  /\ gap' = NoGap
  /\ roundsIn' = IF begins THEN 0 ELSE roundsIn
  /\ UNCHANGED <<wifiUp, drops, inHandSample, probe>>

\* The table of causes: the first row that matches.
CauseOf(kind, dropped, f, onlyDns) ==
  IF kind = "wifi" /\ dropped = "yes" THEN "wifi"
  ELSE IF f.router = "silent" THEN IF kind = "wifi" /\ dropped = "no" THEN "router" ELSE "unknown"
  ELSE IF f.internet = "unreachable" THEN IF f.router = "answered" THEN "internet" ELSE "unknown"
  ELSE IF f.internet = "reachable" /\ (f.lookup = "failed" \/ onlyDns) THEN "dns"
  ELSE IF f.internet = "reachable" /\ f.lookup = "ok" THEN "cloud"
  ELSE "unknown"

\* Whether the Wi-Fi dropped since the sample that was the latest at the last answer.
Dropped(w) ==
  LET counted == w.base.count >= 0 /\ w.latest.count >= 0
      rose    == counted /\ w.latest.count > w.base.count
  IN  IF ~(w.sampled \/ counted) THEN "not known" ELSE IF w.down \/ rose THEN "yes" ELSE "no"

GapOf(w) ==
  LET link == IF w.base # NoSample THEN w.base ELSE w.latest
      dropped == IF link.kind = "wifi" THEN Dropped(w) ELSE "not known"
  IN  [cause |-> CauseOf(link.kind, dropped, w.found, w.onlyDns), silence |-> w.silence, from |-> w.from,
       dropped |-> dropped,
       wasDown |-> w.base = NoSample \/ ~w.base.connected \/ drops > w.base.drops,
       missedDrop |-> w.base.count >= 0 /\ w.latest.count >= 0 /\ w.latest.drops > w.base.drops]

Restarted_StillDown(w) ==
  [w EXCEPT !.answered = TRUE, !.missed = FALSE, !.sampled = FALSE, !.base = w.latest,
            !.onlyDns = FALSE, !.found = NothingFound, !.from = {}]

\* After an answer everything counts from here.
Restarted(w) ==
  [w EXCEPT !.answered = TRUE, !.missed = FALSE, !.sampled = FALSE, !.down = FALSE, !.base = w.latest,
            !.onlyDns = FALSE, !.found = NothingFound, !.from = {}]

Answered(long) ==
  /\ gap' = IF watch.answered /\ watch.missed /\ long THEN GapOf(watch) ELSE NoGap
  /\ watch' = Restarted(watch)
  /\ UNCHANGED <<wifiUp, drops, inHandSample, probe, roundsIn>>
-----------------------------------------------------------------------------
(* The probe thread. *)

Worse(order, a, b) ==
  LET rank(x) == CHOOSE i \in 1..3 : order[i] = x
  IN  IF rank(a) >= rank(b) THEN a ELSE b

RouterOrder == <<"unknown", "answered", "silent">>
InternetOrder == <<"unknown", "reachable", "unreachable">>
LookupOrder == <<"unknown", "ok", "failed">>

\* A finding is taken only while its silence lasts; the worse one of each probe is kept.
FoundNow(w, s, now, found) ==
  IF s = now THEN [w EXCEPT !.found = found, !.from = @ \cup {s}] ELSE w

\* It wakes: there are rounds of the silence to make, or the cloud's address to look up.
ProbeWakes ==
  /\ probe.doing = "idle"
  /\ Silence # 0
  /\ probe' = [probe EXCEPT !.doing = "waiting", !.silence = Silence,
                            !.made = IF probe.silence = Silence THEN @ ELSE 0]
  /\ gap' = NoGap
  /\ UNCHANGED <<wifiUp, drops, inHandSample, watch, roundsIn>>

\* The time between two rounds is over.
RoundBegins ==
  /\ probe.doing = "waiting"
  /\ IF probe.made < MaxRounds /\ Silence = probe.silence
       THEN /\ probe' = [probe EXCEPT !.doing = "router", !.made = @ + 1]
            /\ roundsIn' = roundsIn + 1
       ELSE probe' = [probe EXCEPT !.doing = "idle"] /\ UNCHANGED roundsIn
  /\ gap' = NoGap
  /\ UNCHANGED <<wifiUp, drops, inHandSample, watch>>

\* A tool left hung lives: no other is started, and nothing can be found with one.
Tool(finding, hangs) == IF probe.hung \/ hangs THEN "unknown" ELSE finding

RouterProbed(finding, hangs) ==
  LET f == Tool(finding, hangs) IN
  /\ probe.doing = "router"
  /\ watch' = FoundNow(watch, probe.silence, Silence,
                     [watch.found EXCEPT !.router = Worse(RouterOrder, @, f)])
  /\ probe' = [probe EXCEPT !.hung = @ \/ hangs,
                 !.doing = IF f # "silent" /\ Silence = probe.silence THEN "internet" ELSE "waiting"]
  /\ gap' = NoGap
  /\ UNCHANGED <<wifiUp, drops, inHandSample, roundsIn>>

\* A connection to the cloud's last known address; no tool.
InternetProbed(finding) ==
  LET f == IF probe.address THEN finding ELSE "unknown" IN
  /\ probe.doing = "internet"
  /\ watch' = FoundNow(watch, probe.silence, Silence,
                     [watch.found EXCEPT !.internet = Worse(InternetOrder, @, f)])
  /\ probe' = [probe EXCEPT !.doing = IF Silence = probe.silence THEN "lookup" ELSE "waiting"]
  /\ gap' = NoGap
  /\ UNCHANGED <<wifiUp, drops, inHandSample, roundsIn>>

LookupProbed(finding, hangs) ==
  LET f == Tool(finding, hangs) IN
  /\ probe.doing = "lookup"
  /\ watch' = FoundNow(watch, probe.silence, Silence,
                     [watch.found EXCEPT !.lookup = Worse(LookupOrder, @, f)])
  /\ probe' = [probe EXCEPT !.hung = @ \/ hangs, !.address = @ \/ f = "ok", !.doing = "waiting"]
  /\ gap' = NoGap
  /\ UNCHANGED <<wifiUp, drops, inHandSample, roundsIn>>

\* Outside a silence, once the cloud has answered: its address.
LookupOutsideSilence(finding, hangs) ==
  /\ probe.doing = "idle" /\ Silence = 0 /\ watch.answered
  /\ probe' = [probe EXCEPT !.hung = @ \/ hangs, !.address = @ \/ Tool(finding, hangs) = "ok"]
  /\ gap' = NoGap
  /\ UNCHANGED <<wifiUp, drops, inHandSample, watch, roundsIn>>

HungProbeEnds ==
  /\ probe.hung
  /\ probe' = [probe EXCEPT !.hung = FALSE]
  /\ gap' = NoGap
  /\ UNCHANGED <<wifiUp, drops, inHandSample, watch, roundsIn>>

GapsNext ==
  \/ WifiChanges
  \/ \E kind \in {"wifi", "ethernet"}, counted \in CountRead : ReadLink(kind, counted)
  \/ HandSample
  \/ \E kind \in {"dns", "other"} : NoAnswer(kind)
  \/ \E long \in BOOLEAN : Answered(long)
  \/ ProbeWakes \/ RoundBegins \/ HungProbeEnds
  \/ \E d \in Diagnoses, hangs \in BOOLEAN :
       RouterProbed(d.router, hangs) \/ LookupProbed(d.lookup, hangs) \/ LookupOutsideSilence(d.lookup, hangs)
  \/ \E d \in Diagnoses : InternetProbed(d.internet)
-----------------------------------------------------------------------------
\* A gap is explained by its own silence: its findings are of probes made for it (a round that ends after the
\* answer, or in a later silence, is dropped), the Wi-Fi is blamed only when it was down since the sample
\* before the gap, and is called connected throughout only when its carrier was, where that is counted.
GapIsItsOwn ==
  /\ gap.from \subseteq {gap.silence}
  /\ gap.dropped = "yes" => gap.wasDown
  /\ gap.dropped = "no" => ~gap.missedDrop
  /\ gap.cause \in {"router", "internet", "dns", "cloud"} => gap.from # {}

\* However often the probe thread is woken, a silence gets at most MaxRounds rounds of programs.
RoundsBounded == roundsIn <= MaxRounds
=============================================================================
