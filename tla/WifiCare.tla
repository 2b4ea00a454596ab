------------------------------- MODULE WifiCare -------------------------------
(***************************************************************************)
(* The care thread's other work (net_care.py, NetworkCare): which link is  *)
(* in use, and the Wi-Fi's power saving, which it turns off again whenever *)
(* it finds it on.  The network manager may turn it on at any time, a tool *)
(* may fail or hang, and the Wi-Fi adapter may be another one.             *)
(***************************************************************************)
EXTENDS Naturals, FiniteSets

CONSTANT Adapters   \* Wi-Fi interfaces

VARIABLES
  adapter,     \* the Wi-Fi interface the board has, or "none"
  cable,       \* Ethernet: "none", "down" or "up"
  saving,      \* power saving of each adapter, as it is
  care,        \* [iface, reported, held, due, hung]
  block,       \* the network block of the next heartbeat
  offByAgent   \* history: adapters whose saving the agent found on, had turned off and read off

wifiVars == <<adapter, cable, saving, care, block, offByAgent>>

NoBlock == [kind |-> "none", connected |-> FALSE, powerSave |-> "none", held |-> FALSE, iface |-> "none"]

WifiTypeOK ==
  /\ adapter \in Adapters \cup {"none"} /\ cable \in {"none", "down", "up"}
  /\ saving \in [Adapters -> {"on", "off"}] /\ offByAgent \subseteq Adapters
  /\ care \in [iface : Adapters \cup {"none"}, reported : {"none", "on", "off", "unknown"},
               held : BOOLEAN, due : BOOLEAN, hung : BOOLEAN]
  /\ block.kind \in {"none", "wifi", "ethernet"} /\ block.powerSave \in {"none", "on", "off", "unknown"}

WifiInit ==
  /\ adapter \in Adapters /\ cable \in {"none", "down", "up"}
  /\ saving \in [Adapters -> {"on", "off"}]
  /\ care = [iface |-> "none", reported |-> "none", held |-> FALSE, due |-> TRUE, hung |-> FALSE]
  /\ block = NoBlock /\ offByAgent = {}
-----------------------------------------------------------------------------
\* A cable with a carrier, else the Wi-Fi, else the cable without one.
LinkKind ==
  IF cable = "up" THEN "ethernet"
  ELSE IF adapter # "none" THEN "wifi"
  ELSE IF cable = "down" THEN "ethernet"
  ELSE "none"

\* Another adapter than before: nothing is known of it.
AtAdapter(c) ==
  IF c.iface = adapter THEN c
  ELSE [c EXCEPT !.iface = adapter, !.reported = "none", !.held = FALSE, !.due = TRUE]

\* A check: on is turned off and read again.  first, again: a tool, iw or else iwconfig, read it; set: it is
\* off when it is read again, by the tool or by another; done: the tool says that it turned it off.
CheckPowerSave(c, first, set, done, again) ==
  IF ~first THEN [c EXCEPT !.held = FALSE, !.reported = "unknown"]
  ELSE IF saving[adapter] = "off" THEN [c EXCEPT !.reported = "off"]
  ELSE IF set /\ again THEN [c EXCEPT !.held = TRUE, !.reported = "off"]
  ELSE [c EXCEPT !.held = FALSE, !.reported = IF done /\ ~again THEN "unknown" ELSE "on"]

BlockOf(kind, connected, c) ==
  [kind |-> kind, connected |-> connected, iface |-> IF kind = "wifi" THEN adapter ELSE "none",
   powerSave |-> IF kind # "wifi" THEN "none" ELSE IF c.reported = "none" THEN "unknown" ELSE c.reported,
   held |-> kind = "wifi" /\ c.held /\ c.reported = "off"]

\* One turn of the thread.  A tool left hung answers nothing, nor does any after it.
CareStep(connected, first, set, done, again, hangs) ==
  LET wifi    == LinkKind = "wifi"
      here    == IF wifi THEN AtAdapter(care) ELSE care
      checks  == wifi /\ here.due
      f       == first /\ ~care.hung
      n       == set /\ f
      g       == again /\ f
      d       == done /\ f
      turned  == checks /\ f /\ n /\ saving[adapter] = "on"
      checked == IF checks THEN [CheckPowerSave(here, f, n, d, g) EXCEPT !.due = FALSE, !.hung = @ \/ hangs] ELSE here
  IN  /\ hangs => checks /\ ~first
      /\ care' = checked
      /\ saving' = IF turned THEN [saving EXCEPT ![adapter] = "off"] ELSE saving
      /\ offByAgent' = IF turned /\ g THEN offByAgent \cup {adapter}
                       ELSE IF checks /\ checked.reported # "off" THEN offByAgent \ {adapter} ELSE offByAgent
      /\ block' = IF LinkKind = "none" THEN NoBlock ELSE BlockOf(LinkKind, connected, checked)
      /\ UNCHANGED <<adapter, cable>>

CheckDue ==
  /\ ~care.due
  /\ care' = [care EXCEPT !.due = TRUE]
  /\ UNCHANGED <<adapter, cable, saving, block, offByAgent>>

PowerToolEnds ==
  /\ care.hung
  /\ care' = [care EXCEPT !.hung = FALSE]
  /\ UNCHANGED <<adapter, cable, saving, block, offByAgent>>

\* The network manager, at a reconnect, or an owner.
SavingSet(a, state) ==
  /\ saving[a] # state
  /\ saving' = [saving EXCEPT ![a] = state]
  /\ UNCHANGED <<adapter, cable, care, block, offByAgent>>

\* An adapter is plugged in or out; a cable is.  An adapter starts as its driver leaves it.
Plugged(a, c) ==
  /\ <<a, c>> # <<adapter, cable>>
  /\ adapter' = a /\ cable' = c
  /\ saving' \in IF a = adapter \/ a = "none" THEN {saving} ELSE {[saving EXCEPT ![a] = s] : s \in {"on", "off"}}
  /\ UNCHANGED <<care, block, offByAgent>>

WifiNext ==
  \/ \E connected, first, set, done, again, hangs \in BOOLEAN : CareStep(connected, first, set, done, again, hangs)
  \/ CheckDue \/ PowerToolEnds
  \/ \E a \in Adapters, state \in {"on", "off"} : SavingSet(a, state)
  \/ \E a \in Adapters \cup {"none"}, c \in {"none", "down", "up"} : Plugged(a, c)
-----------------------------------------------------------------------------
\* The heartbeat says that the agent holds the power saving off only of an adapter where the agent found it
\* on, ran the tool that turns it off and read it off then, whatever the tool said of it and whoever did it,
\* and where no check since has found or left it otherwise.
HeldIsOurs ==
  [][block'.held /\ block' # block => block'.iface \in offByAgent']_wifiVars
=============================================================================
