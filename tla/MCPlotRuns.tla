------------------------------ MODULE MCPlotRuns ------------------------------
(***************************************************************************)
(* Instances of PlotRuns for TLC.  A day has 4 ticks.                      *)
(***************************************************************************)
EXTENDS PlotRuns

BootRule == [id |-> "boot", kind |-> "on", event |-> "boot", actions |-> <<Set("pump", FALSE), Set("v1", FALSE)>>]
AlarmRule ==
  [id |-> "alarm", kind |-> "when", cond |-> "alarm", hold |-> 1, actions |-> <<End("A")>>, orElse |-> <<>>]
PumpRule ==
  [id |-> "pump", kind |-> "sequence", abort |-> "closed",
   steps |-> <<[delay |-> 1, actions |-> <<Set("pump", TRUE)>>]>>]
MaxRule == [id |-> "max", kind |-> "limit", card |-> "pump", max |-> 3, actions |-> <<Set("pump", FALSE)>>]

Watered(id, start, dur, win, q) ==
  [id |-> id, plot |-> q, start |-> start, dur |-> dur, win |-> win,
   actions |-> <<Run(q, Never), StartSequence("pump")>>, ends |-> <<>>]

\* Two plots, a valve each; plot A alone and its schedule by other actions, the valve of plot B a card that only
\* people switch and v1 on another line; neither schedule, v2 gone and its line an input.
ThreePrograms ==
  [p1 |-> [cards |-> {"pump", "v1", "v2"}, nab |-> {"pump", "v1", "v2"}, inputs |-> {},
           line |-> ("pump" :> "l0" @@ "v1" :> "l1" @@ "v2" :> "l2"), pump |-> "pump",
           plots |-> ("A" :> {"v1"} @@ "B" :> {"v2"}),
           schedules |-> <<Watered("s1", 0, 2, 2, "A"), Watered("s2", 1, 2, 1, "B")>>,
           rules |-> <<BootRule, AlarmRule, PumpRule>>, cardRules |-> <<MaxRule>>],
   p2 |-> [cards |-> {"pump", "v1", "v2"}, nab |-> {"pump", "v1"}, inputs |-> {},
           line |-> ("pump" :> "l0" @@ "v1" :> "l3" @@ "v2" :> "l2"), pump |-> "pump",
           plots |-> ("A" :> {"v1"}),
           schedules |-> <<[id |-> "s1", plot |-> "A", start |-> 0, dur |-> 2, win |-> 2,
                            actions |-> <<Run("A", Never), Set("pump", TRUE)>>,
                            ends |-> <<Set("pump", FALSE), End("A")>>]>>,
           rules |-> <<BootRule, AlarmRule>>, cardRules |-> <<MaxRule>>],
   p3 |-> [cards |-> {"pump", "v1"}, nab |-> {"pump", "v1"}, inputs |-> {"l2"},
           line |-> ("pump" :> "l0" @@ "v1" :> "l1"), pump |-> "pump",
           plots |-> <<>>, schedules |-> <<>>,
           rules |-> <<BootRule, PumpRule>>, cardRules |-> <<MaxRule>>]]

\* The schedules are apart, whichever programs take over from one another.
ASSUME SchedulesApart

AllTroubles == {"runPlot", "stopPlot", "switch", "reload", "alarm", "bad", "stop", "kill"}
=============================================================================
