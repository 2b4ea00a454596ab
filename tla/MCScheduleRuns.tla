--------------------------- MODULE MCScheduleRuns ---------------------------
(***************************************************************************)
(* Instances of ScheduleRuns for TLC.  A day has 4 ticks.                  *)
(***************************************************************************)
EXTENDS ScheduleRuns

Sched(start, dur, win, outs) == [start |-> start, dur |-> dur, win |-> win, outs |-> outs]

\* One field.  In the first program its every-day part takes the today-only part over at midnight, in the
\* middle of run b, which is longer there; it alone uses the valve v1, and its a takes the valve v2 over from
\* b.  The second program has no b, and gives a another time and the valve v3 of b.  The third one is like the
\* first, with no valve that two schedules use.
OneField == <<"field">>
TwoSids == <<"a", "b">>
FieldPlan ==
  [p1 |-> (<<"field", "today">> :> ("a" :> Sched(0, 2, 3, {"v2"}) @@ "b" :> Sched(3, 2, 1, {"v2", "v3"}))
           @@ <<"field", "every">> :> ("a" :> Sched(1, 1, 1, {"v1", "v2"}) @@ "b" :> Sched(3, 3, 1, {"v3"}))),
   p2 |-> (<<"field", "every">> :> ("a" :> Sched(3, 3, 1, {"v1", "v3"}))),
   p3 |-> (<<"field", "today">> :> ("a" :> Sched(0, 2, 3, {"v1"}) @@ "b" :> Sched(3, 2, 1, {"v2"}))
           @@ <<"field", "every">> :> ("a" :> Sched(3, 1, 1, {"v1"}) @@ "b" :> Sched(3, 3, 1, {"v2"})))]

\* A program whose part not in force on the first day uses v1, and v2 with the one in force.
UnevenPlan ==
  [p1 |-> (<<"field", "today">> :> ("a" :> Sched(0, 2, 2, {"v2"}))
           @@ <<"field", "every">> :> ("a" :> Sched(3, 2, 1, {"v1", "v2"})))]

SupplyOnly == {"supply"}
AllTroubles == {"cut", "supply", "pause", "reload", "stop", "kill", "hand"}
=============================================================================
