------------------------------ MODULE MCServices ------------------------------
(***************************************************************************)
(* The services beside the program, for TLC.  Each runs in threads of its  *)
(* own and shares no state with the others, so that one that moves while   *)
(* the others rest behaves as it does among them; turn says which moves.   *)
(***************************************************************************)
EXTENDS NodeEvents, TelemetryStore, ProgramReports, CardValues, ServerClock, LinkGaps, WifiCare, Heartbeats,
        DryRunGuard

CONSTANTS b1, b2  \* threads, model values

TwoBeats == {b1, b2}
Finding(r, i, l) == [router |-> r, internet |-> i, lookup |-> l]
\* All is well, or neither the router nor the line behind it answers.
TwoDiagnoses == {Finding("answered", "reachable", "ok"), Finding("silent", "unreachable", "ok")}
\* A clock that is right, a little off, and far off.
ThreeSkews == {0, 1, 6}

VARIABLE turn

allVars == <<turn, eventVars, storeVars, reportVars, cardVars, clockVars, gapVars, wifiVars, beatVars, guardVars>>

\* The choices of an initial state are of the one that moves.
Init ==
  /\ turn \in {"events", "store", "reports", "cards", "clock", "gaps", "wifi", "beats", "guard"}
  /\ EventsInit /\ StoreInit /\ ReportsInit /\ CardsInit /\ ClockInit /\ GapsInit /\ WifiInit /\ BeatsInit
  /\ GuardInit
  /\ turn # "clock" => skew = 0
  /\ turn # "wifi" => cable = "up" /\ adapter = (CHOOSE a \in Adapters : TRUE)
                      /\ saving = [a \in Adapters |-> "off"]
  /\ turn # "beats" => beatPhase[b1] = "sending"
  /\ turn # "guard" => known = 2

\* One moves and the others rest.
EventsAlone == turn = "events" /\ UNCHANGED <<turn, storeVars, reportVars, cardVars, clockVars, gapVars, wifiVars, beatVars, guardVars>>
StoreAlone == turn = "store" /\ UNCHANGED <<turn, eventVars, reportVars, cardVars, clockVars, gapVars, wifiVars, beatVars, guardVars>>
ReportsAlone == turn = "reports" /\ UNCHANGED <<turn, eventVars, storeVars, cardVars, clockVars, gapVars, wifiVars, beatVars, guardVars>>
CardsAlone == turn = "cards" /\ UNCHANGED <<turn, eventVars, storeVars, reportVars, clockVars, gapVars, wifiVars, beatVars, guardVars>>
ClockAlone == turn = "clock" /\ UNCHANGED <<turn, eventVars, storeVars, reportVars, cardVars, gapVars, wifiVars, beatVars, guardVars>>
GapsAlone == turn = "gaps" /\ UNCHANGED <<turn, eventVars, storeVars, reportVars, cardVars, clockVars, wifiVars, beatVars, guardVars>>
WifiAlone == turn = "wifi" /\ UNCHANGED <<turn, eventVars, storeVars, reportVars, cardVars, clockVars, gapVars, beatVars, guardVars>>
BeatsAlone == turn = "beats" /\ UNCHANGED <<turn, eventVars, storeVars, reportVars, cardVars, clockVars, gapVars, wifiVars, guardVars>>
GuardAlone == turn = "guard" /\ UNCHANGED <<turn, eventVars, storeVars, reportVars, cardVars, clockVars, gapVars, wifiVars, beatVars>>

Next ==
  \/ EventsAlone /\ EventsNext
  \/ StoreAlone /\ StoreNext
  \/ ReportsAlone /\ ReportsNext
  \/ CardsAlone /\ CardsNext
  \/ ClockAlone /\ ClockNext
  \/ GapsAlone /\ GapsNext
  \/ WifiAlone /\ WifiNext
  \/ BeatsAlone /\ BeatsNext
  \/ GuardAlone /\ GuardNext

\* A behaviour is of one service, so that one fairness condition says the same of several.
\* Threads run and requests end.
ThreadsWork ==
  \/ EventsAlone /\ (TakeEvent \/ BackoffEnds \/ TokenBack \/ \E ans \in Answers : Post(ans))
  \/ StoreAlone /\ (WakeUploader \/ FetchBatch \/ UploadFailed \/ MarkSent \/ PostBatch(FALSE, FALSE))
  \/ ReportsAlone /\ (TakeReport \/ \E arrives \in BOOLEAN : SendReport(arrives))
  \/ CardsAlone /\ CardsProgress
  \/ GuardAlone /\ (Notify \/ Learn \/ MarkCut)

\* Time passes.
TimePasses ==
  \/ EventsAlone /\ DeadlinePasses
  \/ CardsAlone /\ (CardTokenBack \/ \E a \in CardAssets : IntervalOver(a))

\* What is tried again and again succeeds at last: a batch and its mark, a snapshot, a write of the relay.
TriesSucceed ==
  \/ StoreAlone /\ PostBatch(TRUE, TRUE)
  \/ CardsAlone /\ PostSnapshot(TRUE, TRUE)
  \/ GuardAlone /\ Decide(FALSE)

Fairness ==
  /\ WF_allVars(ThreadsWork) /\ WF_allVars(TimePasses) /\ SF_allVars(TriesSucceed)
  /\ SF_allVars(GuardAlone /\ ReadCurrent) /\ SF_allVars(GuardAlone /\ GuardTick)
  /\ SF_allVars(StoreAlone /\ MarkSent)

Spec == Init /\ [][Next]_allVars /\ Fairness
-----------------------------------------------------------------------------
\* The state of every service is of its type.
TypesOK ==
  EventsTypeOK /\ StoreTypeOK /\ ReportsTypeOK /\ CardsTypeOK /\ ClockTypeOK /\ GapsTypeOK /\ WifiTypeOK
  /\ BeatsTypeOK /\ GuardTypeOK

\* What the node sends is in order and complete: events and acks arrive in the order they were made, a
\* reading is lost or doubled only for a reason the node could do nothing about, a flush that says that the
\* card values are sent is right, and a clean stop's offline is the last status.
NothingLostOrMixed ==
  EventsInOrder /\ AcksInOrder /\ NothingLostQuietly /\ TwiceUnmarked /\ IdleIsSent /\ OfflineIsLast

\* What the node takes for true is: the backend's time, its clock's offset, the cause of a gap, that its
\* heartbeat goes on, and that a pump runs dry.
NodeKnows ==
  BackendTimeHolds /\ OffsetIsTheClocks /\ GapIsItsOwn /\ RoundsBounded /\ ChainHolds /\ WindowIsOneRuns
  /\ CutStaysOff

\* No step drops an alarm for an event, an ack for an alert, or a reading not yet sent for a sent one, and none
\* claims the Wi-Fi's power saving for the agent when another turned it off.
NoStepBack == AlarmsStay /\ AcksLeaveOnlyToAcks /\ SentGoFirst /\ HeldIsOurs

\* Nothing waits for ever: with no more coming, the last event, reading, report and card value leaves the
\* node, and a pump that runs dry is switched off, or finds water again.
AllSettle == []<>(NoEventWaits /\ NoReadingWaits /\ NoReportWaits /\ NoValueWaits /\ NoPumpRunsDry)
=============================================================================
