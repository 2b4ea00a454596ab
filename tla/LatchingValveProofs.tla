------------------------ MODULE LatchingValveProofs ------------------------
(***************************************************************************)
(* Theorems of LatchingValve, for any set of resets, with writes that fail *)
(* or not.  Inv strengthens the type invariant with what makes it hold     *)
(* from step to step: a pass that took resets has their answer by its end, *)
(* and a record says FAULT exactly when it names a reason.                 *)
(***************************************************************************)
EXTENDS LatchingValve, TLAPS

PulseStages == {"other_off", "mark", "energised", "retry_off", "read", "recorded"}

\* The pass's answer is there once the commands have been carried out, and no pulse runs for nothing.
AnswerDue ==
  /\ pc \in PulseStages => job # "none"
  /\ Accepted # {} =>
       /\ pc \in {"blocks", "flush", "end"} => outcome # "none"
       /\ pc \in PulseStages /\ job \in {"flush", "start"} => outcome # "none"
       /\ pc = "recorded" /\ job = "reset" => outcome # "none"

FaultNamed(record) == record.position = "fault" => record.reason # "none"

Inv ==
  /\ EnvOK /\ StoreOK /\ DriverOK /\ ThreadOK
  /\ FaultNamed(disk) /\ FaultNamed(writer.record)
  /\ AnswerDue

-----------------------------------------------------------------------------
\* What _persist hands over is a record, and it names the reason of a FAULT.
LEMMA PersistTyped ==
  ASSUME DriverOK', NEW clean \in BOOLEAN, Persist(clean)
  PROVE  /\ writer' \in [handed : BOOLEAN, record : Records]
         /\ FaultNamed(writer.record)'
  <1>1. ToState(clean, position', fault', pulse_mark') \in Records
    BY DEF ToState, Records, DriverOK
  <1>2. FaultNamed(ToState(clean, position', fault', pulse_mark'))
    BY DEF ToState, FaultNamed, DriverOK, Positions
  <1> QED
    BY <1>1, <1>2 DEF Persist, FaultNamed

\* A cold load finds a reason not to vouch, or a position to vouch for.
LEMMA ColdReasonTyped ==
  ASSUME disk \in Records, FaultNamed(disk), NEW changed \in BOOLEAN
  PROVE  /\ ColdReason(changed) \in Reasons \cup {"none"}
         /\ ColdReason(changed) = "none" => disk.position \in Positions
  <1>1. disk.reason \in Reasons \cup {"none"}
    BY DEF Records
  <1>2. CASE disk = NoRecord \/ changed
    BY <1>2 DEF ColdReason, Reasons
  <1>3. CASE ~(disk = NoRecord \/ changed) /\ disk.position = "fault"
    BY <1>1, <1>3 DEF ColdReason, Reasons, FaultNamed
  <1>4. CASE ~(disk = NoRecord \/ changed) /\ disk.position # "fault"
    BY <1>4 DEF ColdReason, Reasons
  <1> QED
    BY <1>2, <1>3, <1>4

\* A coil switched off is still a coil, and the lines at the process's end are lines.
LEMMA WriteOffTyped ==
  ASSUME EnvOK, DriverOK, NEW written, WriteOff(written)
  PROVE  line' \in [Coils -> BOOLEAN] /\ coil_state' \in [Coils -> {"off", "unknown"}]
  BY DEF WriteOff, EnvOK, DriverOK

\* What the end of a pass writes to the coils keeps lines and coil states of their types.
LEMMA FlushTyped ==
  ASSUME EnvOK, DriverOK, FlushCoilsOff
  PROVE  line' \in [Coils -> BOOLEAN] /\ coil_state' \in [Coils -> {"off", "unknown"}]
  BY DEF FlushCoilsOff, EnvOK, DriverOK

\* So does the stop of the runtime, which switches both coils off.
LEMMA StopTyped ==
  ASSUME EnvOK, DriverOK, StopCoilsOff
  PROVE  line' \in [Coils -> BOOLEAN] /\ coil_state' \in [Coils -> {"off", "unknown"}]
  BY WriteOffTyped DEF StopCoilsOff

\* At the end of the process the lines are lines still.
LEMMA DeathTyped == ASSUME EnvOK, LinesAtDeath PROVE line' \in [Coils -> BOOLEAN]
  BY DEF EnvOK, LinesAtDeath

\* A pulse is always of one coil.
LEMMA CoilTyped == Coil \in Coils /\ Coil # "none"
  BY DEF Coil, Coils

\* The typed invariant holds before the first boot.
LEMMA InitInv == Init => Inv
  <1> SUFFICES ASSUME Init PROVE Inv
    OBVIOUS
  <1>2. EnvOK /\ StoreOK /\ DriverOK /\ ThreadOK
    BY DEF EnvOK, StoreOK, DriverOK, ThreadOK, Init, Positions, NoRecord, Nothing, Records, Outcomes
  <1>3. FaultNamed(disk) /\ FaultNamed(writer.record)
    BY DEF FaultNamed, Init, NoRecord, Nothing
  <1>4. AnswerDue
    BY DEF AnswerDue, Init, PulseStages
  <1> QED
    BY <1>2, <1>3, <1>4 DEF Inv

-----------------------------------------------------------------------------
\* Every action keeps the types, an answer due to each reset, and a reason in every recorded FAULT.
LEMMA StepInv == Inv /\ [Next]_vars => Inv'
  <1> SUFFICES ASSUME Inv, [Next]_vars PROVE Inv'
    OBVIOUS
  <1> USE DEF Inv, EnvOK, StoreOK, DriverOK, ThreadOK, AnswerDue, Accepted, PulseStages,
              env, store, driver, thread
  <1>1. ASSUME NEW changed \in BOOLEAN, ColdLoad(changed) PROVE Inv'
    <2>1. fault' \in Reasons \cup {"none"} /\ position' \in Positions \cup {"none"}
      BY <1>1, ColdReasonTyped DEF ColdLoad
    <2>2. coil_state' \in [Coils -> {"off", "unknown"}] /\ start_close' \in BOOLEAN
      BY <1>1 DEF ColdLoad
    <2>3. DriverOK'
      BY <1>1, <2>1, <2>2 DEF ColdLoad
    <2>4. StoreOK' /\ FaultNamed(disk)' /\ FaultNamed(writer.record)'
      BY <1>1, <2>3, PersistTyped DEF ColdLoad, FaultNamed
    <2> QED
      BY <1>1, <2>3, <2>4 DEF ColdLoad
  <1>2. CASE Loaded
    BY <1>2 DEF Loaded, SetFault, Reasons, FaultNamed
  <1>3. CASE Sample
    BY <1>3 DEF Sample, Samples, Sense, FaultNamed
  <1>4. CASE StartPass
    BY <1>4 DEF StartPass, Samples, Sense, SetFault, Reasons, Outcomes, FaultNamed
  <1>5. CASE NoReset
    BY <1>5 DEF NoReset, FaultNamed
  <1>6. CASE ResetRefused
    BY <1>6 DEF ResetRefused, Outcomes, FaultNamed
  <1>7. CASE ResetNotInFault
    BY <1>7 DEF ResetNotInFault, Outcomes, FaultNamed
  <1>8. CASE ResetPulse
    BY <1>8 DEF ResetPulse, FaultNamed
  <1>9. CASE MarkNotRecorded
    BY <1>9 DEF MarkNotRecorded, SetFault, Reasons, GiveUpPulse, AfterPulse, Outcomes, FaultNamed
  <1>10. CASE PulseRecorded
    BY <1>10 DEF PulseRecorded, AfterPulse, FaultNamed
  <1>11. CASE Blocks
    <2>1. EnvOK'
      BY <1>11 DEF Blocks
    <2>2. DriverOK'
      BY <1>11 DEF Blocks
    <2>3. StoreOK' /\ FaultNamed(disk)' /\ FaultNamed(writer.record)'
      BY <1>11 DEF Blocks, FaultNamed
    <2>4. ThreadOK' /\ AnswerDue'
      BY <1>11 DEF Blocks
    <2> QED
      BY <2>1, <2>2, <2>3, <2>4
  <1>12. CASE FlushNoPulse
    <2>1. EnvOK'
      BY <1>12, FlushTyped DEF FlushNoPulse
    <2>2. DriverOK'
      BY <1>12, FlushTyped DEF FlushNoPulse
    <2>3. StoreOK' /\ FaultNamed(disk)' /\ FaultNamed(writer.record)'
      BY <1>12 DEF FlushNoPulse, FaultNamed
    <2>4. ThreadOK' /\ AnswerDue'
      BY <1>12 DEF FlushNoPulse
    <2> QED
      BY <2>1, <2>2, <2>3, <2>4
  <1>13. CASE FlushStartClose
    <2>1. EnvOK'
      BY <1>13, FlushTyped DEF FlushStartClose
    <2>2. DriverOK'
      BY <1>13, FlushTyped DEF FlushStartClose
    <2>3. StoreOK' /\ FaultNamed(disk)' /\ FaultNamed(writer.record)'
      BY <1>13 DEF FlushStartClose, FaultNamed
    <2>4. ThreadOK' /\ AnswerDue'
      BY <1>13 DEF FlushStartClose
    <2> QED
      BY <2>1, <2>2, <2>3, <2>4
  <1>14. CASE FlushPulse
    <2>1. EnvOK'
      BY <1>14, FlushTyped DEF FlushPulse
    <2>2. DriverOK'
      BY <1>14, FlushTyped DEF FlushPulse
    <2>3. StoreOK' /\ FaultNamed(disk)' /\ FaultNamed(writer.record)'
      BY <1>14 DEF FlushPulse, FaultNamed
    <2>4. ThreadOK' /\ AnswerDue'
      BY <1>14 DEF FlushPulse
    <2> QED
      BY <2>1, <2>2, <2>3, <2>4
  <1>15. CASE PulseBegins
    <2>1. EnvOK'
      BY <1>15, CoilTyped DEF PulseBegins, CoilWrites
    <2>2. DriverOK'
      BY <1>15, CoilTyped DEF PulseBegins
    <2>3. StoreOK' /\ FaultNamed(disk)' /\ FaultNamed(writer.record)'
      BY <1>15 DEF PulseBegins, FaultNamed
    <2>4. ThreadOK' /\ AnswerDue'
      BY <1>15 DEF PulseBegins
    <2> QED
      BY <2>1, <2>2, <2>3, <2>4
  <1>16. CASE PulseEnds
    <2>1. EnvOK'
      BY <1>16, WriteOffTyped DEF PulseEnds, CoilWrites, Moves, PositionOf, Positions
    <2>2. DriverOK'
      BY <1>16, WriteOffTyped DEF PulseEnds, CoilWrites
    <2>3. StoreOK' /\ FaultNamed(disk)' /\ FaultNamed(writer.record)'
      BY <1>16 DEF PulseEnds, FaultNamed
    <2>4. ThreadOK' /\ AnswerDue'
      BY <1>16 DEF PulseEnds, CoilWrites
    <2> QED
      BY <2>1, <2>2, <2>3, <2>4
  <1>17. CASE StopInFault
    <2>1. EnvOK'
      BY <1>17, StopTyped DEF StopInFault
    <2>2. DriverOK'
      BY <1>17, StopTyped DEF StopInFault
    <2>3. StoreOK' /\ FaultNamed(disk)' /\ FaultNamed(writer.record)'
      BY <1>17 DEF StopInFault, FaultNamed
    <2>4. ThreadOK' /\ AnswerDue'
      BY <1>17 DEF StopInFault
    <2> QED
      BY <2>1, <2>2, <2>3, <2>4
  <1>18. CASE StopUnsupplied
    <2>1. EnvOK'
      BY <1>18, StopTyped DEF StopUnsupplied
    <2>2. DriverOK'
      BY <1>18, StopTyped DEF StopUnsupplied, SetFault, Reasons
    <2>3. StoreOK' /\ FaultNamed(disk)' /\ FaultNamed(writer.record)'
      BY <1>18 DEF StopUnsupplied, FaultNamed
    <2>4. ThreadOK' /\ AnswerDue'
      BY <1>18 DEF StopUnsupplied
    <2> QED
      BY <2>1, <2>2, <2>3, <2>4
  <1>19. CASE StopPulse
    <2>1. EnvOK'
      BY <1>19, StopTyped DEF StopPulse
    <2>2. DriverOK'
      BY <1>19, StopTyped DEF StopPulse
    <2>3. StoreOK' /\ FaultNamed(disk)' /\ FaultNamed(writer.record)'
      BY <1>19 DEF StopPulse, FaultNamed
    <2>4. ThreadOK' /\ AnswerDue'
      BY <1>19 DEF StopPulse
    <2> QED
      BY <2>1, <2>2, <2>3, <2>4
  <1>20. CASE SupplyDrops
    <2>1. EnvOK'
      BY <1>20 DEF SupplyDrops
    <2>2. DriverOK'
      BY <1>20 DEF SupplyDrops
    <2>3. StoreOK' /\ FaultNamed(disk)' /\ FaultNamed(writer.record)'
      BY <1>20 DEF SupplyDrops, FaultNamed
    <2>4. ThreadOK' /\ AnswerDue'
      BY <1>20 DEF SupplyDrops
    <2> QED
      BY <2>1, <2>2, <2>3, <2>4
  <1>21. CASE SupplyReturns
    <2>1. EnvOK'
      BY <1>21 DEF SupplyReturns
    <2>2. DriverOK'
      BY <1>21 DEF SupplyReturns
    <2>3. StoreOK' /\ FaultNamed(disk)' /\ FaultNamed(writer.record)'
      BY <1>21 DEF SupplyReturns, FaultNamed
    <2>4. ThreadOK' /\ AnswerDue'
      BY <1>21 DEF SupplyReturns
    <2> QED
      BY <2>1, <2>2, <2>3, <2>4
  <1>22. CASE EndPass
    <2>1. DriverOK' /\ EnvOK'
      BY <1>22 DEF EndPass
    <2>2. StoreOK' /\ FaultNamed(disk)' /\ FaultNamed(writer.record)'
      BY <1>22, <2>1, PersistTyped DEF EndPass, FaultNamed
    <2>3. ThreadOK' /\ AnswerDue'
      BY <1>22 DEF EndPass, Outcomes
    <2> QED
      BY <2>1, <2>2, <2>3
  <1>23. CASE MarkPulse
    <2>1. DriverOK' /\ EnvOK'
      BY <1>23, WriteOffTyped, CoilTyped DEF MarkPulse
    <2>2. StoreOK' /\ FaultNamed(disk)' /\ FaultNamed(writer.record)'
      BY <1>23, <2>1, PersistTyped DEF MarkPulse, FaultNamed
    <2>3. ThreadOK' /\ AnswerDue'
      BY <1>23 DEF MarkPulse
    <2> QED
      BY <2>1, <2>2, <2>3
  <1>24. CASE OtherCoilStuck
    <2>1. DriverOK' /\ EnvOK'
      BY <1>24 DEF OtherCoilStuck, SetFault, Reasons
    <2>2. StoreOK' /\ FaultNamed(disk)' /\ FaultNamed(writer.record)'
      BY <1>24, <2>1, PersistTyped DEF OtherCoilStuck, FaultNamed, GiveUpPulse
    <2>3. ThreadOK' /\ AnswerDue'
      BY <1>24 DEF OtherCoilStuck, GiveUpPulse, AfterPulse, Outcomes
    <2> QED
      BY <2>1, <2>2, <2>3
  <1>25. CASE PulseNotSent
    <2>1. DriverOK' /\ EnvOK'
      BY <1>25 DEF PulseNotSent, CutShort, CoilWrites, WriteOff, Reasons
    <2>2. StoreOK' /\ FaultNamed(disk)' /\ FaultNamed(writer.record)'
      BY <1>25, <2>1, PersistTyped DEF PulseNotSent, CutShort, FaultNamed
    <2>3. ThreadOK' /\ AnswerDue'
      BY <1>25 DEF PulseNotSent, CutShort, Outcomes
    <2> QED
      BY <2>1, <2>2, <2>3
  <1>26. CASE PulseUnsupplied
    <2>1. DriverOK' /\ EnvOK'
      BY <1>26 DEF PulseUnsupplied, CutShort, Reasons
    <2>2. StoreOK' /\ FaultNamed(disk)' /\ FaultNamed(writer.record)'
      BY <1>26, <2>1, PersistTyped DEF PulseUnsupplied, CutShort, FaultNamed
    <2>3. ThreadOK' /\ AnswerDue'
      BY <1>26 DEF PulseUnsupplied, CutShort, Outcomes
    <2> QED
      BY <2>1, <2>2, <2>3
  <1>27. CASE PulseVouched
    <2>1. DriverOK' /\ EnvOK'
      BY <1>27 DEF PulseVouched, PositionOf, Positions
    <2>2. StoreOK' /\ FaultNamed(disk)' /\ FaultNamed(writer.record)'
      BY <1>27, <2>1, PersistTyped DEF PulseVouched, FaultNamed
    <2>3. ThreadOK' /\ AnswerDue'
      BY <1>27 DEF PulseVouched, Outcomes
    <2> QED
      BY <2>1, <2>2, <2>3
  <1>28. CASE RecordStop
    <2>1. DriverOK' /\ EnvOK'
      BY <1>28 DEF RecordStop
    <2>2. StoreOK' /\ FaultNamed(disk)' /\ FaultNamed(writer.record)'
      BY <1>28, <2>1, PersistTyped DEF RecordStop, FaultNamed
    <2>3. ThreadOK' /\ AnswerDue'
      BY <1>28 DEF RecordStop
    <2> QED
      BY <2>1, <2>2, <2>3
  <1>29. CASE Stopped
    <2>1. EnvOK'
      BY <1>29, DeathTyped DEF Stopped
    <2>2. DriverOK'
      BY <1>29 DEF Stopped, NoDriver
    <2>3. StoreOK' /\ FaultNamed(disk)' /\ FaultNamed(writer.record)'
      <3>1. Nothing \in [handed : BOOLEAN, record : Records] /\ FaultNamed(Nothing.record)
        BY DEF Nothing, NoRecord, Records, FaultNamed
      <3> QED
        BY <1>29, <3>1 DEF Stopped, FaultNamed
    <2>4. ThreadOK' /\ AnswerDue'
      BY <1>29 DEF Stopped, NoDriver, Outcomes
    <2> QED
      BY <2>1, <2>2, <2>3, <2>4
  <1>30. CASE Crash
    <2>1. EnvOK'
      BY <1>30, DeathTyped DEF Crash
    <2>2. DriverOK'
      BY <1>30 DEF Crash, NoDriver
    <2>3. StoreOK' /\ FaultNamed(disk)' /\ FaultNamed(writer.record)'
      <3>1. Nothing \in [handed : BOOLEAN, record : Records] /\ FaultNamed(Nothing.record)
        BY DEF Nothing, NoRecord, Records, FaultNamed
      <3> QED
        BY <1>30, <3>1 DEF Crash, FaultNamed
    <2>4. ThreadOK' /\ AnswerDue'
      BY <1>30 DEF Crash, NoDriver, Outcomes
    <2> QED
      BY <2>1, <2>2, <2>3, <2>4
  <1>31. CASE WriterLands
    <2>1. Nothing \in [handed : BOOLEAN, record : Records] /\ FaultNamed(Nothing.record)
      BY DEF Nothing, NoRecord, Records, FaultNamed
    <2>2. StoreOK' /\ FaultNamed(disk)' /\ FaultNamed(writer.record)'
      BY <1>31, <2>1 DEF WriterLands, DiskWrites, FaultNamed
    <2> QED
      BY <1>31, <2>2 DEF WriterLands
  <1>32. ASSUME NEW r \in ResetIds, ResetArrives(r) PROVE Inv'
    BY <1>32 DEF ResetArrives, FaultNamed, PositionOf, Positions, Answers
  <1>33. ASSUME NEW r \in ResetIds, ResetSeen(r) PROVE Inv'
    BY <1>33 DEF ResetSeen, FaultNamed, PositionOf, Positions, Answers
  <1>34. ASSUME NEW c \in Coils, CoilMoves(c) PROVE Inv'
    BY <1>34 DEF CoilMoves, FaultNamed, PositionOf, Positions, Answers
  <1>35. CASE UNCHANGED vars
    BY <1>35 DEF vars, FaultNamed
  <1> QED
    BY <1>1, <1>2, <1>3, <1>4, <1>5, <1>6, <1>7, <1>8, <1>9, <1>10, <1>11, <1>12, <1>13, <1>14, <1>15, <1>16, <1>17, <1>18, <1>19, <1>20, <1>21, <1>22, <1>23, <1>24, <1>25, <1>26, <1>27, <1>28, <1>29, <1>30, <1>31, <1>32, <1>33, <1>34, <1>35 DEF Next, Runtime, Start, Pass, Pulse, Stop

-----------------------------------------------------------------------------
(* The mark of a pulse: on disk from before its coil is on until after it  *)
(* is off, and nothing is handed to the writer while no process runs.      *)

Marked == {"mark", "energised", "retry_off", "read"}

MarkInv ==
  /\ pulse_mark = IF pc \in Marked THEN Coil ELSE "none"
  /\ pc \in {"down", "energised", "retry_off", "read"} => ~writer.handed
  /\ pc = "mark" /\ writer.handed => writer.record.pulse = Coil
  /\ pc = "mark" /\ ~writer.handed /\ wrote => disk.pulse = Coil
  /\ pc \in {"energised", "retry_off", "read"} => disk.pulse = Coil
  /\ pc = "down" => position = "none"

\* Before the first boot there is no record and no mark.
LEMMA InitMarkInv == Init => MarkInv
  BY DEF Init, MarkInv, Marked, NoRecord, Nothing

\* A pulse's mark is on disk from before its coil is on until the coil is off again.
LEMMA StepMarkInv == ASSUME Inv, MarkInv, [Next]_vars PROVE MarkInv'
  <1> USE DEF Inv, StoreOK, DriverOK, MarkInv, Marked, env, store, driver, thread
  <1>1. ASSUME NEW changed \in BOOLEAN, ColdLoad(changed) PROVE MarkInv'
    BY <1>1 DEF ColdLoad
  <1>2. CASE Loaded
    BY <1>2 DEF Loaded, Landed, SetFault
  <1>3. CASE Sample
    BY <1>3 DEF Sample
  <1>4. CASE StartPass
    BY <1>4 DEF StartPass, SetFault
  <1>5. CASE NoReset
    BY <1>5 DEF NoReset
  <1>6. CASE ResetRefused
    BY <1>6 DEF ResetRefused
  <1>7. CASE ResetNotInFault
    BY <1>7 DEF ResetNotInFault
  <1>8. CASE ResetPulse
    BY <1>8 DEF ResetPulse
  <1>9. CASE Blocks
    BY <1>9 DEF Blocks
  <1>10. CASE FlushNoPulse
    BY <1>10 DEF FlushNoPulse
  <1>11. CASE FlushStartClose
    BY <1>11 DEF FlushStartClose
  <1>12. CASE FlushPulse
    BY <1>12 DEF FlushPulse
  <1>13. CASE EndPass
    BY <1>13 DEF EndPass, Persist
  <1>14. CASE MarkPulse
    BY <1>14 DEF MarkPulse, Persist, ToState, Coil
  <1>15. CASE OtherCoilStuck
    BY <1>15 DEF OtherCoilStuck, GiveUpPulse, AfterPulse
  <1>16. CASE MarkNotRecorded
    BY <1>16 DEF MarkNotRecorded, GiveUpPulse, AfterPulse
  <1>17. CASE PulseBegins
    BY <1>17 DEF PulseBegins, Coil, Landed
  <1>18. CASE PulseEnds
    BY <1>18 DEF PulseEnds, Coil
  <1>19. CASE PulseNotSent
    BY <1>19 DEF PulseNotSent, CutShort
  <1>20. CASE PulseUnsupplied
    BY <1>20 DEF PulseUnsupplied, CutShort
  <1>21. CASE PulseVouched
    BY <1>21 DEF PulseVouched
  <1>22. CASE PulseRecorded
    BY <1>22 DEF PulseRecorded, AfterPulse
  <1>23. CASE StopInFault
    BY <1>23 DEF StopInFault
  <1>24. CASE StopUnsupplied
    BY <1>24 DEF StopUnsupplied
  <1>25. CASE StopPulse
    BY <1>25 DEF StopPulse
  <1>26. CASE RecordStop
    BY <1>26 DEF RecordStop
  <1>27. CASE Stopped
    BY <1>27 DEF Stopped, NoDriver, Landed
  <1>28. CASE WriterLands
    BY <1>28 DEF WriterLands, Coil, Nothing
  <1>29. CASE SupplyDrops
    BY <1>29 DEF SupplyDrops, Coil
  <1>30. CASE SupplyReturns
    BY <1>30 DEF SupplyReturns, Coil
  <1>31. CASE Crash
    BY <1>31 DEF Crash, NoDriver, Nothing
  <1>32. ASSUME NEW r \in ResetIds, ResetArrives(r) PROVE MarkInv'
    BY <1>32 DEF ResetArrives, Coil
  <1>33. ASSUME NEW r \in ResetIds, ResetSeen(r) PROVE MarkInv'
    BY <1>33 DEF ResetSeen, Coil
  <1>34. ASSUME NEW c \in Coils, CoilMoves(c) PROVE MarkInv'
    BY <1>34 DEF CoilMoves, Coil
  <1>35. CASE UNCHANGED vars
    BY <1>35 DEF vars, Coil
  <1> QED
    BY <1>1, <1>2, <1>3, <1>4, <1>5, <1>6, <1>7, <1>8, <1>9, <1>10, <1>11, <1>12, <1>13, <1>14, <1>15, <1>16, <1>17, <1>18, <1>19, <1>20, <1>21, <1>22, <1>23, <1>24, <1>25, <1>26, <1>27, <1>28, <1>29, <1>30, <1>31, <1>32, <1>33, <1>34, <1>35 DEF Next, Runtime, Start, Pass, Pulse, Stop

-----------------------------------------------------------------------------
(* Never both coils, when a death leaves on only a coil whose mark is on   *)
(* disk (UnmarkedKept = FALSE).  A line on is a coil not known off, or     *)
(* while no process runs the one the record names; one coil is always      *)
(* known off, and the other one is while a coil is pulsed.                 *)

CoilInv ==
  /\ pc = "down" => \A c \in Coils : coil_state[c] = "off" /\ (line[c] => disk.pulse = c)
  /\ pc # "down" => \A c \in Coils : line[c] => coil_state[c] = "unknown"
  /\ \E c \in Coils : coil_state[c] = "off"
  /\ pc \in {"mark", "energised", "retry_off"} => coil_state[Other(Coil)] = "off"
  /\ pc = "energised" => line[Coil]
  /\ pc = "read" => \A c \in Coils : coil_state[c] = "off"

\* Before the first boot no line is on and both coils are known off.
LEMMA InitCoilInv == ASSUME Init PROVE CoilInv
  BY DEF Init, CoilInv, Coils

\* No action energises a coil whose other one is not known to be off.
LEMMA StepCoilInv == ASSUME UnmarkedKept = FALSE, Inv, CoilInv, MarkInv, [Next]_vars PROVE CoilInv'
  <1> USE DEF Inv, EnvOK, DriverOK, CoilInv, env, store, driver, thread, Coils
  <1>1. ASSUME NEW changed \in BOOLEAN, ColdLoad(changed) PROVE CoilInv'
    BY <1>1 DEF ColdLoad, NoRecord
  <1>2. CASE Loaded
    BY <1>2 DEF Loaded
  <1>3. CASE Sample
    BY <1>3 DEF Sample
  <1>4. CASE StartPass
    BY <1>4 DEF StartPass
  <1>5. CASE NoReset
    BY <1>5 DEF NoReset
  <1>6. CASE ResetRefused
    BY <1>6 DEF ResetRefused
  <1>7. CASE ResetNotInFault
    BY <1>7 DEF ResetNotInFault
  <1>8. CASE ResetPulse
    BY <1>8 DEF ResetPulse
  <1>9. CASE Blocks
    BY <1>9 DEF Blocks
  <1>10. CASE FlushNoPulse
    BY <1>10 DEF FlushNoPulse, FlushCoilsOff, NotKnownOff
  <1>11. CASE FlushStartClose
    BY <1>11 DEF FlushStartClose, FlushCoilsOff, NotKnownOff
  <1>12. CASE FlushPulse
    BY <1>12 DEF FlushPulse, FlushCoilsOff, NotKnownOff
  <1>13. CASE EndPass
    BY <1>13 DEF EndPass
  <1>14. CASE MarkPulse
    BY <1>14 DEF MarkPulse, WriteOff, NotKnownOff, Coil, Other
  <1>15. CASE OtherCoilStuck
    BY <1>15 DEF OtherCoilStuck, GiveUpPulse, AfterPulse
  <1>16. CASE MarkNotRecorded
    BY <1>16 DEF MarkNotRecorded, GiveUpPulse, AfterPulse
  <1>17. CASE PulseBegins
    BY <1>17 DEF PulseBegins, Coil, Other
  <1>18. CASE PulseEnds
    BY <1>18 DEF PulseEnds, WriteOff, Coil, Other
  <1>19. CASE PulseNotSent
    BY <1>19 DEF PulseNotSent, WriteOff, CutShort, Coil, Other
  <1>20. CASE PulseUnsupplied
    BY <1>20 DEF PulseUnsupplied, CutShort
  <1>21. CASE PulseVouched
    BY <1>21 DEF PulseVouched
  <1>22. CASE PulseRecorded
    BY <1>22 DEF PulseRecorded, AfterPulse
  <1>23. CASE StopInFault
    BY <1>23 DEF StopInFault, StopCoilsOff, WriteOff, NotKnownOff
  <1>24. CASE StopUnsupplied
    BY <1>24 DEF StopUnsupplied, StopCoilsOff, WriteOff, NotKnownOff
  <1>25. CASE StopPulse
    BY <1>25 DEF StopPulse, StopCoilsOff, WriteOff, NotKnownOff
  <1>26. CASE RecordStop
    BY <1>26 DEF RecordStop
  <1>27. CASE Stopped
    BY <1>27 DEF Stopped, NoDriver, LinesAtDeath
  <1>28. CASE WriterLands
    BY <1>28 DEF WriterLands, Coil, MarkInv
  <1>29. CASE SupplyDrops
    BY <1>29 DEF SupplyDrops, Coil
  <1>30. CASE SupplyReturns
    BY <1>30 DEF SupplyReturns, Coil
  <1>31. CASE Crash
    BY <1>31 DEF Crash, NoDriver, LinesAtDeath
  <1>32. ASSUME NEW r \in ResetIds, ResetArrives(r) PROVE CoilInv'
    BY <1>32 DEF ResetArrives, Coil
  <1>33. ASSUME NEW r \in ResetIds, ResetSeen(r) PROVE CoilInv'
    BY <1>33 DEF ResetSeen, Coil
  <1>34. ASSUME NEW c \in Coils, CoilMoves(c) PROVE CoilInv'
    BY <1>34 DEF CoilMoves, Coil
  <1>35. CASE UNCHANGED vars
    BY <1>35 DEF vars, Coil
  <1> QED
    BY <1>1, <1>2, <1>3, <1>4, <1>5, <1>6, <1>7, <1>8, <1>9, <1>10, <1>11, <1>12, <1>13, <1>14, <1>15, <1>16, <1>17, <1>18, <1>19, <1>20, <1>21, <1>22, <1>23, <1>24, <1>25, <1>26, <1>27, <1>28, <1>29, <1>30, <1>31, <1>32, <1>33, <1>34, <1>35 DEF Next, Runtime, Start, Pass, Pulse, Stop


-----------------------------------------------------------------------------
(* The position vouched for is the valve's, under the same assumption.  A  *)
(* record that a start would vouch for is true and stays so, because no    *)
(* coil is on while it is on disk or on its way there.                     *)

Vouches(record) == record.clean /\ record.pulse = "none" /\ record.position \in Positions

Trusted(record) ==
  Vouches(record) => record.position = actual /\ \A c \in Coils : ~line[c]

VouchInv ==
  /\ fault # "none" => position = "none"
  /\ pc \notin {"energised", "retry_off"} /\ fault = "none" => \A c \in Coils : coil_state[c] = "off"
  /\ fault = "none" /\ pulse_mark = "none" => position \in {actual, "none"}
  /\ Trusted(disk) /\ (writer.handed => Trusted(writer.record))
  /\ pc = "read" /\ supply => actual = PositionOf(Coil)

\* Before the first boot nobody vouches for the valve.
LEMMA InitVouchInv == Init => VouchInv
  BY DEF Init, VouchInv, Trusted, Vouches, NoRecord, Nothing, Coils

\* A driver without a fault and without a mark stands for where the valve is, and so does every record
\* that is read back as trusted.
LEMMA StepVouchInv == ASSUME Inv, CoilInv, MarkInv, VouchInv, [Next]_vars PROVE VouchInv'
  <1> USE DEF Inv, EnvOK, StoreOK, DriverOK, CoilInv, MarkInv, Marked, VouchInv, Trusted, Vouches,
              env, store, driver, thread, Coils
  <1>1. ASSUME NEW changed \in BOOLEAN, ColdLoad(changed) PROVE VouchInv'
    <2>1. (writer.handed => Trusted(writer.record))' /\ Trusted(disk)'
      BY <1>1 DEF ColdLoad, Persist, ToState
    <2>2. CASE fault' = "none"
      <3>1. disk.pulse = "none" /\ disk.clean /\ disk.position \in Positions
        BY <1>1, <2>2 DEF ColdLoad, ColdReason, FaultNamed
      <3>2. position' = actual /\ \A c \in Coils : coil_state'[c] = "off"
        BY <1>1, <2>2, <3>1 DEF ColdLoad
      <3> QED
        BY <1>1, <2>1, <2>2, <3>2 DEF ColdLoad
    <2>3. CASE fault' # "none"
      BY <1>1, <2>1, <2>3 DEF ColdLoad
    <2> QED
      BY <2>2, <2>3
  <1>2. CASE Loaded
    BY <1>2 DEF Loaded, SetFault
  <1>3. CASE Sample
    BY <1>3 DEF Sample
  <1>4. CASE StartPass
    BY <1>4 DEF StartPass, SetFault
  <1>5. CASE NoReset
    BY <1>5 DEF NoReset
  <1>6. CASE ResetRefused
    BY <1>6 DEF ResetRefused
  <1>7. CASE ResetNotInFault
    BY <1>7 DEF ResetNotInFault
  <1>8. CASE ResetPulse
    BY <1>8 DEF ResetPulse
  <1>9. CASE Blocks
    BY <1>9 DEF Blocks
  <1>10. CASE FlushNoPulse
    BY <1>10 DEF FlushNoPulse, FlushCoilsOff, NotKnownOff
  <1>11. CASE FlushStartClose
    BY <1>11 DEF FlushStartClose, FlushCoilsOff, NotKnownOff
  <1>12. CASE FlushPulse
    BY <1>12 DEF FlushPulse, FlushCoilsOff, NotKnownOff
  <1>13. CASE EndPass
    BY <1>13 DEF EndPass, Persist, ToState
  <1>14. CASE MarkPulse
    BY <1>14 DEF MarkPulse, WriteOff, NotKnownOff, Persist, ToState
  <1>15. CASE OtherCoilStuck
    BY <1>15 DEF OtherCoilStuck, SetFault, GiveUpPulse, AfterPulse, Persist, ToState
  <1>16. CASE MarkNotRecorded
    BY <1>16 DEF MarkNotRecorded, SetFault, GiveUpPulse, AfterPulse
  <1>17. CASE PulseBegins
    BY <1>17 DEF PulseBegins, Coil, Landed
  <1>18. CASE PulseEnds
    BY <1>18 DEF PulseEnds, WriteOff, Coil, Other, Moves, PositionOf
  <1>19. CASE PulseNotSent
    BY <1>19 DEF PulseNotSent, WriteOff, CutShort, Persist, ToState, Coil
  <1>20. CASE PulseUnsupplied
    BY <1>20 DEF PulseUnsupplied, CutShort, Persist, ToState
  <1>21. CASE PulseVouched
    BY <1>21 DEF PulseVouched, Persist, ToState, ReadSupply, Sense, Positions, PositionOf
  <1>22. CASE PulseRecorded
    BY <1>22 DEF PulseRecorded, AfterPulse
  <1>23. CASE StopInFault
    BY <1>23 DEF StopInFault, StopCoilsOff, WriteOff
  <1>24. CASE StopUnsupplied
    BY <1>24 DEF StopUnsupplied, StopCoilsOff, WriteOff, SetFault
  <1>25. CASE StopPulse
    BY <1>25 DEF StopPulse, StopCoilsOff, WriteOff
  <1>26. CASE RecordStop
    BY <1>26 DEF RecordStop, Persist, ToState, Positions
  <1>27. CASE Stopped
    BY <1>27 DEF Stopped, NoDriver, LinesAtDeath
  <1>28. CASE WriterLands
    BY <1>28 DEF WriterLands, Nothing
  <1>29. CASE SupplyDrops
    BY <1>29 DEF SupplyDrops, Coil
  <1>30. CASE SupplyReturns
    BY <1>30 DEF SupplyReturns, Coil
  <1>31. CASE Crash
    BY <1>31 DEF Crash, NoDriver, LinesAtDeath, Nothing
  <1>32. ASSUME NEW r \in ResetIds, ResetArrives(r) PROVE VouchInv'
    BY <1>32 DEF ResetArrives, Coil, PositionOf
  <1>33. ASSUME NEW r \in ResetIds, ResetSeen(r) PROVE VouchInv'
    BY <1>33 DEF ResetSeen, Coil, PositionOf
  <1>34. ASSUME NEW c \in Coils, CoilMoves(c) PROVE VouchInv'
    BY <1>34 DEF CoilMoves, Coil, PositionOf
  <1>35. CASE UNCHANGED vars
    BY <1>35 DEF vars, Coil, PositionOf
  <1> QED
    BY <1>1, <1>2, <1>3, <1>4, <1>5, <1>6, <1>7, <1>8, <1>9, <1>10, <1>11, <1>12, <1>13, <1>14, <1>15, <1>16, <1>17, <1>18, <1>19, <1>20, <1>21, <1>22, <1>23, <1>24, <1>25, <1>26, <1>27, <1>28, <1>29, <1>30, <1>31, <1>32, <1>33, <1>34, <1>35 DEF Next, Runtime, Start, Pass, Pulse, Stop


-----------------------------------------------------------------------------
(* The theorems.                                                           *)

\* Every variable keeps its type, whatever fails and however often the process dies.
THEOREM TypeCorrect == Spec => []TypeOK
  <1>1. Inv => TypeOK
    BY DEF Inv, TypeOK
  <1> QED
    BY <1>1, InitInv, StepInv, PTL DEF Spec

\* The open and the close coil are never energised together, when a coil left on by a death is one whose
\* mark is on disk.
THEOREM NeverBothCoilsHolds == ASSUME UnmarkedKept = FALSE PROVE Spec => []NeverBothCoils
  <1>1. Init => Inv /\ CoilInv /\ MarkInv
    BY InitInv, InitCoilInv, InitMarkInv
  <1>2. Inv /\ CoilInv /\ MarkInv /\ [Next]_vars => (Inv /\ CoilInv /\ MarkInv)'
    BY StepInv, StepCoilInv, StepMarkInv
  <1>3. CoilInv => NeverBothCoils
    BY DEF CoilInv, NeverBothCoils, Coils
  <1> QED
    BY <1>1, <1>2, <1>3, PTL DEF Spec

AllInv == Inv /\ CoilInv /\ MarkInv /\ VouchInv

\* The four invariants together hold in every reachable state.
LEMMA AllInvHolds == ASSUME UnmarkedKept = FALSE PROVE Spec => []AllInv
  <1>1. Init => AllInv
    BY InitInv, InitCoilInv, InitMarkInv, InitVouchInv DEF AllInv
  <1>2. AllInv /\ [Next]_vars => AllInv'
    BY StepInv, StepCoilInv, StepMarkInv, StepVouchInv DEF AllInv
  <1> QED
    BY <1>1, <1>2, PTL DEF Spec

\* Where they hold, a vouched position is the valve's.
LEMMA VouchedTrueOfInv == AllInv => VouchedIsTrue
  BY DEF AllInv, Inv, EnvOK, DriverOK, MarkInv, VouchInv, Trusted, Vouches, Vouched, VouchedIsTrue, Positions

\* A position the node vouches for is where the valve stands: for any resets, with coil writes and
\* state-file writes that fail, a supply that comes and goes, and a crash between any two steps.
THEOREM VouchedIsTrueHolds == ASSUME UnmarkedKept = FALSE PROVE Spec => []VouchedIsTrue
  BY AllInvHolds, VouchedTrueOfInv, PTL

\* The valve moves only while nobody vouches for it.
LEMMA MovesUnvouched ==
  ASSUME AllInv, AllInv', [Next]_vars, actual' # actual
  PROVE  Vouched = "none" /\ Vouched' = "none"
  <1> USE DEF AllInv, Inv, EnvOK, StoreOK, DriverOK, CoilInv, MarkInv, Marked, VouchInv, Trusted, Vouches,
              env, store, driver, thread
  <1>1. PulseEnds \/ \E c \in Coils : CoilMoves(c)
    BY DEF Next, Runtime, Start, Pass, Pulse, Stop, vars, ColdLoad, Loaded, Sample, StartPass, NoReset,
           ResetRefused, ResetNotInFault, ResetPulse, Blocks, FlushNoPulse, FlushStartClose, FlushPulse,
           EndPass, MarkPulse, OtherCoilStuck, MarkNotRecorded, PulseBegins, PulseNotSent,
           PulseUnsupplied, PulseVouched, PulseRecorded, StopInFault, StopUnsupplied, StopPulse,
           RecordStop, Stopped, WriterLands, SupplyDrops, SupplyReturns, Crash, ResetArrives, ResetSeen
  <1>2. CASE PulseEnds
    BY <1>2 DEF PulseEnds, Vouched, Coil
  <1>3. ASSUME NEW c \in Coils, CoilMoves(c) PROVE Vouched = "none" /\ Vouched' = "none"
    BY <1>3 DEF CoilMoves, Vouched, Coil, Coils
  <1> QED
    BY <1>1, <1>2, <1>3

\* The driver implements VouchedValve: it withdraws its word before the valve can move, and gives it again
\* only where the valve stands.
THEOREM ImplementsVouchedValve == ASSUME UnmarkedKept = FALSE PROVE Spec => VouchedValveSpec
  <1>1. Init => Abstract!Init
    BY DEF Init, Abstract!Init, Vouched, NoRecord, Positions
  <1>0. AllInv' => VouchedIsTrue'
    BY VouchedTrueOfInv, PTL
  <1>2. AllInv /\ AllInv' /\ [Next]_vars => [Abstract!Next]_<<Vouched, actual>>
    <2> SUFFICES ASSUME AllInv, AllInv', [Next]_vars PROVE [Abstract!Next]_<<Vouched, actual>>
      OBVIOUS
    <2>1. VouchedIsTrue /\ VouchedIsTrue'
      BY <1>0, VouchedTrueOfInv
    <2>2. actual \in Positions /\ actual' \in Positions
      BY DEF AllInv, Inv, EnvOK
    <2>3. CASE actual' # actual
      BY <2>2, <2>3, MovesUnvouched DEF Abstract!Next, Abstract!Move, Positions
    <2>4. CASE actual' = actual
      BY <2>1, <2>4 DEF VouchedIsTrue, Abstract!Next, Abstract!Withdraw, Abstract!Vouch
    <2> QED
      BY <2>3, <2>4
  <1> QED
    BY <1>1, <1>2, AllInvHolds, PTL DEF Spec, VouchedValveSpec, Abstract!Spec

============================================================================
