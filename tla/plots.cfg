SPECIFICATION Spec
CONSTANTS
  Cards = {"pump", "v1", "v2"}
  Lines = {"l0", "l1", "l2", "l3"}
  Program <- ThreePrograms
  FirstProgram = "p1"
  Sids = {"s1", "s2"}
  RuleIds = {"boot", "alarm", "pump", "max"}
  Day = 4
  ResumeWithin = 1
  Behind = 1
  Horizon = 4
  MaxTroubles = 3
  Troubles <- AllTroubles
  RunTimes = {1}
  HandCards = {"v1"}
  WeakLines = {"l1"}
  ReloadsMeet = FALSE
INVARIANTS
  TypeOK
  ValvesFollowRuns
  RunsEndAsStarted
  LinesFollowCards
CHECK_DEADLOCK FALSE
