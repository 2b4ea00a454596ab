SPECIFICATION Spec
CONSTANTS
  Cards = {"pump", "v1", "v2"}
  Lines = {"l0", "l1", "l2", "l3"}
  Program <- ThreePrograms
  FirstProgram = "p1"
  Sids = {"s1", "s2"}
  RuleIds = {"boot", "alarm", "pump", "max"}
  Day = 4
  ResumeWithin = 1
  Behind = 1
  Horizon = 5
  MaxTroubles = 3
  Troubles = {"runPlot", "reload"}
  RunTimes = {1}
  HandCards = {"v1"}
  WeakLines = {"l1"}
  ReloadsMeet = TRUE
INVARIANT RemovedRunsClose
CHECK_DEADLOCK FALSE
