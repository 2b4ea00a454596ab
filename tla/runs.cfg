SPECIFICATION Spec
CONSTANTS
  LayoutOrder <- OneField
  SidOrder <- TwoSids
  Outs = {"v1", "v2", "v3"}
  Latching = {"v1"}
  HandOuts = {"v1", "v3"}
  Plan <- FieldPlan
  FirstPrograms = {"p1", "p3"}
  Day = 4
  ResumeAfter = 1
  Behind = 2
  Horizon = 6
  MaxOutage = 2
  MaxTroubles = 2
  MaxQueue = 1
  Troubles <- AllTroubles
INVARIANTS
  NeverTooMuch
  TypeOK
  ValvesFollowRuns
  EndsAreTold
CHECK_DEADLOCK FALSE
