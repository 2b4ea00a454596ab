SPECIFICATION Spec
CONSTANTS
  LayoutOrder <- OneField
  SidOrder <- TwoSids
  Outs = {"v1", "v2", "v3"}
  Latching = {"v1"}
  HandOuts = {}
  Plan <- UnevenPlan
  FirstPrograms = {"p1"}
  Day = 4
  ResumeAfter = 1
  Behind = 2
  Horizon = 6
  MaxOutage = 3
  MaxTroubles = 1
  MaxQueue = 1
  Troubles <- SupplyOnly
INVARIANT OthersKeepOpen
CHECK_DEADLOCK FALSE
