SPECIFICATION Spec
CONSTANTS
  MaxEvents = 3
  EventCap = 2
  Burst = 1
  MaxReadings = 3
  Urgent = {2}
  MaxRows = 2
  FileRows = 2
  BatchRows = 2
  MaxAged = 1
  MaxUnpruned = 1
  MaxDowns = 1
  MaxReports = 4
  OutboxCap = 2
  CardAssets = {"a1", "a2"}
  CardKeys = {"k"}
  MaxChanges = 3
  CardBurst = 1
  MaxSamples = 3
  MaxDelay = 1
  Skews <- ThreeSkews
  ClockTime = 2
  MaxSlews = 1
  MaxRounds = 1
  MaxSilences = 2
  MaxDrops = 1
  CountRead = {TRUE}
  Diagnoses <- TwoDiagnoses
  Adapters = {"wlan0", "wlan1"}
  Beats <- TwoBeats
  b1 = b1
  b2 = b2
  MaxPauses = 3
  ConfirmTicks = 2
  InrushTicks = 1
  LearnTicks = 1
  MaxCommands = 3
INVARIANTS
  TypesOK
  NothingLostOrMixed
  NodeKnows
PROPERTIES
  NoStepBack
  AllSettle
CHECK_DEADLOCK FALSE
