SPECIFICATION Spec
CONSTANTS
  MaxVersion = 1
  MaxCuts = 1
  PipTimeout = 2
  VerifyDeadline = 1
  ProbationDeadline = 2
PROPERTIES
  NotOverwritten
CHECK_DEADLOCK FALSE
