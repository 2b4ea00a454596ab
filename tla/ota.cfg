SPECIFICATION FairSpec
CONSTANTS
  MaxVersion = 2
  MaxCuts = 2
  PipTimeout = 2
  VerifyDeadline = 1
  ProbationDeadline = 2
INVARIANTS
  SettledGood
  TypeOK
  NeverUnderInstall
PROPERTIES
  DoubtEndsWell
CHECK_DEADLOCK FALSE
