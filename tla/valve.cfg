SPECIFICATION FairSpec
CONSTANTS
  ResetIds <- TwoResets
  r1 = r1
  r2 = r2
  CoilWriteMayFail = TRUE
  DiskMayFail = TRUE
  UnmarkedKept = FALSE
INVARIANTS
  TypeOK
  VouchedIsTrue
  NeverBothCoils
PROPERTIES
  NothingLeftUndone
  PulsesAllowed
  VouchedValveSpec
