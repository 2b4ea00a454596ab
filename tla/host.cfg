SPECIFICATION FairSpec
CONSTANTS
  MaxVersion = 3
  MayCrash = TRUE
INVARIANTS
  TypeOK
  NothingLeftBehind
PROPERTIES
  ProgramRuns
  StopsHold
  StartsAlone
