SPECIFICATION FairSpec
CONSTANTS
  Lockout = 1
  ResumeAfter = 1
  Clocks <- UnprovenClocks
  Unreadable <- NoneFails
  MotorWriteMayFail = FALSE
  Deaths = 1
PROPERTIES
  RunResumes
