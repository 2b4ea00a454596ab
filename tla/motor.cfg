SPECIFICATION Spec
CONSTANTS
  Lockout = 1
  ResumeAfter = 1
  Clocks <- AnyClock
  Unreadable <- AnyMayFail
  MotorWriteMayFail = TRUE
  Deaths = 1
INVARIANTS
  TypeOK
  NoForgottenMotor
PROPERTIES
  StartsAllowed
