SPECIFICATION TimerSpec
CONSTANTS
  IntModulo = 32
  FrameModulo = 9
  TimeOut = 4
  Skew = 1
  MaxElapsed = 7
INVARIANTS TimerTypeOK NeverEarlyUnwrapped NeverLate
CHECK_DEADLOCK TRUE
