SPECIFICATION TimerSpec
CONSTANTS
  IntModulo = 32
  FrameModulo = 9
  TimeOut = 4
  Skew = 1
  MaxElapsed = 7
INVARIANT NeverEarly
CHECK_DEADLOCK TRUE
