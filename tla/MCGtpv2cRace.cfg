SPECIFICATION GtpSpec
CONSTANTS
  MaxRequests = 2
  T3 = 3
  N3 = 2
  Latency = 1
  Coincide = FALSE
  NoTimer = NoTimer
INVARIANTS TimerStops
CHECK_DEADLOCK FALSE
