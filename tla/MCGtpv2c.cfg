SPECIFICATION GtpSpec
CONSTANTS
  MaxRequests = 2
  T3 = 3
  N3 = 2
  Latency = 1
  Coincide = FALSE
  NoTimer = NoTimer
INVARIANTS TimersServed TransactionsTimed OneOutcome LateByLessThanT3
PROPERTIES EveryRequestEnds
CHECK_DEADLOCK FALSE
