SPECIFICATION LinkSpec
CONSTANTS
  SnModulo = 6
  WindowSize = 3
  NbSdus = 3
  HeaderSize = 1
  SegmentHeader = 1
  MinSegment = 2
  PollPdu = 2
  MaxRetx = 100
  SoEnd = 9
  RetxMax = 127
  SduSizes <- MCSizes
  Grants <- MCGrants
  MaxSdus = 4
  Reordering = FALSE
  MaxReports = 1
  MaxCount = 0
  MaxAfter = 2
INVARIANTS ReportsAreHeard
CHECK_DEADLOCK FALSE
