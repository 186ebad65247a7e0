SPECIFICATION RxSpec
CONSTANTS
  SnModulo = 8
  WindowSize = 4
  PduSize = 1
  RxGrants <- MCGrants
  MaxPdus = 11
  MaxMisplaced = 5
  SoEnd = 9
INVARIANT InSequence
CHECK_DEADLOCK FALSE
