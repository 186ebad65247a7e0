SPECIFICATION RxSpec
CONSTANTS
  SnModulo = 6
  WindowSize = 3
  PduSize = 3
  RxGrants <- MCGrants
  MaxPdus = 8
  MaxMisplaced = 1
  SoEnd = 9
INVARIANTS RxTypeOK OrderKept StatusIsTruthful NacksAreMissing
CHECK_DEADLOCK FALSE
