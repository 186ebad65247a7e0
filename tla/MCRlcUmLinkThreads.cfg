SPECIFICATION LinkSpec
CONSTANTS
  SnModulo = 4
  WindowSize = 2
  T_Reordering = 5
  Threads = {t1, t2}
  RxThreads = {t1}
  Pdus = {}
  SduMaxSize = 2
  MaxLi = 24
  NoPdu = NoPdu
  NoThread = NoThread
  SduSizes <- MCSduSizes
  TxSnLengths = {5}
  TxSduSizes = {1, 2}
  Grants = {2}
  MaxQueued = 3
INVARIANTS NotDeliveredBefore
CHECK_DEADLOCK FALSE
