SPECIFICATION LinkSpec
CONSTANTS
  SnModulo = 4
  WindowSize = 2
  T_Reordering = 5
  Threads = {t1}
  RxThreads = {t1}
  Pdus = {}
  SduMaxSize = 2
  MaxLi = 24
  NoPdu = NoPdu
  NoThread = NoThread
  SduSizes <- MCSduSizes
  TxSnLengths = {5}
  TxSduSizes = {1, 2}
  Grants <- MCGrants
  MaxQueued = 3
INVARIANTS StoredIsDelivered
PROPERTIES ImplementsService
CHECK_DEADLOCK FALSE
