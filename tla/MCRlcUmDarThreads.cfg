SPECIFICATION LiveSpec
CONSTANTS
  SnModulo = 4
  WindowSize = 2
  T_Reordering = 5
  Threads = {t1, t2}
  RxThreads = {t1, t2}
  Pdus <- MCPdus
  SduMaxSize = 2
  MaxLi = 24
  NoPdu = NoPdu
  NoThread = NoThread
INVARIANTS LockGuards
PROPERTIES LockReleased
CHECK_DEADLOCK TRUE
