SPECIFICATION LiveSpec
CONSTANTS
  SnModulo = 8
  WindowSize = 4
  T_Reordering = 5
  Threads = {t1}
  RxThreads = {t1}
  Pdus <- MCPdus
  SduMaxSize = 2
  MaxLi = 24
  NoPdu = NoPdu
  NoThread = NoThread
INVARIANTS TypeOK WindowConsistent GapIsTimed WindowInvariant
PROPERTIES Forward EventuallyReassembled
CHECK_DEADLOCK TRUE
