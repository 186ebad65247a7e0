SPECIFICATION TxSpec
CONSTANTS
  TxSnLengths = {5, 10}
  TxSduSizes <- MCSizes
  Grants <- MCGrants
  MaxQueued = 4
INVARIANTS OccupancyIsExact PduFits FiveBitExact PassesAgree GrantIsUsed
PROPERTIES SendsSomething
CHECK_DEADLOCK TRUE
