SPECIFICATION TxSpec
CONSTANTS
  TxSnLengths = {10}
  TxSduSizes <- MCSizes
  Grants <- MCGrants
  MaxQueued = 4
INVARIANTS NoStrayBytes
CHECK_DEADLOCK TRUE
