SPECIFICATION PdcpSpec
CONSTANTS
  SnModulo = 8
  Window = 4
  SnWidth = 128
  Bearers = {"srb", "um", "um7", "am", "gtpu"}
  MaxHfn = 3
  MaxFlight = 3
INVARIANTS InStep AgreeUntilCrossed NoneRefused
CHECK_DEADLOCK FALSE
