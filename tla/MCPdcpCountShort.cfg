SPECIFICATION PdcpSpec
CONSTANTS
  SnModulo = 8
  Window = 4
  SnWidth = 128
  Bearers = {"um7"}
  MaxHfn = 3
  MaxFlight = 3
INVARIANT CountsAgree
CHECK_DEADLOCK FALSE
