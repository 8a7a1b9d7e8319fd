SPECIFICATION FairSpec
CONSTANTS
  NoProc = NoProc
  g1 = g1
  g2 = g2
  Proc = {g1, g2}
  Modes <- ServerModes
  Ops = {"read", "handshake"}
  Arrivals = {"data", "warning"}
  MaxCalls = 2
  MaxRecords = 3
  MaxUseless = 1
PROPERTIES
  DataIsReturned
