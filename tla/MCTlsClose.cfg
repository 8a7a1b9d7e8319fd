SPECIFICATION FairSpec
CONSTANTS
  NoProc = NoProc
  g1 = g1
  g2 = g2
  g3 = g3
  Proc = {g1, g2, g3}
  Modes <- ServerModes
  Ops = {"read", "write", "close"}
  Arrivals = {"data", "updateReq", "huge"}
  MaxCalls = 1
  MaxRecords = 2
  MaxUseless = 1
PROPERTIES
  CloseFreesCalls
