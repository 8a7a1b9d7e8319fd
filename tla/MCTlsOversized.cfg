SPECIFICATION Spec
CONSTANTS
  NoProc = NoProc
  g1 = g1
  g2 = g2
  Proc = {g1, g2}
  Modes <- ServerModes
  Ops = {"read", "write"}
  Arrivals = {"data", "huge"}
  MaxCalls = 2
  MaxRecords = 1
  MaxUseless = 1
SYMMETRY Interchangeable
INVARIANTS
  RecordsInOrder
