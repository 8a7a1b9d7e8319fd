SPECIFICATION Spec
CONSTANTS
  NoProc = NoProc
  g1 = g1
  g2 = g2
  Proc = {g1, g2}
  Modes <- AllModes
  Ops = {"read", "write", "close", "closeWrite", "handshake"}
  Arrivals = {"ticket", "update", "updateReq", "helloReq", "other", "half", "malformed", "data", "empty", "warning", "ccs", "closeNotify", "error", "bad"}
  MaxCalls = 2
  MaxRecords = 2
  MaxUseless = 1
SYMMETRY Interchangeable
INVARIANTS
  LockDiscipline
  NoInversion
  ActiveCallCounts
  RecordsInOrder
  ShutsDown
  KeysInStep
PROPERTIES
  ImplementsStream
