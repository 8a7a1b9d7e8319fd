CONSTANTS
  Goroutines = {g1}
  Jobs = {"serve"}
  MaxKeys = 4
  None = None
SPECIFICATION KeysSpec
INVARIANT KeysStaySet
CHECK_DEADLOCK FALSE
