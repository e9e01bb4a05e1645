SPECIFICATION Spec
CONSTANTS
  c1 = c1
  c2 = c2
  Calls = {c1, c2}
  MaxGen = 2
  Events = {"next", "error", "complete", "ping", "close"}
  BufCap = 1
  Closer = Closer
  Nobody = Nobody
INVARIANTS
  CloseTearsDown
CHECK_DEADLOCK FALSE
