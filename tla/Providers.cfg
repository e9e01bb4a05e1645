\* The caches of the daemon, one at a time.
SPECIFICATION MCSpec
CONSTANTS
  c1 = c1  c2 = c2  None = None
  Callers = {c1, c2}
  MaxRev = 2
  k1 = k1  k2 = k2  r = r
  Keys = {k1, k2}
  Values = {1, 2}
  Slots = 1
  Readers = {r}
  MaxWrites = 3
  a = a  b = b  s = s
  Items = {a, b}
  Stores = {1, 2}
  KindOf <- MCKindOf
  Subs = {s}
  SubItem <- MCSubItem
INVARIANTS AllTypeOK StampedIsEnriched NoHardUnknown CatchesUp Told
\* The tmux part ends with the daemon when a send panics.
CHECK_DEADLOCK FALSE
