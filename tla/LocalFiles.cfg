\* Programs that meet in files, one file at a time.
SPECIFICATION MCSpec
CONSTANTS
  Panes <- MCPanes
  CrashBound = 1
  MaxLog = 5
  MaxUnlogged = 1
  o = o
  Others = {o}
  MaxSize = 3
  MaxLines = 5
  MaxGens = 3
  s = s  t = t  a = a  Torn = Torn
  Subs = {s, t}
  Clis = {a}
  MaxWrites = 4
INVARIANTS AllTypeOK RestartsBounded DeadIsAttended ToldOnce NoneSkipped AloneAtomic
\* Every bound on events is reached, and nothing happens after it.
CHECK_DEADLOCK FALSE
