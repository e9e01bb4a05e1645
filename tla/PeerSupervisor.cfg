SPECIFICATION MCFairSpec
CONSTANTS
  p = p
  a = a
  b = b
  Peers = {p}
  Addrs = {a, b}
  Absent = Absent
  Torn = Torn
  Configs <- MCConfigs
  Workers = {1, 2, 3, 4}
  MaxEdits = 3
INVARIANTS
  TypeOK
  OneWorkerPerPeer
CHECK_DEADLOCK FALSE
PROPERTIES
  ConfigApplied
  UpIsShown
  StopReturns
