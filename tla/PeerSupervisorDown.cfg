SPECIFICATION MCFairSpec
CONSTANTS
  p = p
  a = a
  Peers = {p}
  Addrs = {a}
  Absent = Absent
  Torn = Torn
  Configs <- MCConfigs
  Workers = {1, 2}
  MaxEdits = 1
CHECK_DEADLOCK FALSE
PROPERTIES
  DownIsShown
