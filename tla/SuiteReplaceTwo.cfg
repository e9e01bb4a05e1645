SPECIFICATION Spec
CONSTANTS
  N = 1
  MaxFiles = 4
  Versions = {v1, v2}
  Torn = Torn
  NoFile = NoFile
  NotRegular = NotRegular
  Upgraders = {u1, u2}
  Faults = {}
INVARIANTS
  WholeBinaries
