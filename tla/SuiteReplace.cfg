\* Two binaries, two releases, one upgrade after another.
SPECIFICATION MCSpec
CONSTANTS
  N = 2
  MaxFiles = 3
  Versions = {v1, v2}
  Torn = Torn
  NoFile = NoFile
  NotRegular = NotRegular
  Upgraders = {u1}
  Faults = {"read", "install", "undo", "kill", "power"}
  FaultsWithoutLinks = {"read", "link", "copy", "install", "undo", "kill"}
SYMMETRY VersionSymmetry
INVARIANTS
  TypeOK
  WholeBinaries
  SuccessInstalls
  FailureRestores
  OldVersionSurvives
  HelpersFirst
PROPERTIES
  NeverMissing
