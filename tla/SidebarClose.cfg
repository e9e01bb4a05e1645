\* The sidebar's selection alone, up to one gesture.
SPECIFICATION Spec
CONSTANTS
  s1 = s1  s2 = s2  s3 = s3
  Sessions = {s1, s2, s3}
  NoSession = NoSession
  Unread = Unread
  MaxMoves = 1
PROPERTIES SwitchedBeforeKill
