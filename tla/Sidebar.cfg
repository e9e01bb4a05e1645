\* The sidebar's lanes and its selection, one at a time.
SPECIFICATION MCSpec
CONSTANTS
  s1 = s1  s2 = s2  s3 = s3
  Sessions = {s1, s2, s3}
  NoSession = NoSession
  Unread = Unread
  MaxMoves = 3
  MaxEvents = 4
  MaxFetches = 2
  Down = Down
  NoRows = NoRows
INVARIANTS AllTypeOK
PROPERTIES StaleReadIgnored NewestWins ScreenSettles
