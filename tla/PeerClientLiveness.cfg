SPECIFICATION FairSpec
CONSTANTS
  c1 = c1
  c2 = c2
  Calls = {c1, c2}
  MaxGen = 2
  Events = {"ping"}
  BufCap = 1
  Closer = Closer
  Nobody = Nobody
PROPERTIES
  SubscribeReturns
  LossEndsStreams
  CancelEndsStream
CHECK_DEADLOCK FALSE
