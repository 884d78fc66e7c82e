SPECIFICATION SessionSpec
\* Every thread may have sent what it had to.
CHECK_DEADLOCK FALSE
CONSTANTS
  u = u
  v = v
  w = w
  Nobody = Nobody
  Threads <- Three
  Home <- Here
  Sends = 1
  Pieces = 2
  Room = 1
  MayReply <- OnlyLeft
  MayClose <- Both
  MayStall <- Both
  Limit = 1
  Reads = 2
INVARIANTS
  NeverGarbled
  EverythingArrives
  NobodyIsLeftHalfway
  WaitIsBounded
