SPECIFICATION Spec
\* Every thread may have sent what it had to.
CHECK_DEADLOCK FALSE
CONSTANTS
  u = u
  v = v
  w = w
  Nobody = Nobody
  Threads <- Three
  Home <- Here
  Sends = 2
  Pieces = 2
  Room = 1
  MayReply <- Both
  MayClose <- Neither
INVARIANTS
  AlwaysDraining
