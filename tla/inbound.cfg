SPECIFICATION InboundSpec
\* Callers stop calling and the clock ends.
CHECK_DEADLOCK FALSE
CONSTANTS
  p = p
  q = q
  Poke = Poke
  Nobody = Nobody
  Sources <- Pair
  PerSource = 2
  Global = 3
  Window = 2
  MaxTime = 3
  MaxLog = 4
  Backlog = 1
  MaxDials = 4
INVARIANTS
  WithinBudget
  RefusedOnlyWhenSpent
PROPERTIES
  LeavingIsQuiet
  LeaveEndsTheLoop
