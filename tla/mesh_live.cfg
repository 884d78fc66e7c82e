SPECIFICATION FairSpec
\* The operators stop choosing to act and every thread ends: the system may rest.
CHECK_DEADLOCK FALSE
CONSTANTS
  h = h
  a = a
  b = b
  Host = h
  Joiners <- Two
  NoLink = NoLink
  MaxTries = 2
  MaxApprovers = 2
  Leavers <- OnlyA
  Crashers <- HAndB
  MaxDepartures = 1
  Fragile <- LinkA
INVARIANTS
  ConnectedOnlyIfApproved
  RosterIsApproved
PROPERTIES
  DepartureIsNoticed
  DialEnds
