SPECIFICATION Spec
\* The operators stop choosing to act and every thread ends: the system may rest.
CHECK_DEADLOCK FALSE
SYMMETRY Symmetry
CONSTANTS
  h = h
  a = a
  b = b
  Host = h
  Joiners <- Two
  NoLink = NoLink
  MaxTries = 2
  MaxApprovers = 1
  Leavers <- All
  Crashers <- All
  MaxDepartures = 1
  Fragile <- FirstDials
INVARIANTS
  TypeOK
  LeftMeansEmpty
  AnswerComesFirst
  MeshIsSymmetric
  NothingDangles
  StatusIsTrue
  HostRosterIsTrue
  AnnouncedBeforeDial
  EveryPairMeets
