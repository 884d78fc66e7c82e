SPECIFICATION Spec
\* An attempt to join ends.
CHECK_DEADLOCK FALSE
CONSTANTS
  Addresses <- SampleAddresses
  Strays <- SampleStrays
  MaxSlips = 2
INVARIANTS
  LookAlikesAreHeard
