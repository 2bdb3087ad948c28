SPECIFICATION FairSpec
CONSTANTS
  V2 = TRUE
  Zeroed = Zeroed
  None = None
  MaxEpoch = 1
  Capacity = 3
INVARIANTS
  InitAnswerable
PROPERTIES
  RekeysComplete
