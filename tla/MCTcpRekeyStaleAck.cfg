SPECIFICATION Spec
CONSTANTS
  V2 = FALSE
  Zeroed = Zeroed
  None = None
  MaxEpoch = 2
  SlowLink = TRUE
  MaxInFlight = 3
INVARIANTS
  ConsideredAckAnswersPending
