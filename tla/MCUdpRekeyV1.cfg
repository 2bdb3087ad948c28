SPECIFICATION Spec
CONSTANTS
  V2 = FALSE
  Zeroed = Zeroed
  None = None
  MaxEpoch = 3
  Capacity = 3
INVARIANTS
  EpochInv
  KeyAgreement
  SendEpochOpensAtPeer
  EncryptNeverFallsBack
  OneEpochPerRequest
PROPERTIES
  ImplementsHandover
