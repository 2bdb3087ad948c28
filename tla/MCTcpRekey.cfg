SPECIFICATION LinkSpec
CONSTANTS
  V2 = FALSE
  Zeroed = Zeroed
  None = None
  MaxEpoch = 3
  SlowLink = FALSE
  MaxInFlight = 3
  WintunSession = {w1, w2}
  NoSession = NoSession
INVARIANTS
  EpochsOutliveFrames
  ControlPlaneMatchesCrypto
  
PROPERTIES
  ImplementsHandover
  SlowRekeysComplete
  DeviceCloses
