SPECIFICATION OverlapSpec
CONSTANTS
  Repo = {"tcp"}
  Datagrams = {}
  Client = {c1}
  Address = {a1}
  Session = {s1, s2}
  None = None
  Overlap = {"registration", "revocation"}
  MaxEdits = 1
  NoConfiguration = NoConfiguration
  MaxRequests = 3
  MaxHandEdits = 1
  MaxFlaws = 1
  MaxVisits = 2
CHECK_DEADLOCK FALSE
INVARIANTS
  LifecycleInv
  ConfigurationSound
  ChainsAlive
PROPERTIES
  TeardownCompletes
  RuntimeFollowsFile
  RunEnds
