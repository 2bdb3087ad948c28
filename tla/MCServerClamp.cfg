SPECIFICATION ServerSpec
CONSTANTS
  ProfileOrder <- TwoProfiles
  Backends = {"nft"}
  Ip6Tables = {TRUE}
  MaxMishaps = 1
CHECK_DEADLOCK FALSE
INVARIANTS
  ServingIsClamped
