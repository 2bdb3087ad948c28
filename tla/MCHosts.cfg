SPECIFICATION HostsSpec
CONSTANTS
  ClientHosts <- Literal
  Answers <- DualStack
  NoFamily = NoFamily
  MaxTroubles = 2
  ProfileOrder <- TwoProfiles
  Backends = {"iptables"}
  Ip6Tables = {TRUE}
  MaxMishaps = 2
CHECK_DEADLOCK FALSE
INVARIANTS
  ClientInv
  NeverTunnelsItself
  ServerRuntimeInv
  
PROPERTIES
  ReconnectsUntilStopped
  ServerEnds
