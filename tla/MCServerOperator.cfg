SPECIFICATION OperatorSpec
CONSTANTS
  Repo = {"udp"}
  Datagrams = {"udp"}
  Client = {c1, c2}
  Address = {a1, a2}
  Session = {s1, s2}
  None = None
  Overlap = {}
  MaxEdits = 2
  WindowWords = 2
  WordBits = 2
  WindowCap = 2
  CounterLowMax = 6
  CounterHighMax = 1
  NameOrder <- TwoNames
  ClientIDs <- TwoIDs
  MaxSurprises = 1
  MaxChanges = 2
  RingSize = 3
  Entry = {0, 1}
  MaxUpsets = 3
  NoAddress = NoAddress
CHECK_DEADLOCK FALSE
SYMMETRY SessionSymmetry
INVARIANTS
  SessionsSound
  InterfaceSound
  RingsAreHistory
  PlatformTunnelsSound
PROPERTIES
  ImplementsTable
  ImplementsReplayWindow
  
  
