SPECIFICATION Spec
CONSTANTS
  Repo = {"tcp"}
  Datagrams = {}
  Client = {c1}
  Address = {a1}
  Session = {s1, s2}
  None = None
  Overlap = {"registration"}
  MaxEdits = 0
CHECK_DEADLOCK FALSE
SYMMETRY SessionSymmetry
INVARIANTS
  LiveSessionReachable
