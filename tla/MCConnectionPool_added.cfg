CONSTANTS
  Peers = {p1, p2}
  MaxPoolSize = 2
  ReuseThreshold = 1
  IdleTimeout = 2
  ConnectionTTL = 2
  Interval = 2
  MaxTime = 3
SPECIFICATION Spec
SYMMETRY Symmetry
CHECK_DEADLOCK FALSE
INVARIANTS
  AddedIsPooled
