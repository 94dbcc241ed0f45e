CONSTANTS
  Peers = {p1, p2, p3}
  MaxPoolSize = 2
  ReuseThreshold = 2
  IdleTimeout = 2
  ConnectionTTL = 2
  Interval = 2
  MaxTime = 6
SPECIFICATION Spec
SYMMETRY Symmetry
CHECK_DEADLOCK FALSE
INVARIANTS
  PoolBounded
  NoStaleConnection
