CONSTANTS
  Peers = {p1, p2}
  Ids = {a}
  Enabled = TRUE
  PeerCapacity <- MCPeerCapacity
  PeerWindow = 2
  GlobalCapacity = 1
  GlobalWindow = 1
  DupWindow = 2
  StaleAfter = 2
  MaxTime = 4
SPECIFICATION Spec
SYMMETRY MCSymmetry
INVARIANTS
  PeerRateBound
PROPERTIES
  FreshSpacing
