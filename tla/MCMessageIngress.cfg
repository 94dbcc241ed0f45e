CONSTANTS
  p1 = p1
  a = a
  b = b
  Peers <- MCPeers
  Ids <- MCIds
  Enabled = TRUE
  PeerCapacity <- MCPeerCapacity
  GlobalCapacity = 2
  GlobalWindow = 1
  StaleAfter = 2
  MaxAge = 1
  MaxSkew = 1
  PeerWindow = 2
  DupWindow = 3
  MaxTime = 4
  Messages <- MCMixed
  Own = {o1}
  MaxQueue = 1
  MaxCopies = 2
SPECIFICATION MCSpec
CHECK_DEADLOCK FALSE
INVARIANTS
  
  AdmittedExact
  AcceptedWithinRate
