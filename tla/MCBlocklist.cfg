CONSTANTS
  p1 = p1
  spam = spam
  policy = policy
  short = short
  long = long
  Peers = {p1}
  Reasons = {spam, policy}
  PeerOf <- MCPeerOf
  ReasonOf <- MCReasonOf
  Temporary <- MCTemporary
  NoBan = NoBan
  Bans = {short, long}
  Removals = {r1}
  Expiries = {x1}
  Reports = {e1}
  Faults = {"overlap", "read", "write", "del", "crash"}
SPECIFICATION Spec
CHECK_DEADLOCK FALSE
INVARIANTS
  ActiveBanHolds
  BannedStaysBlocked
  RemovedStaysRemoved
