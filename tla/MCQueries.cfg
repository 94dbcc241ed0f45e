CONSTANTS
  p1 = p1
  p2 = p2
  q1 = q1
  q2 = q2
  b = b
  Peers = {p1, p2}
  Calls = {q1, q2}
  Broadcasts = {b}
SPECIFICATION QueriesFairSpec
CHECK_DEADLOCK FALSE
INVARIANTS
  PendingExact
  WholeOrEmpty
PROPERTIES
  CallsReturn
