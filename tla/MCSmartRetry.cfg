CONSTANTS
  Calls = {c1, c2, c3}
  FailureThreshold = 2
  SuccessThreshold = 3
  Timeout = 1
  HalfOpenRequests = 2
  BaseRetries = 1
  MaxRetries = 2
  Reputations = {50, 90}
  Switches = {TRUE, FALSE}
  TypeRetries = {0}
SPECIFICATION SmartFairSpec
INVARIANTS
  ClosedBelowThreshold
  NoSlotLeaked
PROPERTIES
  GateSpec
  Recovers
  CallsEnd
  OpenDrains
