\* MCLifecycle: two clients about two topics, one of which no scan finds, and
\* two peers, two signals, two starts; five keys, so that a fourth rotation drops
\* the first key of the history.
CONSTANTS
  Topics = {"t1", "t2"}
  Scanned = {"t1"}
  Peers = {"p1", "p2"}
  c1 = c1
  c2 = c2
  Clients <- MCClients
  s1 = s1
  s2 = s2
  Signals <- MCSignals
  ShutdownConfigs <- MCShutdownConfigs
  ConfiguredPeers <- MCConfiguredPeers
  Counters = 2
  MaxStarts = 2
  Grace = 1
  MaxKeys = 5
  MaxClock = 1
SPECIFICATION MCSpec
CHECK_DEADLOCK FALSE
INVARIANTS
  AnswersLast
  ShutdownInOrder
  IdentitySurvives
  GraceKeysKnown
PROPERTIES
  ShutdownEnds
