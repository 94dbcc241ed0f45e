\* MCServices: two relays and two bootstrap nodes, two overlapping passes of each
\* interval, a lease of two ticks, three addresses for a dialled peer.
CONSTANTS
  NatConfigs <- MCNatConfigs
  PublicIPs <- MCPublicIPs
  NoAddress = "none"
  Lease = 2
  RelayCount = 2
  Passes <- MCPasses
  Seeds = 2
  Checked <- MCChecked
  RetryPasses <- MCRetryPasses
  GiveUpAfter = 2
  Enablings <- MCEnablings
  Transports <- MCTransports
  PriorityOf <- MCPriorityOf
  DialTimeoutOf <- MCDialTimeoutOf
  MaxConcurrent = 3
  MaxAddresses = 3
SPECIFICATION MCSpec
CHECK_DEADLOCK FALSE
INVARIANTS
  MappingKept
  StoppedIsQuiet
  FirstConnectionWins
PROPERTIES
  RelaysRecover
  BootstrapSettles
  StartAndStopReturn
  DialReturns
