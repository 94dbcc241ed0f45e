------------------------------ MODULE MCServices ------------------------------
(***************************************************************************)
(* The services of the node and, beside them, one call of                  *)
(* dialPeerWithFailover, whose addresses vary only when no service runs:   *)
(* the two share no state, so their interleavings would show nothing more. *)
(***************************************************************************)
EXTENDS Services, Failover

MCEnablings == {{"nat"}, {"nat", "relay"}, {"nat", "bootstrap"}, {}}

MCLeaseOnly == [methods |-> {"pmp", "relay"}, stunOn |-> FALSE, servers |-> 0, recheck |-> FALSE]
MCNatConfigs ==
  {MCLeaseOnly,
   [methods |-> {"upnp"}, stunOn |-> TRUE, servers |-> 2, recheck |-> TRUE],
   [methods |-> {"stun"}, stunOn |-> TRUE, servers |-> 1, recheck |-> TRUE]}

MCPublicIPs == {"ip1", "ip2"}
MCPasses == {"p1", "p2"}
MCChecked == {1}
MCRetryPasses == {11, 12}

MCTransports == {"tcp", "quic"}
MCPriorityOf == [t \in MCTransports |-> IF t = "tcp" THEN 1 ELSE 99]
MCDialTimeoutOf == [t \in MCTransports |-> IF t = "tcp" THEN 1 ELSE 2]

\* Of the NAT manager's configurations one with a lease runs beside each other
\* service; all of them run alone.
MCInit ==
  /\ Init /\ FailoverInit
  /\ enabled = {} \/ addresses = <<>>
  /\ enabled # {"nat"} => natConfig = MCLeaseOnly

MCNext ==
  \/ Next /\ UNCHANGED failoverVars
  \/ FailoverNext /\ UNCHANGED vars

MCSpec ==
  MCInit /\ [][MCNext]_<<vars, failoverVars>> /\ Fairness /\ FailoverFairness
=============================================================================
