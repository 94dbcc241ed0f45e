------------------------------- MODULE Services -------------------------------
(***************************************************************************)
(* GNNNode.start and GNNNode.stop (lib/p2p/node.ts) as far as they run the *)
(* services that keep the node reachable: the NAT manager, the relay       *)
(* client and the bootstrap manager.  start() waits for each of them in    *)
(* turn before it starts the next; stop() waits for the NAT manager to     *)
(* give its port back, stops the others at once and closes libp2p last.    *)
(* The services started first keep running while start() waits for the     *)
(* later ones, and what they wait for may answer during and after stop().  *)
(***************************************************************************)
EXTENDS NatTraversal, RelayClient, Bootstrap

CONSTANT Enablings  \* the sets of services a configuration enables

ASSUME EnablingsAssumption == Enablings \subseteq SUBSET {"nat", "relay", "bootstrap"}

VARIABLES
  enabled,
  node     \* down, what start() is at, up, stopping, closing, stopped

vars == <<natVars, relayVars, bootVars, enabled, node>>

NatOnly == UNCHANGED <<relayVars, bootVars, enabled>>
RelayOnly == UNCHANGED <<natVars, bootVars, enabled>>
BootOnly == UNCHANGED <<natVars, relayVars, enabled>>

-----------------------------------------------------------------------------
Start ==
  /\ node = "down"
  /\ node' = "nat"
  /\ IF "nat" \in enabled THEN NatStart ELSE UNCHANGED natVars
  /\ NatOnly

StartRelay ==
  /\ node = "nat"
  /\ "nat" \in enabled => natPc = "up"
  /\ node' = "relay"
  /\ IF "relay" \in enabled
     THEN \E autoRegister \in BOOLEAN : RelayStart(autoRegister)
     ELSE UNCHANGED relayVars
  /\ RelayOnly

StartBootstrap ==
  /\ node = "relay"
  /\ "relay" \in enabled => relayPhase = "up"
  /\ node' = "bootstrap"
  /\ IF "bootstrap" \in enabled THEN BootstrapStart ELSE UNCHANGED bootVars
  /\ BootOnly

Started ==
  /\ node = "bootstrap"
  /\ "bootstrap" \in enabled => bootPhase = "up"
  /\ node' = "up"
  /\ UNCHANGED <<natVars, relayVars, bootVars, enabled>>

\* stop() up to the answer of the gateway.
Stop ==
  /\ node = "up"
  /\ node' = "stopping"
  /\ IF "nat" \in enabled THEN NatStop ELSE UNCHANGED natVars
  /\ NatOnly

StopOthers ==
  /\ node = "stopping"
  /\ "nat" \in enabled => natPc = "stopped"
  /\ node' = "closing"
  /\ IF "relay" \in enabled THEN RelayStop ELSE UNCHANGED relayVars
  /\ IF "bootstrap" \in enabled THEN BootstrapStop ELSE UNCHANGED bootVars
  /\ UNCHANGED <<natVars, enabled>>

\* libp2p.stop() closes every connection; the dials under way end later.
Stopped ==
  /\ node = "closing"
  /\ node' = "stopped"
  /\ linked' = {}
  /\ UNCHANGED <<natVars, relayPhase, relayLibp2p, active, relayTimer, registering, pass,
                 bootVars, enabled>>

-----------------------------------------------------------------------------
Init ==
  /\ NatInit /\ RelayInit /\ BootInit
  /\ enabled \in Enablings
  /\ node = "down"

ServiceStep ==
  /\ \/ NatStep /\ NatOnly
     \/ RelayStep /\ RelayOnly
     \/ BootStep /\ BootOnly
  /\ UNCHANGED node

StartStep == StartRelay \/ StartBootstrap \/ Started
StopStep == StopOthers \/ Stopped

Next == Start \/ StartStep \/ Stop \/ StopStep \/ ServiceStep

\* The code after an await runs; nobody need ever start or stop the node.
Fairness ==
  /\ WF_vars(StartStep) /\ WF_vars(StopStep)
  /\ NatFairness /\ RelayFairness /\ BootFairness

Spec == Init /\ [][Next]_vars /\ Fairness

-----------------------------------------------------------------------------
(***************************************************************************)
(* Properties                                                              *)
(***************************************************************************)

\* A node that was started comes up although relays refuse, bootstrap nodes are
\* silent and no gateway answers; a node told to stop is stopped in the end.
StartAndStopReturn ==
  /\ node = "nat" ~> node = "up"
  /\ node = "stopping" ~> node = "stopped"

\* A stopped node is quiet.  No relay is advertised and nobody is dialled,
\* whatever relay client and bootstrap manager still waited for; the port is not
\* mapped, unless the gateway refused or the NAT manager still waited for a
\* renewal, which may map it once more for one lease.
StoppedIsQuiet ==
  /\ NothingLeftMapped
  /\ StoppedAdvertisesNothing
  /\ NoDialAfterStop
=============================================================================
