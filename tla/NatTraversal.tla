----------------------------- MODULE NatTraversal -----------------------------
(***************************************************************************)
(* NatManager (lib/p2p/nat/manager.ts) with the port mapping it holds at   *)
(* the gateway (upnp.ts) and the addresses STUN servers report (stun.ts).  *)
(*                                                                         *)
(* A mapping is a lease of the gateway that runs out unless it is renewed; *)
(* the renewal timer fires every half lease.  While start() runs nothing   *)
(* else of this component does, so each of its methods is one step.  What  *)
(* gateway and servers answer is left open.                                *)
(***************************************************************************)
EXTENDS Integers

CONSTANTS
  NatConfigs,  \* [methods, stunOn, servers, recheck]: methods that are listed and
               \* on, stun.enabled, number of STUN servers, whether checkInterval
               \* is positive
  PublicIPs,   \* what STUN servers report
  NoAddress,
  Lease        \* ttl of a mapping

ASSUME NatAssumption ==
  /\ NatConfigs \subseteq [methods : SUBSET {"upnp", "pmp", "stun", "relay"},
                           stunOn : BOOLEAN, servers : Nat, recheck : BOOLEAN]
  /\ \A c \in NatConfigs : "stun" \in c.methods => c.stunOn
  /\ NoAddress \notin PublicIPs \cup {"gateway"}
  /\ Lease \in Nat /\ Lease >= 2

VARIABLES
  natConfig,
  natPc,         \* what start() or stop() does next
  client,        \* natClient is set
  activeMapping, \* activeMapping is set
  renewalTimer,  \* time to the next renewal; Off without renewalInterval
  renewing,      \* a renewal waits for the gateway
  checkTimer,    \* checkInterval is set
  refreshing,    \* refreshPublicAddress waits for the servers
  natResult,     \* result
  lease,         \* External: what is left of the mapping at the gateway
  natFaults      \* history: what has gone wrong with the mapping

natVars == <<natConfig, natPc, client, activeMapping, renewalTimer, renewing,
             checkTimer, refreshing, natResult, lease, natFaults>>

Off == -1
Half == Lease \div 2
NatTypes == {"FullCone", "Symmetric", "RestrictedCone", "Unknown"}
NoResult == [address |-> NoAddress, type |-> "Unknown", reachable |-> FALSE,
             relayRequired |-> FALSE]

-----------------------------------------------------------------------------
NatStart ==
  /\ natPc = "idle"
  /\ natPc' = "upnp"
  /\ UNCHANGED <<natConfig, client, activeMapping, renewalTimer, renewing,
                 checkTimer, refreshing, natResult, lease, natFaults>>

Found(address) == natResult' = [natResult EXCEPT !.address = address]

\* A renewal that waits for the whole lease.
RenewLate == renewalTimer' = Lease

RenewInTime == renewalTimer' = Half

\* setupPortMapping, tried for UPnP and again for PMP unless it has an address.
MapPort(method, next) ==
  /\ natPc = method
  /\ natPc' = next
  /\ LET tried == method \in natConfig.methods /\ natResult.address = NoAddress
     IN  \/ /\ tried
            /\ client' = TRUE /\ activeMapping' = TRUE
            /\ RenewInTime
            /\ lease' = Lease
            /\ Found("gateway")
         \/ /\ tried
            /\ client' \in {client, TRUE}
            /\ UNCHANGED <<activeMapping, renewalTimer, natResult, lease>>
         \/ ~tried /\ UNCHANGED <<client, activeMapping, renewalTimer, natResult, lease>>
  /\ UNCHANGED <<natConfig, renewing, checkTimer, refreshing, natFaults>>

\* detectPublicIP: the first server that answers, if any does.
Detected == {NoAddress} \cup (IF natConfig.servers > 0 THEN PublicIPs ELSE {})

AskStun ==
  /\ natPc = "stun"
  /\ natPc' = "type"
  /\ IF "stun" \in natConfig.methods /\ natResult.address = NoAddress
     THEN \E address \in Detected : Found(address)
     ELSE UNCHANGED natResult
  /\ UNCHANGED <<natConfig, client, activeMapping, renewalTimer, renewing,
                 checkTimer, refreshing, lease, natFaults>>

\* detectNatType compares the answers of two servers, whatever methods are listed.
TypesDetected ==
  IF natConfig.stunOn /\ natConfig.servers >= 2 THEN NatTypes ELSE {"Unknown"}

NatStarted ==
  /\ natPc = "type"
  /\ natPc' = "up"
  /\ \E type \in TypesDetected :
       LET reachable == natResult.address # NoAddress /\ type # "Symmetric"
       IN  natResult' = [address |-> natResult.address, type |-> type,
                         reachable |-> reachable,
                         relayRequired |-> ~reachable /\ "relay" \in natConfig.methods]
  /\ checkTimer' = natConfig.recheck
  /\ UNCHANGED <<natConfig, client, activeMapping, renewalTimer, renewing, refreshing,
                 lease, natFaults>>

-----------------------------------------------------------------------------
\* The interval of setupPortMapping fires.  A renewal is assumed to end within
\* half a lease.
RenewalDue ==
  /\ renewalTimer = 0 /\ ~renewing
  /\ RenewInTime
  /\ renewing' = TRUE
  /\ UNCHANGED <<natConfig, natPc, client, activeMapping, checkTimer, refreshing,
                 natResult, lease, natFaults>>

\* The renewal has the gateway map the port again, or fails; the client it
\* obtains is a new one when removePortMapping has destroyed the old one.
RenewalEnds ==
  /\ renewing
  /\ renewing' = FALSE
  /\ \/ /\ lease' = Lease
        /\ client' \in {client, TRUE}
        /\ UNCHANGED natFaults
     \/ /\ natFaults' = natFaults \cup {"renewal"}
        /\ client' \in {client, TRUE}
        /\ UNCHANGED lease
  /\ UNCHANGED <<natConfig, natPc, activeMapping, renewalTimer, checkTimer, refreshing,
                 natResult>>

RefreshDue ==
  /\ checkTimer /\ ~refreshing
  /\ refreshing' = natConfig.stunOn
  /\ UNCHANGED <<natConfig, natPc, client, activeMapping, renewalTimer, renewing,
                 checkTimer, natResult, lease, natFaults>>

\* A new address replaces the old one; what was concluded from the old one stays.
RefreshedIfFound(address) ==
  natResult' = IF address = NoAddress THEN natResult ELSE [natResult EXCEPT !.address = address]

RefreshEnds ==
  /\ refreshing
  /\ refreshing' = FALSE
  /\ \E address \in Detected : RefreshedIfFound(address)
  /\ UNCHANGED <<natConfig, natPc, client, activeMapping, renewalTimer, renewing,
                 checkTimer, lease, natFaults>>

TimerCleared == renewalTimer' = Off

\* stop() and removePortMapping up to the answer of the gateway.
NatStop ==
  /\ natPc = "up"
  /\ checkTimer' = FALSE
  /\ TimerCleared
  /\ natFaults' = IF renewing THEN natFaults \cup {"overlap"} ELSE natFaults
  /\ IF activeMapping /\ client
     THEN natPc' = "unmapping" /\ UNCHANGED <<client, activeMapping>>
     ELSE natPc' = "stopped" /\ activeMapping' = FALSE /\ client' = FALSE
  /\ UNCHANGED <<natConfig, renewing, refreshing, natResult, lease>>

\* The gateway answers, or refuses, which is only logged.
Unmapped ==
  /\ natPc = "unmapping"
  /\ natPc' = "stopped"
  /\ \/ lease' = 0 /\ UNCHANGED natFaults
     \/ natFaults' = natFaults \cup {"unmap"} /\ UNCHANGED lease
  /\ activeMapping' = FALSE
  /\ client' = FALSE
  /\ UNCHANGED <<natConfig, renewalTimer, renewing, checkTimer, refreshing, natResult>>

\* Time passes; the renewal timer fires when it is due.
NatTick ==
  /\ natPc \in {"up", "unmapping", "stopped"}
  /\ lease > 0 /\ renewalTimer # 0
  /\ lease' = lease - 1
  /\ renewalTimer' = IF renewalTimer = Off THEN Off ELSE renewalTimer - 1
  /\ UNCHANGED <<natConfig, natPc, client, activeMapping, renewing, checkTimer,
                 refreshing, natResult, natFaults>>

-----------------------------------------------------------------------------
NatInit ==
  /\ natConfig \in NatConfigs
  /\ natPc = "idle"
  /\ client = FALSE /\ activeMapping = FALSE
  /\ renewalTimer = Off /\ renewing = FALSE
  /\ checkTimer = FALSE /\ refreshing = FALSE
  /\ natResult = NoResult
  /\ lease = 0
  /\ natFaults = {}

\* What runs once start() is called, stop() aside.
NatStep ==
  \/ MapPort("upnp", "pmp") \/ MapPort("pmp", "stun") \/ AskStun \/ NatStarted
  \/ RenewalDue \/ RenewalEnds \/ RefreshDue \/ RefreshEnds \/ Unmapped \/ NatTick

\* Gateway and servers answer or time out.
NatFairness ==
  WF_natVars(MapPort("upnp", "pmp") \/ MapPort("pmp", "stun") \/ AskStun \/ NatStarted
             \/ Unmapped)

-----------------------------------------------------------------------------
(***************************************************************************)
(* Properties                                                              *)
(***************************************************************************)

\* While the manager is up the gateway keeps the mapping, for each renewal asks
\* in time; only a renewal that failed or is still waiting lets it lapse.
MappingKept ==
  (natPc = "up" /\ activeMapping /\ "renewal" \notin natFaults) => lease > 0 \/ renewing

\* A stopped manager has no timer that would map its port again.  A mapping is
\* left at the gateway only if the gateway refused to remove it or a renewal was
\* on its way at stop(): nothing cancels that one, and it may map the port, with a
\* client of its own, after the mapping was removed.
NothingLeftMapped ==
  natPc = "stopped" =>
    /\ renewalTimer = Off
    /\ client => "overlap" \in natFaults
    /\ lease > 0 => natFaults \cap {"overlap", "unmap"} # {}

=============================================================================
