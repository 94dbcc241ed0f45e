---------------------------- MODULE Node_proofs ----------------------------
(***************************************************************************)
(* The services of a node for any lease, any number of relays, bootstrap   *)
(* nodes and overlapping passes: the gateway keeps the mapping while the   *)
(* node is up, and a node that has stopped is quiet.  Each service has an  *)
(* invariant of its own, and a step of the node is for each of them one of *)
(* its own steps, its start or its stop.                                   *)
(*                                                                         *)
(* The queries and broadcasts of a node for any number of peers and calls. *)
(***************************************************************************)
EXTENDS Services, Queries, TLAPS

-----------------------------------------------------------------------------
(***************************************************************************)
(* The NAT manager                                                         *)
(***************************************************************************)

NatFlags == client \in BOOLEAN /\ activeMapping \in BOOLEAN /\ renewing \in BOOLEAN
NatTimes == lease \in 0 .. Lease /\ renewalTimer \in {Off} \cup (0 .. Half)
NatTypeOK == NatFlags /\ NatTimes

\* Until stop() there is a mapping at the gateway exactly while the manager
\* knows of one; it has a client and a timer then.
MappingKnown ==
  natPc \notin {"unmapping", "stopped"} =>
    /\ activeMapping => client /\ renewalTimer # Off
    /\ ~activeMapping => renewalTimer = Off /\ ~renewing /\ lease = 0

\* The renewal comes before the lease has run out, by what the timer leaves of it.
RenewedInTime ==
  (natPc \notin {"unmapping", "stopped"} /\ activeMapping /\ "renewal" \notin natFaults) =>
    renewing \/ lease >= renewalTimer + (Lease - Half)

\* From stop() on no timer makes another mapping.  A renewal that was on its way
\* was noted, and without one the gateway is left with nothing.
Unmapping ==
  natPc \in {"unmapping", "stopped"} =>
    /\ renewalTimer = Off
    /\ "overlap" \notin natFaults => ~renewing
    /\ (natPc = "stopped" /\ "overlap" \notin natFaults) => ~client
    /\ (natPc = "stopped" /\ natFaults \cap {"overlap", "unmap"} = {}) => lease = 0

NatInv == NatTypeOK /\ MappingKnown /\ RenewedInTime /\ Unmapping

\* Half a lease is shorter than the lease.
LEMMA HalfLease == Half \in 1 .. (Lease - 1) /\ Lease \in Nat
BY NatAssumption DEF NatAssumption, Half

\* The invariant gives what the manager promises of the mapping.
LEMMA NatInvSuffices == NatInv => MappingKept /\ NothingLeftMapped
BY HalfLease DEF NatInv, NatTypeOK, NatFlags, NatTimes, RenewedInTime, MappingKnown, Unmapping, MappingKept,
   NothingLeftMapped, Off

\* No mapping, no lease, when the manager is made.
LEMMA NatInvHolds == NatInit => NatInv
<1> SUFFICES ASSUME NatInit PROVE NatInv
  OBVIOUS
<1>1. NatTypeOK
  <2>1. NatFlags
    BY DEF NatInit, NatFlags
  <2>2. NatTimes
    BY HalfLease DEF NatInit, NatTimes
  <2> QED
    BY <2>1, <2>2 DEF NatTypeOK
<1>2. MappingKnown
  BY DEF NatInit, MappingKnown
<1>3. RenewedInTime
  BY DEF NatInit, RenewedInTime
<1>4. Unmapping
  BY DEF NatInit, Unmapping
<1> QED
  BY <1>1, <1>2, <1>3, <1>4 DEF NatInv

\* What a manager that starts does keeps the invariant.
LEMMA NatStartKeeps ==
  ASSUME NatInv,
         NatStart \/ MapPort("upnp", "pmp") \/ MapPort("pmp", "stun") \/ AskStun \/ NatStarted
  PROVE  NatInv'
<1>1. CASE NatStart \/ AskStun \/ NatStarted
  <2>1. /\ UNCHANGED <<client, activeMapping, renewalTimer, renewing, lease, natFaults>>
        /\ natPc \notin {"unmapping", "stopped"} /\ natPc' \in {"upnp", "type", "up"}
    BY <1>1 DEF NatStart, AskStun, NatStarted
  <2> QED
    BY <2>1 DEF NatInv, NatTypeOK, NatFlags, NatTimes, MappingKnown, RenewedInTime, Unmapping
<1>2. ASSUME NEW method, NEW next \in {"pmp", "stun"}, MapPort(method, next),
             method \in {"upnp", "pmp"}
      PROVE  NatInv'
  <2>1. /\ UNCHANGED <<renewing, natFaults>> /\ natPc' = next
        /\ natPc \notin {"unmapping", "stopped"}
    BY <1>2 DEF MapPort
  <2>2. CASE client' = TRUE /\ activeMapping' = TRUE /\ renewalTimer' = Half /\ lease' = Lease
    BY <2>1, <2>2, HalfLease
       DEF NatInv, NatTypeOK, NatFlags, NatTimes, MappingKnown, RenewedInTime, Unmapping, Off
  <2>3. CASE client' \in {client, TRUE} /\ UNCHANGED <<activeMapping, renewalTimer, lease>>
    BY <2>1, <2>3 DEF NatInv, NatTypeOK, NatFlags, NatTimes, MappingKnown, RenewedInTime, Unmapping
  <2> QED
    BY <1>2, <2>2, <2>3 DEF MapPort, RenewInTime
<1> QED
  BY <1>1, <1>2

\* The timers and what they wait for keep the invariant.
LEMMA NatTimersKeep ==
  ASSUME NatInv, RenewalDue \/ RenewalEnds \/ RefreshDue \/ RefreshEnds \/ NatTick
  PROVE  NatInv'
<1>1. CASE RenewalDue
  BY <1>1, HalfLease DEF RenewalDue, RenewInTime, NatInv, NatTypeOK, NatFlags, NatTimes, MappingKnown,
     RenewedInTime, Unmapping, Off
<1>2. CASE RenewalEnds
  <2>1. /\ renewing /\ renewing' = FALSE /\ client' \in {client, TRUE}
        /\ UNCHANGED <<natPc, activeMapping, renewalTimer>>
        /\ \/ lease' = Lease /\ UNCHANGED natFaults
           \/ UNCHANGED lease /\ natFaults' = natFaults \cup {"renewal"}
    BY <1>2 DEF RenewalEnds
  <2>2. NatFlags'
    BY <2>1 DEF NatInv, NatTypeOK, NatFlags
  <2>7. NatTimes'
    BY <2>1, HalfLease DEF NatInv, NatTypeOK, NatTimes
  <2>8. natPc \notin {"unmapping", "stopped"} => activeMapping /\ client' = TRUE
    BY <2>1 DEF NatInv, NatTypeOK, NatFlags, MappingKnown
  <2>3. MappingKnown'
    BY <2>1, <2>8 DEF NatInv, MappingKnown
  <2>6. RenewedInTime'
    BY <2>1, HalfLease DEF NatInv, NatTypeOK, NatFlags, NatTimes, RenewedInTime, MappingKnown, Off
  <2>4. natPc \in {"unmapping", "stopped"} => "overlap" \in natFaults'
    BY <2>1 DEF NatInv, Unmapping
  <2>5. Unmapping'
    BY <2>1, <2>4 DEF NatInv, Unmapping
  <2> QED
    BY <2>2, <2>3, <2>5, <2>6, <2>7 DEF NatInv, NatTypeOK
<1>3. CASE RefreshDue \/ RefreshEnds
  <2>1. UNCHANGED <<natPc, client, activeMapping, renewalTimer, renewing, lease, natFaults>>
    BY <1>3 DEF RefreshDue, RefreshEnds
  <2> QED
    BY <2>1 DEF NatInv, NatTypeOK, NatFlags, NatTimes, MappingKnown, RenewedInTime, Unmapping
<1>4. CASE NatTick
  BY <1>4, HalfLease DEF NatTick, NatInv, NatTypeOK, NatFlags, NatTimes, MappingKnown, RenewedInTime,
     Unmapping, Off
<1> QED
  BY <1>1, <1>2, <1>3, <1>4

\* stop() keeps it, up to the answer of the gateway and after it.
LEMMA NatStopKeeps ==
  ASSUME NatInv, NatStop \/ Unmapped
  PROVE  NatInv'
<1>1. CASE NatStop
  BY <1>1, HalfLease DEF NatStop, TimerCleared, NatInv, NatTypeOK, NatFlags, NatTimes, MappingKnown,
     RenewedInTime, Unmapping, Off
<1>2. CASE Unmapped
  <2>1. /\ natPc = "unmapping" /\ natPc' = "stopped"
        /\ client' = FALSE /\ activeMapping' = FALSE /\ UNCHANGED <<renewalTimer, renewing>>
        /\ \/ lease' = 0 /\ UNCHANGED natFaults
           \/ UNCHANGED lease /\ natFaults' = natFaults \cup {"unmap"}
    BY <1>2 DEF Unmapped
  <2>2. NatTimes'
    BY <2>1, HalfLease DEF NatInv, NatTypeOK, NatTimes
  <2>4. NatFlags' /\ MappingKnown' /\ RenewedInTime'
    BY <2>1 DEF NatInv, NatTypeOK, NatFlags, MappingKnown, RenewedInTime
  <2>3. Unmapping'
    BY <2>1 DEF NatInv, Unmapping
  <2> QED
    BY <2>2, <2>3, <2>4 DEF NatInv, NatTypeOK
<1> QED
  BY <1>1, <1>2

\* Every step of the node keeps what the NAT manager holds.
LEMMA NatInvKept == NatInv /\ [Next]_vars => NatInv'
<1> SUFFICES ASSUME NatInv, [Next]_vars PROVE NatInv'
  OBVIOUS
<1>1. \/ NatStart \/ NatStep \/ NatStop
      \/ UNCHANGED natVars
  BY DEF Next, vars, Start, StartStep, StartRelay, StartBootstrap, Started, Stop, StopStep,
     StopOthers, Stopped, ServiceStep, NatOnly, RelayOnly, BootOnly
<1>2. CASE UNCHANGED natVars
  BY <1>2 DEF natVars, NatInv, NatTypeOK, NatFlags, NatTimes, MappingKnown, RenewedInTime, Unmapping
<1> QED
  BY <1>1, <1>2, NatStartKeeps, NatTimersKeep, NatStopKeeps DEF NatStep

\* While the node is up the gateway keeps its mapping, for every renewal asks in
\* time: setupPortMapping of lib/p2p/nat/manager.ts.
THEOREM MappingAlwaysKept == Spec => []MappingKept
<1>1. Init => NatInv
  BY NatInvHolds DEF Init
<1> QED
  BY <1>1, NatInvKept, NatInvSuffices, PTL DEF Spec

-----------------------------------------------------------------------------
(***************************************************************************)
(* The stopped node                                                        *)
(***************************************************************************)

\* Only start() registers, and stop() takes libp2p away from the relay client.
RelayInv ==
  /\ registering # 0 => relayPhase = "registering"
  /\ relayPhase = "stopped" => relayLibp2p = FALSE

\* stop() takes libp2p away from the bootstrap manager; no dial was late.
BootInv ==
  /\ bootPhase = "stopped" => bootLibp2p = FALSE
  /\ lateDials = 0

QuietInv == NatInv /\ RelayInv /\ BootInv

\* Every step of the node keeps what the relay client holds.
LEMMA RelayInvKept == RelayInv /\ [Next]_vars => RelayInv'
<1> SUFFICES ASSUME RelayInv, [Next]_vars PROVE RelayInv'
  OBVIOUS
<1>1. \/ \E autoRegister \in BOOLEAN : RelayStart(autoRegister)
      \/ RelayStep \/ RelayStop
      \/ UNCHANGED <<relayPhase, relayLibp2p, registering>>
  BY DEF Next, vars, Start, StartStep, StartRelay, StartBootstrap, Started, Stop, StopStep,
     StopOthers, Stopped, ServiceStep, NatOnly, RelayOnly, BootOnly, relayVars
<1>2. ASSUME NEW autoRegister \in BOOLEAN, RelayStart(autoRegister)
      PROVE  RelayInv'
  BY <1>2 DEF RelayStart, RelayInv
<1>3. CASE RelayStep
  <2>1. \/ \E success \in BOOLEAN : Registered(success)
        \/ UNCHANGED <<relayPhase, relayLibp2p, registering>>
    BY <1>3 DEF RelayStep, RelayDial, RenewalDialled, BeginRenewal, LoseLink
  <2>2. ASSUME NEW success \in BOOLEAN, Registered(success)
        PROVE  RelayInv'
    BY <2>2 DEF Registered, RelayInv
  <2> QED
    BY <2>1, <2>2 DEF RelayInv
<1>4. CASE RelayStop
  BY <1>4 DEF RelayStop, Disowned, RelayInv
<1>5. CASE UNCHANGED <<relayPhase, relayLibp2p, registering>>
  BY <1>5 DEF RelayInv
<1> QED
  BY <1>1, <1>2, <1>3, <1>4, <1>5

\* Every step of the node keeps what the bootstrap manager holds: a health check
\* that answers after stop() finds no libp2p to dial with.
LEMMA BootInvKept == BootInv /\ [Next]_vars => BootInv'
<1> SUFFICES ASSUME BootInv, [Next]_vars PROVE BootInv'
  OBVIOUS
<1>1. BootstrapStart \/ BootStep \/ BootstrapStop \/ UNCHANGED bootVars
  BY DEF Next, vars, Start, StartStep, StartRelay, StartBootstrap, Started, Stop, StopStep,
     StopOthers, Stopped, ServiceStep, NatOnly, RelayOnly, BootOnly
<1>2. CASE BootstrapStart
  BY <1>2 DEF BootstrapStart, BootInv
<1>3. CASE BootStep
  <2>1. \/ \E w \in Workers : CheckPasses(w)
        \/ UNCHANGED <<bootPhase, bootLibp2p, lateDials>>
        \/ BootstrapStarted
    BY <1>3 DEF BootStep, Answered, CheckRefuses, BootDialled, AttemptEnds, BeginPass
  <2>2. ASSUME NEW w \in Workers, CheckPasses(w)
        PROVE  BootInv'
    <3>1. CASE bootLibp2p
      BY <2>2, <3>1 DEF CheckPasses, BootInv
    <3>2. CASE ~bootLibp2p
      BY <2>2, <3>2 DEF CheckPasses, AttemptEnds, BootInv
    <3> QED
      BY <3>1, <3>2
  <2> QED
    BY <2>1, <2>2 DEF BootInv, BootstrapStarted
<1>4. CASE BootstrapStop
  BY <1>4 DEF BootstrapStop, DropsLibp2p, BootInv
<1>5. CASE UNCHANGED bootVars
  BY <1>5 DEF bootVars, BootInv
<1> QED
  BY <1>1, <1>2, <1>3, <1>4, <1>5

\* A stopped node is quiet: no relay is advertised and nobody is dialled, whatever
\* the relay client and the bootstrap manager still waited for, and nothing is
\* mapped unless the gateway refused or a renewal of the mapping was on its way at
\* stop(), which nothing cancels.  stop() of lib/p2p/node.ts and of the managers it
\* stops.
THEOREM StoppedStaysQuiet == Spec => []StoppedIsQuiet
<1>1. Init => QuietInv
  BY NatInvHolds DEF Init, RelayInit, BootInit, QuietInv, RelayInv, BootInv
<1>2. QuietInv /\ [Next]_vars => QuietInv'
  BY NatInvKept, RelayInvKept, BootInvKept DEF QuietInv
<1>3. QuietInv => StoppedIsQuiet
  <2>1. RelayInv => StoppedAdvertisesNothing
    BY DEF RelayInv, StoppedAdvertisesNothing, Advertised
  <2>2. BootInv => NoDialAfterStop
    BY DEF BootInv, NoDialAfterStop
  <2> QED
    BY <2>1, <2>2, NatInvSuffices DEF QuietInv, StoppedIsQuiet
<1> QED
  BY <1>1, <1>2, <1>3, PTL DEF Spec

-----------------------------------------------------------------------------
(***************************************************************************)
(* Queries and broadcasts                                                  *)
(***************************************************************************)

\* The variables of broadcasts and of queries have their types apart, so that
\* a step of one kind says nothing about the other.
QueryTypes ==
  /\ phase \in {"running", "stopping", "stopped"}
  /\ status \in [Peers -> {"absent", "online", "offline"}]
  /\ pending \subseteq Calls /\ timers \subseteq Calls /\ inFlight \subseteq Calls
  /\ outcome \in [Calls -> Outcomes]

BroadcastTypes ==
  /\ stage \in [Broadcasts -> {"idle", "local", "peers", "done"}]
  /\ replies \in [Broadcasts -> Collected]
  /\ deadline \subseteq Broadcasts
  /\ result \in [Broadcasts -> Collected]

\* The reply of one peer keeps the replies of a broadcast a function on the
\* peers that were asked.
LEMMA ReplyTyped ==
  ASSUME NEW f \in Collected, NEW p \in DOMAIN f, NEW r \in Replies
  PROVE  [f EXCEPT ![p] = r] \in Collected
<1>1. PICK S \in SUBSET Peers : f \in [S -> Replies]
  BY DEF Collected
<1>2. [f EXCEPT ![p] = r] \in [S -> Replies]
  BY <1>1
<1> QED
  BY <1>2 DEF Collected

\* A query that is asked is pending and of its type.
LEMMA AskedTyped ==
  ASSUME NEW S \in SUBSET Peers
  PROVE  [p \in S |-> "none"] \in Collected
BY DEF Collected, Replies

\* Settling a query, in whatever way, keeps the types of the queries.
LEMMA SettleTyped ==
  ASSUME outcome \in [Calls -> Outcomes], NEW q \in Calls, NEW how \in Settled,
         Settle(q, how)
  PROVE  /\ outcome' \in [Calls -> Outcomes]
         /\ outcome'[q] # "waiting"
         /\ \A c \in Calls \ {q} : outcome'[c] = outcome[c]
BY DEF Settle, Outcomes, Settled

\* Every step keeps the types of the pending queries.
LEMMA QueryTypesStep ==
  ASSUME QueryTypes, [QueriesNext]_requestVars
  PROVE  QueryTypes'
<1> USE DEF QueryTypes
<1>1. ASSUME NEW p \in Peers, Connect(p) \/ Disconnect(p) \/ Forget(p)
      PROVE  QueryTypes'
  BY <1>1 DEF Connect, Disconnect, Forget, queryVars
<1>2. ASSUME NEW q \in Calls, NEW p \in Peers, Query(q, p)
      PROVE  QueryTypes'
  BY <1>2 DEF Query, Outcomes
<1>3. ASSUME NEW q \in Calls, QueryTimeout(q)
      PROVE  QueryTypes'
  BY <1>3, SettleTyped DEF QueryTimeout, Settled
<1>4. ASSUME NEW q \in Calls, NEW how \in {"answered", "failed"}, RequestEnds(q, how)
      PROVE  QueryTypes'
  BY <1>4, SettleTyped DEF RequestEnds, Settled
<1>5. CASE StopNode
  BY <1>5 DEF StopNode, Outcomes, Settled
<1>6. CASE StopReturns
  BY <1>6 DEF StopReturns, queryVars
<1>7. ASSUME NEW b \in Broadcasts, NEW p \in Peers, PeerReplies(b, p)
      PROVE  QueryTypes'
  BY <1>7 DEF PeerReplies, queryVars
<1>8. ASSUME NEW b \in Broadcasts,
             Broadcast(b) \/ LocalAnswers(b) \/ Collect(b) \/ BroadcastTimeout(b)
      PROVE  QueryTypes'
  BY <1>8 DEF Broadcast, LocalAnswers, Collect, BroadcastTimeout, queryVars
<1>9. CASE UNCHANGED requestVars
  BY <1>9 DEF requestVars, queryVars
<1> QED
  BY <1>1, <1>2, <1>3, <1>4, <1>5, <1>6, <1>7, <1>8, <1>9 DEF QueriesNext

\* Every step keeps the types of the broadcasts and of the replies collected.
LEMMA BroadcastTypesStep ==
  ASSUME QueryTypes, BroadcastTypes, [QueriesNext]_requestVars
  PROVE  BroadcastTypes'
<1> USE DEF BroadcastTypes
<1>1. ASSUME NEW p \in Peers, Connect(p) \/ Disconnect(p) \/ Forget(p)
      PROVE  BroadcastTypes'
  BY <1>1 DEF Connect, Disconnect, Forget, broadcastVars
<1>2. ASSUME NEW q \in Calls, NEW p \in Peers, Query(q, p)
      PROVE  BroadcastTypes'
  BY <1>2 DEF Query, broadcastVars
<1>3. ASSUME NEW q \in Calls, QueryTimeout(q)
      PROVE  BroadcastTypes'
  BY <1>3 DEF QueryTimeout, broadcastVars
<1>4. ASSUME NEW q \in Calls, NEW how \in {"answered", "failed"}, RequestEnds(q, how)
      PROVE  BroadcastTypes'
  BY <1>4 DEF RequestEnds, broadcastVars
<1>5. CASE StopNode \/ StopReturns
  BY <1>5 DEF StopNode, StopReturns, broadcastVars
<1>6. ASSUME NEW b \in Broadcasts, NEW p \in Peers, PeerReplies(b, p)
      PROVE  BroadcastTypes'
  <2>1. PICK r \in {"success", "timeout"} :
          replies' = [replies EXCEPT ![b][p] = r]
    BY <1>6 DEF PeerReplies
  <2>2. replies[b] \in Collected /\ p \in DOMAIN replies[b]
    BY <1>6 DEF PeerReplies
  <2>3. [replies[b] EXCEPT ![p] = r] \in Collected
    BY <2>2, ReplyTyped DEF Replies
  <2>4. replies' \in [Broadcasts -> Collected]
    BY <2>1, <2>3
  <2> QED
    BY <2>4, <1>6 DEF PeerReplies
<1>7. ASSUME NEW b \in Broadcasts, Broadcast(b)
      PROVE  BroadcastTypes'
  <2>1. [p \in {p \in Peers : status[p] = "online"} |-> "none"] \in Collected
    BY AskedTyped
  <2> QED
    BY <2>1, <1>7 DEF Broadcast
<1>8. ASSUME NEW b \in Broadcasts, LocalAnswers(b) \/ Collect(b)
      PROVE  BroadcastTypes'
  BY <1>8 DEF LocalAnswers, Collect
<1>9. ASSUME NEW b \in Broadcasts, BroadcastTimeout(b)
      PROVE  BroadcastTypes'
  <2>1. Empty \in Collected
    BY AskedTyped DEF Empty
  <2> QED
    BY <2>1, <1>9 DEF BroadcastTimeout
<1>10. CASE UNCHANGED requestVars
  BY <1>10 DEF requestVars, broadcastVars
<1> QED
  BY <1>1, <1>2, <1>3, <1>4, <1>5, <1>6, <1>7, <1>8, <1>9, <1>10 DEF QueriesNext

\* Every variable of the node keeps its type: lib/p2p/node.ts.
THEOREM QueriesTypeCorrect == QueriesSpec => []QueriesTypeOK
<1>1. QueriesInit => QueryTypes /\ BroadcastTypes
  <2>1. Empty \in Collected
    BY AskedTyped DEF Empty
  <2> QED
    BY <2>1 DEF QueriesInit, QueryTypes, BroadcastTypes, Outcomes
<1>2. (QueryTypes /\ BroadcastTypes) /\ [QueriesNext]_requestVars => (QueryTypes /\ BroadcastTypes)'
  BY QueryTypesStep, BroadcastTypesStep
<1>3. (QueryTypes /\ BroadcastTypes) => QueriesTypeOK
  BY DEF QueryTypes, BroadcastTypes, QueriesTypeOK
<1> QED
  BY <1>1, <1>2, <1>3, PTL DEF QueriesSpec

\* A step keeps pendingQueries and the timers those of the open queries.
LEMMA PendingStep ==
  ASSUME QueryTypes, PendingExact, [QueriesNext]_requestVars
  PROVE  PendingExact'
<1> USE DEF QueryTypes, PendingExact
<1>1. ASSUME NEW p \in Peers, Connect(p) \/ Disconnect(p) \/ Forget(p)
      PROVE  PendingExact'
  BY <1>1 DEF Connect, Disconnect, Forget, queryVars
<1>2. ASSUME NEW q \in Calls, NEW p \in Peers, Query(q, p)
      PROVE  PendingExact'
  BY <1>2 DEF Query
<1>3. ASSUME NEW q \in Calls, QueryTimeout(q)
      PROVE  PendingExact'
  BY <1>3, SettleTyped DEF QueryTimeout, Settled
<1>4. ASSUME NEW q \in Calls, NEW how \in {"answered", "failed"}, RequestEnds(q, how)
      PROVE  PendingExact'
  BY <1>4, SettleTyped DEF RequestEnds, Settled
<1>5. CASE StopNode
  BY <1>5 DEF StopNode
<1>6. CASE StopReturns
  BY <1>6 DEF StopReturns, queryVars
<1>7. ASSUME NEW b \in Broadcasts, NEW p \in Peers, PeerReplies(b, p)
      PROVE  PendingExact'
  BY <1>7 DEF PeerReplies, queryVars
<1>8. ASSUME NEW b \in Broadcasts,
             Broadcast(b) \/ LocalAnswers(b) \/ Collect(b) \/ BroadcastTimeout(b)
      PROVE  PendingExact'
  BY <1>8 DEF Broadcast, LocalAnswers, Collect, BroadcastTimeout, queryVars
<1>9. CASE UNCHANGED requestVars
  BY <1>9 DEF requestVars, queryVars
<1> QED
  BY <1>1, <1>2, <1>3, <1>4, <1>5, <1>6, <1>7, <1>8, <1>9 DEF QueriesNext

\* A query is in pendingQueries with its timer exactly while it is open, for
\* any number of queries: query() and stop() of lib/p2p/node.ts.
THEOREM PendingIsOpen == QueriesSpec => []PendingExact
<1>1. QueriesInit => QueryTypes /\ PendingExact
  BY DEF QueriesInit, QueryTypes, PendingExact, Outcomes
<1>2. (QueryTypes /\ PendingExact) /\ [QueriesNext]_requestVars => (QueryTypes /\ PendingExact)'
  BY QueryTypesStep, PendingStep
<1>3. (QueryTypes /\ PendingExact) => PendingExact
  OBVIOUS
<1> QED
  BY <1>1, <1>2, <1>3, PTL DEF QueriesSpec

-----------------------------------------------------------------------------
\* A late reply finds a broadcast that returned nothing, or none that is still
\* to come: a step keeps what was returned whole.
LEMMA WholeStep ==
  ASSUME BroadcastTypes, WholeOrEmpty, [QueriesNext]_requestVars
  PROVE  WholeOrEmpty'
<1> USE DEF BroadcastTypes, WholeOrEmpty
<1>0. DOMAIN Empty = {}
  BY DEF Empty
<1>1. ASSUME NEW b \in Broadcasts, NEW p \in Peers, PeerReplies(b, p)
      PROVE  WholeOrEmpty'
  <2>1. /\ UNCHANGED <<stage, result>>
        /\ p \in DOMAIN replies[b] /\ replies[b][p] = "none"
        /\ \A c \in Broadcasts \ {b} : replies'[c] = replies[c]
    BY <1>1 DEF PeerReplies
  <2>2. stage[b] = "done" => result[b] = Empty
    BY <2>1
  <2> QED
    BY <1>0, <2>1, <2>2
<1>2. ASSUME NEW b \in Broadcasts, Broadcast(b)
      PROVE  WholeOrEmpty'
  BY <1>2 DEF Broadcast
<1>3. ASSUME NEW b \in Broadcasts, LocalAnswers(b)
      PROVE  WholeOrEmpty'
  BY <1>3 DEF LocalAnswers
<1>4. ASSUME NEW b \in Broadcasts, Collect(b)
      PROVE  WholeOrEmpty'
  BY <1>4 DEF Collect, AllReplied
<1>5. ASSUME NEW b \in Broadcasts, BroadcastTimeout(b)
      PROVE  WholeOrEmpty'
  BY <1>0, <1>5 DEF BroadcastTimeout
<1>6. ASSUME UNCHANGED broadcastVars
      PROVE  WholeOrEmpty'
  BY <1>6 DEF broadcastVars
<1> QED
  BY <1>1, <1>2, <1>3, <1>4, <1>5, <1>6
     DEF QueriesNext, Connect, Disconnect, Forget, Query, QueryTimeout, RequestEnds, StopNode,
         StopReturns, requestVars

\* A broadcast returns the reply of every peer it asked or of none, for any
\* number of peers and broadcasts: broadcastQuery() of lib/p2p/node.ts.
THEOREM ReturnsWholeOrEmpty == QueriesSpec => []WholeOrEmpty
<1>1. QueriesInit => QueryTypes /\ BroadcastTypes /\ WholeOrEmpty
  <2>1. Empty \in Collected
    BY AskedTyped DEF Empty
  <2> QED
    BY <2>1 DEF QueriesInit, QueryTypes, BroadcastTypes, Outcomes, WholeOrEmpty
<1>2. (QueryTypes /\ BroadcastTypes /\ WholeOrEmpty) /\ [QueriesNext]_requestVars
        => (QueryTypes /\ BroadcastTypes /\ WholeOrEmpty)'
  BY QueryTypesStep, BroadcastTypesStep, WholeStep
<1>3. (QueryTypes /\ BroadcastTypes /\ WholeOrEmpty) => WholeOrEmpty
  OBVIOUS
<1> QED
  BY <1>1, <1>2, <1>3, PTL DEF QueriesSpec
=============================================================================
