-------------------------------- MODULE Queries --------------------------------
(***************************************************************************)
(* Request and response in the node (lib/p2p/node.ts): the peers it knows, *)
(* query() with its timer and its entry in pendingQueries, broadcastQuery()*)
(* and what stop() does to them.                                           *)
(*                                                                         *)
(* A request that was sent may be answered, may fail, or may hang: libp2p  *)
(* is outside the repository.  A timer fires at some time after it is set. *)
(***************************************************************************)
EXTENDS FiniteSets

CONSTANTS
  Peers,
  Calls,       \* calls of query()
  Broadcasts   \* calls of broadcastQuery()

VARIABLES
  phase,      \* running; stopping: stop() awaits its parts; stopped
  status,     \* status[p] in the peers map, absent when it is not there
  pending,    \* pendingQueries
  timers,     \* queries whose timer is set
  inFlight,   \* queries whose request has no answer yet
  outcome,    \* outcome[q]: how the promise of q is settled
  stage,      \* stage[b]: what broadcast b awaits
  replies,    \* replies[b][p]: for the peers b asked, what came back
  deadline,   \* broadcasts whose timer is set
  result      \* result[b]: what b returned of replies[b]

queryVars == <<pending, timers, inFlight, outcome>>
broadcastVars == <<stage, replies, deadline, result>>
requestVars == <<phase, status, queryVars, broadcastVars>>

Settled == {"answered", "failed", "timeout", "stopping"}
Outcomes == Settled \cup {"idle", "waiting"}
Replies == {"none", "success", "timeout"}
Empty == [p \in {} |-> "none"]
Collected == UNION {[S -> Replies] : S \in SUBSET Peers}

QueriesTypeOK ==
  /\ phase \in {"running", "stopping", "stopped"}
  /\ status \in [Peers -> {"absent", "online", "offline"}]
  /\ pending \subseteq Calls /\ timers \subseteq Calls /\ inFlight \subseteq Calls
  /\ outcome \in [Calls -> Outcomes]
  /\ stage \in [Broadcasts -> {"idle", "local", "peers", "done"}]
  /\ replies \in [Broadcasts -> Collected]
  /\ deadline \subseteq Broadcasts
  /\ result \in [Broadcasts -> Collected]

-----------------------------------------------------------------------------
\* peer:connect
Connect(p) ==
  /\ phase # "stopped"
  /\ status' = [status EXCEPT ![p] = "online"]
  /\ UNCHANGED <<phase, queryVars, broadcastVars>>

\* peer:disconnect of a peer in the map
Disconnect(p) ==
  /\ phase # "stopped"
  /\ status[p] # "absent"
  /\ status' = [status EXCEPT ![p] = "offline"]
  /\ UNCHANGED <<phase, queryVars, broadcastVars>>

\* periodicCleanup finds a peer five minutes offline; stop() clears its timer.
Forget(p) ==
  /\ phase = "running"
  /\ status[p] = "offline"
  /\ status' = [status EXCEPT ![p] = "absent"]
  /\ UNCHANGED <<phase, queryVars, broadcastVars>>

\* A promise that is settled stays as it is.
Settle(q, how) ==
  outcome' = [outcome EXCEPT ![q] = IF @ = "waiting" THEN how ELSE @]

\* query() of a peer the node knows, offline or not.  During stop() libp2p is
\* still there.
Query(q, p) ==
  /\ phase # "stopped"
  /\ status[p] # "absent"
  /\ outcome[q] = "idle"
  /\ outcome' = [outcome EXCEPT ![q] = "waiting"]
  /\ pending' = pending \cup {q}
  /\ timers' = timers \cup {q}
  /\ inFlight' = inFlight \cup {q}
  /\ UNCHANGED <<phase, status, broadcastVars>>

\* The timer of a query; its request stays in flight.
QueryTimeout(q) ==
  /\ q \in timers
  /\ timers' = timers \ {q}
  /\ pending' = pending \ {q}
  /\ Settle(q, "timeout")
  /\ UNCHANGED <<phase, status, inFlight, broadcastVars>>

\* A request that keeps its timer when it ends.
RequestEndsUntimed(q, how) ==
  /\ q \in inFlight
  /\ inFlight' = inFlight \ {q}
  /\ pending' = pending \ {q}
  /\ Settle(q, how)
  /\ UNCHANGED <<phase, status, timers, broadcastVars>>

\* The answer to a request, or its failure, in time or late.
RequestEnds(q, how) ==
  /\ q \in inFlight
  /\ inFlight' = inFlight \ {q}
  /\ timers' = timers \ {q}
  /\ pending' = pending \ {q}
  /\ Settle(q, how)
  /\ UNCHANGED <<phase, status, broadcastVars>>

\* A stop() that drops the pending queries without rejecting them.
StopSilently ==
  /\ phase = "running"
  /\ phase' = "stopping"
  /\ timers' = timers \ pending
  /\ pending' = {}
  /\ UNCHANGED <<status, inFlight, outcome, broadcastVars>>

\* stop() up to its first await: every pending query is rejected.
StopNode ==
  /\ phase = "running"
  /\ phase' = "stopping"
  /\ timers' = timers \ pending
  /\ pending' = {}
  /\ outcome' = [q \in Calls |-> IF q \in pending /\ outcome[q] = "waiting"
                                 THEN "stopping" ELSE outcome[q]]
  /\ UNCHANGED <<status, inFlight, broadcastVars>>

StopReturns ==
  /\ phase = "stopping"
  /\ phase' = "stopped"
  /\ UNCHANGED <<status, queryVars, broadcastVars>>

-----------------------------------------------------------------------------
\* broadcastQuery() asks the peers online; it does not look at libp2p.
Broadcast(b) ==
  /\ stage[b] = "idle"
  /\ stage' = [stage EXCEPT ![b] = "local"]
  /\ replies' = [replies EXCEPT ![b] =
                   [p \in {p \in Peers : status[p] = "online"} |-> "none"]]
  /\ UNCHANGED <<phase, status, queryVars, deadline, result>>

\* A peer answers, or the request fails; after the return nobody listens.
PeerReplies(b, p) ==
  /\ p \in DOMAIN replies[b] /\ replies[b][p] = "none"
  /\ \E reply \in {"success", "timeout"} : replies' = [replies EXCEPT ![b][p] = reply]
  /\ UNCHANGED <<phase, status, queryVars, stage, deadline, result>>

\* The node's own answer; only now is the timer set.
LocalAnswers(b) ==
  /\ stage[b] = "local"
  /\ stage' = [stage EXCEPT ![b] = "peers"]
  /\ deadline' = deadline \cup {b}
  /\ UNCHANGED <<phase, status, queryVars, replies, result>>

\* A broadcast content with the first reply.
AnyReplied(b) == \E p \in DOMAIN replies[b] : replies[b][p] # "none"

AllReplied(b) == \A p \in DOMAIN replies[b] : replies[b][p] # "none"

\* Every peer replied: Promise.all() wins the race.
Collect(b) ==
  /\ stage[b] = "peers" /\ AllReplied(b)
  /\ stage' = [stage EXCEPT ![b] = "done"]
  /\ result' = [result EXCEPT ![b] = replies[b]]
  /\ UNCHANGED <<phase, status, queryVars, replies, deadline>>

\* The timer wins the race with an empty list, or comes after it.
BroadcastTimeout(b) ==
  /\ b \in deadline
  /\ deadline' = deadline \ {b}
  /\ \/ /\ stage[b] = "peers" /\ ~AllReplied(b)
        /\ stage' = [stage EXCEPT ![b] = "done"]
        /\ result' = [result EXCEPT ![b] = Empty]
     \/ /\ stage[b] = "done"
        /\ UNCHANGED <<stage, result>>
  /\ UNCHANGED <<phase, status, queryVars, replies>>

-----------------------------------------------------------------------------
QueriesInit ==
  /\ phase = "running"
  /\ status = [p \in Peers |-> "absent"]
  /\ pending = {} /\ timers = {} /\ inFlight = {}
  /\ outcome = [q \in Calls |-> "idle"]
  /\ stage = [b \in Broadcasts |-> "idle"]
  /\ replies = [b \in Broadcasts |-> Empty]
  /\ deadline = {}
  /\ result = [b \in Broadcasts |-> Empty]

QueriesNext ==
  \/ \E p \in Peers : Connect(p) \/ Disconnect(p) \/ Forget(p)
  \/ \E q \in Calls, p \in Peers : Query(q, p)
  \/ \E q \in Calls : QueryTimeout(q)
  \/ \E q \in Calls, how \in {"answered", "failed"} : RequestEnds(q, how)
  \/ StopNode \/ StopReturns
  \/ \E b \in Broadcasts, p \in Peers : PeerReplies(b, p)
  \/ \E b \in Broadcasts :
       Broadcast(b) \/ LocalAnswers(b) \/ Collect(b) \/ BroadcastTimeout(b)

\* A timer that is set fires, and a resolved promise runs what awaits it: the
\* node answers its own requests at once, for no handler is registered in it.
QueriesFairness ==
  /\ \A q \in Calls : WF_requestVars(QueryTimeout(q))
  /\ \A b \in Broadcasts :
       /\ WF_requestVars(LocalAnswers(b)) /\ WF_requestVars(Collect(b))
       /\ WF_requestVars(BroadcastTimeout(b))

QueriesSpec == QueriesInit /\ [][QueriesNext]_requestVars
QueriesFairSpec == QueriesSpec /\ QueriesFairness

-----------------------------------------------------------------------------
(***************************************************************************)
(* Properties                                                              *)
(***************************************************************************)

\* A query is in pendingQueries, and has its timer, exactly while its promise
\* is open: no answer, failure, timeout or stop(), in whatever order, leaves an
\* entry or a timer behind or takes one from an open query.
PendingExact ==
  \A q \in Calls :
    /\ q \in pending <=> outcome[q] = "waiting"
    /\ q \in timers <=> outcome[q] = "waiting"

\* Every query() is settled, also one that is made while stop() runs, whatever
\* becomes of its request; every broadcastQuery() returns, even when no peer
\* ever replies.
CallsReturn ==
  /\ \A q \in Calls : outcome[q] = "waiting" ~> outcome[q] \in Settled
  /\ \A b \in Broadcasts : stage[b] = "local" ~> stage[b] = "done"

\* A broadcast returns the replies of every peer it asked, or none: a reply
\* that comes late neither completes nor changes what was returned.
WholeOrEmpty ==
  \A b \in Broadcasts : stage[b] = "done" =>
    /\ result[b] \in {Empty, replies[b]}
    /\ \A p \in DOMAIN result[b] : result[b][p] # "none"
==============================================================================
