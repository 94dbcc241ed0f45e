----------------------------- MODULE MessageIngress -----------------------------
(***************************************************************************)
(* How a published message reaches the queue of a node: the pub-sub        *)
(* handler, publish() and stop() of lib/p2p/node.ts around verify() of     *)
(* lib/security/verification/pipeline.ts, over the rate limiter.           *)
(*                                                                         *)
(* The handler does not await verify(): any number of verifications are in *)
(* flight at once.  Up to its first await verify() is synchronous, so the  *)
(* whole decision is one action (Receive); what remains in flight is the   *)
(* reputation update, whose success (Settle) or failure (Fail) decides     *)
(* whether the message is queued.                                          *)
(***************************************************************************)
EXTENDS RateLimiter, Sequences

CONSTANTS
  Messages,   \* published messages of other nodes that may arrive
  Own,        \* messages published by this node
  MaxAge,     \* MAX_MESSAGE_AGE_MS, five minutes
  MaxSkew,    \* tolerance for timestamps of the future, thirty seconds
  MaxQueue,   \* MAX_QUEUE_SIZE
  MaxCopies   \* bound on the deliveries of one message

Message == [sender : Peers, id : Ids, timestamp : Nat,
            signed : BOOLEAN, genuine : BOOLEAN]

ASSUME IngressAssumption ==
  /\ Messages \subseteq Message
  /\ Own \cap Messages = {}
  /\ MaxAge \in Nat /\ MaxSkew \in Nat
  /\ MaxQueue \in Nat \ {0}
  /\ MaxCopies \in Nat

VARIABLES
  phase,      \* running; stopping: the pipeline is null, libp2p still runs; stopped
  blocked,    \* senders isBlocklisted() answers true for
  inFlight,   \* inFlight[m][v]: verifications of m awaiting updateScore
  publishing, \* own messages handed to pubsub.publish and not yet queued
  queue,      \* messageQueue
  \* History; no operation reads it, except that copies bounds the deliveries.
  copies,     \* copies[m]: deliveries of m so far
  accepted,   \* accepted[m]: times verify() decided to accept m
  admitted,   \* admitted[m]: times m was queued after verify() had accepted it
  published   \* own messages published so far

nodeVars == <<phase, blocked, inFlight, publishing, queue>>
ingressHistory == <<copies, accepted, admitted, published>>
ingressVars == <<vars, nodeVars, ingressHistory>>

Verdicts == {"accept", "reject"}
KeyOf(m) == <<m.sender, m.id>>

IngressTypeOK ==
  /\ TypeOK
  /\ phase \in {"running", "stopping", "stopped"}
  /\ blocked \subseteq Peers
  /\ inFlight \in [Messages -> [Verdicts -> Nat]]
  /\ publishing \subseteq Own
  /\ queue \in Seq(Messages \cup Own)
  /\ copies \in [Messages -> Nat]
  /\ accepted \in [Messages -> Nat]
  /\ admitted \in [Messages -> Nat]
  /\ published \subseteq Own

-----------------------------------------------------------------------------
\* enqueueMessage, and the same lines of publish(): the oldest makes room.
Enqueued(m) ==
  Append(IF Len(queue) >= MaxQueue THEN Tail(queue) ELSE queue, m)

\* verifyTimestamp
Timely(m) ==
  /\ now - m.timestamp <= MaxAge
  /\ m.timestamp - now <= MaxSkew

Await(m, v) == inFlight' = [inFlight EXCEPT ![m][v] = @ + 1]

Accept(m) ==
  /\ Await(m, "accept")
  /\ accepted' = [accepted EXCEPT ![m] = @ + 1]

\* The checks of verify() up to the first await, in their order: blocklist,
\* signature present, signature valid, timestamp, rate limit, duplicate.  The
\* first and the fourth reject at once; every other outcome awaits updateScore.
Verify(m) ==
  \/ /\ m.sender \in blocked
     /\ UNCHANGED <<limiterVars, historyVars, inFlight, accepted>>
  \/ /\ m.sender \notin blocked
     /\ ~m.signed \/ ~m.genuine
     /\ Await(m, "reject")
     /\ UNCHANGED <<limiterVars, historyVars, accepted>>
  \/ /\ m.sender \notin blocked
     /\ m.signed /\ m.genuine
     /\ ~Timely(m)
     /\ UNCHANGED <<limiterVars, historyVars, inFlight, accepted>>
  \/ /\ m.sender \notin blocked
     /\ m.signed /\ m.genuine
     /\ Timely(m)
     /\ Charge(m.sender, "message")
     /\ RecordCharge(m.sender, "message")
     /\ IF Allowed(m.sender, "message")
        THEN /\ MarkSeen(KeyOf(m))
             /\ IF Duplicate(KeyOf(m))
                THEN Await(m, "reject") /\ UNCHANGED accepted
                ELSE Accept(m)
        ELSE /\ Await(m, "reject")
             /\ UNCHANGED <<recent, lastFresh, accepted>>

\* The pub-sub handler while the pipeline is there.
Receive(m) ==
  /\ phase = "running"
  /\ copies[m] < MaxCopies
  /\ copies' = [copies EXCEPT ![m] = @ + 1]
  /\ Verify(m)
  /\ UNCHANGED <<now, phase, blocked, publishing, queue, admitted, published>>

\* The same handler once stop() has dropped the pipeline: the message is
\* queued as it is.
ReceiveUnverified(m) ==
  /\ phase = "stopping"
  /\ copies[m] < MaxCopies
  /\ copies' = [copies EXCEPT ![m] = @ + 1]
  /\ queue' = Enqueued(m)
  /\ UNCHANGED <<vars, phase, blocked, inFlight, publishing,
                 accepted, admitted, published>>

Landed(m, v) == inFlight' = [inFlight EXCEPT ![m][v] = @ - 1]

\* A then() that queues nothing once stop() has begun.
SettleRunning(m, v) ==
  /\ inFlight[m][v] > 0
  /\ Landed(m, v)
  /\ IF v = "accept" /\ phase = "running"
     THEN queue' = Enqueued(m) /\ admitted' = [admitted EXCEPT ![m] = @ + 1]
     ELSE UNCHANGED <<queue, admitted>>
  /\ UNCHANGED <<vars, phase, blocked, publishing, copies, accepted, published>>

\* updateScore resolves; then() queues an accepted message.
Settle(m, v) ==
  /\ inFlight[m][v] > 0
  /\ Landed(m, v)
  /\ IF v = "accept"
     THEN queue' = Enqueued(m) /\ admitted' = [admitted EXCEPT ![m] = @ + 1]
     ELSE UNCHANGED <<queue, admitted>>
  /\ UNCHANGED <<vars, phase, blocked, publishing, copies, accepted, published>>

\* updateScore rejects; catch() queues the message, whatever was decided.
Fail(m, v) ==
  /\ inFlight[m][v] > 0
  /\ Landed(m, v)
  /\ queue' = Enqueued(m)
  /\ admitted' = IF v = "accept" THEN [admitted EXCEPT ![m] = @ + 1] ELSE admitted
  /\ UNCHANGED <<vars, phase, blocked, publishing, copies, accepted, published>>

\* publish() up to the await of pubsub.publish.
Publish(o) ==
  /\ phase # "stopped"
  /\ o \notin published
  /\ published' = published \cup {o}
  /\ publishing' = publishing \cup {o}
  /\ UNCHANGED <<vars, phase, blocked, inFlight, queue, copies, accepted, admitted>>

\* publish() after the await; a failed pubsub.publish throws instead.
PublishReturns(o) ==
  /\ o \in publishing
  /\ publishing' = publishing \ {o}
  /\ queue' \in {Enqueued(o), queue}
  /\ UNCHANGED <<vars, phase, blocked, inFlight, ingressHistory>>

\* The blocklist decides, through add(), remove() and expiry.
SetBlocked(p) ==
  /\ blocked' \in {blocked \cup {p}, blocked \ {p}}
  /\ blocked' # blocked
  /\ UNCHANGED <<vars, phase, inFlight, publishing, queue, ingressHistory>>

\* stop() up to the await of libp2p.stop().
Stop ==
  /\ phase = "running"
  /\ phase' = "stopping"
  /\ UNCHANGED <<vars, blocked, inFlight, publishing, queue, ingressHistory>>

StopReturns ==
  /\ phase = "stopping"
  /\ phase' = "stopped"
  /\ UNCHANGED <<vars, blocked, inFlight, publishing, queue, ingressHistory>>

\* The cleanup timer of the limiter, which stop() clears.
LimiterCleanup ==
  /\ phase = "running"
  /\ Cleanup
  /\ UNCHANGED <<nodeVars, ingressHistory>>

IngressTick == Tick /\ UNCHANGED <<nodeVars, ingressHistory>>

-----------------------------------------------------------------------------
IngressInit ==
  /\ Init
  /\ phase = "running"
  /\ blocked = {}
  /\ inFlight = [m \in Messages |-> [v \in Verdicts |-> 0]]
  /\ publishing = {}
  /\ queue = <<>>
  /\ copies = [m \in Messages |-> 0]
  /\ accepted = [m \in Messages |-> 0]
  /\ admitted = [m \in Messages |-> 0]
  /\ published = {}

IngressNext ==
  \/ \E m \in Messages : Receive(m) \/ ReceiveUnverified(m)
  \/ \E m \in Messages, v \in Verdicts : Settle(m, v) \/ Fail(m, v)
  \/ \E o \in Own : Publish(o) \/ PublishReturns(o)
  \/ \E p \in Peers : SetBlocked(p)
  \/ Stop \/ StopReturns
  \/ LimiterCleanup
  \/ IngressTick

IngressSpec == IngressInit /\ [][IngressNext]_ingressVars

-----------------------------------------------------------------------------
(***************************************************************************)
(* Properties                                                              *)
(***************************************************************************)

\* Two acceptances of one message lie at least a duplicate window apart, however
\* often it is delivered and whenever the limiter forgets; all of them lie in the
\* time during which verifyTimestamp lets it pass.  So verify() repeats itself no
\* oftener than windows fit in that time: never when the window is the longer one.
RepeatsBounded ==
  Enabled =>
    \A m \in Messages :
      accepted[m] > 0 => (accepted[m] - 1) * DupWindow <= MaxAge + MaxSkew

\* Every acceptance queues its message exactly once, or is still in flight:
\* neither stop(), nor a reputation update that fails, nor another copy of the
\* message loses an accepted message or queues it twice.
AdmittedExact ==
  \A m \in Messages : admitted[m] + inFlight[m]["accept"] = accepted[m]

\* The acceptances of messages of one peer, each message with its ordinal.
AcceptancesOf(p) ==
  UNION {{m} \X (1 .. accepted[m]) : m \in {x \in Messages : x.sender = p}}

\* The messages accepted from one peer since the start stay within a full
\* bucket plus what the elapsed time earned, redeliveries, rejections and
\* evictions notwithstanding.
AcceptedWithinRate ==
  \A p \in Peers :
    Cardinality(AcceptancesOf(p)) * PeerWindow
      <= PeerCapacity["message"] * (PeerWindow + now)

\* Both writers of the queue, the handler and publish(), keep its bound.
QueueBounded == Len(queue) <= MaxQueue

=============================================================================
