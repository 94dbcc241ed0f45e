------------------------------- MODULE Failover -------------------------------
(***************************************************************************)
(* One call of GNNNode.dialPeerWithFailover: the staggered dials of        *)
(* connectWithFailover (lib/p2p/connection/failover.ts) to the addresses   *)
(* of a peer, and what the node reports of the result to its metrics.      *)
(*                                                                         *)
(* An address is known by its transport, with the priority and the timeout *)
(* the strategy gives that transport.  The clock counts staggering delays  *)
(* (500 ms); the timers of the call fire when they are due.                *)
(***************************************************************************)
EXTENDS Integers, FiniteSets, Sequences

CONSTANTS
  Transports,
  PriorityOf,     \* PriorityOf[t]; 99 for a transport the strategy does not list
  DialTimeoutOf,  \* DialTimeoutOf[t]; the strategy's own for those
  MaxConcurrent,  \* maxConcurrentAttempts
  MaxAddresses    \* bound on the addresses of the peer

ASSUME FailoverAssumption ==
  /\ PriorityOf \in [Transports -> Nat]
  /\ DialTimeoutOf \in [Transports -> Nat \ {0}]
  /\ MaxConcurrent \in Nat /\ MaxAddresses \in Nat

VARIABLES
  addresses,  \* the transports of the addresses, in the order they are given
  clock,
  attempt,    \* attempt[i]: what the attempt in place i is at
  dial,       \* dial[i]: the dial it has begun, as libp2p sees it
  completed,  \* completed
  answer,     \* what the call returns
  reported,   \* the calls of the metrics collector
  \* History; nothing reads it.
  begun,      \* begun[i]: when the attempt began to dial
  reached     \* reached[i]: when its dial connected

failoverVars == <<addresses, clock, attempt, dial, completed, answer, reported, begun, reached>>

Open == {"delayed", "dialing"}
Pending == "pending"
Unset == -1
NoReport == [attempts |-> 0, successes |-> 0, failovers |-> 0]

-----------------------------------------------------------------------------
Before(i, j) ==
  \/ PriorityOf[addresses[i]] < PriorityOf[addresses[j]]
  \/ PriorityOf[addresses[i]] = PriorityOf[addresses[j]] /\ i < j

Earlier(i) == {j \in DOMAIN addresses : Before(j, i)}

\* sortByPriority, which is stable: sorted[i] is the address in place i.
Sorted == [i \in DOMAIN addresses |->
             CHOOSE j \in DOMAIN addresses : Cardinality(Earlier(j)) = i - 1]

\* The loop makes no more attempts than it may.
Attempts == 1 .. (IF Len(addresses) < MaxConcurrent THEN Len(addresses) ELSE MaxConcurrent)
Transport(i) == addresses[Sorted[i]]

\* When attempt i may begin to dial, and when the dial times out.
DialDue(i) == i - 1
Deadline(i) == begun[i] + DialTimeoutOf[Transport(i)]

Move(i, stage) == attempt' = [attempt EXCEPT ![i] = stage]

\* The delay is over: the attempt is cancelled or begins to dial.
Begin(i) ==
  /\ attempt[i] = "delayed" /\ clock >= DialDue(i)
  /\ \/ /\ completed
        /\ Move(i, "cancelled")
        /\ UNCHANGED <<dial, begun>>
     \/ /\ ~completed
        /\ Move(i, "dialing")
        /\ dial' = [dial EXCEPT ![i] = "open"]
        /\ begun' = [begun EXCEPT ![i] = clock]
  /\ UNCHANGED <<addresses, clock, completed, answer, reported, reached>>

\* An attempt that takes a connection for a success whatever came before.
ConnectAlways(i) ==
  /\ dial[i] = "open"
  /\ dial' = [dial EXCEPT ![i] = "connected"]
  /\ reached' = [reached EXCEPT ![i] = clock]
  /\ \/ attempt[i] = "dialing" /\ Move(i, "won") /\ completed' = TRUE
     \/ attempt[i] # "dialing" /\ UNCHANGED <<attempt, completed>>
  /\ UNCHANGED <<addresses, clock, answer, reported, begun>>

\* libp2p.dial resolves.  The first attempt it happens to wins; an attempt that
\* has timed out does not learn of it.
Connect(i) ==
  /\ dial[i] = "open"
  /\ dial' = [dial EXCEPT ![i] = "connected"]
  /\ reached' = [reached EXCEPT ![i] = clock]
  /\ \/ attempt[i] = "dialing" /\ ~completed /\ Move(i, "won") /\ completed' = TRUE
     \/ attempt[i] = "dialing" /\ completed /\ Move(i, "superseded") /\ UNCHANGED completed
     \/ attempt[i] # "dialing" /\ UNCHANGED <<attempt, completed>>
  /\ UNCHANGED <<addresses, clock, answer, reported, begun>>

\* libp2p.dial rejects.
Refuse(i) ==
  /\ dial[i] = "open"
  /\ dial' = [dial EXCEPT ![i] = "refused"]
  /\ IF attempt[i] = "dialing" THEN Move(i, "failed") ELSE UNCHANGED attempt
  /\ UNCHANGED <<addresses, clock, completed, answer, reported, begun, reached>>

\* A race that only the dial can end.
NeverExpired(i) == FALSE

Expired(i) == clock >= Deadline(i)

\* The timeout wins the race; the dial goes on.
TimeOut(i) ==
  /\ attempt[i] = "dialing" /\ Expired(i)
  /\ Move(i, "failed")
  /\ UNCHANGED <<addresses, clock, dial, completed, answer, reported, begun, reached>>

\* dialPeerWithFailover tells the metrics: one attempt, for the whole call.
Report(success) ==
  [attempts |-> reported.attempts + 1,
   successes |-> reported.successes + (IF success THEN 1 ELSE 0),
   failovers |-> reported.failovers + (IF success THEN 0 ELSE 1)]

\* Promise.all: the call returns when the last attempt has ended.
Return ==
  /\ answer = Pending
  /\ \A i \in Attempts : attempt[i] \notin Open
  /\ LET won == {i \in Attempts : attempt[i] = "won"}
     IN  /\ answer' = IF won = {} THEN "failed" ELSE "connected"
         /\ reported' = Report(won # {})
  /\ UNCHANGED <<addresses, clock, attempt, dial, completed, begun, reached>>

\* Time passes while the call runs; a timer that is due fires first.
Wait ==
  /\ answer = Pending
  /\ \E i \in Attempts : attempt[i] \in Open
  /\ \A i \in Attempts : attempt[i] = "delayed" => clock < DialDue(i)
  /\ \A i \in Attempts : attempt[i] = "dialing" => clock < Deadline(i)
  /\ clock' = clock + 1
  /\ UNCHANGED <<addresses, attempt, dial, completed, answer, reported, begun, reached>>

-----------------------------------------------------------------------------
FailoverInit ==
  /\ addresses \in UNION {[1 .. n -> Transports] : n \in 0 .. MaxAddresses}
  /\ clock = 0
  /\ attempt = [i \in Attempts |-> "delayed"]
  /\ dial = [i \in Attempts |-> "none"]
  /\ completed = FALSE
  /\ answer = Pending
  /\ reported = NoReport
  /\ begun = [i \in Attempts |-> Unset]
  /\ reached = [i \in Attempts |-> Unset]

Attempt(i) == Begin(i) \/ Connect(i) \/ Refuse(i) \/ TimeOut(i)

FailoverNext == (\E i \in Attempts : Attempt(i)) \/ Return \/ Wait

FailoverSpec == FailoverInit /\ [][FailoverNext]_failoverVars

\* Timers fire and promises that are settled are seen; no dial need ever settle.
FailoverFairness ==
  /\ WF_failoverVars(Return) /\ WF_failoverVars(Wait)
  /\ \A i \in 1 .. MaxAddresses : WF_failoverVars(i \in Attempts /\ (Begin(i) \/ TimeOut(i)))

-----------------------------------------------------------------------------
(***************************************************************************)
(* Properties                                                              *)
(***************************************************************************)

\* The attempt that wins connected first among those that had not timed out,
\* and one wins exactly when some attempt did connect in time.
WinnerWasFirst ==
  LET inTime == {i \in Attempts : reached[i] # Unset /\ attempt[i] # "failed"}
      won == {i \in Attempts : attempt[i] = "won"}
  IN  /\ \A i \in won : \A j \in inTime : reached[i] <= reached[j]
      /\ won # {} <=> inTime # {}
      /\ Cardinality(won) <= 1

\* Once an address has won no other one is dialled: the stagger spares a peer
\* whose best address answers the dials to the others.
NoDialAfterWin ==
  \A i, j \in Attempts :
    (attempt[i] = "won" /\ begun[j] # Unset) => begun[j] <= reached[i]

\* The metrics hear of the call once, and of its outcome.
OutcomeReported ==
  /\ reported.attempts = 1
  /\ reported.successes + reported.failovers = 1
  /\ reported.successes = 1 <=> answer = "connected"

\* First successful connection wins, whatever the order in which dials of
\* staggered attempts connect, fail and time out.
FirstConnectionWins ==
  /\ NoDialAfterWin
  /\ answer # Pending => WinnerWasFirst /\ OutcomeReported

\* The call returns although dials may hang for ever.
DialReturns == <>(answer # Pending)
=============================================================================
