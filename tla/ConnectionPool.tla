---------------------------- MODULE ConnectionPool ----------------------------
(***************************************************************************)
(* The connection pool (lib/p2p/connection/pool.ts).  Every method is      *)
(* synchronous and so one action.  The latency and the transport of a      *)
(* connection are not modelled; of the order in which the map lists its    *)
(* peers only one thing matters, which of two equally old connections goes *)
(* first, and it is left open.                                             *)
(***************************************************************************)
EXTENDS Integers, FiniteSets, Sequences, SequencesExt, Functions, Subsequence

CONSTANTS
  Peers,
  MaxPoolSize, ReuseThreshold, IdleTimeout, ConnectionTTL,
  Interval,     \* of the cleanup timer, thirty seconds
  MaxTime       \* bound on the clock

ASSUME PoolAssumption ==
  /\ MaxPoolSize \in Nat \ {0} /\ ReuseThreshold \in Nat \ {0}
  /\ {IdleTimeout, ConnectionTTL, MaxTime} \subseteq Nat
  /\ Interval \in Nat \ {0}

VARIABLES
  now,
  pool,       \* pool[p]: the connections of p, for the peers the map holds
  running,    \* whether the cleanup timer is set
  sinceClean, \* time since the timer last fired
  added       \* history: the peer the last call added a connection for

vars == <<now, pool, running, sinceClean, added>>

PoolEntry == [created : Nat, used : Nat, streams : Nat, healthy : BOOLEAN]

\* Map.set and Map.delete
With(f, p, entries) == [q \in DOMAIN f \cup {p} |-> IF q = p THEN entries ELSE f[q]]
Without(f, p) == Restrict(f, DOMAIN f \ {p})

TypeOK ==
  /\ now \in Nat
  /\ DOMAIN pool \subseteq Peers
  /\ \A p \in DOMAIN pool :
       pool[p] \in Seq(PoolEntry) /\ \A i \in DOMAIN pool[p] :
         /\ pool[p][i].created <= pool[p][i].used /\ pool[p][i].used <= now
         /\ pool[p][i].streams <= ReuseThreshold
  /\ running \in BOOLEAN
  /\ sinceClean \in 0 .. Interval
  /\ added \subseteq Peers

-----------------------------------------------------------------------------
\* The places of a pool: which connection of which peer.
Places(f) == UNION {{p} \X DOMAIN f[p] : p \in DOMAIN f}

\* getTotalConnections
Total(f) == Cardinality(Places(f))

\* The peers that hold a connection unused for the longest time.
OldestPeers(f) ==
  {p \in DOMAIN f : \E i \in DOMAIN f[p] :
     \A q \in DOMAIN f : \A j \in DOMAIN f[q] : f[p][i].used <= f[q][j].used}

\* evictOldest, once the peer is chosen: the first connection of its array.
EvictedFrom(f, p) ==
  IF Len(f[p]) = 1 THEN Without(f, p) ELSE With(f, p, Tail(f[p]))

\* A pool that makes room one connection too late.
FullLate(f) == Total(f) > MaxPoolSize

Full(f) == Total(f) >= MaxPoolSize

\* addConnection.  The array of p is looked up before the eviction and
\* extended after it; when the eviction drops that array from the map, the
\* new connection goes with it.
AddConnection(p) ==
  LET entry == [created |-> now, used |-> now, streams |-> 0, healthy |-> TRUE]
      base == IF p \in DOMAIN pool THEN pool ELSE With(pool, p, <<>>)
  IN  /\ \/ /\ ~Full(base)
            /\ pool' = With(base, p, Append(base[p], entry))
         \/ /\ Full(base)
            /\ \E q \in OldestPeers(base) :
                 LET room == EvictedFrom(base, q)
                 IN  pool' = IF p \in DOMAIN room
                             THEN With(room, p, Append(room[p], entry)) ELSE room
      /\ added' = {p}
      /\ UNCHANGED <<now, running, sinceClean>>

Reusable(entry) == entry.healthy /\ entry.streams < ReuseThreshold

\* The index of the connection getConnection returns, or zero.
Found(p) == SelectInSeq(pool[p], Reusable)

\* getConnection when there is one; a miss changes nothing.
GetConnection(p) ==
  /\ p \in DOMAIN pool /\ Found(p) # 0
  /\ pool' = [pool EXCEPT ![p][Found(p)].used = now]
  /\ added' = {}
  /\ UNCHANGED <<now, running, sinceClean>>

IncrementStreams(p) ==
  /\ p \in DOMAIN pool /\ Found(p) # 0
  /\ pool' = [pool EXCEPT ![p][Found(p)].used = now, ![p][Found(p)].streams = @ + 1]
  /\ added' = {}
  /\ UNCHANGED <<now, running, sinceClean>>

\* The first connection with a stream loses one, whichever the stream was on.
DecrementStreams(p) ==
  /\ p \in DOMAIN pool
  /\ LET i == SelectInSeq(pool[p], LAMBDA entry : entry.streams > 0)
     IN  i # 0 /\ pool' = [pool EXCEPT ![p][i].streams = @ - 1]
  /\ added' = {}
  /\ UNCHANGED <<now, running, sinceClean>>

MarkUnhealthy(p) ==
  /\ p \in DOMAIN pool
  /\ pool' = [pool EXCEPT ![p] =
                [i \in DOMAIN pool[p] |-> [pool[p][i] EXCEPT !.healthy = FALSE]]]
  /\ added' = {}
  /\ UNCHANGED <<now, running, sinceClean>>

RemovePeer(p) ==
  /\ p \in DOMAIN pool
  /\ pool' = Without(pool, p)
  /\ added' = {}
  /\ UNCHANGED <<now, running, sinceClean>>

\* A cleanup that only looks at the health and the last use.
ActiveIdle(entry) == entry.healthy /\ now - entry.used <= IdleTimeout

\* The connections cleanup keeps.
Active(entry) ==
  /\ entry.healthy
  /\ now - entry.created <= ConnectionTTL
  /\ now - entry.used <= IdleTimeout

\* connections.filter
Kept(s) == Picked(s, {i \in DOMAIN s : Active(s[i])})

Cleaned(f) ==
  [p \in {q \in DOMAIN f : \E i \in DOMAIN f[q] : Active(f[q][i])} |-> Kept(f[p])]

Cleanup ==
  /\ running
  /\ pool' = Cleaned(pool)
  /\ sinceClean' = 0
  /\ added' = {}
  /\ UNCHANGED <<now, running>>

\* stop() clears the timer and the pool; the node drops the pool with it.
Stop ==
  /\ running
  /\ running' = FALSE
  /\ pool' = <<>>
  /\ added' = {}
  /\ UNCHANGED <<now, sinceClean>>

\* Time passes; the timer fires when it is due.
Tick ==
  /\ now < MaxTime
  /\ sinceClean < Interval
  /\ now' = now + 1
  /\ sinceClean' = sinceClean + 1
  /\ added' = {}
  /\ UNCHANGED <<pool, running>>

-----------------------------------------------------------------------------
Init ==
  /\ now = 0
  /\ pool = <<>>
  /\ running = TRUE
  /\ sinceClean = 0
  /\ added = {}

Next ==
  \/ \E p \in Peers :
       /\ running
       /\ \/ AddConnection(p) \/ GetConnection(p)
          \/ IncrementStreams(p) \/ DecrementStreams(p)
          \/ MarkUnhealthy(p) \/ RemovePeer(p)
  \/ Cleanup \/ Stop \/ Tick

Spec == Init /\ [][Next]_vars

-----------------------------------------------------------------------------
(***************************************************************************)
(* Properties                                                              *)
(***************************************************************************)

\* However peers come and go, the pool never holds more connections than
\* maxPoolSize, for addConnection makes room before it adds; and the peers that
\* getPeerCount counts are those with a connection, for evictions and cleanups
\* leave no peer behind with an empty array.
PoolBounded ==
  /\ Total(pool) <= MaxPoolSize
  /\ \A p \in DOMAIN pool : pool[p] # <<>>

\* getConnection does not look at the age of a connection, and yet never hands
\* out one older than its lifetime plus one cleanup interval, however often it
\* is used in between.  It needs a cleanup timer that fires in time.
NoStaleConnection ==
  \A p \in DOMAIN pool : \A i \in DOMAIN pool[p] :
    now - pool[p][i].created <= ConnectionTTL + Interval

\* What addConnection says it does: the connection is in the pool.
AddedIsPooled == added \subseteq DOMAIN pool
=============================================================================
