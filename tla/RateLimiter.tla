------------------------------ MODULE RateLimiter ------------------------------
(***************************************************************************)
(* The rate limiter of lib/security/ratelimit/limiter.ts: one token bucket *)
(* for the whole node, a pair of buckets per peer, and the map of recently *)
(* seen messages.  Every method is synchronous, hence one action each.     *)
(*                                                                         *)
(* TokenBucket.refill computes (elapsed / interval) * capacity in floating *)
(* point.  Tokens are counted here in units of 1/interval, which makes the *)
(* same arithmetic exact over the integers: a full bucket holds            *)
(* capacity * interval units, a token is worth interval units and every    *)
(* millisecond brings capacity units.                                      *)
(***************************************************************************)
EXTENDS Integers, FiniteSets

CONSTANTS
  Peers,         \* peer identifiers (message.sender)
  Ids,           \* message identifiers
  Enabled,       \* config.enabled
  PeerCapacity,  \* perPeer.messagesPerSecond and perPeer.queriesPerSecond
  PeerWindow,    \* perPeer.windowSizeMs
  GlobalCapacity,\* global.messagesPerSecond
  GlobalWindow,  \* global.windowSizeMs
  DupWindow,     \* spam.duplicateWindowMs
  StaleAfter,    \* staleThreshold of cleanup(), one hour
  MaxTime        \* bound on the clock

Kinds == {"message", "query"}

ASSUME ConfigAssumption ==
  /\ Enabled \in BOOLEAN
  /\ PeerCapacity \in [Kinds -> Nat \ {0}]
  /\ PeerWindow \in Nat \ {0}
  /\ GlobalCapacity \in Nat \ {0}
  /\ GlobalWindow \in Nat \ {0}
  /\ DupWindow \in Nat
  /\ StaleAfter \in Nat
  /\ MaxTime \in Nat

\* An idle bucket is full again before cleanup() may call it stale: the code
\* waits an hour, the windows of the configuration are seconds.
ASSUME StaleAssumption == StaleAfter >= PeerWindow

VARIABLES
  now,           \* Date.now()
  globalBucket,  \* globalBucket
  peerBuckets,   \* peerBuckets: a map from the peers seen to their buckets
  recent,        \* recentMessages: key -> time it was marked, or NoTime
  \* History of what the limiter answered; no operation reads it.
  since,         \* since[p]: the start of an arbitrary interval of observation
  granted,       \* granted[p][k]: checks allowed to p by its bucket since then
  grantedGlobal, \* checks allowed by the global bucket since the first instant
  lastFresh      \* lastFresh[key]: when key was last reported as not a duplicate

limiterVars == <<globalBucket, peerBuckets, recent>>
historyVars == <<since, granted, grantedGlobal, lastFresh>>
vars == <<now, limiterVars, historyVars>>

NoTime == -1
Keys == Peers \X Ids
tracked == DOMAIN peerBuckets
Bucket == [tokens : Nat, lastRefill : Nat, lastUsed : Nat]

Lesser(a, b) == IF a <= b THEN a ELSE b
Greater(a, b) == IF a >= b THEN a ELSE b

TypeOK ==
  /\ now \in Nat
  /\ globalBucket \in Bucket
  /\ tracked \subseteq Peers
  /\ peerBuckets \in [tracked -> [Kinds -> Bucket]]
  /\ recent \in [Keys -> Nat \cup {NoTime}]
  /\ since \in [Peers -> Nat]
  /\ granted \in [Peers -> [Kinds -> Nat]]
  /\ grantedGlobal \in Nat
  /\ lastFresh \in [Keys -> Nat \cup {NoTime}]

-----------------------------------------------------------------------------
(***************************************************************************)
(* TokenBucket                                                             *)
(***************************************************************************)

NewBucket(capacity, interval) ==
  [tokens |-> capacity * interval, lastRefill |-> now, lastUsed |-> now]

\* A refill that forgets to move lastRefill.
RefilledNoStamp(b, capacity, interval) ==
  [b EXCEPT !.tokens = Lesser(capacity * interval,
                              @ + (now - b.lastRefill) * capacity)]

\* refill(): add what the elapsed time earned, up to the capacity.
Refilled(b, capacity, interval) ==
  [b EXCEPT !.tokens = Lesser(capacity * interval,
                              @ + (now - b.lastRefill) * capacity),
            !.lastRefill = now]

\* The answer of consume(1).
HasToken(b, capacity, interval) ==
  Refilled(b, capacity, interval).tokens >= interval

\* The bucket consume(1) leaves behind.
Consumed(b, capacity, interval) ==
  LET r == Refilled(b, capacity, interval)
  IN  IF HasToken(b, capacity, interval)
      THEN [r EXCEPT !.tokens = @ - interval, !.lastUsed = now]
      ELSE r

-----------------------------------------------------------------------------
(***************************************************************************)
(* RateLimiter                                                             *)
(***************************************************************************)

GlobalAllows == HasToken(globalBucket, GlobalCapacity, GlobalWindow)

\* The buckets of p, created full on first use.
BucketsOf(p) ==
  IF p \in tracked
  THEN peerBuckets[p]
  ELSE [k \in Kinds |-> NewBucket(PeerCapacity[k], PeerWindow)]

PeerAllows(p, k) == HasToken(BucketsOf(p)[k], PeerCapacity[k], PeerWindow)

\* The answer of checkLimit(p, k).
Allowed(p, k) == Enabled => GlobalAllows /\ PeerAllows(p, k)

\* What checkLimit(p, k) does to the buckets: the global bucket is charged
\* first, and a refusal there leaves the buckets of the peer untouched.
Charge(p, k) ==
  IF Enabled
  THEN /\ globalBucket' = Consumed(globalBucket, GlobalCapacity, GlobalWindow)
       /\ IF GlobalAllows
          THEN peerBuckets' = [q \in tracked \cup {p} |->
                 IF q = p
                 THEN [BucketsOf(p) EXCEPT ![k] =
                         Consumed(@, PeerCapacity[k], PeerWindow)]
                 ELSE peerBuckets[q]]
          ELSE UNCHANGED peerBuckets
  ELSE UNCHANGED <<globalBucket, peerBuckets>>

\* History: count what the two buckets granted.
RecordCharge(p, k) ==
  /\ granted' = [granted EXCEPT ![p][k] =
                   @ + IF Enabled /\ GlobalAllows /\ PeerAllows(p, k)
                          /\ now >= since[p]
                       THEN 1 ELSE 0]
  /\ grantedGlobal' = grantedGlobal + IF Enabled /\ GlobalAllows THEN 1 ELSE 0
  /\ UNCHANGED since

CheckLimit(p, k) ==
  /\ Charge(p, k)
  /\ RecordCharge(p, k)
  /\ UNCHANGED <<now, recent, lastFresh>>

\* The answer of isDuplicate.
Duplicate(key) ==
  Enabled /\ recent[key] # NoTime /\ now - recent[key] < DupWindow

\* What isDuplicate does: a message that is not a duplicate is marked as seen.
MarkSeen(key) ==
  /\ recent' = IF Enabled /\ ~Duplicate(key)
               THEN [recent EXCEPT ![key] = now] ELSE recent
  /\ lastFresh' = IF Enabled /\ ~Duplicate(key)
                  THEN [lastFresh EXCEPT ![key] = now] ELSE lastFresh

IsDuplicate(key) ==
  /\ MarkSeen(key)
  /\ UNCHANGED <<now, globalBucket, peerBuckets,
                 since, granted, grantedGlobal>>

\* removePeer(p): forgets the buckets of p.  The peer starts again with full
\* buckets, so the observation of p starts again as well.
RemovePeer(p) ==
  /\ peerBuckets' = [q \in tracked \ {p} |-> peerBuckets[q]]
  /\ since' = [since EXCEPT ![p] = Greater(@, now)]
  /\ granted' = [granted EXCEPT ![p] = [k \in Kinds |-> 0]]
  /\ UNCHANGED <<now, globalBucket, recent, grantedGlobal, lastFresh>>

\* A cleanup satisfied with one stale bucket of the two.
StaleEither(p) == \E k \in Kinds : now - peerBuckets[p][k].lastUsed > StaleAfter

Stale(p) == \A k \in Kinds : now - peerBuckets[p][k].lastUsed > StaleAfter

\* A cleanup that drops the marks still inside the window.
OutdatedEarly(key) == recent[key] # NoTime /\ now > recent[key]

Outdated(key) == recent[key] # NoTime /\ now - recent[key] > DupWindow

\* cleanup(), run by the timer of start() every five minutes.
Cleanup ==
  /\ peerBuckets' = [p \in {q \in tracked : ~Stale(q)} |-> peerBuckets[p]]
  /\ recent' = [key \in Keys |-> IF Outdated(key) THEN NoTime ELSE recent[key]]
  /\ UNCHANGED <<now, globalBucket, historyVars>>

\* External: the clock.
Tick ==
  /\ now < MaxTime
  /\ now' = now + 1
  /\ UNCHANGED <<limiterVars, historyVars>>

-----------------------------------------------------------------------------
\* The constructor, and an arbitrary start of observation for every peer.
Init ==
  /\ now = 0
  /\ globalBucket = NewBucket(GlobalCapacity, GlobalWindow)
  /\ peerBuckets = [p \in {} |-> [k \in Kinds |-> NewBucket(PeerCapacity[k], PeerWindow)]]
  /\ recent = [key \in Keys |-> NoTime]
  /\ since \in [Peers -> 0 .. MaxTime]
  /\ granted = [p \in Peers |-> [k \in Kinds |-> 0]]
  /\ grantedGlobal = 0
  /\ lastFresh = [key \in Keys |-> NoTime]

Next ==
  \/ \E p \in Peers, k \in Kinds : CheckLimit(p, k)
  \/ \E key \in Keys : IsDuplicate(key)
  \/ \E p \in Peers : RemovePeer(p)
  \/ Cleanup
  \/ Tick

Spec == Init /\ [][Next]_vars

-----------------------------------------------------------------------------
(***************************************************************************)
(* Properties                                                              *)
(***************************************************************************)

\* Over any interval that starts at since[p], however many times p asks and
\* whenever cleanup() evicts and recreates its buckets, p is granted at most
\* one full bucket plus what the interval itself earned.  The per-peer limit
\* of checkLimit rests on it.
PeerRateBound ==
  \A p \in Peers, k \in Kinds :
    now >= since[p] =>
      granted[p][k] * PeerWindow
        <= PeerCapacity[k] * PeerWindow + (now - since[p]) * PeerCapacity[k]

\* The same bound for the node as a whole, from the construction of the
\* limiter: all the peers together never pass the global limit.
GlobalRateBound ==
  grantedGlobal * GlobalWindow
    <= GlobalCapacity * GlobalWindow + now * GlobalCapacity

\* isDuplicate calls the same message new twice only when the two answers are
\* a whole duplicate window apart, whatever cleanup() discards in between.
FreshSpacing ==
  [][\A key \in Keys :
       lastFresh[key] # NoTime /\ lastFresh'[key] # lastFresh[key] =>
         lastFresh'[key] - lastFresh[key] >= DupWindow]_vars
=============================================================================
