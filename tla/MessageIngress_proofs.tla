-------------------------- MODULE MessageIngress_proofs --------------------------
(***************************************************************************)
(* Proofs about RateLimiter and about MessageIngress, which runs it.       *)
(*                                                                         *)
(* Of the limiter: type correctness, the two rate bounds and the spacing   *)
(* of two fresh answers for one message.  The rate bounds rest on a        *)
(* ledger: what a peer was granted since the start of the observation,     *)
(* plus what its bucket still holds, never passes one full bucket plus     *)
(* what was earned up to the last refill.  While the bucket of a peer is   *)
(* not tracked (never created, or evicted by cleanup()), what was granted  *)
(* was already earned without the initial burst, so a new full bucket      *)
(* gives nothing away.                                                     *)
(*                                                                         *)
(* Of the ingress: type correctness, the bound of the queue, that a        *)
(* message is accepted at most once and a peer's messages within its rate, *)
(* and that every acceptance queues its message exactly once.              *)
(***************************************************************************)
EXTENDS MessageIngress, TLAPS, FiniteSetTheorems


BucketOK(b, capacity, interval) ==
  /\ b.tokens <= capacity * interval
  /\ b.lastUsed <= b.lastRefill
  /\ b.lastRefill <= now

\* The ledger of a tracked bucket b observed from s, with g grants so far.
TrackedLedger(b, capacity, interval, s, g) ==
  /\ b.lastRefill >= s =>
       g * interval + b.tokens
         <= capacity * interval + (b.lastRefill - s) * capacity
  /\ b.lastRefill < s => g = 0
  /\ g > 0 =>
       /\ b.lastUsed >= s
       /\ g * interval <= capacity * interval + (b.lastUsed - s) * capacity

\* The ledger of a peer without a bucket.
UntrackedLedger(capacity, interval, s, g) ==
  g > 0 => now >= s /\ g * interval <= (now - s) * capacity

Ledger(p, k) ==
  /\ p \in tracked =>
       /\ BucketOK(peerBuckets[p][k], PeerCapacity[k], PeerWindow)
       /\ TrackedLedger(peerBuckets[p][k], PeerCapacity[k], PeerWindow,
                        since[p], granted[p][k])
  /\ p \notin tracked =>
       UntrackedLedger(PeerCapacity[k], PeerWindow, since[p], granted[p][k])

PeerLedger == \A p \in Peers, k \in Kinds : Ledger(p, k)

GlobalLedger ==
  /\ BucketOK(globalBucket, GlobalCapacity, GlobalWindow)
  /\ grantedGlobal * GlobalWindow + globalBucket.tokens
       <= GlobalCapacity * GlobalWindow + globalBucket.lastRefill * GlobalCapacity

\* A fresh answer is remembered until its window has passed.
FreshMarked ==
  \A key \in Keys : lastFresh[key] # NoTime =>
    \/ recent[key] = lastFresh[key]
    \/ recent[key] = NoTime /\ now - lastFresh[key] > DupWindow

IInv == TypeOK /\ PeerLedger /\ GlobalLedger /\ FreshMarked

-----------------------------------------------------------------------------
(***************************************************************************)
(* Arithmetic                                                              *)
(***************************************************************************)

\* Multiplication by a natural number is monotonic.
LEMMA TimesMonotonic ==
  ASSUME NEW a \in Int, NEW b \in Int, NEW c \in Nat, a <= b
  PROVE  a * c <= b * c
<1>1. (b - a) * c >= 0  BY SMT
<1>2. (b - a) * c = b * c - a * c  BY SMT
<1> QED  BY <1>1, <1>2, SMT

\* A product of natural numbers is a natural number.
LEMMA TimesNat ==
  ASSUME NEW a \in Nat, NEW b \in Nat
  PROVE  a * b \in Nat
  BY SMT

-----------------------------------------------------------------------------
(***************************************************************************)
(* TokenBucket                                                             *)
(***************************************************************************)

\* A new bucket is a well-formed full bucket.
LEMMA NewBucketOK ==
  ASSUME NEW capacity \in Nat, NEW interval \in Nat, now \in Nat
  PROVE  /\ NewBucket(capacity, interval) \in Bucket
         /\ BucketOK(NewBucket(capacity, interval), capacity, interval)
  BY TimesNat DEF NewBucket, Bucket, BucketOK

\* consume(1) leaves a well-formed bucket, refilled at this instant; what it
\* grants and what it leaves were in the bucket or earned since the last refill.
LEMMA ConsumedBucket ==
  ASSUME NEW b \in Bucket, NEW capacity \in Nat \ {0}, NEW interval \in Nat \ {0},
         now \in Nat, BucketOK(b, capacity, interval),
         NEW c, c = Consumed(b, capacity, interval)
  PROVE  /\ c \in Bucket
         /\ BucketOK(c, capacity, interval)
         /\ c.lastRefill = now
         /\ c.lastUsed = IF HasToken(b, capacity, interval) THEN now ELSE b.lastUsed
         /\ c.tokens + (IF HasToken(b, capacity, interval) THEN interval ELSE 0)
              <= b.tokens + (now - b.lastRefill) * capacity
         /\ c.tokens + (IF HasToken(b, capacity, interval) THEN interval ELSE 0)
              <= capacity * interval
<1> DEFINE r == Refilled(b, capacity, interval)
           earned == b.tokens + (now - b.lastRefill) * capacity
           full == capacity * interval
<1>1. earned \in Nat /\ full \in Nat
  BY TimesNat DEF Bucket, BucketOK
<1>2. /\ r = [tokens |-> Lesser(full, earned), lastRefill |-> now,
              lastUsed |-> b.lastUsed]
  <2> DEFINE kept == Lesser(full, earned)
  <2>1. r = [b EXCEPT !.tokens = kept, !.lastRefill = now]
    BY DEF Refilled
  <2> HIDE DEF kept, r
  <2>2. r = [tokens |-> kept, lastRefill |-> now, lastUsed |-> b.lastUsed]
    BY <2>1 DEF Bucket
  <2> QED  BY <2>2 DEF kept
<1>3. Lesser(full, earned) \in Nat /\ Lesser(full, earned) <= full
        /\ Lesser(full, earned) <= earned
  <2> HIDE DEF full, earned
  <2> QED  BY <1>1, SMT DEF Lesser
<1>4. b.lastUsed \in Nat /\ b.lastUsed <= now /\ b.lastRefill <= now
        /\ b.lastRefill \in Nat
  BY DEF Bucket, BucketOK
<1> HIDE DEF earned, full
<1>5. CASE HasToken(b, capacity, interval)
  <2>1. r.tokens >= interval  BY <1>5 DEF HasToken
  <2>2. c = [tokens |-> Lesser(full, earned) - interval, lastRefill |-> now,
             lastUsed |-> now]
    <3> HIDE DEF r
    <3> DEFINE kept == Lesser(full, earned)
    <3>1. c = [r EXCEPT !.tokens = r.tokens - interval, !.lastUsed = now]
      BY <1>5 DEF Consumed, r
    <3>2. r = [tokens |-> kept, lastRefill |-> now, lastUsed |-> b.lastUsed]
      BY <1>2
    <3> HIDE DEF kept
    <3>3. c = [tokens |-> kept - interval, lastRefill |-> now, lastUsed |-> now]
      BY <3>1, <3>2
    <3> QED  BY <3>3 DEF kept
  <2>3. Lesser(full, earned) - interval \in Nat
          /\ Lesser(full, earned) - interval <= full
    BY <1>2, <1>3, <2>1, <1>1
  <2>4. c \in Bucket  BY <2>2, <2>3 DEF Bucket
  <2>5. c.tokens = Lesser(full, earned) - interval /\ c.lastRefill = now
          /\ c.lastUsed = now
    BY <2>2
  <2>6. BucketOK(c, capacity, interval)
    BY <2>3, <2>5 DEF BucketOK, full
  <2>7. c.tokens + interval <= earned /\ c.tokens + interval <= full
    BY <2>5, <1>3, <1>1
  <2> QED  BY <2>4, <2>5, <2>6, <2>7, <1>5 DEF earned, full
<1>6. CASE ~HasToken(b, capacity, interval)
  <2>1. c = r  BY <1>6 DEF Consumed
  <2>2. c \in Bucket  BY <1>2, <1>3, <1>4, <2>1 DEF Bucket
  <2>3. c.tokens = Lesser(full, earned) /\ c.lastRefill = now
          /\ c.lastUsed = b.lastUsed
    BY <1>2, <2>1
  <2>4. BucketOK(c, capacity, interval)
    BY <1>3, <1>4, <2>3 DEF BucketOK, full
  <2>5. c.tokens + 0 <= earned /\ c.tokens + 0 <= full
    BY <1>3, <1>1, <2>3
  <2> QED  BY <2>2, <2>3, <2>4, <2>5, <1>6 DEF earned, full
<1> QED  BY <1>5, <1>6

\* A charged bucket keeps its ledger when every grant since s is counted.
LEMMA ConsumedLedger ==
  ASSUME NEW b \in Bucket, NEW capacity \in Nat \ {0}, NEW interval \in Nat \ {0},
         now \in Nat, BucketOK(b, capacity, interval),
         NEW s \in Nat, NEW g \in Nat,
         TrackedLedger(b, capacity, interval, s, g),
         NEW h, h = g + IF HasToken(b, capacity, interval) /\ now >= s
                        THEN 1 ELSE 0
  PROVE  TrackedLedger(Consumed(b, capacity, interval), capacity, interval, s, h)
<1> DEFINE c == Consumed(b, capacity, interval)
           spent == IF HasToken(b, capacity, interval) THEN interval ELSE 0
<1>1. /\ c \in Bucket
      /\ c.lastRefill = now
      /\ c.lastUsed = IF HasToken(b, capacity, interval) THEN now ELSE b.lastUsed
      /\ c.tokens + spent <= b.tokens + (now - b.lastRefill) * capacity
      /\ c.tokens + spent <= capacity * interval
  BY ConsumedBucket
<1>2. /\ b.tokens \in Nat /\ b.lastRefill \in Nat /\ b.lastUsed \in Nat
      /\ c.tokens \in Nat /\ b.lastRefill <= now
  BY <1>1 DEF Bucket, BucketOK
<1> HIDE DEF c
<1>3. CASE now < s
  <2>1. b.lastRefill < s  BY <1>2, <1>3
  <2>2. g = 0 /\ h = 0  BY <2>1, <1>3 DEF TrackedLedger
  <2> QED  BY <2>2, <1>1, <1>3 DEF TrackedLedger, c
<1>4. CASE now >= s
  <2>1. h * interval = g * interval + spent
    BY <1>4, SMT
  <2>2. h * interval + c.tokens <= capacity * interval + (now - s) * capacity
    <3>1. CASE b.lastRefill >= s
      <4>1. g * interval + b.tokens
              <= capacity * interval + (b.lastRefill - s) * capacity
        BY <3>1 DEF TrackedLedger
      <4>2. (b.lastRefill - s) * capacity + (now - b.lastRefill) * capacity
              = (now - s) * capacity
        BY <1>2, SMT
      <4>3. /\ g * interval \in Int /\ capacity * interval \in Int
            /\ (b.lastRefill - s) * capacity \in Int
            /\ (now - b.lastRefill) * capacity \in Int
            /\ spent \in Int
        BY <1>2, SMT
      <4> HIDE DEF spent
      <4> QED  BY <4>1, <4>2, <4>3, <2>1, <1>1, <1>2, SMT
    <3>2. CASE b.lastRefill < s
      <4>1. g = 0  BY <3>2 DEF TrackedLedger
      <4>2. g * interval = 0  BY <4>1, SMT
      <4>3. (now - s) * capacity \in Nat /\ capacity * interval \in Nat
        BY <1>4, TimesNat
      <4>4. spent \in Nat  OBVIOUS
      <4> HIDE DEF spent
      <4> QED  BY <4>2, <4>3, <4>4, <2>1, <1>1, <1>2, SMT
    <3> QED  BY <3>1, <3>2, <1>2
  <2>3. h > 0 => /\ c.lastUsed >= s
                 /\ h * interval <= capacity * interval + (c.lastUsed - s) * capacity
    <3>1. CASE HasToken(b, capacity, interval)
      <4>1. c.lastUsed = now  BY <3>1, <1>1
      <4>2. h * interval \in Int /\ capacity * interval \in Int
              /\ (now - s) * capacity \in Int
        BY <1>4, SMT
      <4> QED  BY <4>1, <4>2, <2>2, <1>4, <1>2, SMT
    <3>2. CASE ~HasToken(b, capacity, interval)
      <4>1. h = g /\ c.lastUsed = b.lastUsed  BY <3>2, <1>1
      <4> QED  BY <4>1 DEF TrackedLedger
    <3> QED  BY <3>1, <3>2
  <2> QED  BY <2>2, <2>3, <1>1, <1>4 DEF TrackedLedger, c
<1> QED  BY <1>3, <1>4

\* A new full bucket opens the ledger of a peer that had none.
LEMMA NewBucketLedger ==
  ASSUME NEW capacity \in Nat \ {0}, NEW interval \in Nat \ {0}, now \in Nat,
         NEW s \in Nat, NEW g \in Nat,
         UntrackedLedger(capacity, interval, s, g)
  PROVE  TrackedLedger(NewBucket(capacity, interval), capacity, interval, s, g)
<1> DEFINE b == NewBucket(capacity, interval)
<1>1. b.tokens = capacity * interval /\ b.lastRefill = now /\ b.lastUsed = now
  BY DEF NewBucket
<1>2. capacity * interval \in Nat  BY TimesNat
<1> HIDE DEF b
<1>3. CASE g = 0
  <2>1. g * interval = 0  BY <1>3, SMT
  <2>2. now >= s => (now - s) * capacity \in Nat  BY TimesNat
  <2> QED  BY <2>1, <2>2, <1>1, <1>2, <1>3 DEF TrackedLedger, b
<1>4. CASE g > 0
  <2>1. now >= s /\ g * interval <= (now - s) * capacity
    BY <1>4 DEF UntrackedLedger
  <2>2. g * interval \in Int /\ (now - s) * capacity \in Int  BY SMT
  <2>3. g * interval + capacity * interval
          <= capacity * interval + (now - s) * capacity
    BY <2>1, <2>2, <1>2, SMT
  <2>4. g * interval <= capacity * interval + (now - s) * capacity
    BY <2>1, <2>2, <1>2, SMT
  <2> QED  BY <2>1, <2>3, <2>4, <1>1, <1>4 DEF TrackedLedger, b
<1> QED  BY <1>3, <1>4

\* A bucket that cleanup() finds stale has earned all that it granted.
LEMMA StaleLedger ==
  ASSUME NEW b \in Bucket, NEW capacity \in Nat \ {0}, now \in Nat,
         NEW interval \in Nat \ {0}, NEW threshold \in Nat, threshold >= interval,
         NEW s \in Nat, NEW g \in Nat,
         TrackedLedger(b, capacity, interval, s, g),
         now - b.lastUsed > threshold
  PROVE  UntrackedLedger(capacity, interval, s, g)
<1> SUFFICES ASSUME g > 0
             PROVE  now >= s /\ g * interval <= (now - s) * capacity
  BY DEF UntrackedLedger
<1>1. b.lastUsed \in Nat  BY DEF Bucket
<1>2. b.lastUsed >= s
        /\ g * interval <= capacity * interval + (b.lastUsed - s) * capacity
  BY DEF TrackedLedger
<1>3. interval * capacity <= (now - b.lastUsed) * capacity
  BY <1>1, TimesMonotonic
<1>4. (now - b.lastUsed) * capacity + (b.lastUsed - s) * capacity
        = (now - s) * capacity
  BY <1>1, SMT
<1>5. interval * capacity = capacity * interval  BY SMT
<1>6. /\ g * interval \in Int /\ capacity * interval \in Int
      /\ (now - b.lastUsed) * capacity \in Int
      /\ (b.lastUsed - s) * capacity \in Int
  BY <1>1, SMT
<1> QED  BY <1>1, <1>2, <1>3, <1>4, <1>5, <1>6, SMT

-----------------------------------------------------------------------------
(***************************************************************************)
(* The inductive invariant                                                 *)
(***************************************************************************)

\* The typing facts of the constants that every step of the proof uses.
LEMMA ConstantTypes ==
  /\ \A k \in Kinds : PeerCapacity[k] \in Nat \ {0}
  /\ PeerWindow \in Nat \ {0} /\ GlobalCapacity \in Nat \ {0}
  /\ GlobalWindow \in Nat \ {0} /\ DupWindow \in Nat /\ StaleAfter \in Nat
  /\ MaxTime \in Nat /\ Enabled \in BOOLEAN /\ StaleAfter >= PeerWindow
  /\ NoTime \notin Nat
  BY ConfigAssumption, StaleAssumption DEF ConfigAssumption, StaleAssumption, NoTime

\* The constructor establishes the inductive invariant.
LEMMA InitIInv == Init => IInv
<1> SUFFICES ASSUME Init PROVE IInv  OBVIOUS
<1> USE ConstantTypes
<1>1. NewBucket(GlobalCapacity, GlobalWindow) \in Bucket
  BY NewBucketOK DEF Init
<1>2. tracked = {}  BY DEF Init, tracked
<1>3. TypeOK
  <2>1. since \in [Peers -> Nat]  BY DEF Init
  <2>2. peerBuckets \in [tracked -> [Kinds -> Bucket]]
    BY <1>2 DEF Init
  <2> QED  BY <1>1, <1>2, <2>1, <2>2 DEF Init, TypeOK
<1>4. PeerLedger
  BY <1>2 DEF Init, PeerLedger, Ledger, UntrackedLedger
<1>5. GlobalLedger
  <2>1. globalBucket.lastRefill = 0
          /\ globalBucket.tokens = GlobalCapacity * GlobalWindow
    BY DEF Init, NewBucket
  <2>2. GlobalCapacity * GlobalWindow \in Nat /\ 0 * GlobalWindow = 0
          /\ 0 * GlobalCapacity = 0
    BY TimesNat
  <2>3. BucketOK(globalBucket, GlobalCapacity, GlobalWindow)
    BY NewBucketOK DEF Init
  <2> QED  BY <2>1, <2>2, <2>3 DEF Init, GlobalLedger
<1>6. FreshMarked
  BY DEF Init, FreshMarked
<1> QED  BY <1>3, <1>4, <1>5, <1>6 DEF IInv

\* What checkLimit does to the node's bucket and to those of the peers keeps
\* the invariant.  Stated for Charge and RecordCharge alone, since the message
\* ingress performs them as a part of a larger step.
LEMMA ChargeInv ==
  ASSUME TypeOK, PeerLedger, GlobalLedger, now' = now,
         NEW p \in Peers, NEW k \in Kinds, Charge(p, k), RecordCharge(p, k)
  PROVE  /\ globalBucket' \in Bucket /\ tracked' \subseteq Peers
         /\ peerBuckets' \in [tracked' -> [Kinds -> Bucket]]
         /\ granted' \in [Peers -> [Kinds -> Nat]] /\ grantedGlobal' \in Nat
         /\ since' \in [Peers -> Nat]
         /\ PeerLedger' /\ GlobalLedger'
<1> USE ConstantTypes
<1>1. CASE ~Enabled
  <2>1. granted' = granted /\ grantedGlobal' = grantedGlobal /\ since' = since
    <3>1. granted' = [granted EXCEPT ![p][k] = @ + 0]
      BY <1>1 DEF RecordCharge
    <3>2. granted' = granted  BY <3>1 DEF TypeOK
    <3>3. grantedGlobal' = grantedGlobal  BY <1>1 DEF RecordCharge, TypeOK
    <3> QED  BY <3>2, <3>3 DEF RecordCharge
  <2>2. globalBucket' = globalBucket /\ peerBuckets' = peerBuckets
    BY <1>1 DEF Charge
  <2>3. tracked' = tracked  BY <2>2 DEF tracked
  <2>4. PeerLedger'
    BY <2>1, <2>2, <2>3 DEF PeerLedger, Ledger, BucketOK, TrackedLedger, UntrackedLedger
  <2>5. GlobalLedger'
    BY <2>1, <2>2 DEF GlobalLedger, BucketOK
  <2> QED  BY <2>1, <2>2, <2>3, <2>4, <2>5 DEF TypeOK
<1>2. CASE Enabled
  <2>1. /\ globalBucket' \in Bucket
        /\ grantedGlobal' \in Nat
        /\ GlobalLedger'
    <3> DEFINE c == Consumed(globalBucket, GlobalCapacity, GlobalWindow)
               one == IF GlobalAllows THEN 1 ELSE 0
               spent == IF GlobalAllows THEN GlobalWindow ELSE 0
    <3>1. globalBucket' = c /\ grantedGlobal' = grantedGlobal + one
      BY <1>2 DEF Charge, RecordCharge
    <3>2. globalBucket \in Bucket /\ BucketOK(globalBucket, GlobalCapacity, GlobalWindow)
            /\ now \in Nat /\ grantedGlobal \in Nat
      BY DEF TypeOK, GlobalLedger
    <3>3. /\ c \in Bucket
          /\ BucketOK(c, GlobalCapacity, GlobalWindow)
          /\ c.lastRefill = now
          /\ c.tokens + spent
               <= globalBucket.tokens + (now - globalBucket.lastRefill) * GlobalCapacity
      BY <3>2, ConsumedBucket DEF GlobalAllows
    <3>4. (grantedGlobal + one) * GlobalWindow = grantedGlobal * GlobalWindow + spent
      BY <3>2, SMT
    <3>5. globalBucket.lastRefill * GlobalCapacity
            + (now - globalBucket.lastRefill) * GlobalCapacity = now * GlobalCapacity
      BY <3>2, SMT DEF Bucket
    <3>6. /\ grantedGlobal * GlobalWindow \in Int
          /\ GlobalCapacity * GlobalWindow \in Int
          /\ globalBucket.lastRefill * GlobalCapacity \in Int
          /\ (now - globalBucket.lastRefill) * GlobalCapacity \in Int
          /\ globalBucket.tokens \in Int /\ c.tokens \in Int
          /\ spent \in Int /\ one \in Nat
      BY <3>2, <3>3, SMT DEF Bucket
    <3> HIDE DEF c, one, spent
    <3>7. (grantedGlobal + one) * GlobalWindow + c.tokens
            <= GlobalCapacity * GlobalWindow + now * GlobalCapacity
      BY <3>3, <3>4, <3>5, <3>6, SMT DEF GlobalLedger
    <3>8. GlobalLedger'
      BY <3>1, <3>2, <3>3, <3>7 DEF GlobalLedger, BucketOK
    <3> QED  BY <3>1, <3>2, <3>3, <3>6, <3>8
  <2>2. CASE ~GlobalAllows
    <3>1. granted' = granted /\ since' = since
      <4>1. granted' = [granted EXCEPT ![p][k] = @ + 0]
        BY <2>2 DEF RecordCharge
      <4> QED  BY <4>1 DEF RecordCharge, TypeOK
    <3>2. peerBuckets' = peerBuckets  BY <1>2, <2>2 DEF Charge
    <3>3. tracked' = tracked  BY <3>2 DEF tracked
    <3>4. PeerLedger'
      BY <3>1, <3>2, <3>3 DEF PeerLedger, Ledger, BucketOK, TrackedLedger, UntrackedLedger
    <3> QED  BY <2>1, <3>1, <3>2, <3>3, <3>4 DEF TypeOK
  <2>3. CASE GlobalAllows
    <3> DEFINE bs == BucketsOf(p)
               charged == [bs EXCEPT ![k] = Consumed(@, PeerCapacity[k], PeerWindow)]
    <3>1. /\ peerBuckets' = [q \in tracked \cup {p} |->
                               IF q = p THEN charged ELSE peerBuckets[q]]
          /\ tracked' = tracked \cup {p}
      BY <1>2, <2>3 DEF Charge, tracked
    <3>2. /\ bs \in [Kinds -> Bucket]
          /\ \A j \in Kinds :
               /\ BucketOK(bs[j], PeerCapacity[j], PeerWindow)
               /\ TrackedLedger(bs[j], PeerCapacity[j], PeerWindow,
                                since[p], granted[p][j])
      <4>1. CASE p \in tracked
        <5>1. bs = peerBuckets[p]  BY <4>1 DEF BucketsOf
        <5> QED  BY <4>1, <5>1 DEF PeerLedger, Ledger, TypeOK
      <4>2. CASE p \notin tracked
        <5>1. bs = [j \in Kinds |-> NewBucket(PeerCapacity[j], PeerWindow)]
          BY <4>2 DEF BucketsOf
        <5> HIDE DEF bs
        <5>2. ASSUME NEW j \in Kinds
              PROVE  /\ bs[j] \in Bucket
                     /\ BucketOK(bs[j], PeerCapacity[j], PeerWindow)
                     /\ TrackedLedger(bs[j], PeerCapacity[j], PeerWindow,
                                      since[p], granted[p][j])
          <6>1. bs[j] = NewBucket(PeerCapacity[j], PeerWindow)  BY <5>1
          <6>2. now \in Nat /\ since[p] \in Nat /\ granted[p][j] \in Nat
            BY DEF TypeOK
          <6>3. UntrackedLedger(PeerCapacity[j], PeerWindow, since[p], granted[p][j])
            BY <4>2 DEF PeerLedger, Ledger
          <6> QED  BY <6>1, <6>2, <6>3, NewBucketOK, NewBucketLedger
        <5> QED  BY <5>1, <5>2
      <4> QED  BY <4>1, <4>2
    <3> HIDE DEF bs
    <3> DEFINE c == Consumed(bs[k], PeerCapacity[k], PeerWindow)
               h == granted[p][k]
                      + IF HasToken(bs[k], PeerCapacity[k], PeerWindow)
                           /\ now >= since[p] THEN 1 ELSE 0
    <3>3. charged = [bs EXCEPT ![k] = c]  OBVIOUS
    <3>4. /\ c \in Bucket
          /\ BucketOK(c, PeerCapacity[k], PeerWindow)
          /\ TrackedLedger(c, PeerCapacity[k], PeerWindow, since[p], h)
      <4>1. now \in Nat /\ since[p] \in Nat /\ granted[p][k] \in Nat
              /\ bs[k] \in Bucket
        BY <3>2 DEF TypeOK
      <4> HIDE DEF c
      <4>2. c = Consumed(bs[k], PeerCapacity[k], PeerWindow)  BY DEF c
      <4>3. c \in Bucket /\ BucketOK(c, PeerCapacity[k], PeerWindow)
        BY <4>1, <4>2, <3>2, ConsumedBucket
      <4>4. TrackedLedger(c, PeerCapacity[k], PeerWindow, since[p], h)
        BY <4>1, <4>2, <3>2, ConsumedLedger
      <4> QED  BY <4>3, <4>4
    <3>5. /\ granted' = [granted EXCEPT ![p][k] = h]
          /\ since' = since
      BY <1>2, <2>3 DEF RecordCharge, PeerAllows, bs
    <3>6. h \in Nat  BY DEF TypeOK
    <3> HIDE DEF c, h
    <3>7. granted' \in [Peers -> [Kinds -> Nat]] /\ since' \in [Peers -> Nat]
      BY <3>5, <3>6 DEF TypeOK
    <3>8. charged \in [Kinds -> Bucket]  BY <3>2, <3>3, <3>4
    <3>9. peerBuckets' \in [tracked' -> [Kinds -> Bucket]] /\ tracked' \subseteq Peers
      BY <3>1, <3>8 DEF TypeOK
    <3>10. PeerLedger'
      <4> SUFFICES ASSUME NEW q \in Peers, NEW j \in Kinds
                   PROVE  Ledger(q, j)'
        BY DEF PeerLedger
      <4>1. CASE q # p
        <5>1. granted'[q][j] = granted[q][j] /\ since'[q] = since[q]
          BY <3>5, <4>1 DEF TypeOK
        <5>2. q \in tracked' <=> q \in tracked  BY <3>1, <4>1
        <5>3. q \in tracked => peerBuckets'[q] = peerBuckets[q]  BY <3>1, <4>1
        <5> QED  BY <5>1, <5>2, <5>3
                 DEF PeerLedger, Ledger, BucketOK, TrackedLedger, UntrackedLedger
      <4>2. CASE q = p
        <5>1. q \in tracked' /\ peerBuckets'[q] = [bs EXCEPT ![k] = c]
                /\ since'[q] = since[p]
          BY <3>1, <3>3, <3>5, <4>2
        <5>2. CASE j = k
          <6>1. peerBuckets'[q][j] = c  BY <5>1, <5>2, <3>2
          <6>2. granted'[q][j] = h  BY <3>5, <5>2, <4>2 DEF TypeOK
          <6> QED  BY <4>2, <5>1, <5>2, <6>1, <6>2, <3>4 DEF Ledger, BucketOK, TrackedLedger
        <5>3. CASE j # k
          <6>1. peerBuckets'[q][j] = bs[j]  BY <5>1, <5>3, <3>2
          <6>2. granted'[q][j] = granted[p][j]  BY <3>5, <5>3, <4>2 DEF TypeOK
          <6> QED  BY <4>2, <5>1, <6>1, <6>2, <3>2 DEF Ledger, BucketOK, TrackedLedger
        <5> QED  BY <5>2, <5>3
      <4> QED  BY <4>1, <4>2
    <3> QED  BY <2>1, <3>7, <3>9, <3>10
  <2> QED  BY <2>2, <2>3
<1> QED  BY <1>1, <1>2

\* isDuplicate keeps what is remembered of the fresh answers.
LEMMA MarkSeenInv ==
  ASSUME TypeOK, FreshMarked, now' = now, NEW key \in Keys, MarkSeen(key)
  PROVE  /\ recent' \in [Keys -> Nat \cup {NoTime}]
         /\ lastFresh' \in [Keys -> Nat \cup {NoTime}]
         /\ FreshMarked'
<1>1. CASE Enabled /\ ~Duplicate(key)
  <2>1. recent' = [recent EXCEPT ![key] = now]
          /\ lastFresh' = [lastFresh EXCEPT ![key] = now]
    BY <1>1 DEF MarkSeen
  <2> QED  BY <2>1 DEF TypeOK, FreshMarked
<1>2. CASE ~(Enabled /\ ~Duplicate(key))
  <2>1. recent' = recent /\ lastFresh' = lastFresh  BY <1>2 DEF MarkSeen
  <2> QED  BY <2>1 DEF TypeOK, FreshMarked
<1> QED  BY <1>1, <1>2

\* cleanup() evicts only what has no more influence.
LEMMA CleanupInv == IInv /\ Cleanup => IInv'
<1> SUFFICES ASSUME IInv, Cleanup PROVE IInv'  OBVIOUS
<1> USE ConstantTypes
<1>0. /\ TypeOK /\ PeerLedger /\ GlobalLedger /\ FreshMarked
      /\ now' = now /\ globalBucket' = globalBucket /\ since' = since
      /\ granted' = granted /\ grantedGlobal' = grantedGlobal
      /\ lastFresh' = lastFresh
  BY DEF IInv, Cleanup, historyVars
<1>1. /\ tracked' = {q \in tracked : ~Stale(q)}
      /\ peerBuckets' = [p \in tracked' |-> peerBuckets[p]]
  BY DEF Cleanup, tracked
<1>2. \A key \in Keys :
        recent'[key] = IF Outdated(key) THEN NoTime ELSE recent[key]
  BY DEF Cleanup
<1>3. TypeOK'
  <2>1. recent' \in [Keys -> Nat \cup {NoTime}]  BY <1>0 DEF Cleanup, TypeOK
  <2> QED  BY <1>0, <1>1, <2>1 DEF TypeOK
<1>4. PeerLedger'
  <2> SUFFICES ASSUME NEW p \in Peers, NEW k \in Kinds PROVE Ledger(p, k)'
    BY DEF PeerLedger
  <2>0. Ledger(p, k)  BY <1>0 DEF PeerLedger
  <2>1. CASE p \in tracked'
    <3>1. p \in tracked /\ peerBuckets'[p] = peerBuckets[p]  BY <1>1, <2>1
    <3> QED  BY <2>0, <2>1, <3>1, <1>0 DEF Ledger, BucketOK, TrackedLedger
  <2>2. CASE p \notin tracked
    <3>1. p \notin tracked'  BY <1>1, <2>2
    <3> QED  BY <2>0, <2>2, <3>1, <1>0 DEF Ledger, UntrackedLedger
  <2>3. CASE p \in tracked /\ p \notin tracked'
    <3>1. Stale(p)  BY <1>1, <2>3
    <3>2. now - peerBuckets[p][k].lastUsed > StaleAfter  BY <3>1 DEF Stale
    <3>3. /\ peerBuckets[p][k] \in Bucket /\ now \in Nat
          /\ since[p] \in Nat /\ granted[p][k] \in Nat
      BY <1>0, <2>3 DEF TypeOK
    <3>4. TrackedLedger(peerBuckets[p][k], PeerCapacity[k], PeerWindow,
                        since[p], granted[p][k])
      BY <2>0, <2>3 DEF Ledger
    <3>5. UntrackedLedger(PeerCapacity[k], PeerWindow, since[p], granted[p][k])
      BY <3>2, <3>3, <3>4, StaleLedger
    <3> QED  BY <2>3, <3>5, <1>0 DEF Ledger, UntrackedLedger
  <2> QED  BY <2>1, <2>2, <2>3
<1>5. GlobalLedger'  BY <1>0 DEF GlobalLedger, BucketOK
<1>6. FreshMarked'
  <2> SUFFICES ASSUME NEW key \in Keys, lastFresh[key] # NoTime
               PROVE  \/ recent'[key] = lastFresh[key]
                      \/ recent'[key] = NoTime /\ now - lastFresh[key] > DupWindow
    BY <1>0 DEF FreshMarked
  <2>1. CASE Outdated(key)
    BY <1>0, <1>2, <2>1 DEF FreshMarked, Outdated
  <2>2. CASE ~Outdated(key)
    BY <1>0, <1>2, <2>2 DEF FreshMarked
  <2> QED  BY <2>1, <2>2
<1> QED  BY <1>3, <1>4, <1>5, <1>6 DEF IInv

\* Time only makes the bounds weaker.
LEMMA TickInv ==
  ASSUME IInv, now' \in Nat, now' >= now, UNCHANGED <<limiterVars, historyVars>>
  PROVE  IInv'
<1> USE ConstantTypes
<1>0. /\ TypeOK /\ PeerLedger /\ GlobalLedger /\ FreshMarked
      /\ globalBucket' = globalBucket /\ peerBuckets' = peerBuckets
      /\ recent' = recent /\ since' = since /\ granted' = granted
      /\ grantedGlobal' = grantedGlobal /\ lastFresh' = lastFresh
      /\ tracked' = tracked
  BY DEF IInv, limiterVars, historyVars, tracked
<1>1. TypeOK'  BY <1>0 DEF TypeOK
<1>2. PeerLedger'
  <2> SUFFICES ASSUME NEW p \in Peers, NEW k \in Kinds PROVE Ledger(p, k)'
    BY DEF PeerLedger
  <2>0. Ledger(p, k)  BY <1>0 DEF PeerLedger
  <2>1. CASE p \in tracked
    <3>1. peerBuckets[p][k] \in Bucket /\ now \in Nat  BY <1>0, <2>1 DEF TypeOK
    <3> QED
      BY <2>0, <2>1, <3>1, <1>0 DEF Ledger, BucketOK, TrackedLedger, Bucket
  <2>2. CASE p \notin tracked
    <3>1. /\ since[p] \in Nat /\ granted[p][k] \in Nat
          /\ PeerCapacity[k] \in Nat /\ now \in Nat
      BY <1>0 DEF TypeOK
    <3>2. (now - since[p]) * PeerCapacity[k] <= (now' - since[p]) * PeerCapacity[k]
      BY <3>1, TimesMonotonic
    <3>3. /\ (now - since[p]) * PeerCapacity[k] \in Int
          /\ (now' - since[p]) * PeerCapacity[k] \in Int
          /\ granted[p][k] * PeerWindow \in Int
      BY <3>1, SMT
    <3>4. UntrackedLedger(PeerCapacity[k], PeerWindow, since[p], granted[p][k])
      BY <2>0, <2>2 DEF Ledger
    <3>5. granted[p][k] > 0 =>
             /\ now' >= since[p]
             /\ granted[p][k] * PeerWindow <= (now' - since[p]) * PeerCapacity[k]
      BY <3>1, <3>2, <3>3, <3>4 DEF UntrackedLedger
    <3> QED  BY <2>2, <3>5, <1>0 DEF Ledger, UntrackedLedger
  <2> QED  BY <2>1, <2>2
<1>3. GlobalLedger'
  BY <1>0 DEF GlobalLedger, BucketOK, TypeOK, Bucket
<1>4. FreshMarked'
  BY <1>0 DEF FreshMarked, TypeOK
<1> QED  BY <1>1, <1>2, <1>3, <1>4 DEF IInv

\* removePeer() starts the observation of the peer again.
LEMMA RemovePeerInv ==
  ASSUME IInv, NEW p \in Peers, RemovePeer(p)
  PROVE  IInv'
<1> USE ConstantTypes
<1>0. /\ TypeOK /\ PeerLedger /\ GlobalLedger /\ FreshMarked
      /\ now' = now /\ globalBucket' = globalBucket
      /\ grantedGlobal' = grantedGlobal /\ lastFresh' = lastFresh
      /\ recent' = recent
      /\ tracked' = tracked \ {p}
      /\ peerBuckets' = [q \in tracked' |-> peerBuckets[q]]
      /\ since' = [since EXCEPT ![p] = Greater(since[p], now)]
      /\ granted' = [granted EXCEPT ![p] = [k \in Kinds |-> 0]]
  BY DEF IInv, RemovePeer, tracked
<1>1. TypeOK'
  <2>1. Greater(since[p], now) \in Nat  BY <1>0 DEF TypeOK, Greater
  <2> QED  BY <1>0, <2>1 DEF TypeOK
<1>2. PeerLedger'
  <2> SUFFICES ASSUME NEW q \in Peers, NEW k \in Kinds PROVE Ledger(q, k)'
    BY DEF PeerLedger
  <2>0. Ledger(q, k)  BY <1>0 DEF PeerLedger
  <2>1. CASE q = p
    <3>1. q \notin tracked' /\ granted'[q][k] = 0
      BY <1>0, <2>1 DEF TypeOK
    <3> QED  BY <3>1 DEF Ledger, UntrackedLedger
  <2>2. CASE q # p
    <3>1. /\ since'[q] = since[q] /\ granted'[q][k] = granted[q][k]
          /\ (q \in tracked' <=> q \in tracked)
          /\ (q \in tracked => peerBuckets'[q] = peerBuckets[q])
      BY <1>0, <2>2 DEF TypeOK
    <3> QED
      BY <2>0, <3>1, <1>0 DEF Ledger, BucketOK, TrackedLedger, UntrackedLedger
  <2> QED  BY <2>1, <2>2
<1>3. GlobalLedger'  BY <1>0 DEF GlobalLedger, BucketOK
<1>4. FreshMarked'  BY <1>0 DEF FreshMarked
<1> QED  BY <1>1, <1>2, <1>3, <1>4 DEF IInv

\* Every operation of the limiter, and the clock, keeps the inductive invariant.
LEMMA NextIInv == IInv /\ [Next]_vars => IInv'
<1> SUFFICES ASSUME IInv, [Next]_vars PROVE IInv'  OBVIOUS
<1>0. TypeOK /\ PeerLedger /\ GlobalLedger /\ FreshMarked  BY DEF IInv
<1>1. ASSUME NEW p \in Peers, NEW k \in Kinds, CheckLimit(p, k) PROVE IInv'
  <2>1. /\ Charge(p, k) /\ RecordCharge(p, k)
        /\ now' = now /\ recent' = recent /\ lastFresh' = lastFresh
    BY <1>1 DEF CheckLimit
  <2>2. /\ globalBucket' \in Bucket /\ tracked' \subseteq Peers
        /\ peerBuckets' \in [tracked' -> [Kinds -> Bucket]]
        /\ granted' \in [Peers -> [Kinds -> Nat]] /\ grantedGlobal' \in Nat
        /\ since' \in [Peers -> Nat]
        /\ PeerLedger' /\ GlobalLedger'
    BY <1>0, <2>1, ChargeInv
  <2>3. FreshMarked'  BY <1>0, <2>1 DEF FreshMarked
  <2> QED  BY <1>0, <2>1, <2>2, <2>3 DEF IInv, TypeOK
<1>2. ASSUME NEW key \in Keys, IsDuplicate(key) PROVE IInv'
  <2>1. /\ MarkSeen(key)
        /\ now' = now /\ globalBucket' = globalBucket
        /\ peerBuckets' = peerBuckets /\ since' = since
        /\ granted' = granted /\ grantedGlobal' = grantedGlobal
        /\ tracked' = tracked
    BY <1>2 DEF IsDuplicate, tracked
  <2>2. /\ recent' \in [Keys -> Nat \cup {NoTime}]
        /\ lastFresh' \in [Keys -> Nat \cup {NoTime}]
        /\ FreshMarked'
    BY <1>0, <2>1, MarkSeenInv
  <2>3. PeerLedger' /\ GlobalLedger'
    BY <1>0, <2>1
       DEF PeerLedger, Ledger, BucketOK, TrackedLedger, UntrackedLedger, GlobalLedger
  <2> QED  BY <1>0, <2>1, <2>2, <2>3 DEF IInv, TypeOK
<1>3. ASSUME NEW p \in Peers, RemovePeer(p) PROVE IInv'
  BY <1>3, RemovePeerInv
<1>4. CASE Cleanup  BY <1>4, CleanupInv
<1>5. CASE Tick
  <2>1. now' \in Nat /\ now' >= now /\ UNCHANGED <<limiterVars, historyVars>>
    BY <1>0, <1>5 DEF Tick, TypeOK
  <2> QED  BY <2>1, TickInv
<1>6. CASE UNCHANGED vars
  <2>1. now' \in Nat /\ now' >= now /\ UNCHANGED <<limiterVars, historyVars>>
    BY <1>0, <1>6 DEF vars, TypeOK
  <2> QED  BY <2>1, TickInv
<1> QED  BY <1>1, <1>2, <1>3, <1>4, <1>5, <1>6 DEF Next

\* The inductive invariant holds of every state the limiter can reach.
LEMMA InvariantHolds == Spec => []IInv
  BY InitIInv, NextIInv, PTL DEF Spec

-----------------------------------------------------------------------------
(***************************************************************************)
(* The theorems                                                            *)
(***************************************************************************)

\* The limiter keeps its state well-typed: no bucket is overdrawn.
THEOREM LimiterTypeCorrect == Spec => []TypeOK
<1>1. IInv => TypeOK  BY DEF IInv
<1> QED  BY <1>1, InvariantHolds, PTL

\* Over any interval, a peer is granted at most a full bucket and what the
\* interval earned, however often cleanup() evicts its buckets.
THEOREM PeerRate == Spec => []PeerRateBound
<1>1. IInv => PeerRateBound
  <2> SUFFICES ASSUME IInv, NEW p \in Peers, NEW k \in Kinds, now >= since[p]
               PROVE  granted[p][k] * PeerWindow
                        <= PeerCapacity[k] * PeerWindow
                             + (now - since[p]) * PeerCapacity[k]
    BY DEF PeerRateBound
  <2> USE ConstantTypes
  <2> DEFINE g == granted[p][k]
             full == PeerCapacity[k] * PeerWindow
             earned == (now - since[p]) * PeerCapacity[k]
  <2>1. /\ g \in Nat /\ now \in Nat /\ since[p] \in Nat /\ Ledger(p, k)
        /\ (p \in tracked => peerBuckets[p][k] \in Bucket)
    BY DEF IInv, TypeOK, PeerLedger
  <2>2. full \in Nat /\ earned \in Nat  BY <2>1, TimesNat
  <2>3. CASE g = 0
    <3>1. g * PeerWindow = 0  BY <2>3, SMT
    <3> QED  BY <3>1, <2>2
  <2>4. CASE g > 0 /\ p \notin tracked
    <3>1. g * PeerWindow <= earned
      BY <2>1, <2>4 DEF Ledger, UntrackedLedger
    <3>2. g * PeerWindow \in Int  BY <2>1, SMT
    <3> HIDE DEF g, full, earned
    <3>3. g * PeerWindow <= full + earned  BY <2>2, <3>1, <3>2
    <3> QED  BY <3>3 DEF g, full, earned
  <2>5. CASE g > 0 /\ p \in tracked
    <3> DEFINE used == peerBuckets[p][k].lastUsed
               upTo == (used - since[p]) * PeerCapacity[k]
    <3>1. /\ used \in Nat /\ used <= now
          /\ g * PeerWindow <= full + upTo
      BY <2>1, <2>5 DEF Ledger, TrackedLedger, BucketOK, Bucket
    <3>2. upTo <= earned
      BY <3>1, <2>1, TimesMonotonic
    <3>3. g * PeerWindow \in Int /\ upTo \in Int  BY <2>1, <3>1, SMT
    <3> HIDE DEF g, full, earned, upTo
    <3>4. g * PeerWindow <= full + earned  BY <2>2, <3>1, <3>2, <3>3
    <3> QED  BY <3>4 DEF g, full, earned
  <2> QED  BY <2>1, <2>3, <2>4, <2>5
<1> QED  BY <1>1, InvariantHolds, PTL

\* All the peers together never pass the limit of the node.
THEOREM GlobalRate == Spec => []GlobalRateBound
<1>1. IInv => GlobalRateBound
  <2> SUFFICES ASSUME IInv PROVE GlobalRateBound  OBVIOUS
  <2> USE ConstantTypes
  <2> DEFINE upTo == globalBucket.lastRefill * GlobalCapacity
  <2>1. /\ globalBucket \in Bucket /\ globalBucket.lastRefill <= now
        /\ now \in Nat /\ grantedGlobal \in Nat
        /\ grantedGlobal * GlobalWindow + globalBucket.tokens
             <= GlobalCapacity * GlobalWindow + upTo
    BY DEF IInv, TypeOK, GlobalLedger, BucketOK
  <2>2. upTo <= now * GlobalCapacity
    BY <2>1, TimesMonotonic DEF Bucket
  <2>3. /\ upTo \in Nat /\ now * GlobalCapacity \in Nat
        /\ grantedGlobal * GlobalWindow \in Nat
        /\ GlobalCapacity * GlobalWindow \in Nat
        /\ globalBucket.tokens \in Nat
    BY <2>1, TimesNat DEF Bucket
  <2> HIDE DEF upTo
  <2> QED  BY <2>1, <2>2, <2>3 DEF GlobalRateBound
<1> QED  BY <1>1, InvariantHolds, PTL

\* Two fresh answers for one message are a duplicate window apart.
THEOREM FreshAnswersSpaced == Spec => FreshSpacing
<1> DEFINE Spaced == \A key \in Keys :
             lastFresh[key] # NoTime /\ lastFresh'[key] # lastFresh[key] =>
               lastFresh'[key] - lastFresh[key] >= DupWindow
<1>1. IInv /\ [Next]_vars => [Spaced]_vars
  <2> SUFFICES ASSUME IInv, Next, NEW key \in Keys,
                      lastFresh[key] # NoTime, lastFresh'[key] # lastFresh[key]
               PROVE  lastFresh'[key] - lastFresh[key] >= DupWindow
    OBVIOUS
  <2> USE ConstantTypes
  <2>1. PICK other \in Keys : IsDuplicate(other)
    BY DEF Next, CheckLimit, RemovePeer, Cleanup, Tick, historyVars
  <2>2. Enabled /\ ~Duplicate(other)
          /\ lastFresh' = [lastFresh EXCEPT ![other] = now]
    BY <2>1 DEF IsDuplicate, MarkSeen
  <2>3. other = key /\ lastFresh'[key] = now
    BY <2>2 DEF IInv, TypeOK
  <2>4. \/ recent[key] = lastFresh[key]
        \/ recent[key] = NoTime /\ now - lastFresh[key] > DupWindow
    BY DEF IInv, FreshMarked
  <2>5. lastFresh[key] \in Nat /\ now \in Nat
    BY DEF IInv, TypeOK
  <2> QED  BY <2>2, <2>3, <2>4, <2>5 DEF Duplicate
<1> QED  BY <1>1, InvariantHolds, PTL DEF Spec, FreshSpacing

-----------------------------------------------------------------------------
(***************************************************************************)
(* The ingress.  RepeatsBounded is not inductive: what spaces the          *)
(* acceptances of a message is that either the duplicate map still holds a *)
(* mark no older than the earliest instant of the last acceptance, or the  *)
(* window after that instant is over (Remembered).                         *)
(***************************************************************************)

\* The earliest instant at which m can be accepted after n acceptances.
Earliest(m, n) == m.timestamp - MaxSkew + n * DupWindow

Remembered ==
  \A m \in Messages : accepted[m] > 0 =>
    \/ recent[KeyOf(m)] # NoTime /\ recent[KeyOf(m)] >= Earliest(m, accepted[m] - 1)
    \/ now >= Earliest(m, accepted[m])

\* A message in flight has a sender, an identifier and the key the limiter files it under.
LEMMA MessageTypes ==
  ASSUME NEW m \in Messages
  PROVE  /\ m.sender \in Peers /\ m.timestamp \in Nat /\ KeyOf(m) \in Keys
         /\ m.signed \in BOOLEAN /\ m.genuine \in BOOLEAN
         /\ MaxAge \in Nat /\ MaxSkew \in Nat /\ MaxQueue \in Nat \ {0}
         /\ "message" \in Kinds
  BY IngressAssumption DEF IngressAssumption, Message, KeyOf, Keys, Kinds

-----------------------------------------------------------------------------
(***************************************************************************)
(* The parts of the limiter inside a step of the ingress                   *)
(***************************************************************************)

\* verify() keeps the invariant of the limiter.
LEMMA VerifyLimiter ==
  ASSUME IInv, NEW m \in Messages, Verify(m), now' = now
  PROVE  IInv'
<1> USE MessageTypes
<1>0. TypeOK /\ PeerLedger /\ GlobalLedger /\ FreshMarked  BY DEF IInv
<1>1. CASE UNCHANGED <<limiterVars, historyVars>>
  <2>1. now' \in Nat /\ now' >= now  BY <1>0 DEF TypeOK
  <2> QED  BY <1>1, <2>1, TickInv
<1>2. CASE ~UNCHANGED <<limiterVars, historyVars>>
  <2> DEFINE p == m.sender
             key == KeyOf(m)
  <2>1. /\ Charge(p, "message") /\ RecordCharge(p, "message")
        /\ MarkSeen(key) \/ UNCHANGED <<recent, lastFresh>>
    BY <1>2 DEF Verify
  <2>2. p \in Peers /\ key \in Keys /\ "message" \in Kinds  OBVIOUS
  <2> HIDE DEF p, key
  <2>3. /\ globalBucket' \in Bucket /\ tracked' \subseteq Peers
        /\ peerBuckets' \in [tracked' -> [Kinds -> Bucket]]
        /\ granted' \in [Peers -> [Kinds -> Nat]] /\ grantedGlobal' \in Nat
        /\ since' \in [Peers -> Nat]
        /\ PeerLedger' /\ GlobalLedger'
    BY <1>0, <2>1, <2>2, ChargeInv
  <2>4. /\ recent' \in [Keys -> Nat \cup {NoTime}]
        /\ lastFresh' \in [Keys -> Nat \cup {NoTime}]
        /\ FreshMarked'
    <3>1. CASE MarkSeen(key)  BY <1>0, <2>2, <3>1, MarkSeenInv
    <3>2. CASE UNCHANGED <<recent, lastFresh>>
      BY <1>0, <3>2 DEF TypeOK, FreshMarked
    <3> QED  BY <2>1, <3>1, <3>2
  <2> QED  BY <1>0, <2>3, <2>4 DEF IInv, TypeOK
<1> QED  BY <1>1, <1>2

\* Every other step leaves the limiter alone, cleans it up or lets time pass.
LEMMA LimiterStep ==
  ASSUME IInv, [IngressNext]_ingressVars
  PROVE  IInv'
<1>0. now \in Nat  BY DEF IInv, TypeOK
<1>1. ASSUME UNCHANGED vars PROVE IInv'
  <2>1. now' \in Nat /\ now' >= now /\ UNCHANGED <<limiterVars, historyVars>>
    BY <1>0, <1>1 DEF vars
  <2> QED  BY <2>1, TickInv
<1>2. ASSUME NEW m \in Messages, Receive(m) PROVE IInv'
  BY <1>2, VerifyLimiter DEF Receive
<1>3. CASE LimiterCleanup
  BY <1>3, CleanupInv DEF LimiterCleanup
<1>4. CASE IngressTick
  <2>1. now' \in Nat /\ now' >= now /\ UNCHANGED <<limiterVars, historyVars>>
    BY <1>0, <1>4 DEF IngressTick, Tick
  <2> QED  BY <2>1, TickInv
<1>5. CASE UNCHANGED ingressVars  BY <1>1, <1>5 DEF ingressVars
<1> QED
  BY <1>1, <1>2, <1>3, <1>4, <1>5
     DEF IngressNext, ReceiveUnverified, Settle, Fail, Publish, PublishReturns,
         SetBlocked, Stop, StopReturns

-----------------------------------------------------------------------------
(***************************************************************************)
(* Type correctness                                                        *)
(***************************************************************************)

\* enqueueMessage keeps the queue a sequence within its bound.
LEMMA EnqueuedBounded ==
  ASSUME queue \in Seq(Messages \cup Own), NEW m \in Messages \cup Own,
         Len(queue) <= MaxQueue
  PROVE  /\ Enqueued(m) \in Seq(Messages \cup Own)
         /\ Len(Enqueued(m)) <= MaxQueue
<1>0. MaxQueue \in Nat \ {0}  BY IngressAssumption DEF IngressAssumption
<1>1. CASE Len(queue) >= MaxQueue
  <2>1. queue # <<>>  BY <1>0, <1>1
  <2>2. Tail(queue) \in Seq(Messages \cup Own) /\ Len(Tail(queue)) = Len(queue) - 1
    BY <2>1
  <2>3. Enqueued(m) = Append(Tail(queue), m)  BY <1>1 DEF Enqueued
  <2>4. Len(Enqueued(m)) = Len(queue)  BY <2>2, <2>3
  <2> QED  BY <2>2, <2>3, <2>4
<1>2. CASE ~(Len(queue) >= MaxQueue)
  <2>1. Enqueued(m) = Append(queue, m)  BY <1>2 DEF Enqueued
  <2>2. Len(Enqueued(m)) = Len(queue) + 1 /\ Len(queue) \in Nat  BY <2>1
  <2> QED  BY <1>0, <1>2, <2>1, <2>2
<1> QED  BY <1>1, <1>2

NodeTypeOK ==
  /\ phase \in {"running", "stopping", "stopped"}
  /\ blocked \subseteq Peers
  /\ inFlight \in [Messages -> [Verdicts -> Nat]]
  /\ publishing \subseteq Own
  /\ queue \in Seq(Messages \cup Own)
  /\ copies \in [Messages -> Nat]
  /\ accepted \in [Messages -> Nat]
  /\ admitted \in [Messages -> Nat]
  /\ published \subseteq Own

NodeInv == NodeTypeOK /\ QueueBounded

\* The state of the node stays well-typed and its queue bounded.
LEMMA NodeStep ==
  ASSUME NodeInv, [IngressNext]_ingressVars
  PROVE  NodeInv'
<1>0. NodeTypeOK /\ Len(queue) <= MaxQueue  BY DEF NodeInv, QueueBounded
<1>1. ASSUME NEW m \in Messages, Receive(m) PROVE NodeInv'
  <2>1. /\ UNCHANGED <<phase, blocked, publishing, queue, admitted, published>>
        /\ copies' = [copies EXCEPT ![m] = @ + 1]
        /\ Verify(m)
    BY <1>1 DEF Receive
  <2>2. inFlight' \in [Messages -> [Verdicts -> Nat]]
          /\ accepted' \in [Messages -> Nat]
    <3>1. \/ UNCHANGED inFlight
          \/ Await(m, "accept")
          \/ Await(m, "reject")
      BY <2>1 DEF Verify, Accept
    <3>2. \/ UNCHANGED accepted
          \/ accepted' = [accepted EXCEPT ![m] = @ + 1]
      BY <2>1 DEF Verify, Accept
    <3>3. inFlight' \in [Messages -> [Verdicts -> Nat]]
      <4>1. ASSUME NEW v \in Verdicts, Await(m, v)
            PROVE  inFlight' \in [Messages -> [Verdicts -> Nat]]
        BY <1>0, <4>1 DEF NodeTypeOK, Await
      <4>2. "accept" \in Verdicts /\ "reject" \in Verdicts  BY DEF Verdicts
      <4> QED  BY <1>0, <3>1, <4>1, <4>2 DEF NodeTypeOK
    <3>4. accepted' \in [Messages -> Nat]
      <4>0. accepted \in [Messages -> Nat]  BY <1>0 DEF NodeTypeOK
      <4>1. CASE UNCHANGED accepted  BY <4>0, <4>1
      <4>2. CASE accepted' = [accepted EXCEPT ![m] = @ + 1]  BY <4>0, <4>2
      <4> QED  BY <3>2, <4>1, <4>2
    <3> QED  BY <3>3, <3>4
  <2>3. copies' \in [Messages -> Nat]  BY <1>0, <2>1 DEF NodeTypeOK
  <2>4. NodeTypeOK'  BY <1>0, <2>1, <2>2, <2>3 DEF NodeTypeOK
  <2> QED  BY <1>0, <2>1, <2>4 DEF NodeInv, QueueBounded
<1>2. ASSUME NEW m \in Messages, ReceiveUnverified(m) PROVE NodeInv'
  <2>1. queue' \in Seq(Messages \cup Own) /\ Len(queue') <= MaxQueue
    BY <1>0, <1>2, EnqueuedBounded DEF ReceiveUnverified, NodeTypeOK
  <2> QED
    BY <1>0, <1>2, <2>1 DEF NodeInv, NodeTypeOK, QueueBounded, ReceiveUnverified
<1>3. ASSUME NEW m \in Messages, NEW v \in Verdicts, Settle(m, v) \/ Fail(m, v)
      PROVE  NodeInv'
  <2>1. /\ UNCHANGED <<phase, blocked, publishing, copies, accepted, published>>
        /\ inFlight[m][v] > 0
        /\ inFlight' = [inFlight EXCEPT ![m][v] = @ - 1]
        /\ queue' \in {queue, Enqueued(m)}
        /\ \/ UNCHANGED admitted
           \/ admitted' = [admitted EXCEPT ![m] = @ + 1]
    BY <1>3 DEF Settle, Fail, Landed
  <2>2. queue' \in Seq(Messages \cup Own) /\ Len(queue') <= MaxQueue
    BY <1>0, <2>1, EnqueuedBounded DEF NodeTypeOK
  <2>3. inFlight' \in [Messages -> [Verdicts -> Nat]]
    BY <1>0, <2>1 DEF NodeTypeOK
  <2>4. admitted' \in [Messages -> Nat]  BY <1>0, <2>1 DEF NodeTypeOK
  <2> QED  BY <1>0, <2>1, <2>2, <2>3, <2>4 DEF NodeInv, NodeTypeOK, QueueBounded
<1>4. ASSUME NEW o \in Own, Publish(o) PROVE NodeInv'
  BY <1>0, <1>4 DEF NodeInv, NodeTypeOK, QueueBounded, Publish
<1>5. ASSUME NEW o \in Own, PublishReturns(o) PROVE NodeInv'
  <2>1. queue' \in Seq(Messages \cup Own) /\ Len(queue') <= MaxQueue
    BY <1>0, <1>5, EnqueuedBounded DEF PublishReturns, NodeTypeOK
  <2> QED
    BY <1>0, <1>5, <2>1
       DEF NodeInv, NodeTypeOK, QueueBounded, PublishReturns, ingressHistory
<1>6. ASSUME NEW p \in Peers, SetBlocked(p) PROVE NodeInv'
  BY <1>0, <1>6
     DEF NodeInv, NodeTypeOK, QueueBounded, SetBlocked, ingressHistory
<1>7. CASE Stop \/ StopReturns
  BY <1>0, <1>7
     DEF NodeInv, NodeTypeOK, QueueBounded, Stop, StopReturns, ingressHistory
<1>8. CASE LimiterCleanup \/ IngressTick \/ UNCHANGED ingressVars
  BY <1>0, <1>8
     DEF NodeInv, NodeTypeOK, QueueBounded, LimiterCleanup, IngressTick,
         ingressVars, nodeVars, ingressHistory
<1> QED
  BY <1>1, <1>2, <1>3, <1>4, <1>5, <1>6, <1>7, <1>8 DEF IngressNext

\* A started node satisfies the invariants of the limiter and of the ingress path.
LEMMA InitNode == IngressInit => IInv /\ NodeInv
<1> SUFFICES ASSUME IngressInit PROVE IInv /\ NodeInv  OBVIOUS
<1>1. IInv  BY InitIInv DEF IngressInit
<1>2. NodeTypeOK  BY DEF IngressInit, NodeTypeOK
<1>3. Len(queue) = 0 /\ MaxQueue \in Nat
  BY IngressAssumption DEF IngressInit, IngressAssumption
<1> QED  BY <1>1, <1>2, <1>3 DEF NodeInv, QueueBounded

\* Both invariants hold of every state the node can reach.
LEMMA NodeInvariant == IngressSpec => [](IInv /\ NodeInv)
  BY InitNode, LimiterStep, NodeStep, PTL DEF IngressSpec

\* Both the limiter and the node keep their state well-typed.
THEOREM IngressTypeCorrect == IngressSpec => []IngressTypeOK
<1>1. IInv /\ NodeInv => IngressTypeOK
  BY DEF IInv, NodeInv, NodeTypeOK, IngressTypeOK
<1> QED  BY <1>1, NodeInvariant, PTL

\* The queue never holds more than MaxQueue messages, whoever writes to it.
THEOREM QueueStaysBounded == IngressSpec => []QueueBounded
<1>1. IInv /\ NodeInv => QueueBounded  BY DEF NodeInv
<1> QED  BY <1>1, NodeInvariant, PTL

-----------------------------------------------------------------------------
(***************************************************************************)
(* Accepted a window apart, queued exactly once                            *)
(***************************************************************************)

RepeatInv == Remembered /\ RepeatsBounded

\* The instants between two acceptances are a duplicate window apart.
LEMMA EarliestNext ==
  ASSUME NEW m \in Messages, NEW n \in Nat
  PROVE  /\ Earliest(m, n) \in Int
         /\ Earliest(m, n + 1) = Earliest(m, n) + DupWindow
         /\ Earliest(m, 0) = m.timestamp - MaxSkew
<1> USE MessageTypes, ConstantTypes
<1>1. n * DupWindow \in Nat  OBVIOUS
<1>2. (n + 1) * DupWindow = n * DupWindow + DupWindow  OBVIOUS
<1>3. 0 * DupWindow = 0  OBVIOUS
<1> QED  BY <1>1, <1>2, <1>3 DEF Earliest

\* A message is accepted again only after its window, and while it is timely.
LEMMA AcceptInv ==
  ASSUME Enabled, IInv, NodeInv, RepeatInv, NEW m \in Messages, Receive(m)
  PROVE  RepeatInv'
<1> USE MessageTypes, ConstantTypes
<1>0. /\ now \in Nat /\ now' = now
      /\ recent \in [Keys -> Nat \cup {NoTime}]
      /\ accepted \in [Messages -> Nat]
  BY DEF IInv, TypeOK, NodeInv, NodeTypeOK, Receive
<1>1. CASE UNCHANGED <<recent, accepted>>
  BY <1>0, <1>1 DEF RepeatInv, Remembered, RepeatsBounded, Earliest
<1>2. CASE ~UNCHANGED <<recent, accepted>>
  <2>1. /\ Timely(m) /\ MarkSeen(KeyOf(m))
        /\ Duplicate(KeyOf(m)) => UNCHANGED accepted
        /\ ~Duplicate(KeyOf(m)) => Accept(m)
    BY <1>2 DEF Receive, Verify, limiterVars
  <2>2. ~Duplicate(KeyOf(m)) /\ recent' = [recent EXCEPT ![KeyOf(m)] = now]
          /\ accepted' = [accepted EXCEPT ![m] = @ + 1]
    BY <1>2, <2>1 DEF MarkSeen, Accept
  <2>3. now <= m.timestamp + MaxAge /\ now >= m.timestamp - MaxSkew
    BY <1>0, <2>1 DEF Timely
  <2>4. recent[KeyOf(m)] # NoTime
          => recent[KeyOf(m)] \in Nat /\ now - recent[KeyOf(m)] >= DupWindow
    BY <1>0, <2>2 DEF Duplicate
  <2>5. now >= Earliest(m, accepted[m])
    <3>1. CASE accepted[m] = 0
      BY <2>3, <3>1, EarliestNext
    <3>2. CASE accepted[m] > 0
      <4>1. accepted[m] - 1 \in Nat /\ (accepted[m] - 1) + 1 = accepted[m]
        BY <1>0, <3>2
      <4>2. /\ Earliest(m, accepted[m] - 1) \in Int
            /\ Earliest(m, accepted[m]) = Earliest(m, accepted[m] - 1) + DupWindow
        BY <4>1, EarliestNext
      <4>3. \/ recent[KeyOf(m)] # NoTime
                 /\ recent[KeyOf(m)] >= Earliest(m, accepted[m] - 1)
            \/ now >= Earliest(m, accepted[m])
        BY <3>2 DEF RepeatInv, Remembered
      <4> QED  BY <1>0, <2>4, <4>2, <4>3
    <3> QED  BY <1>0, <3>1, <3>2
  <2>6. accepted[m] * DupWindow <= MaxAge + MaxSkew
    <3>1. accepted[m] * DupWindow \in Nat  BY <1>0
    <3> QED  BY <1>0, <2>3, <2>5, <3>1 DEF Earliest
  <2>7. RepeatsBounded'
    <3> SUFFICES ASSUME NEW n \in Messages, accepted'[n] > 0
                 PROVE  (accepted'[n] - 1) * DupWindow <= MaxAge + MaxSkew
      BY DEF RepeatsBounded
    <3>1. CASE n = m
      <4>1. accepted'[n] - 1 = accepted[m]  BY <1>0, <2>2, <3>1
      <4> QED  BY <2>6, <4>1
    <3>2. CASE n # m
      <4>1. accepted'[n] = accepted[n]  BY <1>0, <2>2, <3>2
      <4> QED  BY <4>1 DEF RepeatInv, RepeatsBounded
    <3> QED  BY <3>1, <3>2
  <2>8. Remembered'
    <3> SUFFICES ASSUME NEW n \in Messages, accepted'[n] > 0
                 PROVE  \/ /\ recent'[KeyOf(n)] # NoTime
                           /\ recent'[KeyOf(n)] >= Earliest(n, accepted'[n] - 1)
                        \/ now' >= Earliest(n, accepted'[n])
      BY DEF Remembered, Earliest
    <3>1. CASE n = m
      <4>1. accepted'[n] - 1 = accepted[m]  BY <1>0, <2>2, <3>1
      <4>2. recent'[KeyOf(n)] = now  BY <1>0, <2>2, <3>1
      <4>3. now # NoTime  BY <1>0
      <4> QED  BY <2>5, <3>1, <4>1, <4>2, <4>3
    <3>2. CASE n # m
      <4>1. accepted'[n] = accepted[n]  BY <1>0, <2>2, <3>2
      <4>2. accepted[n] - 1 \in Nat  BY <1>0, <4>1
      <4>3. Earliest(n, accepted[n] - 1) \in Int  BY <4>2, EarliestNext
      <4>4. \/ /\ recent[KeyOf(n)] # NoTime
               /\ recent[KeyOf(n)] >= Earliest(n, accepted[n] - 1)
            \/ now >= Earliest(n, accepted[n])
        BY <4>1 DEF RepeatInv, Remembered
      <4>5. CASE KeyOf(n) = KeyOf(m)
        \* The mark of the other message is moved forward.
        <5>1. recent'[KeyOf(n)] = now /\ now # NoTime  BY <1>0, <2>2, <4>5
        <5>2. recent[KeyOf(n)] # NoTime
                => recent[KeyOf(n)] \in Nat /\ recent[KeyOf(n)] <= now
          BY <1>0, <2>4, <4>5
        <5> QED  BY <1>0, <4>1, <4>3, <4>4, <5>1, <5>2
      <4>6. CASE KeyOf(n) # KeyOf(m)
        BY <1>0, <2>2, <4>1, <4>4, <4>6
      <4> QED  BY <4>5, <4>6
    <3> QED  BY <3>1, <3>2
  <2> QED  BY <2>7, <2>8 DEF RepeatInv
<1> QED  BY <1>1, <1>2

\* Every step of the node keeps what is remembered of the accepted messages.
LEMMA RepeatStep ==
  ASSUME Enabled, IInv, NodeInv, RepeatInv, [IngressNext]_ingressVars
  PROVE  RepeatInv'
<1> USE MessageTypes, ConstantTypes
<1>0. /\ now \in Nat /\ recent \in [Keys -> Nat \cup {NoTime}]
      /\ accepted \in [Messages -> Nat]
  BY DEF IInv, TypeOK, NodeInv, NodeTypeOK
<1>1. ASSUME NEW m \in Messages, Receive(m) PROVE RepeatInv'
  BY <1>1, AcceptInv
<1>2. ASSUME UNCHANGED <<vars, accepted>> PROVE RepeatInv'
  BY <1>2 DEF vars, limiterVars, RepeatInv, Remembered, RepeatsBounded, Earliest
\* What is left of Remembered when marks are only forgotten, and time only passes.
<1>3. ASSUME NEW m \in Messages, accepted[m] > 0
      PROVE  /\ Earliest(m, accepted[m] - 1) \in Int
             /\ Earliest(m, accepted[m]) = Earliest(m, accepted[m] - 1) + DupWindow
             /\ \/ /\ recent[KeyOf(m)] # NoTime
                   /\ recent[KeyOf(m)] >= Earliest(m, accepted[m] - 1)
                \/ now >= Earliest(m, accepted[m])
  <2>1. accepted[m] - 1 \in Nat /\ (accepted[m] - 1) + 1 = accepted[m]
    BY <1>0, <1>3
  <2>2. /\ Earliest(m, accepted[m] - 1) \in Int
        /\ Earliest(m, accepted[m]) = Earliest(m, accepted[m] - 1) + DupWindow
    BY <2>1, EarliestNext
  <2> QED  BY <1>3, <2>2 DEF RepeatInv, Remembered
<1>4. CASE LimiterCleanup
  <2>1. /\ now' = now /\ accepted' = accepted
        /\ \A key \in Keys :
             recent'[key] = IF Outdated(key) THEN NoTime ELSE recent[key]
    BY <1>4 DEF LimiterCleanup, Cleanup, ingressHistory
  <2>2. ASSUME NEW m \in Messages, accepted'[m] > 0
        PROVE  \/ /\ recent'[KeyOf(m)] # NoTime
                  /\ recent'[KeyOf(m)] >= Earliest(m, accepted'[m] - 1)
               \/ now' >= Earliest(m, accepted'[m])
    <3>1. accepted'[m] = accepted[m] /\ now' = now  BY <2>1
    <3>2. CASE Outdated(KeyOf(m))
      <4>1. recent[KeyOf(m)] \in Nat /\ now - recent[KeyOf(m)] > DupWindow
        BY <1>0, <3>2 DEF Outdated
      <4> QED  BY <1>0, <1>3, <2>2, <3>1, <4>1
    <3>3. CASE ~Outdated(KeyOf(m))
      <4>1. recent'[KeyOf(m)] = recent[KeyOf(m)]  BY <2>1, <3>3
      <4> QED  BY <1>3, <2>2, <3>1, <4>1
    <3> QED  BY <3>2, <3>3
  <2> QED  BY <2>1, <2>2 DEF RepeatInv, Remembered, RepeatsBounded, Earliest
<1>5. CASE IngressTick
  <2>1. now' = now + 1 /\ recent' = recent /\ accepted' = accepted
    BY <1>5 DEF IngressTick, Tick, limiterVars, ingressHistory
  <2>2. ASSUME NEW m \in Messages, accepted'[m] > 0
        PROVE  \/ /\ recent'[KeyOf(m)] # NoTime
                  /\ recent'[KeyOf(m)] >= Earliest(m, accepted'[m] - 1)
               \/ now' >= Earliest(m, accepted'[m])
    BY <1>0, <1>3, <2>1, <2>2
  <2> QED  BY <2>1, <2>2 DEF RepeatInv, Remembered, RepeatsBounded, Earliest
<1>6. CASE UNCHANGED ingressVars
  BY <1>2, <1>6 DEF ingressVars, ingressHistory
<1> QED
  BY <1>1, <1>2, <1>4, <1>5, <1>6
     DEF IngressNext, ReceiveUnverified, Settle, Fail, Publish, PublishReturns,
         SetBlocked, Stop, StopReturns, ingressHistory

\* A started node has accepted nothing yet.
LEMMA InitRepeat == IngressInit => RepeatInv
  BY DEF IngressInit, RepeatInv, Remembered, RepeatsBounded

\* Whatever the duplicate window and the age a message may have, the acceptances of
\* a message lie a window apart within the time for which verifyTimestamp lets it
\* pass; an ingress without its limiter promises nothing.
THEOREM AcceptancesApart == IngressSpec => []RepeatsBounded
<1>1. CASE Enabled
  <2>1. IngressInit => RepeatInv  BY InitRepeat
  <2>2. IInv /\ NodeInv /\ RepeatInv /\ [IngressNext]_ingressVars => RepeatInv'
    BY <1>1, RepeatStep
  <2>3. RepeatInv => RepeatsBounded  BY DEF RepeatInv
  <2> QED  BY <2>1, <2>2, <2>3, NodeInvariant, PTL DEF IngressSpec
<1>2. CASE ~Enabled
  <2>1. RepeatsBounded  BY <1>2 DEF RepeatsBounded
  <2>2. []RepeatsBounded  BY <2>1, PTL
  <2> QED  BY <2>2
<1> QED  BY <1>1, <1>2

\* Every step keeps the ledger, whether the updates it waits for fail or not.
LEMMA LedgerStep ==
  ASSUME NodeInv, AdmittedExact, [IngressNext]_ingressVars
  PROVE  AdmittedExact'
<1>0. NodeTypeOK  BY DEF NodeInv
<1>1. ASSUME NEW m \in Messages, Receive(m) PROVE AdmittedExact'
  <2>1. admitted' = admitted /\ Verify(m)  BY <1>1 DEF Receive
  <2>2. \/ UNCHANGED <<inFlight, accepted>>
        \/ Await(m, "reject") /\ UNCHANGED accepted
        \/ Accept(m)
    BY <2>1 DEF Verify
  <2>3. ASSUME NEW n \in Messages
        PROVE  admitted'[n] + inFlight'[n]["accept"] = accepted'[n]
    <3>1. /\ admitted[n] + inFlight[n]["accept"] = accepted[n]
          /\ admitted[n] \in Nat /\ inFlight[n]["accept"] \in Nat
      BY <1>0 DEF AdmittedExact, NodeTypeOK, Verdicts
    <3>2. CASE UNCHANGED <<inFlight, accepted>>  BY <2>1, <3>1, <3>2
    <3>3. CASE Await(m, "reject") /\ UNCHANGED accepted
      <4>1. inFlight'[n]["accept"] = inFlight[n]["accept"]
        BY <1>0, <3>3 DEF Await, NodeTypeOK, Verdicts
      <4> QED  BY <2>1, <3>1, <3>3, <4>1
    <3>4. CASE Accept(m)
      <4>1. CASE n = m
        <5>1. inFlight'[n]["accept"] = inFlight[n]["accept"] + 1
                /\ accepted'[n] = accepted[n] + 1
          BY <1>0, <3>4, <4>1 DEF Accept, Await, NodeTypeOK, Verdicts
        <5> QED  BY <2>1, <3>1, <5>1
      <4>2. CASE n # m
        <5>1. inFlight'[n] = inFlight[n] /\ accepted'[n] = accepted[n]
          BY <1>0, <3>4, <4>2 DEF Accept, Await, NodeTypeOK
        <5> QED  BY <2>1, <3>1, <5>1
      <4> QED  BY <4>1, <4>2
    <3> QED  BY <2>2, <3>2, <3>3, <3>4
  <2> QED  BY <2>3 DEF AdmittedExact
<1>2. ASSUME NEW m \in Messages, NEW v \in Verdicts, Settle(m, v) \/ Fail(m, v)
      PROVE  AdmittedExact'
  <2>1. /\ inFlight[m][v] > 0
        /\ inFlight' = [inFlight EXCEPT ![m][v] = @ - 1]
        /\ accepted' = accepted
        /\ v = "accept" => admitted' = [admitted EXCEPT ![m] = @ + 1]
        /\ v # "accept" => admitted' = admitted
    BY <1>2 DEF Settle, Fail, Landed
  <2>2. ASSUME NEW n \in Messages
        PROVE  admitted'[n] + inFlight'[n]["accept"] = accepted'[n]
    <3>1. /\ admitted[n] + inFlight[n]["accept"] = accepted[n]
          /\ admitted[n] \in Nat /\ inFlight[n]["accept"] \in Nat
      BY <1>0 DEF AdmittedExact, NodeTypeOK, Verdicts
    <3>2. CASE n = m /\ v = "accept"
      <4>1. inFlight'[n]["accept"] = inFlight[n]["accept"] - 1
              /\ admitted'[n] = admitted[n] + 1
        BY <1>0, <2>1, <3>2 DEF NodeTypeOK, Verdicts
      <4> QED  BY <2>1, <3>1, <4>1
    <3>3. CASE ~(n = m /\ v = "accept")
      <4>1. inFlight'[n]["accept"] = inFlight[n]["accept"]
              /\ admitted'[n] = admitted[n]
        BY <1>0, <2>1, <3>3 DEF NodeTypeOK, Verdicts
      <4> QED  BY <2>1, <3>1, <4>1
    <3> QED  BY <3>2, <3>3
  <2> QED  BY <2>2 DEF AdmittedExact
<1>3. ASSUME UNCHANGED <<inFlight, accepted, admitted>> PROVE AdmittedExact'
  BY <1>3 DEF AdmittedExact
<1> QED
  BY <1>1, <1>2, <1>3
     DEF IngressNext, ReceiveUnverified, Publish, PublishReturns, SetBlocked,
         Stop, StopReturns, LimiterCleanup, IngressTick, ingressVars, nodeVars,
         ingressHistory

\* What verify() accepted is queued exactly once, or its reputation update is
\* still awaited, in every state of the node.
THEOREM AdmittedExactly == IngressSpec => []AdmittedExact
<1>1. IngressInit => AdmittedExact
  BY DEF IngressInit, AdmittedExact, Verdicts
<1>2. NodeInv /\ AdmittedExact /\ [IngressNext]_ingressVars => AdmittedExact'
  BY LedgerStep
<1> QED  BY <1>1, <1>2, NodeInvariant, PTL DEF IngressSpec

-----------------------------------------------------------------------------
(***************************************************************************)
(* Acceptances and the rate of their sender                                *)
(***************************************************************************)

AcceptCapacity == PeerCapacity["message"]

\* The ledger of the limiter, kept for the acceptances of p since the start.
AcceptLedger(p) ==
  /\ IsFiniteSet(AcceptancesOf(p))
  /\ p \in tracked =>
       TrackedLedger(peerBuckets[p]["message"], AcceptCapacity, PeerWindow, 0,
                     Cardinality(AcceptancesOf(p)))
  /\ p \notin tracked =>
       UntrackedLedger(AcceptCapacity, PeerWindow, 0, Cardinality(AcceptancesOf(p)))

RateInv == \A p \in Peers : AcceptLedger(p)

\* Fewer grants satisfy the ledger of a bucket as well.
LEMMA FewerGrants ==
  ASSUME NEW b \in Bucket, NEW capacity \in Nat \ {0}, NEW interval \in Nat \ {0},
         NEW g \in Nat, NEW h \in Nat, h <= g,
         TrackedLedger(b, capacity, interval, 0, g)
  PROVE  TrackedLedger(b, capacity, interval, 0, h)
<1>1. h * interval <= g * interval  BY TimesMonotonic
<1>2. /\ h * interval \in Nat /\ g * interval \in Nat
      /\ capacity * interval \in Nat
  BY TimesNat
<1>3. b.lastRefill \in Nat /\ b.lastUsed \in Nat /\ b.tokens \in Nat  BY DEF Bucket
<1>4. (b.lastRefill - 0) * capacity \in Nat /\ (b.lastUsed - 0) * capacity \in Nat
  BY <1>3, TimesNat
<1> DEFINE hi == h * interval
           gi == g * interval
           full == capacity * interval
           upTo == (b.lastRefill - 0) * capacity
           used == (b.lastUsed - 0) * capacity
<1>5. /\ b.lastRefill >= 0 => gi + b.tokens <= full + upTo
      /\ b.lastRefill < 0 => g = 0
      /\ g > 0 => b.lastUsed >= 0 /\ gi <= full + used
  BY DEF TrackedLedger
<1>6. /\ b.lastRefill >= 0 => hi + b.tokens <= full + upTo
      /\ b.lastRefill < 0 => h = 0
      /\ h > 0 => b.lastUsed >= 0 /\ hi <= full + used
  <2> HIDE DEF hi, gi, full, upTo, used
  <2> QED  BY <1>1, <1>2, <1>3, <1>4, <1>5 DEF hi, gi, full, upTo, used
<1> QED  BY <1>6 DEF TrackedLedger

\* One more acceptance of m adds one element to the acceptances of its sender.
LEMMA OneMoreAcceptance ==
  ASSUME NodeTypeOK, NEW m \in Messages, NEW p \in Peers,
         IsFiniteSet(AcceptancesOf(p)),
         accepted' = [accepted EXCEPT ![m] = @ + 1]
  PROVE  /\ IsFiniteSet(AcceptancesOf(p)')
         /\ p # m.sender => AcceptancesOf(p)' = AcceptancesOf(p)
         /\ p = m.sender =>
              Cardinality(AcceptancesOf(p)') = Cardinality(AcceptancesOf(p)) + 1
<1> DEFINE next == <<m, accepted[m] + 1>>
<1>0. /\ accepted \in [Messages -> Nat]
      /\ \A n \in Messages : accepted'[n] = IF n = m THEN accepted[n] + 1 ELSE accepted[n]
  BY DEF NodeTypeOK
<1>1. CASE p # m.sender
  <2>1. \A n \in {x \in Messages : x.sender = p} : accepted'[n] = accepted[n]
    BY <1>0, <1>1
  <2>2. AcceptancesOf(p)' = AcceptancesOf(p)  BY <2>1 DEF AcceptancesOf
  <2> QED  BY <1>1, <2>2
<1>2. CASE p = m.sender
  <2>1. 1 .. accepted'[m] = (1 .. accepted[m]) \cup {accepted[m] + 1}
    BY <1>0
  <2>2. AcceptancesOf(p)' = AcceptancesOf(p) \cup {next}
    <3>1. \A x : x \in AcceptancesOf(p)' <=>
            \E n \in Messages : n.sender = p /\ x \in {n} \X (1 .. accepted'[n])
      BY DEF AcceptancesOf
    <3>2. \A x : x \in AcceptancesOf(p) <=>
            \E n \in Messages : n.sender = p /\ x \in {n} \X (1 .. accepted[n])
      BY DEF AcceptancesOf
    <3>3. \A x : x \in {m} \X (1 .. accepted'[m]) <=>
                   x \in {m} \X (1 .. accepted[m]) \/ x = next
      BY <2>1
    <3>4. \A n \in Messages : n # m => accepted'[n] = accepted[n]
      BY <1>0
    <3>5. \A x : x \in AcceptancesOf(p)' <=> x \in AcceptancesOf(p) \/ x = next
      <4> HIDE DEF next
      <4> QED  BY <1>2, <3>1, <3>2, <3>3, <3>4
    <3> QED  BY <3>5
  <2>3. next \notin AcceptancesOf(p)
    <3>1. accepted[m] + 1 \notin 1 .. accepted[m]  BY <1>0
    <3> QED  BY <3>1 DEF AcceptancesOf
  <2>4. /\ IsFiniteSet(AcceptancesOf(p) \cup {next})
        /\ Cardinality(AcceptancesOf(p) \cup {next}) = Cardinality(AcceptancesOf(p)) + 1
    BY <2>3, FS_AddElement
  <2> QED  BY <1>2, <2>2, <2>4
<1> QED  BY <1>1, <1>2
\* A charge that leads to an acceptance is paid for by the bucket of the sender.
LEMMA ChargeRate ==
  ASSUME Enabled, IInv, NodeInv, RateInv, NEW m \in Messages, Verify(m),
         now' = now, NEW p \in Peers
  PROVE  AcceptLedger(p)'
<1> USE MessageTypes, ConstantTypes
<1> DEFINE A == AcceptancesOf(p)
           n == Cardinality(A)
           cap == AcceptCapacity
<1>0. /\ now \in Nat /\ TypeOK /\ PeerLedger /\ NodeTypeOK
      /\ AcceptLedger(p) /\ IsFiniteSet(A) /\ n \in Nat /\ cap \in Nat \ {0}
  BY FS_CardinalityType DEF IInv, TypeOK, NodeInv, RateInv, AcceptLedger, AcceptCapacity
<1>1. CASE UNCHANGED <<peerBuckets, accepted>>
  <2>1. A' = A /\ tracked' = tracked  BY <1>1 DEF AcceptancesOf, tracked
  <2> QED
    BY <1>0, <1>1, <2>1 DEF AcceptLedger, TrackedLedger, UntrackedLedger, AcceptCapacity
<1>2. CASE ~UNCHANGED <<peerBuckets, accepted>>
  <2> DEFINE s == m.sender
  <2>1. /\ Charge(s, "message")
        /\ Accept(m) \/ UNCHANGED accepted
        /\ Accept(m) => Allowed(s, "message")
    <3>1. \/ ~UNCHANGED accepted
          \/ ~UNCHANGED <<limiterVars>>
      BY <1>2 DEF limiterVars
    <3>2. /\ Charge(s, "message")
          /\ IF Allowed(s, "message")
             THEN UNCHANGED accepted \/ Accept(m)
             ELSE UNCHANGED accepted
      BY <3>1 DEF Verify, limiterVars
    <3>3. Accept(m) => ~UNCHANGED accepted
      BY <1>0 DEF Accept, NodeTypeOK
    <3> QED  BY <3>2, <3>3
  <2>2. GlobalAllows
    BY <1>2, <2>1 DEF Charge, Allowed
  <2>3. /\ tracked' = tracked \cup {s}
        /\ \A q \in tracked \cup {s} : peerBuckets'[q] =
             IF q = s
             THEN [BucketsOf(s) EXCEPT !["message"] =
                     Consumed(@, PeerCapacity["message"], PeerWindow)]
             ELSE peerBuckets[q]
    BY <2>1, <2>2 DEF Charge, tracked
  <2>4. CASE p # s
    <3>1. A' = A
      <4>1. CASE UNCHANGED accepted  BY <4>1 DEF AcceptancesOf
      <4>2. CASE Accept(m)
        BY <1>0, <2>4, <4>2, OneMoreAcceptance DEF Accept
      <4> QED  BY <2>1, <4>1, <4>2
    <3>2. (p \in tracked' <=> p \in tracked)
            /\ (p \in tracked => peerBuckets'[p] = peerBuckets[p])
      BY <2>3, <2>4
    <3> QED
      BY <1>0, <3>1, <3>2 DEF AcceptLedger, TrackedLedger, UntrackedLedger, AcceptCapacity
  <2>5. CASE p = s
    <3> DEFINE b == BucketsOf(p)["message"]
               h == n + IF HasToken(b, cap, PeerWindow) /\ now >= 0 THEN 1 ELSE 0
    <3>1. /\ b \in Bucket
          /\ BucketOK(b, cap, PeerWindow)
          /\ TrackedLedger(b, cap, PeerWindow, 0, n)
      <4>1. CASE p \in tracked
        <5>1. b = peerBuckets[p]["message"]  BY <4>1 DEF BucketsOf
        <5>2. Ledger(p, "message")  BY <1>0 DEF PeerLedger
        <5> QED
          BY <1>0, <4>1, <5>1, <5>2 DEF Ledger, AcceptLedger, AcceptCapacity, TypeOK
      <4>2. CASE p \notin tracked
        <5>1. b = NewBucket(cap, PeerWindow)
          BY <4>2 DEF BucketsOf, AcceptCapacity
        <5>2. UntrackedLedger(cap, PeerWindow, 0, n)
          BY <1>0, <4>2 DEF AcceptLedger
        <5> HIDE DEF b, n, cap
        <5> QED  BY <1>0, <5>1, <5>2, NewBucketOK, NewBucketLedger
      <4> QED  BY <4>1, <4>2
    <3>2. BucketsOf(p) \in [Kinds -> Bucket]
      <4>1. CASE p \in tracked  BY <1>0, <4>1 DEF BucketsOf, TypeOK
      <4>2. CASE p \notin tracked
        BY <1>0, <4>2, NewBucketOK DEF BucketsOf
      <4> QED  BY <4>1, <4>2
    <3>3. p \in tracked' /\ peerBuckets'[p]["message"] = Consumed(b, cap, PeerWindow)
      BY <2>3, <2>5, <3>2 DEF AcceptCapacity
    <3>4. Consumed(b, cap, PeerWindow) \in Bucket
      <4> HIDE DEF b, cap
      <4> QED  BY <1>0, <3>1, ConsumedBucket
    <3>5. TrackedLedger(Consumed(b, cap, PeerWindow), cap, PeerWindow, 0, h)
      <4> HIDE DEF b, cap, n
      <4> QED  BY <1>0, <3>1, ConsumedLedger
    <3>6. /\ IsFiniteSet(A') /\ Cardinality(A') \in Nat
          /\ Cardinality(A') <= h /\ h \in Nat
      <4>1. CASE UNCHANGED accepted
        <5>1. A' = A  BY <4>1 DEF AcceptancesOf
        <5> HIDE DEF A, b, cap
        <5> QED  BY <1>0, <5>1
      <4>2. CASE Accept(m)
        <5>1. IsFiniteSet(A') /\ Cardinality(A') = n + 1
          BY <1>0, <2>5, <4>2, OneMoreAcceptance DEF Accept
        <5>2. HasToken(b, cap, PeerWindow)
          BY <2>1, <2>5, <4>2 DEF Allowed, PeerAllows, AcceptCapacity
        <5> HIDE DEF A, b, cap
        <5> QED  BY <1>0, <5>1, <5>2
      <4> QED  BY <2>1, <4>1, <4>2
    <3>7. TrackedLedger(Consumed(b, cap, PeerWindow), cap, PeerWindow, 0, Cardinality(A'))
      <4> DEFINE c == Consumed(b, cap, PeerWindow)
                 k == Cardinality(A')
      <4>1. /\ c \in Bucket /\ TrackedLedger(c, cap, PeerWindow, 0, h)
            /\ k \in Nat /\ h \in Nat /\ k <= h
        BY <3>4, <3>5, <3>6
      <4> HIDE DEF c, k, h, cap
      <4>2. TrackedLedger(c, cap, PeerWindow, 0, k)  BY <1>0, <4>1, FewerGrants
      <4> QED  BY <4>2 DEF c, k
    <3> QED  BY <3>3, <3>6, <3>7 DEF AcceptLedger, AcceptCapacity, TrackedLedger
  <2> QED  BY <2>4, <2>5
<1> QED  BY <1>1, <1>2

\* Every step of the node keeps the acceptances within the ledger of their sender.
LEMMA RateStep ==
  ASSUME Enabled, IInv, NodeInv, RateInv, [IngressNext]_ingressVars
  PROVE  RateInv'
<1> USE ConstantTypes
<1>0. now \in Nat /\ TypeOK /\ NodeTypeOK  BY DEF IInv, TypeOK, NodeInv
<1>1. ASSUME NEW m \in Messages, Receive(m) PROVE RateInv'
  BY <1>1, ChargeRate DEF Receive, RateInv
<1>2. ASSUME UNCHANGED <<vars, accepted>> PROVE RateInv'
  BY <1>2
     DEF vars, limiterVars, tracked, RateInv, AcceptLedger, AcceptancesOf,
         TrackedLedger, UntrackedLedger, AcceptCapacity
<1>3. CASE LimiterCleanup
  <2>1. /\ now' = now /\ accepted' = accepted
        /\ tracked' = {q \in tracked : ~Stale(q)}
        /\ \A q \in tracked' : peerBuckets'[q] = peerBuckets[q]
    BY <1>3 DEF LimiterCleanup, Cleanup, ingressHistory, tracked
  <2> SUFFICES ASSUME NEW p \in Peers PROVE AcceptLedger(p)'  BY DEF RateInv
  <2> DEFINE A == AcceptancesOf(p)
             n == Cardinality(A)
             cap == AcceptCapacity
  <2>2. A' = A  BY <2>1 DEF AcceptancesOf
  <2>3. AcceptLedger(p) /\ n \in Nat /\ cap \in Nat \ {0} /\ "message" \in Kinds
    BY FS_CardinalityType DEF RateInv, AcceptLedger, AcceptCapacity, Kinds
  <2>4. CASE p \in tracked'
    <3>1. p \in tracked  BY <2>1, <2>4
    <3> QED
      BY <2>1, <2>2, <2>3, <2>4, <3>1 DEF AcceptLedger, TrackedLedger, AcceptCapacity
  <2>5. CASE p \notin tracked
    <3>1. p \notin tracked'  BY <2>1, <2>5
    <3> QED
      BY <2>1, <2>2, <2>3, <2>5, <3>1 DEF AcceptLedger, UntrackedLedger, AcceptCapacity
  <2>6. CASE p \in tracked /\ p \notin tracked'
    <3> DEFINE b == peerBuckets[p]["message"]
    <3>1. b \in Bucket /\ now - b.lastUsed > StaleAfter
      BY <1>0, <2>1, <2>3, <2>6 DEF TypeOK, Stale
    <3>2. TrackedLedger(b, cap, PeerWindow, 0, n)
      BY <2>3, <2>6 DEF AcceptLedger
    <3>3. UntrackedLedger(cap, PeerWindow, 0, n)
      <4> HIDE DEF b, n, cap
      <4> QED  BY <1>0, <2>3, <3>1, <3>2, StaleLedger
    <3> QED
      BY <2>1, <2>2, <2>3, <2>6, <3>3 DEF AcceptLedger, UntrackedLedger, AcceptCapacity
  <2> QED  BY <2>4, <2>5, <2>6
<1>4. CASE IngressTick
  <2>1. now' = now + 1 /\ peerBuckets' = peerBuckets /\ accepted' = accepted
    BY <1>4 DEF IngressTick, Tick, limiterVars, ingressHistory
  <2> SUFFICES ASSUME NEW p \in Peers PROVE AcceptLedger(p)'  BY DEF RateInv
  <2> DEFINE A == AcceptancesOf(p)
             n == Cardinality(A)
             cap == AcceptCapacity
  <2>2. A' = A /\ tracked' = tracked  BY <2>1 DEF AcceptancesOf, tracked
  <2>3. AcceptLedger(p) /\ n \in Nat /\ cap \in Nat
    BY FS_CardinalityType DEF RateInv, AcceptLedger, AcceptCapacity, Kinds
  <2>4. CASE p \in tracked
    BY <2>1, <2>2, <2>3, <2>4 DEF AcceptLedger, TrackedLedger, AcceptCapacity
  <2>5. CASE p \notin tracked
    <3>1. (now - 0) * cap <= (now' - 0) * cap
      BY <1>0, <2>1, <2>3, TimesMonotonic
    <3>2. (now - 0) * cap \in Nat /\ (now' - 0) * cap \in Nat /\ n * PeerWindow \in Nat
      BY <1>0, <2>1, <2>3, TimesNat
    <3>3. n > 0 => n * PeerWindow <= (now - 0) * cap
      BY <2>3, <2>5 DEF AcceptLedger, UntrackedLedger
    <3> DEFINE before == (now - 0) * cap
               after == (now' - 0) * cap
               spent == n * PeerWindow
    <3>4. n > 0 => spent <= after
      <4> HIDE DEF before, after, spent
      <4> QED  BY <3>1, <3>2, <3>3 DEF before, after, spent
    <3> QED
      BY <1>0, <2>1, <2>2, <2>3, <2>5, <3>4
         DEF AcceptLedger, UntrackedLedger, AcceptCapacity
  <2> QED  BY <2>4, <2>5
<1>5. CASE UNCHANGED ingressVars
  BY <1>2, <1>5 DEF ingressVars, ingressHistory
<1> QED
  BY <1>1, <1>2, <1>3, <1>4, <1>5
     DEF IngressNext, ReceiveUnverified, Settle, Fail, Publish, PublishReturns,
         SetBlocked, Stop, StopReturns, ingressHistory

\* A started node has accepted nothing, and has no bucket for a peer.
LEMMA InitRate == IngressInit => RateInv
<1> SUFFICES ASSUME IngressInit, NEW p \in Peers PROVE AcceptLedger(p)
  BY DEF RateInv
<1>1. AcceptancesOf(p) = {}  BY DEF IngressInit, AcceptancesOf
<1>2. IsFiniteSet({}) /\ Cardinality({}) = 0  BY FS_EmptySet
<1>3. tracked = {}  BY DEF IngressInit, Init, tracked
<1> QED  BY <1>1, <1>2, <1>3 DEF AcceptLedger, UntrackedLedger

\* The messages accepted from a peer stay within the limit of its bucket, in
\* every state and however often the buckets are evicted.
THEOREM AcceptancesWithinRate ==
  ASSUME Enabled
  PROVE  IngressSpec => []AcceptedWithinRate
<1>1. IngressInit => RateInv  BY InitRate
<1>2. IInv /\ NodeInv /\ RateInv /\ [IngressNext]_ingressVars => RateInv'
  BY RateStep
<1>3. IInv /\ NodeInv /\ RateInv => AcceptedWithinRate
  <2> SUFFICES ASSUME IInv, NodeInv, RateInv, NEW p \in Peers
               PROVE  Cardinality(AcceptancesOf(p)) * PeerWindow
                        <= PeerCapacity["message"] * (PeerWindow + now)
    BY DEF AcceptedWithinRate
  <2> USE ConstantTypes
  <2> DEFINE n == Cardinality(AcceptancesOf(p))
             cap == AcceptCapacity
             b == peerBuckets[p]["message"]
  <2>1. /\ n \in Nat /\ cap \in Nat \ {0} /\ now \in Nat /\ AcceptLedger(p)
        /\ cap = PeerCapacity["message"]
        /\ p \in tracked => b \in Bucket /\ b.lastRefill <= now
    BY FS_CardinalityType
       DEF RateInv, AcceptLedger, AcceptCapacity, Kinds, IInv, TypeOK, PeerLedger,
           Ledger, BucketOK
  <2>2. cap * (PeerWindow + now) = cap * PeerWindow + now * cap
    BY <2>1, SMT
  <2>3. cap * PeerWindow \in Nat /\ now * cap \in Nat /\ n * PeerWindow \in Nat
    BY <2>1, TimesNat
  <2> DEFINE spent == n * PeerWindow
             full == cap * PeerWindow
             earned == now * cap
  <2>4. spent <= full + earned
    <3>1. CASE p \notin tracked
      <4>1. n > 0 => n * PeerWindow <= (now - 0) * cap
        BY <2>1, <3>1 DEF AcceptLedger, UntrackedLedger
      <4>2. now - 0 = now /\ (n = 0 => spent = 0)
        <5>1. n = 0 => n * PeerWindow = 0  BY SMT
        <5> QED  BY <2>1, <5>1
      <4>3. n > 0 => spent <= earned  BY <4>1, <4>2
      <4> HIDE DEF n, spent, full, earned
      <4> QED  BY <2>1, <2>3, <4>2, <4>3 DEF spent, full, earned
    <3>2. CASE p \in tracked
      <4> DEFINE upTo == b.lastRefill * cap
      <4>1. b.lastRefill \in Nat /\ b.tokens \in Nat  BY <2>1, <3>2 DEF Bucket
      <4>2. spent + b.tokens <= full + upTo
        <5>1. TrackedLedger(b, cap, PeerWindow, 0, n)
          BY <2>1, <3>2 DEF AcceptLedger
        <5>2. b.lastRefill - 0 = b.lastRefill /\ b.lastRefill >= 0  BY <4>1
        <5> QED  BY <5>1, <5>2 DEF TrackedLedger
      <4>3. upTo <= earned  BY <2>1, <3>2, <4>1, TimesMonotonic
      <4>4. upTo \in Nat  BY <2>1, <4>1, TimesNat
      <4> DEFINE t == b.tokens
      <4>5. t \in Nat /\ spent + t <= full + upTo /\ spent \in Nat /\ full \in Nat
              /\ earned \in Nat
        BY <2>3, <4>1, <4>2
      <4> HIDE DEF spent, full, earned, upTo, t
      <4> QED  BY <4>3, <4>4, <4>5
    <3> QED  BY <3>1, <3>2
  <2> QED  BY <2>1, <2>2, <2>4
<1> QED  BY <1>1, <1>2, <1>3, NodeInvariant, PTL DEF IngressSpec
=============================================================================
