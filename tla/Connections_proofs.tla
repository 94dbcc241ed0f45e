--------------------------- MODULE Connections_proofs ---------------------------
(***************************************************************************)
(* The connections of a node: the pool that keeps them, for any number of  *)
(* peers, any size and any lifetime, and the dial that makes one, for any  *)
(* addresses, priorities, timeouts and number of concurrent attempts.      *)
(***************************************************************************)
EXTENDS ConnectionPool, Failover, Subsequence_proofs

-----------------------------------------------------------------------------
(***************************************************************************)
(* The pool: sets of places, and what calls do to them                     *)
(***************************************************************************)

\* Which pairs are places.
LEMMA PlaceIn ==
  ASSUME NEW f, NEW x
  PROVE  x \in Places(f) <=> \E p \in DOMAIN f : \E i \in DOMAIN f[p] : x = <<p, i>>
BY DEF Places

\* Calls that leave the lengths alone leave the places alone.
LEMMA SamePlaces ==
  ASSUME NEW f, NEW g, DOMAIN f = DOMAIN g, \A p \in DOMAIN f : DOMAIN f[p] = DOMAIN g[p]
  PROVE  Places(f) = Places(g)
<1>1. \A x : x \in Places(f) <=> x \in Places(g)
  BY PlaceIn
<1> QED
  BY <1>1

\* An entry added takes one more place.
LEMMA PlaceAdded ==
  ASSUME NEW f, NEW p \in DOMAIN f, f[p] \in Seq(PoolEntry), NEW e \in PoolEntry
  PROVE  /\ Places(With(f, p, Append(f[p], e))) = Places(f) \cup {<<p, Len(f[p]) + 1>>}
         /\ <<p, Len(f[p]) + 1>> \notin Places(f)
<1> DEFINE g == With(f, p, Append(f[p], e))
           n == Len(f[p])
<1>1. /\ DOMAIN g = DOMAIN f
      /\ g[p] = Append(f[p], e) /\ \A q \in DOMAIN f \ {p} : g[q] = f[q]
  BY DEF With
<1>2. n \in Nat /\ DOMAIN f[p] = 1 .. n /\ DOMAIN Append(f[p], e) = 1 .. (n + 1)
  BY AppendProperties, LenProperties
<1> HIDE DEF g, n
<1>3. \A i : i \in DOMAIN g[p] <=> i \in DOMAIN f[p] \/ i = n + 1
  BY <1>1, <1>2
<1>4. \A x : x \in Places(g) <=> x \in Places(f) \/ x = <<p, n + 1>>
  BY <1>1, <1>3, PlaceIn
<1>5. <<p, n + 1>> \notin Places(f)
  BY <1>2, PlaceIn
<1> QED
  BY <1>4, <1>5 DEF g, n

\* An eviction frees one place.
LEMMA PlaceFreed ==
  ASSUME NEW f, NEW q \in DOMAIN f, f[q] \in Seq(PoolEntry), f[q] # <<>>
  PROVE  /\ Places(EvictedFrom(f, q)) = Places(f) \ {<<q, Len(f[q])>>}
         /\ <<q, Len(f[q])>> \in Places(f)
<1> DEFINE g == EvictedFrom(f, q)
           n == Len(f[q])
<1>1. n \in Nat \ {0} /\ DOMAIN f[q] = 1 .. n
  BY EmptySeq, LenProperties
<1>2. n \in DOMAIN f[q]
  BY <1>1
<1> HIDE DEF g, n
<1>3. CASE n = 1
  <2>1. DOMAIN g = DOMAIN f \ {q} /\ \A p \in DOMAIN g : g[p] = f[p]
    BY <1>3 DEF g, n, EvictedFrom, Without, Restrict
  <2>2. \A i \in DOMAIN f[q] : i = n
    BY <1>1, <1>3
  <2>3. \A x : x \in Places(g) <=> x \in Places(f) /\ x # <<q, n>>
    BY <1>2, <2>1, <2>2, PlaceIn
  <2> QED
    BY <1>2, <2>3, PlaceIn DEF g, n
<1>4. CASE n # 1
  <2>1. /\ DOMAIN g = DOMAIN f
        /\ g[q] = Tail(f[q]) /\ \A p \in DOMAIN f \ {q} : g[p] = f[p]
    BY <1>4 DEF g, n, EvictedFrom, With
  <2>2. DOMAIN Tail(f[q]) = 1 .. (n - 1)
    BY <1>1, HeadTailProperties, LenProperties DEF n
  <2>3. \A i : i \in DOMAIN g[q] <=> i \in DOMAIN f[q] /\ i # n
    BY <1>1, <2>1, <2>2
  <2>4. \A x : x \in Places(g) <=> x \in Places(f) /\ x # <<q, n>>
    BY <1>2, <2>1, <2>3, PlaceIn
  <2> QED
    BY <1>2, <2>4, PlaceIn DEF g, n
<1> QED
  BY <1>3, <1>4

\* What a cleanup keeps of an array are active connections of it, and it keeps
\* one if there is one.
LEMMA KeptActive ==
  ASSUME NEW s \in Seq(PoolEntry), \E i \in DOMAIN s : Active(s[i])
  PROVE  /\ Kept(s) \in Seq(PoolEntry) /\ Kept(s) # <<>>
         /\ DOMAIN Kept(s) \subseteq DOMAIN s
         /\ \A k \in DOMAIN Kept(s) : \E i \in DOMAIN s : Kept(s)[k] = s[i] /\ Active(s[i])
<1> DEFINE I == {i \in DOMAIN s : Active(s[i])}
           N == Cardinality(I)
<1>1. Kept(s) = Picked(s, I)
  BY DEF Kept
<1>2. I \in SUBSET DOMAIN s /\ I # {} /\ \A i \in I : Active(s[i])
  OBVIOUS
<1> HIDE DEF I
<1>3. /\ Kept(s) \in Seq(PoolEntry) /\ DOMAIN Kept(s) = 1 .. N
      /\ N \in 0 .. Len(s) /\ Len(s) \in Nat
      /\ \A k \in 1 .. N : Nth(I, k) \in I /\ Kept(s)[k] = s[Nth(I, k)]
      /\ \A i \in I : \E k \in 1 .. N : Nth(I, k) = i
  BY <1>1, <1>2, PickedElements
<1>4. DOMAIN s = 1 .. Len(s)
  BY LenProperties
<1> HIDE DEF N
<1>5. DOMAIN Kept(s) \subseteq DOMAIN s /\ DOMAIN Kept(s) # {}
  BY <1>2, <1>3, <1>4
<1>6. Kept(s) # <<>>
  BY <1>5
<1> QED
  BY <1>2, <1>3, <1>5, <1>6

\* The first entry of an array that passes a test, when there is one.
LEMMA ReusableFound ==
  ASSUME NEW p, pool[p] \in Seq(PoolEntry), Found(p) # 0
  PROVE  Found(p) \in DOMAIN pool[p] /\ Reusable(pool[p][Found(p)])
<1> DEFINE I == {i \in 1 .. Len(pool[p]) : Reusable(pool[p][i])}
<1>1. DOMAIN pool[p] = 1 .. Len(pool[p]) /\ Len(pool[p]) \in Nat
  BY LenProperties
<1>2. I # {} /\ Found(p) = CHOOSE x \in I : \A y \in I : x <= y
  BY DEF Found, SelectInSeq, Min
<1>3. I \in SUBSET Nat
  BY <1>1
<1>4. \E x \in I : \A y \in I : x <= y
  <2> HIDE DEF I
  <2> QED
    BY <1>2, <1>3, LeastNatural
<1>5. Found(p) \in I
  BY <1>2, <1>4
<1> QED
  BY <1>1, <1>5

LEMMA StreamFound ==
  ASSUME NEW p, pool[p] \in Seq(PoolEntry),
         NEW k, k = SelectInSeq(pool[p], LAMBDA entry : entry.streams > 0), k # 0
  PROVE  k \in DOMAIN pool[p] /\ pool[p][k].streams > 0
<1> DEFINE I == {i \in 1 .. Len(pool[p]) : pool[p][i].streams > 0}
<1>1. DOMAIN pool[p] = 1 .. Len(pool[p]) /\ Len(pool[p]) \in Nat
  BY LenProperties
<1>2. I # {} /\ k = CHOOSE x \in I : \A y \in I : x <= y
  BY DEF SelectInSeq, Min
<1>3. I \in SUBSET Nat
  BY <1>1
<1>4. \E x \in I : \A y \in I : x <= y
  <2> HIDE DEF I
  <2> QED
    BY <1>2, <1>3, LeastNatural
<1>5. k \in I
  BY <1>2, <1>4
<1> QED
  BY <1>1, <1>5

-----------------------------------------------------------------------------
(***************************************************************************)
(* The pool: its bound, and the age of what it hands out                   *)
(***************************************************************************)

\* A connection is no older than its lifetime when a cleanup has run, and grows
\* older with the time since then.
Fresh ==
  \A p \in DOMAIN pool : \A i \in DOMAIN pool[p] :
    now - pool[p][i].created <= ConnectionTTL + sinceClean

PoolInv ==
  /\ TypeOK
  /\ IsFiniteSet(Places(pool)) /\ PoolBounded
  /\ Fresh
  /\ ~running => DOMAIN pool = {}

\* The invariant gives the promise of getConnection.
LEMMA PoolInvSuffices == PoolInv => NoStaleConnection
<1> SUFFICES ASSUME PoolInv, NEW p \in DOMAIN pool, NEW i \in DOMAIN pool[p]
             PROVE  now - pool[p][i].created <= ConnectionTTL + Interval
  BY DEF NoStaleConnection
<1>1. now - pool[p][i].created <= ConnectionTTL + sinceClean /\ sinceClean \in 0 .. Interval
  BY DEF PoolInv, Fresh, TypeOK
<1>2. pool[p][i].created \in Nat /\ now \in Nat
  <2>1. pool[p] \in Seq(PoolEntry) /\ now \in Nat
    BY DEF PoolInv, TypeOK
  <2>2. pool[p][i] \in PoolEntry
    BY <2>1, LenProperties, ElementOfSeq
  <2> QED
    BY <2>1, <2>2 DEF PoolEntry
<1> QED
  BY <1>1, <1>2, PoolAssumption DEF PoolAssumption

\* The empty pool.
LEMMA PoolInvHolds == Init => PoolInv
<1> SUFFICES ASSUME Init PROVE PoolInv
  OBVIOUS
<1>1. DOMAIN pool = {}
  BY DEF Init
<1>2. Places(pool) = {}
  BY <1>1 DEF Places
<1>3. IsFiniteSet(Places(pool)) /\ Total(pool) = 0
  BY <1>2, FS_EmptySet DEF Total
<1>4. PoolBounded
  BY <1>1, <1>3, PoolAssumption DEF PoolBounded, PoolAssumption
<1> QED
  BY <1>1, <1>3, <1>4, PoolAssumption DEF Init, PoolInv, TypeOK, Fresh, PoolAssumption

\* What a call does to the entries of one array, neither adding nor removing one.
LEMMA EntriesChange ==
  ASSUME PoolInv, NEW p \in DOMAIN pool, NEW s \in Seq(PoolEntry), Len(s) = Len(pool[p]),
         \A i \in DOMAIN s :
           /\ s[i].created = pool[p][i].created
           /\ s[i].created <= s[i].used /\ s[i].used <= now
           /\ s[i].streams <= ReuseThreshold,
         pool' = [pool EXCEPT ![p] = s], added' = {}, UNCHANGED <<now, running, sinceClean>>
  PROVE  PoolInv'
<1>1. /\ DOMAIN pool' = DOMAIN pool /\ pool'[p] = s
      /\ \A q \in DOMAIN pool \ {p} : pool'[q] = pool[q]
  OBVIOUS
<1>2. DOMAIN s = DOMAIN pool[p]
  BY LenProperties DEF PoolInv, TypeOK
<1>3. TypeOK'
  BY <1>1 DEF PoolInv, TypeOK
<1>4. Places(pool') = Places(pool)
  BY <1>1, <1>2, SamePlaces
<1>5. s # <<>>
  BY <1>2, EmptySeq, LenProperties DEF PoolInv, PoolBounded, TypeOK
<1>6. PoolBounded'
  BY <1>1, <1>4, <1>5 DEF PoolInv, PoolBounded, Total
<1>7. Fresh'
  BY <1>1, <1>2 DEF PoolInv, Fresh
<1> QED
  BY <1>1, <1>3, <1>4, <1>6, <1>7 DEF PoolInv

\* The entries of an array of the pool.
LEMMA EntriesTyped ==
  ASSUME PoolInv, NEW p \in DOMAIN pool
  PROVE  /\ pool[p] \in Seq(PoolEntry) /\ now \in Nat
         /\ \A i \in DOMAIN pool[p] :
              /\ pool[p][i] \in PoolEntry
              /\ pool[p][i].created <= pool[p][i].used /\ pool[p][i].used <= now
              /\ pool[p][i].streams <= ReuseThreshold
         /\ DOMAIN pool[p] = 1 .. Len(pool[p]) /\ Len(pool[p]) \in Nat
<1>1. pool[p] \in Seq(PoolEntry)
  BY DEF PoolInv, TypeOK
<1> QED
  BY <1>1, LenProperties, ElementOfSeq DEF PoolInv, TypeOK

\* The call that replaces one entry of an array by another of the same age.
LEMMA EntryChanges ==
  ASSUME PoolInv, NEW p \in DOMAIN pool, NEW k \in DOMAIN pool[p], NEW e \in PoolEntry,
         e.created = pool[p][k].created, e.used \in {pool[p][k].used, now},
         e.streams <= ReuseThreshold,
         pool' = [pool EXCEPT ![p] = [pool[p] EXCEPT ![k] = e]],
         added' = {}, UNCHANGED <<now, running, sinceClean>>
  PROVE  PoolInv'
<1> DEFINE s == [pool[p] EXCEPT ![k] = e]
<1>1. s \in Seq(PoolEntry) /\ Len(s) = Len(pool[p])
  BY EntriesTyped, ExceptSeq
<1>2. DOMAIN s = DOMAIN pool[p] /\ s[k] = e /\ \A i \in DOMAIN pool[p] \ {k} : s[i] = pool[p][i]
  OBVIOUS
<1>3. e.created <= e.used /\ e.used <= now
  BY EntriesTyped DEF PoolEntry
<1> HIDE DEF s
<1>4. \A i \in DOMAIN s :
        /\ s[i].created = pool[p][i].created
        /\ s[i].created <= s[i].used /\ s[i].used <= now
        /\ s[i].streams <= ReuseThreshold
  BY <1>2, <1>3, EntriesTyped
<1> QED
  BY <1>1, <1>4, EntriesChange DEF s

\* The calls on the entries of a peer.
LEMMA CallsKeepPool ==
  ASSUME PoolInv, NEW p \in Peers,
         GetConnection(p) \/ IncrementStreams(p) \/ DecrementStreams(p) \/ MarkUnhealthy(p)
  PROVE  PoolInv'
<1>1. p \in DOMAIN pool
  BY DEF GetConnection, IncrementStreams, DecrementStreams, MarkUnhealthy
<1> DEFINE k == Found(p)
           entry == pool[p][k]
<1>2. k # 0 => k \in DOMAIN pool[p] /\ Reusable(entry) /\ entry \in PoolEntry
  BY <1>1, EntriesTyped, ReusableFound
<1> HIDE DEF k
<1>3. CASE GetConnection(p)
  <2> DEFINE e == [entry EXCEPT !.used = now]
  <2>1. k # 0 /\ pool' = [pool EXCEPT ![p] = [pool[p] EXCEPT ![k] = e]]
    BY <1>3 DEF GetConnection, k
  <2>2. /\ e \in PoolEntry /\ e.created = entry.created /\ e.used = now
        /\ e.streams = entry.streams
    BY <1>1, <1>2, <2>1, EntriesTyped DEF PoolEntry
  <2>3. e.streams <= ReuseThreshold
    BY <1>1, <1>2, <2>1, <2>2, EntriesTyped
  <2> HIDE DEF e, entry
  <2>4. k \in DOMAIN pool[p] /\ e.created = pool[p][k].created
    BY <1>2, <2>1, <2>2 DEF entry
  <2>5. added' = {} /\ UNCHANGED <<now, running, sinceClean>>
    BY <1>3 DEF GetConnection
  <2> QED
    BY <1>1, <2>1, <2>2, <2>3, <2>4, <2>5, EntryChanges
<1>4. CASE IncrementStreams(p)
  <2> DEFINE e == [entry EXCEPT !.used = now, !.streams = @ + 1]
  <2>1. k # 0 /\ pool' = [pool EXCEPT ![p] = [pool[p] EXCEPT ![k] = e]]
    BY <1>4 DEF IncrementStreams, k
  <2>2. /\ e \in PoolEntry /\ e.created = entry.created /\ e.used = now
        /\ e.streams = entry.streams + 1
    <3>1. entry \in PoolEntry /\ now \in Nat
      BY <1>1, <1>2, <2>1, EntriesTyped
    <3> HIDE DEF entry
    <3> DEFINE m == entry.streams + 1
    <3>2. m \in Nat /\ e = [entry EXCEPT !.used = now, !.streams = m]
      BY <3>1 DEF PoolEntry
    <3> HIDE DEF e, m
    <3>3. e \in PoolEntry /\ e.created = entry.created /\ e.used = now /\ e.streams = m
      BY <3>1, <3>2 DEF PoolEntry
    <3> QED
      BY <3>3 DEF m
  <2>3. e.streams <= ReuseThreshold
    BY <1>2, <2>1, <2>2, PoolAssumption DEF PoolAssumption, Reusable, PoolEntry
  <2> HIDE DEF e, entry
  <2>4. k \in DOMAIN pool[p] /\ e.created = pool[p][k].created
    BY <1>2, <2>1, <2>2 DEF entry
  <2>5. added' = {} /\ UNCHANGED <<now, running, sinceClean>>
    BY <1>4 DEF IncrementStreams
  <2> QED
    BY <1>1, <2>1, <2>2, <2>3, <2>4, <2>5, EntryChanges
<1>5. CASE DecrementStreams(p)
  <2>1. PICK i : /\ i = SelectInSeq(pool[p], LAMBDA x : x.streams > 0) /\ i # 0
                 /\ pool' = [pool EXCEPT ![p][i].streams = @ - 1]
    BY <1>5 DEF DecrementStreams
  <2>2. i \in DOMAIN pool[p] /\ pool[p][i].streams > 0 /\ pool[p][i] \in PoolEntry
    BY <1>1, <2>1, EntriesTyped, StreamFound
  <2> DEFINE e == [pool[p][i] EXCEPT !.streams = @ - 1]
  <2>3. pool' = [pool EXCEPT ![p] = [pool[p] EXCEPT ![i] = e]]
    BY <2>1
  <2>4. /\ e \in PoolEntry /\ e.created = pool[p][i].created /\ e.used = pool[p][i].used
        /\ e.streams = pool[p][i].streams - 1
    BY <2>2 DEF PoolEntry
  <2>5. e.streams <= ReuseThreshold
    BY <1>1, <2>2, <2>4, EntriesTyped, PoolAssumption DEF PoolEntry, PoolAssumption
  <2> HIDE DEF e
  <2> QED
    BY <1>1, <1>5, <2>2, <2>3, <2>4, <2>5, EntryChanges DEF DecrementStreams
<1>6. CASE MarkUnhealthy(p)
  <2> DEFINE s == [i \in DOMAIN pool[p] |-> [pool[p][i] EXCEPT !.healthy = FALSE]]
  <2>1. /\ pool' = [pool EXCEPT ![p] = s] /\ added' = {} /\ UNCHANGED <<now, running, sinceClean>>
    BY <1>6 DEF MarkUnhealthy
  <2>2. \A i \in DOMAIN s : /\ s[i] \in PoolEntry /\ s[i].created = pool[p][i].created
                            /\ s[i].used = pool[p][i].used
                            /\ s[i].streams = pool[p][i].streams
    <3>1. ASSUME NEW c \in PoolEntry
          PROVE  /\ [c EXCEPT !.healthy = FALSE] \in PoolEntry
                 /\ [c EXCEPT !.healthy = FALSE].created = c.created
                 /\ [c EXCEPT !.healthy = FALSE].used = c.used
                 /\ [c EXCEPT !.healthy = FALSE].streams = c.streams
      BY DEF PoolEntry
    <3>2. \A i \in DOMAIN s : /\ i \in DOMAIN pool[p] /\ pool[p][i] \in PoolEntry
                              /\ s[i] = [pool[p][i] EXCEPT !.healthy = FALSE]
      BY <1>1, EntriesTyped
    <3> HIDE DEF s
    <3> QED
      BY <3>1, <3>2
  <2>3. DOMAIN s = DOMAIN pool[p] /\ s \in [1 .. Len(pool[p]) -> PoolEntry]
    BY <1>1, <2>2, EntriesTyped
  <2>4. s \in Seq(PoolEntry) /\ Len(s) = Len(pool[p])
    BY <1>1, <2>3, EntriesTyped, SeqDef
  <2> HIDE DEF s
  <2>5. \A i \in DOMAIN s :
          /\ s[i].created = pool[p][i].created
          /\ s[i].created <= s[i].used /\ s[i].used <= now
          /\ s[i].streams <= ReuseThreshold
    BY <1>1, <2>2, <2>3, EntriesTyped
  <2> QED
    BY <1>1, <2>1, <2>4, <2>5, EntriesChange
<1> QED
  BY <1>3, <1>4, <1>5, <1>6

\* Sets of entries by peer, before the size of the pool is looked at.
Holds(f) ==
  /\ DOMAIN f \subseteq Peers
  /\ \A p \in DOMAIN f : f[p] \in Seq(PoolEntry) /\ \A i \in DOMAIN f[p] :
       /\ f[p][i].created <= f[p][i].used /\ f[p][i].used <= now
       /\ f[p][i].streams <= ReuseThreshold
       /\ now - f[p][i].created <= ConnectionTTL + sinceClean

\* A pool whose entries were in the pool, with some arrays cut, holds as much.
LEMMA CutHolds ==
  ASSUME NEW f, NEW g, Holds(f), DOMAIN g \subseteq DOMAIN f,
         \A p \in DOMAIN g : g[p] \in Seq(PoolEntry) /\ \A k \in DOMAIN g[p] :
           \E i \in DOMAIN f[p] : g[p][k] = f[p][i]
  PROVE  Holds(g)
BY DEF Holds

\* An eviction cuts one array.
LEMMA EvictionHolds ==
  ASSUME NEW f, Holds(f), NEW q \in DOMAIN f, f[q] # <<>>
  PROVE  Holds(EvictedFrom(f, q))
<1> DEFINE g == EvictedFrom(f, q)
<1>1. f[q] \in Seq(PoolEntry)
  BY DEF Holds
<1>2. /\ DOMAIN f[q] = 1 .. Len(f[q]) /\ Len(f[q]) \in Nat
      /\ Tail(f[q]) \in Seq(PoolEntry) /\ DOMAIN Tail(f[q]) = 1 .. (Len(f[q]) - 1)
      /\ \A k \in 1 .. (Len(f[q]) - 1) : Tail(f[q])[k] = f[q][k + 1]
  <2>1. Len(Tail(f[q])) = Len(f[q]) - 1 /\ Tail(f[q]) \in Seq(PoolEntry)
    BY <1>1, HeadTailProperties
  <2>2. /\ DOMAIN f[q] = 1 .. Len(f[q]) /\ Len(f[q]) \in Nat
        /\ DOMAIN Tail(f[q]) = 1 .. Len(Tail(f[q]))
    BY <1>1, <2>1, LenProperties
  <2>3. \A k \in 1 .. Len(Tail(f[q])) : Tail(f[q])[k] = f[q][k + 1]
    BY <1>1, HeadTailProperties
  <2> QED
    BY <2>1, <2>2, <2>3
<1>3. CASE Len(f[q]) = 1
  <2>1. DOMAIN g \subseteq DOMAIN f /\ \A p \in DOMAIN g : g[p] = f[p]
    BY <1>3 DEF EvictedFrom, Without, Restrict
  <2> QED
    BY <2>1, CutHolds DEF Holds
<1>4. CASE Len(f[q]) # 1
  <2>1. /\ DOMAIN g = DOMAIN f
        /\ g[q] = Tail(f[q]) /\ \A p \in DOMAIN f \ {q} : g[p] = f[p]
    BY <1>4 DEF EvictedFrom, With
  <2> HIDE DEF g
  <2>2. \A k \in DOMAIN g[q] : \E i \in DOMAIN f[q] : g[q][k] = f[q][i]
    <3>1. \A k \in 1 .. (Len(f[q]) - 1) : k + 1 \in 1 .. Len(f[q])
      BY <1>2
    <3> QED
      BY <1>2, <2>1, <3>1
  <2>3. \A p \in DOMAIN g : g[p] \in Seq(PoolEntry) /\ \A k \in DOMAIN g[p] :
          \E i \in DOMAIN f[p] : g[p][k] = f[p][i]
    BY <1>2, <2>1, <2>2 DEF Holds
  <2> QED
    BY <2>1, <2>3, CutHolds DEF g
<1> QED
  BY <1>3, <1>4

\* A new entry is as fresh as can be.
LEMMA AdditionHolds ==
  ASSUME NEW f, Holds(f), NEW p \in DOMAIN f, NEW e \in PoolEntry,
         e.created = now, e.used = now, e.streams = 0, now \in Nat, sinceClean \in Nat
  PROVE  /\ Holds(With(f, p, Append(f[p], e)))
         /\ Append(f[p], e) # <<>>
<1> DEFINE g == With(f, p, Append(f[p], e))
<1>1. /\ DOMAIN g = DOMAIN f
      /\ g[p] = Append(f[p], e) /\ \A q \in DOMAIN f \ {p} : g[q] = f[q]
  BY DEF With
<1>2. f[p] \in Seq(PoolEntry)
  BY DEF Holds
<1>3. /\ Append(f[p], e) \in Seq(PoolEntry) /\ Append(f[p], e) # <<>>
      /\ \A i \in DOMAIN Append(f[p], e) :
           \/ Append(f[p], e)[i] = e
           \/ i \in DOMAIN f[p] /\ Append(f[p], e)[i] = f[p][i]
  <2>1. /\ Append(f[p], e) \in Seq(PoolEntry) /\ Append(f[p], e) # <<>>
        /\ Len(Append(f[p], e)) = Len(f[p]) + 1
        /\ \A i \in 1 .. Len(f[p]) : Append(f[p], e)[i] = f[p][i]
        /\ Append(f[p], e)[Len(f[p]) + 1] = e
    BY <1>2, AppendProperties
  <2>2. /\ DOMAIN f[p] = 1 .. Len(f[p]) /\ Len(f[p]) \in Nat
        /\ DOMAIN Append(f[p], e) = 1 .. Len(Append(f[p], e))
    BY <1>2, <2>1, LenProperties
  <2>3. \A i \in 1 .. (Len(f[p]) + 1) : i = Len(f[p]) + 1 \/ i \in 1 .. Len(f[p])
    BY <2>2
  <2> QED
    BY <2>1, <2>2, <2>3
<1>4. /\ e.created <= e.used /\ e.used <= now /\ e.streams <= ReuseThreshold
      /\ now - e.created <= ConnectionTTL + sinceClean
  BY PoolAssumption DEF PoolAssumption
<1> HIDE DEF g
<1>5. Holds(g)
  BY <1>1, <1>3, <1>4 DEF Holds
<1> QED
  BY <1>3, <1>5 DEF g

\* What is left of the invariant for the pool that a call leaves behind.
LEMMA HoldsSuffices ==
  ASSUME PoolInv, NEW f, Holds(f), \A p \in DOMAIN f : f[p] # <<>>,
         IsFiniteSet(Places(f)), Total(f) <= MaxPoolSize,
         running, pool' = f, added' \subseteq Peers, UNCHANGED <<now, running, sinceClean>>
  PROVE  PoolInv'
<1>1. TypeOK'
  BY DEF PoolInv, TypeOK, Holds
<1>2. Fresh'
  BY DEF Holds, Fresh
<1> QED
  BY <1>1, <1>2 DEF PoolInv, PoolBounded

\* The pool holds what it should.
LEMMA PoolHolds == PoolInv => Holds(pool)
BY DEF PoolInv, TypeOK, Fresh, Holds

\* addConnection makes room before it adds.
LEMMA AdditionKeepsPool ==
  ASSUME PoolInv, running, NEW p \in Peers, AddConnection(p)
  PROVE  PoolInv'
<1> DEFINE entry == [created |-> now, used |-> now, streams |-> 0, healthy |-> TRUE]
           base == IF p \in DOMAIN pool THEN pool ELSE With(pool, p, <<>>)
           room(q) == EvictedFrom(base, q)
           plus(f) == With(f, p, Append(f[p], entry))
<1>1. /\ added' = {p} /\ UNCHANGED <<now, running, sinceClean>>
      /\ \/ ~Full(base) /\ pool' = plus(base)
         \/ /\ Full(base)
            /\ \E q \in OldestPeers(base) :
                 pool' = IF p \in DOMAIN room(q) THEN plus(room(q)) ELSE room(q)
  BY DEF AddConnection
<1>2. /\ now \in Nat /\ sinceClean \in Nat /\ MaxPoolSize \in Nat \ {0}
      /\ entry \in PoolEntry /\ entry.created = now /\ entry.used = now /\ entry.streams = 0
  BY PoolAssumption DEF PoolInv, TypeOK, PoolEntry, PoolAssumption
<1>3. /\ p \in DOMAIN base /\ DOMAIN base = DOMAIN pool \cup {p}
      /\ \A q \in DOMAIN pool : base[q] = pool[q]
      /\ p \notin DOMAIN pool => base[p] = <<>>
  BY DEF With
<1>4. /\ Holds(base)
      /\ \A q \in DOMAIN base \ {p} : base[q] # <<>>
  <2>1. /\ Holds(pool) /\ \A q \in DOMAIN pool : pool[q] # <<>>
    BY PoolHolds DEF PoolInv, PoolBounded
  <2>2. <<>> \in Seq(PoolEntry) /\ \A i \in DOMAIN <<>> : FALSE
    BY EmptySeq
  <2> HIDE DEF base
  <2> QED
    BY <1>3, <2>1, <2>2 DEF Holds
<1>5. Places(base) = Places(pool)
  <2>1. \A x : x \in Places(base) <=> x \in Places(pool)
    <3> HIDE DEF base
    <3>1. \A i \in DOMAIN <<>> : FALSE
      OBVIOUS
    <3> QED
      BY <1>3, <3>1, PlaceIn
  <2> QED
    BY <2>1
<1>6. /\ IsFiniteSet(Places(base)) /\ Total(base) \in Nat /\ Total(base) <= MaxPoolSize
  BY <1>5, FS_CardinalityType DEF PoolInv, PoolBounded, Total
<1> HIDE DEF entry, base
<1>7. ASSUME NEW f, Holds(f), p \in DOMAIN f, \A q \in DOMAIN f \ {p} : f[q] # <<>>,
             IsFiniteSet(Places(f)), Total(f) < MaxPoolSize, pool' = plus(f)
      PROVE  PoolInv'
  <2>1. f[p] \in Seq(PoolEntry)
    BY <1>7 DEF Holds
  <2>2. Holds(plus(f)) /\ Append(f[p], entry) # <<>>
    BY <1>2, <1>7, AdditionHolds
  <2>3. \A q \in DOMAIN plus(f) : plus(f)[q] # <<>>
    BY <1>7, <2>2 DEF With
  <2>4. /\ Places(plus(f)) = Places(f) \cup {<<p, Len(f[p]) + 1>>}
        /\ <<p, Len(f[p]) + 1>> \notin Places(f)
    BY <1>2, <1>7, <2>1, PlaceAdded
  <2> HIDE DEF plus
  <2>5. IsFiniteSet(Places(plus(f))) /\ Total(plus(f)) = Total(f) + 1
    BY <1>7, <2>4, FS_AddElement DEF Total
  <2>6. Total(f) \in Nat
    BY <1>7, FS_CardinalityType DEF Total
  <2>7. Total(plus(f)) <= MaxPoolSize
    BY <1>2, <1>7, <2>5, <2>6
  <2> QED
    BY <1>1, <1>7, <2>2, <2>3, <2>5, <2>7, HoldsSuffices
<1>8. CASE ~Full(base) /\ pool' = plus(base)
  <2>1. Total(base) < MaxPoolSize
    BY <1>2, <1>6, <1>8 DEF Full
  <2> QED
    BY <1>3, <1>4, <1>6, <1>7, <1>8, <2>1
<1>9. ASSUME NEW q \in OldestPeers(base),
             pool' = IF p \in DOMAIN room(q) THEN plus(room(q)) ELSE room(q)
      PROVE  PoolInv'
  <2>1. q \in DOMAIN base /\ base[q] # <<>> /\ base[q] \in Seq(PoolEntry)
    BY <1>4 DEF OldestPeers, Holds
  <2>2. Holds(room(q))
    BY <1>4, <2>1, EvictionHolds
  <2>3. \A s \in DOMAIN room(q) \ {p} : room(q)[s] # <<>>
    <3>1. /\ Len(base[q]) \in Nat
          /\ Len(base[q]) # 1 => Tail(base[q]) # <<>>
      <4>1. /\ Len(base[q]) \in Nat \ {0} /\ Tail(base[q]) \in Seq(PoolEntry)
            /\ Len(Tail(base[q])) = Len(base[q]) - 1
        BY <2>1, EmptySeq, HeadTailProperties
      <4>2. ASSUME Tail(base[q]) = <<>>
            PROVE  Len(base[q]) = 1
        <5>1. Len(<<>>) = 0
          OBVIOUS
        <5>2. Len(Tail(base[q])) = Len(<<>>)
          BY ONLY <4>2, Zenon
        <5> QED
          BY <4>1, <5>1, <5>2
      <4> QED
        BY <4>1, <4>2
    <3>2. CASE Len(base[q]) = 1
      BY <1>4, <3>2 DEF EvictedFrom, Without, Restrict
    <3>3. CASE Len(base[q]) # 1
      BY <1>4, <3>1, <3>3 DEF EvictedFrom, With
    <3> QED
      BY <3>2, <3>3
  <2>4. /\ Places(room(q)) = Places(base) \ {<<q, Len(base[q])>>}
        /\ <<q, Len(base[q])>> \in Places(base)
    BY <2>1, PlaceFreed
  <2> HIDE DEF room
  <2>5. IsFiniteSet(Places(room(q))) /\ Total(room(q)) = Total(base) - 1
    BY <1>6, <2>4, FS_RemoveElement DEF Total
  <2>6. Total(room(q)) < MaxPoolSize
    BY <1>2, <1>6, <2>5
  <2>7. CASE p \in DOMAIN room(q)
    BY <1>7, <1>9, <2>2, <2>3, <2>5, <2>6, <2>7
  <2>8. CASE p \notin DOMAIN room(q)
    <3>1. Total(room(q)) <= MaxPoolSize
      BY <1>2, <1>6, <2>5
    <3> QED
      BY <1>1, <1>9, <2>2, <2>3, <2>5, <2>8, <3>1, HoldsSuffices
  <2> QED
    BY <2>7, <2>8
<1> QED
  BY <1>1, <1>8, <1>9

\* What takes connections out of the pool.
LEMMA RemovalKeepsPool ==
  ASSUME PoolInv, (running /\ \E p \in Peers : RemovePeer(p)) \/ Cleanup \/ Stop
  PROVE  PoolInv'
<1>1. /\ Holds(pool) /\ IsFiniteSet(Places(pool)) /\ Total(pool) <= MaxPoolSize
      /\ \A q \in DOMAIN pool : pool[q] # <<>>
      /\ Total(pool) \in Nat /\ MaxPoolSize \in Nat
  BY PoolHolds, FS_CardinalityType, PoolAssumption
     DEF PoolInv, PoolBounded, Total, PoolAssumption
<1>2. ASSUME NEW f, DOMAIN f \subseteq DOMAIN pool,
             \A p \in DOMAIN f : DOMAIN f[p] \subseteq DOMAIN pool[p]
      PROVE  IsFiniteSet(Places(f)) /\ Total(f) <= MaxPoolSize
  <2>1. Places(f) \subseteq Places(pool)
    <3>1. \A x : x \in Places(f) => x \in Places(pool)
      BY <1>2, PlaceIn
    <3> QED
      BY <3>1
  <2>2. IsFiniteSet(Places(f)) /\ Total(f) <= Total(pool)
    BY <1>1, <2>1, FS_Subset DEF Total
  <2>3. Total(f) \in Nat
    BY <2>2, FS_CardinalityType DEF Total
  <2> QED
    BY <1>1, <2>2, <2>3
<1>3. ASSUME NEW p \in Peers, RemovePeer(p), running
      PROVE  PoolInv'
  <2>1. /\ DOMAIN pool' = DOMAIN pool \ {p} /\ \A q \in DOMAIN pool' : pool'[q] = pool[q]
        /\ added' = {} /\ UNCHANGED <<now, running, sinceClean>>
    BY <1>3 DEF RemovePeer, Without, Restrict
  <2>2. Holds(pool')
    BY <1>1, <2>1 DEF Holds
  <2>3. IsFiniteSet(Places(pool')) /\ Total(pool') <= MaxPoolSize
    BY <1>2, <2>1
  <2> QED
    BY <1>1, <1>3, <2>1, <2>2, <2>3, HoldsSuffices
<1>4. CASE Cleanup
  <2> DEFINE kept == {q \in DOMAIN pool : \E i \in DOMAIN pool[q] : Active(pool[q][i])}
  <2>1. /\ running /\ running' = running /\ now' = now /\ sinceClean' = 0 /\ added' = {}
        /\ DOMAIN pool' = kept /\ \A p \in kept : pool'[p] = Kept(pool[p])
    BY <1>4 DEF Cleanup, Cleaned
  <2>2. ASSUME NEW p \in DOMAIN pool'
        PROVE  /\ p \in DOMAIN pool /\ pool'[p] \in Seq(PoolEntry) /\ pool'[p] # <<>>
               /\ DOMAIN pool'[p] \subseteq DOMAIN pool[p]
               /\ \A k \in DOMAIN pool'[p] :
                    \E i \in DOMAIN pool[p] : pool'[p][k] = pool[p][i] /\ Active(pool[p][i])
    <3>1. p \in DOMAIN pool /\ pool[p] \in Seq(PoolEntry) /\ pool'[p] = Kept(pool[p])
      BY <1>1, <2>1 DEF Holds
    <3>2. \E i \in DOMAIN pool[p] : Active(pool[p][i])
      BY <2>1
    <3> QED
      BY <3>1, <3>2, KeptActive
  <2> HIDE DEF kept
  <2>3. IsFiniteSet(Places(pool')) /\ Total(pool') <= MaxPoolSize
    BY <1>2, <2>2
  <2>4. Holds(pool')
    <3>1. DOMAIN pool' \subseteq DOMAIN pool
      BY <2>2
    <3>2. \A p \in DOMAIN pool' : pool'[p] \in Seq(PoolEntry) /\ \A k \in DOMAIN pool'[p] :
            \E i \in DOMAIN pool[p] : pool'[p][k] = pool[p][i]
      BY <2>2
    <3> QED
      BY <1>1, <3>1, <3>2, CutHolds
  <2>5. TypeOK'
    BY <2>1, <2>4, PoolAssumption DEF PoolInv, TypeOK, Holds, PoolAssumption
  <2>6. PoolBounded'
    BY <2>2, <2>3 DEF PoolBounded
  <2>7. Fresh'
    <3>1. \A p \in DOMAIN pool' : \A k \in DOMAIN pool'[p] :
            /\ now - pool'[p][k].created <= ConnectionTTL
      BY <2>2 DEF Active
    <3>2. ConnectionTTL + 0 = ConnectionTTL
      BY PoolAssumption DEF PoolAssumption
    <3> QED
      BY <2>1, <3>1, <3>2 DEF Fresh
  <2> QED
    BY <2>1, <2>3, <2>5, <2>6, <2>7 DEF PoolInv
<1>5. CASE Stop
  <2>1. DOMAIN pool' = {} /\ running' = FALSE /\ added' = {} /\ UNCHANGED <<now, sinceClean>>
    BY <1>5 DEF Stop
  <2>2. IsFiniteSet(Places(pool')) /\ Total(pool') <= MaxPoolSize
    BY <1>2, <2>1
  <2> QED
    BY <2>1, <2>2 DEF PoolInv, TypeOK, PoolBounded, Fresh
<1> QED
  BY <1>3, <1>4, <1>5

\* Time passes; the timer that is due fires first.
LEMMA TickKeepsPool ==
  ASSUME PoolInv, Tick
  PROVE  PoolInv'
<1>1. /\ now' = now + 1 /\ sinceClean' = sinceClean + 1 /\ sinceClean < Interval
      /\ UNCHANGED <<pool, running>> /\ added' = {}
  BY DEF Tick
<1>2. now \in Nat /\ sinceClean \in 0 .. Interval /\ Interval \in Nat /\ ConnectionTTL \in Nat
  BY PoolAssumption DEF PoolInv, TypeOK, PoolAssumption
<1>3. ASSUME NEW p \in DOMAIN pool, NEW i \in DOMAIN pool[p]
      PROVE  /\ pool[p][i].used <= now'
             /\ now' - pool[p][i].created <= ConnectionTTL + sinceClean'
  <2>1. /\ pool[p][i].created \in Nat /\ pool[p][i].used \in Nat /\ pool[p][i].used <= now
        /\ now - pool[p][i].created <= ConnectionTTL + sinceClean
    BY EntriesTyped DEF PoolInv, Fresh, PoolEntry
  <2> QED
    BY <1>1, <1>2, <2>1
<1>4. TypeOK'
  BY <1>1, <1>2, <1>3 DEF PoolInv, TypeOK
<1>5. Fresh'
  BY <1>1, <1>3 DEF Fresh
<1> QED
  BY <1>1, <1>4, <1>5 DEF PoolInv, PoolBounded, Total

\* Every step keeps the pool in bounds and its connections fresh.
LEMMA PoolInvKept == PoolInv /\ [Next]_vars => PoolInv'
<1> SUFFICES ASSUME PoolInv, [Next]_vars PROVE PoolInv'
  OBVIOUS
<1>1. CASE UNCHANGED vars
  BY <1>1 DEF vars, PoolInv, TypeOK, PoolBounded, Total, Fresh
<1> QED
  BY <1>1, AdditionKeepsPool, CallsKeepPool, RemovalKeepsPool, TickKeepsPool DEF Next

\* Every variable of the pool keeps its type.
THEOREM PoolTypeCorrect == Spec => []TypeOK
<1>1. PoolInv => TypeOK
  BY DEF PoolInv
<1> QED
  BY <1>1, PoolInvHolds, PoolInvKept, PTL DEF Spec

\* The pool never holds more connections than maxPoolSize, nor a peer without
\* one: addConnection, evictOldest and cleanup of lib/p2p/connection/pool.ts.
THEOREM PoolAlwaysBounded == Spec => []PoolBounded
<1>1. PoolInv => PoolBounded
  BY DEF PoolInv
<1> QED
  BY <1>1, PoolInvHolds, PoolInvKept, PTL DEF Spec

\* getConnection never hands out a connection older than its lifetime and one
\* cleanup interval, however often it is used: getConnection and cleanup of
\* lib/p2p/connection/pool.ts.
THEOREM NeverStaleConnection == Spec => []NoStaleConnection
BY PoolInvHolds, PoolInvKept, PoolInvSuffices, PTL DEF Spec

-----------------------------------------------------------------------------
(***************************************************************************)
(* The dial: the first connection wins.  The invariant ties what an        *)
(* attempt is at to its dial, and every clock reading to the one winner    *)
(* there may be.                                                           *)
(***************************************************************************)

Stages == {"delayed", "cancelled", "dialing", "won", "superseded", "failed"}
Dials == {"none", "open", "connected", "refused"}
Times == Nat \cup {Unset}

FailoverTypeOK ==
  /\ clock \in Nat
  /\ attempt \in [Attempts -> Stages]
  /\ dial \in [Attempts -> Dials]
  /\ begun \in [Attempts -> Times]
  /\ reached \in [Attempts -> Times]

\* What the attempt in place i is at says what its dial is.
StageOfDial(i) ==
  /\ attempt[i] \in {"delayed", "cancelled"} <=> dial[i] = "none"
  /\ attempt[i] = "dialing" => dial[i] = "open"
  /\ attempt[i] \in {"won", "superseded"} => dial[i] = "connected"
  /\ dial[i] = "none" <=> begun[i] = Unset
  /\ dial[i] = "connected" <=> reached[i] # Unset
  /\ begun[i] <= clock /\ reached[i] <= clock

DialsFollowed == \A i \in Attempts : StageOfDial(i)

\* There is a winner if and only if the call takes no more, and one only; it
\* connected no later than any other that was in time, and no attempt began to
\* dial after that.
OneWinner ==
  /\ completed <=> \E i \in Attempts : attempt[i] = "won"
  /\ \A i \in Attempts : attempt[i] = "superseded" => completed
  /\ \A i, j \in Attempts : attempt[i] = "won" =>
       /\ attempt[j] = "won" => i = j
       /\ attempt[j] = "superseded" => reached[i] <= reached[j]
       /\ begun[j] <= reached[i]

\* The answer is that of the attempts, which have all ended.
AnswerTold ==
  /\ answer = Pending => reported = NoReport
  /\ answer # Pending =>
       /\ \A i \in Attempts : attempt[i] \notin Open
       /\ answer = "connected" <=> \E i \in Attempts : attempt[i] = "won"
       /\ reported = [attempts |-> 1,
                      successes |-> IF answer = "connected" THEN 1 ELSE 0,
                      failovers |-> IF answer = "connected" THEN 0 ELSE 1]

FailoverInv == FailoverTypeOK /\ DialsFollowed /\ OneWinner /\ AnswerTold

USE DEF Unset

-----------------------------------------------------------------------------
\* Sets whose elements are all equal.
LEMMA AtMostOne ==
  ASSUME NEW S, \A x, y \in S : x = y
  PROVE  Cardinality(S) <= 1
<1>1. CASE S = {}
  BY <1>1, FS_EmptySet
<1>2. CASE S # {}
  <2>1. PICK x : x \in S
    BY <1>2
  <2>2. S = {x}
    BY <2>1
  <2> QED  BY <2>2, FS_Singleton
<1> QED  BY <1>1, <1>2

\* The invariant says what the property says, and more.
LEMMA FailoverInvSuffices == FailoverInv => FirstConnectionWins
<1> SUFFICES ASSUME FailoverInv PROVE FirstConnectionWins
  OBVIOUS
<1> USE DEF FailoverInv
<1>1. NoDialAfterWin
  BY DEF NoDialAfterWin, OneWinner
<1>2. ASSUME answer # Pending PROVE WinnerWasFirst
  <2> DEFINE inTime == {i \in Attempts : reached[i] # Unset /\ attempt[i] # "failed"}
             won == {i \in Attempts : attempt[i] = "won"}
  <2>1. \A i \in Attempts : i \in inTime <=> attempt[i] \in {"won", "superseded"}
    BY <1>2 DEF FailoverTypeOK, Stages, DialsFollowed, StageOfDial, AnswerTold, Open
  <2>2. \A i \in won : \A j \in inTime : reached[i] <= reached[j]
    <3> SUFFICES ASSUME NEW i \in won, NEW j \in inTime PROVE reached[i] <= reached[j]
      OBVIOUS
    <3>1. CASE attempt[j] = "superseded"
      BY <3>1 DEF OneWinner
    <3>2. CASE attempt[j] = "won"
      BY <3>2 DEF OneWinner, FailoverTypeOK, Times
    <3> QED  BY <2>1, <3>1, <3>2
  <2>3. won # {} <=> inTime # {}
    BY <2>1 DEF OneWinner
  <2>4. Cardinality(won) <= 1
    <3>1. \A i, j \in won : i = j
      BY DEF OneWinner
    <3> QED  BY <3>1, AtMostOne
  <2> QED  BY <2>2, <2>3, <2>4 DEF WinnerWasFirst
<1>3. ASSUME answer # Pending PROVE OutcomeReported
  BY <1>3 DEF OutcomeReported, AnswerTold
<1> QED  BY <1>1, <1>2, <1>3 DEF FirstConnectionWins

\* No attempt has begun when the call is made.
LEMMA FailoverInvHolds == FailoverInit => FailoverInv
BY DEF FailoverInit, FailoverInv, FailoverTypeOK, DialsFollowed, StageOfDial, OneWinner,
       AnswerTold, Stages, Dials, Times, Pending

-----------------------------------------------------------------------------
\* What an attempt does leaves the addresses, and so the attempts, as they are.
LEMMA AttemptsKept == ASSUME addresses' = addresses PROVE Attempts' = Attempts
BY DEF Attempts

\* An attempt begins to dial only while there is no winner.
LEMMA BeginKeeps ==
  ASSUME FailoverInv, NEW i \in Attempts, Begin(i) PROVE FailoverInv'
<1> USE DEF FailoverInv
<1>1. Attempts' = Attempts
  BY AttemptsKept DEF Begin
<1>2. FailoverTypeOK'
  BY <1>1 DEF FailoverTypeOK, Begin, Move, Stages, Dials, Times
<1>3. DialsFollowed'
  BY <1>1 DEF FailoverTypeOK, DialsFollowed, StageOfDial, Begin, Move, Times
<1>4. OneWinner'
  BY <1>1 DEF FailoverTypeOK, OneWinner, Begin, Move
<1>5. AnswerTold'
  BY <1>1 DEF FailoverTypeOK, AnswerTold, Begin, Move, Open
<1> QED  BY <1>2, <1>3, <1>4, <1>5

\* A dial that connects makes its attempt the winner, or leaves the one there is.
LEMMA ConnectKeeps ==
  ASSUME FailoverInv, NEW i \in Attempts, Connect(i) PROVE FailoverInv'
<1> USE DEF FailoverInv
<1>1. Attempts' = Attempts
  BY AttemptsKept DEF Connect
<1>2. FailoverTypeOK'
  BY <1>1 DEF FailoverTypeOK, Connect, Move, Stages, Dials, Times
<1>3. DialsFollowed'
  BY <1>1 DEF FailoverTypeOK, DialsFollowed, StageOfDial, Connect, Move, Times
<1>4. OneWinner'
  <2>1. CASE attempt[i] = "dialing" /\ ~completed
    BY <1>1, <2>1
       DEF FailoverTypeOK, DialsFollowed, StageOfDial, OneWinner, Connect, Move, Times
  <2>2. CASE attempt[i] = "dialing" /\ completed
    BY <1>1, <2>2
       DEF FailoverTypeOK, DialsFollowed, StageOfDial, OneWinner, Connect, Move, Times
  <2>3. CASE attempt[i] # "dialing"
    <3>1. UNCHANGED <<attempt, completed, begun>> /\ reached' = [reached EXCEPT ![i] = clock]
      BY <2>3 DEF Connect
    <3>2. attempt[i] \notin {"won", "superseded"}
      BY DEF DialsFollowed, StageOfDial, Connect
    <3> QED  BY <1>1, <3>1, <3>2 DEF FailoverTypeOK, OneWinner
  <2> QED  BY <2>1, <2>2, <2>3
<1>5. AnswerTold'
  BY <1>1 DEF FailoverTypeOK, AnswerTold, Connect, Move, Open
<1> QED  BY <1>2, <1>3, <1>4, <1>5

\* A dial that is refused ends its attempt and no other.
LEMMA RefuseKeeps ==
  ASSUME FailoverInv, NEW i \in Attempts, Refuse(i) PROVE FailoverInv'
<1> USE DEF FailoverInv
<1>1. Attempts' = Attempts
  BY AttemptsKept DEF Refuse
<1>2. FailoverTypeOK'
  BY <1>1 DEF FailoverTypeOK, Refuse, Move, Stages, Dials, Times
<1>3. DialsFollowed'
  BY <1>1 DEF FailoverTypeOK, DialsFollowed, StageOfDial, Refuse, Move, Times
<1>4. OneWinner'
  BY <1>1 DEF FailoverTypeOK, DialsFollowed, StageOfDial, OneWinner, Refuse, Move
<1>5. AnswerTold'
  BY <1>1 DEF FailoverTypeOK, AnswerTold, Refuse, Move, Open
<1> QED  BY <1>2, <1>3, <1>4, <1>5

\* A dial that times out has not connected.
LEMMA TimeOutKeeps ==
  ASSUME FailoverInv, NEW i \in Attempts, TimeOut(i) PROVE FailoverInv'
<1> USE DEF FailoverInv
<1>1. Attempts' = Attempts
  BY AttemptsKept DEF TimeOut
<1>2. FailoverTypeOK'
  BY <1>1 DEF FailoverTypeOK, TimeOut, Move, Stages, Dials, Times
<1>3. DialsFollowed'
  BY <1>1 DEF FailoverTypeOK, DialsFollowed, StageOfDial, TimeOut, Move, Times
<1>4. OneWinner'
  BY <1>1 DEF FailoverTypeOK, OneWinner, TimeOut, Move
<1>5. AnswerTold'
  BY <1>1 DEF FailoverTypeOK, AnswerTold, TimeOut, Move, Open
<1> QED  BY <1>2, <1>3, <1>4, <1>5

\* The call returns once its attempts have ended, with the outcome they had.
LEMMA ReturnKeeps == FailoverInv /\ Return => FailoverInv'
<1> SUFFICES ASSUME FailoverInv, Return PROVE FailoverInv'
  OBVIOUS
<1> USE DEF FailoverInv
<1>1. Attempts' = Attempts
  BY AttemptsKept DEF Return
<1>2. FailoverTypeOK' /\ DialsFollowed' /\ OneWinner'
  BY <1>1 DEF FailoverTypeOK, DialsFollowed, StageOfDial, OneWinner, Return
<1>3. AnswerTold'
  BY <1>1 DEF AnswerTold, Return, Report, NoReport, Pending
<1> QED  BY <1>2, <1>3

\* Time passes for all attempts alike.
LEMMA WaitKeeps == FailoverInv /\ Wait => FailoverInv'
<1> SUFFICES ASSUME FailoverInv, Wait PROVE FailoverInv'
  OBVIOUS
<1> USE DEF FailoverInv
<1>1. Attempts' = Attempts
  BY AttemptsKept DEF Wait
<1>2. FailoverTypeOK'
  BY <1>1 DEF FailoverTypeOK, Wait
<1>3. DialsFollowed'
  BY <1>1 DEF FailoverTypeOK, DialsFollowed, StageOfDial, Wait, Times
<1>4. OneWinner' /\ AnswerTold'
  BY <1>1 DEF OneWinner, AnswerTold, Wait
<1> QED  BY <1>2, <1>3, <1>4

-----------------------------------------------------------------------------
\* The first address to connect wins, no other is dialled once it has, and the
\* metrics hear of the outcome once: of every call, to any addresses.
THEOREM FirstConnectionAlwaysWins == FailoverSpec => []FirstConnectionWins
<1>1. FailoverInv /\ [FailoverNext]_failoverVars => FailoverInv'
  <2> SUFFICES ASSUME FailoverInv, [FailoverNext]_failoverVars PROVE FailoverInv'
    OBVIOUS
  <2>1. CASE \E i \in Attempts : Attempt(i)
    BY <2>1, BeginKeeps, ConnectKeeps, RefuseKeeps, TimeOutKeeps DEF Attempt
  <2>2. CASE UNCHANGED failoverVars
    BY <2>2, AttemptsKept DEF FailoverInv, FailoverTypeOK, DialsFollowed, StageOfDial,
       OneWinner, AnswerTold, failoverVars
  <2> QED  BY <2>1, <2>2, ReturnKeeps, WaitKeeps DEF FailoverNext
<1> QED  BY <1>1, FailoverInvHolds, FailoverInvSuffices, PTL DEF FailoverSpec

=============================================================================
