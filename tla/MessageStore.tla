------------------------------ MODULE MessageStore ------------------------------
(***************************************************************************)
(* The messages in the database (lib/storage/schema.ts): the routes        *)
(* publish and query that store them, the route node/messages that pages   *)
(* through them, and the daily maintenance of server.ts that prunes them.  *)
(*                                                                         *)
(* A message is stored under its kind, the time the route gives it and its *)
(* ID, and the database lists keys in that order.  A scan sees the         *)
(* database as it was when the scan began; a put is in the database some   *)
(* time after the message got its time, so messages may be stored in       *)
(* another order than that of their times.                                 *)
(***************************************************************************)
EXTENDS Integers, FiniteSets

CONSTANTS
  Ids,       \* IDs, numbers in the order of the keys; generated in any order
  Retention, \* retentionDays
  Limits,    \* page sizes clients ask for
  MaxLimit,  \* the largest page, 100 in the code
  MaxTime    \* bound on the clock

ASSUME StoreAssumption ==
  /\ Ids \subseteq Nat /\ Retention \in Nat /\ MaxTime \in Nat
  /\ Limits \subseteq Nat \ {0} /\ MaxLimit \in Nat \ {0}

Kinds == <<"published", "query", "response">>

VARIABLES
  storeClock,
  stored,    \* the keys in the database
  writing,   \* writing[id]: the keys of a request that are being put, at most one
  used,      \* IDs of requests
  prune,     \* step: the prefix scanned next, Batched when the batch is next; 0
  reader,    \* a client that pages through the published messages
  \* History; nothing reads it.
  kept,      \* what has been stored ever since the client began
  pruned     \* whether something was pruned since

storeVars == <<storeClock, stored, writing, used, prune, reader, kept, pruned>>

Key == [kind : {Kinds[i] : i \in 1 .. 3}, time : 0 .. MaxTime, id : Ids]
Batched == 4
NoPrune == [step |-> 0, cutoff |-> 0, toDelete |-> {}]
NoReader == [reading |-> FALSE, ended |-> FALSE, order |-> "desc", limit |-> 1, offset |-> 0,
             seen |-> {}]

-----------------------------------------------------------------------------
\* The route has the node's answer and makes the message; of a query whose
\* answer has come both the query and the response are stored.
Stamp(id, kind) ==
  /\ id \in Ids \ used
  /\ used' = used \cup {id}
  /\ writing' = writing \cup {[kind |-> kind, time |-> storeClock, id |-> id]}
  /\ UNCHANGED <<storeClock, stored, prune, reader, kept, pruned>>

\* The put is done; after a query its response gets its time and is put.
Save(key) ==
  /\ key \in writing
  /\ stored' = stored \cup {key}
  /\ writing' = (writing \ {key}) \cup
       IF key.kind = "query" THEN {[key EXCEPT !.kind = "response", !.time = storeClock]} ELSE {}
  /\ UNCHANGED <<storeClock, used, prune, reader, kept, pruned>>

-----------------------------------------------------------------------------
BeginPrune ==
  /\ prune.step = 0 /\ storeClock >= Retention
  /\ prune' = [step |-> 1, cutoff |-> storeClock - Retention, toDelete |-> {}]
  /\ UNCHANGED <<storeClock, stored, writing, used, reader, kept, pruned>>

\* A range that takes in what is as old as the cutoff.
InRangeInclusive(key) == key.kind = Kinds[prune.step] /\ key.time <= prune.cutoff

\* The keys between "prefix0" and "prefixcutoff:".
InRange(key) == key.kind = Kinds[prune.step] /\ key.time < prune.cutoff

ScanPrefix ==
  /\ prune.step \in 1 .. 3
  /\ prune' = [prune EXCEPT !.step = @ + 1, !.toDelete = @ \cup {key \in stored : InRange(key)}]
  /\ UNCHANGED <<storeClock, stored, writing, used, reader, kept, pruned>>

\* One batch deletes what the three scans have found.
DeleteBatch ==
  /\ prune.step = Batched
  /\ stored' = stored \ prune.toDelete
  /\ prune' = NoPrune
  /\ kept' = kept \cap stored'
  /\ pruned' = (pruned \/ (reader.reading /\ prune.toDelete # {}))
  /\ UNCHANGED <<storeClock, writing, used, reader>>

-----------------------------------------------------------------------------
BeginRead(order, limit) ==
  /\ ~reader.reading /\ ~reader.ended
  /\ reader' = [NoReader EXCEPT !.reading = TRUE, !.order = order, !.limit = limit]
  /\ kept' = {key \in stored : key.kind = "published"}
  /\ pruned' = FALSE
  /\ UNCHANGED <<storeClock, stored, writing, used, prune>>

Published == {key \in stored : key.kind = "published"}

KeyBefore(k, l) == k.time < l.time \/ (k.time = l.time /\ k.id < l.id)

\* A scan that is never reversed.
BeforeAscending(key, order) == {k \in Published : KeyBefore(k, key)}

\* The messages a scan in the order lists before key.
Before(key, order) ==
  {k \in Published : IF order = "asc" THEN KeyBefore(k, key) ELSE KeyBefore(key, k)}

PageSize(limit) == IF limit < MaxLimit THEN limit ELSE MaxLimit

\* getMessages: offset messages are skipped.
Page(order, limit, offset) ==
  {key \in Published : Cardinality(Before(key, order)) \in offset .. offset + PageSize(limit) - 1}

\* One request of the client, which goes on from the answer's offset and limit
\* as long as it says that there is more.
ReadPage ==
  LET hasMore == reader.offset + reader.limit < Cardinality(Published)
  IN  /\ reader.reading
      /\ reader' = [reader EXCEPT
           !.seen = @ \cup Page(reader.order, reader.limit, reader.offset),
           !.offset = IF hasMore THEN @ + PageSize(reader.limit) ELSE 0,
           !.reading = hasMore, !.ended = ~hasMore]
      /\ UNCHANGED <<storeClock, stored, writing, used, prune, kept, pruned>>

\* A put takes less than the retention, which is of days.
StoreTick ==
  /\ storeClock < MaxTime
  /\ \A key \in writing : storeClock - key.time < Retention
  /\ storeClock' = storeClock + 1
  /\ UNCHANGED <<stored, writing, used, prune, reader, kept, pruned>>

StoreInit ==
  /\ storeClock = 0
  /\ stored = {} /\ writing = {} /\ used = {}
  /\ prune = NoPrune /\ reader = NoReader
  /\ kept = {} /\ pruned = FALSE

StoreNext ==
  \/ \E id \in Ids, kind \in {"published", "query"} : Stamp(id, kind)
  \/ \E key \in writing : Save(key)
  \/ BeginPrune \/ ScanPrefix \/ DeleteBatch
  \/ \E order \in {"asc", "desc"}, limit \in Limits : BeginRead(order, limit)
  \/ ReadPage \/ StoreTick

StoreSpec == StoreInit /\ [][StoreNext]_storeVars

-----------------------------------------------------------------------------
(***************************************************************************)
(* Properties                                                              *)
(***************************************************************************)

\* Whoever pages through the messages newest first, in pages no larger than the
\* largest, sees each that was stored before and has not been pruned since,
\* however many are stored and pruned between the pages.  Oldest first, it takes
\* that nothing is pruned meanwhile.
PagesMissNothing ==
  (reader.ended /\ reader.limit <= MaxLimit /\ (reader.order = "asc" => ~pruned))
    => kept \subseteq reader.seen

\* Pruning deletes what had outlived the retention when it began, of all kinds,
\* and nothing else.
PruneExact ==
  [][/\ \A key \in stored \ stored' : storeClock - key.time > Retention
     /\ DeleteBatch => \A key \in stored' : key.time >= prune.cutoff]_storeVars
=============================================================================
