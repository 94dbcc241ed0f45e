------------------------------- MODULE Blocklist -------------------------------
(***************************************************************************)
(* The blocklist (lib/security/blocklist/manager.ts): the bans in the      *)
(* database, the index of peers by reason, and the cache that              *)
(* isBlocklisted() answers from.                                           *)
(*                                                                         *)
(* add(), remove() and addEvidence() await the database several times, and *)
(* nothing keeps two of them apart: each call is a task, each awaited      *)
(* access takes effect in a step of its own.  A ban stands for its whole   *)
(* entry; evidence is not modelled, only the writes that record it.  What  *)
(* time does is to make a temporary ban expire.                            *)
(***************************************************************************)
EXTENDS FiniteSets

CONSTANTS
  Peers, Reasons,
  Bans,       \* calls of add(), each identified with the entry it creates
  PeerOf,     \* PeerOf[b]: the peer that b bans
  ReasonOf,   \* ReasonOf[b]
  Temporary,  \* the bans with an expiresAt
  Removals,   \* calls of remove() by callers
  Expiries,   \* calls of remove() by the blocklist, on an expired entry
  Reports,    \* calls of addEvidence()
  NoBan,
  Faults      \* the kinds of disturbance that may happen

Tasks == Bans \cup Removals \cup Expiries \cup Reports

ASSUME BlocklistAssumption ==
  /\ PeerOf \in [Bans -> Peers]
  /\ ReasonOf \in [Bans -> Reasons]
  /\ Temporary \subseteq Bans
  /\ NoBan \notin Bans
  /\ Bans \cap (Removals \cup Expiries \cup Reports) = {}
  /\ Removals \cap (Expiries \cup Reports) = {} /\ Expiries \cap Reports = {}
  /\ Faults \subseteq {"overlap", "read", "write", "del", "crash"}

VARIABLES
  disk,      \* disk[p]: blocklist:peer:p
  index,     \* index[r]: blocklist:reason:r
  cache,     \* cache[p]
  expired,   \* bans whose expiresAt has passed
  pc,        \* pc[t]: what task t does next
  held,      \* held[t]: the entry task t works on
  list,      \* list[t]: the index as task t wants to write it
  \* History; no task reads it.
  standing,  \* bans that nothing has superseded: no expiry, removal or later add
  unbanned,  \* bans a caller removed, and remove() resolved
  faults     \* the kinds of disturbance that have happened

vars == <<disk, index, cache, expired, pc, held, list, standing, unbanned, faults>>

MaybeBan == Bans \cup {NoBan}
Stages == {"idle", "put", "del", "readIndex", "putIndex", "cache", "uncache",
           "done", "failed"}

TypeOK ==
  /\ disk \in [Peers -> MaybeBan]
  /\ index \in [Reasons -> SUBSET Peers]
  /\ cache \in [Peers -> MaybeBan]
  /\ expired \subseteq Temporary
  /\ pc \in [Tasks -> Stages]
  /\ held \in [Tasks -> MaybeBan]
  /\ list \in [Tasks -> SUBSET Peers]
  /\ standing \subseteq Bans
  /\ unbanned \subseteq Bans
  /\ faults \subseteq Faults

-----------------------------------------------------------------------------
Ended(t) == pc[t] \in {"idle", "done", "failed"}
PeerOfTask(t) == PeerOf[held[t]]
Reason(t) == ReasonOf[held[t]]
Goto(t, stage) == pc' = [pc EXCEPT ![t] = stage]

\* The tasks under way on peer p.
Busy(p) == {t \in Tasks : ~Ended(t) /\ PeerOfTask(t) = p}

Happens(fault) == fault \in Faults /\ faults' = faults \cup {fault}

\* A call that begins while another one is under way on its peer.
Meets(p) == IF Busy(p) = {} THEN UNCHANGED faults ELSE Happens("overlap")

\* Task t starts on the entry b.
Start(t, b, stage) ==
  /\ pc[t] = "idle"
  /\ Meets(PeerOf[b])
  /\ held' = [held EXCEPT ![t] = b]
  /\ Goto(t, stage)
  /\ UNCHANGED <<disk, index, cache, expired, list, unbanned>>

\* add() up to its first await; it replaces what bans the peer.
BeginAdd(b) ==
  /\ Start(b, b, "put")
  /\ standing' = {c \in standing : PeerOf[c] # PeerOf[b]} \cup {b}

\* remove() called on a cached peer; without an entry it does nothing.
BeginRemove(t, p) ==
  /\ cache[p] # NoBan
  /\ Start(t, cache[p], "del")
  /\ standing' = {c \in standing : PeerOf[c] # p}

\* isBlocklisted(), getEntry() or cleanup() meets an expired entry and calls
\* remove() on its own account.
BeginExpiry(t, p) ==
  /\ cache[p] \in expired
  /\ Start(t, cache[p], "del")
  /\ UNCHANGED standing

\* addEvidence() on a cached peer.
BeginReport(t, p) ==
  /\ cache[p] # NoBan
  /\ Start(t, cache[p], "put")
  /\ UNCHANGED standing

\* An entry that only reaches the cache.
PutEntrySkipped(t) ==
  /\ pc[t] = "put"
  /\ Goto(t, IF t \in Bans THEN "readIndex" ELSE "cache")
  /\ UNCHANGED <<disk, index, cache, expired, held, list, standing, unbanned, faults>>

\* The entry is put, by add() or by addEvidence().
PutEntry(t) ==
  /\ pc[t] = "put"
  /\ disk' = [disk EXCEPT ![PeerOfTask(t)] = held[t]]
  /\ Goto(t, IF t \in Bans THEN "readIndex" ELSE "cache")
  /\ UNCHANGED <<index, cache, expired, held, list, standing, unbanned, faults>>

\* A removal that leaves the entry in the database.
DeleteSkipped(t) ==
  /\ pc[t] = "del"
  /\ Goto(t, "readIndex")
  /\ UNCHANGED <<disk, index, cache, expired, held, list, standing, unbanned, faults>>

\* The entry is deleted; a failure is swallowed.
Delete(t) ==
  /\ pc[t] = "del"
  /\ \/ disk' = [disk EXCEPT ![PeerOfTask(t)] = NoBan] /\ UNCHANGED faults
     \/ Happens("del") /\ UNCHANGED disk
  /\ Goto(t, "readIndex")
  /\ UNCHANGED <<index, cache, expired, held, list, standing, unbanned>>

\* add() has read the index as peers: it writes it unless the peer is there.
Listing(t, peers) ==
  IF PeerOfTask(t) \in peers
  THEN Goto(t, "cache") /\ UNCHANGED list
  ELSE Goto(t, "putIndex") /\ list' = [list EXCEPT ![t] = peers \cup {PeerOfTask(t)}]

\* The index is read.  add() takes a failed read for an empty index; remove()
\* gives up on a failed read.
ReadIndex(t) ==
  /\ pc[t] = "readIndex"
  /\ \/ /\ t \in Bans
        /\ \/ Listing(t, index[Reason(t)]) /\ UNCHANGED faults
           \/ Listing(t, {}) /\ Happens("read")
     \/ /\ t \in Removals \cup Expiries
        /\ Goto(t, "putIndex")
        /\ list' = [list EXCEPT ![t] = index[Reason(t)] \ {PeerOfTask(t)}]
        /\ UNCHANGED faults
     \/ /\ t \in Removals \cup Expiries
        /\ Happens("read")
        /\ Goto(t, "uncache")
        /\ UNCHANGED list
  /\ UNCHANGED <<disk, index, cache, expired, held, standing, unbanned>>

PutIndex(t) ==
  /\ pc[t] = "putIndex"
  /\ index' = [index EXCEPT ![Reason(t)] = list[t]]
  /\ Goto(t, IF t \in Bans THEN "cache" ELSE "uncache")
  /\ UNCHANGED <<disk, cache, expired, held, list, standing, unbanned, faults>>

\* A put rejects: add() and addEvidence() reject with it, remove() goes on.
PutFails(t) ==
  /\ pc[t] \in {"put", "putIndex"}
  /\ Happens("write")
  /\ Goto(t, IF t \in Removals \cup Expiries THEN "uncache" ELSE "failed")
  /\ UNCHANGED <<disk, index, cache, expired, held, list, standing, unbanned>>

\* add() and addEvidence() set the cache and resolve.
SetCache(t) ==
  /\ pc[t] = "cache"
  /\ cache' = [cache EXCEPT ![PeerOfTask(t)] = held[t]]
  /\ Goto(t, "done")
  /\ UNCHANGED <<disk, index, expired, held, list, standing, unbanned, faults>>

\* remove() clears the cache, whatever is in it now, and resolves.
Uncache(t) ==
  /\ pc[t] = "uncache"
  /\ cache' = [cache EXCEPT ![PeerOfTask(t)] = NoBan]
  /\ Goto(t, "done")
  /\ unbanned' = IF t \in Removals THEN unbanned \cup {held[t]} ELSE unbanned
  /\ UNCHANGED <<disk, index, expired, held, list, standing, faults>>

\* The expiresAt of b passes; it may already have when add() is called.
Expire(b) ==
  /\ b \in Temporary \ expired
  /\ pc[b] # "idle"
  /\ expired' = expired \cup {b}
  /\ standing' = standing \ {b}
  /\ UNCHANGED <<disk, index, cache, pc, held, list, unbanned, faults>>

\* A restart that trusts no temporary ban.
RestartPermanent ==
  /\ Happens("crash")
  /\ cache' = [p \in Peers |-> IF disk[p] \in Temporary THEN NoBan ELSE disk[p]]
  /\ disk' = [p \in Peers |-> IF disk[p] \in expired THEN NoBan ELSE disk[p]]
  /\ pc' = [t \in Tasks |-> IF Ended(t) THEN pc[t] ELSE "failed"]
  /\ UNCHANGED <<index, expired, held, list, standing, unbanned>>

\* The process stops and starts again: initialize() deletes the expired
\* entries and loads the others.  Nothing else runs until it returns.
Restart ==
  /\ Happens("crash")
  /\ cache' = [p \in Peers |-> IF disk[p] \in expired THEN NoBan ELSE disk[p]]
  /\ disk' = [p \in Peers |-> IF disk[p] \in expired THEN NoBan ELSE disk[p]]
  /\ pc' = [t \in Tasks |-> IF Ended(t) THEN pc[t] ELSE "failed"]
  /\ UNCHANGED <<index, expired, held, list, standing, unbanned>>

-----------------------------------------------------------------------------
Init ==
  /\ disk = [p \in Peers |-> NoBan]
  /\ index = [r \in Reasons |-> {}]
  /\ cache = [p \in Peers |-> NoBan]
  /\ expired = {}
  /\ pc = [t \in Tasks |-> "idle"]
  /\ held = [t \in Tasks |-> NoBan]
  /\ list = [t \in Tasks |-> {}]
  /\ standing = {}
  /\ unbanned = {}
  /\ faults = {}

Step(t) ==
  \/ PutEntry(t) \/ Delete(t) \/ ReadIndex(t) \/ PutIndex(t) \/ PutFails(t)
  \/ SetCache(t) \/ Uncache(t)

Next ==
  \/ \E b \in Bans : BeginAdd(b) \/ Expire(b)
  \/ \E t \in Removals, p \in Peers : BeginRemove(t, p)
  \/ \E t \in Expiries, p \in Peers : BeginExpiry(t, p)
  \/ \E t \in Reports, p \in Peers : BeginReport(t, p)
  \/ \E t \in Tasks : Step(t)
  \/ Restart

Spec == Init /\ [][Next]_vars

-----------------------------------------------------------------------------
(***************************************************************************)
(* Properties                                                              *)
(***************************************************************************)

\* A ban whose add() has resolved is in force until it expires, a caller
\* removes the peer or another add() begins; a restart, a failed access or the
\* expiry of an older ban does not lift it.  It needs calls and expiries on one
\* peer that do not overlap.
ActiveBanHolds ==
  "overlap" \notin faults =>
    \A b \in standing : pc[b] = "done" => cache[PeerOf[b]] = b

\* A peer with a resolved ban stays blocked while it is not removed and no ban
\* of it expires, however the calls on it overlap and wherever a restart or a
\* failed access cuts them short.
BannedStaysBlocked ==
  \A b \in Bans :
    (/\ pc[b] = "done"
     /\ \A c \in expired : PeerOf[c] # PeerOf[b]
     /\ \A t \in Removals : held[t] = NoBan \/ PeerOfTask(t) # PeerOf[b])
    => cache[PeerOf[b]] # NoBan

\* A ban that remove() took away for a caller is not in force again, after a
\* restart either, unless calls overlapped or the database refused to delete it.
RemovedStaysRemoved ==
  faults \cap {"overlap", "del"} = {} =>
    \A b \in unbanned : cache[PeerOf[b]] # b
=============================================================================
