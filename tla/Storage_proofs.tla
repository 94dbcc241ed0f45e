---------------------------- MODULE Storage_proofs ----------------------------
(***************************************************************************)
(* Proofs about what the node keeps in its database: the blocklist, for    *)
(* any number of peers, bans and calls; the messages, for any number of    *)
(* requests, any retention and pages of any size; and the configuration,   *)
(* for any command lines, environments and files.                          *)
(***************************************************************************)
EXTENDS Blocklist, MessageStore, Configuration, TLAPS, FiniteSetTheorems

-----------------------------------------------------------------------------
(***************************************************************************)
(* The blocklist.  What it promises of a ban, of a blocked peer and of a   *)
(* removal, whatever failures and restarts cut the calls short.            *)
(*                                                                         *)
(* None of the three is inductive: each speaks of the cache, and a restart *)
(* fills the cache from the database.  The invariant says of the database  *)
(* what the promise says of the cache, and of the calls under way that     *)
(* none of them is about to undo it.                                       *)
(***************************************************************************)

Active(t) == ~Ended(t)

\* What each kind of call goes through.
Passes(t, stage) ==
  /\ stage \in Stages
  /\ stage \in {"put", "cache"} => t \in Bans \cup Reports
  /\ stage \in {"readIndex", "putIndex"} => t \notin Reports
  /\ stage \in {"del", "uncache"} => t \in Removals \cup Expiries

\* An entry is filed under its peer, and its add() has begun; so has that of an
\* entry that has expired.
Entry(b, p) == b \in Bans /\ PeerOf[b] = p /\ pc[b] # "idle"

Filed ==
  /\ \A p \in Peers :
       /\ disk[p] # NoBan => Entry(disk[p], p)
       /\ cache[p] # NoBan => Entry(cache[p], p)
  /\ \A c \in expired : pc[c] # "idle"

\* A call that has begun works on an entry that was added, add() on its own
\* and an expiry on one that has expired.
Working ==
  \A t \in Tasks :
    /\ Passes(t, pc[t])
    /\ pc[t] = "idle" => held[t] = NoBan
    /\ pc[t] # "idle" =>
         /\ held[t] \in Bans /\ pc[held[t]] # "idle"
         /\ t \in Bans => held[t] = t
         /\ t \in Expiries => held[t] \in expired

\* No ban of the peer has expired and no caller has removed one.
Unlifted(p) ==
  /\ \A c \in expired : PeerOf[c] # p
  /\ \A t \in Removals : held[t] = NoBan \/ PeerOfTask(t) # p

Written(b) == pc[b] \in {"readIndex", "putIndex", "cache", "done"}

Blocking ==
  \A b \in Bans : (Written(b) /\ Unlifted(PeerOf[b])) =>
    /\ disk[PeerOf[b]] # NoBan
    /\ pc[b] = "done" => cache[PeerOf[b]] # NoBan

\* One call at a time on each peer.
OneByOne ==
  \A t, u \in Tasks : (Active(t) /\ Active(u) /\ PeerOfTask(t) = PeerOfTask(u)) => t = u

\* A ban that stands is the only one of its peer; once written it is in the
\* database, once resolved in the cache too, and only evidence is added to it.
StandsFirm(b) ==
  /\ b \notin expired /\ pc[b] # "idle"
  /\ \A c \in standing : PeerOf[c] = PeerOf[b] => c = b
  /\ Written(b) => disk[PeerOf[b]] = b
  /\ pc[b] = "done" =>
       /\ cache[PeerOf[b]] = b
       /\ \A t \in Tasks : (Active(t) /\ PeerOfTask(t) = PeerOf[b]) =>
            t \in Reports /\ held[t] = b

Standing == "overlap" \notin faults => OneByOne /\ \A b \in standing : StandsFirm(b)

\* A removal that has deleted its entry has not left it in the database, and
\* nothing brings back what was removed.
Deleted(t) == pc[t] \in {"readIndex", "putIndex", "uncache"} => disk[PeerOfTask(t)] # held[t]

Away(b) ==
  /\ pc[b] # "idle"
  /\ disk[PeerOf[b]] # b /\ cache[PeerOf[b]] # b
  /\ \A t \in Tasks : Active(t) => held[t] # b

Gone ==
  faults \cap {"overlap", "del"} = {} =>
    /\ \A t \in Removals \cup Expiries : Deleted(t)
    /\ \A b \in unbanned : Away(b)

-----------------------------------------------------------------------------
(***************************************************************************)
(* Types, and what calls work on                                           *)
(***************************************************************************)

\* The kinds of calls are apart, and bans are filed under peers.
LEMMA Constants ==
  /\ Bans \subseteq Tasks /\ Removals \subseteq Tasks
  /\ Expiries \subseteq Tasks /\ Reports \subseteq Tasks
  /\ Bans \cap (Removals \cup Expiries \cup Reports) = {}
  /\ Removals \cap (Expiries \cup Reports) = {} /\ Expiries \cap Reports = {}
  /\ NoBan \notin Bans /\ Temporary \subseteq Bans
  /\ \A b \in Bans : PeerOf[b] \in Peers
BY BlocklistAssumption DEF BlocklistAssumption, Tasks

\* A fault that happens is one of the faults that may.
LEMMA FaultsTyped ==
  ASSUME faults \subseteq Faults,
         UNCHANGED faults \/ \E f \in {"overlap", "read", "write", "del", "crash"} : Happens(f)
  PROVE  faults' \subseteq Faults
BY DEF Happens

\* Types and the entries calls work on, when the blocklist starts.
LEMMA InitTypes == Init => TypeOK /\ Filed /\ Working
<1> SUFFICES ASSUME Init PROVE TypeOK /\ Filed /\ Working
  OBVIOUS
<1>1. TypeOK
  BY DEF Init, TypeOK, MaybeBan, Stages
<1>2. Filed
  BY DEF Init, Filed
<1>3. Working
  BY DEF Init, Working, Passes, Stages
<1> QED
  BY <1>1, <1>2, <1>3

\* A call that begins works on an entry that was added.
LEMMA StartWorks ==
  ASSUME TypeOK, Filed, Working, NEW t \in Tasks, NEW b \in Bans, NEW stage,
         Start(t, b, stage),
         Passes(t, stage), stage # "idle",
         t \in Bans => b = t,
         t \notin Bans => pc[b] # "idle",
         t \in Expiries => b \in expired,
         standing' \subseteq Bans
  PROVE  TypeOK' /\ Filed' /\ Working'
<1> USE Constants
<1>1. /\ UNCHANGED <<disk, index, cache, expired, list, unbanned>>
      /\ held' = [held EXCEPT ![t] = b] /\ pc' = [pc EXCEPT ![t] = stage]
      /\ pc[t] = "idle"
  BY DEF Start, Goto
<1>2. faults' \subseteq Faults
  BY FaultsTyped DEF Start, Meets, TypeOK
<1>3. stage \in Stages
  BY DEF Passes
<1>4. TypeOK'
  BY <1>1, <1>2, <1>3 DEF TypeOK, MaybeBan
<1>5. \A c \in Bans : pc[c] # "idle" => pc'[c] # "idle"
  BY <1>1 DEF TypeOK
<1>6. Filed'
  BY <1>1, <1>5 DEF Filed, Entry
<1>7. pc'[b] # "idle"
  BY <1>1 DEF TypeOK
<1>8. Working'
  BY <1>1, <1>5, <1>7 DEF Working, TypeOK, Passes, Stages
<1> QED
  BY <1>4, <1>6, <1>8

\* A step of a call moves it along its stages.
LEMMA StepWorks ==
  ASSUME TypeOK, Filed, Working, NEW t \in Tasks, Step(t)
  PROVE  TypeOK' /\ Filed' /\ Working'
<1> USE Constants
<1>0. /\ Passes(t, pc[t])
      /\ pc[t] # "idle" => held[t] \in Bans /\ pc[held[t]] # "idle"
  BY DEF Working
<1>1. faults' \subseteq Faults
  BY FaultsTyped DEF Step, PutEntry, Delete, ReadIndex, PutIndex, PutFails, SetCache, Uncache,
     TypeOK
<1>2. /\ UNCHANGED <<expired, held, standing>>
      /\ pc[t] # "idle"
      /\ \E stage \in Stages \ {"idle"} :
           Passes(t, stage) /\ pc' = [pc EXCEPT ![t] = stage]
  <2>1. CASE PutEntry(t)
    BY <1>0, <2>1 DEF PutEntry, Goto, Passes, Stages
  <2>2. CASE Delete(t)
    BY <1>0, <2>2 DEF Delete, Goto, Passes, Stages
  <2>3. CASE ReadIndex(t)
    BY <1>0, <2>3 DEF ReadIndex, Listing, Goto, Passes, Stages
  <2>4. CASE PutIndex(t)
    BY <1>0, <2>4 DEF PutIndex, Goto, Passes, Stages, Tasks
  <2>5. CASE PutFails(t)
    BY <1>0, <2>5 DEF PutFails, Goto, Passes, Stages
  <2>6. CASE SetCache(t)
    BY <1>0, <2>6 DEF SetCache, Goto, Passes, Stages
  <2>7. CASE Uncache(t)
    BY <1>0, <2>7 DEF Uncache, Goto, Passes, Stages
  <2> QED
    BY <2>1, <2>2, <2>3, <2>4, <2>5, <2>6, <2>7 DEF Step
<1>3. held[t] \in Bans /\ PeerOfTask(t) \in Peers
  BY <1>0, <1>2 DEF PeerOfTask
<1>4. /\ UNCHANGED disk \/ disk' = [disk EXCEPT ![PeerOfTask(t)] = held[t]]
           \/ disk' = [disk EXCEPT ![PeerOfTask(t)] = NoBan]
      /\ UNCHANGED cache \/ cache' = [cache EXCEPT ![PeerOfTask(t)] = held[t]]
           \/ cache' = [cache EXCEPT ![PeerOfTask(t)] = NoBan]
      /\ UNCHANGED unbanned \/ unbanned' = unbanned \cup {held[t]}
  BY DEF Step, PutEntry, Delete, ReadIndex, PutIndex, PutFails, SetCache, Uncache
<1>5. list' \in [Tasks -> SUBSET Peers] /\ index' \in [Reasons -> SUBSET Peers]
  <2>1. CASE ReadIndex(t)
    <3>1. /\ UNCHANGED index
          /\ \/ UNCHANGED list
             \/ \E r \in Reasons : list' = [list EXCEPT ![t] = index[r] \cup {PeerOfTask(t)}]
             \/ list' = [list EXCEPT ![t] = {} \cup {PeerOfTask(t)}]
             \/ \E r \in Reasons : list' = [list EXCEPT ![t] = index[r] \ {PeerOfTask(t)}]
      <4>1. Reason(t) \in Reasons
        BY <1>3, BlocklistAssumption DEF Reason, BlocklistAssumption
      <4> QED
        BY <2>1, <4>1 DEF ReadIndex, Listing
    <3> QED
      BY <1>3, <3>1 DEF TypeOK
  <2>2. CASE PutIndex(t)
    BY <2>2 DEF PutIndex, TypeOK
  <2>3. CASE ~ReadIndex(t) /\ ~PutIndex(t)
    BY <2>3 DEF Step, PutEntry, Delete, PutFails, SetCache, Uncache, TypeOK
  <2> QED
    BY <2>1, <2>2, <2>3
<1>6. /\ disk' \in [Peers -> MaybeBan] /\ cache' \in [Peers -> MaybeBan]
      /\ unbanned' \subseteq Bans /\ pc' \in [Tasks -> Stages]
  BY <1>2, <1>3, <1>4 DEF TypeOK, MaybeBan
<1>7. TypeOK'
  BY <1>1, <1>2, <1>5, <1>6 DEF TypeOK
<1>8. \A c \in Bans : pc[c] # "idle" => pc'[c] # "idle"
  BY <1>2 DEF TypeOK
<1>9. Filed'
  BY <1>0, <1>2, <1>3, <1>4, <1>8 DEF Filed, Entry, TypeOK, PeerOfTask
<1>10. Working'
  BY <1>2, <1>8 DEF Working, TypeOK
<1> QED
  BY <1>7, <1>9, <1>10

\* A restart ends the calls and files nothing new.
LEMMA RestartWorks ==
  ASSUME TypeOK, Filed, Working, Restart
  PROVE  TypeOK' /\ Filed' /\ Working'
<1> USE Constants
<1>1. faults' \subseteq Faults
  BY FaultsTyped DEF Restart, TypeOK
<1>2. ASSUME NEW t \in Tasks
      PROVE  /\ pc'[t] = "idle" <=> pc[t] = "idle"
             /\ Passes(t, pc'[t])
  <2>1. pc'[t] = IF Ended(t) THEN pc[t] ELSE "failed"
    BY DEF Restart
  <2>2. CASE Ended(t)
    BY <2>1, <2>2 DEF Working
  <2>3. CASE ~Ended(t)
    BY <2>1, <2>3 DEF Ended, Passes, Stages
  <2> QED
    BY <2>2, <2>3
<1>3. TypeOK'
  <2>1. pc' \in [Tasks -> Stages]
    BY <1>2 DEF Restart, Passes
  <2> QED
    BY <1>1, <2>1 DEF Restart, TypeOK, MaybeBan
<1>4. Filed'
  <2>1. \A c \in Bans : pc'[c] = "idle" <=> pc[c] = "idle"
    BY <1>2
  <2>2. expired' = expired /\ expired \subseteq Bans
    BY DEF Restart, TypeOK
  <2>3. \A p \in Peers : /\ disk'[p] # NoBan => disk'[p] = disk[p]
                         /\ cache'[p] # NoBan => cache'[p] = disk[p]
    BY DEF Restart
  <2> QED
    BY <2>1, <2>2, <2>3 DEF Filed, Entry
<1>5. Working'
  <2>1. UNCHANGED <<held, expired>>
    BY DEF Restart
  <2> QED
    BY <1>2, <2>1 DEF Working
<1> QED
  BY <1>3, <1>4, <1>5

\* Every step keeps the types and the entries calls work on.
LEMMA TypesStep ==
  ASSUME TypeOK, Filed, Working, [Next]_vars
  PROVE  TypeOK' /\ Filed' /\ Working'
<1> USE Constants
<1>1. ASSUME NEW b \in Bans, BeginAdd(b)
      PROVE  TypeOK' /\ Filed' /\ Working'
  <2>1. Passes(b, "put")
    BY DEF Passes, Stages
  <2>2. standing' \subseteq Bans
    BY <1>1 DEF BeginAdd, TypeOK
  <2> QED
    BY <1>1, <2>1, <2>2, StartWorks DEF BeginAdd
<1>2. ASSUME NEW b \in Bans, Expire(b)
      PROVE  TypeOK' /\ Filed' /\ Working'
  BY <1>2 DEF Expire, TypeOK, Filed, Working, Entry
<1>3. ASSUME NEW t \in Removals, NEW p \in Peers, BeginRemove(t, p)
      PROVE  TypeOK' /\ Filed' /\ Working'
  <2>1. Passes(t, "del")
    BY DEF Passes, Stages
  <2>2. cache[p] \in Bans /\ pc[cache[p]] # "idle"
    BY <1>3 DEF BeginRemove, Filed, Entry
  <2>3. standing' \subseteq Bans
    BY <1>3 DEF BeginRemove, TypeOK
  <2> QED
    BY <1>3, <2>1, <2>2, <2>3, StartWorks DEF BeginRemove
<1>4. ASSUME NEW t \in Expiries, NEW p \in Peers, BeginExpiry(t, p)
      PROVE  TypeOK' /\ Filed' /\ Working'
  <2>1. Passes(t, "del")
    BY DEF Passes, Stages
  <2>2. cache[p] \in Bans /\ pc[cache[p]] # "idle"
    BY <1>4 DEF BeginExpiry, Filed, Entry, TypeOK
  <2> QED
    BY <1>4, <2>1, <2>2, StartWorks DEF BeginExpiry, TypeOK
<1>5. ASSUME NEW t \in Reports, NEW p \in Peers, BeginReport(t, p)
      PROVE  TypeOK' /\ Filed' /\ Working'
  <2>1. Passes(t, "put")
    BY DEF Passes, Stages
  <2>2. cache[p] \in Bans /\ pc[cache[p]] # "idle"
    BY <1>5 DEF BeginReport, Filed, Entry
  <2> QED
    BY <1>5, <2>1, <2>2, StartWorks DEF BeginReport, TypeOK
<1>6. CASE UNCHANGED vars
  BY <1>6 DEF vars, TypeOK, Filed, Working, Entry
<1> QED
  BY <1>1, <1>2, <1>3, <1>4, <1>5, <1>6, StepWorks, RestartWorks DEF Next

\* Every variable of the blocklist keeps its type, an entry is filed under its
\* own peer, and a call works on an entry that was added: the methods of
\* lib/security/blocklist/manager.ts.
THEOREM BlocklistTypeCorrect == Spec => [](TypeOK /\ Filed /\ Working)
<1>1. (TypeOK /\ Filed /\ Working) /\ [Next]_vars => (TypeOK /\ Filed /\ Working)'
  BY TypesStep
<1> QED
  BY InitTypes, <1>1, PTL DEF Spec

-----------------------------------------------------------------------------
(***************************************************************************)
(* A peer with a ban stays blocked                                         *)
(***************************************************************************)

\* What lifts the bans of a peer is not undone.
LEMMA UnliftedBefore ==
  ASSUME TypeOK, Filed, Working, [Next]_vars, NEW p \in Peers, Unlifted(p)'
  PROVE  Unlifted(p)
<1> USE Constants
<1>1. expired \subseteq expired'
  BY DEF Next, vars, BeginAdd, Expire, BeginRemove, BeginExpiry, BeginReport, Start, Step,
     PutEntry, Delete, ReadIndex, PutIndex, PutFails, SetCache, Uncache, Restart
<1>2. \A t \in Tasks : held'[t] = held[t] \/ held[t] = NoBan
  <2>1. ASSUME NEW t \in Tasks, NEW b, NEW stage, Start(t, b, stage)
        PROVE  \A u \in Tasks : held'[u] = held[u] \/ held[u] = NoBan
    BY <2>1 DEF Start, Working, TypeOK
  <2> QED
    BY <2>1 DEF Next, vars, BeginAdd, Expire, BeginRemove, BeginExpiry, BeginReport, Step,
       PutEntry, Delete, ReadIndex, PutIndex, PutFails, SetCache, Uncache, Restart
<1> QED
  BY <1>1, <1>2 DEF Unlifted, PeerOfTask

\* The entries that calls on an unlifted peer work on are not to be removed.
LEMMA NoneRemoves ==
  ASSUME TypeOK, Working, NEW p \in Peers, Unlifted(p),
         NEW t \in Removals \cup Expiries, pc[t] # "idle"
  PROVE  PeerOfTask(t) # p
BY Constants DEF Working, Unlifted, PeerOfTask

\* A step of a call takes no ban away from an unlifted peer.
LEMMA StepBlocks ==
  ASSUME TypeOK, Filed, Working, Blocking, NEW t \in Tasks, Step(t)
  PROVE  Blocking'
<1> USE Constants
<1> SUFFICES ASSUME NEW b \in Bans, Written(b)', Unlifted(PeerOf[b])'
             PROVE  /\ disk'[PeerOf[b]] # NoBan
                    /\ pc'[b] = "done" => cache'[PeerOf[b]] # NoBan
  BY DEF Blocking
<1> DEFINE p == PeerOf[b]
<1>0. Unlifted(p)
  <2>1. Next
    BY DEF Next
  <2> QED
    BY <2>1, UnliftedBefore
<1>1. Written(b) => disk[p] # NoBan /\ (pc[b] = "done" => cache[p] # NoBan)
  BY <1>0 DEF Blocking
<1>2. /\ p \in Peers /\ disk \in [Peers -> MaybeBan] /\ cache \in [Peers -> MaybeBan]
      /\ pc \in [Tasks -> Stages] /\ b \in Tasks
      /\ pc[t] # "idle" => held[t] \in Bans /\ held[t] # NoBan
      /\ t \in Bans => held[t] = t
      /\ Passes(t, pc[t])
  <2>1. CASE pc[t] = "idle"
    BY <2>1 DEF Step, PutEntry, Delete, ReadIndex, PutIndex, PutFails, SetCache, Uncache
  <2>2. CASE pc[t] # "idle"
    BY <2>2 DEF TypeOK, Working
  <2> QED
    BY <2>1, <2>2
<1> HIDE DEF p
<1>3. CASE PutEntry(t)
  <2>1. /\ disk' = [disk EXCEPT ![PeerOfTask(t)] = held[t]] /\ cache' = cache
        /\ pc' = [pc EXCEPT ![t] = IF t \in Bans THEN "readIndex" ELSE "cache"]
        /\ pc[t] = "put"
    BY <1>3 DEF PutEntry, Goto
  <2>2. CASE t = b
    BY <1>2, <2>1, <2>2 DEF PeerOfTask, p
  <2>3. CASE t # b
    BY <1>1, <1>2, <2>1, <2>3 DEF Written, p
  <2> QED
    BY <2>2, <2>3
<1>4. CASE Delete(t)
  <2>1. /\ disk' = disk \/ disk' = [disk EXCEPT ![PeerOfTask(t)] = NoBan]
        /\ cache' = cache /\ pc' = [pc EXCEPT ![t] = "readIndex"] /\ pc[t] = "del"
    BY <1>4 DEF Delete, Goto
  <2>2. t \in Removals \cup Expiries /\ t # b
    BY <1>2, <2>1 DEF Passes
  <2>3. PeerOfTask(t) # p
    BY <1>0, <1>2, <2>1, <2>2, NoneRemoves
  <2> QED
    BY <1>1, <1>2, <2>1, <2>2, <2>3 DEF Written, p
<1>5. CASE ReadIndex(t) \/ PutIndex(t) \/ PutFails(t)
  <2>1. disk' = disk /\ cache' = cache
    BY <1>5 DEF ReadIndex, PutIndex, PutFails
  <2>2. Written(b) /\ (pc'[b] = "done" => pc[b] = "done")
    BY <1>2, <1>5 DEF ReadIndex, Listing, PutIndex, PutFails, Goto, Written
  <2> QED
    BY <1>1, <2>1, <2>2 DEF p
<1>6. CASE SetCache(t)
  <2>1. /\ cache' = [cache EXCEPT ![PeerOfTask(t)] = held[t]] /\ disk' = disk
        /\ pc' = [pc EXCEPT ![t] = "done"] /\ pc[t] = "cache"
    BY <1>6 DEF SetCache, Goto
  <2>2. CASE t = b
    BY <1>1, <1>2, <2>1, <2>2 DEF PeerOfTask, Written, p
  <2>3. CASE t # b
    BY <1>1, <1>2, <2>1, <2>3 DEF Written, p
  <2> QED
    BY <2>2, <2>3
<1>7. CASE Uncache(t)
  <2>1. /\ cache' = [cache EXCEPT ![PeerOfTask(t)] = NoBan]
        /\ disk' = disk /\ pc' = [pc EXCEPT ![t] = "done"] /\ pc[t] = "uncache"
    BY <1>7 DEF Uncache, Goto
  <2>2. t \in Removals \cup Expiries /\ t # b
    BY <1>2, <2>1 DEF Passes
  <2>3. PeerOfTask(t) # p
    BY <1>0, <1>2, <2>1, <2>2, NoneRemoves
  <2> QED
    BY <1>1, <1>2, <2>1, <2>2, <2>3 DEF Written, p
<1> QED
  BY <1>3, <1>4, <1>5, <1>6, <1>7 DEF Step

\* Nor does any other step; a restart loads what is in the database.
LEMMA BlockingStep ==
  ASSUME TypeOK, Filed, Working, Blocking, [Next]_vars
  PROVE  Blocking'
<1> USE Constants
<1>1. CASE Restart
  <2> SUFFICES ASSUME NEW b \in Bans, Written(b)', Unlifted(PeerOf[b])'
               PROVE  /\ disk'[PeerOf[b]] # NoBan
                      /\ pc'[b] = "done" => cache'[PeerOf[b]] # NoBan
    BY DEF Blocking
  <2>1. Unlifted(PeerOf[b])
    BY UnliftedBefore
  <2>2. pc'[b] = "done" /\ pc[b] = "done"
    BY <1>1 DEF Restart, Ended, Written
  <2>3. disk[PeerOf[b]] # NoBan
    BY <2>1, <2>2 DEF Blocking, Written
  <2>4. disk[PeerOf[b]] \notin expired
    BY <2>1, <2>3 DEF Filed, Entry, Unlifted
  <2> QED
    BY <1>1, <2>3, <2>4 DEF Restart
<1>2. ASSUME NEW t \in Tasks, Step(t)
      PROVE  Blocking'
  BY <1>2, StepBlocks
<1>3. CASE \/ \E b \in Bans : BeginAdd(b) \/ Expire(b)
           \/ \E t \in Removals, p \in Peers : BeginRemove(t, p)
           \/ \E t \in Expiries, p \in Peers : BeginExpiry(t, p)
           \/ \E t \in Reports, p \in Peers : BeginReport(t, p)
           \/ UNCHANGED vars
  <2>1. disk' = disk /\ cache' = cache
    BY <1>3 DEF BeginAdd, Expire, BeginRemove, BeginExpiry, BeginReport, Start, vars
  <2>2. ASSUME NEW b \in Bans, Written(b)'
        PROVE  pc'[b] = pc[b]
    <3>1. ASSUME NEW t \in Tasks, NEW c, NEW stage, stage \in {"put", "del"}, Start(t, c, stage)
          PROVE  pc'[b] = pc[b]
      BY <2>2, <3>1 DEF Start, Goto, Written, TypeOK
    <3> QED
      BY <1>3, <3>1 DEF BeginAdd, Expire, BeginRemove, BeginExpiry, BeginReport, vars
  <2>3. \A b \in Bans : Unlifted(PeerOf[b])' => Unlifted(PeerOf[b])
    BY UnliftedBefore
  <2> QED
    BY <2>1, <2>2, <2>3 DEF Blocking, Written
<1> QED
  BY <1>1, <1>2, <1>3 DEF Next

\* A peer with a resolved ban stays blocked while no ban of it expires and no
\* caller removes one, however calls overlap and whatever cuts them short:
\* isBlocklisted() of lib/security/blocklist/manager.ts.
THEOREM BannedAlwaysBlocked == Spec => []BannedStaysBlocked
<1>1. Init => Blocking
  BY Constants DEF Init, Blocking, Written
<1>2. (TypeOK /\ Filed /\ Working /\ Blocking) /\ [Next]_vars
        => (TypeOK /\ Filed /\ Working /\ Blocking)'
  BY TypesStep, BlockingStep
<1>3. Blocking => BannedStaysBlocked
  BY DEF Blocking, BannedStaysBlocked, Unlifted, Written
<1> QED
  BY InitTypes, <1>1, <1>2, <1>3, PTL DEF Spec

-----------------------------------------------------------------------------
(***************************************************************************)
(* A ban stands, a removal lasts                                           *)
(***************************************************************************)

\* A disturbance that has happened is not forgotten.
LEMMA FaultsGrow ==
  ASSUME [Next]_vars
  PROVE  faults \subseteq faults'
BY DEF Next, vars, BeginAdd, Expire, BeginRemove, BeginExpiry, BeginReport, Start, Meets,
   Happens, Step, PutEntry, Delete, ReadIndex, PutIndex, PutFails, SetCache, Uncache, Restart

\* A call that begins without an overlap begins alone on its peer.
LEMMA StartsAlone ==
  ASSUME TypeOK, Working, OneByOne, NEW t \in Tasks, NEW b \in Bans, NEW stage,
         Start(t, b, stage), stage \in {"put", "del"}, "overlap" \notin faults'
  PROVE  /\ OneByOne'
         /\ \A u \in Tasks : Active(u) => PeerOfTask(u) # PeerOf[b]
         /\ pc'[t] = stage /\ held'[t] = b /\ ~Active(t)
         /\ \A u \in Tasks \ {t} : pc'[u] = pc[u] /\ held'[u] = held[u]
<1>1. /\ pc[t] = "idle"
      /\ pc' = [pc EXCEPT ![t] = stage] /\ held' = [held EXCEPT ![t] = b]
  BY DEF Start, Goto
<1>2. /\ pc'[t] = stage /\ held'[t] = b /\ ~Active(t)
      /\ \A u \in Tasks \ {t} : pc'[u] = pc[u] /\ held'[u] = held[u]
  BY <1>1 DEF TypeOK, Active, Ended
<1>3. Busy(PeerOf[b]) = {}
  BY DEF Start, Meets, Happens
<1>4. \A u \in Tasks : Active(u) => PeerOfTask(u) # PeerOf[b]
  BY <1>3 DEF Busy, Active
<1>5. OneByOne'
  BY <1>2, <1>4 DEF OneByOne, Active, Ended, PeerOfTask
<1> QED
  BY <1>2, <1>4, <1>5

\* A step of a call leaves the other calls where they are.
LEMMA StepsAlone ==
  ASSUME TypeOK, Working, NEW t \in Tasks, Step(t)
  PROVE  /\ Active(t) /\ held[t] \in Bans /\ PeerOfTask(t) \in Peers
         /\ UNCHANGED <<held, standing, expired>>
         /\ \A u \in Tasks \ {t} : pc'[u] = pc[u]
         /\ OneByOne => OneByOne'
<1>1. /\ Active(t) /\ UNCHANGED <<held, standing, expired>>
      /\ \E stage : pc' = [pc EXCEPT ![t] = stage]
  BY DEF Step, PutEntry, Delete, ReadIndex, Listing, PutIndex, PutFails, SetCache, Uncache,
     Goto, Active, Ended
<1>2. held[t] \in Bans /\ PeerOfTask(t) \in Peers
  BY <1>1, Constants DEF Working, Active, Ended, PeerOfTask
<1>3. \A u \in Tasks \ {t} : pc'[u] = pc[u]
  BY <1>1 DEF TypeOK
<1>4. OneByOne => OneByOne'
  BY <1>1, <1>3 DEF OneByOne, Active, Ended, PeerOfTask
<1> QED
  BY <1>1, <1>2, <1>3, <1>4

\* No step of a call on its peer disturbs a ban that stands.
LEMMA StepStands ==
  ASSUME TypeOK, Filed, Working, OneByOne, NEW t \in Tasks, Step(t),
         NEW b \in standing, StandsFirm(b)
  PROVE  StandsFirm(b)'
<1> USE Constants
<1> DEFINE p == PeerOf[b]
<1>0. /\ b \in Bans /\ b \in Tasks /\ p \in Peers
      /\ disk \in [Peers -> MaybeBan] /\ cache \in [Peers -> MaybeBan]
      /\ pc \in [Tasks -> Stages] /\ pc[b] # "idle" /\ held[b] = b
      /\ Passes(t, pc[t]) /\ pc[t] # "idle"
      /\ t \in Bans => held[t] = t
  BY StepsAlone DEF TypeOK, Working, StandsFirm, Active, Ended
<1>1. /\ Active(t) /\ UNCHANGED <<held, standing, expired>>
      /\ \A u \in Tasks \ {t} : pc'[u] = pc[u]
      /\ PeerOfTask(t) \in Peers /\ held[t] \in Bans
  BY StepsAlone
\* Who acts on the peer of a ban that is written is its own call, or reports on it.
<1>2. (PeerOfTask(t) = p /\ t # b /\ Written(b)) => (t \in Reports /\ held[t] = b)
  <2>1. CASE pc[b] = "done"
    BY <1>1, <2>1 DEF StandsFirm
  <2>2. CASE pc[b] # "done" /\ Written(b)
    <3>1. Active(b) /\ PeerOfTask(b) = p
      BY <1>0, <2>2 DEF Active, Ended, Written, PeerOfTask
    <3> QED
      BY <1>0, <1>1, <3>1 DEF OneByOne
  <2> QED
    BY <2>1, <2>2
<1>3. /\ b \notin expired' /\ \A c \in standing' : PeerOf[c] = p => c = b
      /\ pc'[b] # "idle"
  <2>1. pc'[b] # "idle"
    BY <1>0, <1>1 DEF Step, PutEntry, Delete, ReadIndex, Listing, PutIndex, PutFails, SetCache,
       Uncache, Goto
  <2> QED
    BY <1>1, <2>1 DEF StandsFirm
<1>4. Written(b) => disk[p] = b
  BY DEF StandsFirm
<1>5. pc[b] = "done" => cache[p] = b
  BY DEF StandsFirm
<1>6. \A u \in Tasks : (pc[b] = "done" /\ Active(u) /\ PeerOfTask(u) = p)
        => (u \in Reports /\ held[u] = b)
  BY DEF StandsFirm
<1> HIDE DEF p
<1>7. Written(b)' => disk'[p] = b
  <2>1. CASE PutEntry(t)
    <3>1. disk' = [disk EXCEPT ![PeerOfTask(t)] = held[t]] /\ pc[t] = "put"
      BY <2>1 DEF PutEntry
    <3>2. CASE t = b
      BY <1>0, <3>1, <3>2 DEF PeerOfTask, p
    <3>3. CASE t # b
      <4>1. Written(b)' => Written(b)
        BY <1>0, <1>1, <3>3 DEF Written
      <4> QED
        BY <1>0, <1>1, <1>2, <1>4, <3>1, <3>3, <4>1
    <3> QED
      BY <3>2, <3>3
  <2>2. CASE Delete(t)
    <3>1. /\ disk' = [disk EXCEPT ![PeerOfTask(t)] = NoBan] \/ disk' = disk
          /\ t \in Removals \cup Expiries
      BY <1>0, <2>2 DEF Delete, Passes
    <3>2. Written(b)' => Written(b)
      BY <1>0, <1>1, <3>1 DEF Written
    <3> QED
      BY <1>0, <1>1, <1>2, <1>4, <3>1, <3>2
  <2>3. CASE ~PutEntry(t) /\ ~Delete(t)
    <3>1. disk' = disk
      BY <2>3 DEF Step, ReadIndex, PutIndex, PutFails, SetCache, Uncache
    <3>2. CASE t = b
      <4>1. pc[b] \notin {"idle", "put", "del", "uncache"} => Written(b)
        BY <1>0, <1>1, <3>2 DEF Written, Stages, Active, Ended
      <4>2. pc[b] \notin {"del", "uncache"}
        BY <1>0, <3>2 DEF Passes
      <4>3. Written(b)' => pc[b] # "put"
        BY <1>0, <2>3, <3>2 DEF Step, ReadIndex, PutIndex, PutFails, SetCache, Uncache, Goto,
           Written
      <4> QED
        BY <1>0, <1>4, <3>1, <4>1, <4>2, <4>3
    <3>3. CASE t # b
      BY <1>0, <1>1, <1>4, <3>1, <3>3 DEF Written
    <3> QED
      BY <3>2, <3>3
  <2> QED
    BY <2>1, <2>2, <2>3
<1>8. pc'[b] = "done" => cache'[p] = b
  <2>1. CASE SetCache(t)
    <3>1. cache' = [cache EXCEPT ![PeerOfTask(t)] = held[t]]
      BY <2>1 DEF SetCache
    <3>2. CASE t = b
      BY <1>0, <3>1, <3>2 DEF PeerOfTask, p
    <3>3. CASE t # b
      <4>1. pc'[b] = pc[b]
        BY <1>0, <1>1, <3>3
      <4>2. pc[b] = "done" => Written(b)
        BY DEF Written
      <4> QED
        BY <1>0, <1>1, <1>2, <1>5, <3>1, <3>3, <4>1, <4>2
    <3> QED
      BY <3>2, <3>3
  <2>2. CASE Uncache(t)
    <3>1. /\ cache' = [cache EXCEPT ![PeerOfTask(t)] = NoBan]
          /\ t \in Removals \cup Expiries
      BY <1>0, <2>2 DEF Uncache, Passes
    <3>2. pc'[b] = pc[b] /\ t # b
      BY <1>0, <1>1, <3>1
    <3>3. pc[b] = "done" => Written(b)
      BY DEF Written
    <3> QED
      BY <1>0, <1>1, <1>2, <1>5, <3>1, <3>2, <3>3
  <2>3. CASE ~SetCache(t) /\ ~Uncache(t)
    <3>1. cache' = cache
      BY <2>3 DEF Step, PutEntry, Delete, ReadIndex, PutIndex, PutFails
    <3>2. pc'[b] = "done" => pc[b] = "done"
      BY <1>0, <1>1, <2>3 DEF Step, PutEntry, Delete, ReadIndex, Listing, PutIndex, PutFails,
         Goto
    <3> QED
      BY <1>5, <3>1, <3>2
  <2> QED
    BY <2>1, <2>2, <2>3
<1>9. \A u \in Tasks : (pc'[b] = "done" /\ Active(u)' /\ PeerOfTask(u)' = p)
        => (u \in Reports /\ held'[u] = b)
  <2> SUFFICES ASSUME NEW u \in Tasks, pc'[b] = "done", Active(u)', PeerOfTask(u)' = p
               PROVE  u \in Reports /\ held[u] = b
    BY <1>1
  <2>1. Active(u) /\ PeerOfTask(u) = p
    BY <1>1 DEF Active, Ended, PeerOfTask
  <2>2. CASE pc[b] = "done"
    BY <1>6, <2>1, <2>2
  <2>3. CASE pc[b] # "done"
    <3>1. t = b /\ u # b
      BY <1>0, <1>1, <2>3 DEF Active, Ended
    <3>2. PeerOfTask(t) = p
      BY <1>0, <3>1 DEF PeerOfTask, p
    <3> QED
      BY <1>1, <2>1, <3>1, <3>2 DEF OneByOne
  <2> QED
    BY <2>2, <2>3
<1> QED
  BY <1>3, <1>7, <1>8, <1>9 DEF StandsFirm, p

\* A call that begins on another peer, or a report on this one, leaves a ban firm.
LEMMA StartStands ==
  ASSUME TypeOK, Filed, Working, OneByOne, "overlap" \notin faults',
         NEW t \in Tasks, NEW c \in Bans, NEW stage, Start(t, c, stage),
         stage \in {"put", "del"},
         standing' \subseteq standing \cup {c},
         c \in standing' => c \in standing \/ \A d \in standing' : PeerOf[d] = PeerOf[c] => d = c,
         NEW b \in standing \cap standing', StandsFirm(b),
         PeerOf[b] = PeerOf[c] /\ pc[b] = "done" => t \in Reports /\ c = b
  PROVE  StandsFirm(b)'
<1> USE Constants
<1>1. /\ pc'[t] = stage /\ held'[t] = c /\ ~Active(t)
      /\ \A u \in Tasks \ {t} : pc'[u] = pc[u] /\ held'[u] = held[u]
  BY StartsAlone
<1>2. /\ UNCHANGED <<disk, cache, expired>> /\ pc[t] = "idle" /\ b \in Bans
  BY DEF Start, TypeOK
<1>3. t # b
  BY <1>2 DEF StandsFirm
<1>4. pc'[b] = pc[b]
  BY <1>1, <1>2, <1>3
<1>5. \A d \in standing' : PeerOf[d] = PeerOf[b] => d = b
  BY <1>2 DEF StandsFirm
<1>6. \A u \in Tasks : (pc'[b] = "done" /\ Active(u)' /\ PeerOfTask(u)' = PeerOf[b])
        => (u \in Reports /\ held'[u] = b)
  BY <1>1, <1>2, <1>4 DEF StandsFirm, Active, Ended, PeerOfTask
<1> QED
  BY <1>2, <1>4, <1>5, <1>6 DEF StandsFirm, Written

\* Without overlaps, every step leaves one call at a time on a peer and the
\* bans that stand firm.
LEMMA StandingStep ==
  ASSUME TypeOK, Filed, Working, Standing, [Next]_vars
  PROVE  Standing'
<1> USE Constants
<1> SUFFICES ASSUME "overlap" \notin faults'
             PROVE  OneByOne' /\ \A b \in standing' : StandsFirm(b)'
  BY DEF Standing
<1>0. OneByOne /\ (\A b \in standing : StandsFirm(b)) /\ standing \subseteq Bans
  BY FaultsGrow DEF Standing, TypeOK
<1>1. ASSUME NEW b \in Bans, BeginAdd(b)
      PROVE  OneByOne' /\ \A d \in standing' : StandsFirm(d)'
  <2>1. /\ Start(b, b, "put")
        /\ standing' = {d \in standing : PeerOf[d] # PeerOf[b]} \cup {b}
    BY <1>1 DEF BeginAdd
  <2>2. pc[b] = "idle" /\ expired' = expired /\ pc'[b] = "put"
    BY <2>1 DEF Start, Goto, TypeOK
  <2>6. OneByOne'
    BY <1>0, <2>1, StartsAlone
  <2>3. StandsFirm(b)'
    <3>1. b \notin expired
      BY <2>2 DEF Filed
    <3> QED
      BY <2>1, <2>2, <3>1 DEF StandsFirm, Written
  <2>4. \A d \in standing' : PeerOf[d] = PeerOf[b] => d = b
    BY <2>1
  <2>5. ASSUME NEW d \in standing', d # b
        PROVE  StandsFirm(d)'
    <3>1. d \in standing /\ PeerOf[d] # PeerOf[b]
      BY <2>1, <2>5
    <3> QED
      BY <1>0, <2>1, <2>4, <3>1, StartStands
  <2> QED
    BY <2>3, <2>5, <2>6
<1>2. ASSUME NEW c \in Bans, Expire(c)
      PROVE  OneByOne' /\ \A d \in standing' : StandsFirm(d)'
  BY <1>0, <1>2 DEF Expire, OneByOne, Active, Ended, PeerOfTask, StandsFirm, Written
<1>3. ASSUME NEW t \in Removals, NEW p \in Peers, BeginRemove(t, p)
      PROVE  OneByOne' /\ \A d \in standing' : StandsFirm(d)'
  <2>1. /\ Start(t, cache[p], "del") /\ cache[p] \in Bans /\ PeerOf[cache[p]] = p
        /\ standing' = {d \in standing : PeerOf[d] # p}
    BY <1>3 DEF BeginRemove, Filed, Entry
  <2>2. ASSUME NEW d \in standing'
        PROVE  StandsFirm(d)'
    BY <1>0, <2>1, StartStands
  <2> QED
    BY <1>0, <2>1, <2>2, StartsAlone
<1>4. ASSUME NEW t \in Expiries, NEW p \in Peers, BeginExpiry(t, p)
      PROVE  OneByOne' /\ \A d \in standing' : StandsFirm(d)'
  <2>1. /\ Start(t, cache[p], "del") /\ cache[p] \in Bans /\ PeerOf[cache[p]] = p
        /\ standing' = standing /\ cache[p] \in expired
    BY <1>4 DEF BeginExpiry, Filed, Entry, TypeOK
  <2>2. ASSUME NEW d \in standing
        PROVE  StandsFirm(d)'
    <3>1. ~(PeerOf[d] = p /\ pc[d] = "done")
      BY <1>0, <2>1 DEF StandsFirm
    <3> QED
      BY <1>0, <2>1, <3>1, StartStands
  <2> QED
    BY <1>0, <2>1, <2>2, StartsAlone
<1>5. ASSUME NEW t \in Reports, NEW p \in Peers, BeginReport(t, p)
      PROVE  OneByOne' /\ \A d \in standing' : StandsFirm(d)'
  <2>1. /\ Start(t, cache[p], "put") /\ cache[p] \in Bans /\ PeerOf[cache[p]] = p
        /\ standing' = standing
    BY <1>5 DEF BeginReport, Filed, Entry
  <2>2. ASSUME NEW d \in standing
        PROVE  StandsFirm(d)'
    <3>1. PeerOf[d] = p /\ pc[d] = "done" => cache[p] = d
      BY <1>0 DEF StandsFirm
    <3> QED
      BY <1>0, <2>1, <3>1, StartStands
  <2> QED
    BY <1>0, <2>1, <2>2, StartsAlone
<1>6. ASSUME NEW t \in Tasks, Step(t)
      PROVE  OneByOne' /\ \A d \in standing' : StandsFirm(d)'
  <2>1. standing' = standing
    BY <1>6, StepsAlone
  <2> QED
    BY <1>0, <1>6, <2>1, StepsAlone, StepStands
<1>7. CASE Restart
  <2>1. \A t \in Tasks : ~Active(t)' /\ pc'[t] = IF Ended(t) THEN pc[t] ELSE "failed"
    BY <1>7 DEF Restart, Active, Ended
  <2>2. UNCHANGED <<held, standing, expired>>
    BY <1>7 DEF Restart
  <2>3. ASSUME NEW b \in standing
        PROVE  StandsFirm(b)'
    <3>1. StandsFirm(b) /\ b \in Bans /\ b \in Tasks /\ PeerOf[b] \in Peers
      BY <1>0
    <3>2. pc'[b] # "idle" /\ (Written(b)' => pc[b] = "done" /\ Written(b))
      BY <2>1, <3>1 DEF StandsFirm, Written, Ended
    <3>3. Written(b)' => disk'[PeerOf[b]] = b /\ cache'[PeerOf[b]] = b
      BY <1>7, <3>1, <3>2 DEF StandsFirm, Restart
    <3>4. pc'[b] = "done" => Written(b)'
      BY DEF Written
    <3> QED
      BY <2>1, <2>2, <3>1, <3>2, <3>3, <3>4 DEF StandsFirm
  <2> QED
    BY <2>1, <2>2, <2>3 DEF OneByOne
<1>8. CASE UNCHANGED vars
  BY <1>0, <1>8 DEF vars, OneByOne, Active, Ended, PeerOfTask, StandsFirm, Written
<1> QED
  BY <1>1, <1>2, <1>3, <1>4, <1>5, <1>6, <1>7, <1>8 DEF Next

\* A ban whose add() has resolved is in force until it expires, is removed or
\* is replaced: a restart, a failed access or the expiry of an older ban does
\* not lift it.  initialize() and the calls of lib/security/blocklist/manager.ts.
THEOREM ActiveBansHold == Spec => []ActiveBanHolds
<1>1. Init => Standing
  BY DEF Init, Standing, OneByOne, Active, Ended
<1>2. (TypeOK /\ Filed /\ Working /\ Standing) /\ [Next]_vars
        => (TypeOK /\ Filed /\ Working /\ Standing)'
  BY TypesStep, StandingStep
<1>3. Standing => ActiveBanHolds
  BY DEF Standing, StandsFirm, ActiveBanHolds
<1> QED
  BY InitTypes, <1>1, <1>2, <1>3, PTL DEF Spec

\* A call that begins brings nothing back.
LEMMA StartKeepsGone ==
  ASSUME TypeOK, Working, OneByOne, NEW t \in Tasks, NEW c \in Bans, NEW stage,
         Start(t, c, stage), stage \in {"put", "del"}, "overlap" \notin faults',
         \A u \in Removals \cup Expiries : Deleted(u),
         \A b \in unbanned : Away(b) /\ b # c
  PROVE  /\ \A u \in Removals \cup Expiries : Deleted(u)'
         /\ \A b \in unbanned' : Away(b)'
<1> USE Constants
<1>1. /\ pc'[t] = stage /\ held'[t] = c
      /\ \A u \in Tasks \ {t} : pc'[u] = pc[u] /\ held'[u] = held[u]
  BY StartsAlone
<1>2. UNCHANGED <<disk, cache, unbanned>> /\ unbanned \subseteq Tasks
  BY DEF Start, TypeOK
<1>3. \A u \in Removals \cup Expiries : Deleted(u)'
  BY <1>1, <1>2 DEF Deleted, PeerOfTask
<1>4. \A b \in unbanned : Away(b)'
  BY <1>1, <1>2 DEF Away, Active, Ended
<1> QED
  BY <1>2, <1>3, <1>4

\* No step of a call brings back what was removed, and a removal that deletes
\* its entry leaves it deleted.
LEMMA StepKeepsGone ==
  ASSUME TypeOK, Filed, Working, OneByOne, NEW t \in Tasks, Step(t), "del" \notin faults',
         \A u \in Removals \cup Expiries : Deleted(u),
         \A b \in unbanned : Away(b)
  PROVE  /\ \A u \in Removals \cup Expiries : Deleted(u)'
         /\ \A b \in unbanned' : Away(b)'
<1> USE Constants
<1> DEFINE h == held[t]
           q == PeerOfTask(t)
<1>1. /\ Active(t) /\ held' = held /\ h \in Bans /\ q \in Peers /\ h # NoBan
      /\ \A u \in Tasks \ {t} : pc'[u] = pc[u]
      /\ disk \in [Peers -> MaybeBan] /\ cache \in [Peers -> MaybeBan]
      /\ pc \in [Tasks -> Stages] /\ unbanned \subseteq Bans
      /\ q = PeerOf[h]
  BY StepsAlone DEF TypeOK, PeerOfTask
<1>2. Passes(t, pc[t]) /\ pc[h] # "idle"
  BY <1>1 DEF Working, Active, Ended
<1>3. pc'[t] # "idle"
  BY <1>1, <1>2 DEF Step, PutEntry, Delete, ReadIndex, Listing, PutIndex, PutFails, SetCache,
     Uncache, Goto
<1>4. \A u \in Tasks \ {t} : pc[u] \in {"readIndex", "putIndex", "uncache"} => PeerOfTask(u) # q
  BY <1>1 DEF OneByOne, Active, Ended
<1>5. /\ \A p \in Peers \ {q} : disk'[p] = disk[p] /\ cache'[p] = cache[p]
      /\ disk'[q] = disk[q] \/ disk'[q] = NoBan \/ disk'[q] = h
      /\ cache'[q] = cache[q] \/ cache'[q] = NoBan \/ cache'[q] = h
  <2>1. /\ UNCHANGED disk \/ disk' = [disk EXCEPT ![q] = h] \/ disk' = [disk EXCEPT ![q] = NoBan]
        /\ UNCHANGED cache \/ cache' = [cache EXCEPT ![q] = h]
             \/ cache' = [cache EXCEPT ![q] = NoBan]
    BY DEF Step, PutEntry, Delete, ReadIndex, PutIndex, PutFails, SetCache, Uncache
  <2> QED
    BY <1>1, <2>1
<1>6. ASSUME NEW u \in Removals \cup Expiries
      PROVE  Deleted(u)'
  <2>1. CASE u = t
    <3>1. CASE Delete(t)
      <4>1. disk'[q] = NoBan
        BY <1>1, <3>1 DEF Delete, Happens
      <4> QED
        BY <1>1, <2>1, <4>1 DEF Deleted, PeerOfTask
    <3>2. CASE ReadIndex(t) \/ PutIndex(t) \/ PutFails(t)
      <4>1. disk' = disk /\ pc[t] \in {"readIndex", "putIndex"}
        BY <1>2, <2>1, <3>2 DEF ReadIndex, PutIndex, PutFails, Passes
      <4> QED
        BY <1>1, <2>1, <4>1 DEF Deleted, PeerOfTask
    <3>3. CASE Uncache(t)
      BY <1>1, <2>1, <3>3 DEF Uncache, Goto, Deleted
    <3>4. ~PutEntry(t) /\ ~SetCache(t)
      BY <1>2, <2>1 DEF PutEntry, SetCache, Passes
    <3> QED
      BY <3>1, <3>2, <3>3, <3>4 DEF Step
  <2>2. CASE u # t
    <3>1. /\ pc'[u] = pc[u]
          /\ pc[u] \in {"readIndex", "putIndex", "uncache"} =>
               PeerOfTask(u) \in Peers \ {q}
      BY <1>1, <1>4, <2>2 DEF Working, PeerOfTask
    <3> QED
      BY <1>1, <1>5, <3>1 DEF Deleted, PeerOfTask
  <2> QED
    BY <2>1, <2>2
<1>7. ASSUME NEW b \in unbanned
      PROVE  Away(b)'
  <2>1. b # h /\ b \in Bans /\ PeerOf[b] \in Peers /\ Away(b) /\ b # NoBan
    BY <1>1 DEF Away
  <2>2. pc'[b] # "idle"
    BY <1>1, <1>3, <2>1 DEF Away
  <2>3. disk'[PeerOf[b]] # b /\ cache'[PeerOf[b]] # b
    BY <1>5, <2>1 DEF Away
  <2>4. \A u \in Tasks : Active(u)' => held'[u] # b
    BY <1>1, <2>1 DEF Away, Active, Ended
  <2> QED
    BY <2>2, <2>3, <2>4 DEF Away
<1>8. CASE UNCHANGED unbanned
  BY <1>6, <1>7, <1>8
<1>9. CASE unbanned' # unbanned
  <2>1. Uncache(t) /\ t \in Removals
    BY <1>9 DEF Step, PutEntry, Delete, ReadIndex, PutIndex, PutFails, SetCache, Uncache
  <2>2. /\ unbanned' = unbanned \cup {h} /\ disk' = disk /\ pc[t] = "uncache"
        /\ pc'[t] = "done" /\ cache'[q] = NoBan
    BY <1>1, <2>1 DEF Uncache, Goto
  <2>3. disk'[q] # h
    BY <2>1, <2>2 DEF Deleted
  <2>4. pc'[h] # "idle"
    BY <1>1, <1>2, <1>3
  <2>5. \A u \in Tasks : Active(u)' => held'[u] # h
    BY <1>1, <2>2 DEF OneByOne, Active, Ended, PeerOfTask
  <2>6. \A b \in {h} : Away(b)'
    BY <1>1, <2>2, <2>3, <2>4, <2>5 DEF Away
  <2> QED
    BY <1>6, <1>7, <2>2, <2>6
<1> QED
  BY <1>8, <1>9

\* Every step leaves removed what was removed.
LEMMA GoneStep ==
  ASSUME TypeOK, Filed, Working, Standing, Gone, [Next]_vars
  PROVE  Gone'
<1> USE Constants
<1> DEFINE Deletions == \A u \in Removals \cup Expiries : Deleted(u)
           AllAway == \A b \in unbanned : Away(b)
<1> SUFFICES ASSUME faults' \cap {"overlap", "del"} = {}
             PROVE  Deletions' /\ AllAway'
  BY DEF Gone
<1>0. /\ "overlap" \notin faults' /\ "del" \notin faults'
      /\ OneByOne /\ Deletions /\ AllAway
  <2>1. faults \cap {"overlap", "del"} = {}
    BY FaultsGrow
  <2> QED
    BY <2>1 DEF Gone, Standing
<1> HIDE DEF Deletions, AllAway
<1>1. ASSUME NEW t \in Tasks, NEW c \in Bans, NEW stage, Start(t, c, stage),
             stage \in {"put", "del"},
             cache[PeerOf[c]] = c \/ pc[c] = "idle"
      PROVE  Deletions' /\ AllAway'
  <2>1. \A b \in unbanned : Away(b) /\ b # c
    BY <1>0, <1>1 DEF AllAway, Away
  <2> QED
    BY <1>0, <1>1, <2>1, StartKeepsGone DEF Deletions, AllAway
<1>2. ASSUME NEW b \in Bans, BeginAdd(b)
      PROVE  Deletions' /\ AllAway'
  <2>1. Start(b, b, "put") /\ pc[b] = "idle"
    BY <1>2 DEF BeginAdd, Start
  <2> QED
    BY <1>1, <2>1
<1>3. ASSUME NEW t \in Removals, NEW p \in Peers, BeginRemove(t, p)
      PROVE  Deletions' /\ AllAway'
  <2>1. cache[p] \in Bans /\ PeerOf[cache[p]] = p /\ Start(t, cache[p], "del")
    BY <1>3 DEF BeginRemove, Filed, Entry
  <2> QED
    BY <1>1, <2>1
<1>4. ASSUME NEW t \in Expiries, NEW p \in Peers, BeginExpiry(t, p)
      PROVE  Deletions' /\ AllAway'
  <2>1. cache[p] \in Bans /\ PeerOf[cache[p]] = p /\ Start(t, cache[p], "del")
    BY <1>4 DEF BeginExpiry, Filed, Entry, TypeOK
  <2> QED
    BY <1>1, <2>1
<1>5. ASSUME NEW t \in Reports, NEW p \in Peers, BeginReport(t, p)
      PROVE  Deletions' /\ AllAway'
  <2>1. cache[p] \in Bans /\ PeerOf[cache[p]] = p /\ Start(t, cache[p], "put")
    BY <1>5 DEF BeginReport, Filed, Entry
  <2> QED
    BY <1>1, <2>1
<1>6. ASSUME NEW t \in Tasks, Step(t)
      PROVE  Deletions' /\ AllAway'
  BY <1>0, <1>6, StepKeepsGone DEF Deletions, AllAway
<1>7. CASE Restart
  <2>1. \A t \in Tasks : ~Active(t)' /\ pc'[t] = IF Ended(t) THEN pc[t] ELSE "failed"
    BY <1>7 DEF Restart, Active, Ended
  <2>2. UNCHANGED <<held, unbanned>> /\ unbanned \subseteq Bans
    BY <1>7 DEF Restart, TypeOK
  <2>3. Deletions'
    BY <2>1 DEF Deletions, Deleted, Ended
  <2>4. \A p \in Peers : /\ disk'[p] = disk[p] \/ disk'[p] = NoBan
                         /\ cache'[p] = disk[p] \/ cache'[p] = NoBan
    BY <1>7 DEF Restart
  <2>5. ASSUME NEW b \in unbanned
        PROVE  Away(b)'
    <3>1. Away(b) /\ b \in Bans /\ b \in Tasks /\ PeerOf[b] \in Peers /\ b # NoBan
      BY <1>0, <2>2 DEF AllAway
    <3>2. pc'[b] # "idle"
      BY <2>1, <3>1 DEF Away
    <3> QED
      BY <2>1, <2>4, <3>1, <3>2 DEF Away
  <2> QED
    BY <2>2, <2>3, <2>5 DEF AllAway
<1>8. CASE UNCHANGED vars \/ \E b \in Bans : Expire(b)
  <2>1. UNCHANGED <<disk, cache, pc, held, unbanned>>
    BY <1>8 DEF vars, Expire
  <2> QED
    BY <1>0, <2>1 DEF Deletions, AllAway, Deleted, Away, Active, Ended, PeerOfTask
<1> QED
  BY <1>2, <1>3, <1>4, <1>5, <1>6, <1>7, <1>8 DEF Next

\* A ban a caller has removed is not in force again, after a restart either,
\* where calls did not overlap and the database deleted what it was asked to:
\* remove() of lib/security/blocklist/manager.ts.
THEOREM RemovedForGood == Spec => []RemovedStaysRemoved
<1>1. Init => Standing /\ Gone
  BY Constants DEF Init, Standing, OneByOne, Active, Ended, Gone, Deleted
<1>2. (TypeOK /\ Filed /\ Working /\ Standing /\ Gone) /\ [Next]_vars
        => (TypeOK /\ Filed /\ Working /\ Standing /\ Gone)'
  BY TypesStep, StandingStep, GoneStep
<1>3. Gone => RemovedStaysRemoved
  BY DEF Gone, Away, RemovedStaysRemoved
<1> QED
  BY InitTypes, <1>1, <1>2, <1>3, PTL DEF Spec

-----------------------------------------------------------------------------
(***************************************************************************)
(* The messages.  What a request puts is never older than the retention,   *)
(* so that a message that is stored behind a scan of the pruning is none   *)
(* it looks for.  A client has seen of the messages it can count on those  *)
(* its offset has passed: of what is stored later and what is pruned       *)
(* nothing makes their rank smaller.                                       *)
(***************************************************************************)

Pruning == [step : 0 .. Batched, cutoff : Nat, toDelete : SUBSET Key]
Reading == [reading : BOOLEAN, ended : BOOLEAN, order : {"asc", "desc"},
            limit : Nat \ {0}, offset : Nat, seen : SUBSET Key]

StoreTypes ==
  /\ storeClock \in 0 .. MaxTime
  /\ stored \in SUBSET Key /\ IsFiniteSet(stored)
  /\ writing \in SUBSET Key
  /\ prune \in Pruning /\ reader \in Reading
  /\ kept \in SUBSET Published /\ pruned \in BOOLEAN

\* A request gives its messages a time and puts them within the retention.
PutInTime == \A key \in writing : storeClock - key.time <= Retention

\* The kinds whose keys have been scanned.
Scanned(kind) == \E i \in 1 .. 3 : i < prune.step /\ kind = Kinds[i]

\* The pruning has found of the kinds it has scanned all that is too old.
FoundAll ==
  prune.step # 0 =>
    /\ prune.cutoff + Retention <= storeClock
    /\ \A key \in prune.toDelete : key.time < prune.cutoff
    /\ \A key \in stored :
         Scanned(key.kind) /\ key.time < prune.cutoff => key \in prune.toDelete

PruneInv == StoreTypes /\ PutInTime /\ FoundAll

\* What a client can count on: nothing of the kind, when it reads oldest first
\* while messages are pruned.
Counted == IF reader.order = "asc" /\ pruned THEN {} ELSE kept

\* The messages not yet seen are those to come.
SeenSoFar ==
  reader.limit <= MaxLimit =>
    /\ reader.reading =>
         \A key \in Counted \ reader.seen : Cardinality(Before(key, reader.order)) >= reader.offset
    /\ reader.ended => ~reader.reading /\ Counted \subseteq reader.seen

\* The fields of a key, of the pruning and of a client.
LEMMA StoreConstants ==
  /\ Retention \in Nat /\ MaxTime \in Nat /\ MaxLimit \in Nat \ {0}
  /\ Limits \subseteq Nat \ {0} /\ Ids \subseteq Nat
  /\ \A key \in Key : key.time \in 0 .. MaxTime /\ key.id \in Nat
                      /\ \E i \in 1 .. 3 : key.kind = Kinds[i]
  /\ \A kind \in {Kinds[i] : i \in 1 .. 3}, t \in 0 .. MaxTime, id \in Ids :
       [kind |-> kind, time |-> t, id |-> id] \in Key
BY StoreAssumption DEF StoreAssumption, Key

LEMMA KindNames ==
  /\ "published" \in {Kinds[i] : i \in 1 .. 3}
  /\ "query" \in {Kinds[i] : i \in 1 .. 3}
  /\ "response" \in {Kinds[i] : i \in 1 .. 3}
<1>1. Kinds[1] = "published" /\ Kinds[2] = "query" /\ Kinds[3] = "response"
  BY DEF Kinds
<1> QED
  BY <1>1

LEMMA StoreTypesInit == StoreInit => PruneInv
<1> SUFFICES ASSUME StoreInit PROVE PruneInv
  OBVIOUS
<1>1. IsFiniteSet({})
  BY FS_EmptySet
<1>2. NoPrune \in Pruning /\ NoReader \in Reading
  BY DEF NoPrune, NoReader, Pruning, Reading, Batched
<1>3. StoreTypes
  <2>1. 0 \in 0 .. MaxTime
    BY StoreConstants
  <2>2. kept \in SUBSET Published /\ pruned \in BOOLEAN
    BY DEF StoreInit
  <2> QED
    BY <1>1, <1>2, <2>1, <2>2 DEF StoreInit, StoreTypes
<1>4. PutInTime /\ FoundAll
  BY DEF StoreInit, PutInTime, FoundAll, NoPrune
<1> QED
  BY <1>3, <1>4 DEF PruneInv

\* A put neither disturbs the pruning, nor takes a message from anybody.
LEMMA SavePrune ==
  ASSUME PruneInv, NEW key \in writing, Save(key)
  PROVE  PruneInv'
<1> USE StoreConstants
<1> DEFINE response == [key EXCEPT !.kind = "response", !.time = storeClock]
<1>1. /\ storeClock \in 0 .. MaxTime /\ stored \in SUBSET Key /\ IsFiniteSet(stored)
      /\ writing \in SUBSET Key /\ key \in Key /\ storeClock - key.time <= Retention
  BY DEF PruneInv, StoreTypes, PutInTime
<1>2. response \in Key /\ response.time = storeClock
  <2>1. key.kind \in {Kinds[i] : i \in 1 .. 3} /\ key.id \in Ids /\ "response" \in {Kinds[i] : i \in 1 .. 3}
    BY <1>1, KindNames DEF Key
  <2> DEFINE named == [key EXCEPT !.kind = "response"]
  <2>2. named \in Key
    BY <1>1, <2>1 DEF Key
  <2>3. response = [named EXCEPT !.time = storeClock]
    BY <1>1 DEF Key
  <2> HIDE DEF named
  <2> QED
    BY <1>1, <2>2, <2>3 DEF Key
<1>3. /\ stored' = stored \cup {key} /\ writing' \subseteq (writing \ {key}) \cup {response}
      /\ UNCHANGED <<storeClock, used, prune, reader, kept, pruned>>
  BY DEF Save
<1> HIDE DEF response
<1>4. IsFiniteSet(stored') /\ stored' \in SUBSET Key /\ writing' \in SUBSET Key
  BY <1>1, <1>2, <1>3, FS_AddElement
<1>5. StoreTypes'
  BY <1>3, <1>4 DEF PruneInv, StoreTypes, Published
<1>6. PutInTime'
  BY <1>1, <1>2, <1>3 DEF PruneInv, PutInTime
<1>7. FoundAll'
  <2> SUFFICES ASSUME prune.step # 0
               PROVE  \A k \in stored' :
                        Scanned(k.kind) /\ k.time < prune.cutoff => k \in prune.toDelete
    BY <1>3 DEF PruneInv, FoundAll, Scanned
  <2>1. prune.cutoff + Retention <= storeClock /\ prune.cutoff \in Nat
    BY DEF PruneInv, FoundAll, StoreTypes, Pruning
  <2>2. ~(key.time < prune.cutoff)
    BY <1>1, <2>1
  <2> QED
    BY <1>3, <2>2 DEF PruneInv, FoundAll
<1> QED
  BY <1>5, <1>6, <1>7 DEF PruneInv

\* Each scan adds what it finds of its kind.
LEMMA ScanPrune ==
  ASSUME PruneInv, ScanPrefix
  PROVE  PruneInv'
<1> USE StoreConstants
<1> DEFINE found == {key \in stored : InRange(key)}
<1>1. /\ prune \in Pruning /\ stored \in SUBSET Key /\ prune.step \in 1 .. 3
      /\ prune' = [prune EXCEPT !.step = prune.step + 1, !.toDelete = prune.toDelete \cup found]
      /\ UNCHANGED <<storeClock, stored, writing, used, reader, kept, pruned>>
  BY DEF PruneInv, StoreTypes, ScanPrefix
<1>2. found \in SUBSET Key
  BY <1>1
<1> HIDE DEF found
<1>3. /\ prune'.step = prune.step + 1 /\ prune'.cutoff = prune.cutoff
      /\ prune'.toDelete = prune.toDelete \cup found /\ prune' \in Pruning
  <2>1. /\ prune.cutoff \in Nat /\ prune.toDelete \cup found \in SUBSET Key
        /\ prune = [step |-> prune.step, cutoff |-> prune.cutoff, toDelete |-> prune.toDelete]
    BY <1>1, <1>2 DEF Pruning
  <2>2. prune.step + 1 \in 0 .. Batched
    BY <1>1 DEF Batched
  <2>3. prune' = [step |-> prune.step + 1, cutoff |-> prune.cutoff,
                  toDelete |-> prune.toDelete \cup found]
    BY <1>1, <2>1
  <2> QED
    BY <2>1, <2>2, <2>3 DEF Pruning
<1>4. StoreTypes' /\ PutInTime'
  BY <1>1, <1>3 DEF PruneInv, StoreTypes, PutInTime, Published
<1>5. FoundAll'
  <2>1. /\ prune.cutoff + Retention <= storeClock
        /\ \A key \in prune.toDelete : key.time < prune.cutoff
        /\ \A key \in stored :
             Scanned(key.kind) /\ key.time < prune.cutoff => key \in prune.toDelete
    BY <1>1 DEF PruneInv, FoundAll
  <2>2. \A key \in found : key.time < prune.cutoff
    BY DEF found, InRange
  <2>3. ASSUME NEW key \in stored, Scanned(key.kind)', key.time < prune.cutoff
        PROVE  key \in prune'.toDelete
    <3>1. PICK i \in 1 .. 3 : i < prune.step + 1 /\ key.kind = Kinds[i]
      BY <1>3, <2>3 DEF Scanned
    <3>2. CASE i = prune.step
      BY <1>3, <2>3, <3>1, <3>2 DEF found, InRange
    <3>3. CASE i # prune.step
      <4>1. Scanned(key.kind)
        BY <1>1, <3>1, <3>3 DEF Scanned
      <4> QED
        BY <1>3, <2>1, <2>3, <4>1
    <3> QED
      BY <3>2, <3>3
  <2> QED
    BY <1>1, <1>3, <2>1, <2>2, <2>3 DEF FoundAll
<1> QED
  BY <1>4, <1>5 DEF PruneInv

\* When the batch comes, no message is left out of it that is too old.
LEMMA BatchExact ==
  ASSUME PruneInv, DeleteBatch
  PROVE  /\ \A key \in stored' : key.time >= prune.cutoff
         /\ \A key \in stored \ stored' : storeClock - key.time > Retention
<1> USE StoreConstants
<1>1. /\ prune.step = 4 /\ stored' = stored \ prune.toDelete
      /\ stored \in SUBSET Key /\ prune \in Pruning /\ storeClock \in Nat
      /\ prune.cutoff + Retention <= storeClock /\ prune.cutoff \in Nat
      /\ \A key \in prune.toDelete : key.time < prune.cutoff
      /\ \A key \in stored :
           Scanned(key.kind) /\ key.time < prune.cutoff => key \in prune.toDelete
  BY DEF DeleteBatch, PruneInv, StoreTypes, FoundAll, Batched, Pruning
<1>2. \A key \in stored : Scanned(key.kind) /\ key.time \in Nat
  <2> SUFFICES ASSUME NEW key \in stored PROVE Scanned(key.kind) /\ key.time \in Nat
    OBVIOUS
  <2>1. key.time \in 0 .. MaxTime
    BY <1>1
  <2>2. PICK i \in 1 .. 3 : key.kind = Kinds[i]
    BY <1>1
  <2>3. i < prune.step
    BY <1>1
  <2> QED
    BY <2>1, <2>2, <2>3 DEF Scanned
<1>3. \A key \in stored' : key.time >= prune.cutoff
  BY <1>1, <1>2
<1>4. \A key \in stored \ stored' : storeClock - key.time > Retention
  BY <1>1, <1>2
<1> QED
  BY <1>3, <1>4

\* A client goes on with the next page or is done.
LEMMA PageStep ==
  ASSUME StoreTypes, ReadPage
  PROVE  \E more \in BOOLEAN, offset \in Nat :
           reader' = [reader EXCEPT
             !.seen = reader.seen \cup Page(reader.order, reader.limit, reader.offset),
             !.offset = offset, !.reading = more, !.ended = ~more]
<1> DEFINE hasMore == reader.offset + reader.limit < Cardinality(Published)
           seen == reader.seen \cup Page(reader.order, reader.limit, reader.offset)
           next == reader.offset + PageSize(reader.limit)
<1>1. next \in Nat
  BY StoreConstants DEF StoreTypes, Reading, PageSize
<1>2. reader' = [reader EXCEPT !.seen = seen, !.offset = IF hasMore THEN next ELSE 0,
                               !.reading = hasMore, !.ended = ~hasMore]
  BY DEF ReadPage
<1> HIDE DEF hasMore, seen, next
<1>3. hasMore \in BOOLEAN
  BY DEF hasMore
<1>4. CASE hasMore
  <2>1. reader' = [reader EXCEPT !.seen = seen, !.offset = next, !.reading = TRUE, !.ended = FALSE]
    BY <1>2, <1>4
  <2> QED
    BY <1>1, <2>1 DEF seen
<1>5. CASE ~hasMore
  <2>1. hasMore = FALSE /\ (~hasMore) = TRUE
    BY <1>3, <1>5
  <2>2. reader' = [reader EXCEPT !.seen = seen, !.offset = 0, !.reading = FALSE, !.ended = TRUE]
    BY <1>2, <2>1
  <2>3. ~FALSE = TRUE /\ FALSE \in BOOLEAN /\ 0 \in Nat
    OBVIOUS
  <2> QED
    BY <2>2, <2>3 DEF seen
<1> QED
  BY <1>4, <1>5

\* Every other step of the messages.
LEMMA PruneStep ==
  ASSUME PruneInv, [StoreNext]_storeVars
  PROVE  PruneInv'
<1> USE StoreConstants
<1>0. StoreTypes /\ PutInTime /\ FoundAll
  BY DEF PruneInv
<1>1. ASSUME NEW id \in Ids, NEW kind \in {"published", "query"}, Stamp(id, kind)
      PROVE  PruneInv'
  <2> DEFINE key == [kind |-> kind, time |-> storeClock, id |-> id]
  <2>1. key \in Key /\ key.time = storeClock
    BY <1>0, KindNames DEF StoreTypes
  <2>2. /\ writing' = writing \cup {key}
        /\ UNCHANGED <<storeClock, stored, prune, reader, kept, pruned>>
    BY <1>1 DEF Stamp
  <2> HIDE DEF key
  <2>3. StoreTypes'
    BY <1>0, <2>1, <2>2 DEF StoreTypes, Published
  <2>4. PutInTime'
    BY <1>0, <2>1, <2>2 DEF StoreTypes, PutInTime
  <2>5. FoundAll'
    BY <1>0, <2>2 DEF FoundAll, Scanned
  <2> QED
    BY <2>3, <2>4, <2>5 DEF PruneInv
<1>2. CASE BeginPrune
  <2>1. /\ prune' = [step |-> 1, cutoff |-> storeClock - Retention, toDelete |-> {}]
        /\ storeClock >= Retention
        /\ UNCHANGED <<storeClock, stored, writing, reader, kept, pruned>>
    BY <1>2 DEF BeginPrune
  <2>2. storeClock - Retention \in Nat
    BY <1>0, <2>1 DEF StoreTypes
  <2>3. prune' \in Pruning /\ prune'.step = 1
        /\ prune'.cutoff = storeClock - Retention /\ prune'.toDelete = {}
    BY <2>1, <2>2 DEF Pruning, Batched
  <2>4. StoreTypes' /\ PutInTime'
    BY <1>0, <2>1, <2>3 DEF StoreTypes, PutInTime, Published
  <2>5. \A kind : ~Scanned(kind)'
    BY <2>3 DEF Scanned
  <2>6. prune'.cutoff + Retention <= storeClock
    BY <1>0, <2>3 DEF StoreTypes
  <2>7. FoundAll'
    BY <2>1, <2>3, <2>5, <2>6 DEF FoundAll
  <2> QED
    BY <2>4, <2>7 DEF PruneInv
<1>3. CASE DeleteBatch
  <2>1. /\ stored' = stored \ prune.toDelete /\ prune' = NoPrune
        /\ kept' = kept \cap stored' /\ pruned' \in BOOLEAN
        /\ UNCHANGED <<storeClock, writing, reader>>
    BY <1>3 DEF DeleteBatch
  <2>2. IsFiniteSet(stored')
    BY <1>0, <2>1, FS_Subset DEF StoreTypes
  <2>3. NoPrune \in Pruning /\ NoPrune.step = 0
    BY DEF NoPrune, Pruning, Batched
  <2>4. StoreTypes'
    BY <1>0, <2>1, <2>2, <2>3 DEF StoreTypes, Published
  <2>5. PutInTime' /\ FoundAll'
    BY <1>0, <2>1, <2>3 DEF PutInTime, FoundAll
  <2> QED
    BY <2>4, <2>5 DEF PruneInv
<1>4. ASSUME NEW order \in {"asc", "desc"}, NEW limit \in Limits, BeginRead(order, limit)
      PROVE  PruneInv'
  <2>1. /\ reader' = [NoReader EXCEPT !.reading = TRUE, !.order = order, !.limit = limit]
        /\ kept' = Published /\ pruned' = FALSE
        /\ UNCHANGED <<storeClock, stored, writing, prune>>
    BY <1>4 DEF BeginRead, Published
  <2>2. reader' \in Reading
    BY <2>1 DEF NoReader, Reading
  <2>3. StoreTypes'
    BY <1>0, <2>1, <2>2 DEF StoreTypes, Published
  <2> QED
    BY <1>0, <2>1, <2>3 DEF PruneInv, PutInTime, FoundAll, Scanned
<1>5. CASE ReadPage
  <2>1. UNCHANGED <<storeClock, stored, writing, used, prune, kept, pruned>>
    BY <1>5 DEF ReadPage
  <2>2. reader' \in Reading
    <3>1. Page(reader.order, reader.limit, reader.offset) \subseteq Key
      BY <1>0 DEF StoreTypes, Page, Published
    <3>2. PICK more \in BOOLEAN, offset \in Nat :
            reader' = [reader EXCEPT
              !.seen = reader.seen \cup Page(reader.order, reader.limit, reader.offset),
              !.offset = offset, !.reading = more, !.ended = ~more]
      BY <1>0, <1>5, PageStep
    <3>3. reader = [reading |-> reader.reading, ended |-> reader.ended, order |-> reader.order,
                    limit |-> reader.limit, offset |-> reader.offset, seen |-> reader.seen]
          /\ reader.order \in {"asc", "desc"} /\ reader.limit \in Nat \ {0}
          /\ reader.seen \in SUBSET Key
      BY <1>0 DEF StoreTypes, Reading
    <3>4. reader' = [reading |-> more, ended |-> ~more, order |-> reader.order,
                     limit |-> reader.limit, offset |-> offset,
                     seen |-> reader.seen \cup Page(reader.order, reader.limit, reader.offset)]
      BY <3>2, <3>3
    <3> QED
      BY <3>1, <3>3, <3>4 DEF Reading
  <2>3. StoreTypes'
    BY <1>0, <2>1, <2>2 DEF StoreTypes, Published
  <2> QED
    BY <1>0, <2>1, <2>3 DEF PruneInv, PutInTime, FoundAll, Scanned
<1>6. CASE StoreTick
  <2>1. /\ storeClock' = storeClock + 1 /\ storeClock < MaxTime
        /\ \A key \in writing : storeClock - key.time < Retention
        /\ UNCHANGED <<stored, writing, used, prune, reader, kept, pruned>>
    BY <1>6 DEF StoreTick
  <2>2. StoreTypes'
    BY <1>0, <2>1 DEF StoreTypes, Published
  <2>3. PutInTime'
    BY <1>0, <2>1 DEF StoreTypes, PutInTime
  <2>4. FoundAll'
    <3>1. prune.cutoff \in Nat /\ storeClock \in Nat
      BY <1>0 DEF StoreTypes, Pruning
    <3> QED
      BY <1>0, <2>1, <3>1 DEF FoundAll, Scanned
  <2> QED
    BY <2>2, <2>3, <2>4 DEF PruneInv
<1>7. CASE UNCHANGED storeVars
  BY <1>0, <1>7 DEF storeVars, PruneInv, StoreTypes, PutInTime, FoundAll, Scanned, Published
<1> QED
  BY <1>1, <1>2, <1>3, <1>4, <1>5, <1>6, <1>7, SavePrune, ScanPrune DEF StoreNext

LEMMA PruneInvariant == StoreSpec => []PruneInv
BY StoreTypesInit, PruneStep, PTL DEF StoreSpec

\* Pruning deletes every message that had outlived the retention when it began
\* and no other, whatever is stored while it scans.
THEOREM PrunesExactly == StoreSpec => PruneExact
<1>1. PruneInv /\ [StoreNext]_storeVars =>
        [/\ \A key \in stored \ stored' : storeClock - key.time > Retention
         /\ DeleteBatch => \A key \in stored' : key.time >= prune.cutoff]_storeVars
  <2> SUFFICES ASSUME PruneInv, StoreNext
               PROVE  /\ \A key \in stored \ stored' : storeClock - key.time > Retention
                      /\ DeleteBatch => \A key \in stored' : key.time >= prune.cutoff
    OBVIOUS
  <2>1. CASE DeleteBatch
    BY <2>1, BatchExact
  <2>2. CASE ~DeleteBatch
    <3>1. stored \subseteq stored'
      BY <2>2 DEF StoreNext, Stamp, Save, BeginPrune, ScanPrefix, BeginRead, ReadPage, StoreTick
    <3> QED
      BY <2>2, <3>1
  <2> QED
    BY <2>1, <2>2
<1> QED
  BY <1>1, PruneInvariant, PTL DEF StoreSpec, PruneExact

\* What is stored meanwhile makes no rank smaller.
LEMMA RankGrows ==
  ASSUME StoreTypes, StoreTypes', NEW key, NEW order,
         Before(key, order) \subseteq Before(key, order)'
  PROVE  /\ Cardinality(Before(key, order)) \in Nat /\ Cardinality(Before(key, order)') \in Nat
         /\ Cardinality(Before(key, order)) <= Cardinality(Before(key, order)')
<1>1. Before(key, order)' \subseteq stored' /\ IsFiniteSet(stored')
  BY DEF Before, Published, StoreTypes
<1>2. IsFiniteSet(Before(key, order)')
  BY <1>1, FS_Subset
<1>3. IsFiniteSet(Before(key, order))
  BY <1>2, FS_Subset
<1> QED
  BY <1>2, <1>3, FS_Subset, FS_CardinalityType

\* A message is not among those before it.
LEMMA RankBounded ==
  ASSUME StoreTypes, NEW key \in Published, NEW order
  PROVE  /\ Cardinality(Before(key, order)) \in Nat /\ Cardinality(Published) \in Nat
         /\ Cardinality(Before(key, order)) < Cardinality(Published)
<1>1. IsFiniteSet(Published)
  BY FS_Subset DEF StoreTypes, Published
<1>2. key.time \in Nat /\ key.id \in Nat
  BY StoreConstants DEF StoreTypes, Published
<1>3. key \notin Before(key, order)
  BY <1>2 DEF Before, KeyBefore
<1>4. Before(key, order) \subseteq Published
  BY DEF Before
<1>5. /\ IsFiniteSet(Before(key, order))
      /\ Cardinality(Before(key, order)) <= Cardinality(Published)
      /\ Cardinality(Before(key, order)) = Cardinality(Published)
           => Before(key, order) = Published
  BY <1>1, <1>4, FS_Subset
<1>6. Cardinality(Before(key, order)) # Cardinality(Published)
  BY <1>3, <1>5
<1> QED
  BY <1>1, <1>5, <1>6, FS_CardinalityType

\* Where no rank of what the client counts on gets smaller, and the client
\* does not move, it misses nothing.
LEMMA RanksKept ==
  ASSUME PruneInv, PruneInv', SeenSoFar, UNCHANGED reader, Counted' \subseteq Counted,
         reader.reading => \A key \in Counted' : Before(key, reader.order) \subseteq Before(key, reader.order)'
  PROVE  SeenSoFar'
<1>1. StoreTypes /\ StoreTypes' /\ reader.offset \in Nat
  BY DEF PruneInv, StoreTypes, Reading
<1>2. ASSUME reader.reading, NEW key \in Counted',
             Cardinality(Before(key, reader.order)) >= reader.offset
      PROVE  Cardinality(Before(key, reader.order)') >= reader.offset
  BY <1>1, <1>2, RankGrows
<1> QED
  BY <1>2 DEF SeenSoFar

\* A batch takes from a client that reads newest first what it lists last.
LEMMA BatchKeepsRanks ==
  ASSUME PruneInv, PruneInv', SeenSoFar, DeleteBatch
  PROVE  SeenSoFar'
<1>1. /\ stored' = stored \ prune.toDelete /\ kept' = kept \cap stored'
      /\ pruned' = (pruned \/ (reader.reading /\ prune.toDelete # {})) /\ UNCHANGED reader
      /\ kept \subseteq stored /\ stored \subseteq Key
      /\ \A key \in prune.toDelete : key.time < prune.cutoff
      /\ prune.cutoff \in Nat
  BY DEF DeleteBatch, PruneInv, StoreTypes, FoundAll, Published, Batched, Pruning
<1>2. Counted' \subseteq Counted
  BY <1>1 DEF Counted
<1>3. ASSUME reader.reading, NEW key \in Counted', NEW k \in Before(key, reader.order)
      PROVE  k \in Before(key, reader.order)'
  <2>1. key \in stored' /\ key \in Key /\ k \in Key /\ k \in stored /\ k.kind = "published"
    BY <1>1, <1>3 DEF Counted, Before, Published
  <2>2. k \in stored'
    <3>1. CASE reader.order = "asc"
      BY <1>1, <1>3, <2>1, <3>1 DEF Counted
    <3>2. CASE reader.order # "asc"
      <4>1. KeyBefore(key, k) /\ key.time \in Nat /\ k.time \in Nat
        BY <1>3, <2>1, <3>2, StoreConstants DEF Before
      <4>2. key.time >= prune.cutoff
        BY <2>1, BatchExact
      <4> QED
        BY <1>1, <2>1, <4>1, <4>2 DEF KeyBefore
    <3> QED
      BY <3>1, <3>2
  <2> QED
    BY <1>1, <1>3, <2>1, <2>2 DEF Before, Published
<1> QED
  BY <1>1, <1>2, <1>3, RanksKept

\* A page takes in the ranks from the offset on; the last reaches the end.
LEMMA PageMissesNothing ==
  ASSUME PruneInv, SeenSoFar, ReadPage
  PROVE  SeenSoFar'
<1>1. StoreTypes /\ reader \in Reading /\ kept \subseteq Published
  BY DEF PruneInv, StoreTypes
<1> SUFFICES ASSUME reader.limit <= MaxLimit
             PROVE  SeenSoFar'
  BY <1>1 DEF SeenSoFar, ReadPage, Reading
<1> DEFINE hasMore == reader.offset + reader.limit < Cardinality(Published)
           page == Page(reader.order, reader.limit, reader.offset)
<1>2. /\ reader.reading /\ UNCHANGED <<stored, kept, pruned>>
      /\ reader' = [reader EXCEPT !.seen = reader.seen \cup page,
                      !.offset = IF hasMore THEN reader.offset + PageSize(reader.limit) ELSE 0,
                      !.reading = hasMore, !.ended = ~hasMore]
  BY DEF ReadPage
<1> HIDE DEF hasMore, page
<1>3. /\ reader'.seen = reader.seen \cup page /\ reader'.order = reader.order
      /\ reader'.limit = reader.limit
      /\ hasMore => reader'.offset = reader.offset + reader.limit
      /\ reader'.reading = hasMore /\ reader'.ended = ~hasMore
  <2>1. PageSize(reader.limit) = reader.limit
    BY <1>1, StoreConstants DEF PageSize, Reading
  <2> QED
    BY <1>1, <1>2, <2>1 DEF Reading
<1>4. Counted' = Counted
  BY <1>2, <1>3 DEF Counted
<1>5. ASSUME NEW key \in Counted \ reader'.seen
      PROVE  hasMore /\ Cardinality(Before(key, reader.order)) >= reader.offset + reader.limit
  <2>1. key \in Published /\ key \notin page /\ key \notin reader.seen
    BY <1>1, <1>3, <1>5 DEF Counted
  <2>2. /\ Cardinality(Before(key, reader.order)) \in Nat /\ Cardinality(Published) \in Nat
        /\ Cardinality(Before(key, reader.order)) < Cardinality(Published)
    BY <1>1, <2>1, RankBounded
  <2>3. Cardinality(Before(key, reader.order)) >= reader.offset
    BY <1>2, <1>5, <2>1 DEF SeenSoFar
  <2>4. /\ reader.offset \in Nat /\ reader.limit \in Nat /\ PageSize(reader.limit) = reader.limit
    BY <1>1, StoreConstants DEF PageSize, Reading
  <2>5. Cardinality(Before(key, reader.order)) \notin reader.offset .. reader.offset + reader.limit - 1
    BY <2>1, <2>4 DEF page, Page
  <2>6. Cardinality(Before(key, reader.order)) >= reader.offset + reader.limit
    BY <2>2, <2>3, <2>4, <2>5
  <2> QED
    BY <2>2, <2>4, <2>6 DEF hasMore
<1>6. \A key : Before(key, reader.order)' = Before(key, reader.order)
  <2>1. Published' = Published
    BY <1>2 DEF Published
  <2> QED
    BY <1>3, <2>1 DEF Before
<1>7. ASSUME hasMore
      PROVE  /\ ~reader'.ended
             /\ \A key \in Counted' \ reader'.seen :
                  Cardinality(Before(key, reader.order)') >= reader'.offset
  BY <1>3, <1>4, <1>5, <1>6, <1>7
<1>8. ASSUME ~hasMore
      PROVE  ~reader'.reading /\ Counted' \subseteq reader'.seen
  BY <1>3, <1>4, <1>5, <1>8
<1> QED
  BY <1>7, <1>8 DEF SeenSoFar

LEMMA SeenStep ==
  ASSUME PruneInv, PruneInv', SeenSoFar, [StoreNext]_storeVars
  PROVE  SeenSoFar'
<1>1. CASE UNCHANGED <<stored, reader, kept, pruned>>
  BY <1>1 DEF SeenSoFar, Counted, Before, Published
<1>2. ASSUME NEW key \in writing, Save(key)
      PROVE  SeenSoFar'
  <2>1. /\ stored \subseteq stored' /\ UNCHANGED <<reader, kept, pruned>>
    BY <1>2 DEF Save
  <2>2. \A k, order : Before(k, order) \subseteq Before(k, order)'
    BY <2>1 DEF Before, Published
  <2>3. Counted' = Counted
    BY <2>1 DEF Counted
  <2> QED
    BY <2>1, <2>2, <2>3, RanksKept
<1>3. ASSUME NEW order \in {"asc", "desc"}, NEW limit \in Limits, BeginRead(order, limit)
      PROVE  SeenSoFar'
  <2>1. reader' = [NoReader EXCEPT !.reading = TRUE, !.order = order, !.limit = limit]
    BY <1>3 DEF BeginRead
  <2>2. reader'.offset = 0 /\ reader'.ended = FALSE
    BY <2>1 DEF NoReader
  <2>3. StoreTypes'
    BY DEF PruneInv
  <2>4. \A key : Cardinality(Before(key, reader.order)') >= 0
    <3> SUFFICES ASSUME NEW key PROVE Cardinality(Before(key, reader.order)') >= 0
      OBVIOUS
    <3>1. Before(key, reader.order)' \subseteq stored' /\ IsFiniteSet(stored')
      BY <2>3 DEF Before, Published, StoreTypes
    <3> QED
      BY <3>1, FS_Subset, FS_CardinalityType
  <2> QED
    BY <2>2, <2>4 DEF SeenSoFar
<1>4. CASE DeleteBatch
  BY <1>4, BatchKeepsRanks
<1>5. CASE ReadPage
  BY <1>5, PageMissesNothing
<1>6. CASE BeginPrune \/ ScanPrefix \/ StoreTick \/ UNCHANGED storeVars
  BY <1>1, <1>6 DEF BeginPrune, ScanPrefix, StoreTick, storeVars
<1>7. ASSUME NEW id \in Ids, NEW kind \in {"published", "query"}, Stamp(id, kind)
      PROVE  SeenSoFar'
  BY <1>1, <1>7 DEF Stamp
<1> QED
  BY <1>2, <1>3, <1>4, <1>5, <1>6, <1>7 DEF StoreNext

\* A client that pages with a page no larger than the largest sees every message
\* that was there and stayed, whatever is stored and pruned between its pages.
THEOREM PagingMissesNothing == StoreSpec => []PagesMissNothing
<1>1. StoreInit => SeenSoFar
  BY DEF StoreInit, NoReader, SeenSoFar
<1>2. PruneInv /\ SeenSoFar => PagesMissNothing
  BY DEF SeenSoFar, Counted, PagesMissNothing
<1> QED
  BY <1>1, <1>2, SeenStep, PruneInvariant, PTL DEF StoreSpec
-----------------------------------------------------------------------------
(***************************************************************************)
(* The configuration.  What the file, the environment and the command line *)
(* give is the same at every start; what they leave to the database is, as *)
(* long as nobody edits them, what the first start has put there.          *)
(***************************************************************************)

StoredSettings == {"nodeId", "apiToken", "bootstrapPeers"}
Forced == Places \cup {"apiToken"}

Generates == "nodeId" \notin DOMAIN CliSource(args) \cup Told(env)

NodeId == IF Generates THEN NewIds[ids + 1] ELSE FromCaller("nodeId", "")

\* The file of every start: none where the node is given a new ID and nobody
\* says which.
FileFound ==
  IF Generates /\ FromCaller("configFile", Default) = Default THEN Nothing
  ELSE FileAt(Place(FromCaller("configFile", Default), FromCaller("nodeId", "")))

\* What is left neither to the database nor to the defaults.
GivenBy(file) == Override(Override(Override(Nothing, file), EnvSource(env)), CliSource(args))
Given == GivenBy(FileFound)

\* What the database puts in the place of the defaults.
PeersAt(place) ==
  IF "bootstrapPeers" \in DOMAIN Stored(place) THEN Stored(place)["bootstrapPeers"] ELSE Empty
TokenKept(c, place) ==
  "apiToken" \in DOMAIN Stored(place) /\ Stored(place)["apiToken"] = c["apiToken"]
TokenDue == \E i \in DOMAIN toStore : toStore[i] = "apiToken"

FromSources(c) ==
  /\ FileAt(c["configFile"]) = FileFound
  /\ DOMAIN c = Forced \cup Named(Defaults) \cup DOMAIN Given
  /\ c["nodeId"] = FromCaller("nodeId", c["nodeId"])
  /\ \A s \in DOMAIN Given \ Forced : c[s] = Given[s]
  /\ "apiToken" \in DOMAIN Given => c["apiToken"] = Given["apiToken"] \/ Given["apiToken"] = Empty
  /\ \A s \in Named(Defaults) \ (DOMAIN Given \cup {"bootstrapPeers"}) : c[s] = Defaults[s]
  /\ c["apiToken"] \notin {Null, Empty} /\ c["bootstrapPeers"] # Null

ConfTypes ==
  /\ args \in CommandLines /\ env \in Environments
  /\ phase \in {"down", "storing", "up"}
  /\ toStore \in Seq(StoredSettings) /\ ids \in Nat /\ tokens \in Nat

\* A database holds only what is stored by initializeDatabase.
Databases ==
  \A place :
    /\ DOMAIN Stored(place) \subseteq StoredSettings
    /\ "apiToken" \in DOMAIN Stored(place) => Stored(place)["apiToken"] \notin {Null, Empty}
    /\ "bootstrapPeers" \in DOMAIN Stored(place) => Stored(place)["bootstrapPeers"] # Null

Running ==
  phase # "down" =>
    /\ FromSources(config)
    /\ "bootstrapPeers" \notin DOMAIN Given => PeersAt(config["dbPath"]) = config["bootstrapPeers"]
    /\ "apiToken" \notin DOMAIN Given =>
         \/ TokenKept(config, config["dbPath"])
         \/ TokenDue /\ "apiToken" \notin DOMAIN Stored(config["dbPath"])

\* Later starts find what a complete one had.
Lasting ==
  \A place \in DOMAIN present :
    /\ FromSources(present[place])
    /\ "bootstrapPeers" \notin DOMAIN Given => PeersAt(place) = present[place]["bootstrapPeers"]
    /\ "apiToken" \notin DOMAIN Given =>
         /\ TokenKept(present[place], place)
         /\ phase # "down" /\ config["dbPath"] = place => config["apiToken"] = present[place]["apiToken"]

ConfInv == ConfTypes /\ Databases /\ Running /\ Lasting

-----------------------------------------------------------------------------
LEMMA NothingThere == DOMAIN Nothing = {}
BY DEF Nothing

LEMMA FirstOverride ==
  ASSUME NEW source
  PROVE  /\ DOMAIN Override(Nothing, source) = Named(source)
         /\ \A s \in Named(source) : Override(Nothing, source)[s] = source[s]
<1>1. DOMAIN Nothing \cup Named(source) = Named(source)
  BY NothingThere
<1> QED
  BY <1>1 DEF Override

\* What null does not say, the last source says.
LEMMA Overrides ==
  ASSUME NEW result, NEW source
  PROVE  /\ DOMAIN Override(result, source) = DOMAIN result \cup Named(source)
         /\ \A s \in Named(source) : Override(result, source)[s] = source[s]
         /\ \A s \in DOMAIN result \ Named(source) : Override(result, source)[s] = result[s]
BY DEF Override

LEMMA MergedInParts ==
  ASSUME NEW database, NEW file
  PROVE  /\ DOMAIN Merged(database, file)
              = Named(Defaults) \cup Named(database) \cup DOMAIN GivenBy(file)
         /\ \A s \in DOMAIN GivenBy(file) : Merged(database, file)[s] = GivenBy(file)[s]
         /\ \A s \in Named(database) \ DOMAIN GivenBy(file) : Merged(database, file)[s] = database[s]
         /\ \A s \in Named(Defaults) \ (Named(database) \cup DOMAIN GivenBy(file)) :
              Merged(database, file)[s] = Defaults[s]
<1> DEFINE own == Override(Nothing, Defaults)
           known == Override(own, database)
           two == Override(known, file)
           three == Override(two, EnvSource(env))
           g1 == Override(Nothing, file)
           g2 == Override(g1, EnvSource(env))
<1>1. Merged(database, file) = Override(three, CliSource(args))
  BY DEF Merged, DeepMerge
<1>2. GivenBy(file) = Override(g2, CliSource(args))
  BY DEF GivenBy
<1>3. /\ DOMAIN own = Named(Defaults) /\ \A s \in DOMAIN own : own[s] = Defaults[s]
  BY FirstOverride
<1>4. /\ DOMAIN known = DOMAIN own \cup Named(database)
      /\ \A s \in Named(database) : known[s] = database[s]
      /\ \A s \in DOMAIN own \ Named(database) : known[s] = own[s]
  BY Overrides
<1>5. /\ DOMAIN two = DOMAIN known \cup Named(file)
      /\ \A s \in Named(file) : two[s] = file[s]
      /\ \A s \in DOMAIN known \ Named(file) : two[s] = known[s]
  BY Overrides
<1>6. /\ DOMAIN three = DOMAIN two \cup Named(EnvSource(env))
      /\ \A s \in Named(EnvSource(env)) : three[s] = EnvSource(env)[s]
      /\ \A s \in DOMAIN two \ Named(EnvSource(env)) : three[s] = two[s]
  BY Overrides
<1>7. /\ DOMAIN g1 = Named(file) /\ \A s \in Named(file) : g1[s] = file[s]
  BY FirstOverride
<1>8. /\ DOMAIN g2 = DOMAIN g1 \cup Named(EnvSource(env))
      /\ \A s \in Named(EnvSource(env)) : g2[s] = EnvSource(env)[s]
      /\ \A s \in DOMAIN g1 \ Named(EnvSource(env)) : g2[s] = g1[s]
  BY Overrides
<1> HIDE DEF own, known, two, three, g1, g2
<1>9. /\ DOMAIN Merged(database, file) = DOMAIN three \cup Named(CliSource(args))
      /\ \A s \in Named(CliSource(args)) : Merged(database, file)[s] = CliSource(args)[s]
      /\ \A s \in DOMAIN three \ Named(CliSource(args)) : Merged(database, file)[s] = three[s]
  <2>1. /\ DOMAIN Override(three, CliSource(args)) = DOMAIN three \cup Named(CliSource(args))
        /\ \A s \in Named(CliSource(args)) : Override(three, CliSource(args))[s] = CliSource(args)[s]
        /\ \A s \in DOMAIN three \ Named(CliSource(args)) : Override(three, CliSource(args))[s] = three[s]
    BY Overrides
  <2> QED
    BY <1>1, <2>1
<1>10. /\ DOMAIN GivenBy(file) = DOMAIN g2 \cup Named(CliSource(args))
       /\ \A s \in Named(CliSource(args)) : GivenBy(file)[s] = CliSource(args)[s]
       /\ \A s \in DOMAIN g2 \ Named(CliSource(args)) : GivenBy(file)[s] = g2[s]
  <2>1. /\ DOMAIN Override(g2, CliSource(args)) = DOMAIN g2 \cup Named(CliSource(args))
        /\ \A s \in Named(CliSource(args)) : Override(g2, CliSource(args))[s] = CliSource(args)[s]
        /\ \A s \in DOMAIN g2 \ Named(CliSource(args)) : Override(g2, CliSource(args))[s] = g2[s]
    BY Overrides
  <2> QED
    BY <1>2, <2>1
<1> QED
  BY <1>3, <1>4, <1>5, <1>6, <1>7, <1>8, <1>9, <1>10

\* Who has the last word on a setting that is not left to the database.
LEMMA GivenInOrder ==
  ASSUME NEW file
  PROVE  /\ DOMAIN GivenBy(file) = Named(file) \cup Named(EnvSource(env)) \cup Named(CliSource(args))
         /\ \A s \in Named(CliSource(args)) : GivenBy(file)[s] = CliSource(args)[s]
         /\ \A s \in Named(EnvSource(env)) \ Named(CliSource(args)) : GivenBy(file)[s] = EnvSource(env)[s]
         /\ \A s \in Named(file) \ (Named(EnvSource(env)) \cup Named(CliSource(args))) :
              GivenBy(file)[s] = file[s]
<1> DEFINE g1 == Override(Nothing, file)
           g2 == Override(g1, EnvSource(env))
<1>1. GivenBy(file) = Override(g2, CliSource(args))
  BY DEF GivenBy
<1>2. /\ DOMAIN g1 = Named(file) /\ \A s \in Named(file) : g1[s] = file[s]
  BY FirstOverride
<1>3. /\ DOMAIN g2 = DOMAIN g1 \cup Named(EnvSource(env))
      /\ \A s \in Named(EnvSource(env)) : g2[s] = EnvSource(env)[s]
      /\ \A s \in DOMAIN g1 \ Named(EnvSource(env)) : g2[s] = g1[s]
  BY Overrides
<1> HIDE DEF g1, g2
<1>4. /\ DOMAIN GivenBy(file) = DOMAIN g2 \cup Named(CliSource(args))
      /\ \A s \in Named(CliSource(args)) : GivenBy(file)[s] = CliSource(args)[s]
      /\ \A s \in DOMAIN g2 \ Named(CliSource(args)) : GivenBy(file)[s] = g2[s]
  <2>1. /\ DOMAIN Override(g2, CliSource(args)) = DOMAIN g2 \cup Named(CliSource(args))
        /\ \A s \in Named(CliSource(args)) : Override(g2, CliSource(args))[s] = CliSource(args)[s]
        /\ \A s \in DOMAIN g2 \ Named(CliSource(args)) : Override(g2, CliSource(args))[s] = g2[s]
    BY Overrides
  <2> QED
    BY <1>1, <2>1
<1> QED
  BY <1>2, <1>3, <1>4

\* The settings of the defaults.
LEMMA DefaultSettings ==
  /\ DOMAIN Defaults = Settings \ Forced
  /\ "bootstrapPeers" \in Named(Defaults) /\ Defaults["bootstrapPeers"] = Empty
  /\ Places \subseteq Settings /\ Forced \subseteq Settings
  /\ "bootstrapPeers" \notin Forced /\ "apiToken" \notin Places
<1>1. "bootstrapPeers" \notin Forced /\ "apiToken" \notin Places
  BY DEF Forced, Places
<1>2. "bootstrapPeers" \in Settings /\ Forced \subseteq Settings /\ Places \subseteq Settings
  BY DEF Settings, Forced
<1>3. DOMAIN Defaults = Settings \ Forced
  BY DEF Defaults, Forced
<1>4. Defaults["bootstrapPeers"] = Empty
  BY <1>1, <1>2 DEF Defaults, Forced
<1>5. Empty # Null
  BY DEF Empty, Null
<1> QED
  BY <1>1, <1>2, <1>3, <1>4, <1>5 DEF Named

\* A flag is set by any argument that has it.
LEMMA CliFlags ==
  DOMAIN CliSource(args) = {t \in Flags : \E i \in DOMAIN args : args[i].flag = t}
BY DEF CliSource

\* The positions and elements of a sequence, and the last of some positions.
LEMMA Positions ==
  ASSUME NEW S, NEW seq \in Seq(S)
  PROVE  /\ DOMAIN seq = 1 .. Len(seq) /\ Len(seq) \in Nat /\ DOMAIN seq \subseteq Int
         /\ \A i \in DOMAIN seq : seq[i] \in S
OBVIOUS

LEMMA LastOf ==
  ASSUME NEW S \in SUBSET Int, NEW i \in S, \A j \in S : j <= i
  PROVE  (CHOOSE k \in S : \A j \in S : j <= k) = i
<1>1. \A k \in S : (\A j \in S : j <= k) => k = i
  <2> SUFFICES ASSUME NEW k \in S, \A j \in S : j <= k PROVE k = i
    OBVIOUS
  <2>1. k <= i /\ i <= k /\ k \in Int /\ i \in Int
    OBVIOUS
  <2> QED
    BY <2>1
<1> QED
  BY <1>1

\* Of a flag that is repeated, the last counts.
Said(i) ==
  IF args[i].word # "" THEN args[i].word
  ELSE IF Following(args, i).flag = "" THEN Following(args, i).word ELSE "true"

LEMMA CliLast ==
  ASSUME args \in CommandLines, NEW i \in DOMAIN args, args[i].flag \in Flags,
         \A j \in DOMAIN args : args[j].flag = args[i].flag => j <= i
  PROVE  args[i].flag \in Named(CliSource(args)) /\ CliSource(args)[args[i].flag] = Said(i)
<1> DEFINE Sets(s) == {k \in DOMAIN args : args[k].flag = s}
           Final(S) == CHOOSE k \in S : \A j \in S : j <= k
<1>0. CliSource(args) = [s \in {t \in Flags : Sets(t) # {}} |-> Said(Final(Sets(s)))]
  BY DEF CliSource, Said
<1>1. args \in Seq([flag : STRING, word : STRING \ {Null}])
  BY ConfigurationAssumption
<1>2. DOMAIN args \subseteq Int /\ \A k \in DOMAIN args : args[k].word # Null
  <2>1. /\ DOMAIN args \subseteq Int
        /\ \A k \in DOMAIN args : args[k] \in [flag : STRING, word : STRING \ {Null}]
    BY <1>1, Positions
  <2>2. \A r \in [flag : STRING, word : STRING \ {Null}] : r.word # Null
    OBVIOUS
  <2> QED
    BY <2>1, <2>2, Zenon
<1>3. /\ i \in Sets(args[i].flag) /\ \A j \in Sets(args[i].flag) : j <= i
      /\ Sets(args[i].flag) \subseteq Int
  BY <1>2
<1>4. Said(i) # Null
  <2>1. "true" # Null
    BY DEF Null
  <2>2. i < Len(args) => i + 1 \in DOMAIN args
    <3>1. DOMAIN args = 1 .. Len(args) /\ Len(args) \in Nat
      BY <1>1, Positions
    <3> QED
      BY <3>1
  <2>3. Following(args, i).word # Null
    <3>1. CASE i < Len(args)
      BY <1>2, <2>2, <3>1 DEF Following
    <3>2. CASE ~(i < Len(args))
      BY <2>1, <3>2 DEF Following
    <3> QED
      BY <3>1, <3>2
  <2> QED
    BY <1>2, <2>1, <2>3 DEF Said
<1> HIDE DEF Sets
<1>5. Final(Sets(args[i].flag)) = i
  BY <1>3, LastOf
<1> HIDE DEF Final
<1>6. Sets(args[i].flag) # {}
  BY <1>3
<1>7. args[i].flag \in DOMAIN CliSource(args) /\ CliSource(args)[args[i].flag] = Said(i)
  BY <1>0, <1>5, <1>6
<1> QED
  BY <1>4, <1>7 DEF Named

\* What the environment says.
LEMMA EnvNames ==
  ASSUME env \in Environments
  PROVE  /\ DOMAIN EnvSource(env) \subseteq Settings
         /\ \A s \in Told(env) \cap Settings :
              (s = "maxStreams" => Openers \cap Told(env) # {})
                => s \in Named(EnvSource(env)) /\ EnvSource(env)[s] = env[s]
         /\ \A s \in DOMAIN EnvSource(env) :
              s \in Told(env) \/ \E g \in Groups : s \in g /\ g \cap Told(env) # {}
<1> DEFINE set == Told(env)
           log == {"level", "logFile"} \cap DOMAIN env
           heard == (set \cap Settings) \ IF set \cap Openers = {} THEN {"maxStreams"} ELSE {}
           groups == UNION {g \in Groups : g \cap set # {}}
           Value(s) == IF s \in heard \cup log THEN env[s] ELSE IF s = "logFile" THEN Null ELSE Default
<1>1. EnvSource(env) = [s \in heard \cup groups |-> Value(s)]
  BY DEF EnvSource
<1>2. groups \subseteq Settings
  BY DEF Settings
<1>3. \A s \in groups : \E g \in Groups : s \in g /\ g \cap Told(env) # {}
  OBVIOUS
<1>4. \A s \in heard : s \in Told(env) /\ s \in Settings
  OBVIOUS
<1>5. \A s \in Told(env) \cap Settings :
        (s = "maxStreams" => Openers \cap Told(env) # {}) => s \in heard
  OBVIOUS
<1>6. \A s \in heard : Value(s) = env[s]
  OBVIOUS
<1>7. \A s \in Told(env) : env[s] # Null
  BY ConfigurationAssumption DEF Told
<1> HIDE DEF heard, groups, Value
<1>8. DOMAIN EnvSource(env) = heard \cup groups /\ \A s \in heard \cup groups : EnvSource(env)[s] = Value(s)
  BY <1>1
<1> QED
  BY <1>2, <1>3, <1>4, <1>5, <1>6, <1>7, <1>8 DEF Named

\* Nobody gives what is no setting.
LEMMA GivenSettings ==
  ASSUME env \in Environments
  PROVE  DOMAIN Given \subseteq Settings /\ DOMAIN FileFound \subseteq Settings
<1>1. DOMAIN FileFound \subseteq Settings
  BY ConfigurationAssumption, NothingThere DEF FileFound, FileAt
<1>2. Named(CliSource(args)) \subseteq Settings
  <2>1. Flags \subseteq Settings
    BY DEF Flags, Settings, Groups
  <2> QED
    BY <2>1, CliFlags DEF Named
<1>3. Named(EnvSource(env)) \subseteq Settings
  BY EnvNames DEF Named
<1>4. Named(FileFound) \subseteq DOMAIN FileFound
  BY DEF Named
<1> QED
  BY <1>1, <1>2, <1>3, <1>4, GivenInOrder DEF Given

\* A start: the file it reads is that of every start, and the database has a say
\* only in what is not given.
Database == Stored(config["dbPath"])

Loaded ==
  /\ phase = "storing" /\ FileAt(config["configFile"]) = FileFound
  /\ DOMAIN config = Forced \cup Named(Defaults) \cup DOMAIN Given
  /\ config["nodeId"] = FromCaller("nodeId", config["nodeId"])
  /\ \A s \in DOMAIN Given \ Forced : config[s] = Given[s]
  /\ \A s \in Named(Defaults) \ DOMAIN Given :
       config[s] = IF s \in DOMAIN Database THEN Database[s] ELSE Defaults[s]
  /\ "apiToken" \in DOMAIN Given => config["apiToken"] = Given["apiToken"] \/ Given["apiToken"] = Empty
  /\ "apiToken" \in DOMAIN Database \ DOMAIN Given => config["apiToken"] = Database["apiToken"]
  /\ config["apiToken"] \notin {Null, Empty}
  /\ toStore \in Seq(StoredSettings) /\ TokenDue

\* The place of the file does not depend on the ID that is generated.
LEMMA SameFile ==
  ASSUME ids \in Nat, Generates => ids < Len(NewIds)
  PROVE  FileAt(Place(FromCaller("configFile", Default), NodeId)) = FileFound
<1> DEFINE name == FromCaller("configFile", Default)
<1> HIDE DEF name
<1>1. FileFound = IF Generates /\ name = Default THEN Nothing ELSE FileAt(Place(name, FromCaller("nodeId", "")))
  BY DEF FileFound, name
<1>2. CASE ~Generates
  BY <1>1, <1>2 DEF name, NodeId
<1>3. CASE Generates /\ name # Default
  BY <1>1, <1>3 DEF name, Place
<1>4. CASE Generates /\ name = Default
  <2>1. ids + 1 \in DOMAIN NewIds
    <3>1. DOMAIN NewIds = 1 .. Len(NewIds) /\ Len(NewIds) \in Nat
      BY Positions, ConfigurationAssumption
    <3> QED
      BY <1>4, <3>1
  <2>2. Place(Default, NodeId) \notin DOMAIN Files
    BY <1>4, <2>1, ConfigurationAssumption DEF NodeId
  <2> QED
    BY <1>1, <1>4, <2>2 DEF name, FileAt
<1> QED
  BY <1>2, <1>3, <1>4

LEMMA LoadStep ==
  ASSUME ConfTypes, Databases, LoadConfig
  PROVE  /\ Loaded' /\ UNCHANGED <<args, env, databases, present>>
         /\ ids' \in Nat /\ tokens' \in Nat
<1> DEFINE nodeId == NodeId
           file == FileAt(Place(FromCaller("configFile", Default), nodeId))
           fileDb == IF "dbPath" \in Named(file) THEN file["dbPath"] ELSE Default
           dbPlace == Place(FromCaller("dbPath", fileDb), nodeId)
           merged == Merged(DatabaseSource(dbPlace), file)
           found == "apiToken" \in DOMAIN merged /\ merged["apiToken"] # Empty
           token == IF found THEN merged["apiToken"] ELSE NewTokens[tokens + 1]
           forced == [apiToken |-> token, nodeId |-> nodeId, dbPath |-> dbPlace,
                      configFile |-> Place(FromCaller("configFile", Default), nodeId)]
<1>1. /\ phase' = "storing" /\ UNCHANGED <<args, env, databases, present>>
      /\ Generates => ids < Len(NewIds)
      /\ ~found => tokens < Len(NewTokens)
      /\ config' = [s \in DOMAIN forced \cup DOMAIN merged |->
                      IF s \in DOMAIN forced THEN forced[s] ELSE merged[s]]
      /\ ids' = IF Generates THEN ids + 1 ELSE ids
      /\ tokens' = IF found THEN tokens ELSE tokens + 1
      /\ toStore' = IF config'["bootstrapPeers"] = Empty THEN <<"nodeId", "apiToken">>
                    ELSE <<"nodeId", "apiToken", "bootstrapPeers">>
  BY DEF LoadConfig, PutOver, Generates, NodeId
<1>0. ids \in Nat /\ tokens \in Nat
  BY DEF ConfTypes
<1>2. file = FileFound
  BY <1>0, <1>1, SameFile
<1> DEFINE D == Stored(dbPlace)
<1>3. merged = Merged(D, FileFound)
  BY <1>2 DEF DatabaseSource
<1>4. DOMAIN D \subseteq StoredSettings
      /\ ("apiToken" \in DOMAIN D => D["apiToken"] \notin {Null, Empty})
      /\ ("bootstrapPeers" \in DOMAIN D => D["bootstrapPeers"] # Null)
  BY DEF Databases
<1> HIDE DEF forced, merged, D, found
<1>5. config' = [s \in DOMAIN forced \cup DOMAIN merged |->
                  IF s \in DOMAIN forced THEN forced[s] ELSE merged[s]]
  BY <1>1
<1>6. /\ DOMAIN forced = Forced /\ forced["apiToken"] = token /\ forced["nodeId"] = nodeId
      /\ forced["dbPath"] = dbPlace
      /\ forced["configFile"] = Place(FromCaller("configFile", Default), nodeId)
  BY DEF forced, Forced, Places
<1>7. "apiToken" \in Forced /\ "nodeId" \in Forced /\ "dbPath" \in Forced /\ "configFile" \in Forced
  BY DEF Forced, Places
<1>8. config'["dbPath"] = dbPlace /\ config'["configFile"] = forced["configFile"]
      /\ config'["nodeId"] = nodeId /\ config'["apiToken"] = token
  BY <1>5, <1>6, <1>7
<1>9. \A s \in DOMAIN merged \ Forced : config'[s] = merged[s]
  BY <1>5, <1>6
<1>10. FileAt(forced["configFile"]) = FileFound
  BY <1>2, <1>6
<1>11. nodeId = FromCaller("nodeId", nodeId)
  BY DEF FromCaller, Generates, NodeId
<1>12. DOMAIN config' = DOMAIN forced \cup DOMAIN merged
  BY <1>5
<1> HIDE DEF nodeId, file, dbPlace, token
<1>13. /\ DOMAIN merged = Named(Defaults) \cup Named(D) \cup DOMAIN Given
       /\ \A s \in DOMAIN Given : merged[s] = Given[s]
       /\ \A s \in Named(D) \ DOMAIN Given : merged[s] = D[s]
       /\ \A s \in Named(Defaults) \ (Named(D) \cup DOMAIN Given) : merged[s] = Defaults[s]
  <2>1. /\ DOMAIN Merged(D, FileFound) = Named(Defaults) \cup Named(D) \cup DOMAIN Given
        /\ \A s \in DOMAIN Given : Merged(D, FileFound)[s] = Given[s]
        /\ \A s \in Named(D) \ DOMAIN Given : Merged(D, FileFound)[s] = D[s]
        /\ \A s \in Named(Defaults) \ (Named(D) \cup DOMAIN Given) :
             Merged(D, FileFound)[s] = Defaults[s]
    BY MergedInParts DEF Given
  <2> QED
    BY <1>3, <2>1
<1>14. Named(D) \subseteq Forced \cup Named(Defaults)
  <2>1. StoredSettings \subseteq Forced \cup Named(Defaults)
    BY DefaultSettings DEF StoredSettings, Forced, Places
  <2> QED
    BY <1>4, <2>1 DEF Named
<1>15. DOMAIN config' = Forced \cup Named(Defaults) \cup DOMAIN Given
  BY <1>6, <1>12, <1>13, <1>14
<1>16. Database' = D /\ Given' = Given /\ FileFound' = FileFound
       /\ FileAt(config["configFile"])' = FileFound
  <2>1. Stored(config["dbPath"])' = Stored(dbPlace)
    BY <1>1, <1>8 DEF Stored
  <2>2. FileFound' = FileFound /\ GivenBy(FileFound)' = GivenBy(FileFound)
    BY <1>1 DEF FileFound, FromCaller, Generates, GivenBy
  <2>3. FileAt(config["configFile"])' = FileAt(forced["configFile"])
    BY <1>8 DEF FileAt
  <2> QED
    BY <1>10, <2>1, <2>2, <2>3 DEF Database, D, Given
<1>17. config'["nodeId"] = FromCaller("nodeId", config["nodeId"])'
  BY <1>1, <1>8, <1>11 DEF FromCaller
<1>18. \A s \in DOMAIN Given \ Forced : config'[s] = Given[s]
  BY <1>9, <1>13
<1>19. ASSUME NEW s \in Named(Defaults) \ DOMAIN Given
       PROVE  config'[s] = IF s \in DOMAIN D THEN D[s] ELSE Defaults[s]
  <2>1. s \notin Forced /\ config'[s] = merged[s]
    BY <1>9, <1>13, <1>19, DefaultSettings DEF Named
  <2>2. s \in DOMAIN D => s \in Named(D)
    <3>1. s \in DOMAIN D => s = "bootstrapPeers"
      BY <1>4, <2>1 DEF StoredSettings, Forced, Places
    <3> QED
      BY <1>4, <3>1 DEF Named
  <2>3. Named(D) \subseteq DOMAIN D
    BY DEF Named
  <2> QED
    BY <1>13, <1>19, <2>1, <2>2, <2>3
<1>20. "apiToken" \in DOMAIN merged => merged["apiToken"] # Null
  <2>1. "apiToken" \in DOMAIN Given => Given["apiToken"] # Null
    BY GivenInOrder DEF Given, Named
  <2>2. "apiToken" \notin Named(Defaults)
    BY DefaultSettings DEF Named, Forced
  <2> QED
    BY <1>13, <2>1, <2>2 DEF Named
<1>21. token \notin {Null, Empty}
  <2>1. CASE found
    BY <1>20, <2>1 DEF token, found
  <2>2. CASE ~found
    <3>1. tokens + 1 \in DOMAIN NewTokens
      <4>1. DOMAIN NewTokens = 1 .. Len(NewTokens) /\ Len(NewTokens) \in Nat
        BY Positions, ConfigurationAssumption
      <4>2. tokens < Len(NewTokens)
        BY <1>1, <2>2
      <4> QED
        BY <1>0, <4>1, <4>2
    <3>2. NewTokens[tokens + 1] \in STRING \ {Null, Empty}
      BY <3>1, Positions, ConfigurationAssumption
    <3> QED
      BY <2>2, <3>2 DEF token
  <2> QED
    BY <2>1, <2>2
<1>22. "apiToken" \in DOMAIN Given => token = Given["apiToken"] \/ Given["apiToken"] = Empty
  BY <1>13 DEF token, found
<1>23. "apiToken" \in DOMAIN D \ DOMAIN Given => token = D["apiToken"]
  <2> SUFFICES ASSUME "apiToken" \in DOMAIN D \ DOMAIN Given PROVE token = D["apiToken"]
    OBVIOUS
  <2>1. "apiToken" \in Named(D) /\ D["apiToken"] # Empty
    BY <1>4 DEF Named
  <2> QED
    BY <1>13, <2>1 DEF token, found
<1>24. toStore' \in Seq(StoredSettings) /\ TokenDue'
  <2>1. toStore' \in {<<"nodeId", "apiToken">>, <<"nodeId", "apiToken", "bootstrapPeers">>}
    BY <1>1
  <2>2. toStore'[2] = "apiToken" /\ 2 \in DOMAIN toStore'
    BY <2>1
  <2> QED
    <3>1. <<"nodeId", "apiToken">> \in Seq(StoredSettings)
      BY DEF StoredSettings
    <3>2. <<"nodeId", "apiToken", "bootstrapPeers">> \in Seq(StoredSettings)
      BY DEF StoredSettings
    <3> QED
      BY <2>1, <2>2, <3>1, <3>2 DEF TokenDue
<1>25. Loaded'
  BY <1>1, <1>8, <1>15, <1>16, <1>17, <1>18, <1>19, <1>21, <1>22, <1>23, <1>24 DEF Loaded
<1>26. ids' \in Nat /\ tokens' \in Nat
  BY <1>0, <1>1
<1> QED
  BY <1>1, <1>25, <1>26

\* An empty token is none.
LEMMA TokenGiven ==
  ASSUME FromSources(config), "apiToken" \in DOMAIN Given, Given["apiToken"] = Empty
  PROVE  EmptyToken
<1> DEFINE sources == <<FileFound, EnvSource(env), CliSource(args)>>
           naming == {i \in DOMAIN sources : "apiToken" \in Named(sources[i])}
<1>1. DOMAIN sources = {1, 2, 3} /\ sources[1] = FileFound /\ sources[2] = EnvSource(env)
      /\ sources[3] = CliSource(args)
  OBVIOUS
<1> HIDE DEF sources
<1>2. /\ "apiToken" \in Named(sources[1]) \cup Named(sources[2]) \cup Named(sources[3])
      /\ "apiToken" \in Named(sources[3]) => sources[3]["apiToken"] = Empty
      /\ "apiToken" \in Named(sources[2]) \ Named(sources[3]) => sources[2]["apiToken"] = Empty
      /\ "apiToken" \in Named(sources[1]) \ (Named(sources[2]) \cup Named(sources[3]))
           => sources[1]["apiToken"] = Empty
  <2>1. /\ DOMAIN Given = Named(FileFound) \cup Named(EnvSource(env)) \cup Named(CliSource(args))
        /\ \A s \in Named(CliSource(args)) : Given[s] = CliSource(args)[s]
        /\ \A s \in Named(EnvSource(env)) \ Named(CliSource(args)) : Given[s] = EnvSource(env)[s]
        /\ \A s \in Named(FileFound) \ (Named(EnvSource(env)) \cup Named(CliSource(args))) :
             Given[s] = FileFound[s]
    BY GivenInOrder DEF Given
  <2> QED
    BY <1>1, <2>1
<1>3. naming # {}
  BY <1>1, <1>2
<1>4. ASSUME NEW i \in naming, \A j \in naming : j <= i
      PROVE  sources[i]["apiToken"] = Empty
  <2>1. CASE i = 3
    BY <1>2, <1>4, <2>1
  <2>2. CASE i = 2
    <3>1. 3 \notin naming
      BY <1>4, <2>2
    <3> QED
      BY <1>1, <1>2, <1>4, <2>2, <3>1
  <2>3. CASE i = 1
    <3>1. 3 \notin naming /\ 2 \notin naming
      BY <1>4, <2>3
    <3> QED
      BY <1>1, <1>2, <1>4, <2>3, <3>1
  <2> QED
    BY <1>1, <1>4, <2>1, <2>2, <2>3
<1>5. FileAt(config["configFile"]) = FileFound
  BY DEF FromSources
<1> QED
  BY <1>3, <1>4, <1>5 DEF EmptyToken, sources

\* A complete start decides what every later one has.
LEMMA LastingSame ==
  ASSUME ConfInv
  PROVE  RestartsChangeNothing
<1> SUFFICES ASSUME phase # "down", config["dbPath"] \in DOMAIN present
             PROVE  LET last == present[config["dbPath"]]
                        Fixed == DOMAIN config \ {"nodeId", "configFile", "dbPath"}
                    IN  /\ DOMAIN config = DOMAIN last
                        /\ \A s \in Fixed : config[s] = last[s] \/ (s = "apiToken" /\ EmptyToken)
  BY DEF RestartsChangeNothing
<1> DEFINE place == config["dbPath"]
           last == present[place]
<1>1. /\ FromSources(config) /\ FromSources(last)
      /\ "bootstrapPeers" \notin DOMAIN Given =>
           PeersAt(place) = config["bootstrapPeers"] /\ PeersAt(place) = last["bootstrapPeers"]
      /\ "apiToken" \notin DOMAIN Given => config["apiToken"] = last["apiToken"]
  BY DEF ConfInv, Running, Lasting
<1> HIDE DEF place, last
<1>2. DOMAIN config = DOMAIN last /\ DOMAIN config = Forced \cup Named(Defaults) \cup DOMAIN Given
  BY <1>1 DEF FromSources
<1>3. ASSUME NEW s \in DOMAIN config, s \notin Places
      PROVE  config[s] = last[s] \/ (s = "apiToken" /\ EmptyToken)
  <2>1. CASE s = "apiToken"
    <3>1. CASE "apiToken" \in DOMAIN Given /\ Given["apiToken"] = Empty
      BY <1>1, <2>1, <3>1, TokenGiven
    <3>2. CASE "apiToken" \in DOMAIN Given /\ Given["apiToken"] # Empty
      BY <1>1, <2>1, <3>2 DEF FromSources
    <3>3. CASE "apiToken" \notin DOMAIN Given
      BY <1>1, <2>1, <3>3
    <3> QED
      BY <3>1, <3>2, <3>3
  <2>2. CASE s # "apiToken" /\ s \in DOMAIN Given
    <3>1. s \in DOMAIN Given \ Forced
      BY <1>3, <2>2 DEF Forced
    <3> QED
      BY <1>1, <3>1 DEF FromSources
  <2>3. CASE s # "apiToken" /\ s \notin DOMAIN Given
    <3>1. s \in Named(Defaults)
      BY <1>2, <1>3, <2>3 DEF Forced
    <3> QED
      BY <1>1, <2>3, <3>1 DEF FromSources
  <2> QED
    BY <2>1, <2>2, <2>3
<1> QED
  BY <1>2, <1>3 DEF place, last, Places

\* What a process runs with is what its sources say, in their order.
LEMMA RunningInOrder ==
  ASSUME ConfInv
  PROVE  SourcesInOrder
<1> SUFFICES ASSUME phase # "down", NEW s \in DOMAIN config \ {"configFile", "dbPath"}
             PROVE  LET flags == {i \in DOMAIN args : args[i].flag = s /\ s \in Flags}
                        next == {i \in flags : i + 1 \in DOMAIN args /\ args[i + 1].flag = ""}
                        group == UNION {g \in Groups \cup {{s}} : s \in g}
                        file == FileAt(config["configFile"])
                        there == DatabaseSource(config["dbPath"])
                        Is(value) == config[s] = value \/ (s = "apiToken" /\ value = Empty)
                    IN  /\ \A i \in flags : (\A j \in flags : j <= i) =>
                             /\ args[i].word # "" => Is(args[i].word)
                             /\ args[i].word = "" /\ i \in next => Is(args[i + 1].word)
                             /\ args[i].word = "" /\ i \notin next => Is("true")
                        /\ (flags = {} /\ s \in Told(env)
                              /\ (s = "maxStreams" => Openers \cap Told(env) # {})) => Is(env[s])
                        /\ flags = {} /\ group \cap Told(env) = {} /\ s # "nodeId" =>
                             /\ s \in Named(file) => Is(file[s])
                             /\ s \in DOMAIN there \ Named(file) => Is(there[s])
                             /\ s \notin Named(file) \cup DOMAIN there \cup {"apiToken"}
                                  => Is(Defaults[s])
  BY DEF SourcesInOrder
<1> DEFINE flags == {i \in DOMAIN args : args[i].flag = s /\ s \in Flags}
           next == {i \in flags : i + 1 \in DOMAIN args /\ args[i + 1].flag = ""}
           group == UNION {g \in Groups \cup {{s}} : s \in g}
           there == Stored(config["dbPath"])
           Is(value) == config[s] = value \/ (s = "apiToken" /\ value = Empty)
<1>1. /\ FromSources(config) /\ args \in CommandLines /\ env \in Environments
      /\ DOMAIN there \subseteq StoredSettings
      /\ "bootstrapPeers" \notin DOMAIN Given => PeersAt(config["dbPath"]) = config["bootstrapPeers"]
      /\ "apiToken" \notin DOMAIN Given /\ "apiToken" \in DOMAIN there =>
           TokenKept(config, config["dbPath"])
  BY DEF ConfInv, ConfTypes, Databases, Running
<1>2. s \in Settings
  BY <1>1, GivenSettings, DefaultSettings DEF FromSources, Named
<1>3. ASSUME s \in DOMAIN Given, s # "nodeId"
      PROVE  Is(Given[s])
  <2>1. s \notin Forced \/ s = "apiToken"
    BY <1>3 DEF Forced, Places
  <2> QED
    BY <1>1, <1>3, <2>1 DEF FromSources
<1>4. ASSUME NEW i \in flags, \A j \in flags : j <= i
      PROVE  Is(Said(i))
  <2>1. s \in Named(CliSource(args)) /\ CliSource(args)[s] = Said(i)
    <3>1. /\ i \in DOMAIN args /\ args[i].flag = s /\ s \in Flags
          /\ \A j \in DOMAIN args : args[j].flag = args[i].flag => j <= i
      BY <1>4
    <3> QED
      BY <1>1, <1>4, <3>1, CliLast
  <2>2. s \in DOMAIN Given /\ Given[s] = Said(i)
    BY <2>1, GivenInOrder DEF Given
  <2>3. CASE s = "nodeId"
    BY <1>1, <2>1, <2>3 DEF FromSources, FromCaller, Named
  <2> QED
    BY <1>3, <2>2, <2>3
<1>5. ASSUME NEW i \in flags
      PROVE  /\ args[i].word # "" => Said(i) = args[i].word
             /\ args[i].word = "" /\ i \in next => Said(i) = args[i + 1].word
             /\ args[i].word = "" /\ i \notin next => Said(i) = "true"
  <2>1. DOMAIN args = 1 .. Len(args) /\ Len(args) \in Nat
    BY <1>1, Positions, ConfigurationAssumption
  <2>2. i \in 1 .. Len(args) /\ (i + 1 \in DOMAIN args <=> i < Len(args))
    BY <2>1
  <2>3. CASE i < Len(args)
    BY <2>2, <2>3 DEF Said, Following
  <2>4. CASE ~(i < Len(args))
    BY <2>2, <2>4 DEF Said, Following
  <2> QED
    BY <2>3, <2>4
<1>6. flags = {} => s \notin DOMAIN CliSource(args)
  BY CliFlags
<1>7. ASSUME flags = {}, s \in Told(env), s = "maxStreams" => Openers \cap Told(env) # {}
      PROVE  Is(env[s])
  <2>1. s \in Named(EnvSource(env)) /\ EnvSource(env)[s] = env[s]
    BY <1>1, <1>2, <1>7, EnvNames
  <2>2. s \notin Named(CliSource(args))
    BY <1>6, <1>7 DEF Named
  <2>3. s \in DOMAIN Given /\ Given[s] = env[s]
    BY <2>1, <2>2, GivenInOrder DEF Given
  <2>4. CASE s = "nodeId"
    BY <1>1, <1>6, <1>7, <2>4 DEF FromSources, FromCaller
  <2> QED
    BY <1>3, <2>3, <2>4
<1>8. ASSUME flags = {}, group \cap Told(env) = {}, s # "nodeId"
      PROVE  /\ s \in Named(FileFound) => Is(FileFound[s])
             /\ s \in DOMAIN there \ Named(FileFound) => Is(there[s])
             /\ s \notin Named(FileFound) \cup DOMAIN there \cup {"apiToken"} => Is(Defaults[s])
  <2>1. s \notin Named(EnvSource(env)) \cup Named(CliSource(args))
    <3>1. s \notin Told(env)
      <4>1. s \in group
        OBVIOUS
      <4> QED
        BY <1>8, <4>1
    <3>2. \A g \in Groups : s \in g => g \cap Told(env) = {}
      <4>1. \A g \in Groups : s \in g => g \subseteq group
        OBVIOUS
      <4> QED
        BY <1>8, <4>1
    <3> QED
      BY <1>1, <1>6, <1>8, <3>1, <3>2, EnvNames DEF Named
  <2>2. s \in Named(FileFound) => s \in DOMAIN Given /\ Given[s] = FileFound[s]
    BY <2>1, GivenInOrder DEF Given
  <2>3. s \notin Named(FileFound) => s \notin DOMAIN Given
    BY <2>1, GivenInOrder DEF Given
  <2>4. ASSUME s \in DOMAIN there, s \notin Named(FileFound) PROVE config[s] = there[s]
    <3>1. s \in {"apiToken", "bootstrapPeers"}
      BY <1>1, <1>8, <2>4 DEF StoredSettings
    <3>2. CASE s = "apiToken"
      BY <1>1, <2>3, <2>4, <3>2 DEF TokenKept
    <3>3. CASE s = "bootstrapPeers"
      BY <1>1, <2>3, <2>4, <3>3 DEF PeersAt
    <3> QED
      BY <3>1, <3>2, <3>3
  <2>5. ASSUME s \notin Named(FileFound) \cup DOMAIN there \cup {"apiToken"}
        PROVE  config[s] = Defaults[s]
    <3>1. s \notin DOMAIN Given
      BY <2>3, <2>5
    <3>2. s \in Named(Defaults)
      BY <1>1, <1>8, <2>5, <3>1 DEF FromSources, Forced, Places
    <3>3. CASE s = "bootstrapPeers"
      BY <1>1, <2>5, <3>1, <3>3, DefaultSettings DEF PeersAt
    <3>4. CASE s # "bootstrapPeers"
      BY <1>1, <3>1, <3>2, <3>4 DEF FromSources
    <3> QED
      BY <3>3, <3>4
  <2> QED
    BY <1>3, <1>8, <2>2, <2>4, <2>5
<1>9. FileAt(config["configFile"]) = FileFound /\ DatabaseSource(config["dbPath"]) = there
  BY <1>1 DEF FromSources, DatabaseSource
<1> HIDE DEF there
<1> QED
  BY <1>4, <1>5, <1>7, <1>8, <1>9

LEMMA ConfInitInv == ConfInit => ConfInv
<1> SUFFICES ASSUME ConfInit PROVE ConfInv
  OBVIOUS
<1>1. \A place : Stored(place) = Nothing
  BY NothingThere DEF ConfInit, Stored
<1>2. ConfTypes
  BY DEF ConfInit, ConfTypes
<1>3. Databases
  BY <1>1, NothingThere DEF Databases
<1> QED
  BY <1>2, <1>3, NothingThere DEF ConfInit, ConfInv, Running, Lasting

\* What a configuration is made of does not change while nobody edits it.
LEMMA GivenSame ==
  ASSUME UNCHANGED <<args, env>>
  PROVE  Given' = Given /\ FileFound' = FileFound
<1>1. FileFound' = FileFound
  BY DEF FileFound, FromCaller, Generates
<1> QED
  BY <1>1 DEF Given, GivenBy

LEMMA LoadKeeps ==
  ASSUME ConfInv, LoadConfig
  PROVE  ConfInv'
<1>1. /\ Loaded' /\ UNCHANGED <<args, env, databases, present>>
      /\ ids' \in Nat /\ tokens' \in Nat
  BY LoadStep DEF ConfInv
<1>2. Given' = Given /\ FileFound' = FileFound
  BY <1>1, GivenSame
<1>3. \A place : Stored(place)' = Stored(place) /\ PeersAt(place)' = PeersAt(place)
  BY <1>1 DEF Stored, PeersAt
<1>4. ConfTypes'
  BY <1>1 DEF ConfInv, ConfTypes, Loaded
<1>5. Databases'
  BY <1>3 DEF ConfInv, Databases
<1>6. "bootstrapPeers" \notin DOMAIN Given => PeersAt(config["dbPath"])' = config'["bootstrapPeers"]
  BY <1>1, <1>2, DefaultSettings DEF Loaded, Database, PeersAt
<1>7. FromSources(config)'
  <2>1. config'["bootstrapPeers"] # Null
    <3>1. CASE "bootstrapPeers" \in DOMAIN Given
      <4>1. Given["bootstrapPeers"] # Null
        BY <3>1, GivenInOrder DEF Given, Named
      <4> QED
        BY <1>1, <1>2, <3>1, <4>1, DefaultSettings DEF Loaded
    <3>2. CASE "bootstrapPeers" \notin DOMAIN Given
      <4>1. PeersAt(config["dbPath"])' # Null
        BY <1>5 DEF Databases, PeersAt, Empty, Null
      <4> QED
        BY <1>6, <3>2, <4>1
    <3> QED
      BY <3>1, <3>2
  <2>2. \A s \in Named(Defaults) \ (DOMAIN Given \cup {"bootstrapPeers"}) : config'[s] = Defaults[s]
    <3>1. DOMAIN Database' \subseteq StoredSettings
      BY <1>5 DEF Databases, Database
    <3>2. \A s \in Named(Defaults) \ {"bootstrapPeers"} : s \notin StoredSettings
      BY DefaultSettings DEF Named, StoredSettings, Forced, Places
    <3> QED
      BY <1>1, <1>2, <3>1, <3>2 DEF Loaded
  <2> QED
    BY <1>1, <1>2, <2>1, <2>2 DEF FromSources, Loaded
<1>8. Running'
  <2>1. ASSUME "apiToken" \notin DOMAIN Given, "apiToken" \in DOMAIN Stored(config["dbPath"])'
        PROVE  TokenKept(config, config["dbPath"])'
    BY <1>1, <1>2, <2>1 DEF Loaded, Database, TokenKept
  <2>2. TokenDue'
    BY <1>1 DEF Loaded
  <2> QED
    BY <1>1, <1>2, <1>6, <1>7, <2>1, <2>2 DEF Running
<1>9. Lasting'
  <2> SUFFICES ASSUME NEW place \in DOMAIN present
               PROVE  /\ FromSources(present[place])'
                      /\ "bootstrapPeers" \notin DOMAIN Given => PeersAt(place) = present[place]["bootstrapPeers"]
                      /\ "apiToken" \notin DOMAIN Given =>
                           /\ TokenKept(present[place], place)
                           /\ config'["dbPath"] = place => config'["apiToken"] = present[place]["apiToken"]
    BY <1>1, <1>2, <1>3 DEF Lasting, TokenKept
  <2>1. /\ FromSources(present[place])
        /\ "bootstrapPeers" \notin DOMAIN Given => PeersAt(place) = present[place]["bootstrapPeers"]
        /\ "apiToken" \notin DOMAIN Given => TokenKept(present[place], place)
    BY DEF ConfInv, Lasting
  <2>2. FromSources(present[place])'
    BY <1>1, <1>2, <2>1 DEF FromSources, FromCaller, FileAt
  <2>3. ASSUME "apiToken" \notin DOMAIN Given, config'["dbPath"] = place
        PROVE  config'["apiToken"] = present[place]["apiToken"]
    <3>1. Database' = Stored(place)
      BY <1>3, <2>3 DEF Database
    <3> QED
      BY <1>1, <1>2, <2>1, <2>3, <3>1 DEF Loaded, TokenKept
  <2> QED
    BY <2>1, <2>2, <2>3
<1> QED
  BY <1>4, <1>5, <1>8, <1>9 DEF ConfInv

LEMMA PutKeeps ==
  ASSUME ConfInv, PutNext
  PROVE  ConfInv'
<1> DEFINE place == config["dbPath"]
           setting == Head(toStore)
<1>1. /\ phase = "storing" /\ toStore # <<>> /\ toStore' = Tail(toStore)
      /\ databases' = Put(databases, place, Put(Stored(place), setting, config[setting]))
      /\ UNCHANGED <<args, env, phase, config, ids, tokens, present>>
  BY DEF PutNext
<1>2. Given' = Given /\ FileFound' = FileFound
  BY <1>1, GivenSame
<1>3. toStore \in Seq(StoredSettings)
  BY DEF ConfInv, ConfTypes
<1>4. setting \in StoredSettings /\ Tail(toStore) \in Seq(StoredSettings)
  BY <1>1, <1>3
<1>5. FromSources(config) /\ FromSources(config)'
  <2>1. FromSources(config)
    BY <1>1 DEF ConfInv, Running
  <2> QED
    BY <1>1, <1>2, <2>1 DEF FromSources, FromCaller, FileAt
<1>6. /\ Stored(place)' = Put(Stored(place), setting, config[setting])
      /\ \A other : other # place => Stored(other)' = Stored(other)
  <2>1. /\ DOMAIN databases' = DOMAIN databases \cup {place}
        /\ databases'[place] = Put(Stored(place), setting, config[setting])
        /\ \A other \in DOMAIN databases : other # place => databases'[other] = databases[other]
    <3> DEFINE entry == Put(Stored(place), setting, config[setting])
               result == Put(databases, place, entry)
    <3>1. databases' = result
      BY <1>1
    <3> HIDE DEF entry
    <3>2. /\ DOMAIN result = DOMAIN databases \cup {place} /\ result[place] = entry
          /\ \A other \in DOMAIN databases : other # place => result[other] = databases[other]
      BY DEF Put
    <3> HIDE DEF result
    <3> QED
      BY <3>1, <3>2 DEF entry
  <2> QED
    BY <1>1, <2>1 DEF Stored
<1> HIDE DEF setting
<1>7. /\ DOMAIN Stored(place)' = DOMAIN Stored(place) \cup {setting}
      /\ Stored(place)'[setting] = config[setting]
      /\ \A s \in DOMAIN Stored(place) : s # setting => Stored(place)'[s] = Stored(place)[s]
  <2> DEFINE result == Put(Stored(place), setting, config[setting])
  <2>1. /\ DOMAIN result = DOMAIN Stored(place) \cup {setting} /\ result[setting] = config[setting]
        /\ \A s \in DOMAIN Stored(place) : s # setting => result[s] = Stored(place)[s]
    BY DEF Put
  <2>2. Stored(place)' = result
    BY <1>6
  <2> HIDE DEF result
  <2> QED
    BY <2>1, <2>2
<1>8. ConfTypes'
  BY <1>1, <1>4 DEF ConfInv, ConfTypes
<1>9. Databases'
  <2>1. Databases /\ config["apiToken"] \notin {Null, Empty} /\ config["bootstrapPeers"] # Null
    BY <1>5 DEF ConfInv, FromSources
  <2>2. /\ DOMAIN Stored(place)' \subseteq StoredSettings
        /\ "apiToken" \in DOMAIN Stored(place)' => Stored(place)'["apiToken"] \notin {Null, Empty}
        /\ "bootstrapPeers" \in DOMAIN Stored(place)' => Stored(place)'["bootstrapPeers"] # Null
    BY <1>4, <1>7, <2>1 DEF Databases
  <2>3. ASSUME NEW other
        PROVE  /\ DOMAIN Stored(other)' \subseteq StoredSettings
               /\ "apiToken" \in DOMAIN Stored(other)' => Stored(other)'["apiToken"] \notin {Null, Empty}
               /\ "bootstrapPeers" \in DOMAIN Stored(other)' => Stored(other)'["bootstrapPeers"] # Null
    <3>1. CASE other = place
      BY <1>1, <2>2, <3>1
    <3>2. CASE other # place
      BY <1>6, <2>1, <3>2 DEF Databases
    <3> QED
      BY <3>1, <3>2
  <2> QED
    BY <2>3 DEF Databases
<1>10. ASSUME "bootstrapPeers" \notin DOMAIN Given
       PROVE  \A other : PeersAt(other)' = PeersAt(other)
  <2>1. PeersAt(place) = config["bootstrapPeers"]
    BY <1>1, <1>10 DEF ConfInv, Running
  <2>2. PeersAt(place)' = PeersAt(place)
    BY <1>7, <2>1 DEF PeersAt
  <2> QED
    BY <1>1, <1>6, <2>2 DEF PeersAt
<1>11. ASSUME NEW c, NEW other, TokenKept(c, other), other # place \/ c["apiToken"] = config["apiToken"]
       PROVE  "apiToken" \in DOMAIN Stored(other)' /\ Stored(other)'["apiToken"] = c["apiToken"]
  BY <1>1, <1>6, <1>7, <1>11 DEF TokenKept
<1>12. TokenDue => TokenDue' \/ (TokenKept(config, place))'
  <2> SUFFICES ASSUME TokenDue PROVE TokenDue' \/ (TokenKept(config, place))'
    OBVIOUS
  <2>1. PICK i \in DOMAIN toStore : toStore[i] = "apiToken"
    BY DEF TokenDue
  <2>2. CASE i = 1
    <3>1. setting = "apiToken"
      BY <2>1, <2>2 DEF setting
    <3> QED
      BY <1>1, <1>7, <3>1 DEF TokenKept
  <2>3. CASE i # 1
    <3>1. i \in 1 .. Len(toStore) /\ Len(toStore) \in Nat
      BY <1>3, <2>1
    <3>2. i - 1 \in DOMAIN Tail(toStore) /\ Tail(toStore)[i - 1] = toStore[i]
      BY <1>1, <1>3, <2>3, <3>1
    <3> QED
      BY <1>1, <2>1, <3>2 DEF TokenDue
  <2> QED
    BY <2>2, <2>3
<1>13. Running'
  <2>1. ASSUME "apiToken" \notin DOMAIN Given
        PROVE  \/ (TokenKept(config, place))'
               \/ TokenDue' /\ "apiToken" \notin DOMAIN Stored(place)'
    <3>1. \/ TokenKept(config, place)
          \/ TokenDue /\ "apiToken" \notin DOMAIN Stored(place)
      BY <1>1, <2>1 DEF ConfInv, Running
    <3>2. TokenKept(config, place) => (TokenKept(config, place))'
      BY <1>1, <1>11 DEF TokenKept
    <3>3. setting = "apiToken" => (TokenKept(config, place))'
      BY <1>1, <1>7 DEF TokenKept
    <3>4. setting # "apiToken" /\ "apiToken" \notin DOMAIN Stored(place)
            => "apiToken" \notin DOMAIN Stored(place)'
      BY <1>7
    <3> QED
      BY <1>12, <3>1, <3>2, <3>3, <3>4
  <2>2. "bootstrapPeers" \notin DOMAIN Given => PeersAt(place)' = config["bootstrapPeers"]
    BY <1>1, <1>10 DEF ConfInv, Running
  <2> QED
    BY <1>1, <1>2, <1>5, <2>1, <2>2 DEF Running
<1>14. Lasting'
  <2> SUFFICES ASSUME NEW other \in DOMAIN present
               PROVE  /\ FromSources(present[other])'
                      /\ "bootstrapPeers" \notin DOMAIN Given => PeersAt(other)' = present[other]["bootstrapPeers"]
                      /\ "apiToken" \notin DOMAIN Given =>
                           /\ "apiToken" \in DOMAIN Stored(other)'
                           /\ Stored(other)'["apiToken"] = present[other]["apiToken"]
                           /\ config["dbPath"] = other => config["apiToken"] = present[other]["apiToken"]
    BY <1>1, <1>2 DEF Lasting, TokenKept
  <2>1. /\ FromSources(present[other])
        /\ "bootstrapPeers" \notin DOMAIN Given => PeersAt(other) = present[other]["bootstrapPeers"]
        /\ "apiToken" \notin DOMAIN Given =>
             /\ TokenKept(present[other], other)
             /\ config["dbPath"] = other => config["apiToken"] = present[other]["apiToken"]
    BY <1>1 DEF ConfInv, Lasting
  <2>2. FromSources(present[other])'
    BY <1>1, <1>2, <2>1 DEF FromSources, FromCaller, FileAt
  <2> QED
    BY <1>10, <1>11, <2>1, <2>2
<1> QED
  BY <1>8, <1>9, <1>13, <1>14 DEF ConfInv

LEMMA ConfStep ==
  ASSUME ConfInv, [ConfNext]_confVars
  PROVE  ConfInv'
<1>0. ConfTypes /\ Databases /\ Running /\ Lasting
  BY DEF ConfInv
<1>1. ASSUME UNCHANGED <<args, env, databases, ids, tokens>>, toStore' \in Seq(StoredSettings),
             phase' \in {"down", "storing", "up"}
      PROVE  ConfTypes' /\ Databases'
  BY <1>0, <1>1 DEF ConfTypes, Databases, Stored
<1>2. CASE ComeUp
  <2>1. /\ phase = "storing" /\ toStore = <<>> /\ phase' = "up"
        /\ present' = Put(present, config["dbPath"], config)
        /\ UNCHANGED <<args, env, config, toStore, databases, ids, tokens>>
    BY <1>2 DEF ComeUp
  <2>2. Given' = Given /\ FileFound' = FileFound
    BY <2>1, GivenSame
  <2>3. ~TokenDue
    BY <2>1 DEF TokenDue
  <2>4. /\ DOMAIN present' = DOMAIN present \cup {config["dbPath"]}
        /\ present'[config["dbPath"]] = config
        /\ \A place \in DOMAIN present : place # config["dbPath"] => present'[place] = present[place]
    <3> DEFINE result == Put(present, config["dbPath"], config)
    <3>1. /\ DOMAIN result = DOMAIN present \cup {config["dbPath"]}
          /\ result[config["dbPath"]] = config
          /\ \A place \in DOMAIN present : place # config["dbPath"] => result[place] = present[place]
      BY DEF Put
    <3>2. present' = result
      BY <2>1
    <3> HIDE DEF result
    <3> QED
      BY <3>1, <3>2
  <2>5. \A c : FromSources(c) => /\ FileAt(c["configFile"]) = FileFound
                                 /\ (FromSources(c))'
    BY <2>1, <2>2 DEF FromSources, FromCaller
  <2>6. \A place : PeersAt(place)' = PeersAt(place) /\ Stored(place)' = Stored(place)
    BY <2>1 DEF PeersAt, Stored
  <2>7. ConfTypes' /\ Databases'
    BY <1>0, <1>1, <2>1 DEF ConfTypes
  <2>8. Running'
    BY <1>0, <2>1, <2>2, <2>5, <2>6, <2>7 DEF Running, FromSources, FromCaller, TokenDue, TokenKept
  <2>9. Lasting'
    BY <1>0, <2>1, <2>2, <2>3, <2>4, <2>6 DEF Running, Lasting, TokenKept, FromSources, FromCaller
  <2> QED
    BY <2>7, <2>8, <2>9 DEF ConfInv
<1>3. CASE Stop
  <2>1. /\ phase' = "down" /\ toStore' = <<>>
        /\ UNCHANGED <<args, env, databases, ids, tokens, present>>
    BY <1>3 DEF Stop
  <2>2. Given' = Given /\ FileFound' = FileFound
    BY <2>1, GivenSame
  <2>3. ConfTypes' /\ Databases'
    BY <1>1, <2>1
  <2>4. Lasting'
    BY <1>0, <2>1, <2>2 DEF Lasting, FromSources, FromCaller, PeersAt, Stored, TokenKept
  <2> QED
    BY <2>1, <2>3, <2>4 DEF ConfInv, Running
<1>4. CASE Reconfigure
  <2>1. /\ phase = "down" /\ args' \in CommandLines /\ env' \in Environments /\ present' = Nothing
        /\ UNCHANGED <<phase, toStore, databases, ids, tokens>>
    BY <1>4 DEF Reconfigure
  <2>2. ConfTypes' /\ Databases'
    BY <1>0, <2>1 DEF ConfTypes, Databases, Stored
  <2> QED
    BY <2>1, <2>2, NothingThere DEF ConfInv, Running, Lasting
<1>5. CASE UNCHANGED confVars
  <2>1. UNCHANGED <<args, env, phase, config, toStore, databases, ids, tokens, present>>
    BY <1>5 DEF confVars
  <2>2. Given' = Given /\ FileFound' = FileFound
    BY <2>1, GivenSame
  <2>3. ConfTypes' /\ Databases'
    BY <1>0, <1>1, <2>1 DEF ConfTypes
  <2>4. Running' /\ Lasting'
    BY <1>0, <2>1, <2>2 DEF Running, Lasting, FromSources, FromCaller, PeersAt, Stored, TokenKept, TokenDue
  <2> QED
    BY <2>3, <2>4 DEF ConfInv
<1> QED
  BY <1>2, <1>3, <1>4, <1>5, LoadKeeps, PutKeeps DEF ConfNext

\* As long as nobody edits its command line and environment, a node comes back
\* with what it had at the same database, wherever it was killed.
THEOREM RestartsKeepConfig == ConfSpec => []RestartsChangeNothing
BY ConfInitInv, ConfStep, LastingSame, PTL DEF ConfSpec

\* Every setting comes from the highest of its sources that has it, whatever
\* has been stored by earlier starts and however a flag is given its value, with
\* the exceptions the property names: groups of variables, maxStreams, empty
\* variables and tokens, and the node ID and the places.
THEOREM SourcesAlwaysInOrder == ConfSpec => []SourcesInOrder
BY ConfInitInv, ConfStep, RunningInOrder, PTL DEF ConfSpec
=============================================================================
