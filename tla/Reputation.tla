------------------------------ MODULE Reputation ------------------------------
(***************************************************************************)
(* The reputation of one peer (lib/security/reputation/system.ts): its     *)
(* score, counters and history in the database, and the score cached in    *)
(* memory.  The records of two peers share nothing, so one is enough.      *)
(*                                                                         *)
(* Every await of getScore, updateScore and resetScore is a point where    *)
(* other operations on the peer run.  A database access takes effect in a  *)
(* step of its own; what follows it joins that step unless it touches the  *)
(* cache, which the operations share.                                      *)
(*                                                                         *)
(* Decay moves a score towards the initial score by an amount that depends *)
(* on the time since the last update; the model lets it be any amount.     *)
(* The sixty seconds of the cache are a step that drops the entry.         *)
(***************************************************************************)
EXTENDS Integers, FiniteSets, Sequences

CONSTANTS
  Ops,           \* operations on the peer, each performed once
  KindOf,        \* KindOf[op]: update, read or reset
  EventOf,       \* EventOf[op]: the type of the event of an update
  DeltaOf,       \* DeltaOf[op]: the delta of an update
  InitialScore, MinScore, MaxScore,
  MaxHistory,    \* MAX_HISTORY_ENTRIES
  Absent,        \* stands for a key or a cache entry that is not there
  Faults         \* the kinds of disturbance that may happen

Events == {"valid_message", "invalid_message", "invalid_signature", "spam",
           "rate_limit_exceeded", "duplicate_message"}
Counters == {"validMessages", "invalidMessages", "spamReports"}
Scores == MinScore .. MaxScore

ASSUME ReputationAssumption ==
  /\ KindOf \in [Ops -> {"update", "read", "reset"}]
  /\ EventOf \in [Ops -> Events]
  /\ DeltaOf \in [Ops -> Int]
  /\ MinScore \in Int /\ MaxScore \in Int /\ InitialScore \in Scores
  /\ MaxHistory \in Nat \ {0}
  /\ Absent \notin Scores
  /\ Faults \subseteq {"overlap", "read", "write", "crash", "decay"}

VARIABLES
  db,     \* the four keys of the peer; Absent before the first put
  cache,  \* scoreCache: a score, or Absent
  pc,     \* pc[op]: what op does next
  local,  \* local[op]: the local variables of op
  \* History; no operation reads it.
  ideal,  \* the score if the operations begun were applied one after the other
  torn,   \* operations that a failed write or a crash cut short
  stored, \* every score that was ever put
  faults  \* the kinds of disturbance that have happened

history == <<ideal, torn, stored, faults>>
recordVars == <<db, cache, pc, local, history>>

Stages == {"idle", "score", "fill", "stamp", "putScore", "putStamp", "cache",
           "count", "putCount", "history", "putHistory", "done", "failed"}
Idle(op) == pc[op] \in {"idle", "done", "failed"}
Quiet == \A op \in Ops : Idle(op)
Begun == {op \in Ops : pc[op] # "idle"}

RecordTypes ==
  /\ db \in [score : Scores \cup {Absent}, stamped : BOOLEAN,
             count : [Counters -> Nat], history : Seq(Scores)]
  /\ Len(db.history) <= MaxHistory
  /\ cache \in Scores \cup {Absent}
  /\ pc \in [Ops -> Stages]
  /\ local \in [Ops -> [score : Scores, count : Nat, history : Seq(Scores)]]
  /\ ideal \in Scores
  /\ torn \subseteq Ops
  /\ stored \subseteq Scores
  /\ faults \subseteq Faults

-----------------------------------------------------------------------------
Clamp(s) == IF s < MinScore THEN MinScore ELSE IF s > MaxScore THEN MaxScore ELSE s

\* The scores decay can leave of s: anything between s and the initial score.
Decayed(s) == {t \in Scores : t \in s .. InitialScore \/ t \in InitialScore .. s}

Happens(fault) == fault \in Faults /\ faults' = faults \cup {fault}

\* updateCounters: the counter of an event, none for duplicates.
CounterOf(e) ==
  IF e = "valid_message" THEN {"validMessages"}
  ELSE IF e \in {"invalid_message", "invalid_signature"} THEN {"invalidMessages"}
  ELSE IF e \in {"spam", "rate_limit_exceeded"} THEN {"spamReports"} ELSE {}

Counts(op) == KindOf[op] = "update" /\ CounterOf(EventOf[op]) # {}
Counter(op) == CHOOSE c \in Counters : c \in CounterOf(EventOf[op])

Goto(op, stage) == pc' = [pc EXCEPT ![op] = stage]
Keep(op, field, value) == local' = [local EXCEPT ![op][field] = value]

\* Where getScore returns to: its caller, or updateScore.
AfterScore(op) == IF KindOf[op] = "read" THEN "done" ELSE "stamp"

\* What the operation makes of a score when it runs alone.
Serial(op, score) ==
  IF KindOf[op] = "update" THEN Clamp(score + DeltaOf[op])
  ELSE IF KindOf[op] = "reset" THEN InitialScore ELSE score

\* updateScore, getScore and resetScore up to their first await.
Begin(op) ==
  /\ pc[op] = "idle"
  /\ IF Quiet THEN UNCHANGED faults ELSE Happens("overlap")
  /\ ideal' = Serial(op, ideal)
  /\ \/ /\ KindOf[op] = "reset"
        /\ Keep(op, "score", InitialScore)
        /\ Goto(op, "putScore")
     \/ /\ KindOf[op] # "reset"
        /\ cache # Absent
        /\ Keep(op, "score", cache)
        /\ Goto(op, AfterScore(op))
     \/ /\ KindOf[op] # "reset"
        /\ cache = Absent
        /\ Goto(op, "score")
        /\ UNCHANGED local
  /\ UNCHANGED <<db, cache, torn, stored>>

\* The read of getScore; without a value, or when it fails, the initial score.
ReadScore(op) ==
  /\ pc[op] = "score"
  /\ \/ /\ db.score # Absent
        /\ Keep(op, "score", db.score)
        /\ Goto(op, "fill")
        /\ UNCHANGED faults
     \/ /\ IF db.score = Absent THEN UNCHANGED faults ELSE Happens("read")
        /\ Keep(op, "score", InitialScore)
        /\ Goto(op, AfterScore(op))
  /\ UNCHANGED <<db, cache, ideal, torn, stored>>

FillCache(op) ==
  /\ pc[op] = "fill"
  /\ cache' = local[op].score
  /\ Goto(op, AfterScore(op))
  /\ UNCHANGED <<db, local, history>>

\* The read of lastUpdate, then decay and delta.  Without lastUpdate, or when
\* the read fails, nothing decays.
Apply(op) ==
  /\ pc[op] = "stamp"
  /\ \/ /\ Keep(op, "score", Clamp(local[op].score + DeltaOf[op]))
        /\ UNCHANGED faults
     \/ /\ db.stamped
        /\ \E s \in Decayed(local[op].score) : Keep(op, "score", Clamp(s + DeltaOf[op]))
        /\ Happens("decay")
  /\ Goto(op, "putScore")
  /\ UNCHANGED <<db, cache, ideal, torn, stored>>

PutScore(op) ==
  /\ pc[op] = "putScore"
  /\ db' = [db EXCEPT !.score = local[op].score]
  /\ stored' = stored \cup {local[op].score}
  /\ Goto(op, "putStamp")
  /\ UNCHANGED <<cache, local, ideal, torn, faults>>

PutStamp(op) ==
  /\ pc[op] = "putStamp"
  /\ db' = [db EXCEPT !.stamped = TRUE]
  /\ Goto(op, "cache")
  /\ UNCHANGED <<cache, local, history>>

AfterCache(op) ==
  IF KindOf[op] = "reset" THEN "done" ELSE IF Counts(op) THEN "count" ELSE "history"

\* An update that leaves the cached score as it was.
CacheKept(op) ==
  /\ pc[op] = "cache"
  /\ Goto(op, AfterCache(op))
  /\ UNCHANGED <<db, cache, local, history>>

CacheScore(op) ==
  /\ pc[op] = "cache"
  /\ cache' = local[op].score
  /\ Goto(op, AfterCache(op))
  /\ UNCHANGED <<db, local, history>>

\* A counter that is read under another key than it is put.
ReadCountMissing(op) ==
  /\ pc[op] = "count"
  /\ Keep(op, "count", 0)
  /\ Goto(op, "putCount")
  /\ UNCHANGED <<db, cache, history>>

\* updateCounters reads; a failed read counts from zero.
ReadCount(op) ==
  /\ pc[op] = "count"
  /\ \/ Keep(op, "count", db.count[Counter(op)]) /\ UNCHANGED faults
     \/ Keep(op, "count", 0) /\ Happens("read")
  /\ Goto(op, "putCount")
  /\ UNCHANGED <<db, cache, ideal, torn, stored>>

PutCount(op) ==
  /\ pc[op] = "putCount"
  /\ db' = [db EXCEPT !.count[Counter(op)] = local[op].count + 1]
  /\ Goto(op, "history")
  /\ UNCHANGED <<cache, local, history>>

\* appendHistory reads; a failed read starts an empty history.
ReadHistory(op) ==
  /\ pc[op] = "history"
  /\ \/ Keep(op, "history", db.history) /\ UNCHANGED faults
     \/ Keep(op, "history", <<>>) /\ Happens("read")
  /\ Goto(op, "putHistory")
  /\ UNCHANGED <<db, cache, ideal, torn, stored>>

\* The last MaxHistory elements.
Latest(h) == SubSeq(h, IF Len(h) > MaxHistory THEN Len(h) - MaxHistory + 1 ELSE 1, Len(h))

PutHistory(op) ==
  /\ pc[op] = "putHistory"
  /\ db' = [db EXCEPT !.history = Latest(Append(local[op].history, local[op].score))]
  /\ Goto(op, "done")
  /\ UNCHANGED <<cache, local, history>>

\* A put rejects, and the operation with it.
WriteFails(op) ==
  /\ Happens("write")
  /\ pc[op] \in {"putScore", "putStamp", "putCount", "putHistory"}
  /\ Goto(op, "failed")
  /\ torn' = torn \cup {op}
  /\ UNCHANGED <<db, cache, local, ideal, stored>>

\* The entry is sixty seconds old, or clearCache() is called.
CacheExpires ==
  /\ cache # Absent
  /\ cache' = Absent
  /\ UNCHANGED <<db, pc, local, history>>

\* The process stops and starts again over the same database.
Crash ==
  /\ Happens("crash")
  /\ cache' = Absent
  /\ pc' = [op \in Ops |-> IF Idle(op) THEN pc[op] ELSE "failed"]
  /\ torn' = torn \cup {op \in Ops : ~Idle(op)}
  /\ UNCHANGED <<db, local, ideal, stored>>

-----------------------------------------------------------------------------
ReputationInit ==
  /\ db = [score |-> Absent, stamped |-> FALSE,
           count |-> [c \in Counters |-> 0], history |-> <<>>]
  /\ cache = Absent
  /\ pc = [op \in Ops |-> "idle"]
  /\ local = [op \in Ops |-> [score |-> InitialScore, count |-> 0, history |-> <<>>]]
  /\ ideal = InitialScore
  /\ torn = {}
  /\ stored = {}
  /\ faults = {}

Step(op) ==
  \/ Begin(op)
  \/ ReadScore(op) \/ FillCache(op) \/ Apply(op)
  \/ PutScore(op) \/ PutStamp(op) \/ CacheScore(op)
  \/ ReadCount(op) \/ PutCount(op)
  \/ ReadHistory(op) \/ PutHistory(op)
  \/ WriteFails(op)

ReputationNext ==
  \/ \E op \in Ops : Step(op)
  \/ CacheExpires
  \/ Crash

ReputationSpec == ReputationInit /\ [][ReputationNext]_recordVars

-----------------------------------------------------------------------------
(***************************************************************************)
(* Properties                                                              *)
(***************************************************************************)

\* The operations begun whose event belongs to counter c.
EventsOf(c) == {op \in Begun : KindOf[op] = "update" /\ c \in CounterOf(EventOf[op])}

\* When callers wait for each update, nothing fails and nothing decays, the record
\* is exactly the events reported so far: no cache expiry between two of them matters.
SerialExact ==
  (Quiet /\ faults = {}) =>
    /\ db.score \in {ideal} \cup (IF stored = {} THEN {Absent} ELSE {})
    /\ cache \in {ideal, Absent}
    /\ \A c \in Counters : db.count[c] = Cardinality(EventsOf(c))

\* No counter passes the number of events reported, whatever updates overlap,
\* fail or are cut short: an event may be lost but never invented.  When callers
\* wait for each update and no read fails, each failed write or crash costs a
\* counter at most the event it interrupted.
LossBounded ==
  \A c \in Counters :
    /\ db.count[c] <= Cardinality(EventsOf(c))
    /\ (Quiet /\ faults \subseteq {"write", "crash", "decay"}) =>
         db.count[c] >= Cardinality(EventsOf(c)) - Cardinality(torn \cap EventsOf(c))
=============================================================================
