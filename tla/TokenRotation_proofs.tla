-------------------------- MODULE TokenRotation_proofs --------------------------
(***************************************************************************)
(* Proofs about TokenRotation, for any number of rotations, validations    *)
(* and crashes and any lifetimes.                                          *)
(*                                                                         *)
(* What holds depends on what has happened.  As long as rotations do not   *)
(* overlap, a minted token that was rotated out is never current again,    *)
(* and each record of the history has the grace period that was given to   *)
(* its token when it was rotated out (Apart), whatever reads and writes    *)
(* fail.  As long as moreover no access fails and no rotation is cut       *)
(* short, the history follows the order in which tokens were rotated out   *)
(* and has the last MaxTokensKept that are in grace (Clean).               *)
(***************************************************************************)
EXTENDS TokenRotation, Subsequence_proofs

Local == [current : Active \cup {Nothing}, history : Seq(Secondary),
          new : Active \cup {Nothing}]
Rotated == [token : Tokens, until : Nat, at : Nat]
Question == [token : Tokens, at : Nat, was : {"current", "other"}]

\* The stages after those in which a rotation may still mint its token.
Past == {"initStamp", "putLast", "putHistory", "done", "failed"}

\* A rotation between its new current token and its history.
Halfway == {"putLast", "putHistory"}

Types ==
  /\ TypeOK
  /\ DOMAIN pc = Rotators \cup Validators
  /\ local \in [Rotators -> Local]
  /\ asked \in [Validators -> Question]

\* What a task has made when it puts it.
Made ==
  \A r \in Rotators :
    /\ pc[r] \in {"initPut", "initStamp"} =>
         local[r].new \in Active /\ local[r].new.token \in {r, Configured}
    /\ pc[r] \in {"putCurrent", "putLast", "putHistory"} =>
         local[r].new \in Active /\ local[r].new.token = r
    /\ pc[r] = "putCurrent" /\ local[r].current # Nothing => local[r].history # <<>>

-----------------------------------------------------------------------------
\* Rotations that do not overlap.
Lone ==
  /\ \A r, s \in Rotators : ~Ended(r) /\ ~Ended(s) => r = s
  /\ phase = "down" => Quiet

\* What the one rotation has read is what there is, or nothing, and what it put
\* stands.
Faithful ==
  \A r \in Rotators :
    /\ pc[r] \in {"readHistory", "putCurrent"} => local[r].current \in {current, Nothing}
    /\ pc[r] = "putCurrent" /\ local[r].current = Nothing =>
         local[r].history \in {history, <<>>}
    /\ pc[r] = "putCurrent" /\ local[r].current # Nothing =>
         \E s \in Secondary, h \in {history, <<>>} :
           s.token = current.token /\ local[r].history = Append(h, s)
    /\ pc[r] \in {"initStamp", "putLast", "putHistory"} => current = local[r].new

\* A minted token is minted no more.
Minting ==
  /\ current # Nothing /\ current.token \in Rotators => pc[current.token] \in Past
  /\ \A i \in DOMAIN out : out[i].token \in Rotators => pc[out[i].token] \in Past

\* A token is rotated out once, and is not current afterwards.
Spent ==
  /\ \A i \in DOMAIN out :
       out[i].token \in Rotators /\ current # Nothing => current.token # out[i].token
  /\ \A i, j \in DOMAIN out :
       out[i].token \in Rotators /\ out[i].token = out[j].token => i = j

\* The records of h have the grace period their tokens were rotated out with.
Matched(h) ==
  \A j \in DOMAIN h :
    \E i \in DOMAIN out : out[i].token = h[j].token /\ out[i].until = h[j].until

Matching ==
  /\ Matched(history)
  /\ \A r \in Rotators : pc[r] \in Halfway => Matched(local[r].history)

Apart == Lone /\ Faithful /\ Minting /\ Spent /\ Matching

ApartInv == "overlap" \notin faults => Apart

\* The node is starting while initialize() is under way.
Starting ==
  \A r \in Rotators : pc[r] \in {"initRead", "initPut", "initStamp"} => phase = "starting"

\* A validation under way: its token does not become current meanwhile.
Asking ==
  \A v \in Validators : pc[v] \in {"current", "history"} =>
    /\ phase = "up"
    /\ asked[v].token \in Rotators => pc[asked[v].token] = "done"
    /\ asked[v].was = "other" => ~IsCurrent(asked[v].token)

AskInv == "overlap" \notin faults => Starting /\ Asking

-----------------------------------------------------------------------------
\* f takes each record of h to the entry of o it stems from, in their order,
\* and misses none of the last MaxTokensKept that are in grace at time t.
Follows(h, o, t, f) ==
  /\ f \in [DOMAIN h -> DOMAIN o]
  /\ \A j, k \in DOMAIN h : j < k => f[j] < f[k]
  /\ \A j \in DOMAIN h : h[j].token = o[f[j]].token /\ h[j].until = o[f[j]].until
  /\ \A i \in DOMAIN o : i > Len(o) - MaxTokensKept /\ t < o[i].until =>
       \E j \in DOMAIN h : f[j] = i

Traced(h) == \E f \in [DOMAIN h -> DOMAIN out] : Follows(h, out, now, f)

\* What the one rotation has read is what there is.
Reading ==
  \A r \in Rotators :
    /\ pc[r] = "initPut" => ~HasCurrent
    /\ pc[r] \in {"readHistory", "putCurrent"} => local[r].current = current
    /\ pc[r] = "putCurrent" /\ current = Nothing => local[r].history = history
    /\ pc[r] = "putCurrent" /\ current # Nothing =>
         \E s \in Secondary : s.token = current.token /\ local[r].history = Append(history, s)

\* The history, or the one about to be put, follows the tokens rotated out.
Tracing ==
  /\ (\A r \in Rotators : pc[r] \notin Halfway) => Traced(history)
  /\ \A r \in Rotators : pc[r] \in Halfway => Traced(local[r].history)

\* The token returned last is current, but while another one is put.
Returning ==
  returned \in Rotators /\ (\A r \in Rotators : pc[r] \notin Halfway \cup {"initStamp"})
    => (current # Nothing => current.token = returned)

CleanInv == faults = {} => Reading /\ Tracing /\ Returning
-----------------------------------------------------------------------------
(***************************************************************************)
(* Stages and records                                                      *)
(***************************************************************************)

\* The constants, and that a task is either a rotation or a validation.
LEMMA Constants ==
  /\ \A r \in Rotators : r \in Tokens /\ r # Configured /\ r \notin Validators
  /\ Configured \in Tokens /\ Configured \notin Rotators /\ Nothing \notin Tokens
  /\ \A t \in Tokens : t \in Rotators \/ t = Configured
  /\ TokenTTL \in Nat /\ GracePeriod \in Nat /\ MaxTokensKept \in Nat \ {0}
BY TokenAssumption DEF TokenAssumption, Tokens

\* A task that goes to its next stage leaves the others where they are.
LEMMA GotoStage ==
  ASSUME DOMAIN pc = Rotators \cup Validators,
         NEW t \in Rotators \cup Validators, NEW stage, Goto(t, stage)
  PROVE  /\ DOMAIN pc' = Rotators \cup Validators
         /\ pc'[t] = stage
         /\ \A u \in (Rotators \cup Validators) \ {t} : pc'[u] = pc[u]
BY DEF Goto

\* A new record of a token.
LEMMA MintedActive ==
  ASSUME NEW t \in Tokens, now \in Nat
  PROVE  Minted(t) \in Active /\ Minted(t).token = t
BY Constants DEF Minted, Active

\* A record is not Nothing, whatever Nothing is.
LEMMA SomeRecord ==
  ASSUME NEW x \in Active \cup {Nothing}, x # Nothing
  PROVE  x \in Active /\ x.token \in Tokens /\ x.expiresAt \in Nat
BY DEF Active

\* What is kept of a history is part of it, and no more than the maximum.
LEMMA KeptRecords ==
  ASSUME NEW s \in Seq(Secondary)
  PROVE  /\ Kept(s) \in Seq(Secondary) /\ Len(Kept(s)) <= MaxTokensKept
         /\ \A k \in DOMAIN Kept(s) : \E i \in DOMAIN s : Kept(s)[k] = s[i]
<1> DEFINE I == LastPlaces(Live(s), MaxTokensKept)
<1>1. Len(s) \in Nat /\ DOMAIN s = 1 .. Len(s) /\ Live(s) \in SUBSET (1 .. Len(s))
  BY LenProperties DEF Live
<1>2. MaxTokensKept \in Nat
  BY Constants
<1>3. I \subseteq Live(s) /\ Cardinality(I) <= MaxTokensKept
  BY <1>1, <1>2, LastPlacesBound
<1>4. I \in SUBSET DOMAIN s /\ Kept(s) = Picked(s, I)
  BY <1>1, <1>3 DEF Kept
<1> HIDE DEF I
<1>5. /\ Kept(s) \in Seq(Secondary) /\ Len(Kept(s)) = Cardinality(I)
      /\ DOMAIN Kept(s) = 1 .. Cardinality(I)
      /\ \A k \in 1 .. Cardinality(I) : Nth(I, k) \in I /\ Kept(s)[k] = s[Nth(I, k)]
  BY <1>4, PickedElements
<1> QED
  BY <1>3, <1>4, <1>5

-----------------------------------------------------------------------------
(***************************************************************************)
(* Type correctness                                                        *)
(***************************************************************************)

\* What a rotation writes into its own records.
LEMMA LocalChange ==
  ASSUME local \in [Rotators -> Local], NEW r \in Rotators,
         NEW c \in Active \cup {Nothing}, NEW n \in Active \cup {Nothing}, NEW next,
         \/ next = [local EXCEPT ![r].current = c]
         \/ next = [local EXCEPT ![r].new = n]
  PROVE  /\ next \in [Rotators -> Local]
         /\ \A s \in Rotators \ {r} : next[s] = local[s]
<1>1. local[r] \in Local
  OBVIOUS
<1>2. \E l \in Local : next = [local EXCEPT ![r] = l]
  <2>1. CASE next = [local EXCEPT ![r].current = c]
    <3>1. next = [local EXCEPT ![r] = [local[r] EXCEPT !.current = c]]
      BY <2>1
    <3>2. [local[r] EXCEPT !.current = c] \in Local
      BY <1>1 DEF Local
    <3> QED
      BY <3>1, <3>2
  <2>2. CASE next = [local EXCEPT ![r].new = n]
    <3>1. next = [local EXCEPT ![r] = [local[r] EXCEPT !.new = n]]
      BY <2>2
    <3>2. [local[r] EXCEPT !.new = n] \in Local
      BY <1>1 DEF Local
    <3> QED
      BY <3>1, <3>2
  <2> QED
    BY <2>1, <2>2
<1> QED
  BY <1>2

\* The same when the history and the new token are written.
LEMMA NewRecords ==
  ASSUME local \in [Rotators -> Local], NEW r \in Rotators,
         NEW n \in Active, \E h \in Seq(Secondary) :
           local' = [local EXCEPT ![r].history = h, ![r].new = n]
  PROVE  /\ local' \in [Rotators -> Local]
         /\ \A s \in Rotators \ {r} : local'[s] = local[s]
<1>1. PICK h \in Seq(Secondary) : local' = [local EXCEPT ![r].history = h, ![r].new = n]
  OBVIOUS
<1>2. [local[r] EXCEPT !.history = h, !.new = n] \in Local
  BY DEF Local
<1>3. local' = [local EXCEPT ![r] = [local[r] EXCEPT !.history = h, !.new = n]]
  BY <1>1
<1> HIDE DEF Local
<1> QED
  BY <1>2, <1>3

\* The record a rotation adds to the history it has read.
LEMMA ReadHistoryTypes ==
  ASSUME Types, NEW r \in Rotators, ReadHistory(r)
  PROVE  /\ \E h \in Seq(Secondary) :
              local' = [local EXCEPT ![r].history = h, ![r].new = Minted(r)]
         /\ local'[r].new = Minted(r) /\ local'[r].current = local[r].current
         /\ \E read \in {history, <<>>} :
              /\ Got(read, history, <<>>)
              /\ local[r].current = Nothing => local'[r].history = read
              /\ local[r].current # Nothing =>
                   /\ local'[r].history # <<>>
                   /\ \E x \in Secondary : /\ x.token = local[r].current.token
                                           /\ local'[r].history = Append(read, x)
<1> USE Constants
<1> DEFINE old == local[r].current
           record == [token |-> old.token, expiresAt |-> old.expiresAt,
                      until |-> now + GracePeriod]
<1>1. /\ local \in [Rotators -> Local] /\ local[r] \in Local
      /\ old \in Active \cup {Nothing} /\ history \in Seq(Secondary) /\ now \in Nat
  BY DEF Types, TypeOK, Local
<1>2. PICK read \in {history, <<>>} :
        /\ Got(read, history, <<>>)
        /\ local' = [local EXCEPT ![r].history =
                        read \o (IF old = Nothing THEN <<>> ELSE <<record>>),
                      ![r].new = Minted(r)]
  BY DEF ReadHistory
<1>3. read \in Seq(Secondary)
  BY <1>1, <1>2, EmptySeq
<1>4. CASE old = Nothing
  <2>1. local' = [local EXCEPT ![r].history = read \o <<>>, ![r].new = Minted(r)]
    BY <1>2, <1>4
  <2>2. read \o <<>> = read
    BY <1>3, ConcatEmptySeq
  <2>3. /\ local' = [local EXCEPT ![r].history = read, ![r].new = Minted(r)]
        /\ local'[r].new = Minted(r) /\ local'[r].current = old /\ local'[r].history = read
    BY <1>1, <2>1, <2>2 DEF Local
  <2> QED
    BY <1>2, <1>3, <1>4, <2>3
<1>5. CASE old # Nothing
  <2>1. local' = [local EXCEPT ![r].history = read \o <<record>>, ![r].new = Minted(r)]
    BY <1>2, <1>5
  <2>2. record \in Secondary
    BY <1>1, <1>5, SomeRecord DEF Secondary
  <2>3. record.token = old.token
    OBVIOUS
  <2> HIDE DEF record
  <2>4. /\ read \o <<record>> = Append(read, record)
        /\ Append(read, record) \in Seq(Secondary) /\ Append(read, record) # <<>>
    BY <1>3, <2>2
  <2>5. /\ local' = [local EXCEPT ![r].history = Append(read, record), ![r].new = Minted(r)]
        /\ local'[r].new = Minted(r) /\ local'[r].current = old
        /\ local'[r].history = Append(read, record)
    BY <1>1, <2>1, <2>4 DEF Local
  <2> QED
    BY <1>2, <1>5, <2>2, <2>3, <2>4, <2>5
<1> QED
  BY <1>4, <1>5

\* An entry of a token that is replaced.
LEMMA ReplacedEntry ==
  ASSUME current \in Active \cup {Nothing}, current # Nothing, now \in Nat, NEW u \in Nat
  PROVE  /\ Replaced(u) \in Rotated
         /\ Replaced(u).token = current.token /\ Replaced(u).until = u /\ Replaced(u).at = now
<1>1. current.token \in Tokens
  BY SomeRecord
<1> QED
  BY <1>1 DEF Replaced, Rotated

\* The entry that is made of the token a rotation replaces.
LEMMA PutCurrentTypes ==
  ASSUME Types, Made, NEW r \in Rotators, PutCurrent(r)
  PROVE  /\ current' = local[r].new /\ local[r].new \in Active
         /\ local[r].new.token = r
         /\ out' \in Seq(Rotated)
         /\ current = Nothing => out' = out
         /\ current # Nothing =>
              GraceGiven(r) \in Nat /\ out' = Append(out, Replaced(GraceGiven(r)))
<1>1. /\ pc[r] = "putCurrent" /\ current' = local[r].new
      /\ local[r].new \in Active /\ local[r].new.token = r
      /\ local[r].history \in Seq(Secondary) /\ out \in Seq(Rotated) /\ now \in Nat
      /\ current \in Active \cup {Nothing}
  BY DEF PutCurrent, Types, TypeOK, Made, Rotated
<1>2. CASE current = Nothing
  BY <1>1, <1>2 DEF PutCurrent
<1>3. CASE current # Nothing
  <2> DEFINE made == local[r].history
  <2>1. out' = Append(out, Replaced(GraceGiven(r)))
    BY <1>3 DEF PutCurrent
  <2>2. GraceGiven(r) \in Nat
    <3>1. CASE local[r].current = current
      <4>1. made # <<>>
        BY <1>1, <1>3, <3>1 DEF Made
      <4>2. made[Len(made)] \in Secondary
        BY <1>1, <4>1, EmptySeq, LenProperties, ElementOfSeq
      <4>3. made[Len(made)].until \in Nat
        BY <4>2 DEF Secondary
      <4> QED
        BY <3>1, <4>3 DEF GraceGiven
    <3>2. CASE local[r].current # current
      BY <1>1, <3>2 DEF GraceGiven
    <3> QED
      BY <3>1, <3>2
  <2>3. Replaced(GraceGiven(r)) \in Rotated
    BY <1>1, <1>3, <2>2, ReplacedEntry
  <2> QED
    BY <1>1, <1>3, <2>1, <2>2, <2>3
<1> QED
  BY <1>2, <1>3

TaskStages ==
  /\ DOMAIN pc = Rotators \cup Validators
  /\ \A r \in Rotators : pc[r] \in RotatorStages
  /\ \A v \in Validators : pc[v] \in ValidatorStages

Stored ==
  /\ now \in Nat
  /\ current \in Active \cup {Nothing}
  /\ history \in Seq(Secondary) /\ Len(history) <= MaxTokensKept
  /\ last \in 0 .. now
  /\ out \in Seq(Rotated)
  /\ returned \in Tokens \cup {Nothing}

LEMMA TypesParts ==
  Types <=>
    /\ Stored /\ TaskStages
    /\ hasConfigured \in BOOLEAN /\ phase \in {"down", "starting", "up"} /\ faults \subseteq Faults
    /\ local \in [Rotators -> Local]
    /\ asked \in [Validators -> Question]
    /\ \A v \in Validators : asked[v].at <= now
<1>1. \A v \in Validators :
        asked[v] \in Question /\ asked[v].at <= now /\ now \in Nat
        <=> asked[v] \in [token : Tokens, at : 0 .. now, was : {"current", "other"}] /\ now \in Nat
  BY DEF Question
<1>2. local \in [Rotators -> Local] =>
        \A r \in Rotators : /\ local[r].current \in Active \cup {Nothing}
                            /\ local[r].history \in Seq(Secondary)
                            /\ local[r].new \in Active \cup {Nothing}
  BY DEF Local
<1> QED
  BY <1>1, <1>2 DEF Types, TypeOK, Stored, TaskStages, Rotated

\* Every step keeps the stages of the tasks.
LEMMA StagesStep ==
  ASSUME TaskStages, [Next]_vars
  PROVE  TaskStages'
<1> USE Constants
<1>1. ASSUME NEW r \in Rotators, NEW stage \in RotatorStages, Goto(r, stage)
      PROVE  TaskStages'
  BY <1>1, GotoStage DEF TaskStages
<1>2. ASSUME NEW v \in Validators, NEW stage \in ValidatorStages, Goto(v, stage)
      PROVE  TaskStages'
  BY <1>2, GotoStage DEF TaskStages
<1>3. ASSUME NEW r \in Rotators, Rotation(r) PROVE TaskStages'
  <2>1. \E stage \in RotatorStages : Goto(r, stage)
    BY <1>3
       DEF Rotation, BeginInit, InitRead, InitPut, InitStamp, BeginRotate, Check,
           ReadCurrent, ReadHistory, PutCurrent, PutLast, PutHistory, PutFails, RotatorStages
  <2> QED
    BY <1>1, <2>1
<1>4. ASSUME NEW v \in Validators, Validation(v) PROVE TaskStages'
  <2>1. \E stage \in ValidatorStages : Goto(v, stage)
    BY <1>4
       DEF Validation, BeginValidate, ValidateCurrent, ValidateHistory, ValidatorStages
  <2> QED
    BY <1>2, <2>1
<1>5. CASE Crash
  <2>1. pc' = [t \in Rotators \cup Validators |->
              IF t \in Rotators
              THEN IF Ended(t) THEN pc[t] ELSE "failed"
              ELSE IF pc[t] \in {"current", "history"} THEN "idle" ELSE pc[t]]
    BY <1>5 DEF Crash
  <2>2. \A r \in Rotators : pc'[r] \in RotatorStages
    BY <2>1 DEF TaskStages, RotatorStages
  <2>3. \A v \in Validators : pc'[v] \in ValidatorStages
    BY <2>1 DEF TaskStages, ValidatorStages
  <2> QED
    BY <2>1, <2>2, <2>3 DEF TaskStages
<1>6. CASE Tick \/ UNCHANGED vars
  BY <1>6 DEF Tick, vars, TaskStages
<1> QED
  BY <1>3, <1>4, <1>5, <1>6 DEF Next

\* Every step keeps the types of what is stored.
LEMMA StoredStep ==
  ASSUME Types, Made, [Next]_vars
  PROVE  Stored'
<1> USE Constants
<1>0. Stored /\ local \in [Rotators -> Local] /\ hasConfigured \in BOOLEAN
  BY TypesParts
<1>1. ASSUME UNCHANGED <<now, current, history, last, out, returned>> PROVE Stored'
  BY <1>0, <1>1 DEF Stored
<1>2. ASSUME NEW r \in Rotators, Rotation(r) PROVE Stored'
  <2>1. CASE InitRead(r)
    BY <1>0, <2>1 DEF InitRead, Stored
  <2>2. CASE InitPut(r)
    <3>1. local[r].new \in Active
      BY <2>2 DEF InitPut, Made
    <3>2. HasCurrent => Replaced(now) \in Rotated
      BY <1>0, ReplacedEntry DEF Stored, HasCurrent
    <3>3. out' \in Seq(Rotated)
      BY <1>0, <2>2, <3>2 DEF InitPut, Stored
    <3> QED
      BY <1>0, <2>2, <3>1, <3>3 DEF InitPut, Stored
  <2>6. CASE InitStamp(r)
    <3>1. local[r].new \in Active /\ local[r].new.token \in Tokens
      BY <2>6 DEF InitStamp, Made
    <3> QED
      BY <1>0, <2>6, <3>1 DEF InitStamp, Stored
  <2>3. CASE PutCurrent(r)
    BY <1>0, <2>3, PutCurrentTypes DEF PutCurrent, Stored
  <2>4. CASE PutLast(r)
    BY <1>0, <2>4 DEF PutLast, Stored
  <2>5. CASE PutHistory(r)
    <3>1. local[r].history \in Seq(Secondary)
      BY <1>0 DEF Local
    <3> QED
      BY <1>0, <2>5, <3>1, KeptRecords DEF PutHistory, Stored
  <2> QED
    BY <1>1, <1>2, <2>1, <2>2, <2>3, <2>4, <2>5, <2>6
       DEF Rotation, BeginInit, BeginRotate, Check, ReadCurrent, ReadHistory, PutFails
<1>3. ASSUME NEW v \in Validators, Validation(v) PROVE Stored'
  BY <1>1, <1>3 DEF Validation, BeginValidate, ValidateCurrent, ValidateHistory
<1>4. CASE Crash \/ UNCHANGED vars
  BY <1>1, <1>4 DEF Crash, vars
<1>5. CASE Tick
  BY <1>0, <1>5 DEF Tick, Stored
<1> QED
  BY <1>2, <1>3, <1>4, <1>5 DEF Next

\* Every step keeps the types of the rest.
LEMMA TypesStep ==
  ASSUME Types, Made, [Next]_vars
  PROVE  Types'
<1> USE Constants
<1>0. /\ Stored /\ local \in [Rotators -> Local] /\ hasConfigured \in BOOLEAN
      /\ phase \in {"down", "starting", "up"} /\ faults \subseteq Faults
      /\ TaskStages /\ now \in Nat
      /\ asked \in [Validators -> Question]
      /\ \A v \in Validators : asked[v].at <= now
  BY TypesParts DEF Stored
<1>1. Stored' /\ TaskStages'
  BY <1>0, StoredStep, StagesStep
<1>2. hasConfigured' \in BOOLEAN
  BY <1>0
     DEF Next, Rotation, Validation, BeginInit, InitRead, InitPut, InitStamp, BeginRotate,
         Check, ReadCurrent, ReadHistory, PutCurrent, PutLast, PutHistory, PutFails,
         BeginValidate, ValidateCurrent, ValidateHistory, Crash, Tick, vars, env
<1>3. phase' \in {"down", "starting", "up"} /\ faults' \subseteq Faults
  BY <1>0
     DEF Next, Rotation, Validation, BeginInit, InitRead, InitPut, InitStamp, BeginRotate,
         Check, ReadCurrent, ReadHistory, PutCurrent, PutLast, PutHistory, PutFails,
         BeginValidate, ValidateCurrent, ValidateHistory, Crash, Tick, vars, env, Happens, Got
<1>4. local' \in [Rotators -> Local]
  <2>1. ASSUME NEW r \in Rotators, ReadHistory(r) PROVE local' \in [Rotators -> Local]
    <3>1. Minted(r) \in Active
      BY <1>0, MintedActive
    <3> QED
      BY <1>0, <2>1, <3>1, ReadHistoryTypes, NewRecords
  <2>2. ASSUME NEW r \in Rotators, ReadCurrent(r) PROVE local' \in [Rotators -> Local]
    <3>1. \E c \in Active \cup {Nothing} : local' = [local EXCEPT ![r].current = c]
      BY <1>0, <2>2 DEF ReadCurrent, Stored
    <3> QED
      BY <1>0, <3>1, LocalChange
  <2>3. ASSUME NEW r \in Rotators, InitRead(r) PROVE local' \in [Rotators -> Local]
    <3>1. \A t \in Tokens : Minted(t) \in Active
      BY <1>0, MintedActive
    <3>2. UNCHANGED local \/ \E t \in Tokens : local' = [local EXCEPT ![r].new = Minted(t)]
      BY <2>3 DEF InitRead
    <3> QED
      BY <1>0, <3>1, <3>2, LocalChange
  <2> QED
    BY <1>0, <2>1, <2>2, <2>3
       DEF Next, Rotation, Validation, BeginInit, InitPut, InitStamp, BeginRotate,
           Check, PutCurrent, PutLast, PutHistory, PutFails,
           BeginValidate, ValidateCurrent, ValidateHistory, Crash, Tick, vars
<1>5. /\ asked' \in [Validators -> Question]
      /\ \A v \in Validators : asked'[v].at <= now'
  <2>1. ASSUME NEW v \in Validators, NEW t \in Tokens, BeginValidate(v, t)
        PROVE  /\ asked' \in [Validators -> Question]
               /\ \A w \in Validators : asked'[w].at <= now'
    <3> DEFINE q == [token |-> t, at |-> now,
                     was |-> IF IsCurrent(t) THEN "current" ELSE "other"]
    <3>1. q \in Question /\ q.at = now
      BY <1>0 DEF Question
    <3>2. asked' = [asked EXCEPT ![v] = q] /\ now' = now
      BY <2>1 DEF BeginValidate
    <3> HIDE DEF q
    <3> QED
      BY <1>0, <3>1, <3>2
  <2>2. CASE Tick
    <3>1. asked' = asked /\ now <= now'
      BY <1>0, <2>2 DEF Tick
    <3>2. \A v \in Validators : asked[v].at \in Nat
      BY <1>0 DEF Question
    <3>3. \A v \in Validators : asked[v].at <= now'
      BY <1>0, <2>2, <3>1, <3>2 DEF Tick
    <3> QED
      BY <1>0, <3>1, <3>3
  <2> QED
    BY <1>0, <2>1, <2>2
       DEF Next, Rotation, Validation, BeginInit, InitRead, InitPut, InitStamp, BeginRotate,
           Check, ReadCurrent, ReadHistory, PutCurrent, PutLast, PutHistory, PutFails,
           ValidateCurrent, ValidateHistory, Crash, vars
<1>6. (/\ Stored /\ TaskStages
       /\ hasConfigured \in BOOLEAN /\ phase \in {"down", "starting", "up"} /\ faults \subseteq Faults
       /\ local \in [Rotators -> Local]
       /\ asked \in [Validators -> Question]
       /\ \A v \in Validators : asked[v].at <= now)' => Types'
  BY TypesParts, PTL
<1> QED
  BY <1>1, <1>2, <1>3, <1>4, <1>5, <1>6

\* Every step keeps what the tasks have made.
LEMMA MadeStep ==
  ASSUME Types, Made, [Next]_vars
  PROVE  Made'
<1> USE Constants
<1>0. /\ local \in [Rotators -> Local] /\ TaskStages /\ now \in Nat /\ history \in Seq(Secondary)
      /\ DOMAIN pc = Rotators \cup Validators /\ hasConfigured \in BOOLEAN
  BY TypesParts DEF TaskStages, Stored
<1>1. ASSUME NEW v \in Validators, NEW stage, Goto(v, stage), UNCHANGED local PROVE Made'
  BY <1>0, <1>1, GotoStage DEF Made
<1>2. ASSUME NEW r \in Rotators, NEW stage, Goto(r, stage), UNCHANGED local,
             \/ stage \in {"idle", "initRead", "check", "readCurrent", "readHistory", "done", "failed"}
             \/ pc[r] = "initPut" /\ stage = "initStamp"
             \/ pc[r] = "putCurrent" /\ stage = "putLast"
             \/ pc[r] = "putLast" /\ stage = "putHistory"
      PROVE  Made'
  BY <1>0, <1>2, GotoStage DEF Made
<1>3. ASSUME NEW r \in Rotators, Rotation(r) PROVE Made'
  <2>1. CASE InitRead(r)
    <3>1. CASE UNCHANGED local /\ \E stage \in {"done", "readCurrent"} : Goto(r, stage)
      BY <1>2, <3>1
    <3>2. CASE Goto(r, "initPut")
      <4>1. \E t \in {r, Configured} : local' = [local EXCEPT ![r].new = Minted(t)]
        <5>1. pc'[r] = "initPut"
          BY <1>0, <3>2, GotoStage
        <5>2. ~Goto(r, "done") /\ ~Goto(r, "readCurrent")
          BY <1>0, <5>1, GotoStage
        <5> QED
          BY <2>1, <5>2 DEF InitRead
      <4>2. \A t \in {r, Configured} : Minted(t) \in Active /\ Minted(t).token = t
        BY <1>0, MintedActive
      <4>3. local'[r].new \in Active /\ local'[r].new.token \in {r, Configured}
              /\ \A s \in Rotators \ {r} : local'[s] = local[s]
        BY <1>0, <4>1, <4>2 DEF Local
      <4> QED
        BY <1>0, <3>2, <4>3, GotoStage DEF Made
    <3> QED
      BY <2>1, <3>1, <3>2 DEF InitRead
  <2>2. CASE ReadCurrent(r)
    <3>1. /\ Goto(r, "readHistory")
          /\ \A s \in Rotators \ {r} : local'[s] = local[s]
      BY <1>0, <2>2 DEF ReadCurrent
    <3> QED
      BY <1>0, <3>1, GotoStage DEF Made
  <2>3. CASE ReadHistory(r)
    <3>1. /\ Goto(r, "putCurrent")
          /\ local'[r].new = Minted(r)
          /\ local'[r].current # Nothing => local'[r].history # <<>>
      BY <1>0, <2>3, ReadHistoryTypes DEF ReadHistory
    <3>2. Minted(r) \in Active /\ Minted(r).token = r
      BY <1>0, MintedActive
    <3>3. \A s \in Rotators \ {r} : local'[s] = local[s]
      BY <1>0, <2>3, <3>2, ReadHistoryTypes, NewRecords
    <3> QED
      BY <1>0, <3>1, <3>2, <3>3, GotoStage DEF Made
  <2> QED
    BY <1>2, <1>3, <2>1, <2>2, <2>3
       DEF Rotation, BeginInit, InitPut, InitStamp, BeginRotate, Check, PutCurrent,
           PutLast, PutHistory, PutFails
<1>4. ASSUME NEW v \in Validators, Validation(v) PROVE Made'
  BY <1>1, <1>4 DEF Validation, BeginValidate, ValidateCurrent, ValidateHistory
<1>5. CASE Crash
  <2>1. \A r \in Rotators : pc'[r] \in {"idle", "done", "failed"}
    BY <1>5 DEF Crash, Ended
  <2> QED
    BY <2>1 DEF Made
<1>6. CASE Tick \/ UNCHANGED vars
  BY <1>6 DEF Tick, vars, Made
<1> QED
  BY <1>3, <1>4, <1>5, <1>6 DEF Next

\* A node that has not started.
LEMMA InitTypes == Init => Types /\ Made
<1> SUFFICES ASSUME Init PROVE Types /\ Made
  OBVIOUS
<1> USE Constants
<1>1. Stored
  BY EmptySeq DEF Init, Stored
<1>2. TaskStages
  BY DEF Init, TaskStages, RotatorStages, ValidatorStages
<1>3. local \in [Rotators -> Local]
  BY EmptySeq DEF Init, Local, Fresh
<1>4. /\ asked \in [Validators -> Question]
      /\ \A v \in Validators : asked[v].at <= now
  BY DEF Init, Unasked, Question
<1>5. hasConfigured \in BOOLEAN /\ phase \in {"down", "starting", "up"} /\ faults \subseteq Faults
  BY DEF Init
<1>6. Types
  BY <1>1, <1>2, <1>3, <1>4, <1>5, TypesParts
<1>7. Made
  BY DEF Init, Made
<1> QED
  BY <1>6, <1>7

LEMMA TypesInvariant == Spec => [](Types /\ Made)
  BY InitTypes, TypesStep, MadeStep, PTL DEF Spec

\* Every record keeps its type, and the history its bound, whatever overlaps,
\* fails or crashes.
THEOREM TypeCorrect == Spec => []TypeOK
<1>1. Types => TypeOK
  BY DEF Types
<1> QED
  BY <1>1, TypesInvariant, PTL
-----------------------------------------------------------------------------
(***************************************************************************)
(* Rotations that do not overlap                                           *)
(***************************************************************************)

\* While one rotation takes a step, all the others have ended or not begun.
LEMMA OthersEnded ==
  ASSUME Types, Lone, NEW r \in Rotators, Rotation(r), "overlap" \notin faults'
  PROVE  \A s \in Rotators \ {r} : Ended(s) /\ pc'[s] = pc[s] /\ Ended(s)'
<1> USE Constants
<1>1. DOMAIN pc = Rotators \cup Validators
  BY DEF Types
<1>2. \E stage : Goto(r, stage)
  BY DEF Rotation, BeginInit, InitRead, InitPut, InitStamp, BeginRotate, Check,
         ReadCurrent, ReadHistory, PutCurrent, PutLast, PutHistory, PutFails
<1>3. \A s \in Rotators \ {r} : pc'[s] = pc[s]
  BY <1>1, <1>2, GotoStage
<1>4. \/ ~Ended(r)
      \/ BeginInit(r) /\ phase = "down"
      \/ BeginRotate(r) /\ Quiet
  <2>1. BeginRotate(r) => Quiet
    BY DEF BeginRotate, Happens
  <2> QED
    BY <2>1
       DEF Rotation, BeginInit, InitRead, InitPut, InitStamp, Check, ReadCurrent,
           ReadHistory, PutCurrent, PutLast, PutHistory, PutFails, Ended
<1>5. \A s \in Rotators \ {r} : Ended(s)
  BY <1>4 DEF Lone, Quiet
<1> QED
  BY <1>3, <1>5 DEF Ended

\* A step of the rotations keeps them apart, unless it is one that overlaps.
LEMMA LoneStep ==
  ASSUME Types, Lone, [Next]_vars, "overlap" \notin faults'
  PROVE  Lone'
<1> USE Constants
<1>0. DOMAIN pc = Rotators \cup Validators /\ phase \in {"down", "starting", "up"}
  BY TypesParts DEF TaskStages
<1>1. ASSUME NEW r \in Rotators, Rotation(r) PROVE Lone'
  <2>1. \A s \in Rotators \ {r} : Ended(s)'
    BY <1>1, OthersEnded
  <2>2. phase' = "down" => Ended(r)'
    <3>1. CASE PutFails(r)
      <4>1. pc'[r] = "failed"
        BY <1>0, <3>1, GotoStage DEF PutFails
      <4> QED
        BY <4>1 DEF Ended
    <3>2. CASE ~PutFails(r)
      <4>1. phase' # "down"
        <5>1. phase = "down" => Ended(r)
          BY DEF Lone, Quiet
        <5> QED
          BY <1>1, <3>2, <5>1
             DEF Rotation, BeginInit, InitRead, InitPut, InitStamp, BeginRotate, Check,
                 ReadCurrent, ReadHistory, PutCurrent, PutLast, PutHistory, Ended
      <4> QED
        BY <4>1
    <3> QED
      BY <3>1, <3>2
  <2> QED
    BY <2>1, <2>2 DEF Lone, Quiet
<1>2. ASSUME NEW v \in Validators, Validation(v) PROVE Lone'
  <2>1. phase' = phase /\ \E stage : Goto(v, stage)
    BY <1>2 DEF Validation, BeginValidate, ValidateCurrent, ValidateHistory
  <2>2. \A r \in Rotators : pc'[r] = pc[r]
    BY <1>0, <2>1, GotoStage
  <2> QED
    BY <2>1, <2>2 DEF Lone, Quiet, Ended
<1>3. CASE Crash
  <2>1. \A r \in Rotators : Ended(r)'
    BY <1>3 DEF Crash, Ended
  <2> QED
    BY <2>1 DEF Lone, Quiet
<1>4. CASE Tick \/ UNCHANGED vars
  BY <1>4 DEF Tick, vars, Lone, Quiet, Ended
<1> QED
  BY <1>1, <1>2, <1>3, <1>4 DEF Next

\* A step that only ends rotations, or concerns none of them.
LEMMA NothingPut ==
  ASSUME Apart, Types, UNCHANGED <<current, history, local, out>>,
         \A r \in Rotators : pc'[r] = pc[r] \/ pc'[r] = "failed"
  PROVE  Faithful' /\ Minting' /\ Spent' /\ Matching'
<1>1. Faithful'
  BY DEF Apart, Faithful
<1>2. Minting'
  BY DEF Apart, Minting, Past
<1>3. Spent'
  BY DEF Apart, Spent
<1>4. Matching'
  BY DEF Apart, Matching, Matched, Halfway
<1> QED
  BY <1>1, <1>2, <1>3, <1>4

\* A step of the one rotation that leaves the current token and the tokens
\* rotated out alone.
LEMMA TokenKept ==
  ASSUME Apart, Types, NEW r \in Rotators, UNCHANGED <<current, out>>,
         \A s \in Rotators \ {r} : pc'[s] = pc[s],
         pc[r] \in Past => pc'[r] \in Past
  PROVE  Minting' /\ Spent'
<1>1. Minting'
  BY DEF Apart, Minting
<1>2. Spent'
  BY DEF Apart, Spent
<1> QED
  BY <1>1, <1>2
\* The one rotation, or initialize(), replaces the current token.
LEMMA TokenReplaced ==
  ASSUME Types, Apart, NEW r \in Rotators,
         \A s \in Rotators \ {r} : pc'[s] = pc[s],
         pc[r] \notin Past, pc'[r] \in Past,
         current' \in Active, current'.token \in {r, Configured},
         \/ UNCHANGED out
         \/ current # Nothing /\ \E u \in Nat : out' = Append(out, Replaced(u))
  PROVE  /\ Minting' /\ Spent'
         /\ \A i \in DOMAIN out : i \in DOMAIN out' /\ out'[i] = out[i]
<1> USE Constants
<1>0. /\ out \in Seq(Rotated) /\ now \in Nat /\ current \in Active \cup {Nothing}
  BY TypesParts DEF Stored
<1>1. /\ \A i \in DOMAIN out : out[i].token # r
      /\ current # Nothing => current.token # r
  BY DEF Apart, Minting
<1>2. CASE UNCHANGED out
  <2>1. Minting'
    BY <1>1, <1>2 DEF Apart, Minting
  <2>2. Spent'
    BY <1>1, <1>2 DEF Apart, Spent
  <2> QED
    BY <1>2, <2>1, <2>2
<1>3. ASSUME current # Nothing, NEW u \in Nat, out' = Append(out, Replaced(u))
      PROVE  /\ Minting' /\ Spent'
             /\ \A i \in DOMAIN out : i \in DOMAIN out' /\ out'[i] = out[i]
  <2> DEFINE entry == Replaced(u)
  <2>1. entry.token = current.token
    BY <1>0, <1>3, ReplacedEntry
  <2>2. /\ Len(out) \in Nat /\ DOMAIN out = 1 .. Len(out)
        /\ DOMAIN out' = 1 .. Len(out) + 1 /\ out'[Len(out) + 1] = entry
        /\ \A i \in DOMAIN out : out'[i] = out[i]
    BY <1>0, <1>3, LenProperties
  <2> HIDE DEF entry
  <2>3. \A i \in DOMAIN out' : i \in DOMAIN out \/ i = Len(out) + 1
    BY <2>2
  <2>4. ASSUME NEW i \in DOMAIN out', out'[i].token \in Rotators
        PROVE  pc'[out'[i].token] \in Past
    <3>1. CASE i \in DOMAIN out
      BY <1>1, <2>2, <2>4, <3>1 DEF Apart, Minting
    <3>2. CASE i = Len(out) + 1
      BY <1>1, <1>3, <2>1, <2>2, <2>4, <3>2 DEF Apart, Minting
    <3> QED
      BY <2>3, <3>1, <3>2
  <2>5. Minting'
    BY <2>4 DEF Minting
  <2>6. ASSUME NEW i \in DOMAIN out', out'[i].token \in Rotators
        PROVE  current'.token # out'[i].token
    BY <1>1, <1>3, <2>1, <2>2, <2>3, <2>6
  <2>7. ASSUME NEW i \in DOMAIN out', NEW j \in DOMAIN out',
               out'[i].token \in Rotators, out'[i].token = out'[j].token
        PROVE  i = j
    <3>1. \A l \in DOMAIN out : out[l].token \in Rotators => out[l].token # current.token
      BY <1>3 DEF Apart, Spent
    <3>2. CASE i \in DOMAIN out /\ j \in DOMAIN out
      BY <2>2, <2>7, <3>2 DEF Apart, Spent
    <3>3. CASE ~(i \in DOMAIN out /\ j \in DOMAIN out)
      BY <2>1, <2>2, <2>3, <2>7, <3>1, <3>3
    <3> QED
      BY <3>2, <3>3
  <2>8. Spent'
    BY <2>6, <2>7 DEF Spent
  <2>9. \A i \in DOMAIN out : i \in DOMAIN out' /\ out'[i] = out[i]
    BY <2>2
  <2> QED
    BY <2>5, <2>8, <2>9
<1> QED
  BY <1>2, <1>3

\* A history that matches still does when more tokens have been rotated out.
LEMMA MatchedLater ==
  ASSUME NEW h, Matched(h), \A i \in DOMAIN out : i \in DOMAIN out' /\ out'[i] = out[i]
  PROVE  \A j \in DOMAIN h :
           \E i \in DOMAIN out' : out'[i].token = h[j].token /\ out'[i].until = h[j].until
BY DEF Matched

\* The one rotation replaces the current token, which is rotated out with the
\* grace period of the record that it has added to the history.
LEMMA PutCurrentApart ==
  ASSUME Types, Made, Apart, NEW r \in Rotators, PutCurrent(r),
         \A s \in Rotators \ {r} : Ended(s) /\ pc'[s] = pc[s] /\ Ended(s)'
  PROVE  /\ Faithful' /\ Minting' /\ Spent' /\ Matching'
         /\ current = Nothing => out' = out
         /\ \A s \in Secondary, h \in Seq(Secondary) :
              /\ current # Nothing /\ local[r].current = current
              /\ s.token = current.token /\ local[r].history = Append(h, s)
              => out' = Append(out, Replaced(s.until))
<1> USE Constants
<1>0. /\ DOMAIN pc = Rotators \cup Validators /\ history \in Seq(Secondary)
      /\ out \in Seq(Rotated) /\ now \in Nat /\ current \in Active \cup {Nothing}
  BY TypesParts DEF TaskStages, Stored
<1>1. /\ pc[r] = "putCurrent" /\ pc'[r] = "putLast" /\ UNCHANGED <<history, local>>
      /\ current' = local[r].new /\ current' \in Active /\ current'.token = r
  BY <1>0, GotoStage, PutCurrentTypes DEF PutCurrent
<1>2. /\ current = Nothing => UNCHANGED out
      /\ current # Nothing => GraceGiven(r) \in Nat /\ out' = Append(out, Replaced(GraceGiven(r)))
  BY PutCurrentTypes
<1>3. Faithful'
  BY <1>1 DEF Faithful, Ended
<1>4. /\ Minting' /\ Spent'
      /\ \A i \in DOMAIN out : i \in DOMAIN out' /\ out'[i] = out[i]
  <2>1. pc[r] \notin Past /\ pc'[r] \in Past /\ current'.token \in {r, Configured}
    BY <1>1 DEF Past
  <2>2. \/ UNCHANGED out
        \/ current # Nothing /\ \E u \in Nat : out' = Append(out, Replaced(u))
    BY <1>2
  <2> QED
    BY <1>1, <2>1, <2>2, TokenReplaced
<1>5. ASSUME NEW s \in Secondary, NEW h \in Seq(Secondary), current # Nothing,
             local[r].current = current, local[r].history = Append(h, s)
      PROVE  out' = Append(out, Replaced(s.until))
  <2>1. local[r].history[Len(local[r].history)] = s
    BY <1>5
  <2>2. GraceGiven(r) = s.until
    BY <1>5, <2>1 DEF GraceGiven
  <2> QED
    BY <1>2, <1>5, <2>2
<1>6. Matched(history)'
  BY <1>1, <1>4, MatchedLater DEF Apart, Matching, Matched
<1>7. \A h \in {history, <<>>} : h \in Seq(Secondary) /\ Matched(h)
  <2>1. Matched(<<>>)
    BY DEF Matched
  <2> QED
    BY <1>0, <2>1, EmptySeq DEF Apart, Matching
<1>8. Matched(local[r].history)'
  <2>1. CASE local[r].current = Nothing
    <3>1. Matched(local[r].history)
      BY <1>1, <1>7, <2>1 DEF Apart, Faithful
    <3> QED
      BY <1>1, <1>4, <3>1, MatchedLater DEF Matched
  <2>2. CASE local[r].current # Nothing
    <3>1. local[r].current = current /\ current # Nothing
      BY <1>1, <2>2 DEF Apart, Faithful
    <3>2. PICK s \in Secondary, h \in {history, <<>>} :
            s.token = current.token /\ local[r].history = Append(h, s)
      BY <1>1, <2>2 DEF Apart, Faithful
    <3>3. h \in Seq(Secondary) /\ Matched(h)
      BY <1>7, <3>2
    <3>4. out' = Append(out, Replaced(s.until))
      BY <1>5, <3>1, <3>2, <3>3
    <3>5. Replaced(s.until).token = s.token /\ Replaced(s.until).until = s.until
      <4>1. s.until \in Nat
        BY DEF Secondary
      <4> QED
        BY <1>0, <3>1, <3>2, <4>1, ReplacedEntry
    <3>6. /\ Len(out) + 1 \in DOMAIN out' /\ out'[Len(out) + 1] = Replaced(s.until)
      <4> DEFINE entry == Replaced(s.until)
      <4>1. out' = Append(out, entry)
        BY <3>4
      <4> HIDE DEF entry
      <4>2. Len(out) + 1 \in DOMAIN out' /\ out'[Len(out) + 1] = entry
        BY <1>0, <4>1, LenProperties
      <4> QED
        BY <4>2 DEF entry
    <3>7. \A j \in DOMAIN Append(h, s) :
            \/ j \in DOMAIN h /\ Append(h, s)[j] = h[j]
            \/ Append(h, s)[j] = s
      BY <3>3, LenProperties
    <3>8. \A j \in DOMAIN h :
            \E i \in DOMAIN out' : out'[i].token = h[j].token /\ out'[i].until = h[j].until
      BY <1>4, <3>3, MatchedLater
    <3>9. local'[r].history = Append(h, s)
      BY <1>1, <3>2
    <3> QED
      BY <3>5, <3>6, <3>7, <3>8, <3>9 DEF Matched
  <2> QED
    BY <2>1, <2>2
<1>9. Matching'
  <2>1. \A q \in Rotators \ {r} : pc'[q] \notin Halfway
    BY DEF Halfway, Ended
  <2> QED
    BY <1>6, <1>8, <2>1 DEF Matching
<1> QED
  BY <1>2, <1>3, <1>4, <1>5, <1>9

\* Every other step of the one rotation.
LEMMA RotationApart ==
  ASSUME Types, Made, Apart, NEW r \in Rotators, Rotation(r), "overlap" \notin faults'
  PROVE  Faithful' /\ Minting' /\ Spent' /\ Matching'
<1> USE Constants
<1>0. /\ DOMAIN pc = Rotators \cup Validators
      /\ local \in [Rotators -> Local] /\ current \in Active \cup {Nothing} /\ now \in Nat
  BY TypesParts DEF TaskStages, Stored
<1>1. \A s \in Rotators \ {r} : Ended(s) /\ pc'[s] = pc[s] /\ Ended(s)'
  BY OthersEnded DEF Apart
<1>2. ASSUME UNCHANGED <<current, out, history>>, pc'[r] \notin Halfway,
             pc[r] \in Past => pc'[r] \in Past
      PROVE  Minting' /\ Spent' /\ Matching'
  <2>1. Minting' /\ Spent'
    BY <1>1, <1>2, TokenKept
  <2>2. Matching'
    <3>1. Matched(history)'
      BY <1>2 DEF Apart, Matching, Matched
    <3>2. \A s \in Rotators : pc'[s] \notin Halfway
      BY <1>1, <1>2 DEF Halfway, Ended
    <3> QED
      BY <3>1, <3>2 DEF Matching
  <2> QED
    BY <2>1, <2>2
<1>3. CASE BeginInit(r) \/ InitRead(r) \/ BeginRotate(r) \/ Check(r)
  <2>1. /\ UNCHANGED <<current, out, history>>
        /\ pc[r] \in {"idle", "initRead", "check"}
        /\ \E stage \in {"initRead", "initPut", "check", "readCurrent", "done"} : Goto(r, stage)
    BY <1>3 DEF BeginInit, InitRead, BeginRotate, Check
  <2>2. pc'[r] \in {"initRead", "initPut", "check", "readCurrent", "done"}
    BY <1>0, <2>1, GotoStage
  <2>3. Faithful'
    BY <1>1, <2>2 DEF Faithful, Ended
  <2> QED
    BY <1>2, <2>1, <2>2, <2>3 DEF Halfway, Past
<1>4. CASE InitPut(r)
  <2>1. /\ current' = local[r].new /\ UNCHANGED <<history, local>>
        /\ pc[r] = "initPut" /\ pc'[r] = "initStamp"
        /\ current' \in Active /\ current'.token \in {r, Configured}
    BY <1>0, <1>4, GotoStage DEF InitPut, Made
  <2>2. Faithful'
    BY <1>1, <2>1 DEF Faithful, Ended
  <2>3. /\ Minting' /\ Spent'
        /\ \A i \in DOMAIN out : i \in DOMAIN out' /\ out'[i] = out[i]
    <3>1. \/ UNCHANGED out
          \/ current # Nothing /\ \E u \in Nat : out' = Append(out, Replaced(u))
      BY <1>0, <1>4 DEF InitPut, HasCurrent
    <3>2. pc[r] \notin Past /\ pc'[r] \in Past
      BY <2>1 DEF Past
    <3> QED
      BY <1>1, <2>1, <3>1, <3>2, TokenReplaced
  <2>4. Matched(history)'
    BY <2>1, <2>3, MatchedLater DEF Apart, Matching, Matched
  <2>5. Matching'
    BY <1>1, <2>1, <2>4 DEF Matching, Halfway, Ended
  <2> QED
    BY <2>2, <2>3, <2>5
<1>5. CASE InitStamp(r)
  <2>1. UNCHANGED <<current, out, history>> /\ pc'[r] = "done"
    BY <1>0, <1>5, GotoStage DEF InitStamp
  <2>2. Faithful'
    BY <1>1, <2>1 DEF Faithful, Ended
  <2> QED
    BY <1>2, <2>1, <2>2 DEF Halfway, Past
<1>6. CASE ReadCurrent(r)
  <2>1. /\ UNCHANGED <<current, out, history>> /\ pc[r] = "readCurrent"
        /\ pc'[r] = "readHistory" /\ local'[r].current \in {current, Nothing}
    BY <1>0, <1>6, GotoStage DEF ReadCurrent, Local
  <2>2. Faithful'
    BY <1>1, <2>1 DEF Faithful, Ended
  <2> QED
    BY <1>2, <2>1, <2>2 DEF Halfway, Past
<1>7. CASE ReadHistory(r)
  <2>1. UNCHANGED <<current, out, history>> /\ pc[r] = "readHistory" /\ pc'[r] = "putCurrent"
    BY <1>0, <1>7, GotoStage DEF ReadHistory
  <2>2. local[r].current \in {current, Nothing}
    BY <2>1 DEF Apart, Faithful
  <2>3. /\ local'[r].current = local[r].current
        /\ local[r].current = Nothing => local'[r].history \in {history, <<>>}
        /\ local[r].current # Nothing => \E x \in Secondary, h \in {history, <<>>} :
             x.token = current.token /\ local'[r].history = Append(h, x)
    BY <1>7, <2>2, ReadHistoryTypes
  <2>4. ASSUME NEW s \in Rotators \ {r}
        PROVE  pc'[s] \in {"idle", "done", "failed"}
    BY <1>1 DEF Ended
  <2>5. Faithful'
    BY <2>1, <2>2, <2>3, <2>4 DEF Faithful
  <2> QED
    BY <1>2, <2>1, <2>5 DEF Halfway, Past
<1>8. CASE PutCurrent(r)
  BY <1>1, <1>8, PutCurrentApart
<1>9. CASE PutLast(r)
  <2>1. /\ UNCHANGED <<current, out, history, local>>
        /\ pc[r] = "putLast" /\ pc'[r] = "putHistory"
    BY <1>0, <1>9, GotoStage DEF PutLast
  <2>2. Faithful'
    BY <1>1, <2>1 DEF Apart, Faithful, Ended
  <2>3. Minting' /\ Spent'
    BY <1>1, <2>1, TokenKept DEF Past
  <2>4. Matching'
    BY <1>1, <2>1 DEF Apart, Matching, Matched, Halfway, Ended
  <2> QED
    BY <2>2, <2>3, <2>4
<1>10. CASE PutHistory(r)
  <2>1. /\ UNCHANGED <<current, out, local>> /\ history' = Kept(local[r].history)
        /\ pc[r] = "putHistory" /\ pc'[r] = "done"
    BY <1>0, <1>10, GotoStage DEF PutHistory
  <2>2. Faithful'
    BY <1>1, <2>1 DEF Faithful, Ended
  <2>3. Minting' /\ Spent'
    BY <1>1, <2>1, TokenKept DEF Past
  <2>4. Matched(history)'
    <3>1. Matched(local[r].history) /\ local[r].history \in Seq(Secondary)
      BY <1>0, <2>1 DEF Apart, Matching, Halfway, Local
    <3>2. \A k \in DOMAIN history' : \E i \in DOMAIN local[r].history :
            history'[k] = local[r].history[i]
      BY <2>1, <3>1, KeptRecords
    <3> QED
      BY <2>1, <3>1, <3>2 DEF Matched
  <2>5. Matching'
    BY <1>1, <2>1, <2>4 DEF Matching, Halfway, Ended
  <2> QED
    BY <2>2, <2>3, <2>5
<1>11. CASE PutFails(r)
  <2>1. UNCHANGED <<current, history, local, out>> /\ pc'[r] = "failed"
    BY <1>0, <1>11, GotoStage DEF PutFails
  <2> QED
    BY <1>1, <2>1, NothingPut
<1> QED
  BY <1>3, <1>4, <1>5, <1>6, <1>7, <1>8, <1>9, <1>10, <1>11 DEF Rotation

\* What has happened is not forgotten.
LEMMA FaultsGrow ==
  ASSUME [Next]_vars
  PROVE  faults \subseteq faults'
BY DEF Next, Rotation, Validation, BeginInit, InitRead, InitPut, InitStamp, BeginRotate,
       Check, ReadCurrent, ReadHistory, PutCurrent, PutLast, PutHistory, PutFails,
       BeginValidate, ValidateCurrent, ValidateHistory, Crash, Tick, vars, env, Happens, Got

\* Every step keeps the rotations apart, until some overlap.
LEMMA ApartStep ==
  ASSUME Types, Made, ApartInv, [Next]_vars
  PROVE  ApartInv'
<1> USE Constants
<1> SUFFICES ASSUME "overlap" \notin faults' PROVE Apart'
  BY DEF ApartInv
<1>0. Apart /\ DOMAIN pc = Rotators \cup Validators
  BY FaultsGrow, TypesParts DEF ApartInv, TaskStages
<1>1. Lone'
  BY <1>0, LoneStep DEF Apart
<1>2. ASSUME NEW r \in Rotators, Rotation(r) PROVE Apart'
  BY <1>0, <1>1, <1>2, RotationApart DEF Apart
<1>3. ASSUME UNCHANGED <<current, history, local, out>>,
             \A r \in Rotators : pc'[r] = pc[r] \/ pc'[r] = "failed"
      PROVE  Apart'
  BY <1>0, <1>1, <1>3, NothingPut DEF Apart
<1>4. ASSUME NEW v \in Validators, Validation(v) PROVE Apart'
  <2>1. UNCHANGED <<current, history, local, out>> /\ \E stage : Goto(v, stage)
    BY <1>4 DEF Validation, BeginValidate, ValidateCurrent, ValidateHistory
  <2>2. \A r \in Rotators : pc'[r] = pc[r]
    BY <1>0, <2>1, GotoStage
  <2> QED
    BY <1>3, <2>1, <2>2
<1>5. CASE Crash \/ Tick \/ UNCHANGED vars
  <2>1. UNCHANGED <<current, history, local, out>>
    BY <1>5 DEF Crash, Tick, vars
  <2>2. \A r \in Rotators : pc'[r] = pc[r] \/ pc'[r] = "failed"
    BY <1>5 DEF Crash, Tick, vars
  <2> QED
    BY <1>3, <2>1, <2>2
<1> QED
  BY <1>2, <1>4, <1>5 DEF Next

LEMMA InitApart == Init => ApartInv
<1> SUFFICES ASSUME Init PROVE Apart
  BY DEF ApartInv
<1>1. Lone /\ Faithful
  BY DEF Init, Lone, Faithful, Quiet, Ended
<1>2. DOMAIN out = {} /\ DOMAIN history = {} /\ current = Nothing
  BY DEF Init
<1>3. Minting /\ Spent
  BY <1>2 DEF Minting, Spent
<1>4. Matching
  BY <1>2 DEF Init, Matching, Matched, Halfway
<1> QED
  BY <1>1, <1>3, <1>4 DEF Apart

LEMMA ApartInvariant == Spec => []ApartInv
  BY InitApart, ApartStep, TypesInvariant, PTL DEF Spec
-----------------------------------------------------------------------------
(***************************************************************************)
(* No grace period outlasts its end                                        *)
(***************************************************************************)

\* The entries of the tokens rotated out stay, and a new one has the time of
\* the step that makes it.
LEMMA OutGrows ==
  ASSUME Types, Made, [Next]_vars, NEW i \in DOMAIN out'
  PROVE  \/ i \in DOMAIN out /\ out'[i] = out[i]
         \/ out'[i].at = now /\ UNCHANGED asked /\ \A v \in Validators : pc'[v] = pc[v]
<1> USE Constants
<1>0. DOMAIN pc = Rotators \cup Validators /\ out \in Seq(Rotated)
  BY TypesParts DEF TaskStages, Stored
<1>1. CASE UNCHANGED out
  BY <1>1
<1>2. CASE ~UNCHANGED out
  <2>1. PICK r \in Rotators : InitPut(r) \/ PutCurrent(r)
    BY <1>2
       DEF Next, Rotation, Validation, BeginInit, InitRead, InitStamp, BeginRotate,
           Check, ReadCurrent, ReadHistory, PutLast, PutHistory, PutFails,
           BeginValidate, ValidateCurrent, ValidateHistory, Crash, Tick, vars
  <2>2. \E e : e.at = now /\ out' = Append(out, e)
    <3>1. \E u : out' = Append(out, Replaced(u))
      BY <1>2, <2>1 DEF InitPut, PutCurrent
    <3>2. \A u : Replaced(u).at = now
      BY DEF Replaced
    <3> QED
      BY <3>1, <3>2
  <2>3. UNCHANGED asked /\ \A v \in Validators : pc'[v] = pc[v]
    BY <1>0, <2>1, GotoStage DEF InitPut, PutCurrent
  <2>4. (i \in DOMAIN out /\ out'[i] = out[i]) \/ out'[i].at = now
    <3>1. PICK e : e.at = now /\ out' = Append(out, e)
      BY <2>2
    <3>2. Len(out) \in Nat /\ DOMAIN out = 1 .. Len(out)
      BY <1>0, LenProperties
    <3>3. /\ DOMAIN out' = 1 .. Len(out) + 1 /\ out'[Len(out) + 1] = e
          /\ \A j \in 1 .. Len(out) : out'[j] = out[j]
      BY <1>0, <3>1, <3>2
    <3> QED
      BY <3>1, <3>2, <3>3
  <2> QED
    BY <2>3, <2>4
<1> QED
  BY <1>1, <1>2

\* No entry is forgotten.
LEMMA OutKept ==
  ASSUME Types, [Next]_vars, NEW i \in DOMAIN out
  PROVE  i \in DOMAIN out' /\ out'[i] = out[i]
<1>0. out \in Seq(Rotated) /\ DOMAIN out = 1 .. Len(out) /\ Len(out) \in Nat
  BY TypesParts, LenProperties DEF Stored
<1>1. UNCHANGED out \/ \E e : out' = Append(out, e)
  BY DEF Next, Rotation, Validation, BeginInit, InitRead, InitPut, InitStamp, BeginRotate,
         Check, ReadCurrent, ReadHistory, PutCurrent, PutLast, PutHistory, PutFails,
         BeginValidate, ValidateCurrent, ValidateHistory, Crash, Tick, vars
<1> QED
  BY <1>0, <1>1

\* initialize() runs while the node starts only.
LEMMA StartingStep ==
  ASSUME Types, Apart, Starting, [Next]_vars, "overlap" \notin faults'
  PROVE  Starting'
<1> USE Constants
<1>0. DOMAIN pc = Rotators \cup Validators
  BY TypesParts DEF TaskStages
<1>1. ASSUME NEW r \in Rotators, Rotation(r) PROVE Starting'
  <2>1. \A s \in Rotators \ {r} : pc'[s] \in {"idle", "done", "failed"}
    BY <1>1, OthersEnded DEF Apart, Ended
  <2>2. CASE BeginInit(r)
    BY <2>1, <2>2 DEF BeginInit, Starting
  <2>3. CASE InitRead(r)
    <3>1. /\ pc[r] = "initRead" /\ (phase' = phase \/ Goto(r, "done"))
      BY <2>3 DEF InitRead
    <3>2. Goto(r, "done") => pc'[r] = "done"
      BY <1>0, GotoStage
    <3> QED
      BY <2>1, <3>1, <3>2 DEF Starting
  <2>4. CASE InitPut(r)
    BY <2>1, <2>4 DEF InitPut, Starting
  <2>5. CASE ~(BeginInit(r) \/ InitRead(r) \/ InitPut(r))
    <3>1. \E stage \in RotatorStages \ {"initRead", "initPut", "initStamp"} : Goto(r, stage)
      BY <1>1, <2>5
         DEF Rotation, InitStamp, BeginRotate, Check, ReadCurrent, ReadHistory, PutCurrent,
             PutLast, PutHistory, PutFails, RotatorStages
    <3>2. pc'[r] \notin {"initRead", "initPut", "initStamp"}
      BY <1>0, <3>1, GotoStage
    <3> QED
      BY <2>1, <3>2 DEF Starting
  <2> QED
    BY <2>2, <2>3, <2>4, <2>5
<1>2. ASSUME NEW v \in Validators, Validation(v) PROVE Starting'
  <2>1. phase' = phase /\ \E stage : Goto(v, stage)
    BY <1>2 DEF Validation, BeginValidate, ValidateCurrent, ValidateHistory
  <2>2. \A r \in Rotators : pc'[r] = pc[r]
    BY <1>0, <2>1, GotoStage
  <2> QED
    BY <2>1, <2>2 DEF Starting
<1>3. CASE Crash
  <2>1. \A r \in Rotators : pc'[r] \in {"idle", "done", "failed"}
    BY <1>3 DEF Crash, Ended
  <2> QED
    BY <2>1 DEF Starting
<1>4. CASE Tick \/ UNCHANGED vars
  BY <1>4 DEF Tick, vars, Starting
<1> QED
  BY <1>1, <1>2, <1>3, <1>4 DEF Next

\* A step that changes the current token puts one that no validation brought.
LEMMA AskedStep ==
  ASSUME Types, Made, Apart, Starting, Asking, [Next]_vars, "overlap" \notin faults',
         NEW v \in Validators, pc[v] \in {"current", "history"},
         asked'[v] = asked[v], pc'[v] \in {"current", "history"}
  PROVE  /\ phase' = "up"
         /\ asked[v].token \in Rotators => pc'[asked[v].token] = "done"
         /\ asked[v].was = "other" => ~IsCurrent(asked[v].token)'
<1> USE Constants
<1> DEFINE t == asked[v].token
<1>0. /\ DOMAIN pc = Rotators \cup Validators
      /\ now \in Nat /\ current \in Active \cup {Nothing}
      /\ phase = "up" /\ (t \in Rotators => pc[t] = "done")
      /\ asked[v].was = "other" => ~IsCurrent(t)
  BY TypesParts DEF TaskStages, Stored, Asking
<1>1. ~Crash
  BY DEF Crash
<1>2. ASSUME NEW r \in Rotators, Rotation(r)
      PROVE  /\ phase' = "up" /\ r # t
             /\ UNCHANGED <<current, now>> \/ (current' \in Active /\ current'.token = r)
  <2>1. ~BeginInit(r) /\ pc[r] \notin {"initRead", "initPut", "initStamp"}
    BY <1>0 DEF BeginInit, Starting
  <2>2. phase' = "up" /\ (UNCHANGED <<current, now>> \/ PutCurrent(r))
    BY <1>0, <1>2, <2>1
       DEF Rotation, InitRead, InitPut, InitStamp, BeginRotate, Check, ReadCurrent,
           ReadHistory, PutLast, PutHistory, PutFails, PutCurrent
  <2>3. pc[r] # "done"
    BY <1>2
       DEF Rotation, BeginInit, InitRead, InitPut, InitStamp, BeginRotate, Check,
           ReadCurrent, ReadHistory, PutCurrent, PutLast, PutHistory, PutFails
  <2> QED
    BY <1>0, <2>2, <2>3, PutCurrentTypes
<1>3. phase' = "up"
  BY <1>0, <1>1, <1>2
     DEF Next, Validation, BeginValidate, ValidateCurrent, ValidateHistory, Tick, vars
<1>4. t \in Rotators => pc'[t] = "done"
  <2>1. ASSUME NEW r \in Rotators, Rotation(r), t \in Rotators PROVE pc'[t] = pc[t]
    BY <1>2, <2>1, OthersEnded DEF Apart
  <2>2. ASSUME NEW w \in Validators, Validation(w), t \in Rotators PROVE pc'[t] = pc[t]
    <3>1. \E stage : Goto(w, stage)
      BY <2>2 DEF Validation, BeginValidate, ValidateCurrent, ValidateHistory
    <3> QED
      BY <1>0, <2>2, <3>1, GotoStage
  <2> QED
    BY <1>0, <1>1, <2>1, <2>2 DEF Next, Tick, vars
<1>5. ~IsCurrent(t) => ~IsCurrent(t)'
  <2>1. CASE UNCHANGED <<current, now>>
    BY <2>1 DEF IsCurrent, HasCurrent, Expired
  <2>2. CASE Tick
    <3>1. current # Nothing => current.expiresAt \in Nat
      BY <1>0, SomeRecord
    <3>2. now' >= now /\ UNCHANGED <<current, asked>>
      BY <1>0, <2>2 DEF Tick
    <3> QED
      BY <1>0, <2>2, <3>1, <3>2 DEF IsCurrent, HasCurrent, Expired, Tick
  <2>3. ASSUME NEW r \in Rotators, Rotation(r), current'.token = r PROVE ~IsCurrent(t)'
    BY <1>2, <2>3 DEF IsCurrent
  <2> QED
    BY <1>1, <1>2, <2>1, <2>2, <2>3
       DEF Next, Validation, BeginValidate, ValidateCurrent, ValidateHistory, vars
<1> QED
  BY <1>0, <1>3, <1>4, <1>5

\* Every step keeps what is known of the validations under way.
LEMMA AskingStep ==
  ASSUME Types, Made, ApartInv, AskInv, [Next]_vars
  PROVE  AskInv'
<1> USE Constants
<1> SUFFICES ASSUME "overlap" \notin faults' PROVE Starting' /\ Asking'
  BY DEF AskInv
<1>0. /\ Apart /\ Starting /\ Asking /\ DOMAIN pc = Rotators \cup Validators
      /\ asked \in [Validators -> Question]
  BY FaultsGrow, TypesParts DEF ApartInv, AskInv, TaskStages
<1>1. Starting'
  BY <1>0, StartingStep
<1>2. ASSUME NEW v \in Validators, pc'[v] \in {"current", "history"}
      PROVE  /\ phase' = "up"
             /\ asked'[v].token \in Rotators => pc'[asked'[v].token] = "done"
             /\ asked'[v].was = "other" => ~IsCurrent(asked[v].token)'
  <2>1. CASE pc[v] \in {"current", "history"}
    <3>1. asked'[v] = asked[v]
      <4>1. ASSUME NEW w \in Validators, NEW t \in Tokens, BeginValidate(w, t)
            PROVE  asked'[v] = asked[v]
        BY <2>1, <4>1 DEF BeginValidate
      <4> QED
        BY <4>1
           DEF Next, Rotation, Validation, BeginInit, InitRead, InitPut, InitStamp, BeginRotate,
               Check, ReadCurrent, ReadHistory, PutCurrent, PutLast, PutHistory, PutFails,
               ValidateCurrent, ValidateHistory, Crash, Tick, vars
    <3>2. /\ phase' = "up"
          /\ asked[v].token \in Rotators => pc'[asked[v].token] = "done"
          /\ asked[v].was = "other" => ~IsCurrent(asked[v].token)'
      BY <1>0, <1>2, <2>1, <3>1, AskedStep
    <3> QED
      BY <3>1, <3>2
  <2>2. CASE pc[v] \notin {"current", "history"}
    <3>1. PICK t \in Tokens : BeginValidate(v, t)
      <4>1. ASSUME NEW r \in Rotators, Rotation(r) PROVE FALSE
        <5>1. \E stage : Goto(r, stage)
          BY <4>1
             DEF Rotation, BeginInit, InitRead, InitPut, InitStamp, BeginRotate, Check,
                 ReadCurrent, ReadHistory, PutCurrent, PutLast, PutHistory, PutFails
        <5> QED
          BY <1>0, <1>2, <2>2, <5>1, GotoStage
      <4>2. ~Crash /\ ~Tick /\ ~UNCHANGED vars
        BY <1>2, <2>2 DEF Crash, Tick, vars
      <4>3. PICK w \in Validators : Validation(w)
        BY <4>1, <4>2 DEF Next
      <4>4. w = v
        <5>1. \E stage : Goto(w, stage)
          BY <4>3 DEF Validation, BeginValidate, ValidateCurrent, ValidateHistory
        <5> QED
          BY <1>0, <1>2, <2>2, <5>1, GotoStage
      <4> QED
        BY <2>2, <4>3, <4>4 DEF Validation, ValidateCurrent, ValidateHistory
    <3>2. /\ phase' = "up" /\ UNCHANGED <<current, now>>
          /\ asked'[v].token = t /\ (asked'[v].was = "other" => ~IsCurrent(t))
          /\ t \in Rotators => pc[t] = "done"
      BY <1>0, <3>1 DEF BeginValidate
    <3>3. t \in Rotators => pc'[t] = pc[t]
      BY <1>0, <3>1, GotoStage DEF BeginValidate
    <3> QED
      BY <3>2, <3>3 DEF IsCurrent, HasCurrent, Expired
  <2> QED
    BY <2>1, <2>2
<1>3. Asking'
  BY <1>2 DEF Asking
<1> QED
  BY <1>1, <1>3

LEMMA AskInvariant == Spec => []AskInv
<1>1. Init => AskInv
  BY DEF Init, AskInv, Starting, Asking
<1> QED
  BY <1>1, AskingStep, TypesInvariant, ApartInvariant, PTL DEF Spec

\* What GraceEnds says of a token that validation v was given, and accepted.
RightlyAccepted(v) ==
  \/ /\ asked[v].was = "current"
     /\ asked[v].token \in Rotators => asked[v].token \notin ReplacedBefore(asked[v].at)
  \/ \E i \in DOMAIN out : out[i].token = asked[v].token /\ asked[v].at < out[i].until

\* A token that was rightly accepted remains so.
LEMMA AcceptedStep ==
  ASSUME Types, Made, [Next]_vars, NEW v \in Validators, asked'[v] = asked[v], RightlyAccepted(v)
  PROVE  RightlyAccepted(v)'
<1>0. asked[v].at <= now /\ now \in Nat /\ asked[v].at \in Nat
  BY TypesParts DEF Stored, Question
<1>1. CASE \E i \in DOMAIN out : out[i].token = asked[v].token /\ asked[v].at < out[i].until
  <2>1. PICK i \in DOMAIN out : out[i].token = asked[v].token /\ asked[v].at < out[i].until
    BY <1>1
  <2>2. i \in DOMAIN out' /\ out'[i] = out[i]
    BY OutKept
  <2> QED
    BY <2>1, <2>2 DEF RightlyAccepted
<1>2. CASE /\ asked[v].was = "current"
           /\ asked[v].token \in Rotators => asked[v].token \notin ReplacedBefore(asked[v].at)
  <2>1. \A i \in DOMAIN out' : (i \in DOMAIN out /\ out'[i] = out[i]) \/ out'[i].at = now
    BY OutGrows
  <2>2. ReplacedBefore(asked[v].at)' \subseteq ReplacedBefore(asked[v].at)
    BY <1>0, <2>1 DEF ReplacedBefore
  <2> QED
    BY <1>2, <2>2 DEF RightlyAccepted
<1> QED
  BY <1>1, <1>2 DEF RightlyAccepted

\* A validation accepts a token that was current, or is within its grace, only.
LEMMA EndsStep ==
  ASSUME Types, Made, ApartInv, AskInv, GraceEnds, [Next]_vars
  PROVE  GraceEnds'
<1> USE Constants
<1> SUFFICES ASSUME "overlap" \notin faults', NEW v \in Validators, pc'[v] = "accepted"
             PROVE  RightlyAccepted(v)'
  BY DEF GraceEnds, RightlyAccepted
<1>0. /\ DOMAIN pc = Rotators \cup Validators /\ asked[v].at <= now /\ now \in Nat
      /\ asked \in [Validators -> Question] /\ asked[v].at \in Nat
      /\ out \in Seq(Rotated) /\ history \in Seq(Secondary)
  BY TypesParts DEF TaskStages, Stored, Question
<1>1. "overlap" \notin faults /\ Apart /\ Asking
  BY FaultsGrow DEF ApartInv, AskInv
<1>3. CASE pc[v] = "accepted"
  <2>1. asked'[v] = asked[v]
    <3>1. ASSUME NEW w \in Validators, NEW t \in Tokens, BeginValidate(w, t)
          PROVE  asked'[v] = asked[v]
      BY <1>3, <3>1 DEF BeginValidate
    <3> QED
      BY <3>1
         DEF Next, Rotation, Validation, BeginInit, InitRead, InitPut, InitStamp, BeginRotate,
             Check, ReadCurrent, ReadHistory, PutCurrent, PutLast, PutHistory, PutFails,
             ValidateCurrent, ValidateHistory, Crash, Tick, vars
  <2>2. RightlyAccepted(v)
    BY <1>1, <1>3 DEF GraceEnds, RightlyAccepted
  <2> QED
    BY <2>1, <2>2, AcceptedStep
<1>4. CASE pc[v] # "accepted"
  <2>1. PICK w \in Validators : Validation(w)
    <3>1. ASSUME NEW r \in Rotators, Rotation(r) PROVE FALSE
      <4>1. \E stage : Goto(r, stage)
        BY <3>1
           DEF Rotation, BeginInit, InitRead, InitPut, InitStamp, BeginRotate, Check,
               ReadCurrent, ReadHistory, PutCurrent, PutLast, PutHistory, PutFails
      <4>2. pc'[v] = pc[v]
        BY <1>0, <4>1, GotoStage
      <4> QED
        BY <1>4, <4>2
    <3>2. ~Crash
      BY <1>0, <1>4 DEF Crash
    <3>3. ~Tick /\ ~UNCHANGED vars
      BY <1>4 DEF Tick, vars
    <3> QED
      BY <3>1, <3>2, <3>3 DEF Next
  <2>2. w = v
    <3>1. \E stage : Goto(w, stage)
      BY <2>1 DEF Validation, BeginValidate, ValidateCurrent, ValidateHistory
    <3> QED
      BY <1>0, <1>4, <3>1, GotoStage
  <2> DEFINE t == asked[v].token
  <2>3. /\ UNCHANGED <<asked, out>> /\ (IsCurrent(t) \/ InGrace(t))
        /\ pc[v] \in {"current", "history"}
    <3>1. ASSUME NEW u \in Tokens, BeginValidate(v, u) PROVE FALSE
      BY <1>0, <3>1, GotoStage DEF BeginValidate
    <3>2. CASE ValidateCurrent(v)
      BY <1>0, <3>2, GotoStage DEF ValidateCurrent
    <3>3. CASE ValidateHistory(v)
      BY <1>0, <3>3, GotoStage DEF ValidateHistory
    <3> QED
      BY <2>1, <2>2, <3>1, <3>2, <3>3 DEF Validation
  <2>4. CASE IsCurrent(t)
    <3>1. asked[v].was = "current"
      BY <1>0, <1>1, <2>3, <2>4 DEF Asking, Question
    <3>2. t \in Rotators => t \notin ReplacedBefore(asked[v].at)
      BY <1>1, <2>4 DEF IsCurrent, HasCurrent, Apart, Spent, ReplacedBefore
    <3>3. RightlyAccepted(v)
      BY <3>1, <3>2 DEF RightlyAccepted
    <3> QED
      BY <2>3, <3>3, AcceptedStep
  <2>5. CASE InGrace(t)
    <3>1. PICK j \in DOMAIN history : history[j].token = t /\ now < history[j].until
      BY <2>5 DEF InGrace
    <3>2. PICK i \in DOMAIN out : out[i].token = t /\ out[i].until = history[j].until
      BY <1>1, <3>1 DEF Apart, Matching, Matched
    <3>3. history[j].until \in Nat
      <4>1. DOMAIN history = 1 .. Len(history)
        BY <1>0, LenProperties
      <4>2. history[j] \in Secondary
        BY <1>0, <3>1, <4>1, ElementOfSeq
      <4> QED
        BY <4>2 DEF Secondary
    <3>4. RightlyAccepted(v)
      BY <1>0, <3>1, <3>2, <3>3 DEF RightlyAccepted
    <3> QED
      BY <2>3, <3>4, AcceptedStep
  <2> QED
    BY <2>3, <2>4, <2>5
<1> QED
  BY <1>3, <1>4

\* validateToken() accepts a token that was current when the call came or within
\* the grace period it got when it was rotated out, and no minted one is current
\* again, whatever failed access or restart the call overlaps.
THEOREM GraceAlwaysEnds == Spec => []GraceEnds
<1>1. Init => GraceEnds
  BY DEF Init, GraceEnds
<1> QED
  BY <1>1, EndsStep, TypesInvariant, ApartInvariant, AskInvariant, PTL DEF Spec
-----------------------------------------------------------------------------
(***************************************************************************)
(* Rotations that are neither overlapped nor cut short                     *)
(***************************************************************************)

\* A history that follows the tokens rotated out follows them later as well.
LEMMA FollowsLater ==
  ASSUME NEW h, NEW o \in Seq(Rotated), NEW t \in Nat, NEW u \in Nat, t <= u,
         NEW f, Follows(h, o, t, f)
  PROVE  Follows(h, o, u, f)
<1>1. \A i \in DOMAIN o : u < o[i].until => t < o[i].until
  <2>1. DOMAIN o = 1 .. Len(o)
    BY LenProperties
  <2>2. \A i \in DOMAIN o : o[i] \in Rotated
    BY <2>1, ElementOfSeq
  <2>3. \A i \in DOMAIN o : o[i].until \in Nat
    BY <2>2 DEF Rotated
  <2> QED
    BY <2>3
<1> QED
  BY <1>1 DEF Follows

\* It follows them when the token rotated out next joins both.
LEMMA FollowsAppend ==
  ASSUME NEW h \in Seq(Secondary), NEW o \in Seq(Rotated), NEW t \in Nat,
         NEW f, Follows(h, o, t, f),
         NEW s \in Secondary, NEW e \in Rotated, s.token = e.token, s.until = e.until
  PROVE  \E g \in [DOMAIN Append(h, s) -> DOMAIN Append(o, e)] :
           Follows(Append(h, s), Append(o, e), t, g)
<1> USE Constants
<1> DEFINE H == Append(h, s)
           O == Append(o, e)
           g == [j \in 1 .. Len(h) + 1 |-> IF j = Len(h) + 1 THEN Len(o) + 1 ELSE f[j]]
<1>1. /\ Len(h) \in Nat /\ DOMAIN h = 1 .. Len(h) /\ DOMAIN H = 1 .. Len(h) + 1
      /\ H[Len(h) + 1] = s /\ \A j \in DOMAIN h : H[j] = h[j]
  BY LenProperties
<1>2. /\ Len(o) \in Nat /\ DOMAIN o = 1 .. Len(o) /\ DOMAIN O = 1 .. Len(o) + 1
      /\ O[Len(o) + 1] = e /\ \A i \in DOMAIN o : O[i] = o[i]
      /\ Len(O) = Len(o) + 1
  BY LenProperties
<1>3. /\ \A j \in DOMAIN h : f[j] \in DOMAIN o /\ j \in Int /\ j # Len(h) + 1
      /\ \A j \in DOMAIN H : j \in DOMAIN h \/ j = Len(h) + 1
  BY <1>1 DEF Follows
<1>4. g[Len(h) + 1] = Len(o) + 1 /\ \A j \in DOMAIN h : g[j] = f[j]
  BY <1>1, <1>3
<1>5. g \in [DOMAIN H -> DOMAIN O]
  <2>1. \A j \in DOMAIN H : g[j] \in DOMAIN O
    BY <1>1, <1>2, <1>3, <1>4
  <2> HIDE DEF O, H
  <2>2. g = [j \in DOMAIN H |-> g[j]]
    BY <1>1
  <2> HIDE DEF g
  <2> QED
    BY <2>1, <2>2
<1> HIDE DEF g, H, O
<1>6. ASSUME NEW j \in DOMAIN H, NEW k \in DOMAIN H, j < k PROVE g[j] < g[k]
  <2>1. j \in DOMAIN h
    BY <1>1, <1>3, <1>6
  <2>2. CASE k \in DOMAIN h
    BY <1>4, <1>6, <2>1, <2>2 DEF Follows
  <2>3. CASE k = Len(h) + 1
    BY <1>2, <1>3, <1>4, <2>1, <2>3
  <2> QED
    BY <1>3, <2>2, <2>3
<1>7. ASSUME NEW j \in DOMAIN H
      PROVE  H[j].token = O[g[j]].token /\ H[j].until = O[g[j]].until
  <2>1. CASE j \in DOMAIN h
    BY <1>1, <1>2, <1>3, <1>4, <2>1 DEF Follows
  <2>2. CASE j = Len(h) + 1
    BY <1>1, <1>2, <1>4, <2>2
  <2> QED
    BY <1>3, <2>1, <2>2
<1>8. ASSUME NEW i \in DOMAIN O, i > Len(O) - MaxTokensKept, t < O[i].until
      PROVE  \E j \in DOMAIN H : g[j] = i
  <2>1. CASE i = Len(o) + 1
    BY <1>1, <1>4, <2>1
  <2>2. CASE i # Len(o) + 1
    <3>1. i \in DOMAIN o /\ i > Len(o) - MaxTokensKept
      BY <1>2, <1>8, <2>2
    <3>2. PICK j \in DOMAIN h : f[j] = i
      BY <1>2, <1>8, <3>1 DEF Follows
    <3> QED
      BY <1>1, <1>4, <3>2
  <2> QED
    BY <2>1, <2>2
<1> QED
  BY <1>5, <1>6, <1>7, <1>8 DEF Follows, H, O

\* It follows them when it is cut to what is live, for the cut leaves the last
\* MaxTokensKept that are in grace.
LEMMA FollowsKept ==
  ASSUME NEW s \in Seq(Secondary), NEW o \in Seq(Rotated), now \in Nat,
         NEW f, Follows(s, o, now, f)
  PROVE  \E g \in [DOMAIN Kept(s) -> DOMAIN o] : Follows(Kept(s), o, now, g)
<1> USE Constants
<1> DEFINE K == LastPlaces(Live(s), MaxTokensKept)
           g == [k \in 1 .. Cardinality(K) |-> f[Nth(K, k)]]
<1>1. /\ Len(s) \in Nat /\ DOMAIN s = 1 .. Len(s) /\ Live(s) \in SUBSET (1 .. Len(s))
      /\ Len(o) \in Nat /\ DOMAIN o = 1 .. Len(o)
  BY LenProperties DEF Live
<1>2. K \subseteq Live(s) /\ K \in SUBSET DOMAIN s /\ Kept(s) = Picked(s, K)
  BY <1>1 DEF LastPlaces, Kept
<1> HIDE DEF K
<1>3. /\ DOMAIN Kept(s) = 1 .. Cardinality(K)
      /\ \A k \in DOMAIN Kept(s) : Nth(K, k) \in K /\ Kept(s)[k] = s[Nth(K, k)]
      /\ \A k, m \in DOMAIN Kept(s) : k < m => Nth(K, k) < Nth(K, m)
      /\ \A i \in K : \E k \in DOMAIN Kept(s) : Nth(K, k) = i
  <2>0. s \in Seq(Secondary) /\ K \in SUBSET DOMAIN s
    BY <1>2
  <2>1. /\ DOMAIN Picked(s, K) = 1 .. Cardinality(K)
        /\ \A k \in 1 .. Cardinality(K) : Nth(K, k) \in K /\ Picked(s, K)[k] = s[Nth(K, k)]
        /\ \A k, m \in 1 .. Cardinality(K) : k < m => Nth(K, k) < Nth(K, m)
        /\ \A i \in K : \E k \in 1 .. Cardinality(K) : Nth(K, k) = i
    BY <2>0, PickedElements
  <2> QED
    BY <1>2, <2>1
<1>4. /\ \A k \in DOMAIN Kept(s) : g[k] = f[Nth(K, k)] /\ Nth(K, k) \in DOMAIN s
      /\ \A j \in DOMAIN s : f[j] \in DOMAIN o
  BY <1>2, <1>3 DEF Follows
<1>5. g \in [DOMAIN Kept(s) -> DOMAIN o]
  BY <1>3, <1>4
<1> HIDE DEF g
<1>6. \A k, m \in DOMAIN Kept(s) : k < m => g[k] < g[m]
  BY <1>3, <1>4 DEF Follows
<1>7. \A k \in DOMAIN Kept(s) :
        Kept(s)[k].token = o[g[k]].token /\ Kept(s)[k].until = o[g[k]].until
  BY <1>3, <1>4 DEF Follows
<1>8. ASSUME NEW i \in DOMAIN o, i > Len(o) - MaxTokensKept, now < o[i].until
      PROVE  \E k \in DOMAIN Kept(s) : g[k] = i
  <2>1. PICK j \in DOMAIN s : f[j] = i
    BY <1>8 DEF Follows
  <2>2. j \in Live(s)
    BY <1>8, <2>1 DEF Follows, Live
  <2> DEFINE later == {l \in Live(s) : l >= j}
             h == [l \in Live(s) |-> f[l]]
  <2>3. h \in [Live(s) -> 1 .. Len(o)]
    BY <1>1, <1>4
  <2>4. \A l, m \in Live(s) : l < m => h[l] < h[m]
    BY <1>1 DEF Follows
  <2>5. h[j] = i
    BY <2>1, <2>2
  <2> HIDE DEF h
  <2>6. Cardinality(later) <= Len(o) - i + 1
    BY <1>1, <2>2, <2>3, <2>4, <2>5, GrowingPlaces
  <2>7. Cardinality(later) \in Nat
    <3>1. IsFiniteSet(1 .. Len(s)) /\ later \subseteq 1 .. Len(s)
      BY <1>1, FS_Interval
    <3> QED
      BY <3>1, FS_Subset, FS_CardinalityType
  <2>8. Cardinality(later) <= MaxTokensKept
    <3> HIDE DEF later
    <3> QED
      BY <1>1, <1>8, <2>6, <2>7
  <2>9. j \in K
    BY <2>2, <2>8 DEF K, LastPlaces
  <2> QED
    BY <1>3, <1>4, <2>1, <2>9
<1> QED
  BY <1>5, <1>6, <1>7, <1>8 DEF Follows
-----------------------------------------------------------------------------
\* The step that replaces the current token takes the history about to be put
\* along with the tokens rotated out.
LEMMA PutCurrentTraced ==
  ASSUME Types, Made, Apart, Reading, Traced(history), NEW r \in Rotators, PutCurrent(r),
         \A s \in Rotators \ {r} : Ended(s) /\ pc'[s] = pc[s] /\ Ended(s)'
  PROVE  Traced(local[r].history)'
<1>0. /\ history \in Seq(Secondary) /\ out \in Seq(Rotated) /\ now \in Nat
      /\ current \in Active \cup {Nothing}
      /\ UNCHANGED <<now, local>> /\ pc[r] = "putCurrent" /\ local[r].current = current
  BY TypesParts DEF Stored, PutCurrent, Reading
<1>1. PICK f \in [DOMAIN history -> DOMAIN out] : Follows(history, out, now, f)
  BY DEF Traced
<1>2. CASE current = Nothing
  <2>1. out' = out /\ local[r].history = history
    BY <1>0, <1>2, PutCurrentApart DEF Reading
  <2> QED
    BY <1>0, <1>1, <2>1 DEF Traced
<1>3. CASE current # Nothing
  <2>1. PICK s \in Secondary : s.token = current.token /\ local[r].history = Append(history, s)
    BY <1>0, <1>3 DEF Reading
  <2> DEFINE entry == Replaced(s.until)
  <2>5. out' = Append(out, entry)
    BY <1>0, <1>3, <2>1, PutCurrentApart
  <2>2. entry \in Rotated /\ s.token = entry.token /\ s.until = entry.until
    <3>1. s.until \in Nat
      BY DEF Secondary
    <3> QED
      BY <1>0, <1>3, <2>1, <3>1, ReplacedEntry
  <2> HIDE DEF entry
  <2>3. \E g \in [DOMAIN Append(history, s) -> DOMAIN Append(out, entry)] :
          Follows(Append(history, s), Append(out, entry), now, g)
    BY <1>0, <1>1, <2>2, FollowsAppend
  <2>4. out' = Append(out, entry) /\ local'[r].history = Append(history, s) /\ now' = now
    BY <1>0, <2>1, <2>5
  <2> QED
    BY <2>3, <2>4 DEF Traced
<1> QED
  BY <1>2, <1>3

\* A step that leaves the history and the tokens rotated out alone, and takes
\* no rotation between its current token and its history or out of there.
LEMMA TracingKept ==
  ASSUME Types, Tracing, UNCHANGED <<history, out>>, now' \in {now, now + 1},
         \A r \in Rotators : pc'[r] \in Halfway <=> pc[r] \in Halfway,
         \A r \in Rotators : pc[r] \in Halfway => local'[r] = local[r]
  PROVE  Tracing'
<1>0. /\ out \in Seq(Rotated) /\ now \in Nat /\ now' \in Nat /\ now <= now'
  BY TypesParts DEF Stored
<1>1. ASSUME NEW h, Traced(h)
      PROVE  \E f \in [DOMAIN h -> DOMAIN out] : Follows(h, out, now', f)
  <2>1. PICK f \in [DOMAIN h -> DOMAIN out] : Follows(h, out, now, f)
    BY <1>1 DEF Traced
  <2> QED
    BY <1>0, <2>1, FollowsLater
<1>2. (\A r \in Rotators : pc'[r] \notin Halfway) => Traced(history)'
  <2> SUFFICES ASSUME \A r \in Rotators : pc'[r] \notin Halfway PROVE Traced(history)'
    OBVIOUS
  <2>1. \E f \in [DOMAIN history -> DOMAIN out] : Follows(history, out, now', f)
    BY <1>1 DEF Tracing
  <2> QED
    BY <2>1 DEF Traced
<1>3. ASSUME NEW r \in Rotators, pc'[r] \in Halfway PROVE Traced(local[r].history)'
  <2>1. \E f \in [DOMAIN local[r].history -> DOMAIN out] :
          Follows(local[r].history, out, now', f)
    BY <1>1, <1>3 DEF Tracing
  <2>2. local'[r] = local[r]
    BY <1>3
  <2> QED
    BY <2>1, <2>2 DEF Traced
<1> QED
  BY <1>2, <1>3 DEF Tracing

\* Every step of the one rotation, unless it fails, keeps the history in line.
LEMMA RotationTracing ==
  ASSUME Types, Made, Apart, Reading, Tracing, NEW r \in Rotators, Rotation(r), faults' = {}
  PROVE  Tracing'
<1>0. /\ DOMAIN pc = Rotators \cup Validators /\ out \in Seq(Rotated) /\ now \in Nat
      /\ local \in [Rotators -> Local]
  BY TypesParts DEF TaskStages, Stored
<1>1. \A s \in Rotators \ {r} : Ended(s) /\ pc'[s] = pc[s] /\ Ended(s)'
  BY OthersEnded DEF Apart
<1>2. \A s \in Rotators \ {r} : pc[s] \notin Halfway /\ pc'[s] \notin Halfway
  BY <1>1 DEF Halfway, Ended
<1>3. CASE PutCurrent(r)
  <2>1. pc[r] \notin Halfway /\ pc'[r] \in Halfway
    BY <1>0, <1>3, GotoStage DEF PutCurrent, Halfway
  <2>2. Traced(history)
    BY <1>2, <2>1 DEF Tracing
  <2>3. Traced(local[r].history)'
    BY <1>1, <1>3, <2>2, PutCurrentTraced
  <2> QED
    BY <1>2, <2>1, <2>3 DEF Tracing
<1>4. CASE PutHistory(r)
  <2>1. /\ history' = Kept(local[r].history) /\ UNCHANGED <<now, out>>
        /\ pc[r] \in Halfway /\ pc'[r] \notin Halfway
    BY <1>0, <1>4, GotoStage DEF PutHistory, Halfway
  <2>2. PICK f \in [DOMAIN local[r].history -> DOMAIN out] :
          Follows(local[r].history, out, now, f)
    BY <2>1 DEF Tracing, Traced
  <2>3. local[r].history \in Seq(Secondary)
    BY <1>0 DEF Local
  <2>4. \E g \in [DOMAIN Kept(local[r].history) -> DOMAIN out] :
          Follows(Kept(local[r].history), out, now, g)
    BY <1>0, <2>2, <2>3, FollowsKept
  <2>5. Traced(history)'
    BY <2>1, <2>4 DEF Traced
  <2> QED
    BY <1>2, <2>1, <2>5 DEF Tracing
<1>5. CASE PutLast(r)
  <2>1. UNCHANGED <<history, out, now, local>> /\ pc[r] \in Halfway /\ pc'[r] \in Halfway
    BY <1>0, <1>5, GotoStage DEF PutLast, Halfway
  <2> QED
    BY <1>2, <2>1, TracingKept
<1>6. CASE ~PutCurrent(r) /\ ~PutHistory(r) /\ ~PutLast(r)
  <2>1. ~PutFails(r)
    BY DEF PutFails, Happens
  <2>5. UNCHANGED out
    <3>1. InitPut(r) => UNCHANGED out
      BY DEF InitPut, Reading
    <3> QED
      BY <1>6, <2>1, <3>1
         DEF Rotation, BeginInit, InitRead, InitStamp, BeginRotate, Check, ReadCurrent, ReadHistory
  <2>2. /\ UNCHANGED <<history, now>> /\ pc[r] \notin Halfway
        /\ \E stage \in RotatorStages \ Halfway : Goto(r, stage)
    BY <1>6, <2>1
       DEF Rotation, BeginInit, InitRead, InitPut, InitStamp, BeginRotate, Check,
           ReadCurrent, ReadHistory, RotatorStages, Halfway
  <2>3. pc'[r] \notin Halfway
    BY <1>0, <2>2, GotoStage
  <2>4. \A s \in Rotators : pc[s] \notin Halfway /\ pc'[s] \notin Halfway
    BY <1>2, <2>2, <2>3
  <2> QED
    BY <2>2, <2>4, <2>5, TracingKept
<1> QED
  BY <1>3, <1>4, <1>5, <1>6

\* Every step of the one rotation, unless a read fails, reads what there is.
LEMMA RotationReading ==
  ASSUME Types, Made, Apart, Reading, NEW r \in Rotators, Rotation(r), faults' = {}
  PROVE  Reading'
<1> USE Constants
<1>0. /\ DOMAIN pc = Rotators \cup Validators /\ local \in [Rotators -> Local]
      /\ faults' # faults \cup {"read"}
  BY TypesParts DEF TaskStages
<1>1. \A s \in Rotators \ {r} : pc'[s] \in {"idle", "done", "failed"}
  BY OthersEnded DEF Apart, Ended
<1>2. CASE InitRead(r)
  <2>1. /\ UNCHANGED <<current, now>>
        /\ \/ Goto(r, "initPut") /\ ~HasCurrent
           \/ \E stage \in {"done", "readCurrent"} : Goto(r, stage)
    BY <1>0, <1>2 DEF InitRead, Happens
  <2>2. \/ pc'[r] = "initPut" /\ ~HasCurrent
        \/ pc'[r] \in {"done", "readCurrent"}
    BY <1>0, <2>1, GotoStage
  <2>3. HasCurrent' => HasCurrent
    BY <2>1 DEF HasCurrent, Expired
  <2> QED
    BY <1>1, <2>2, <2>3 DEF Reading
<1>3. CASE ReadCurrent(r)
  <2>1. /\ pc'[r] = "readHistory" /\ UNCHANGED current
        /\ local'[r].current = current
    BY <1>0, <1>3, GotoStage DEF ReadCurrent, Got, Happens, Local
  <2> QED
    BY <1>1, <2>1 DEF Reading
<1>4. CASE ReadHistory(r)
  <2>1. /\ pc[r] = "readHistory" /\ pc'[r] = "putCurrent" /\ UNCHANGED <<current, history>>
        /\ local[r].current = current
    BY <1>0, <1>4, GotoStage DEF ReadHistory, Reading
  <2>2. /\ local'[r].current = current
        /\ current = Nothing => local'[r].history = history
        /\ current # Nothing => \E x \in Secondary :
             x.token = current.token /\ local'[r].history = Append(history, x)
    <3>1. PICK read \in {history, <<>>} :
            /\ Got(read, history, <<>>)
            /\ local[r].current = Nothing => local'[r].history = read
            /\ local[r].current # Nothing => \E x \in Secondary :
                 x.token = local[r].current.token /\ local'[r].history = Append(read, x)
      BY <1>4, ReadHistoryTypes
    <3>2. read = history
      BY <1>0, <3>1 DEF Got, Happens
    <3>3. local'[r].current = local[r].current
      BY <1>4, ReadHistoryTypes
    <3> QED
      BY <2>1, <3>1, <3>2, <3>3
  <2> QED
    BY <1>1, <2>1, <2>2 DEF Reading
<1>5. CASE ~(InitRead(r) \/ ReadCurrent(r) \/ ReadHistory(r))
  <2>1. \E stage \in RotatorStages \ {"initPut", "readHistory", "putCurrent"} : Goto(r, stage)
    BY <1>5
       DEF Rotation, BeginInit, InitPut, InitStamp, BeginRotate, Check, PutCurrent, PutLast,
           PutHistory, PutFails, RotatorStages
  <2>2. pc'[r] \notin {"initPut", "readHistory", "putCurrent"}
    BY <1>0, <2>1, GotoStage
  <2> QED
    BY <1>1, <2>2 DEF Reading
<1> QED
  BY <1>2, <1>3, <1>4, <1>5

\* Every step of the one rotation, unless it fails, leaves the token returned
\* last current or is in the course of replacing it.
LEMMA RotationReturning ==
  ASSUME Types, Made, Apart, Returning, NEW r \in Rotators, Rotation(r), faults' = {}
  PROVE  Returning'
<1> USE Constants
<1>0. /\ DOMAIN pc = Rotators \cup Validators
  BY TypesParts DEF TaskStages
<1>1. \A s \in Rotators \ {r} : Ended(s) /\ pc'[s] = pc[s] /\ Ended(s)'
  BY OthersEnded DEF Apart
<1>2. CASE pc'[r] \in Halfway \cup {"initStamp"}
  BY <1>2 DEF Returning
<1>3. CASE pc'[r] \notin Halfway \cup {"initStamp"}
  <2>1. CASE InitRead(r)
    <3>1. pc[r] \notin Halfway \cup {"initStamp"} /\ UNCHANGED current
          /\ (returned' = returned \/ returned' = Configured)
      BY <2>1 DEF InitRead, Halfway
    <3> QED
      BY <1>1, <1>3, <3>1 DEF Returning
  <2>2. CASE InitStamp(r)
    <3>1. current' = local[r].new /\ returned' = local[r].new.token
      BY <2>2 DEF InitStamp, Apart, Faithful
    <3> QED
      BY <3>1 DEF Returning
  <2>3. CASE PutHistory(r)
    <3>1. current' = local[r].new /\ returned' = r /\ local[r].new.token = r
      BY <2>3 DEF PutHistory, Apart, Faithful, Made
    <3> QED
      BY <3>1 DEF Returning
  <2>4. CASE InitPut(r) \/ PutCurrent(r) \/ PutLast(r)
    <3>1. pc'[r] \in Halfway \cup {"initStamp"}
      BY <1>0, <2>4, GotoStage DEF InitPut, PutCurrent, PutLast, Halfway
    <3> QED
      BY <1>3, <3>1
  <2>5. CASE BeginInit(r) \/ BeginRotate(r) \/ Check(r) \/ ReadCurrent(r) \/ ReadHistory(r)
    <3>1. UNCHANGED <<current, returned>> /\ pc[r] \notin Halfway \cup {"initStamp"}
      BY <2>5 DEF BeginInit, BeginRotate, Check, ReadCurrent, ReadHistory, Halfway
    <3> QED
      BY <1>1, <1>3, <3>1 DEF Returning
  <2>6. ~PutFails(r)
    BY DEF PutFails, Happens
  <2> QED
    BY <2>1, <2>2, <2>3, <2>4, <2>5, <2>6 DEF Rotation
<1> QED
  BY <1>2, <1>3

\* Every step keeps the history in line and the token returned last current,
\* until something fails.
LEMMA CleanStep ==
  ASSUME Types, Made, ApartInv, CleanInv, [Next]_vars
  PROVE  CleanInv'
<1> SUFFICES ASSUME faults' = {} PROVE Reading' /\ Tracing' /\ Returning'
  BY DEF CleanInv
<1>0. /\ faults = {} /\ Apart /\ Reading /\ Tracing /\ Returning
      /\ DOMAIN pc = Rotators \cup Validators /\ now \in Nat
      /\ current \in Active \cup {Nothing}
  BY FaultsGrow, TypesParts DEF ApartInv, CleanInv, TaskStages, Stored
<1>1. ASSUME NEW r \in Rotators, Rotation(r) PROVE Reading' /\ Tracing' /\ Returning'
  BY <1>0, <1>1, RotationReading, RotationTracing, RotationReturning
<1>2. ASSUME UNCHANGED <<history, out, local, current, returned>>, now' \in {now, now + 1},
             \A r \in Rotators : pc'[r] = pc[r]
      PROVE  Reading' /\ Tracing' /\ Returning'
  <2>1. Tracing'
    BY <1>0, <1>2, TracingKept
  <2>2. Returning'
    BY <1>0, <1>2 DEF Returning
  <2>3. HasCurrent' => HasCurrent
    <3>1. current # Nothing => current.expiresAt \in Nat
      BY <1>0, SomeRecord
    <3> QED
      BY <1>0, <1>2, <3>1 DEF HasCurrent, Expired
  <2>4. Reading'
    BY <1>0, <1>2, <2>3 DEF Reading
  <2> QED
    BY <2>1, <2>2, <2>4
<1>3. ASSUME NEW v \in Validators, Validation(v) PROVE Reading' /\ Tracing' /\ Returning'
  <2>1. /\ UNCHANGED <<history, out, local, current, returned, now>>
        /\ \E stage : Goto(v, stage)
    BY <1>3 DEF Validation, BeginValidate, ValidateCurrent, ValidateHistory
  <2>2. \A r \in Rotators : pc'[r] = pc[r]
    BY <1>0, <2>1, GotoStage, Constants
  <2> QED
    BY <1>2, <2>1, <2>2
<1>4. CASE Crash
  <2>1. Quiet /\ UNCHANGED <<history, out, local, current, returned, now>>
    BY <1>4 DEF Crash, Happens
  <2>2. \A r \in Rotators : pc'[r] = pc[r]
    BY <1>4, <2>1 DEF Crash, Quiet
  <2> QED
    BY <1>2, <2>1, <2>2
<1>5. CASE Tick \/ UNCHANGED vars
  BY <1>2, <1>5 DEF Tick, vars
<1> QED
  BY <1>1, <1>3, <1>4, <1>5 DEF Next

LEMMA InitClean == Init => CleanInv
<1> SUFFICES ASSUME Init PROVE Reading /\ Tracing /\ Returning
  BY DEF CleanInv
<1>1. history = <<>> /\ out = <<>> /\ \A r \in Rotators : pc[r] \notin Halfway
  BY DEF Init, Halfway
<1>2. Traced(history)
  <2>1. DOMAIN history = {} /\ DOMAIN out = {}
    BY <1>1
  <2>2. <<>> \in [DOMAIN history -> DOMAIN out]
    BY <2>1
  <2>3. Follows(history, out, now, <<>>)
    BY <2>1, <2>2 DEF Follows
  <2> QED
    BY <2>2, <2>3 DEF Traced
<1>3. Tracing
  BY <1>1, <1>2 DEF Tracing
<1>4. Returning
  BY Constants DEF Init, Returning, Tokens
<1>5. Reading
  BY DEF Init, Reading
<1> QED
  BY <1>3, <1>4, <1>5

LEMMA CleanInvariant == Spec => [](Types /\ CleanInv)
BY InitClean, CleanStep, TypesInvariant, ApartInvariant, PTL DEF Spec

\* Of the tokens that were rotated out, the last MaxTokensKept are valid to the
\* end of their grace, through restarts between rotations, when no rotation
\* overlaps another, is cut short or has an access fail.
THEOREM GraceIsKept == Spec => []GraceKept
<1>1. ASSUME Types, CleanInv PROVE GraceKept
  <2> SUFFICES ASSUME Quiet, faults = {}, NEW i \in DOMAIN out,
                      i > Len(out) - MaxTokensKept, now < out[i].until
               PROVE  Validates(out[i].token)
    BY DEF GraceKept
  <2>1. \A r \in Rotators : pc[r] \notin Halfway
    BY DEF Quiet, Ended, Halfway
  <2>2. PICK f \in [DOMAIN history -> DOMAIN out] : Follows(history, out, now, f)
    BY <1>1, <2>1 DEF CleanInv, Tracing, Traced
  <2>3. PICK j \in DOMAIN history : f[j] = i
    BY <2>2 DEF Follows
  <2>4. history[j].token = out[i].token /\ history[j].until = out[i].until
    BY <2>2, <2>3 DEF Follows
  <2> QED
    BY <2>4 DEF Validates, InGrace
<1> QED
  BY <1>1, CleanInvariant, PTL

\* The token a rotation has returned is valid until it expires or is replaced,
\* under the same conditions.
THEOREM ReturnedIsAccepted == Spec => []ReturnedAccepted
<1>1. ASSUME CleanInv PROVE ReturnedAccepted
  <2> SUFFICES ASSUME Quiet, faults = {}, returned \in Rotators, HasCurrent
               PROVE  Validates(returned)
    BY DEF ReturnedAccepted
  <2>1. \A r \in Rotators : pc[r] \notin Halfway \cup {"initStamp"}
    BY DEF Quiet, Ended, Halfway
  <2>2. current.token = returned
    BY <1>1, <2>1 DEF CleanInv, Returning, HasCurrent
  <2> QED
    BY <2>2 DEF Validates, IsCurrent
<1> QED
  BY <1>1, CleanInvariant, PTL
=============================================================================
