---------------------------- MODULE Lifecycle_proofs ----------------------------
(***************************************************************************)
(* What outlives the process, for any number of clients, signals, crashes  *)
(* and restarts: the identity of the node, what its API has answered, and  *)
(* the order of the shutdown.  The three rest on invariants of their own.  *)
(***************************************************************************)
EXTENDS Lifecycle, Subsequence_proofs

-----------------------------------------------------------------------------
(***************************************************************************)
(* The keys: a node keeps its identity whatever the number of rotations,   *)
(* crashes and restarts.  The invariant follows the files through the      *)
(* writes: before the node has had an identity no start can load one, for  *)
(* the password is written last; from then on only a rotation takes the    *)
(* files apart, and one that is cut short is noted.                        *)
(***************************************************************************)

KeyStages == {"down", "identity", "encrypted", "password", "history", "up", "failed"}

KeyTypeOK ==
  /\ keyPc \in KeyStages
  /\ pair \in [public : Int, private : Int] /\ password \in Int
  /\ identityFile \in Int /\ passwordFile \in Int
  /\ encryptedFile \in [key : Int, password : Int]
  /\ lastKey \in Nat

\* A node without an identity has no password on disk, and is generating a key
\* pair whose files are all of one key.
Unadopted ==
  adopted = Absent =>
    /\ keyPc \in {"down", "identity", "encrypted", "password", "failed"}
    /\ passwordFile \notin Keys
    /\ encryptedFile.key \in Keys => encryptedFile.password \in Keys
    /\ keyPc \in {"identity", "encrypted", "password"} =>
         /\ ~rotating /\ keyHistory = historyFile
         /\ pair = [public |-> password, private |-> password] /\ password \in Keys
    /\ keyPc \in {"encrypted", "password"} => identityFile = password
    /\ keyPc = "password" => encryptedFile = [key |-> password, password |-> password]

\* A node with an identity finds it in its files, or is replacing it there.
Adopted ==
  adopted # Absent =>
    /\ keyPc \in {"down", "up", "identity", "encrypted", "history"}
    /\ passwordFile = encryptedFile.password
    /\ keyPc \in {"down", "up"} =>
         /\ identityFile = adopted /\ encryptedFile.key = adopted /\ adopted \in Keys
    /\ keyPc = "up" =>
         /\ pair = [public |-> adopted, private |-> adopted]
         /\ password = passwordFile /\ keyHistory = historyFile
    /\ keyPc \in {"identity", "encrypted", "history"} =>
         /\ rotating /\ password = passwordFile
         /\ pair.public = pair.private /\ pair.public \in Keys
    /\ keyPc \in {"encrypted", "history"} => identityFile = pair.public
    /\ keyPc = "history" => encryptedFile.key = pair.private

Whole == "rotation" \notin interrupted

KeyInv == KeyTypeOK /\ (Whole => Unadopted /\ Adopted)

\* The invariant says what the property says, and more.
LEMMA KeyInvSuffices == KeyInv => IdentitySurvives
BY DEF KeyInv, KeyTypeOK, Whole, Unadopted, Adopted, IdentitySurvives, SurvivesRestart,
       IdentityKept, Loadable, Absent, Keys

\* Numbers that stand for no key.
LEMMA NoKeys == Absent \notin Keys /\ Torn \notin Keys /\ Keys \subseteq Int
BY KeyAssumption DEF Absent, Torn, Keys

\* The property holds before the first start.
LEMMA KeyInvHolds == KeyInit => KeyInv
<1> SUFFICES ASSUME KeyInit PROVE KeyInv
  OBVIOUS
<1>1. KeyTypeOK
  <2>1. NoPair \in [public : Int, private : Int]
    BY DEF NoPair
  <2>2. encryptedFile \in [key : Int, password : Int]
    BY DEF KeyInit, Absent
  <2> QED  BY <2>1, <2>2 DEF KeyInit, KeyTypeOK, KeyStages, Absent
<1>2. Unadopted
  BY KeyAssumption DEF KeyInit, Unadopted, Absent, Keys
<1>3. Adopted
  BY DEF KeyInit, Adopted, Absent
<1> QED  BY <1>1, <1>2, <1>3 DEF KeyInv

\* A start finds the pair the node had, or, when it has had none, cannot load.
LEMMA LoadKeeps == KeyInv /\ Load => KeyInv'
<1> SUFFICES ASSUME KeyInv, Load PROVE KeyInv'
  OBVIOUS
<1>1. KeyTypeOK'
  BY DEF KeyInv, KeyTypeOK, KeyStages, Load, Loadable, Keys, keyFiles
<1>2. ASSUME Whole PROVE Unadopted' /\ Adopted'
  BY <1>2 DEF KeyInv, KeyTypeOK, Whole, Unadopted, Adopted, Load, Stored, Loadable, Keys,
              Absent, keyFiles
<1> QED  BY <1>1, <1>2 DEF KeyInv, Whole, Load

\* Only a node without an identity finds nothing stored.
LEMMA GenerateKeeps == KeyInv /\ Generate => KeyInv'
<1> SUFFICES ASSUME KeyInv, Generate PROVE KeyInv'
  OBVIOUS
<1>1. KeyTypeOK'
  BY DEF KeyInv, KeyTypeOK, KeyStages, Generate, keyFiles
<1>2. ASSUME Whole PROVE adopted = Absent
  BY <1>2, NoKeys DEF KeyInv, Adopted, Generate, Stored
<1>3. lastKey + 1 \in Keys
  BY KeyAssumption DEF KeyInv, KeyTypeOK, Generate, Keys
<1>4. ASSUME Whole PROVE Unadopted' /\ Adopted'
  BY <1>2, <1>3, <1>4 DEF KeyInv, Unadopted, Adopted, Generate, keyFiles, keyGhosts, Keys
<1> QED  BY <1>1, <1>4 DEF KeyInv, Whole, Generate, keyGhosts

\* A rotation starts in memory, from a pair that is whole on disk.
LEMMA RotateKeeps == KeyInv /\ Rotate => KeyInv'
<1> SUFFICES ASSUME KeyInv, Rotate PROVE KeyInv'
  OBVIOUS
<1>1. KeyTypeOK'
  BY DEF KeyInv, KeyTypeOK, KeyStages, Rotate, RotationPassword, keyFiles
<1>2. ASSUME Whole PROVE adopted # Absent
  BY <1>2 DEF KeyInv, Unadopted, Rotate
<1>3. lastKey + 1 \in Keys
  BY KeyAssumption DEF KeyInv, KeyTypeOK, Rotate, Keys
<1>4. ASSUME Whole PROVE Unadopted' /\ Adopted'
  BY <1>2, <1>3, <1>4 DEF KeyInv, Unadopted, Adopted, Rotate, RotationPassword, keyFiles, Keys
<1> QED  BY <1>1, <1>4 DEF KeyInv, Whole, Rotate

\* Each write brings one more file in line with the pair in memory.
LEMMA WriteKeeps ==
  KeyInv /\ (WriteIdentity \/ WriteEncrypted \/ WritePassword \/ WriteHistory) => KeyInv'
<1> SUFFICES ASSUME KeyInv, WriteIdentity \/ WriteEncrypted \/ WritePassword \/ WriteHistory
             PROVE  KeyInv'
  OBVIOUS
<1>1. CASE WriteIdentity
  BY <1>1 DEF KeyInv, KeyTypeOK, KeyStages, Whole, Unadopted, Adopted, WriteIdentity, Keys,
              keyMemory, keyGhosts
<1>2. CASE WriteEncrypted
  BY <1>2 DEF KeyInv, KeyTypeOK, KeyStages, Whole, Unadopted, Adopted, WriteEncrypted, Keys,
              keyMemory, keyGhosts
<1>3. CASE WritePassword
  <2>1. KeyTypeOK'
    BY <1>3 DEF KeyInv, KeyTypeOK, KeyStages, WritePassword, keyMemory
  <2>2. ASSUME Whole PROVE adopted' \in Keys /\ adopted' # Absent
    BY <1>3, <2>2, KeyAssumption
       DEF KeyInv, Unadopted, Adopted, WritePassword, Keys, Absent
  <2>3. ASSUME Whole PROVE Adopted'
    BY <1>3, <2>2, <2>3 DEF KeyInv, Unadopted, Adopted, WritePassword, keyMemory, Keys
  <2> QED  BY <1>3, <2>1, <2>2, <2>3 DEF KeyInv, Whole, Unadopted, WritePassword
<1>4. CASE WriteHistory
  <2>1. KeyTypeOK'
    BY <1>4 DEF KeyInv, KeyTypeOK, KeyStages, WriteHistory
  <2>2. ASSUME Whole PROVE adopted' \in Keys /\ adopted' # Absent
    BY <1>4, <2>2, KeyAssumption
       DEF KeyInv, Unadopted, Adopted, WriteHistory, Keys, Absent
  <2>3. ASSUME Whole PROVE Adopted'
    BY <1>4, <2>2, <2>3 DEF KeyInv, KeyTypeOK, Unadopted, Adopted, WriteHistory, Keys
  <2> QED  BY <1>4, <2>1, <2>2, <2>3 DEF KeyInv, Whole, Unadopted, WriteHistory
<1> QED  BY <1>1, <1>2, <1>3, <1>4

\* A generation that is cut short leaves files no start can load; a rotation
\* that is cut short is noted.
LEMMA LossKeeps == KeyInv /\ KeysLost => KeyInv'
<1> SUFFICES ASSUME KeyInv, KeysLost PROVE KeyInv'
  OBVIOUS
<1>1. KeyTypeOK'
  <2>1. pair' \in [public : Int, private : Int]
    BY DEF KeysLost, NoPair
  <2>2. /\ encryptedFile' \in [key : Int, password : Int]
        /\ identityFile' \in Int /\ passwordFile' \in Int
    BY DEF KeyInv, KeyTypeOK, KeysLost, keyFiles, Torn
  <2> QED  BY <2>1, <2>2 DEF KeyInv, KeyTypeOK, KeyStages, KeysLost, Absent
<1>2. ASSUME Whole' PROVE Whole
  BY <1>2 DEF Whole, KeysLost
<1>3. ASSUME Whole', adopted = Absent PROVE Unadopted' /\ Adopted'
  BY <1>2, <1>3, KeyAssumption
     DEF KeyInv, KeyTypeOK, Unadopted, Adopted, KeysLost, keyFiles, Keys, Torn, Absent
<1>4. ASSUME Whole', adopted # Absent PROVE Unadopted' /\ Adopted'
  <2>1. keyPc \notin {"identity", "encrypted", "password", "history"}
    BY <1>2, <1>4 DEF KeyInv, Adopted, Whole, KeysLost
  <2> QED  BY <1>2, <1>4, <2>1 DEF KeyInv, Unadopted, Adopted, KeysLost, keyFiles
<1> QED  BY <1>1, <1>3, <1>4 DEF KeyInv

\* No step of the key store disturbs the invariant.
LEMMA KeyInvKept == KeyInv /\ [KeyNext]_keyVars => KeyInv'
<1> SUFFICES ASSUME KeyInv, [KeyNext]_keyVars PROVE KeyInv'
  OBVIOUS
<1>1. CASE KeyStep
  BY <1>1, LoadKeeps, GenerateKeeps, RotateKeeps, WriteKeeps DEF KeyStep
<1>2. CASE KeyTick
  BY <1>2 DEF KeyInv, KeyTypeOK, Whole, Unadopted, Adopted, KeyTick, keyMemory, keyFiles,
              keyGhosts
<1>3. CASE UNCHANGED keyVars
  BY <1>3 DEF KeyInv, KeyTypeOK, Whole, Unadopted, Adopted, keyVars
<1> QED  BY <1>1, <1>2, <1>3, LossKeeps DEF KeyNext

\* A node keeps its identity across any number of restarts, crashes and
\* rotations, up to the first rotation that is cut short: what it runs with is
\* what its files hold, and what it comes up with is what it was.
THEOREM IdentityKeptForever == KeySpec => []IdentitySurvives
BY KeyInvHolds, KeyInvKept, KeyInvSuffices, PTL DEF KeySpec

\* To the keys a life of the process is a behaviour of the key store.
LEMMA KeysFollowed == [Next]_vars => [KeyNext]_keyVars
<1> SUFFICES ASSUME [Next]_vars PROVE [KeyNext]_keyVars
  OBVIOUS
<1>1. CASE Boot \/ StartStep
  BY <1>1 DEF Boot, StartStep, SeedCounter, Recover, StartNode, Restore, StartFails, Gone, KeyNext
<1>2. CASE \E c \in Clients : ClientStep(c) \/ RouteStep(c)
  BY <1>2 DEF ClientStep, RouteStep, Request, Connect, Disconnect, HangUp, ReadPeers, Answer,
              SaveFails
<1>3. CASE (\E s \in Signals : Signal(s)) \/ ShutdownStep \/ TimeOutKills \/ Crash
  BY <1>3 DEF Signal, ShutdownStep, Exit, EndStep, TimeOutKills, Crash, Gone, KeyNext
<1>4. CASE NodeKeys \/ KeyTick \/ BeginPass \/ EndPass
  BY <1>4 DEF NodeKeys, KeyNext, BeginPass, EndPass
<1>5. CASE UNCHANGED vars
  BY <1>5 DEF vars
<1> QED  BY <1>1, <1>2, <1>3, <1>4, <1>5 DEF Next

\* The files and keys of a process that is started, shut down, killed and started
\* again are those of a key store whose node comes and goes.
THEOREM ProcessRunsKeyStore == Spec => KeySpec
<1>1. Init => KeyInit
  BY DEF Init
<1> QED  BY <1>1, KeysFollowed, PTL DEF Spec, KeySpec

\* So the node keeps its identity through all of them.
THEOREM IdentityOutlivesProcess == Spec => []IdentitySurvives
BY ProcessRunsKeyStore, IdentityKeptForever

-----------------------------------------------------------------------------
(***************************************************************************)
(* The keys a node was rotated out of.  As long as no rotation is cut      *)
(* short, the history (the one in memory while a rotation writes, the one  *)
(* on disk otherwise) has its keys in the order in which they were rotated *)
(* out, each with the end of its grace period, and misses none that is in  *)
(* grace and among the last three.                                         *)
(***************************************************************************)

OldKey == [key : Int, until : Int]

GraceTypeOK ==
  /\ keyClock \in Nat /\ retired \in [Keys -> Nat \cup {Never}]
  /\ keyHistory \in Seq(OldKey) /\ historyFile \in Seq(OldKey)
  /\ adopted \in Int

\* The keys rotated out after k.
RetiredAfter(k) == {j \in Keys : j > k /\ retired[j] # Never}

\* No more than two rotations have followed that of k.
FewAfter(k) == \A a, b, c \in RetiredAfter(k) : a = b \/ b = c \/ a = c

Ordered(h) == \A i, j \in DOMAIN h : i < j => h[i].key < h[j].key

Recorded(h) ==
  \A i \in DOMAIN h :
    /\ h[i].key \in Keys /\ retired[h[i].key] # Never
    /\ h[i].until = retired[h[i].key] + Grace

Remembers(h) ==
  \A k \in Keys :
    (retired[k] # Never /\ keyClock < retired[k] + Grace /\ FewAfter(k)) =>
      \E i \in DOMAIN h : h[i].key = k

HistoryOK(h) == Ordered(h) /\ Recorded(h) /\ Remembers(h)

\* A rotation is between its first write and its last.
Rewriting == adopted # Absent /\ keyPc \in {"identity", "encrypted", "history"}

\* Only keys the node no longer uses are rotated out.
Retirements ==
  \A k \in Keys : retired[k] # Never => k < adopted \/ (k = adopted /\ Rewriting)

\* A key that is written is one that was generated, by a rotation after the one
\* it puts it in place of.
Replacing ==
  /\ adopted <= lastKey
  /\ keyPc \in {"identity", "encrypted", "password", "history"} => pair.public <= lastKey
  /\ Rewriting => adopted < pair.public

OldKeysKept ==
  /\ Rewriting => HistoryOK(keyHistory)
  /\ ~Rewriting => HistoryOK(historyFile)

GraceInv == GraceTypeOK /\ (Whole => Retirements /\ Replacing /\ OldKeysKept)

\* With the invariant of the files the one of the history gives the property.
LEMMA GraceInvSuffices == KeyInv /\ GraceInv => GraceKeysKnown
<1> SUFFICES ASSUME KeyInv, GraceInv, keyPc = "up", Whole,
                    NEW k \in Keys, retired[k] # Never, keyClock < retired[k] + Grace,
                    FewAfter(k)
             PROVE  Known(k)
  BY DEF GraceKeysKnown, Whole, FewAfter, RetiredAfter
<1>1. adopted # Absent /\ keyHistory = historyFile
  BY DEF KeyInv, Unadopted, Adopted
<1>2. HistoryOK(keyHistory)
  BY <1>1 DEF GraceInv, OldKeysKept, Rewriting
<1>3. PICK i \in DOMAIN keyHistory : keyHistory[i].key = k
  BY <1>2 DEF HistoryOK, Remembers
<1>4. keyHistory[i].until = retired[k] + Grace
  BY <1>2, <1>3 DEF HistoryOK, Recorded
<1> QED
  BY <1>3, <1>4 DEF Known

\* No key has been rotated out before the first start.
LEMMA GraceInvHolds == KeyInit => GraceInv
<1> SUFFICES ASSUME KeyInit PROVE GraceInv
  OBVIOUS
<1>1. keyHistory = <<>> /\ historyFile = <<>> /\ <<>> \in Seq(OldKey) /\ DOMAIN <<>> = {}
  BY EmptySeq DEF KeyInit
<1>2. GraceTypeOK
  BY <1>1 DEF KeyInit, GraceTypeOK
<1>3. \A k \in Keys : retired[k] = Never
  BY DEF KeyInit
<1>4. HistoryOK(historyFile)
  <2>1. DOMAIN historyFile = {}
    BY <1>1
  <2> QED
    BY <1>3, <2>1 DEF HistoryOK, Ordered, Recorded, Remembers
<1>5. ~Rewriting
  BY DEF KeyInit, Rewriting
<1>6. Retirements /\ OldKeysKept
  BY <1>3, <1>4, <1>5 DEF Retirements, OldKeysKept
<1>7. Replacing
  BY <1>5 DEF KeyInit, Replacing
<1> QED
  BY <1>2, <1>6, <1>7 DEF GraceInv

\* What a rotation leaves of the history.
LEMMA LastOfElements ==
  ASSUME NEW s \in Seq(OldKey)
  PROVE  LET L == LastPlaces(Graced(s), MaxOldKeys)
         IN  /\ LastOf(s) \in Seq(OldKey)
             /\ DOMAIN LastOf(s) = 1 .. Cardinality(L)
             /\ \A k \in DOMAIN LastOf(s) : Nth(L, k) \in DOMAIN s /\ LastOf(s)[k] = s[Nth(L, k)]
             /\ \A i \in L : \E k \in DOMAIN LastOf(s) : Nth(L, k) = i
             /\ \A k, m \in DOMAIN LastOf(s) : k < m => Nth(L, k) < Nth(L, m)
<1> DEFINE L == LastPlaces(Graced(s), MaxOldKeys)
<1>1. L \in SUBSET DOMAIN s /\ LastOf(s) = Picked(s, L)
  BY DEF LastOf, LastPlaces, Graced
<1> HIDE DEF L
<1>2. /\ Picked(s, L) \in Seq(OldKey)
      /\ DOMAIN Picked(s, L) = 1 .. Cardinality(L)
      /\ \A k \in 1 .. Cardinality(L) : Nth(L, k) \in L /\ Picked(s, L)[k] = s[Nth(L, k)]
      /\ \A i \in L : \E k \in 1 .. Cardinality(L) : Nth(L, k) = i
      /\ \A k, m \in 1 .. Cardinality(L) : k < m => Nth(L, k) < Nth(L, m)
  BY <1>1, PickedElements
<1> QED
  BY <1>1, <1>2 DEF L

\* Every step keeps the types of the history and of the times.
LEMMA GraceTypesStep ==
  ASSUME KeyInv, GraceTypeOK, [KeyNext]_keyVars
  PROVE  GraceTypeOK'
<1> USE KeyAssumption
<1>0. /\ keyClock \in Nat /\ retired \in [Keys -> Nat \cup {Never}]
      /\ keyHistory \in Seq(OldKey) /\ historyFile \in Seq(OldKey)
      /\ adopted \in Int
      /\ pair.public \in Int /\ identityFile \in Int /\ Grace \in Int
  BY DEF GraceTypeOK, KeyInv, KeyTypeOK
<1>1. CASE Rotate
  <2> DEFINE e == [key |-> pair.public, until |-> keyClock + Grace]
  <2>1. e \in OldKey
    BY <1>0 DEF OldKey
  <2>2. keyHistory' = Append(keyHistory, e)
    BY <1>1 DEF Rotate
  <2> HIDE DEF e
  <2>3. keyHistory' \in Seq(OldKey)
    BY <1>0, <2>1, <2>2
  <2> QED
    BY <1>0, <1>1, <2>3 DEF Rotate, keyFiles, GraceTypeOK
<1>2. CASE WriteHistory
  BY <1>0, <1>2, LastOfElements DEF WriteHistory, GraceTypeOK
<1>3. CASE KeysLost
  <2>1. <<>> \in Seq(OldKey)
    BY EmptySeq
  <2> QED
    BY <1>0, <1>3, <2>1 DEF KeysLost, keyFiles, GraceTypeOK
<1>4. CASE Load \/ Generate
  BY <1>0, <1>4 DEF Load, Generate, keyFiles, keyGhosts, GraceTypeOK
<1>5. CASE WriteIdentity \/ WriteEncrypted \/ WritePassword
  BY <1>0, <1>5 DEF WriteIdentity, WriteEncrypted, WritePassword, keyMemory, keyGhosts, GraceTypeOK
<1>6. CASE KeyTick \/ UNCHANGED keyVars
  BY <1>0, <1>6 DEF KeyTick, keyMemory, keyFiles, keyGhosts, keyVars, GraceTypeOK
<1> QED
  BY <1>1, <1>2, <1>3, <1>4, <1>5, <1>6 DEF KeyNext, KeyStep

\* A history that is right is so later, when no other key is rotated out.
LEMMA HistoryLater ==
  ASSUME NEW h, HistoryOK(h), GraceTypeOK, UNCHANGED retired,
         keyClock' \in {keyClock, keyClock + 1}
  PROVE  HistoryOK(h)'
<1>1. Ordered(h)' /\ Recorded(h)'
  BY DEF HistoryOK, Ordered, Recorded
<1>2. Remembers(h)'
  <2> SUFFICES ASSUME NEW k \in Keys, retired[k] # Never, keyClock' < retired[k] + Grace,
                      FewAfter(k)'
               PROVE  \E i \in DOMAIN h : h[i].key = k
    BY DEF Remembers
  <2>1. FewAfter(k)
    BY DEF FewAfter, RetiredAfter
  <2>2. keyClock < retired[k] + Grace
    <3>1. keyClock \in Nat /\ retired[k] \in Int /\ Grace \in Nat
      BY KeyAssumption DEF GraceTypeOK, Never
    <3> QED
      BY <3>1
  <2> QED
    BY <2>1, <2>2 DEF HistoryOK, Remembers
<1> QED
  BY <1>1, <1>2 DEF HistoryOK

\* The key the node uses joins the history when it is rotated out.
LEMMA RotateHistory ==
  ASSUME KeyInv, GraceInv, Whole, Rotate
  PROVE  HistoryOK(keyHistory)' /\ adopted # Absent /\ adopted \in Keys /\ pair.public = adopted
<1> USE KeyAssumption
<1>1. /\ adopted # Absent /\ keyPc = "up" /\ adopted \in Keys
      /\ pair.public = adopted /\ keyHistory = historyFile /\ ~Rewriting
  BY DEF KeyInv, Unadopted, Adopted, Rotate, Rewriting
<1> DEFINE h == historyFile
           e == [key |-> adopted, until |-> keyClock + Grace]
<1>2. /\ keyClock \in Nat /\ retired \in [Keys -> Nat \cup {Never}] /\ h \in Seq(OldKey)
      /\ Ordered(h) /\ Recorded(h) /\ Remembers(h)
      /\ \A k \in Keys : retired[k] # Never => k < adopted
  BY <1>1 DEF GraceInv, GraceTypeOK, OldKeysKept, HistoryOK, Retirements
<1>3. /\ keyHistory' = Append(h, e) /\ retired' = [retired EXCEPT ![adopted] = keyClock]
      /\ keyClock' = keyClock
  BY <1>1 DEF Rotate
<1>4. e \in OldKey /\ e.key = adopted /\ e.until = keyClock + Grace
  BY <1>1, <1>2 DEF OldKey, Keys
<1> HIDE DEF e
<1>5. /\ Len(h) \in Nat /\ DOMAIN h = 1 .. Len(h) /\ DOMAIN keyHistory' = 1 .. Len(h) + 1
      /\ keyHistory'[Len(h) + 1] = e /\ \A i \in DOMAIN h : keyHistory'[i] = h[i]
  BY <1>2, <1>3, <1>4, LenProperties
<1>6. /\ \A i \in DOMAIN keyHistory' : i \in DOMAIN h \/ i = Len(h) + 1
      /\ \A i \in DOMAIN h : i \in Int /\ i # Len(h) + 1 /\ i < Len(h) + 1
  BY <1>5
<1>7. /\ retired'[adopted] = keyClock /\ retired'[adopted] # Never
      /\ \A k \in Keys : k # adopted => retired'[k] = retired[k]
      /\ \A k \in Keys : retired[k] # Never => k # adopted /\ retired'[k] = retired[k]
  BY <1>1, <1>2, <1>3 DEF Never, Keys
<1> HIDE DEF h
<1>8. Ordered(keyHistory)'
  <2> SUFFICES ASSUME NEW i \in DOMAIN keyHistory', NEW j \in DOMAIN keyHistory', i < j
               PROVE  keyHistory'[i].key < keyHistory'[j].key
    BY DEF Ordered
  <2>1. i \in DOMAIN h
    BY <1>5, <1>6
  <2>2. CASE j \in DOMAIN h
    BY <1>2, <1>5, <2>1, <2>2 DEF Ordered
  <2>3. CASE j = Len(h) + 1
    BY <1>2, <1>4, <1>5, <2>1, <2>3 DEF Recorded
  <2> QED
    BY <1>6, <2>2, <2>3
<1>9. Recorded(keyHistory)'
  <2> SUFFICES ASSUME NEW i \in DOMAIN keyHistory'
               PROVE  /\ keyHistory'[i].key \in Keys /\ retired'[keyHistory'[i].key] # Never
                      /\ keyHistory'[i].until = retired'[keyHistory'[i].key] + Grace
    BY DEF Recorded
  <2>1. CASE i \in DOMAIN h
    BY <1>2, <1>5, <1>7, <2>1 DEF Recorded
  <2>2. CASE i = Len(h) + 1
    BY <1>1, <1>4, <1>5, <1>7, <2>2
  <2> QED
    BY <1>6, <2>1, <2>2
<1>10. Remembers(keyHistory)'
  <2> SUFFICES ASSUME NEW k \in Keys, retired'[k] # Never, keyClock' < retired'[k] + Grace,
                      FewAfter(k)'
               PROVE  \E i \in DOMAIN keyHistory' : keyHistory'[i].key = k
    BY DEF Remembers
  <2>1. CASE k = adopted
    BY <1>4, <1>5, <2>1
  <2>2. CASE k # adopted
    <3>1. retired'[k] = retired[k] /\ retired[k] # Never
      BY <1>7, <2>2
    <3>2. FewAfter(k)
      BY <1>7 DEF FewAfter, RetiredAfter
    <3>3. PICK i \in DOMAIN h : h[i].key = k
      BY <1>2, <1>3, <3>1, <3>2 DEF Remembers
    <3> QED
      BY <1>5, <3>3
  <2> QED
    BY <2>1, <2>2
<1> QED
  BY <1>1, <1>8, <1>9, <1>10 DEF HistoryOK

\* Of places that come after one of a key few other keys have followed, there
\* are no more than MaxOldKeys.
LEMMA FewPlaces ==
  ASSUME NEW n \in Nat, NEW I \in SUBSET (1 .. n), NEW i \in I,
         \A a, b, c \in I : a > i /\ b > i /\ c > i => a = b \/ b = c \/ a = c
  PROVE  Cardinality({j \in I : j >= i}) <= MaxOldKeys
<1> DEFINE A == {j \in I : j >= i}
           B == {j \in I : j > i}
<1>0. \A j \in I : j \in Int
  OBVIOUS
<1>1. \E a, b \in I : B \subseteq {a, b}
  <2>1. CASE B = {}
    BY <2>1
  <2>2. ASSUME NEW a \in B PROVE \E b \in I : B \subseteq {a, b}
    <3>1. CASE B \subseteq {a}
      BY <3>1
    <3>2. CASE ~(B \subseteq {a})
      <4>1. PICK b \in B : b # a
        BY <3>2
      <4>2. \A c \in B : c = a \/ c = b
        BY <4>1
      <4> QED
        BY <4>1, <4>2
    <3> QED
      BY <3>1, <3>2
  <2> QED
    BY <2>1, <2>2
<1>2. PICK a \in I, b \in I : B \subseteq {a, b}
  BY <1>1
<1>3. A \subseteq {i, a, b}
  <2>1. \A j \in A : j = i \/ j \in B
    BY <1>0
  <2> QED
    BY <1>2, <2>1
<1>4. IsFiniteSet({i, a, b}) /\ Cardinality({i, a, b}) <= 3
  <2>1. IsFiniteSet({i}) /\ Cardinality({i}) = 1
    BY FS_Singleton
  <2>2. IsFiniteSet({i} \cup {a}) /\ Cardinality({i} \cup {a}) <= 2
    BY <2>1, FS_AddElement
  <2>3. Cardinality({i} \cup {a}) \in Nat
    BY <2>2, FS_CardinalityType
  <2>4. /\ IsFiniteSet(({i} \cup {a}) \cup {b})
        /\ Cardinality(({i} \cup {a}) \cup {b}) <= 3
    <3> DEFINE S == {i} \cup {a}
    <3>1. IsFiniteSet(S) /\ Cardinality(S) <= 2 /\ Cardinality(S) \in Nat
      BY <2>2, <2>3
    <3> HIDE DEF S
    <3>2. CASE b \in S
      <4>1. S \cup {b} = S
        BY <3>2
      <4> QED
        BY <3>1, <4>1 DEF S
    <3>3. CASE b \notin S
      <4>1. IsFiniteSet(S \cup {b}) /\ Cardinality(S \cup {b}) = Cardinality(S) + 1
        BY <3>1, <3>3, FS_AddElement
      <4> HIDE DEF S
      <4>2. Cardinality(S \cup {b}) <= 3
        BY <3>1, <4>1
      <4> QED
        BY <4>1, <4>2 DEF S
    <3> QED
      BY <3>2, <3>3
  <2>5. ({i} \cup {a}) \cup {b} = {i, a, b}
    OBVIOUS
  <2> QED
    BY <2>4, <2>5
<1>5. Cardinality(A) <= Cardinality({i, a, b}) /\ IsFiniteSet(A)
  BY <1>3, <1>4, FS_Subset
<1>6. Cardinality(A) \in Nat /\ Cardinality({i, a, b}) \in Nat
  BY <1>4, <1>5, FS_CardinalityType
<1> HIDE DEF A
<1>7. Cardinality(A) <= 3
  BY <1>4, <1>5, <1>6
<1> QED
  BY <1>7 DEF A, MaxOldKeys

\* The cut at the end of a rotation leaves the keys that are in grace and among
\* the last three.
LEMMA CutHistory ==
  ASSUME GraceTypeOK, NEW h \in Seq(OldKey), HistoryOK(h)
  PROVE  HistoryOK(LastOf(h))
<1> USE KeyAssumption
<1> DEFINE L == LastPlaces(Graced(h), MaxOldKeys)
           cut == LastOf(h)
<1>1. /\ Len(h) \in Nat /\ DOMAIN h = 1 .. Len(h) /\ Graced(h) \in SUBSET (1 .. Len(h))
      /\ keyClock \in Nat
  BY LenProperties DEF Graced, GraceTypeOK
<1>2. /\ \A k \in DOMAIN cut : Nth(L, k) \in DOMAIN h /\ cut[k] = h[Nth(L, k)]
      /\ \A i \in L : \E k \in DOMAIN cut : Nth(L, k) = i
      /\ \A k, m \in DOMAIN cut : k < m => Nth(L, k) < Nth(L, m)
  BY LastOfElements
<1> HIDE DEF L, cut
<1>3. Ordered(cut)
  BY <1>2 DEF HistoryOK, Ordered
<1>4. Recorded(cut)
  BY <1>2 DEF HistoryOK, Recorded
<1>5. Remembers(cut)
  <2> SUFFICES ASSUME NEW k \in Keys, retired[k] # Never, keyClock < retired[k] + Grace,
                      FewAfter(k)
               PROVE  \E i \in DOMAIN cut : cut[i].key = k
    BY DEF Remembers
  <2>1. PICK i \in DOMAIN h : h[i].key = k
    BY DEF HistoryOK, Remembers
  <2>2. i \in Graced(h)
    BY <2>1 DEF HistoryOK, Recorded, Graced, InGrace
  <2>3. \A j \in {l \in Graced(h) : l > i} : j \in DOMAIN h /\ h[j].key \in RetiredAfter(k)
    BY <1>1, <2>1 DEF HistoryOK, Ordered, Recorded, RetiredAfter
  <2>4. \A j, l \in DOMAIN h : h[j].key = h[l].key => j = l
    <3> SUFFICES ASSUME NEW j \in DOMAIN h, NEW l \in DOMAIN h, h[j].key = h[l].key
                 PROVE  j = l
      OBVIOUS
    <3>1. h[j].key \in Int /\ h[l].key \in Int /\ j \in Int /\ l \in Int
      BY <1>1 DEF HistoryOK, Recorded, Keys
    <3>2. ~(j < l) /\ ~(l < j)
      BY <3>1 DEF HistoryOK, Ordered
    <3> QED
      BY <3>1, <3>2
  <2>5. \A a, b, c \in {l \in Graced(h) : l > i} : a = b \/ b = c \/ a = c
    BY <2>3, <2>4 DEF FewAfter
  <2>6. Cardinality({l \in Graced(h) : l >= i}) <= MaxOldKeys
    <3> DEFINE G == Graced(h)
    <3>1. G \in SUBSET (1 .. Len(h)) /\ i \in G /\ Len(h) \in Nat
      BY <1>1, <2>2
    <3>2. \A a, b, c \in G : a > i /\ b > i /\ c > i => a = b \/ b = c \/ a = c
      BY <2>5
    <3> HIDE DEF G
    <3>3. Cardinality({l \in G : l >= i}) <= MaxOldKeys
      BY <3>1, <3>2, FewPlaces
    <3> QED
      BY <3>3 DEF G
  <2>7. i \in L
    BY <2>2, <2>6 DEF L, LastPlaces
  <2> QED
    BY <1>2, <2>1, <2>7
<1> QED
  BY <1>3, <1>4, <1>5 DEF HistoryOK, cut

\* Every step of the key store keeps its history, until a rotation is cut short.
LEMMA GraceStep ==
  ASSUME KeyInv, GraceInv, [KeyNext]_keyVars
  PROVE  GraceInv'
<1> USE KeyAssumption
<1>1. GraceTypeOK /\ GraceTypeOK'
  BY GraceTypesStep DEF GraceInv
<1> SUFFICES ASSUME Whole' PROVE Retirements' /\ Replacing' /\ OldKeysKept'
  BY <1>1 DEF GraceInv
<1>2. Whole
  BY DEF Whole, KeyNext, KeyStep, Load, Generate, Rotate, WriteIdentity, WriteEncrypted,
         WritePassword, WriteHistory, KeysLost, KeyTick, keyVars, keyGhosts
<1>3. /\ Unadopted /\ Adopted /\ KeyTypeOK
      /\ Retirements /\ Replacing /\ OldKeysKept
      /\ lastKey \in Nat /\ adopted \in Int /\ pair.public \in Int /\ Absent = 0
      /\ \A k \in Keys : k \in Int
  BY <1>1, <1>2 DEF KeyInv, KeyTypeOK, GraceInv, GraceTypeOK, Absent, Keys
<1>4. ASSUME UNCHANGED <<adopted, retired, historyFile>>, keyClock' \in {keyClock, keyClock + 1},
             ~Rewriting, ~Rewriting'
      PROVE  Retirements' /\ OldKeysKept'
  <2>1. PICK h : h = historyFile
    OBVIOUS
  <2>2. HistoryOK(h)'
    BY <1>1, <1>3, <1>4, <2>1, HistoryLater DEF OldKeysKept
  <2>3. HistoryOK(historyFile)'
    BY <1>4, <2>1, <2>2 DEF HistoryOK, Ordered, Recorded, Remembers
  <2> QED
    BY <1>3, <1>4, <2>3 DEF Retirements, OldKeysKept
<1>5. ASSUME UNCHANGED <<adopted, retired, keyHistory>>, keyClock' \in {keyClock, keyClock + 1},
             Rewriting, Rewriting'
      PROVE  Retirements' /\ OldKeysKept'
  <2>1. PICK h : h = keyHistory
    OBVIOUS
  <2>2. HistoryOK(h)'
    BY <1>1, <1>3, <1>5, <2>1, HistoryLater DEF OldKeysKept
  <2>3. HistoryOK(keyHistory)'
    BY <1>5, <2>1, <2>2 DEF HistoryOK, Ordered, Recorded, Remembers
  <2> QED
    BY <1>3, <1>5, <2>3 DEF Retirements, OldKeysKept
<1>6. CASE Load
  <2>1. UNCHANGED <<adopted, retired, historyFile, keyClock, lastKey>>
    BY <1>3, <1>6, NoKeys DEF Load, Loadable, Unadopted, Adopted, keyFiles
  <2>2. ~Rewriting /\ ~Rewriting' /\ Replacing'
    BY <1>3, <1>6, <2>1 DEF Load, Rewriting, Replacing
  <2> QED
    BY <1>4, <2>1, <2>2
<1>7. CASE Generate
  <2>1. adopted = Absent
    BY <1>3, <1>7, NoKeys DEF Adopted, Generate, Stored
  <2>2. /\ UNCHANGED <<adopted, retired, historyFile, keyClock>>
        /\ ~Rewriting /\ ~Rewriting'
        /\ lastKey' = lastKey + 1 /\ pair'.public = lastKey'
    BY <1>7, <2>1 DEF Generate, keyFiles, keyGhosts, Rewriting
  <2>3. Replacing'
    BY <1>3, <2>2 DEF Replacing
  <2> QED
    BY <1>4, <2>2, <2>3
<1>8. CASE Rotate
  <2>1. HistoryOK(keyHistory)' /\ adopted # Absent /\ adopted \in Keys /\ pair.public = adopted
    BY <1>2, <1>8, RotateHistory
  <2>2. /\ lastKey' = lastKey + 1 /\ pair'.public = lastKey' /\ adopted' = adopted
        /\ keyPc' = "identity" /\ keyPc = "up"
        /\ \A k \in Keys : k # adopted => retired'[k] = retired[k]
    BY <1>8, <2>1 DEF Rotate
  <2>3. Rewriting' /\ ~Rewriting
    BY <2>1, <2>2 DEF Rewriting
  <2>4. Retirements'
    BY <1>3, <2>2, <2>3 DEF Retirements
  <2>5. Replacing'
    BY <1>3, <2>2 DEF Replacing
  <2> QED
    BY <2>1, <2>3, <2>4, <2>5 DEF OldKeysKept
<1>9. CASE WriteIdentity \/ WriteEncrypted
  <2>1. /\ UNCHANGED <<adopted, retired, historyFile, keyHistory, keyClock, lastKey, pair>>
        /\ keyPc \in {"identity", "encrypted"}
        /\ rotating => keyPc' \in {"encrypted", "history"}
    BY <1>9 DEF WriteIdentity, WriteEncrypted, keyMemory, keyGhosts
  <2>2. CASE adopted = Absent
    <3>1. ~Rewriting /\ ~Rewriting' /\ Replacing'
      BY <1>3, <2>1, <2>2 DEF Rewriting, Replacing
    <3> QED
      BY <1>4, <2>1, <3>1
  <2>3. CASE adopted # Absent
    <3>1. Rewriting /\ Rewriting' /\ Replacing'
      BY <1>3, <2>1, <2>3 DEF Rewriting, Replacing, Adopted
    <3> QED
      BY <1>5, <2>1, <3>1
  <2> QED
    BY <2>2, <2>3
<1>10. CASE WritePassword
  <2>1. /\ UNCHANGED <<retired, historyFile, keyClock, lastKey, pair>>
        /\ keyPc = "password" /\ keyPc' = "up" /\ adopted' = pair.public
    BY <1>10 DEF WritePassword, keyMemory
  <2>2. adopted = Absent
    BY <1>3, <2>1 DEF Adopted
  <2>3. \A k \in Keys : retired[k] = Never
    BY <1>3, <2>1, <2>2 DEF Retirements, Rewriting, Keys
  <2>4. ~Rewriting /\ ~Rewriting' /\ Replacing'
    BY <1>3, <2>1 DEF Rewriting, Replacing
  <2>5. PICK h : h = historyFile
    OBVIOUS
  <2>6. HistoryOK(h)'
    BY <1>1, <1>3, <2>1, <2>4, <2>5, HistoryLater DEF OldKeysKept
  <2>7. OldKeysKept'
    BY <2>1, <2>4, <2>5, <2>6 DEF OldKeysKept, HistoryOK, Ordered, Recorded, Remembers
  <2> QED
    BY <2>1, <2>3, <2>4, <2>7 DEF Retirements
<1>11. CASE WriteHistory
  <2>1. /\ UNCHANGED <<retired, keyClock, lastKey, pair>>
        /\ keyPc = "history" /\ keyPc' = "up" /\ adopted' = pair.public
        /\ historyFile' = LastOf(keyHistory)
    BY <1>11 DEF WriteHistory
  <2>2. Rewriting /\ ~Rewriting'
    BY <1>3, <2>1 DEF Unadopted, Rewriting
  <2>3. adopted < pair.public /\ pair.public <= lastKey
    BY <1>3, <2>1, <2>2 DEF Replacing
  <2>4. Retirements' /\ Replacing'
    <3>1. Replacing'
      BY <2>1, <2>2, <2>3 DEF Replacing
    <3>2. Retirements'
      BY <1>3, <2>1, <2>3 DEF Retirements
    <3> QED
      BY <3>1, <3>2
  <2>5. PICK h : h = LastOf(keyHistory)
    OBVIOUS
  <2>6. HistoryOK(h)
    BY <1>1, <1>3, <2>2, <2>5, CutHistory DEF OldKeysKept, GraceTypeOK
  <2>7. HistoryOK(h)'
    BY <1>1, <2>1, <2>6, HistoryLater
  <2>8. OldKeysKept'
    BY <2>1, <2>2, <2>5, <2>7 DEF OldKeysKept, HistoryOK, Ordered, Recorded, Remembers
  <2> QED
    BY <2>4, <2>8
<1>12. CASE KeysLost
  <2>1. UNCHANGED <<adopted, retired, keyClock, lastKey>> /\ keyPc' = "down"
    BY <1>12 DEF KeysLost
  <2>2. ~(rotating /\ keyPc \in {"identity", "encrypted", "history"})
    BY <1>12 DEF KeysLost, Whole
  <2>3. ~Rewriting /\ keyPc # "history"
    BY <1>3, <2>2 DEF Rewriting, Adopted, Unadopted
  <2>4. UNCHANGED historyFile
    BY <1>12, <2>3 DEF KeysLost, keyFiles
  <2>5. ~Rewriting' /\ Replacing'
    BY <1>3, <2>1 DEF Rewriting, Replacing
  <2> QED
    BY <1>4, <2>1, <2>3, <2>4, <2>5
<1>13. CASE KeyTick \/ UNCHANGED keyVars
  <2>1. /\ UNCHANGED <<adopted, retired, historyFile, keyHistory, lastKey, pair, keyPc>>
        /\ keyClock' \in {keyClock, keyClock + 1}
    BY <1>13 DEF KeyTick, keyVars, keyMemory, keyFiles, keyGhosts
  <2>2. Replacing' /\ (Rewriting' <=> Rewriting)
    BY <1>3, <2>1 DEF Rewriting, Replacing
  <2> QED
    BY <1>4, <1>5, <2>1, <2>2
<1> QED
  BY <1>6, <1>7, <1>8, <1>9, <1>10, <1>11, <1>12, <1>13 DEF KeyNext, KeyStep

\* A key that was rotated out is known for its grace period, whatever rotations,
\* crashes and restarts come, unless a rotation is cut short or more than two
\* others have followed its own.
THEOREM OldKeysAlwaysKnown == KeySpec => []GraceKeysKnown
BY KeyInvHolds, KeyInvKept, GraceInvHolds, GraceStep, GraceInvSuffices, PTL DEF KeySpec

\* So is a key of the node whose process is started, shut down and killed.
THEOREM OldKeysOutliveProcess == Spec => []GraceKeysKnown
BY ProcessRunsKeyStore, OldKeysAlwaysKnown

-----------------------------------------------------------------------------
(***************************************************************************)
(* The answers                                                             *)
(***************************************************************************)

\* A request that is under way names what it is about, and has one way to go on.
RequestOK(r) ==
  /\ DOMAIN r = {"kind", "about", "stage", "read", "alone"}
  /\ \/ r.kind = "none" /\ r.stage = "idle"
     \/ r.kind \in {"subscribe", "unsubscribe"} /\ r.about \in Topics /\ r.stage = "saving"
     \/ r.kind = "addPeer" /\ r.about \in Peers /\ r.stage \in {"reading", "saving"}

LifeTypeOK ==
  /\ request = [c \in Clients |-> request[c]]
  /\ promised = [x \in Topics \cup Peers |-> promised[x]]
  /\ \A c \in Clients : RequestOK(request[c])
  /\ proc # "serving" => topics = {} /\ \A c \in Clients : ~Busy(c)

\* Nothing is promised of what a request is changing, and a request that is
\* alone is the only one to change it.
RequestsApart ==
  \A c \in Clients : Busy(c) =>
    /\ promised[request[c].about] = "open"
    /\ request[c].alone => \A d \in Clients : ~Conflicting(c, d, request[c].kind, request[c].about)

\* What is promised of a topic is saved and so; what a lone request asks for is so.
TopicsKept ==
  /\ \A t \in Topics :
       /\ promised[t] = "in" =>
            t \in savedTopics /\ (proc = "serving" /\ t \in Scanned => t \in topics)
       /\ promised[t] = "out" => t \notin savedTopics /\ t \notin topics
  /\ \A c \in Clients : request[c].alone =>
       /\ request[c].kind = "subscribe" => request[c].about \in topics
       /\ request[c].kind = "unsubscribe" => request[c].about \notin topics

\* A peer that is promised is in the list, and in each copy that is to replace it.
PeersKept ==
  configPeers = {} => \A p \in Peers : promised[p] = "in" =>
    /\ p \in savedPeers
    /\ \A c \in Clients :
         (request[c].kind = "addPeer" /\ request[c].stage = "saving") => p \in request[c].read

AnswerInv == LifeTypeOK /\ RequestsApart /\ TopicsKept /\ PeersKept

\* The invariant says what the property says, and more.
LEMMA AnswerInvSuffices == AnswerInv => AnswersLast
BY DEF AnswerInv, TopicsKept, PeersKept, AnswersLast

\* Nothing is saved and nothing asked for when the process starts first.
LEMMA AnswerInvHolds == Init => AnswerInv
BY LifecycleAssumption
   DEF Init, AnswerInv, LifeTypeOK, RequestOK, RequestsApart, TopicsKept, PeersKept, Busy, Idle

\* The first start and later ones restore what was saved.
LEMMA StartKeepsAnswers ==
  AnswerInv /\ (Boot \/ SeedCounter \/ Recover \/ StartNode \/ Restore) => AnswerInv'
<1> SUFFICES ASSUME AnswerInv, Boot \/ SeedCounter \/ Recover \/ StartNode \/ Restore
             PROVE  AnswerInv'
  OBVIOUS
<1> USE DEF AnswerInv, LifeTypeOK, RequestsApart, TopicsKept, PeersKept, Busy, Conflicting
<1>1. CASE Boot
  BY <1>1 DEF Boot, fixed, shutdown, clients
<1>2. CASE SeedCounter \/ Recover \/ StartNode
  BY <1>2 DEF SeedCounter, Recover, StartNode, fixed, db, clients
<1>3. CASE Restore
  BY <1>3 DEF Restore, Subscriptions, fixed, db, clients, RequestOK
<1> QED  BY <1>1, <1>2, <1>3

\* A request withdraws what was promised of its subject, and makes those it
\* meets there meet it.
LEMMA RequestKeepsAnswers ==
  ASSUME AnswerInv, NEW c \in Clients, NEW kind, NEW x, Request(c, kind, x),
         \/ kind \in {"subscribe", "unsubscribe"} /\ x \in Topics
         \/ kind = "addPeer" /\ x \in Peers
  PROVE  AnswerInv'
<1> DEFINE others == {d \in Clients : Conflicting(c, d, kind, x)}
<1> USE DEF AnswerInv
<1>1. /\ request'[c].kind = kind /\ request'[c].about = x
      /\ request'[c].stage = IF kind = "addPeer" THEN "reading" ELSE "saving"
      /\ request'[c].alone <=> others = {}
      /\ DOMAIN request'[c] = {"kind", "about", "stage", "read", "alone"}
  BY DEF Request
<1>2. ASSUME NEW d \in Clients, d # c
      PROVE  /\ request'[d].kind = request[d].kind /\ request'[d].about = request[d].about
             /\ request'[d].stage = request[d].stage /\ request'[d].read = request[d].read
             /\ request'[d].alone <=> (request[d].alone /\ d \notin others)
             /\ DOMAIN request'[d] = {"kind", "about", "stage", "read", "alone"}
  BY <1>2 DEF Request, LifeTypeOK, RequestOK
<1>3. request' = [d \in Clients |-> request'[d]]
  BY DEF Request
<1>4. /\ promised' = [promised EXCEPT ![x] = "open"]
      /\ UNCHANGED <<proc, configPeers, savedTopics, savedPeers>>
      /\ proc = "serving"
  BY DEF Request, Promise, fixed, db, Serving
<1>5. LifeTypeOK'
  <2>1. promised' = [y \in Topics \cup Peers |-> promised'[y]]
    BY <1>4 DEF LifeTypeOK
  <2>2. \A d \in Clients : RequestOK(request[d])'
    BY <1>1, <1>2 DEF LifeTypeOK, RequestOK
  <2> QED  BY <1>3, <1>4, <2>1, <2>2 DEF LifeTypeOK
<1>6. RequestsApart'
  <2> SUFFICES ASSUME NEW d \in Clients, Busy(d)'
               PROVE  /\ promised'[request'[d].about] = "open"
                      /\ request'[d].alone => \A e \in Clients :
                           ~Conflicting(d, e, request[d].kind, request[d].about)'
    BY DEF RequestsApart
  <2>1. promised'[request'[d].about] = "open"
    <3>1. \A y \in Topics \cup Peers : promised'[y] = IF y = x THEN "open" ELSE promised[y]
      BY <1>4 DEF LifeTypeOK
    <3>2. CASE d = c
      BY <1>1, <3>1, <3>2
    <3>3. CASE d # c
      <4>1. Busy(d) /\ request'[d].about = request[d].about
        BY <1>2, <3>3 DEF Busy
      <4>2. request[d].about \in Topics \cup Peers
        BY <4>1 DEF LifeTypeOK, RequestOK, Busy
      <4> QED  BY <3>1, <4>1, <4>2 DEF RequestsApart
    <3> QED  BY <3>2, <3>3
  <2>2. ASSUME request'[d].alone, NEW e \in Clients
        PROVE  ~Conflicting(d, e, request[d].kind, request[d].about)'
    <3>1. CASE d = c
      BY <1>1, <1>2, <2>2, <3>1 DEF Conflicting, Busy
    <3>2. CASE d # c /\ e = c
      BY <1>1, <1>2, <2>2, <3>2 DEF Conflicting, Busy
    <3>3. CASE d # c /\ e # c
      BY <1>2, <2>2, <3>3 DEF RequestsApart, Conflicting, Busy
    <3> QED  BY <3>1, <3>2, <3>3
  <2> QED  BY <2>1, <2>2
<1>7. TopicsKept'
  <2>1. topics' = CASE kind = "subscribe" -> topics \cup {x}
                    [] kind = "unsubscribe" -> topics \ {x}
                    [] OTHER -> topics
    BY DEF Request
  <2>2. ASSUME NEW t \in Topics
        PROVE  /\ promised'[t] = "in" => t \in savedTopics' /\ (t \in Scanned => t \in topics')
               /\ promised'[t] = "out" => t \notin savedTopics' /\ t \notin topics'
    BY <1>4, <2>1 DEF TopicsKept, LifeTypeOK
  <2>3. ASSUME NEW d \in Clients, request'[d].alone
        PROVE  /\ request'[d].kind = "subscribe" => request'[d].about \in topics'
               /\ request'[d].kind = "unsubscribe" => request'[d].about \notin topics'
    <3>1. CASE d = c
      BY <1>1, <2>1, <3>1
    <3>2. CASE d # c /\ Busy(d)
      BY <1>1, <1>2, <2>1, <2>3, <3>2 DEF TopicsKept, Conflicting
    <3>3. CASE d # c /\ ~Busy(d)
      BY <1>2, <3>3 DEF Busy
    <3> QED  BY <3>1, <3>2, <3>3
  <2> QED  BY <2>2, <2>3 DEF TopicsKept
<1>8. PeersKept'
  BY <1>1, <1>2, <1>4 DEF PeersKept, LifeTypeOK
<1> QED  BY <1>5, <1>6, <1>7, <1>8

\* The peers are read with all that is promised among them.
LEMMA ReadKeepsAnswers ==
  ASSUME AnswerInv, NEW c \in Clients, ReadPeers(c) PROVE AnswerInv'
<1> USE DEF AnswerInv
<1>1. /\ request'[c].kind = request[c].kind /\ request'[c].about = request[c].about
      /\ request'[c].stage = "saving" /\ request'[c].read = savedPeers
      /\ request'[c].alone = request[c].alone
      /\ DOMAIN request'[c] = DOMAIN request[c]
  BY DEF ReadPeers, LifeTypeOK, RequestOK
<1>2. \A d \in Clients : d # c => request'[d] = request[d]
  BY DEF ReadPeers, LifeTypeOK
<1>3. /\ request' = [d \in Clients |-> request'[d]]
      /\ request[c].kind = "addPeer"
      /\ UNCHANGED <<proc, configPeers, topics, savedTopics, savedPeers, promised>>
  BY DEF ReadPeers, LifeTypeOK, RequestOK, fixed, db
<1>4. LifeTypeOK'
  BY <1>1, <1>2, <1>3 DEF LifeTypeOK, RequestOK, Busy
<1>5. RequestsApart'
  BY <1>1, <1>2, <1>3 DEF RequestsApart, Busy, Conflicting
<1>6. TopicsKept'
  BY <1>1, <1>2, <1>3 DEF TopicsKept
<1>7. PeersKept'
  BY <1>1, <1>2, <1>3 DEF PeersKept
<1> QED  BY <1>4, <1>5, <1>6, <1>7

\* What is saved is promised only to a request that was alone, and the list of
\* peers it saves holds what was promised before.
LEMMA AnswerKeepsAnswers ==
  ASSUME AnswerInv, NEW c \in Clients, Answer(c) PROVE AnswerInv'
<1> USE DEF AnswerInv
<1> DEFINE asked == request[c]
<1>1. /\ request' = [request EXCEPT ![c] = Idle]
      /\ UNCHANGED <<proc, configPeers, topics>>
      /\ asked.stage = "saving" /\ asked.kind # "none" /\ RequestOK(asked) /\ proc = "serving"
  BY DEF Answer, LifeTypeOK, RequestOK, Busy, fixed
<1>2. /\ request'[c] = Idle
      /\ \A d \in Clients : d # c => request'[d] = request[d]
  BY <1>1 DEF LifeTypeOK
<1>3. /\ promised' = [x \in Topics \cup Peers |-> promised'[x]]
      /\ \A x \in Topics \cup Peers : x # asked.about => promised'[x] = promised[x]
      /\ \/ promised' = promised
         \/ /\ asked.alone
            /\ promised'[asked.about] = IF asked.kind = "unsubscribe" THEN "out" ELSE "in"
  BY <1>1 DEF Answer, Promise, LifeTypeOK, RequestOK
<1>4. LifeTypeOK'
  <2>1. request' = [d \in Clients |-> request'[d]]
    BY <1>1 DEF LifeTypeOK
  <2>2. RequestOK(Idle) /\ Idle.kind = "none" /\ Idle.stage = "idle"
    BY DEF RequestOK, Idle
  <2> QED  BY <1>1, <1>2, <1>3, <2>1, <2>2 DEF LifeTypeOK
<1>5. RequestsApart'
  <2> SUFFICES ASSUME NEW d \in Clients, Busy(d)'
               PROVE  /\ promised'[request'[d].about] = "open"
                      /\ request'[d].alone => \A e \in Clients :
                           ~Conflicting(d, e, request[d].kind, request[d].about)'
    BY DEF RequestsApart
  <2>1. d # c /\ Busy(d) /\ request'[d] = request[d]
    BY <1>2 DEF Busy, Idle
  <2>2. promised'[request'[d].about] = "open"
    <3>1. request[d].about \in Topics \cup Peers
      BY <2>1 DEF LifeTypeOK, RequestOK, Busy
    <3>2. asked.alone => request[d].about # asked.about
      BY <1>1, <2>1 DEF RequestsApart, Conflicting, Busy
    <3> QED  BY <1>3, <2>1, <3>1, <3>2 DEF RequestsApart
  <2>3. ASSUME request'[d].alone, NEW e \in Clients
        PROVE  ~Conflicting(d, e, request[d].kind, request[d].about)'
    <3>1. CASE e = c
      BY <1>2, <3>1 DEF Conflicting, Busy, Idle
    <3>2. CASE e # c
      BY <1>2, <2>1, <2>3, <3>2 DEF RequestsApart, Conflicting, Busy
    <3> QED  BY <3>1, <3>2
  <2> QED  BY <2>2, <2>3
<1>6. TopicsKept'
  <2>1. CASE asked.kind = "addPeer"
    <3>1. UNCHANGED savedTopics /\ asked.about \notin Topics
      BY <1>1, <2>1, LifecycleAssumption DEF Answer, RequestOK
    <3> QED  BY <1>1, <1>2, <1>3, <3>1 DEF TopicsKept, Idle
  <2>2. CASE asked.kind = "subscribe"
    <3>1. savedTopics' = savedTopics \cup {asked.about}
      BY <2>2 DEF Answer, TopicSaved
    <3>2. promised[asked.about] = "open"
      BY <1>1 DEF RequestsApart, Busy
    <3> QED  BY <1>1, <1>2, <1>3, <2>2, <3>1, <3>2 DEF TopicsKept, Idle
  <2>3. CASE asked.kind = "unsubscribe"
    <3>1. savedTopics' = savedTopics \ {asked.about}
      BY <2>3 DEF Answer, TopicSaved
    <3>2. promised[asked.about] = "open"
      BY <1>1 DEF RequestsApart, Busy
    <3> QED  BY <1>1, <1>2, <1>3, <2>3, <3>1, <3>2 DEF TopicsKept, Idle
  <2> QED  BY <1>1, <2>1, <2>2, <2>3 DEF RequestOK
<1>7. PeersKept'
  <2>1. CASE asked.kind = "addPeer"
    <3>1. savedPeers' = asked.read \cup {asked.about}
      BY <2>1 DEF Answer
    <3>2. asked.alone => \A d \in Clients : d # c => request[d].kind # "addPeer"
      BY <1>1, <2>1 DEF RequestsApart, Conflicting, Busy
    <3>3. promised[asked.about] = "open" /\ asked.about \in Peers
      BY <1>1, <2>1 DEF RequestsApart, Busy, RequestOK
    <3> QED  BY <1>1, <1>2, <1>3, <2>1, <3>1, <3>2, <3>3 DEF PeersKept, Idle
  <2>2. CASE asked.kind # "addPeer"
    <3>1. UNCHANGED savedPeers /\ asked.about \notin Peers
      BY <1>1, <2>2, LifecycleAssumption DEF Answer, RequestOK
    <3> QED  BY <1>1, <1>2, <1>3, <3>1 DEF PeersKept, Idle
  <2> QED  BY <2>1, <2>2
<1> QED  BY <1>4, <1>5, <1>6, <1>7

\* A request that cannot save leaves things as they are, and open.
LEMMA FailureKeepsAnswers ==
  ASSUME AnswerInv, NEW c \in Clients, SaveFails(c) PROVE AnswerInv'
<1> USE DEF AnswerInv
<1>1. /\ request' = [request EXCEPT ![c] = Idle]
      /\ UNCHANGED <<proc, configPeers, topics, savedTopics, savedPeers, promised>>
  BY DEF SaveFails, fixed, db
<1>2. /\ request'[c] = Idle
      /\ \A d \in Clients : d # c => request'[d] = request[d]
  BY <1>1 DEF LifeTypeOK
<1>3. RequestOK(Idle) /\ Idle.kind = "none" /\ Idle.stage = "idle"
  BY DEF RequestOK, Idle
<1>4. LifeTypeOK'
  BY <1>1, <1>2, <1>3 DEF LifeTypeOK, Busy
<1>5. RequestsApart'
  BY <1>1, <1>2, <1>3 DEF RequestsApart, Conflicting, Busy
<1>6. TopicsKept' /\ PeersKept'
  BY <1>1, <1>2, <1>3 DEF TopicsKept, PeersKept
<1> QED  BY <1>4, <1>5, <1>6

\* What the process forgets when it ends is in the database.
LEMMA EndKeepsAnswers ==
  ASSUME AnswerInv, NEW next \in {"down", "exited"}, Gone(next) PROVE AnswerInv'
<1> USE DEF AnswerInv
<1>1. LifeTypeOK'
  BY DEF Gone, LifeTypeOK, RequestOK, Idle, Busy
<1>2. RequestsApart' /\ PeersKept'
  BY DEF Gone, fixed, db, RequestsApart, PeersKept, Idle, Busy
<1>3. TopicsKept'
  BY DEF Gone, db, TopicsKept, Idle
<1> QED  BY <1>1, <1>2, <1>3

\* Steps that touch neither requests nor what they are about.
LEMMA OthersKeepAnswers ==
  ASSUME AnswerInv,
         UNCHANGED <<configPeers, proc, topics, request, savedTopics, savedPeers, promised>>
  PROVE  AnswerInv'
<1>1. LifeTypeOK'
  BY DEF AnswerInv, LifeTypeOK, Busy
<1>2. RequestsApart'
  BY DEF AnswerInv, RequestsApart, Busy, Conflicting
<1>3. TopicsKept' /\ PeersKept'
  BY DEF AnswerInv, TopicsKept, PeersKept
<1> QED  BY <1>1, <1>2, <1>3 DEF AnswerInv

\* No step of the process disturbs the invariant.
LEMMA AnswerInvKept == AnswerInv /\ [Next]_vars => AnswerInv'
<1> SUFFICES ASSUME AnswerInv, [Next]_vars PROVE AnswerInv'
  OBVIOUS
<1>1. CASE Boot \/ StartStep
  BY <1>1, StartKeepsAnswers, EndKeepsAnswers DEF StartStep, StartFails
<1>2. ASSUME NEW c \in Clients, ClientStep(c) PROVE AnswerInv'
  <2>1. CASE Connect(c) \/ Disconnect(c) \/ HangUp(c)
    BY <2>1, OthersKeepAnswers DEF Connect, Disconnect, HangUp, fixed, db
  <2> QED  BY <1>2, <2>1, RequestKeepsAnswers DEF ClientStep
<1>3. ASSUME NEW c \in Clients, RouteStep(c) PROVE AnswerInv'
  BY <1>3, ReadKeepsAnswers, AnswerKeepsAnswers, FailureKeepsAnswers DEF RouteStep
<1>4. CASE Exit \/ TimeOutKills \/ Crash
  BY <1>4, EndKeepsAnswers DEF Exit, TimeOutKills, Crash
<1>5. ASSUME NEW s \in Signals, Signal(s) \/ \E success \in BOOLEAN : EndStep(s, success)
      PROVE  AnswerInv'
  BY <1>5, OthersKeepAnswers DEF Signal, EndStep, fixed, db, clients
<1>6. CASE NodeKeys \/ (KeyTick /\ UNCHANGED lifeVars) \/ UNCHANGED vars
  BY <1>6, OthersKeepAnswers DEF NodeKeys, vars, lifeVars, fixed, db, clients
<1>7. CASE BeginPass \/ EndPass
  BY <1>7, OthersKeepAnswers DEF BeginPass, EndPass, fixed, db, clients
<1> QED  BY <1>1, <1>2, <1>3, <1>4, <1>5, <1>6, <1>7 DEF Next, ShutdownStep

\* What the API has answered lasts, whatever requests are made at the same time
\* and however often the process ends and starts again, but for the subscription
\* to a topic the scan does not come to: it stays saved and no start restores it.
THEOREM AnswersAlwaysLast == Spec => []AnswersLast
BY AnswerInvHolds, AnswerInvKept, AnswerInvSuffices, PTL DEF Spec

-----------------------------------------------------------------------------
(***************************************************************************)
(* The shutdown                                                            *)
(***************************************************************************)

\* The steps by their numbers.
LEMMA StepNames ==
  /\ StepNumbers = 1 .. 7 /\ Ended = 8
  /\ Steps[1] = "background" /\ Steps[2] = "api" /\ Steps[3] = "metrics" /\ Steps[4] = "flush"
  /\ Steps[5] = "p2p" /\ Steps[6] = "persist" /\ Steps[7] = "database"
BY DEF StepNumbers, Ended, Steps

\* A set of steps that is not empty has a first one.
LEMMA FirstStep ==
  ASSUME NEW S, S \subseteq 1 .. 7, S # {}
  PROVE  \E j \in S : \A k \in S : j <= k
<1>1. CASE \E j \in 1 .. 3 : j \in S
  BY <1>1
<1>2. CASE S \subseteq 4 .. 7
  <2>1. CASE 4 \in S
    BY <1>2, <2>1
  <2>2. CASE 4 \notin S /\ 5 \in S
    BY <1>2, <2>2
  <2>3. CASE S \subseteq {6, 7}
    <3>1. CASE 6 \in S
      BY <2>3, <3>1
    <3>2. CASE S = {7}
      BY <3>2
    <3> QED  BY <2>3, <3>1, <3>2
  <2>4. 4 \notin S /\ 5 \notin S => S \subseteq {6, 7}
    BY <1>2
  <2> QED  BY <2>1, <2>2, <2>3, <2>4
<1> QED  BY <1>1, <1>2

\* Of the later steps that are configured the next one is the first.
LEMMA NextStep ==
  ASSUME NEW i \in 0 .. 7
  PROVE  /\ After(i) \in i + 1 .. Ended
         /\ After(i) # Ended => Configured(After(i))
         /\ \A j \in StepNumbers : (i < j /\ Configured(j)) => After(i) <= j
<1> DEFINE later == {j \in StepNumbers : j > i /\ Configured(j)}
           first == CHOOSE j \in later : \A k \in later : j <= k
<1>1. CASE later = {}
  BY <1>1, StepNames DEF After
<1>2. CASE later # {}
  <2>1. first \in later /\ \A k \in later : first <= k
    <3>1. later \subseteq 1 .. 7
      BY StepNames
    <3> HIDE DEF later
    <3> QED  BY <1>2, <3>1, FirstStep
  <2>2. After(i) = first
    BY <1>2 DEF After
  <2> HIDE DEF first
  <2>3. first \in i + 1 .. 7 /\ Configured(first)
    BY <2>1, StepNames
  <2> QED  BY <2>1, <2>2, <2>3, StepNames
<1> QED  BY <1>1, <1>2

\* One signal at most has a shutdown, and its steps so far are the configured
\* ones, in order, up to the one it is at.
StepsInOrder ==
  /\ run \in [Signals -> 0 .. Ended] /\ ran \in Seq(StepNumbers)
  /\ \A s, t \in Signals : (run[s] # 0 /\ run[t] # 0) => s = t
  /\ (\A s \in Signals : run[s] = 0) => ran = <<>>
  /\ \A i \in DOMAIN ran : Configured(ran[i])
  /\ \A i, j \in DOMAIN ran : i < j => ran[i] < ran[j]
  /\ \A s \in Signals : run[s] # 0 =>
       /\ \A j \in DOMAIN ran : ran[j] <= run[s]
       /\ \A i \in StepNumbers :
            (Configured(i) /\ i <= run[s]) => \E j \in DOMAIN ran : ran[j] = i

\* Past the first step there are no timers, past the API's no client waits for an
\* answer, past the node's there is no node unless stopping it failed or is not
\* configured, and only at the end is the database closed.
DatabaseLast ==
  /\ proc # "serving" => \A s \in Signals : run[s] = 0
  /\ proc \notin {"down", "exited", "serving"} => dbOpen
  /\ proc = "serving" =>
       /\ ~dbOpen => \E s \in Signals : run[s] = Ended
       /\ \A s \in Signals : run[s] > 1 => ~background
       /\ \A s \in Signals : run[s] > 2 => waiting = {}
       /\ \A s \in Signals : run[s] > 5 =>
            stepFailed \/ "p2p" \notin shutdownConfig.steps \/ ~nodeUp

ShutdownInv == StepsInOrder /\ DatabaseLast

\* The invariant says what the property says, and more.
LEMMA ShutdownInvSuffices == ShutdownInv => ShutdownInOrder
<1> SUFFICES ASSUME ShutdownInv PROVE ShutdownInOrder
  OBVIOUS
<1>1. /\ \A i \in DOMAIN ran : Configured(ran[i])
      /\ \A i, j \in DOMAIN ran : i < j => ran[i] < ran[j]
  BY DEF ShutdownInv, StepsInOrder
<1>2. \A s \in Signals : run[s] = Ended => \A i \in StepNumbers :
        Configured(i) => \E j \in DOMAIN ran : ran[j] = i
  BY StepNames DEF ShutdownInv, StepsInOrder
<1>3. (proc = "serving" /\ ~dbOpen) =>
        /\ waiting = {} /\ ~background
        /\ ~stepFailed /\ "p2p" \in shutdownConfig.steps => ~nodeUp
  BY StepNames DEF ShutdownInv, DatabaseLast
<1> QED  BY <1>1, <1>2, <1>3 DEF ShutdownInOrder

\* No shutdown is in progress before the process starts.
LEMMA ShutdownInvHolds == Init => ShutdownInv
<1> SUFFICES ASSUME Init PROVE ShutdownInv
  OBVIOUS
<1>1. run = [s \in Signals |-> 0] /\ ran = <<>> /\ proc = "down"
  BY DEF Init
<1> QED  BY <1>1, StepNames DEF ShutdownInv, StepsInOrder, DatabaseLast

\* The step a shutdown goes on to keeps the order of those before it.
LEMMA EnterKeepsOrder ==
  ASSUME ShutdownInv, NEW s \in Signals, UNCHANGED shutdownConfig,
         \/ FirstSignal(s) /\ Enter(s, After(0))
         \/ run[s] \in StepNumbers /\ Enter(s, After(run[s]))
  PROVE  StepsInOrder'
<1> DEFINE i == run[s]
           next == After(i)
<1>1. /\ i \in 0 .. 7 /\ Enter(s, next)
      /\ \A t \in Signals : t # s => run[t] = 0
  BY StepNames DEF ShutdownInv, StepsInOrder, FirstSignal
<1>2. /\ next \in i + 1 .. 8
      /\ next # 8 => Configured(next)
      /\ \A j \in StepNumbers : (i < j /\ Configured(j)) => next <= j
  BY <1>1, NextStep, StepNames
<1> HIDE DEF next
<1>3. run' = [run EXCEPT ![s] = next] /\ run \in [Signals -> 0 .. 8]
  BY <1>1, StepNames DEF Enter, ShutdownInv, StepsInOrder
<1>4. \A j \in DOMAIN ran : ran[j] <= i
  BY <1>1 DEF ShutdownInv, StepsInOrder
<1>5. \A j : Configured(j)' = Configured(j)
  BY DEF Configured
<1>6. /\ run' \in [Signals -> 0 .. 8] /\ run'[s] = next /\ next # 0
      /\ \A t \in Signals : run'[t] # 0 => t = s
  BY <1>1, <1>2, <1>3
<1>7. ASSUME NEW j \in 1 .. 7, Configured(j), j <= next
      PROVE  (\E k \in DOMAIN ran : ran[k] = j) \/ j = next
  <2>1. CASE j <= i
    BY <1>1, <1>7, <2>1, StepNames DEF ShutdownInv, StepsInOrder
  <2>2. CASE i < j
    BY <1>1, <1>2, <1>7, <2>2, StepNames
  <2> QED  BY <1>1, <2>1, <2>2
<1>8. ran \in Seq(1 .. 7)
  BY StepNames DEF ShutdownInv, StepsInOrder
<1> DEFINE OrderedRun(r) ==
             /\ r \in Seq(1 .. 7)
             /\ \A j \in DOMAIN r : Configured(r[j]) /\ r[j] <= next
             /\ \A j, k \in DOMAIN r : j < k => r[j] < r[k]
             /\ \A j \in 1 .. 7 :
                  (Configured(j) /\ j <= next) => \E k \in DOMAIN r : r[k] = j
<1>9. OrderedRun(ran')
  <2>1. /\ \A j \in DOMAIN ran : ran[j] \in 1 .. 7 /\ Configured(ran[j]) /\ ran[j] < next
        /\ \A j, k \in DOMAIN ran : j < k => ran[j] < ran[k]
    BY <1>1, <1>2, <1>4, <1>8 DEF ShutdownInv, StepsInOrder
  <2>2. CASE next = 8
    <3>1. ran' = ran
      BY <1>1, <2>2, StepNames DEF Enter
    <3>2. \A j \in DOMAIN ran : ran[j] <= next
      BY <1>2, <2>1
    <3> QED  BY <1>7, <1>8, <2>1, <2>2, <3>1, <3>2
  <2>3. CASE next # 8
    <3>1. ran' = Append(ran, next) /\ next \in 1 .. 7
      BY <1>1, <1>2, <2>3, StepNames DEF Enter
    <3>2. /\ ran' \in Seq(1 .. 7)
          /\ \A j \in DOMAIN ran : j \in DOMAIN ran' /\ ran'[j] = ran[j] /\ j < Len(ran')
          /\ ran'[Len(ran')] = next /\ Len(ran') \in DOMAIN ran'
          /\ \A j \in DOMAIN ran' : j = Len(ran') \/ j \in DOMAIN ran
      BY <1>8, <3>1
    <3>3. \A j \in DOMAIN ran' : Configured(ran'[j]) /\ ran'[j] <= next
      BY <1>2, <2>1, <2>3, <3>1, <3>2
    <3>4. ASSUME NEW j \in DOMAIN ran', NEW k \in DOMAIN ran', j < k PROVE ran'[j] < ran'[k]
      <4>1. j \in DOMAIN ran
        BY <1>8, <3>1, <3>2, <3>4
      <4> QED  BY <2>1, <3>2, <3>4, <4>1
    <3>5. ASSUME NEW j \in 1 .. 7, Configured(j), j <= next
          PROVE  \E k \in DOMAIN ran' : ran'[k] = j
      BY <1>7, <3>2, <3>5
    <3> QED  BY <3>2, <3>3, <3>4, <3>5
  <2> QED  BY <2>2, <2>3
<1> QED  BY <1>5, <1>6, <1>9, StepNames DEF StepsInOrder

\* A signal begins the one shutdown there is.
LEMMA SignalKeepsShutdown ==
  ASSUME ShutdownInv, NEW s \in Signals, Signal(s) PROVE ShutdownInv'
<1>1. StepsInOrder'
  BY EnterKeepsOrder DEF Signal, fixed
<1>2. run' = [run EXCEPT ![s] = After(0)] /\ After(0) <= 1
  <2>1. Configured(1) /\ 1 \in StepNumbers
    BY StepNames DEF Configured, Always
  <2> QED  BY <2>1, NextStep, StepNames DEF Signal, Enter
<1>3. \A t \in Signals : run[t] = 0
  BY DEF Signal, FirstSignal
<1>4. \A t \in Signals : run'[t] \in 0 .. 1
  BY <1>1, <1>2, <1>3, StepNames DEF ShutdownInv, StepsInOrder
<1>5. DatabaseLast'
  <2>1. proc = "serving" /\ proc' = proc /\ dbOpen' = dbOpen
    BY DEF Signal, parts
  <2>2. dbOpen
    BY <1>3, <2>1, StepNames DEF ShutdownInv, DatabaseLast
  <2>3. \A t \in Signals : ~(run'[t] > 1) /\ ~(run'[t] > 2) /\ ~(run'[t] > 5)
    BY <1>4
  <2> QED  BY <2>1, <2>2, <2>3 DEF DatabaseLast
<1> QED  BY <1>1, <1>5 DEF ShutdownInv

\* The first step has cleared the timers, the API's has waited for the clients,
\* and the node's has stopped it or failed, before the step that closes the
\* database.
LEMMA EndStepKeepsShutdown ==
  ASSUME ShutdownInv, NEW s \in Signals, NEW success \in BOOLEAN, EndStep(s, success)
  PROVE  ShutdownInv'
<1> DEFINE i == run[s]
           next == After(i)
<1>1. StepsInOrder'
  BY EnterKeepsOrder DEF EndStep, fixed
<1>2. i \in 1 .. 7 /\ run' = [run EXCEPT ![s] = next]
  BY StepNames DEF EndStep, Enter
<1>3. /\ next \in i + 1 .. 8
      /\ \A j \in 1 .. 7 : (i < j /\ Configured(j)) => next <= j
  BY <1>2, NextStep, StepNames
<1> HIDE DEF next
<1>4. \A t \in Signals : run'[t] = IF t = s THEN next ELSE 0
  BY <1>2 DEF ShutdownInv, StepsInOrder
<1>5. /\ UNCHANGED <<proc, waiting, shutdownConfig>>
      /\ proc = "serving"
      /\ stepFailed => stepFailed'
  BY <1>2 DEF EndStep, fixed, clients, ShutdownInv, DatabaseLast
<1>6. ASSUME dbOpen, ~dbOpen' PROVE next = 8
  <2>1. AtStep(s, "database")
    BY <1>6 DEF EndStep, StepDone, parts
  <2>2. i = 7
    BY <1>2, <2>1, StepNames DEF AtStep
  <2> QED  BY <1>3, <2>2
<1>7. ASSUME next > 2 PROVE waiting = {}
  <2>1. CASE i = 1
    <3>1. Configured(2)
      BY StepNames DEF Configured, Always
    <3> QED  BY <1>3, <1>7, <2>1, <3>1
  <2>2. CASE i = 2
    BY <2>2, StepNames DEF EndStep, StepMayEnd, AtStep
  <2>3. CASE i > 2
    BY <1>5, <2>3 DEF ShutdownInv, DatabaseLast
  <2> QED  BY <1>2, <2>1, <2>2, <2>3
<1>8. ASSUME next > 5 PROVE stepFailed' \/ "p2p" \notin shutdownConfig.steps \/ ~nodeUp'
  <2>1. CASE i < 5
    <3>1. ~Configured(5)
      BY <1>3, <1>8, <2>1
    <3> QED  BY <3>1, StepNames DEF Configured
  <2>2. CASE i = 5
    BY <2>2, StepNames DEF EndStep, StepDone, AtStep
  <2>3. CASE i > 5
    <3>1. stepFailed \/ "p2p" \notin shutdownConfig.steps \/ ~nodeUp
      BY <1>5, <2>3 DEF ShutdownInv, DatabaseLast
    <3>2. ~nodeUp => ~nodeUp'
      BY DEF EndStep, StepDone, parts
    <3> QED  BY <1>5, <3>1, <3>2
  <2> QED  BY <1>2, <2>1, <2>2, <2>3
<1>9. ~background'
  <2>1. CASE i = 1
    BY <2>1, StepNames DEF EndStep, StepDone, MayFail, AtStep
  <2>2. CASE i > 1
    <3>1. ~background
      BY <1>5, <2>2 DEF ShutdownInv, DatabaseLast
    <3> QED  BY <3>1 DEF EndStep, StepDone, parts
  <2> QED  BY <1>2, <2>1, <2>2
<1>10. DatabaseLast'
  <2>1. ~dbOpen' => \E t \in Signals : run'[t] = 8
    <3>1. CASE ~dbOpen
      <4>1. ~dbOpen => \E t \in Signals : run[t] = 8
        BY <1>5, StepNames DEF ShutdownInv, DatabaseLast
      <4>2. ASSUME NEW t \in Signals, run[t] = 8 PROVE FALSE
        BY <1>2, <4>2 DEF ShutdownInv, StepsInOrder
      <4> QED  BY <3>1, <4>1, <4>2
    <3> QED  BY <1>4, <1>6, <3>1
  <2>2. \A t \in Signals : run'[t] > 2 => waiting' = {}
    BY <1>4, <1>5, <1>7
  <2>3. \A t \in Signals : run'[t] > 5 =>
          stepFailed' \/ "p2p" \notin shutdownConfig'.steps \/ ~nodeUp'
    BY <1>4, <1>5, <1>8
  <2> QED  BY <1>5, <1>9, <2>1, <2>2, <2>3, StepNames DEF DatabaseLast
<1> QED  BY <1>1, <1>10 DEF ShutdownInv

\* Nothing of a shutdown is left when the process has ended.
LEMMA EndKeepsShutdown ==
  ASSUME ShutdownInv, NEW next \in {"down", "exited"}, Gone(next) PROVE ShutdownInv'
<1>1. run' = [s \in Signals |-> 0] /\ ran' = <<>> /\ proc' \in {"down", "exited"}
  BY DEF Gone
<1> QED  BY <1>1, StepNames DEF ShutdownInv, StepsInOrder, DatabaseLast

\* The start opens the database; a shutdown can begin once it is over.
LEMMA StartKeepsShutdown ==
  ShutdownInv /\ (Boot \/ SeedCounter \/ Recover \/ StartNode \/ Restore) => ShutdownInv'
<1> SUFFICES ASSUME ShutdownInv, Boot \/ SeedCounter \/ Recover \/ StartNode \/ Restore
             PROVE  ShutdownInv'
  OBVIOUS
<1>1. UNCHANGED <<run, ran, shutdownConfig>> /\ proc # "serving"
  BY DEF Boot, SeedCounter, Recover, StartNode, Restore, fixed, shutdown
<1>2. StepsInOrder'
  BY <1>1 DEF ShutdownInv, StepsInOrder, Configured
<1>3. proc' \notin {"down", "exited"} /\ dbOpen'
  BY DEF Boot, SeedCounter, Recover, StartNode, Restore, parts, ShutdownInv, DatabaseLast
<1>4. DatabaseLast'
  BY <1>1, <1>3 DEF ShutdownInv, DatabaseLast
<1> QED  BY <1>2, <1>4 DEF ShutdownInv

\* Clients are served until the step that closes the API, and finish after it.
LEMMA ClientKeepsShutdown ==
  ASSUME ShutdownInv, NEW c \in Clients, ClientStep(c) \/ RouteStep(c)
  PROVE  ShutdownInv'
<1>1. UNCHANGED <<run, ran, shutdownConfig, proc, dbOpen, nodeUp, background, stepFailed>>
  BY DEF ClientStep, RouteStep, Request, Connect, Disconnect, HangUp, ReadPeers, Answer,
         SaveFails, fixed, parts, shutdown
<1>2. StepsInOrder'
  BY <1>1 DEF ShutdownInv, StepsInOrder, Configured
<1>3. Serving \/ waiting' \subseteq waiting
  BY DEF ClientStep, RouteStep, Request, Connect, Disconnect, HangUp, ReadPeers, Answer, SaveFails
<1>4. DatabaseLast'
  <2>1. ASSUME proc = "serving", NEW s \in Signals, run[s] > 2 PROVE waiting' = {}
    <3>1. run[s] \in Nat /\ ~(run[s] < 2)
      BY <2>1, StepNames DEF ShutdownInv, StepsInOrder
    <3>2. ~Serving
      BY <3>1 DEF Serving
    <3> QED  BY <1>3, <2>1, <3>2 DEF ShutdownInv, DatabaseLast
  <2> QED  BY <1>1, <2>1 DEF ShutdownInv, DatabaseLast
<1> QED  BY <1>2, <1>4 DEF ShutdownInv

\* Steps that touch none of the parts of a shutdown.
LEMMA OthersKeepShutdown ==
  ASSUME ShutdownInv, UNCHANGED lifeVars \/ BeginPass \/ EndPass PROVE ShutdownInv'
<1>1. UNCHANGED <<run, ran, shutdownConfig, proc, dbOpen, nodeUp, background, stepFailed, waiting>>
  BY DEF BeginPass, EndPass, lifeVars, fixed, parts, clients, shutdown
<1>2. StepsInOrder'
  BY <1>1 DEF ShutdownInv, StepsInOrder, Configured
<1>3. DatabaseLast'
  BY <1>1 DEF ShutdownInv, DatabaseLast
<1> QED  BY <1>2, <1>3 DEF ShutdownInv

\* Whatever signals arrive and whichever steps fail, the configured steps of a
\* shutdown are taken once and in order, and the database is closed last, when no
\* client waits for an answer and no timer is left; a handler whose client hung up
\* and a pass begun before may still be using it.
THEOREM ShutdownAlwaysInOrder == Spec => []ShutdownInOrder
<1>1. ShutdownInv /\ [Next]_vars => ShutdownInv'
  <2> SUFFICES ASSUME ShutdownInv, [Next]_vars PROVE ShutdownInv'
    OBVIOUS
  <2>1. CASE Boot \/ StartStep
    BY <2>1, StartKeepsShutdown, EndKeepsShutdown DEF StartStep, StartFails
  <2>2. CASE \E c \in Clients : ClientStep(c) \/ RouteStep(c)
    BY <2>2, ClientKeepsShutdown
  <2>3. CASE (\E s \in Signals : Signal(s)) \/ ShutdownStep \/ TimeOutKills \/ Crash
    BY <2>3, SignalKeepsShutdown, EndStepKeepsShutdown, EndKeepsShutdown
       DEF ShutdownStep, Exit, TimeOutKills, Crash
  <2>4. CASE BeginPass \/ EndPass \/ NodeKeys \/ (KeyTick /\ UNCHANGED lifeVars) \/ UNCHANGED vars
    BY <2>4, OthersKeepShutdown DEF NodeKeys, vars
  <2> QED  BY <2>1, <2>2, <2>3, <2>4 DEF Next
<1> QED
  BY <1>1, ShutdownInvHolds, ShutdownInvSuffices, PTL DEF Spec
=============================================================================
