------------------------------- MODULE KeyStore -------------------------------
(***************************************************************************)
(* KeyManager (lib/security/crypto/keys.ts): the node's key pair, the keys *)
(* it was rotated out of, and the files both are kept in.  initialize()    *)
(* and rotateKeys() write several files one after the other; the process   *)
(* may stop before, between and during the writes, and a write that is cut *)
(* short leaves a file that cannot be parsed.  A write that throws while   *)
(* the process lives on is left out.                                       *)
(*                                                                         *)
(* Keys are numbered in the order in which they are generated.  The        *)
(* password generated with a key has the key's number: each file encrypted *)
(* with it tells which one opens it.                                       *)
(***************************************************************************)
EXTENDS Integers, Sequences, Subsequence

CONSTANTS
  Grace,     \* how long a key is still accepted after its rotation
  MaxKeys,   \* bound on the keys ever generated
  MaxClock   \* bound on the clock

ASSUME KeyAssumption == Grace \in Nat /\ MaxKeys \in Nat /\ MaxClock \in Nat

MaxOldKeys == 3

VARIABLES
  keyPc,         \* down, the file written next, up, failed
  rotating,      \* the writes are those of rotateKeys
  pair,          \* keyPair
  password,
  keyHistory,
  \* The files.
  identityFile,  \* node-id.json
  encryptedFile, \* private-key.encrypted
  passwordFile,  \* private-key.password
  historyFile,   \* key-rotation-history.json; no entry when it cannot be parsed
  keyClock,
  lastKey,       \* the last key generated
  \* History; nothing reads it.
  adopted,       \* the key the node uses, also while it is down; zero for none
  retired,       \* retired[k]: when key k was rotated out; Never
  interrupted    \* what the process has stopped in the middle of

keyVars == <<keyPc, rotating, pair, password, keyHistory, identityFile, encryptedFile,
             passwordFile, historyFile, keyClock, lastKey, adopted, retired, interrupted>>

keyFiles == <<identityFile, encryptedFile, passwordFile, historyFile>>
keyMemory == <<pair, password, keyHistory>>
keyGhosts == <<adopted, retired, interrupted>>

Keys == 1 .. MaxKeys
Absent == 0
Torn == -1
Never == -1
NoPair == [public |-> 0, private |-> 0]

-----------------------------------------------------------------------------
Stored == identityFile # Absent /\ encryptedFile.key # Absent

\* loadExistingKeys does not throw.
Loadable ==
  /\ identityFile \in Keys /\ encryptedFile.key \in Keys
  /\ passwordFile = encryptedFile.password

Load ==
  /\ keyPc = "down" /\ Stored
  /\ keyHistory' = historyFile
  /\ IF Loadable
     THEN /\ pair' = [public |-> identityFile, private |-> encryptedFile.key]
          /\ password' = passwordFile
          /\ keyPc' = "up"
          /\ adopted' = identityFile
     ELSE keyPc' = "failed" /\ UNCHANGED <<pair, password, adopted>>
  /\ UNCHANGED <<keyFiles, rotating, keyClock, lastKey, retired, interrupted>>

\* generateAndStoreKeys, up to its first write.
Generate ==
  /\ keyPc = "down" /\ ~Stored
  /\ lastKey < MaxKeys
  /\ lastKey' = lastKey + 1
  /\ pair' = [public |-> lastKey', private |-> lastKey']
  /\ password' = lastKey'
  /\ keyHistory' = historyFile
  /\ keyPc' = "identity" /\ rotating' = FALSE
  /\ UNCHANGED <<keyFiles, keyClock, keyGhosts>>

\* A rotation that encrypts the new key with a new password, which it keeps to
\* itself.
NewPassword == lastKey + 1

\* A rotated key is encrypted with the password there is.
RotationPassword == password

\* rotateKeys, up to its first write.
Rotate ==
  /\ keyPc = "up" /\ lastKey < MaxKeys
  /\ keyHistory' = Append(keyHistory, [key |-> pair.public, until |-> keyClock + Grace])
  /\ lastKey' = lastKey + 1
  /\ pair' = [public |-> lastKey', private |-> lastKey']
  /\ keyPc' = "identity" /\ rotating' = TRUE
  /\ retired' = [retired EXCEPT ![pair.public] = keyClock]
  /\ password' = RotationPassword
  /\ UNCHANGED <<keyFiles, keyClock, adopted, interrupted>>

WriteIdentity ==
  /\ keyPc = "identity"
  /\ identityFile' = pair.public
  /\ keyPc' = "encrypted"
  /\ UNCHANGED <<keyMemory, rotating, encryptedFile, passwordFile, historyFile, keyClock,
                 lastKey, keyGhosts>>

WriteEncrypted ==
  /\ keyPc = "encrypted"
  /\ encryptedFile' = [key |-> pair.private, password |-> password]
  /\ keyPc' = IF rotating THEN "history" ELSE "password"
  /\ UNCHANGED <<keyMemory, rotating, identityFile, passwordFile, historyFile, keyClock,
                 lastKey, keyGhosts>>

WritePassword ==
  /\ keyPc = "password"
  /\ passwordFile' = password
  /\ keyPc' = "up"
  /\ adopted' = pair.public
  /\ UNCHANGED <<keyMemory, rotating, identityFile, encryptedFile, historyFile, keyClock,
                 lastKey, retired, interrupted>>

InGrace(entry) == keyClock < entry.until

\* The places of the entries in their grace period.
Graced(s) == {i \in DOMAIN s : InGrace(s[i])}

\* A slice that keeps the oldest of the keys.
FirstOf(s) == Picked(s, FirstPlaces(Graced(s), MaxOldKeys))

\* The keys in their grace period, cut to the last MaxOldKeys.
LastOf(s) == Picked(s, LastPlaces(Graced(s), MaxOldKeys))

\* The rotation ends with the history; what is written to backups/ after it is
\* read by nobody.
WriteHistory ==
  /\ keyPc = "history"
  /\ keyHistory' = LastOf(keyHistory)
  /\ historyFile' = keyHistory'
  /\ keyPc' = "up"
  /\ adopted' = pair.public
  /\ UNCHANGED <<pair, password, rotating, identityFile, encryptedFile, passwordFile,
                 keyClock, lastKey, retired, interrupted>>

\* The process stops; the file that is being written may be cut short.
KeysLost ==
  /\ keyPc' = "down"
  /\ pair' = NoPair /\ password' = Absent /\ keyHistory' = <<>>
  /\ rotating' = FALSE
  /\ \/ UNCHANGED keyFiles
     \/ /\ keyPc = "identity" /\ identityFile' = Torn
        /\ UNCHANGED <<encryptedFile, passwordFile, historyFile>>
     \/ /\ keyPc = "encrypted" /\ encryptedFile' = [encryptedFile EXCEPT !.key = Torn]
        /\ UNCHANGED <<identityFile, passwordFile, historyFile>>
     \/ /\ keyPc = "password" /\ passwordFile' = Torn
        /\ UNCHANGED <<identityFile, encryptedFile, historyFile>>
     \/ /\ keyPc = "history" /\ historyFile' = <<>>
        /\ UNCHANGED <<identityFile, encryptedFile, passwordFile>>
  /\ interrupted' =
       IF keyPc \in {"down", "up", "failed"} THEN interrupted
       ELSE interrupted \cup {IF rotating THEN "rotation" ELSE "generation"}
  /\ UNCHANGED <<keyClock, lastKey, adopted, retired>>

KeyTick ==
  /\ keyClock < MaxClock
  /\ keyClock' = keyClock + 1
  /\ UNCHANGED <<keyPc, rotating, keyMemory, keyFiles, lastKey, keyGhosts>>

-----------------------------------------------------------------------------
KeyInit ==
  /\ keyPc = "down" /\ rotating = FALSE
  /\ pair = NoPair /\ password = Absent /\ keyHistory = <<>>
  /\ identityFile = Absent
  /\ encryptedFile = [key |-> Absent, password |-> Absent]
  /\ passwordFile = Absent /\ historyFile = <<>>
  /\ keyClock = 0 /\ lastKey = 0
  /\ adopted = 0 /\ retired = [k \in Keys |-> Never] /\ interrupted = {}

\* What the process does while it runs; initialize() is one of its steps.
KeyStep ==
  \/ Load \/ Generate \/ Rotate
  \/ WriteIdentity \/ WriteEncrypted \/ WritePassword \/ WriteHistory

KeyNext == KeyStep \/ KeysLost \/ KeyTick

KeySpec == KeyInit /\ [][KeyNext]_keyVars

-----------------------------------------------------------------------------
(***************************************************************************)
(* Properties                                                              *)
(***************************************************************************)

\* isKnownPublicKey
Known(k) ==
  \/ pair.public = k
  \/ \E i \in DOMAIN keyHistory : keyHistory[i].key = k /\ keyClock < keyHistory[i].until

\* A node that is up could be restarted as it is: its files hold the pair it
\* uses, both halves of it, under a password that is kept, and its old keys;
\* only a rotation that was cut short may have come between them.
SurvivesRestart ==
  (keyPc = "up" /\ "rotation" \notin interrupted) =>
    /\ Loadable
    /\ pair = [public |-> identityFile, private |-> encryptedFile.key]
    /\ pair.public = pair.private
    /\ keyHistory = historyFile

\* Restarts do not change who the node is: a start comes up with the key the
\* node had, or fails, and never generates another.
IdentityKept ==
  (adopted # 0 /\ "rotation" \notin interrupted) =>
    /\ keyPc = "up" => pair.public = adopted
    /\ ~rotating => keyPc \notin {"identity", "encrypted", "password"}

\* A node keeps its identity across restarts and crashes, once it has had one:
\* what a running node uses is what its files hold, and what a restarted one
\* comes up with is what it used before.
IdentitySurvives == SurvivesRestart /\ IdentityKept

\* A key that was rotated out is known for its grace period, also after
\* restarts, as long as no more than two rotations have followed its own and none
\* was cut short.
GraceKeysKnown ==
  (keyPc = "up" /\ "rotation" \notin interrupted) =>
    \A k \in Keys :
      LET after == {j \in Keys : j > k /\ retired[j] # Never}
      IN  (retired[k] # Never /\ keyClock < retired[k] + Grace
           /\ \A a, b, c \in after : a = b \/ b = c \/ a = c) => Known(k)
=============================================================================
