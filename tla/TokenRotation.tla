----------------------------- MODULE TokenRotation -----------------------------
(***************************************************************************)
(* The rotation of the API token (lib/security/tokens/rotation.ts).  The   *)
(* database keeps the record of the current token, the time of the last    *)
(* rotation and the records of the tokens rotated out, which validate      *)
(* until their grace period ends.                                          *)
(*                                                                         *)
(* Each call of initialize(), checkAndRotate(), forceRotate() and          *)
(* validateToken() is a task whose awaited accesses are steps of their     *)
(* own.  A get that fails is taken for a key without a value.  A task      *)
(* mints at most one token, named after it.  The key nextRotation is       *)
(* written together with lastRotation: it is only reported.                *)
(*                                                                         *)
(* The API routes compare a request's token with the configured one        *)
(* (middleware.ts) and never call validateToken(): what is said here is    *)
(* said of validateToken() alone.                                          *)
(***************************************************************************)
EXTENDS Integers, FiniteSets, Sequences, Subsequence

CONSTANTS
  Rotators,    \* calls of initialize(), checkAndRotate() and forceRotate()
  Validators,  \* calls of validateToken()
  Configured,  \* the token of the configuration
  Nothing,     \* a key without a value
  TokenTTL, GracePeriod, RotationInterval, MaxTokensKept,
  Faults,      \* the kinds of disturbance that may happen
  MaxTime      \* bound on the clock

Tokens == Rotators \cup {Configured}

ASSUME TokenAssumption ==
  /\ Configured \notin Rotators /\ Nothing \notin Tokens
  /\ Rotators \cap Validators = {}
  /\ Faults \subseteq {"overlap", "read", "write", "crash"}
  /\ {TokenTTL, GracePeriod, RotationInterval, MaxTime} \subseteq Nat
  /\ MaxTokensKept \in Nat \ {0}

VARIABLES
  hasConfigured,  \* whether initialize() is given the configured token
  now,
  current,  \* apiToken:current
  history,  \* apiToken:history
  last,     \* apiToken:rotation:lastRotation, zero when there is none
  phase,    \* down, starting, up
  pc,       \* pc[t]: what task t does next
  local,    \* local[r]: the records a rotation has read and made
  asked,    \* asked[v]: the token v is given, when, and what it was then
  \* History; no task reads it.
  out,      \* the tokens replaced, when, and the end of their grace
  returned,  \* the token initialize() or forceRotate() returned last
  faults    \* the kinds of disturbance that have happened

env == <<hasConfigured, faults>>
vars == <<now, current, history, last, phase, pc, local, asked, out, returned, env>>

Active == [token : Tokens, expiresAt : Nat]
Secondary == [token : Tokens, expiresAt : Nat, until : Nat]
Fresh == [current |-> Nothing, history |-> <<>>, new |-> Nothing]
Unasked == [token |-> Configured, at |-> 0, was |-> "other"]

RotatorStages == {"idle", "initRead", "initPut", "initStamp", "check", "readCurrent",
                  "readHistory", "putCurrent", "putLast", "putHistory", "done", "failed"}
ValidatorStages == {"idle", "current", "history", "accepted", "refused"}

TypeOK ==
  /\ hasConfigured \in BOOLEAN
  /\ now \in Nat
  /\ current \in Active \cup {Nothing}
  /\ history \in Seq(Secondary) /\ Len(history) <= MaxTokensKept
  /\ last \in 0 .. now
  /\ phase \in {"down", "starting", "up"}
  /\ \A r \in Rotators :
       /\ pc[r] \in RotatorStages
       /\ local[r].current \in Active \cup {Nothing}
       /\ local[r].history \in Seq(Secondary)
       /\ local[r].new \in Active \cup {Nothing}
  /\ \A v \in Validators :
       /\ pc[v] \in ValidatorStages
       /\ asked[v] \in [token : Tokens, at : 0 .. now, was : {"current", "other"}]
  /\ out \in Seq([token : Tokens, until : Nat, at : Nat])
  /\ returned \in Tokens \cup {Nothing}
  /\ faults \subseteq Faults

-----------------------------------------------------------------------------
Ended(r) == pc[r] \in {"idle", "done", "failed"}
Quiet == \A r \in Rotators : Ended(r)
Happens(fault) == fault \in Faults /\ faults' = faults \cup {fault}
Goto(t, stage) == pc' = [pc EXCEPT ![t] = stage]

\* What a get gives: the stored value, or none when it fails.
Got(value, stored, none) ==
  \/ value = stored /\ UNCHANGED faults
  \/ value = none /\ Happens("read")

\* isExpired
Expired(record) == now >= record.expiresAt

\* There is a current token that has not expired.
HasCurrent == current # Nothing /\ ~Expired(current)

\* A token that is valid through the current record.
IsCurrent(t) == HasCurrent /\ current.token = t

\* A grace period that never ends.
InGraceForever(t) == \E i \in DOMAIN history : history[i].token = t

\* A token that is valid through its grace period.
InGrace(t) == \E i \in DOMAIN history : history[i].token = t /\ now < history[i].until

\* What validateToken answers when nothing interferes.
Validates(t) == IsCurrent(t) \/ InGrace(t)

\* The places of the records that are in grace or have not expired.
Live(s) == {i \in DOMAIN s : now < s[i].until \/ now < s[i].expiresAt}

\* A cut to the oldest of the live records.
KeptFirst(s) == Picked(s, FirstPlaces(Live(s), MaxTokensKept))

\* The live records, cut to the last MaxTokensKept.
Kept(s) == Picked(s, LastPlaces(Live(s), MaxTokensKept))

\* A record of the configured token, whatever token is minted.
MintedConfigured(t) == [token |-> Configured, expiresAt |-> now + TokenTTL]

\* The record of the token r mints, or of the configured one.
Minted(t) == [token |-> t, expiresAt |-> now + TokenTTL]

\* The entry of the current token when another one replaces it.
Replaced(until) == [token |-> current.token, until |-> until, at |-> now]

\* The end of the grace period that a rotation gives to the token it replaces:
\* it gives none when it has not read that token.
GraceGiven(r) ==
  LET made == local[r].history
  IN  IF local[r].current = current THEN made[Len(made)].until ELSE now

-----------------------------------------------------------------------------
\* The node starts and calls initialize().
BeginInit(r) ==
  /\ phase = "down" /\ pc[r] = "idle"
  /\ phase' = "starting"
  /\ Goto(r, "initRead")
  /\ UNCHANGED <<now, current, history, last, local, asked, out, returned, env>>

\* A current token that has not expired is kept: initialize() returns the token
\* it was given, or rotates when it was given none.  Without one, and when the
\* read fails, it stores the token it was given or mints one.
InitRead(r) ==
  /\ pc[r] = "initRead"
  /\ \/ /\ HasCurrent
        /\ hasConfigured
        /\ Goto(r, "done")
        /\ phase' = "up"
        /\ returned' = Configured
        /\ UNCHANGED <<local, faults>>
     \/ /\ HasCurrent
        /\ ~hasConfigured
        /\ Goto(r, "readCurrent")
        /\ UNCHANGED <<phase, local, returned, faults>>
     \/ /\ \/ ~HasCurrent /\ UNCHANGED faults
           \/ Happens("read")
        /\ Goto(r, "initPut")
        /\ local' = [local EXCEPT ![r].new = Minted(IF hasConfigured THEN Configured ELSE r)]
        /\ UNCHANGED <<phase, returned>>
  /\ UNCHANGED <<now, current, history, last, asked, out, hasConfigured>>

\* A token that has not expired is replaced, without grace, after a failed read.
InitPut(r) ==
  /\ pc[r] = "initPut"
  /\ current' = local[r].new
  /\ out' = IF HasCurrent THEN Append(out, Replaced(now)) ELSE out
  /\ Goto(r, "initStamp")
  /\ UNCHANGED <<now, history, last, phase, local, asked, returned, env>>

InitStamp(r) ==
  /\ pc[r] = "initStamp"
  /\ last' = now
  /\ phase' = "up"
  /\ returned' = local[r].new.token
  /\ Goto(r, "done")
  /\ UNCHANGED <<now, current, history, local, asked, out, env>>

\* The scheduler calls checkAndRotate(), or a caller forceRotate().
BeginRotate(r) ==
  /\ phase = "up" /\ pc[r] = "idle"
  /\ IF Quiet THEN UNCHANGED faults ELSE Happens("overlap")
  /\ \E stage \in {"check", "readCurrent"} : Goto(r, stage)
  /\ UNCHANGED <<now, current, history, last, phase, local, asked, out, returned, hasConfigured>>

\* checkAndRotate rotates when there was no rotation or its interval is over.
RotationDue == last = 0 \/ now - last > RotationInterval

\* A failed read of the last rotation is taken for zero.
Check(r) ==
  /\ pc[r] = "check"
  /\ \/ Goto(r, IF RotationDue THEN "readCurrent" ELSE "done") /\ UNCHANGED faults
     \/ Goto(r, "readCurrent") /\ Happens("read")
  /\ UNCHANGED <<now, current, history, last, phase, local, asked, out, returned, hasConfigured>>

\* Without the current record, the token that is replaced gets no grace period.
ReadCurrent(r) ==
  /\ pc[r] = "readCurrent"
  /\ \E read \in {current, Nothing} :
       /\ Got(read, current, Nothing)
       /\ local' = [local EXCEPT ![r].current = read]
  /\ Goto(r, "readHistory")
  /\ UNCHANGED <<now, current, history, last, phase, asked, out, returned, hasConfigured>>

\* The history is read, the current record joins it with its grace period, and
\* the new token is made.  After a failed read the history starts anew.
ReadHistory(r) ==
  /\ pc[r] = "readHistory"
  /\ LET old == local[r].current
         added == IF old = Nothing THEN <<>>
                  ELSE <<[token |-> old.token, expiresAt |-> old.expiresAt,
                          until |-> now + GracePeriod]>>
     IN  \E read \in {history, <<>>} :
           /\ Got(read, history, <<>>)
           /\ local' = [local EXCEPT ![r].history = read \o added, ![r].new = Minted(r)]
  /\ Goto(r, "putCurrent")
  /\ UNCHANGED <<now, current, history, last, phase, asked, out, returned, hasConfigured>>

PutCurrent(r) ==
  /\ pc[r] = "putCurrent"
  /\ current' = local[r].new
  /\ out' = IF current = Nothing THEN out ELSE Append(out, Replaced(GraceGiven(r)))
  /\ Goto(r, "putLast")
  /\ UNCHANGED <<now, history, last, phase, local, asked, returned, env>>

PutLast(r) ==
  /\ pc[r] = "putLast"
  /\ last' = now
  /\ Goto(r, "putHistory")
  /\ UNCHANGED <<now, current, history, phase, local, asked, out, returned, env>>

\* The history without what is past grace and lifetime, cut to its maximum; the
\* rotation returns, and so does the initialize() that called it.
PutHistory(r) ==
  /\ pc[r] = "putHistory"
  /\ history' = Kept(local[r].history)
  /\ returned' = r
  /\ phase' = "up"
  /\ Goto(r, "done")
  /\ UNCHANGED <<now, current, last, local, asked, out, env>>

\* A put rejects, and with it the rotation; a failed initialize() ends the node.
PutFails(r) ==
  /\ Happens("write")
  /\ pc[r] \in {"initPut", "initStamp", "putCurrent", "putLast", "putHistory"}
  /\ Goto(r, "failed")
  /\ phase' = IF phase = "starting" THEN "down" ELSE phase
  /\ UNCHANGED <<now, current, history, last, local, asked, out, returned, hasConfigured>>

\* A caller brings a token; a minted one is known when its rotation has returned.
BeginValidate(v, t) ==
  /\ phase = "up" /\ pc[v] = "idle"
  /\ t \in Rotators => pc[t] = "done"
  /\ asked' = [asked EXCEPT ![v] = [token |-> t, at |-> now,
                                    was |-> IF IsCurrent(t) THEN "current" ELSE "other"]]
  /\ Goto(v, "current")
  /\ UNCHANGED <<now, current, history, last, phase, local, out, returned, env>>

\* The two reads of validateToken; one that fails finds no match.
ValidateCurrent(v) ==
  /\ pc[v] = "current"
  /\ \/ /\ Goto(v, IF IsCurrent(asked[v].token) THEN "accepted" ELSE "history")
        /\ UNCHANGED faults
     \/ Goto(v, "history") /\ Happens("read")
  /\ UNCHANGED <<now, current, history, last, phase, local, asked, out, returned, hasConfigured>>

ValidateHistory(v) ==
  /\ pc[v] = "history"
  /\ \/ /\ Goto(v, IF InGrace(asked[v].token) THEN "accepted" ELSE "refused")
        /\ UNCHANGED faults
     \/ Goto(v, "refused") /\ Happens("read")
  /\ UNCHANGED <<now, current, history, last, phase, local, asked, out, returned, hasConfigured>>

\* The process ends, and its tasks with it.  It is a crash that counts when it
\* cuts a rotation short.
Crash ==
  /\ phase # "down"
  /\ IF Quiet THEN UNCHANGED faults ELSE Happens("crash")
  /\ phase' = "down"
  /\ pc' = [t \in Rotators \cup Validators |->
              IF t \in Rotators
              THEN IF Ended(t) THEN pc[t] ELSE "failed"
              ELSE IF pc[t] \in {"current", "history"} THEN "idle" ELSE pc[t]]
  /\ UNCHANGED <<now, current, history, last, local, asked, out, returned, hasConfigured>>

Tick ==
  /\ now < MaxTime
  /\ now' = now + 1
  /\ UNCHANGED <<current, history, last, phase, pc, local, asked, out, returned, env>>

-----------------------------------------------------------------------------
\* The clock starts at one: the code takes a lastRotation of zero for none.
Init ==
  /\ hasConfigured \in BOOLEAN
  /\ now = 1
  /\ current = Nothing
  /\ history = <<>>
  /\ last = 0
  /\ phase = "down"
  /\ pc = [t \in Rotators \cup Validators |-> "idle"]
  /\ local = [r \in Rotators |-> Fresh]
  /\ asked = [v \in Validators |-> Unasked]
  /\ out = <<>>
  /\ returned = Nothing
  /\ faults = {}

Rotation(r) ==
  \/ BeginInit(r) \/ InitRead(r) \/ InitPut(r) \/ InitStamp(r)
  \/ BeginRotate(r) \/ Check(r) \/ ReadCurrent(r) \/ ReadHistory(r)
  \/ PutCurrent(r) \/ PutLast(r) \/ PutHistory(r) \/ PutFails(r)

Validation(v) ==
  \/ \E t \in Tokens : BeginValidate(v, t)
  \/ ValidateCurrent(v) \/ ValidateHistory(v)

Next ==
  \/ \E r \in Rotators : Rotation(r)
  \/ \E v \in Validators : Validation(v)
  \/ Crash \/ Tick

Spec == Init /\ [][Next]_vars

-----------------------------------------------------------------------------
(***************************************************************************)
(* Properties                                                              *)
(***************************************************************************)

\* Once rotations have ended, each of the last MaxTokensKept tokens that they
\* replaced is valid to the end of its grace period, through any restarts between
\* rotations.  Rotations that overlap, that a crash or a failed write cuts short,
\* or that read or check with a failed get (rotation.ts:134-146) are excepted: one
\* failed read of the history forgets every token in grace.
GraceKept ==
  (Quiet /\ faults = {}) =>
    \A i \in DOMAIN out :
      (i > Len(out) - MaxTokensKept /\ now < out[i].until) => Validates(out[i].token)

\* The token that a rotation has minted and returned is valid when the rotation
\* has ended, until it expires or another one replaces it; with the same exceptions.
ReturnedAccepted ==
  (Quiet /\ faults = {} /\ phase = "up" /\ returned \in Rotators) =>
    Validates(returned) \/ ~HasCurrent

\* The tokens rotated out before the time t.
ReplacedBefore(t) == {out[i].token : i \in {j \in DOMAIN out : out[j].at < t}}

\* validateToken() accepts a token that was current when the call came, or one
\* that had been rotated out and was within the grace period it got then,
\* whatever rotation, failed access or restart the call overlaps; and a token that
\* a rotation minted is not current again once it has been replaced.  The
\* configured one may be: initialize() stores it again when the current one has
\* expired (rotation.ts:59-70).  The rotations themselves do not overlap.
GraceEnds ==
  "overlap" \notin faults =>
    \A v \in Validators : pc[v] = "accepted" =>
      \/ /\ asked[v].was = "current"
         /\ asked[v].token \in Rotators => asked[v].token \notin ReplacedBefore(asked[v].at)
      \/ \E i \in DOMAIN out : out[i].token = asked[v].token /\ asked[v].at < out[i].until

=============================================================================
