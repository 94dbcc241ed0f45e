------------------------------ MODULE SmartRetry ------------------------------
(***************************************************************************)
(* The calls SmartRetryFacade (lib/retry/adaptive.ts) makes to one peer:   *)
(* the operation that the peer's circuit breaker runs is a retry loop of   *)
(* lib/retry/manager.ts.  With adaptive retries the length of the loop     *)
(* follows from the reputation in the peer's profile when it begins,       *)
(* without them from the type of the message.                              *)
(*                                                                         *)
(* The length of a timeout and of a backoff is not modelled: both end at   *)
(* some time.  An operation that outlives its timeout settles a promise    *)
(* nobody waits for any more, so it has no step of its own.                *)
(***************************************************************************)
EXTENDS CircuitBreaker

CONSTANTS
  BaseRetries,  \* adaptiveRetry.baseRetries
  MaxRetries,   \* adaptiveRetry.maxRetries
  Reputations,  \* the reputations a profile is given
  Switches,     \* the values of adaptiveRetry.enabled
  TypeRetries   \* perMessageType[..].maxRetries, one for each type of message

ASSUME RetryAssumption ==
  /\ BaseRetries \in Nat /\ MaxRetries \in Nat
  /\ Reputations \subseteq 0 .. 100 /\ 50 \in Reputations
  /\ Switches \subseteq BOOLEAN
  /\ TypeRetries \subseteq Nat

VARIABLES
  profile,  \* the reputation in the profile of the peer
  loop,     \* loop[c]: the retry loop of c, when it has a running call
  adaptive  \* adaptiveRetry.enabled; nothing changes it

retryVars == <<profile, loop, adaptive>>
smartVars == <<vars, retryVars>>

NoLoop == [retries |-> 0, attempt |-> 0, asleep |-> FALSE]

-----------------------------------------------------------------------------
\* calculateMaxRetries
RetriesFor(reputation) ==
  Greater(1, Lesser(MaxRetries, BaseRetries + ((reputation - 50) \div 10)))

\* The lengths a loop may be given when it begins.
LoopLengths == IF adaptive THEN {RetriesFor(profile)} ELSE TypeRetries

\* execute(): the breaker admits the call, and the loop begins its first operation.
SmartExecute(c) ==
  /\ Execute(c)
  /\ \/ /\ Permitted
        /\ \E retries \in LoopLengths :
             loop' = [loop EXCEPT ![c] = [NoLoop EXCEPT !.retries = retries]]
     \/ /\ ~Permitted
        /\ UNCHANGED loop
  /\ UNCHANGED <<profile, adaptive>>

\* The loop of c waits for an operation.
Attempting(c) == call[c] # "idle" /\ ~loop[c].asleep

\* The call of c ends, and with it the loop.
LoopEnds(c) == loop' = [loop EXCEPT ![c] = NoLoop]

\* The operation resolves in time, and with it the call.
AttemptSucceeds(c) ==
  /\ Attempting(c)
  /\ Succeed(c)
  /\ LoopEnds(c)
  /\ UNCHANGED <<profile, adaptive>>

LastAttempt(c) == loop[c].attempt = loop[c].retries

\* The operation rejects or its timeout fires: the call fails after the last
\* attempt and sleeps before another one.
AttemptFails(c) ==
  /\ Attempting(c)
  /\ \/ /\ LastAttempt(c)
        /\ FailCall(c)
        /\ LoopEnds(c)
     \/ /\ ~LastAttempt(c)
        /\ loop' = [loop EXCEPT ![c].asleep = TRUE]
        /\ UNCHANGED vars
  /\ UNCHANGED <<profile, adaptive>>

\* A loop that does not count its attempts.
WakeUncounted(c) ==
  /\ call[c] # "idle" /\ loop[c].asleep
  /\ loop' = [loop EXCEPT ![c].asleep = FALSE]
  /\ UNCHANGED <<vars, profile, adaptive>>

\* The backoff is over.
Wake(c) ==
  /\ call[c] # "idle" /\ loop[c].asleep
  /\ loop' = [loop EXCEPT ![c].asleep = FALSE, ![c].attempt = @ + 1]
  /\ UNCHANGED <<vars, profile, adaptive>>

UpdatePeerProfile(reputation) ==
  /\ profile' = reputation
  /\ UNCHANGED <<vars, loop, adaptive>>

-----------------------------------------------------------------------------
SmartInit ==
  /\ Init
  /\ profile = 50
  /\ loop = [c \in Calls |-> NoLoop]
  /\ adaptive \in Switches

SmartNext ==
  \/ \E c \in Calls : SmartExecute(c) \/ AttemptSucceeds(c) \/ AttemptFails(c) \/ Wake(c)
  \/ \E reputation \in Reputations : UpdatePeerProfile(reputation)
  \/ (IsAllowed \/ Reset \/ Tick) /\ UNCHANGED retryVars

SmartSpec == SmartInit /\ [][SmartNext]_smartVars

\* Timers fire and some caller keeps asking.  Nothing makes an operation settle:
\* its timeout is what ends an attempt.
SmartFairness ==
  /\ WF_smartVars(Tick /\ UNCHANGED retryVars)
  /\ \A c \in Calls : WF_smartVars(AttemptSucceeds(c) \/ AttemptFails(c))
  /\ \A c \in Calls : WF_smartVars(Wake(c))
  /\ WF_smartVars(\E c \in Calls : SmartExecute(c))

SmartFairSpec == SmartSpec /\ SmartFairness

-----------------------------------------------------------------------------
(***************************************************************************)
(* Properties                                                              *)
(***************************************************************************)

\* What CircuitBreaker assumes of the operations it runs, the retry loop
\* provides although an operation may hang for ever: every call ends.
CallsEnd == \A c \in Calls : WF_vars(Succeed(c) \/ FailCall(c))

\* The further attempts that the running calls may make.
AttemptsLeft ==
  [c \in Calls |-> IF call[c] = "idle" THEN 0 ELSE loop[c].retries - loop[c].attempt]

\* A step in which c begins an operation: its call begins, or its loop wakes.
Begins(c) ==
  /\ call'[c] # "idle" /\ ~loop'[c].asleep
  /\ call[c] = "idle" \/ loop[c].asleep

\* The loops run inside the breaker, so those it had admitted go on asking the
\* peer while it is open; but only for the attempts left to them when it opened.
\* Each operation uses one up, no call begins, and no profile brings any back.
OpenDrains ==
  [][state = "OPEN" /\ state' = "OPEN" =>
       \A c \in Calls :
         /\ 0 <= AttemptsLeft'[c] /\ AttemptsLeft'[c] <= AttemptsLeft[c]
         /\ Begins(c) => AttemptsLeft'[c] < AttemptsLeft[c]]_smartVars
=============================================================================
