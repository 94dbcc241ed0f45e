---------------------------- MODULE CircuitBreaker ----------------------------
(***************************************************************************)
(* CircuitBreaker of lib/retry/circuit-breaker.ts with overlapping calls.  *)
(* execute() runs in one turn up to the await of the operation (Execute),  *)
(* and in one turn after it, onSuccess or onFailure and the finally block  *)
(* together (Succeed, FailCall).                                           *)
(*                                                                         *)
(* The clock is only compared with lastFailureTime + timeout, so the state *)
(* holds the time since the last failure, up to the timeout.  The failure  *)
(* count is only compared with the threshold, so it stops there.           *)
(***************************************************************************)
EXTENDS Integers, FiniteSets

CONSTANTS
  Calls,            \* concurrent callers of execute()
  FailureThreshold, \* config.failureThreshold
  SuccessThreshold, \* config.successThreshold
  Timeout,          \* config.timeout
  HalfOpenRequests  \* config.halfOpenRequests

ASSUME BreakerAssumption ==
  /\ IsFiniteSet(Calls)
  /\ FailureThreshold \in Nat \ {0}
  /\ SuccessThreshold \in Nat \ {0}
  /\ Timeout \in Nat
  /\ HalfOpenRequests \in Nat \ {0}

VARIABLES
  state,            \* state
  failureCount,     \* failureCount
  successCount,     \* successCount
  halfOpenInFlight, \* halfOpenInFlight
  sinceFailure,     \* time since lastFailureTime; Never when that is null
  call              \* call[c]: idle, or how the running call of c began

vars == <<state, failureCount, successCount, halfOpenInFlight, sinceFailure, call>>

Never == -1
Lesser(a, b) == IF a <= b THEN a ELSE b
Greater(a, b) == IF a >= b THEN a ELSE b

\* A running call began while the breaker was CLOSED (ordinary), in the present
\* HALF_OPEN episode (probe) or in an earlier one (old).
CallStates == {"idle", "ordinary", "probe", "old"}
Running == {c \in Calls : call[c] # "idle"}
Probes == {c \in Calls : call[c] = "probe"}

TypeOK ==
  /\ state \in {"CLOSED", "OPEN", "HALF_OPEN"}
  /\ failureCount \in 0 .. FailureThreshold
  /\ successCount \in Nat
  /\ halfOpenInFlight \in Nat
  /\ sinceFailure \in 0 .. Timeout \cup {Never}
  /\ call \in [Calls -> CallStates]

-----------------------------------------------------------------------------
\* A transition that does not wait for the timeout.
ElapsedEarly == state = "OPEN" /\ sinceFailure # Never

Elapsed == state = "OPEN" /\ sinceFailure # Never /\ sinceFailure >= Timeout

Age(s) == IF s = "probe" THEN "old" ELSE s

\* checkStateTransition() as seen by the caller: the state it continues with.
StateSeen == IF Elapsed THEN "HALF_OPEN" ELSE state
InFlightSeen == IF Elapsed THEN 0 ELSE halfOpenInFlight
SuccessesSeen == IF Elapsed THEN 0 ELSE successCount
CallsSeen == IF Elapsed THEN [c \in Calls |-> Age(call[c])] ELSE call

\* Calls let through an open breaker.
PermittedOpen == StateSeen = "HALF_OPEN" => InFlightSeen < HalfOpenRequests

\* Neither of the two errors execute() throws before it calls the operation.
Permitted ==
  /\ StateSeen # "OPEN"
  /\ StateSeen = "HALF_OPEN" => InFlightSeen < HalfOpenRequests

\* execute(), up to the operation.
Execute(c) ==
  /\ call[c] = "idle"
  /\ state' = StateSeen
  /\ successCount' = SuccessesSeen
  /\ IF Permitted
     THEN IF StateSeen = "HALF_OPEN"
          THEN /\ halfOpenInFlight' = InFlightSeen + 1
               /\ call' = [CallsSeen EXCEPT ![c] = "probe"]
          ELSE /\ halfOpenInFlight' = InFlightSeen
               /\ call' = [CallsSeen EXCEPT ![c] = "ordinary"]
     ELSE halfOpenInFlight' = InFlightSeen /\ call' = CallsSeen
  /\ UNCHANGED <<failureCount, sinceFailure>>

\* isAllowed(), which performs the transition as well.
IsAllowed ==
  /\ state' = StateSeen
  /\ successCount' = SuccessesSeen
  /\ halfOpenInFlight' = InFlightSeen
  /\ call' = CallsSeen
  /\ UNCHANGED <<failureCount, sinceFailure>>

\* A finally block that never frees a slot.
ReleasedNever(s) == halfOpenInFlight

\* The finally block, in the state s that onSuccess or onFailure left.
Released(s) ==
  IF s = "HALF_OPEN" THEN Greater(0, halfOpenInFlight - 1) ELSE halfOpenInFlight

\* Whether onSuccess closes the breaker.
Recovered == state = "HALF_OPEN" /\ successCount + 1 >= SuccessThreshold

\* The operation of c resolves: onSuccess(), then the finally block.
Succeed(c) ==
  /\ call[c] # "idle"
  /\ call' = [call EXCEPT ![c] = "idle"]
  /\ failureCount' = 0
  /\ state' = IF Recovered THEN "CLOSED" ELSE state
  /\ successCount' = IF Recovered THEN 0
                     ELSE IF state = "HALF_OPEN" THEN successCount + 1
                     ELSE successCount
  /\ halfOpenInFlight' = Released(state')
  /\ UNCHANGED sinceFailure

\* Whether onFailure opens the breaker.
Tripped == state = "HALF_OPEN" \/ failureCount + 1 >= FailureThreshold

\* The operation of c rejects: onFailure(), then the finally block.
FailCall(c) ==
  /\ call[c] # "idle"
  /\ call' = [call EXCEPT ![c] = "idle"]
  /\ failureCount' = Lesser(failureCount + 1, FailureThreshold)
  /\ sinceFailure' = 0
  /\ state' = IF Tripped THEN "OPEN" ELSE state
  /\ halfOpenInFlight' = Released(state')
  /\ UNCHANGED successCount

\* A reset that leaves the failures counted so far.
ResetKeepingFailures ==
  /\ state' = "CLOSED"
  /\ successCount' = 0
  /\ halfOpenInFlight' = 0
  /\ sinceFailure' = Never
  /\ UNCHANGED <<failureCount, call>>

\* reset()
Reset ==
  /\ state' = "CLOSED"
  /\ failureCount' = 0
  /\ successCount' = 0
  /\ halfOpenInFlight' = 0
  /\ sinceFailure' = Never
  /\ UNCHANGED call

\* External: the clock.
Tick ==
  /\ sinceFailure # Never
  /\ sinceFailure < Timeout
  /\ sinceFailure' = sinceFailure + 1
  /\ UNCHANGED <<state, failureCount, successCount, halfOpenInFlight, call>>

-----------------------------------------------------------------------------
Init ==
  /\ state = "CLOSED"
  /\ failureCount = 0
  /\ successCount = 0
  /\ halfOpenInFlight = 0
  /\ sinceFailure = Never
  /\ call = [c \in Calls |-> "idle"]

Next ==
  \/ \E c \in Calls : Execute(c) \/ Succeed(c) \/ FailCall(c)
  \/ IsAllowed
  \/ Reset
  \/ Tick

Spec == Init /\ [][Next]_vars

\* Time passes, every operation ends, and some caller keeps asking.
Fairness ==
  /\ WF_vars(Tick)
  /\ \A c \in Calls : WF_vars(Succeed(c) \/ FailCall(c))
  /\ WF_vars(\E c \in Calls : Execute(c))

FairSpec == Spec /\ Fairness

-----------------------------------------------------------------------------
(***************************************************************************)
(* Properties                                                              *)
(***************************************************************************)

\* A closed breaker has tolerated fewer failures than the threshold, whatever
\* mixture of old and new calls has failed since.
ClosedBelowThreshold == state = "CLOSED" => failureCount < FailureThreshold

\* An open breaker knows when it opened: checkStateTransition would otherwise
\* keep it open for ever.
OpenHasDeadline == state = "OPEN" => sinceFailure # Never

\* The probe slots in use never outnumber the probes of the present episode
\* that still run: stale calls may free slots early, but none is leaked.
NoSlotLeaked ==
  state = "HALF_OPEN" => halfOpenInFlight <= Cardinality(Probes)

\* A half-open breaker has not yet seen the successes that should close it.
HalfOpenUnfinished == state = "HALF_OPEN" => successCount < SuccessThreshold

\* The counters implement the gate: fail-fast for the whole timeout.
Gate == INSTANCE BreakerGate
          WITH mode <- state,
               cooldown <- IF state = "OPEN" THEN Timeout - sinceFailure ELSE 0,
               running <- Running

GateSpec == Gate!Spec

\* Once operations stop failing, the breaker closes again: no order of stale
\* results, probes and refusals wedges it.
Failing == \E c \in Calls : FailCall(c)
Recovers == <>[][~Failing]_vars => <>[](state = "CLOSED")
=============================================================================
