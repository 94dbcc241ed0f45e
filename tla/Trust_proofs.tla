------------------------------ MODULE Trust_proofs ------------------------------
(***************************************************************************)
(* Proofs about the two components that judge others by their conduct, for *)
(* any number of calls and any limits.  CircuitBreaker: the safety         *)
(* invariants, which together are inductive, and the refinement of the     *)
(* abstract gate, alone and under the retry loops of SmartRetry.           *)
(* Reputation: what overlapping, failing and cut updates may cost a        *)
(* counter, and that updates one at a time cost nothing.                   *)
(***************************************************************************)
EXTENDS SmartRetry, Reputation, TLAPS, FiniteSetTheorems, SequenceTheorems

IInv ==
  /\ TypeOK
  /\ ClosedBelowThreshold
  /\ OpenHasDeadline
  /\ NoSlotLeaked
  /\ HalfOpenUnfinished

\* What the assumptions on the configuration say of the constants.
LEMMA ConstantTypes ==
  /\ IsFiniteSet(Calls) /\ FailureThreshold \in Nat \ {0}
  /\ SuccessThreshold \in Nat \ {0} /\ Timeout \in Nat
  /\ HalfOpenRequests \in Nat \ {0} /\ Never \notin Nat
  BY BreakerAssumption DEF BreakerAssumption, Never

-----------------------------------------------------------------------------
(***************************************************************************)
(* Counting the probes                                                     *)
(***************************************************************************)

\* A finite set of calls holds finitely many probes, so they can be counted.
LEMMA ProbesFinite == IsFiniteSet(Probes) /\ Cardinality(Probes) \in Nat
<1>1. Probes \subseteq Calls  BY DEF Probes
<1>2. IsFiniteSet(Probes)  BY <1>1, ConstantTypes, FS_Subset
<1> QED  BY <1>2, FS_CardinalityType

\* A call that begins as a probe adds one.
LEMMA ProbeBegins ==
  ASSUME NEW S \in SUBSET Calls, NEW c \in Calls, c \notin S
  PROVE  Cardinality(S \cup {c}) = Cardinality(S) + 1
<1>1. IsFiniteSet(S)  BY ConstantTypes, FS_Subset
<1> QED  BY <1>1, FS_AddElement

\* A call that ends removes at most one.
LEMMA ProbeEnds ==
  ASSUME NEW c \in Calls
  PROVE  /\ Cardinality(Probes \ {c}) \in Nat
         /\ Cardinality(Probes \ {c}) >= Cardinality(Probes) - 1
<1>1. IsFiniteSet(Probes) /\ Cardinality(Probes) \in Nat  BY ProbesFinite
<1>2. CASE c \in Probes
  <2>1. Cardinality(Probes \ {c}) = Cardinality(Probes) - 1
          /\ IsFiniteSet(Probes \ {c})
    BY <1>1, <1>2, FS_RemoveElement
  <2>2. Cardinality(Probes \ {c}) \in Nat  BY <2>1, FS_CardinalityType
  <2> QED  BY <1>1, <2>1, <2>2
<1>3. CASE c \notin Probes
  <2>1. Probes \ {c} = Probes  BY <1>3
  <2> QED  BY <1>1, <2>1
<1> QED  BY <1>2, <1>3

-----------------------------------------------------------------------------
(***************************************************************************)
(* The invariant                                                           *)
(***************************************************************************)

\* checkStateTransition() by itself keeps the invariant.
LEMMA TransitionInv ==
  ASSUME IInv, IsAllowed
  PROVE  IInv'
<1> USE ConstantTypes
<1>1. CASE Elapsed
  <2>1. /\ state' = "HALF_OPEN" /\ successCount' = 0 /\ halfOpenInFlight' = 0
        /\ call' = [c \in Calls |-> Age(call[c])]
        /\ failureCount' = failureCount /\ sinceFailure' = sinceFailure
    BY <1>1 DEF IsAllowed, StateSeen, SuccessesSeen, InFlightSeen, CallsSeen
  <2>2. call' \in [Calls -> CallStates]
    BY <2>1 DEF IInv, TypeOK, Age, CallStates
  <2>3. TypeOK'  BY <2>1, <2>2 DEF IInv, TypeOK
  <2>4. Probes' = {}  BY <2>1 DEF Probes, Age
  <2>5. Cardinality(Probes') = 0  BY <2>4, FS_EmptySet
  <2> QED
    BY <2>1, <2>3, <2>5
       DEF IInv, ClosedBelowThreshold, OpenHasDeadline, NoSlotLeaked, HalfOpenUnfinished
<1>2. CASE ~Elapsed
  <2>1. UNCHANGED vars
    BY <1>2 DEF IsAllowed, StateSeen, SuccessesSeen, InFlightSeen, CallsSeen, vars
  <2>2. Probes' = Probes  BY <2>1 DEF Probes, vars
  <2> QED
    BY <2>1, <2>2
       DEF IInv, TypeOK, ClosedBelowThreshold, OpenHasDeadline, NoSlotLeaked,
           HalfOpenUnfinished, vars
<1> QED  BY <1>1, <1>2

\* execute() keeps the invariant: a probe it admits takes a slot of its own.
LEMMA ExecuteInv ==
  ASSUME IInv, NEW c \in Calls, Execute(c)
  PROVE  IInv'
<1> USE ConstantTypes
<1> DEFINE seen == CallsSeen
           S == {d \in Calls : seen[d] = "probe"}
\* What the caller continues with satisfies the invariant.
<1>1. /\ seen \in [Calls -> CallStates] /\ seen[c] = "idle"
      /\ StateSeen \in {"CLOSED", "OPEN", "HALF_OPEN"}
      /\ InFlightSeen \in Nat /\ SuccessesSeen \in Nat
      /\ StateSeen = "CLOSED" => failureCount < FailureThreshold
      /\ StateSeen = "OPEN" => sinceFailure # Never
      /\ StateSeen = "HALF_OPEN" => SuccessesSeen < SuccessThreshold
      /\ StateSeen = "HALF_OPEN" => InFlightSeen <= Cardinality(S)
  <2>1. CASE Elapsed
    <3>1. /\ seen = [d \in Calls |-> Age(call[d])] /\ StateSeen = "HALF_OPEN"
          /\ InFlightSeen = 0 /\ SuccessesSeen = 0
      BY <2>1 DEF CallsSeen, StateSeen, InFlightSeen, SuccessesSeen
    <3>2. seen \in [Calls -> CallStates] /\ seen[c] = "idle"
      BY <3>1 DEF IInv, TypeOK, Age, CallStates, Execute
    <3>3. S = {}  BY <3>1 DEF Age
    <3>4. Cardinality(S) = 0  BY <3>3, FS_EmptySet
    <3> QED  BY <3>1, <3>2, <3>4
  <2>2. CASE ~Elapsed
    <3>1. /\ seen = call /\ StateSeen = state
          /\ InFlightSeen = halfOpenInFlight /\ SuccessesSeen = successCount
      BY <2>2 DEF CallsSeen, StateSeen, InFlightSeen, SuccessesSeen
    <3>2. S = Probes  BY <3>1 DEF Probes
    <3> QED
      BY <3>1, <3>2
         DEF IInv, TypeOK, Execute, ClosedBelowThreshold, OpenHasDeadline,
             NoSlotLeaked, HalfOpenUnfinished
  <2> QED  BY <2>1, <2>2
<1>2. /\ state' = StateSeen /\ successCount' = SuccessesSeen
      /\ failureCount' = failureCount /\ sinceFailure' = sinceFailure
  BY DEF Execute
<1>3. IsFiniteSet(S) /\ Cardinality(S) \in Nat /\ S \in SUBSET Calls /\ c \notin S
  <2>1. S \subseteq Calls  OBVIOUS
  <2>2. IsFiniteSet(S)  BY <2>1, FS_Subset
  <2> QED  BY <1>1, <2>1, <2>2, FS_CardinalityType
<1>4. CASE Permitted /\ StateSeen = "HALF_OPEN"
  <2>1. halfOpenInFlight' = InFlightSeen + 1 /\ call' = [seen EXCEPT ![c] = "probe"]
    BY <1>4 DEF Execute
  <2> HIDE DEF seen
  <2>2. call' \in [Calls -> CallStates]  BY <1>1, <2>1 DEF CallStates
  <2>3. Probes' = S \cup {c}  BY <1>1, <2>1 DEF Probes
  <2> HIDE DEF S
  <2>4. Cardinality(Probes') = Cardinality(S) + 1
    BY <1>3, <2>3, ProbeBegins
  <2>5. halfOpenInFlight' <= Cardinality(Probes')
    BY <1>1, <1>3, <1>4, <2>1, <2>4
  <2>6. TypeOK'  BY <1>1, <1>2, <2>1, <2>2 DEF IInv, TypeOK
  <2> QED
    BY <1>1, <1>2, <1>4, <2>5, <2>6
       DEF IInv, ClosedBelowThreshold, OpenHasDeadline, NoSlotLeaked, HalfOpenUnfinished
<1>5. CASE ~(Permitted /\ StateSeen = "HALF_OPEN")
  <2>1. /\ halfOpenInFlight' = InFlightSeen
        /\ call' = seen \/ call' = [seen EXCEPT ![c] = "ordinary"]
    BY <1>5 DEF Execute
  <2> HIDE DEF seen
  <2>2. call' \in [Calls -> CallStates]  BY <1>1, <2>1 DEF CallStates
  <2>3. Probes' = S
    <3>1. CASE call' = seen  BY <3>1 DEF Probes
    <3>2. CASE call' = [seen EXCEPT ![c] = "ordinary"]
      BY <1>1, <3>2 DEF Probes
    <3> QED  BY <2>1, <3>1, <3>2
  <2>4. TypeOK'  BY <1>1, <1>2, <2>1, <2>2 DEF IInv, TypeOK
  <2> HIDE DEF S
  <2> QED
    BY <1>1, <1>2, <2>1, <2>3, <2>4
       DEF IInv, ClosedBelowThreshold, OpenHasDeadline, NoSlotLeaked, HalfOpenUnfinished
<1> QED  BY <1>4, <1>5

\* The end of a call: one probe less at most, one slot less if there is one.
LEMMA EndCounts ==
  ASSUME IInv, NEW c \in Calls, call' = [call EXCEPT ![c] = "idle"],
         halfOpenInFlight' = Released(state'), state = "HALF_OPEN",
         state' = "HALF_OPEN"
  PROVE  halfOpenInFlight' <= Cardinality(Probes')
<1>1. Probes' = Probes \ {c}  BY DEF Probes, IInv, TypeOK, CallStates
<1>2. /\ Cardinality(Probes \ {c}) \in Nat
      /\ Cardinality(Probes \ {c}) >= Cardinality(Probes) - 1
  BY ProbeEnds
<1>3. halfOpenInFlight \in Nat /\ halfOpenInFlight <= Cardinality(Probes)
  BY DEF IInv, TypeOK, NoSlotLeaked
<1>4. Cardinality(Probes) \in Nat  BY ProbesFinite
<1> QED  BY <1>1, <1>2, <1>3, <1>4 DEF Released, Greater

\* onSuccess() keeps the invariant, whether or not it closes the breaker.
LEMMA SucceedInv ==
  ASSUME IInv, NEW c \in Calls, Succeed(c)
  PROVE  IInv'
<1> USE ConstantTypes
<1>1. TypeOK'
  BY DEF IInv, TypeOK, Succeed, Released, Greater, CallStates
<1>2. ClosedBelowThreshold' /\ OpenHasDeadline'
  BY DEF IInv, Succeed, ClosedBelowThreshold, OpenHasDeadline
<1>3. NoSlotLeaked'
  <2>1. SUFFICES ASSUME state' = "HALF_OPEN"
                 PROVE  halfOpenInFlight' <= Cardinality(Probes')
    BY DEF NoSlotLeaked
  <2>2. state = "HALF_OPEN"  BY <2>1 DEF Succeed
  <2> QED  BY <2>1, <2>2, EndCounts DEF Succeed
<1>4. HalfOpenUnfinished'
  BY DEF IInv, TypeOK, Succeed, Recovered, HalfOpenUnfinished
<1> QED  BY <1>1, <1>2, <1>3, <1>4 DEF IInv

\* onFailure() keeps the invariant, whether or not it trips the breaker.
LEMMA FailInv ==
  ASSUME IInv, NEW c \in Calls, FailCall(c)
  PROVE  IInv'
<1> USE ConstantTypes
<1>1. TypeOK'
  BY DEF IInv, TypeOK, FailCall, Released, Greater, Lesser, CallStates
<1>2. state' # "HALF_OPEN"
  BY DEF FailCall, Tripped
<1>3. ClosedBelowThreshold'
  BY DEF IInv, TypeOK, FailCall, Tripped, Lesser, ClosedBelowThreshold
<1>4. OpenHasDeadline'
  BY DEF FailCall, OpenHasDeadline
<1> QED
  BY <1>1, <1>2, <1>3, <1>4 DEF IInv, NoSlotLeaked, HalfOpenUnfinished

\* Every step of the breaker, its callers and the clock keeps the invariant.
LEMMA NextInv == IInv /\ [Next]_vars => IInv'
<1> SUFFICES ASSUME IInv, [Next]_vars PROVE IInv'  OBVIOUS
<1> USE ConstantTypes
<1>1. ASSUME NEW c \in Calls, Execute(c) PROVE IInv'  BY <1>1, ExecuteInv
<1>2. ASSUME NEW c \in Calls, Succeed(c) PROVE IInv'  BY <1>2, SucceedInv
<1>3. ASSUME NEW c \in Calls, FailCall(c) PROVE IInv'  BY <1>3, FailInv
<1>4. CASE IsAllowed  BY <1>4, TransitionInv
<1>5. CASE Reset
  BY <1>5
     DEF Reset, IInv, TypeOK, ClosedBelowThreshold, OpenHasDeadline, NoSlotLeaked,
         HalfOpenUnfinished, Never
<1>6. CASE Tick
  <2>1. Probes' = Probes  BY <1>6 DEF Tick, Probes
  <2> QED
    BY <1>6, <2>1
       DEF Tick, IInv, TypeOK, ClosedBelowThreshold, OpenHasDeadline, NoSlotLeaked,
           HalfOpenUnfinished
<1>7. CASE UNCHANGED vars
  <2>1. Probes' = Probes  BY <1>7 DEF Probes, vars
  <2> QED
    BY <1>7, <2>1
       DEF IInv, TypeOK, ClosedBelowThreshold, OpenHasDeadline, NoSlotLeaked,
           HalfOpenUnfinished, vars
<1> QED  BY <1>1, <1>2, <1>3, <1>4, <1>5, <1>6, <1>7 DEF Next

\* The constructor establishes the invariant.
LEMMA InitInv == Init => IInv
  BY ConstantTypes
     DEF Init, IInv, TypeOK, CallStates, ClosedBelowThreshold, OpenHasDeadline,
         NoSlotLeaked, HalfOpenUnfinished

\* The invariant holds of every state the breaker can reach.
LEMMA InvariantHolds == Spec => []IInv
  BY InitInv, NextInv, PTL DEF Spec

-----------------------------------------------------------------------------
(***************************************************************************)
(* The theorems                                                            *)
(***************************************************************************)

\* The breaker keeps its state well-typed: no slot count below zero.
THEOREM TypeCorrect == Spec => []TypeOK
<1>1. IInv => TypeOK  BY DEF IInv
<1> QED  BY <1>1, InvariantHolds, PTL

\* A closed breaker has tolerated fewer failures than the threshold.
THEOREM ClosedTolerates == Spec => []ClosedBelowThreshold
<1>1. IInv => ClosedBelowThreshold  BY DEF IInv
<1> QED  BY <1>1, InvariantHolds, PTL

\* No probe slot is ever leaked, so a half-open breaker without a running probe
\* admits one.
THEOREM SlotsNotLeaked == Spec => []NoSlotLeaked
<1>1. IInv => NoSlotLeaked  BY DEF IInv
<1> QED  BY <1>1, InvariantHolds, PTL

-----------------------------------------------------------------------------
(***************************************************************************)
(* The refinement                                                          *)
(***************************************************************************)

\* The time an open breaker still waits.
Left == IF state = "OPEN" THEN Timeout - sinceFailure ELSE 0

\* Every step of the breaker is a step of the gate or changes nothing there.
LEMMA GateStep ==
  ASSUME IInv, [Next]_vars
  PROVE  [Gate!Next]_(Gate!gateVars)
<1> USE ConstantTypes DEF Gate!gateVars
<1>0. /\ state \in {"CLOSED", "OPEN", "HALF_OPEN"}
      /\ call \in [Calls -> CallStates]
      /\ sinceFailure \in 0 .. Timeout \cup {Never}
      /\ state = "OPEN" => sinceFailure \in 0 .. Timeout
  BY DEF IInv, TypeOK, OpenHasDeadline
<1>1. Elapsed => Gate!Unlocked /\ Left = 0
  BY <1>0 DEF Elapsed, Gate!Unlocked, Left
<1>2. ASSUME NEW c \in Calls, Execute(c) PROVE [Gate!Next]_(Gate!gateVars)
  <2>1. state' = StateSeen /\ sinceFailure' = sinceFailure /\ call[c] = "idle"
    BY <1>2 DEF Execute
  <2>2. Left' = Left
    BY <1>1, <2>1 DEF Left, StateSeen, Elapsed
  <2>3. {d \in Calls : CallsSeen[d] # "idle"} = Running
          /\ CallsSeen \in [Calls -> CallStates]
    BY <1>0 DEF CallsSeen, Age, Running, CallStates
  <2>4. CASE Permitted
    <3>1. Running' = Running \cup {c}
      <4>1. \/ call' = [CallsSeen EXCEPT ![c] = "probe"]
            \/ call' = [CallsSeen EXCEPT ![c] = "ordinary"]
        BY <1>2, <2>4 DEF Execute
      <4> QED  BY <2>3, <4>1 DEF Running
    <3>2. c \notin Running  BY <2>1 DEF Running
    <3>3. \/ state # "OPEN" /\ state' = state
          \/ Gate!Unlocked /\ state' = "HALF_OPEN"
      BY <1>1, <2>1, <2>4 DEF Permitted, StateSeen, Elapsed
    <3>4. Gate!Begin(c)
      BY <2>2, <3>1, <3>2, <3>3 DEF Gate!Begin, Left
    <3> QED  BY <3>4 DEF Gate!Next
  <2>5. CASE ~Permitted
    <3>1. Running' = Running
      BY <1>2, <2>3, <2>5 DEF Execute, Running
    <3>2. CASE Elapsed
      <4>1. state' = "HALF_OPEN"  BY <2>1, <3>2 DEF StateSeen
      <4>2. Gate!Unlock
        BY <1>1, <2>2, <3>1, <3>2, <4>1 DEF Gate!Unlock, Left
      <4> QED  BY <4>2 DEF Gate!Next
    <3>3. CASE ~Elapsed
      <4>1. state' = state  BY <2>1, <3>3 DEF StateSeen
      <4> QED  BY <2>2, <3>1, <4>1 DEF Left
    <3> QED  BY <3>2, <3>3
  <2> QED  BY <2>4, <2>5
<1>3. CASE IsAllowed
  <2>1. state' = StateSeen /\ sinceFailure' = sinceFailure /\ call' = CallsSeen
    BY <1>3 DEF IsAllowed
  <2>2. Left' = Left
    BY <1>1, <2>1 DEF Left, StateSeen, Elapsed
  <2>3. Running' = Running
    BY <1>0, <2>1 DEF CallsSeen, Age, Running, CallStates
  <2>4. CASE Elapsed
    <3>1. state' = "HALF_OPEN"  BY <2>1, <2>4 DEF StateSeen
    <3>2. Gate!Unlock
      BY <1>1, <2>2, <2>3, <2>4, <3>1 DEF Gate!Unlock, Left
    <3> QED  BY <3>2 DEF Gate!Next
  <2>5. CASE ~Elapsed
    <3>1. state' = state  BY <2>1, <2>5 DEF StateSeen
    <3> QED  BY <2>2, <2>3, <3>1 DEF Left
  <2> QED  BY <2>4, <2>5
<1>4. ASSUME NEW c \in Calls, Succeed(c) PROVE [Gate!Next]_(Gate!gateVars)
  <2>1. Running' = Running \ {c} /\ c \in Running
    BY <1>0, <1>4 DEF Succeed, Running
  <2>2. Left' = Left /\ (state' = state \/ (state = "HALF_OPEN" /\ state' = "CLOSED"))
    BY <1>4 DEF Succeed, Recovered, Left
  <2>3. Gate!EndWell(c)  BY <2>1, <2>2 DEF Gate!EndWell, Left
  <2> QED  BY <2>3 DEF Gate!Next
<1>5. ASSUME NEW c \in Calls, FailCall(c) PROVE [Gate!Next]_(Gate!gateVars)
  <2>1. Running' = Running \ {c} /\ c \in Running
    BY <1>0, <1>5 DEF FailCall, Running
  <2>2. \/ state = "CLOSED" /\ state' = state /\ Left' = Left
        \/ state' = "OPEN" /\ Left' = Timeout
    BY <1>0, <1>5 DEF FailCall, Tripped, Left, IInv, TypeOK
  <2>3. Gate!EndBadly(c)  BY <2>1, <2>2 DEF Gate!EndBadly, Left
  <2> QED  BY <2>3 DEF Gate!Next
<1>6. CASE Reset
  <2>1. Gate!Reset  BY <1>6 DEF Reset, Gate!Reset, Running
  <2> QED  BY <2>1 DEF Gate!Next
<1>7. CASE Tick
  <2>1. Running' = Running /\ state' = state  BY <1>7 DEF Tick, Running
  <2>2. CASE state = "OPEN"
    <3>1. Left > 0 /\ Left' = Left - 1
      BY <1>0, <1>7, <2>2 DEF Tick, Left
    <3>2. Gate!Wait  BY <2>1, <3>1 DEF Gate!Wait, Left
    <3> QED  BY <3>2 DEF Gate!Next
  <2>3. CASE state # "OPEN"
    BY <2>1, <2>3
  <2> QED  BY <2>2, <2>3
<1>8. CASE UNCHANGED vars
  BY <1>8 DEF vars, Running
<1> QED  BY <1>2, <1>3, <1>4, <1>5, <1>6, <1>7, <1>8 DEF Next

\* The breaker with its counters implements the gate: whatever order calls end
\* in, an open breaker lets none begin until the whole timeout has passed.
THEOREM ImplementsGate == Spec => GateSpec
<1>1. Init => Gate!Init
  BY DEF Init, Gate!Init, Running
<1>2. IInv /\ [Next]_vars => [Gate!Next]_(Gate!gateVars)
  BY GateStep
<1> QED  BY <1>1, <1>2, InvariantHolds, PTL DEF Spec, GateSpec, Gate!Spec

-----------------------------------------------------------------------------
(***************************************************************************)
(* The retry loops inside the breaker                                      *)
(***************************************************************************)

\* The local variables of a retry loop.
Loop == [retries : Nat, attempt : Nat, asleep : BOOLEAN]

LoopTypes ==
  /\ call \in [Calls -> CallStates]
  /\ loop \in [Calls -> Loop]
  /\ profile \in Reputations

\* A running loop counts its attempts, and sleeps only when one is left.
LoopCounts ==
  \A c \in Calls : call[c] # "idle" =>
    /\ loop[c].attempt <= loop[c].retries
    /\ loop[c].asleep => loop[c].attempt # loop[c].retries

\* Whatever the reputation, a loop has a natural number of retries.
LEMMA RetriesAreNatural ==
  ASSUME NEW reputation \in Reputations
  PROVE  RetriesFor(reputation) \in Nat
<1>1. reputation \in Int /\ BaseRetries \in Nat /\ MaxRetries \in Nat
  BY RetryAssumption DEF RetryAssumption
<1>2. (reputation - 50) \div 10 \in Int
  BY <1>1
<1> DEFINE wanted == BaseRetries + ((reputation - 50) \div 10)
<1>3. wanted \in Int
  BY <1>1, <1>2
<1> HIDE DEF wanted
<1>4. Greater(1, Lesser(MaxRetries, wanted)) \in Nat
  BY <1>1, <1>3 DEF Greater, Lesser
<1> QED
  BY <1>4 DEF RetriesFor, wanted

\* So has a loop whose length follows from the type of the message.
LEMMA LengthsAreNatural ==
  ASSUME profile \in Reputations
  PROVE  LoopLengths \subseteq Nat
BY RetriesAreNatural, RetryAssumption DEF LoopLengths, RetryAssumption

\* A step of the facade is one of the breaker or leaves the breaker alone.
LEMMA SmartIsBreaker ==
  ASSUME [SmartNext]_smartVars
  PROVE  [Next]_vars
<1>1. ASSUME NEW c \in Calls,
             SmartExecute(c) \/ AttemptSucceeds(c) \/ AttemptFails(c) \/ Wake(c)
      PROVE  [Next]_vars
  BY <1>1 DEF SmartExecute, AttemptSucceeds, AttemptFails, Wake, Next
<1> QED
  BY <1>1 DEF SmartNext, UpdatePeerProfile, IsAllowed, Reset, Tick, Next, smartVars

\* A call begins only where none runs; for the others nothing begins or ends.
LEMMA ExecuteBegins ==
  ASSUME NEW c \in Calls, call \in [Calls -> CallStates], Execute(c)
  PROVE  /\ call[c] = "idle" /\ call' \in [Calls -> CallStates]
         /\ ~Permitted => call'[c] = "idle"
         /\ \A d \in Calls : d # c => (call'[d] = "idle" <=> call[d] = "idle")
<1>1. /\ CallsSeen \in [Calls -> CallStates]
      /\ \A d \in Calls : CallsSeen[d] = "idle" <=> call[d] = "idle"
  BY DEF CallsSeen, Age, CallStates
<1>2. \/ Permitted /\ call' = [CallsSeen EXCEPT ![c] = "probe"]
      \/ Permitted /\ call' = [CallsSeen EXCEPT ![c] = "ordinary"]
      \/ ~Permitted /\ call' = CallsSeen
  BY DEF Execute
<1> HIDE DEF CallsSeen
<1> QED
  BY <1>1, <1>2 DEF Execute, CallStates

\* The counts of the loops are kept by every step.
LEMMA LoopStep ==
  ASSUME LoopTypes, LoopCounts, [SmartNext]_smartVars
  PROVE  LoopTypes' /\ LoopCounts'
<1> DEFINE Sound(d) == call[d] # "idle" =>
             /\ loop[d].attempt <= loop[d].retries
             /\ loop[d].asleep => loop[d].attempt # loop[d].retries
<1>0. /\ call \in [Calls -> CallStates] /\ loop \in [Calls -> Loop]
      /\ profile \in Reputations /\ \A d \in Calls : Sound(d)
  BY DEF LoopTypes, LoopCounts
<1>1. ASSUME /\ call' \in [Calls -> CallStates] /\ loop' \in [Calls -> Loop]
             /\ profile' \in Reputations,
             \A d \in Calls : Sound(d)'
      PROVE  LoopTypes' /\ LoopCounts'
  BY <1>1 DEF LoopTypes, LoopCounts
<1>2. ASSUME NEW c \in Calls, NEW l \in Loop, loop' = [loop EXCEPT ![c] = l]
      PROVE  /\ loop' \in [Calls -> Loop] /\ loop'[c] = l
             /\ \A d \in Calls : d # c => loop'[d] = loop[d]
  BY <1>0, <1>2
<1>3. NoLoop \in Loop
  BY DEF NoLoop, Loop
<1>4. ASSUME NEW c \in Calls, SmartExecute(c) PROVE LoopTypes' /\ LoopCounts'
  <2>1. /\ call[c] = "idle" /\ call' \in [Calls -> CallStates]
        /\ ~Permitted => call'[c] = "idle"
        /\ \A d \in Calls : d # c => (call'[d] = "idle" <=> call[d] = "idle")
        /\ profile' = profile
    BY <1>0, <1>4, ExecuteBegins DEF SmartExecute
  <2>2. ASSUME NEW retries \in LoopLengths,
               loop' = [loop EXCEPT ![c] = [NoLoop EXCEPT !.retries = retries]]
        PROVE  LoopTypes' /\ LoopCounts'
    <3> DEFINE l == [NoLoop EXCEPT !.retries = retries]
    <3>1. retries \in Nat
      BY <1>0, LengthsAreNatural
    <3>2. l \in Loop /\ l.attempt = 0 /\ l.asleep = FALSE /\ l.retries \in Nat
      BY <3>1 DEF NoLoop, Loop
    <3>3. loop' = [loop EXCEPT ![c] = l]
      BY <2>2
    <3> HIDE DEF l
    <3>4. loop'[c] = l /\ loop' \in [Calls -> Loop]
          /\ \A d \in Calls : d # c => loop'[d] = loop[d]
      BY <1>2, <3>2, <3>3
    <3>5. l.attempt <= l.retries
      BY <3>2
    <3>6. Sound(c)'
      BY <3>2, <3>4, <3>5
    <3>7. \A d \in Calls : d # c => Sound(d)'
      BY <1>0, <2>1, <3>4
    <3> HIDE DEF Sound
    <3> QED
      BY <1>0, <1>1, <2>1, <3>4, <3>6, <3>7
  <2>3. CASE ~Permitted /\ UNCHANGED loop
    <3>1. \A d \in Calls : Sound(d)'
      BY <1>0, <2>1, <2>3
    <3> QED
      BY <1>0, <1>1, <2>1, <2>3, <3>1
  <2> QED
    BY <1>4, <2>2, <2>3 DEF SmartExecute
<1>5. ASSUME NEW c \in Calls, call' = [call EXCEPT ![c] = "idle"], LoopEnds(c), profile' = profile
      PROVE  LoopTypes' /\ LoopCounts'
  <2>1. /\ call' \in [Calls -> CallStates] /\ call'[c] = "idle"
        /\ \A d \in Calls : d # c => call'[d] = call[d]
    BY <1>0, <1>5 DEF CallStates
  <2>2. /\ loop' \in [Calls -> Loop]
        /\ \A d \in Calls : d # c => loop'[d] = loop[d]
    BY <1>2, <1>3, <1>5 DEF LoopEnds
  <2>3. \A d \in Calls : Sound(d)'
    BY <1>0, <2>1, <2>2
  <2> QED
    BY <1>0, <1>1, <1>5, <2>1, <2>2, <2>3
<1>6. ASSUME NEW c \in Calls, AttemptSucceeds(c) PROVE LoopTypes' /\ LoopCounts'
  BY <1>5, <1>6 DEF AttemptSucceeds, Succeed
<1>7. ASSUME NEW c \in Calls, AttemptFails(c) PROVE LoopTypes' /\ LoopCounts'
  <2>1. CASE FailCall(c) /\ LoopEnds(c)
    BY <1>5, <1>7, <2>1 DEF AttemptFails, FailCall
  <2>2. CASE ~LastAttempt(c) /\ loop' = [loop EXCEPT ![c].asleep = TRUE] /\ UNCHANGED vars
    <3> DEFINE l == [loop[c] EXCEPT !.asleep = TRUE]
    <3>1. l \in Loop /\ l.attempt = loop[c].attempt /\ l.retries = loop[c].retries
      BY <1>0 DEF Loop
    <3>2. loop' = [loop EXCEPT ![c] = l] /\ call' = call /\ profile' = profile
      BY <1>7, <2>2 DEF vars, AttemptFails
    <3> HIDE DEF l
    <3>3. loop' \in [Calls -> Loop] /\ loop'[c] = l /\ \A d \in Calls : d # c => loop'[d] = loop[d]
      BY <1>0, <3>1, <3>2
    <3>4. loop[c].attempt # loop[c].retries
      BY <2>2 DEF LastAttempt
    <3>5. Sound(c)'
      BY <1>0, <3>1, <3>2, <3>3, <3>4
    <3>6. \A d \in Calls : d # c => Sound(d)'
      BY <1>0, <3>2, <3>3
    <3> HIDE DEF Sound
    <3> QED
      BY <1>0, <1>1, <3>2, <3>3, <3>5, <3>6
  <2> QED
    BY <1>7, <2>1, <2>2 DEF AttemptFails
<1>8. ASSUME NEW c \in Calls, Wake(c) PROVE LoopTypes' /\ LoopCounts'
  <2> DEFINE l == [loop[c] EXCEPT !.asleep = FALSE, !.attempt = loop[c].attempt + 1]
  <2>1. loop[c].attempt \in Nat /\ loop[c].retries \in Nat
    BY <1>0 DEF Loop
  <2>2. loop[c].attempt + 1 \in Nat
    BY <2>1
  <2>3. /\ l \in Loop /\ l.attempt = loop[c].attempt + 1 /\ l.retries = loop[c].retries
        /\ l.asleep = FALSE
    BY <1>0, <2>2 DEF Loop
  <2>4. /\ loop' = [loop EXCEPT ![c] = l]
        /\ call' = call /\ profile' = profile /\ call[c] # "idle" /\ loop[c].asleep
    BY <1>8 DEF Wake, vars
  <2> HIDE DEF l
  <2>5. /\ loop' \in [Calls -> Loop] /\ loop'[c] = l
        /\ \A d \in Calls : d # c => loop'[d] = loop[d]
    BY <1>2, <2>3, <2>4
  <2>6. loop[c].attempt <= loop[c].retries /\ loop[c].attempt # loop[c].retries
    BY <1>0, <2>4
  <2>7. loop'[c].attempt <= loop'[c].retries
    BY <2>1, <2>3, <2>5, <2>6
  <2>8. Sound(c)'
    BY <2>3, <2>5, <2>7
  <2>9. \A d \in Calls : d # c => Sound(d)'
    BY <1>0, <2>4, <2>5
  <2> HIDE DEF Sound
  <2> QED
    BY <1>0, <1>1, <2>4, <2>5, <2>8, <2>9
<1>9. ASSUME UNCHANGED loop, call' \in [Calls -> CallStates], profile' \in Reputations,
             \A d \in Calls : call'[d] = "idle" <=> call[d] = "idle"
      PROVE  LoopTypes' /\ LoopCounts'
  <2>1. \A d \in Calls : Sound(d)'
    BY <1>0, <1>9
  <2> QED
    BY <1>0, <1>1, <1>9, <2>1
<1>10. CASE (IsAllowed \/ Reset \/ Tick) /\ UNCHANGED retryVars
  <2>1. call' = call \/ call' = CallsSeen
    BY <1>10 DEF IsAllowed, Reset, Tick
  <2>2. /\ CallsSeen \in [Calls -> CallStates]
        /\ \A d \in Calls : CallsSeen[d] = "idle" <=> call[d] = "idle"
    BY <1>0 DEF CallsSeen, Age, CallStates
  <2> QED
    BY <1>0, <1>9, <1>10, <2>1, <2>2 DEF retryVars
<1>11. ASSUME NEW reputation \in Reputations, UpdatePeerProfile(reputation)
       PROVE  LoopTypes' /\ LoopCounts'
  BY <1>0, <1>9, <1>11 DEF UpdatePeerProfile, vars
<1>12. CASE UNCHANGED smartVars
  BY <1>0, <1>9, <1>12 DEF smartVars, vars, retryVars
<1> QED
  BY <1>4, <1>6, <1>7, <1>8, <1>10, <1>11, <1>12 DEF SmartNext

\* The counts of the loops hold throughout.
LEMMA LoopInvariant == SmartSpec => [](LoopTypes /\ LoopCounts)
<1>1. SmartInit => LoopTypes /\ LoopCounts
  <2> SUFFICES ASSUME SmartInit PROVE LoopTypes /\ LoopCounts
    OBVIOUS
  <2>1. /\ call = [c \in Calls |-> "idle"] /\ profile = 50
        /\ loop = [c \in Calls |-> NoLoop]
    BY DEF SmartInit, Init
  <2>2. NoLoop \in Loop /\ 50 \in Reputations
    BY RetryAssumption DEF NoLoop, Loop, RetryAssumption
  <2> QED
    BY <2>1, <2>2 DEF LoopTypes, LoopCounts, CallStates
<1> QED
  BY <1>1, LoopStep, PTL DEF SmartSpec

\* The facade uses the breaker as any callers may: what holds of the breaker alone
\* holds under the retry loops.
THEOREM FacadeRunsBreaker == SmartSpec => Spec
<1>1. SmartInit => Init
  BY DEF SmartInit
<1> QED
  BY <1>1, SmartIsBreaker, PTL DEF SmartSpec, Spec

\* Under the retry loops as well an open breaker lets no call begin.
THEOREM FacadeImplementsGate == SmartSpec => GateSpec
BY FacadeRunsBreaker, ImplementsGate

\* A loop that is under way has no less than no attempt left.
LEMMA LeftIsNatural ==
  ASSUME LoopTypes, LoopCounts, NEW c \in Calls
  PROVE  AttemptsLeft[c] \in Nat /\ (call[c] # "idle" /\ loop[c].asleep => AttemptsLeft[c] > 0)
<1>1. loop[c].retries \in Nat /\ loop[c].attempt \in Nat
  BY DEF LoopTypes, Loop
<1>2. AttemptsLeft[c] = IF call[c] = "idle" THEN 0 ELSE loop[c].retries - loop[c].attempt
  BY DEF AttemptsLeft
<1>3. CASE call[c] = "idle"
  BY <1>2, <1>3
<1>4. CASE call[c] # "idle"
  <2>1. AttemptsLeft[c] = loop[c].retries - loop[c].attempt
    BY <1>2, <1>4
  <2>2. /\ loop[c].attempt <= loop[c].retries
        /\ loop[c].asleep => loop[c].attempt # loop[c].retries
    BY <1>4 DEF LoopCounts
  <2> QED
    BY <1>1, <2>1, <2>2
<1> QED
  BY <1>3, <1>4

\* What OpenDrains says of one caller.
Drains(c) ==
  /\ 0 <= AttemptsLeft'[c] /\ AttemptsLeft'[c] <= AttemptsLeft[c]
  /\ Begins(c) => AttemptsLeft'[c] < AttemptsLeft[c]

StaysOpen == state = "OPEN" /\ state' = "OPEN"
Drained == StaysOpen => \A c \in Calls : Drains(c)

\* While the breaker is open, the loops it had admitted ask the peer only as often as
\* they may, for any number of callers and whatever the profile becomes on the way.
THEOREM OpenBreakerDrains == SmartSpec => OpenDrains
<1>1. LoopTypes /\ LoopCounts /\ [SmartNext]_smartVars => [Drained]_smartVars
  <2> SUFFICES ASSUME LoopTypes, LoopCounts, SmartNext, StaysOpen, NEW c \in Calls
               PROVE  Drains(c)
    BY DEF Drained
  <2>0. /\ call \in [Calls -> CallStates] /\ loop \in [Calls -> Loop]
        /\ AttemptsLeft[c] \in Nat /\ (call[c] # "idle" /\ loop[c].asleep => AttemptsLeft[c] > 0)
    BY LeftIsNatural DEF LoopTypes
  <2>b. /\ AttemptsLeft[c] = IF call[c] = "idle" THEN 0 ELSE loop[c].retries - loop[c].attempt
        /\ AttemptsLeft'[c] = IF call'[c] = "idle" THEN 0 ELSE loop'[c].retries - loop'[c].attempt
    BY DEF AttemptsLeft
  <2>a. ASSUME AttemptsLeft'[c] = AttemptsLeft[c] \/ AttemptsLeft'[c] = 0, ~Begins(c)
        PROVE  Drains(c)
    <3>1. 0 <= AttemptsLeft'[c] /\ AttemptsLeft'[c] <= AttemptsLeft[c]
      BY <2>0, <2>a, SMT
    <3> QED
      BY <2>a, <3>1 DEF Drains
  <2>1. ASSUME loop'[c] = loop[c], call'[c] = "idle" <=> call[c] = "idle"
        PROVE  Drains(c)
    <3>1. AttemptsLeft'[c] = AttemptsLeft[c]
      BY <2>1, <2>b
    <3>2. ~Begins(c)
      BY <2>1 DEF Begins
    <3> QED
      BY <2>a, <3>1, <3>2
  <2>2. ASSUME call'[c] = "idle" PROVE Drains(c)
    <3>1. AttemptsLeft'[c] = 0
      BY <2>2, <2>b
    <3>2. ~Begins(c)
      BY <2>2 DEF Begins
    <3> QED
      BY <2>a, <3>1, <3>2
  <2>3. ASSUME NEW d \in Calls, SmartExecute(d) PROVE Drains(c)
    <3>1. /\ \A e \in Calls : e # d => (call'[e] = "idle" <=> call[e] = "idle")
          /\ ~Permitted => call'[d] = "idle"
      BY <2>0, <2>3, ExecuteBegins DEF SmartExecute
    <3>2. StateSeen = "OPEN" /\ ~Permitted
      BY <2>3 DEF SmartExecute, Execute, Permitted, StaysOpen
    <3>3. loop' = loop
      BY <2>3, <3>2 DEF SmartExecute
    <3>4. CASE c = d
      BY <2>2, <3>1, <3>2, <3>4
    <3>5. CASE c # d
      BY <2>1, <3>1, <3>3, <3>5
    <3> QED
      BY <3>4, <3>5
  <2>4. ASSUME NEW d \in Calls, call' = [call EXCEPT ![d] = "idle"], LoopEnds(d)
        PROVE  Drains(c)
    <3>1. CASE c = d
      <4>1. call'[c] = "idle"
        BY <2>0, <2>4, <3>1
      <4> QED
        BY <2>2, <4>1
    <3>2. CASE c # d
      <4>1. loop'[c] = loop[c] /\ call'[c] = call[c]
        BY <2>0, <2>4, <3>2 DEF LoopEnds
      <4> QED
        BY <2>1, <4>1
    <3> QED
      BY <3>1, <3>2
  <2>5. ASSUME NEW d \in Calls, AttemptSucceeds(d) PROVE Drains(c)
    BY <2>4, <2>5 DEF AttemptSucceeds, Succeed
  <2>6. ASSUME NEW d \in Calls, AttemptFails(d) PROVE Drains(c)
    <3>1. CASE FailCall(d) /\ LoopEnds(d)
      BY <2>4, <3>1 DEF FailCall
    <3>2. CASE loop' = [loop EXCEPT ![d].asleep = TRUE] /\ UNCHANGED vars
      <4>1. /\ loop'[c].retries = loop[c].retries /\ loop'[c].attempt = loop[c].attempt
            /\ loop[c].asleep => loop'[c].asleep
        BY <2>0, <3>2 DEF Loop
      <4>2. call'[c] = call[c]
        BY <3>2 DEF vars
      <4>3. AttemptsLeft'[c] = AttemptsLeft[c]
        BY <2>b, <4>1, <4>2
      <4>4. ~Begins(c)
        BY <4>1, <4>2 DEF Begins
      <4> QED
        BY <2>a, <4>3, <4>4
    <3> QED
      BY <2>6, <3>1, <3>2 DEF AttemptFails
  <2>7. ASSUME NEW d \in Calls, Wake(d) PROVE Drains(c)
    <3>1. call' = call /\ call[d] # "idle" /\ loop[d].asleep
      BY <2>7 DEF Wake, vars
    <3>2. CASE c = d
      <4>1. loop'[c].retries = loop[c].retries /\ loop'[c].attempt = loop[c].attempt + 1
        BY <2>0, <2>7, <3>2 DEF Wake, Loop
      <4>2. loop[c].retries \in Nat /\ loop[c].attempt \in Nat
        BY <2>0 DEF Loop
      <4>3. AttemptsLeft[c] = loop[c].retries - loop[c].attempt /\ AttemptsLeft[c] > 0
        BY <2>0, <2>b, <3>1, <3>2
      <4>4. AttemptsLeft'[c] = loop[c].retries - (loop[c].attempt + 1)
        BY <2>b, <3>1, <3>2, <4>1
      <4>5. /\ 0 <= AttemptsLeft'[c] /\ AttemptsLeft'[c] <= AttemptsLeft[c]
            /\ AttemptsLeft'[c] < AttemptsLeft[c]
        BY <4>2, <4>3, <4>4, SMT
      <4> QED
        BY <4>5 DEF Drains
    <3>3. CASE c # d
      <4>1. loop'[c] = loop[c]
        BY <2>0, <2>7, <3>3 DEF Wake
      <4> QED
        BY <2>1, <3>1, <4>1
    <3> QED
      BY <3>2, <3>3
  <2>8. ASSUME NEW reputation \in Reputations, UpdatePeerProfile(reputation) PROVE Drains(c)
    BY <2>1, <2>8 DEF UpdatePeerProfile, vars
  <2>9. CASE (IsAllowed \/ Reset \/ Tick) /\ UNCHANGED retryVars
    <3>1. call' = call \/ call' = CallsSeen
      BY <2>9 DEF IsAllowed, Reset, Tick
    <3>2. CallsSeen[c] = "idle" <=> call[c] = "idle"
      BY <2>0 DEF CallsSeen, Age, CallStates
    <3> QED
      BY <2>1, <2>9, <3>1, <3>2 DEF retryVars
  <2> QED
    BY <2>3, <2>5, <2>6, <2>7, <2>8, <2>9 DEF SmartNext
<1>2. [Drained]_smartVars
        => [state = "OPEN" /\ state' = "OPEN" =>
              \A c \in Calls :
                /\ 0 <= AttemptsLeft'[c] /\ AttemptsLeft'[c] <= AttemptsLeft[c]
                /\ Begins(c) => AttemptsLeft'[c] < AttemptsLeft[c]]_smartVars
  BY DEF Drained, Drains, StaysOpen
<1> QED
  BY <1>1, <1>2, LoopInvariant, PTL DEF SmartSpec, OpenDrains

-----------------------------------------------------------------------------
(***************************************************************************)
(* Reputation                                                              *)
(***************************************************************************)

\* The local variables of an operation.
Local == [score : Scores, count : Nat, history : Seq(Scores)]

\* An operation that keeps a value disturbs neither its other variables nor those
\* of the others.
LEMMA KeepScore ==
  ASSUME NEW op \in Ops, local \in [Ops -> Local], NEW s \in Scores, Keep(op, "score", s)
  PROVE  /\ local' \in [Ops -> Local] /\ local'[op].score = s
         /\ local'[op].count = local[op].count /\ \A o \in Ops : o # op => local'[o] = local[o]
BY DEF Keep, Local

LEMMA KeepCount ==
  ASSUME NEW op \in Ops, local \in [Ops -> Local], NEW n \in Nat, Keep(op, "count", n)
  PROVE  /\ local' \in [Ops -> Local] /\ local'[op].count = n
         /\ local'[op].score = local[op].score /\ \A o \in Ops : o # op => local'[o] = local[o]
BY DEF Keep, Local

LEMMA KeepHistory ==
  ASSUME NEW op \in Ops, local \in [Ops -> Local], NEW h \in Seq(Scores), Keep(op, "history", h)
  PROVE  /\ local' \in [Ops -> Local] /\ local'[op].count = local[op].count
         /\ local'[op].score = local[op].score /\ \A o \in Ops : o # op => local'[o] = local[o]
BY DEF Keep, Local

\* What the assumption on the configuration says of the constants.
LEMMA RepConstants ==
  /\ MinScore \in Int /\ MaxScore \in Int /\ InitialScore \in Scores /\ Scores \subseteq Int
  /\ MaxHistory \in Nat \ {0} /\ Absent \notin Scores
  /\ \A op \in Ops : DeltaOf[op] \in Int
BY ReputationAssumption DEF ReputationAssumption, Scores

\* Clamping brings any sum into the range of scores.
LEMMA ClampedIsScore == ASSUME NEW s \in Int PROVE Clamp(s) \in Scores
BY RepConstants DEF Clamp, Scores

\* So does an operation that runs alone.
LEMMA SerialIsScore == ASSUME NEW op \in Ops, NEW s \in Scores PROVE Serial(op, s) \in Scores
<1>1. Clamp(s + DeltaOf[op]) \in Scores
  BY RepConstants, ClampedIsScore
<1> QED
  BY <1>1, RepConstants DEF Serial

\* The history that is put back is no longer than its limit.
LEMMA LatestFits ==
  ASSUME NEW h \in Seq(Scores)
  PROVE  Latest(h) \in Seq(Scores) /\ Len(Latest(h)) <= MaxHistory
<1> DEFINE from == IF Len(h) > MaxHistory THEN Len(h) - MaxHistory + 1 ELSE 1
<1>1. Len(h) \in Nat /\ MaxHistory \in Nat \ {0}
  BY RepConstants
<1>2. from \in 1 .. Len(h) + 1 /\ Len(h) \in 0 .. Len(h)
      /\ (IF from <= Len(h) THEN Len(h) - from + 1 ELSE 0) <= MaxHistory
  BY <1>1
<1> HIDE DEF from
<1>3. SubSeq(h, from, Len(h)) \in Seq(Scores)
      /\ Len(SubSeq(h, from, Len(h))) = IF from <= Len(h) THEN Len(h) - from + 1 ELSE 0
  BY <1>2, SubSeqProperties
<1> QED
  BY <1>2, <1>3 DEF Latest, from

\* An update that counts has exactly one counter.
LEMMA CounterKnown ==
  ASSUME NEW op \in Ops, Counts(op)
  PROVE  Counter(op) \in Counters /\ CounterOf(EventOf[op]) = {Counter(op)}
<1>1. \A e : \E c \in Counters : CounterOf(e) \subseteq {c}
  BY DEF CounterOf, Counters
<1>2. PICK c \in Counters : CounterOf(EventOf[op]) \subseteq {c}
  BY <1>1
<1>3. CounterOf(EventOf[op]) = {c}
  BY <1>2 DEF Counts
<1>4. Counter(op) = c
  BY <1>3 DEF Counter
<1> QED
  BY <1>3, <1>4

\* Which stages each kind of operation goes through.
StageOK ==
  \A op \in Ops :
    /\ KindOf[op] = "read" => pc[op] \in {"idle", "score", "fill", "done", "failed"}
    /\ KindOf[op] = "reset" => pc[op] \in {"idle", "putScore", "putStamp", "cache", "done", "failed"}
    /\ pc[op] \in {"count", "putCount"} => Counts(op)
    /\ pc[op] = "failed" => op \in torn

\* The keys of the peer in the database.
Record == [score : Scores \cup {Absent}, stamped : BOOLEAN, count : [Counters -> Nat],
           history : Seq(Scores)]

\* The operations whose count may be in the database, and those that have put it.
PastCount(c) == {op \in EventsOf(c) : pc[op] \in {"history", "putHistory", "done", "failed"}}
HasCounted(c) == {op \in EventsOf(c) : pc[op] \in {"history", "putHistory", "done"}}

\* Without an overlap one operation at most is under way.
Lone == "overlap" \notin faults => \A a, b \in Ops : ~Idle(a) /\ ~Idle(b) => a = b

\* No counter is ahead of the operations that may have put it.
CountInv ==
  /\ IsFiniteSet(Begun)
  /\ \A c \in Counters : db.count[c] <= Cardinality(PastCount(c))
  /\ \A op \in Ops : pc[op] = "putCount" => local[op].count <= Cardinality(PastCount(Counter(op)))

\* Nor behind those that have, without overlaps and failed reads.
LossInv ==
  faults \cap {"overlap", "read"} = {} =>
    /\ \A c \in Counters : db.count[c] >= Cardinality(HasCounted(c))
    /\ \A op \in Ops : pc[op] = "putCount" => local[op].count = db.count[Counter(op)]

\* The score as the next operation finds it.
Current == IF db.score = Absent THEN InitialScore ELSE db.score
Settled == ideal = Current /\ cache \in {Current, Absent}

\* Where an operation that runs alone has got to.
Underway(op) ==
  /\ pc[op] \in {"score", "fill", "stamp"} => ideal = Serial(op, Current) /\ cache \in {Current, Absent}
  /\ pc[op] \in {"fill", "stamp"} => local[op].score = Current
  /\ pc[op] = "putScore" => local[op].score = ideal
  /\ pc[op] \in {"putStamp", "cache"} => db.score = ideal /\ local[op].score = ideal
  /\ pc[op] \in {"count", "putCount", "history", "putHistory"} =>
       db.score = ideal /\ cache \in {ideal, Absent}

\* Without disturbances the score in the database is the one in order.
ExactInv ==
  /\ db.score = Absent => stored = {}
  /\ faults = {} => /\ torn = {}
                    /\ Quiet => Settled
                    /\ \A op \in Ops : Underway(op)

\* The record of the peer, the cache and the variables of the operations.
LEMMA RecordStep ==
  ASSUME RecordTypes, StageOK, NEW op \in Ops, Step(op)
  PROVE  RecordTypes'
<1>0. /\ db \in Record /\ Len(db.history) <= MaxHistory /\ cache \in Scores \cup {Absent}
      /\ pc \in [Ops -> Stages] /\ local \in [Ops -> Local] /\ ideal \in Scores
      /\ torn \subseteq Ops /\ stored \subseteq Scores /\ faults \subseteq Faults
      /\ local[op].score \in Scores /\ local[op].count \in Nat /\ local[op].history \in Seq(Scores)
  BY DEF RecordTypes, Record, Local
<1>1. ASSUME NEW stage \in Stages, Goto(op, stage) PROVE pc' \in [Ops -> Stages]
  BY <1>0, <1>1 DEF Goto
<1>2. ASSUME NEW fault, Happens(fault) PROVE faults' \subseteq Faults
  BY <1>0, <1>2 DEF Happens
<1>3. AfterScore(op) \in Stages /\ AfterCache(op) \in Stages
  BY DEF AfterScore, AfterCache, Stages
<1>4. "score" \in Stages /\ "putScore" \in Stages /\ "fill" \in Stages /\ "putStamp" \in Stages
      /\ "cache" \in Stages /\ "putCount" \in Stages /\ "history" \in Stages
      /\ "putHistory" \in Stages /\ "done" \in Stages /\ "failed" \in Stages
  BY DEF Stages
<1> DEFINE Rest == /\ pc' \in [Ops -> Stages] /\ faults' \subseteq Faults /\ torn' \subseteq Ops
                   /\ ideal' \in Scores /\ stored' \subseteq Scores
<1>5. ASSUME Rest, UNCHANGED db, cache' \in Scores \cup {Absent}, local' \in [Ops -> Local]
      PROVE  RecordTypes'
  BY <1>0, <1>5 DEF RecordTypes, Record, Local
<1>6. ASSUME Rest, UNCHANGED <<cache, local>>, db' \in Record, Len(db'.history) <= MaxHistory
      PROVE  RecordTypes'
  BY <1>0, <1>6 DEF RecordTypes, Record, Local
<1>7. CASE Begin(op)
  <2>1. Rest
    BY <1>0, <1>1, <1>2, <1>3, <1>4, <1>7, SerialIsScore DEF Begin
  <2>2. local' \in [Ops -> Local]
    BY <1>0, <1>7, KeepScore, RepConstants DEF Begin
  <2> QED
    BY <1>0, <1>5, <1>7, <2>1, <2>2 DEF Begin
<1>8. CASE ReadScore(op)
  <2>1. Rest
    BY <1>0, <1>1, <1>2, <1>3, <1>4, <1>8 DEF ReadScore
  <2>2. db.score # Absent => db.score \in Scores
    BY <1>0 DEF Record
  <2>3. local' \in [Ops -> Local]
    BY <1>0, <1>8, <2>2, KeepScore, RepConstants DEF ReadScore
  <2> QED
    BY <1>0, <1>5, <1>8, <2>1, <2>3 DEF ReadScore
<1>9. CASE FillCache(op)
  BY <1>0, <1>1, <1>3, <1>5, <1>9 DEF FillCache, history
<1>10. CASE Apply(op)
  <2>1. Rest
    BY <1>0, <1>1, <1>2, <1>4, <1>10 DEF Apply
  <2>2. \A s \in Scores : Clamp(s + DeltaOf[op]) \in Scores
    BY RepConstants, ClampedIsScore
  <2>3. Decayed(local[op].score) \subseteq Scores
    BY DEF Decayed
  <2>4. local' \in [Ops -> Local]
    BY <1>0, <1>10, <2>2, <2>3, KeepScore DEF Apply
  <2> QED
    BY <1>0, <1>5, <1>10, <2>1, <2>4 DEF Apply
<1>11. CASE PutScore(op)
  <2>1. Rest
    BY <1>0, <1>1, <1>4, <1>11 DEF PutScore
  <2>2. db' \in Record /\ db'.history = db.history
    BY <1>0, <1>11 DEF PutScore, Record
  <2> QED
    BY <1>0, <1>6, <1>11, <2>1, <2>2 DEF PutScore
<1>12. CASE PutStamp(op)
  <2>1. Rest
    BY <1>0, <1>1, <1>4, <1>12 DEF PutStamp, history
  <2>2. db' \in Record /\ db'.history = db.history
    BY <1>0, <1>12 DEF PutStamp, Record
  <2> QED
    BY <1>0, <1>6, <1>12, <2>1, <2>2 DEF PutStamp
<1>13. CASE CacheScore(op)
  BY <1>0, <1>1, <1>3, <1>5, <1>13 DEF CacheScore, history
<1>c. pc[op] \in {"count", "putCount"} => Counter(op) \in Counters
  BY CounterKnown DEF StageOK
<1>14. CASE ReadCount(op)
  <2>1. Rest
    BY <1>0, <1>1, <1>2, <1>4, <1>14 DEF ReadCount
  <2>2. db.count[Counter(op)] \in Nat
    BY <1>0, <1>14, <1>c DEF Record, ReadCount
  <2>3. local' \in [Ops -> Local]
    BY <1>0, <1>14, <2>2, KeepCount DEF ReadCount
  <2> QED
    BY <1>0, <1>5, <1>14, <2>1, <2>3 DEF ReadCount
<1>15. CASE PutCount(op)
  <2>1. Rest
    BY <1>0, <1>1, <1>4, <1>15 DEF PutCount, history
  <2> DEFINE count == [db.count EXCEPT ![Counter(op)] = local[op].count + 1]
  <2>3. count \in [Counters -> Nat]
    BY <1>0, <1>15, <1>c DEF Record, PutCount
  <2>4. db' = [db EXCEPT !.count = count]
    BY <1>0, <1>15 DEF PutCount, Record
  <2> HIDE DEF count
  <2>2. db' \in Record /\ db'.history = db.history
    BY <1>0, <2>3, <2>4 DEF Record
  <2> QED
    BY <1>0, <1>6, <1>15, <2>1, <2>2 DEF PutCount
<1>16. CASE ReadHistory(op)
  <2>1. Rest
    BY <1>0, <1>1, <1>2, <1>4, <1>16 DEF ReadHistory
  <2>2. db.history \in Seq(Scores) /\ <<>> \in Seq(Scores)
    BY <1>0 DEF Record
  <2>3. local' \in [Ops -> Local]
    BY <1>0, <1>16, <2>2, KeepHistory DEF ReadHistory
  <2> QED
    BY <1>0, <1>5, <1>16, <2>1, <2>3 DEF ReadHistory
<1>17. CASE PutHistory(op)
  <2>1. Rest
    BY <1>0, <1>1, <1>4, <1>17 DEF PutHistory, history
  <2> DEFINE h == Latest(Append(local[op].history, local[op].score))
  <2>2. h \in Seq(Scores) /\ Len(h) <= MaxHistory
    BY <1>0, AppendProperties, LatestFits
  <2>3. db' = [db EXCEPT !.history = h]
    BY <1>17 DEF PutHistory
  <2> HIDE DEF h
  <2>4. db' \in Record /\ db'.history = h
    BY <1>0, <2>2, <2>3 DEF Record
  <2> QED
    BY <1>0, <1>6, <1>17, <2>1, <2>2, <2>4 DEF PutHistory
<1>18. CASE WriteFails(op)
  <2>1. Rest
    BY <1>0, <1>1, <1>2, <1>4, <1>18 DEF WriteFails
  <2> QED
    BY <1>0, <1>5, <1>18, <2>1 DEF WriteFails
<1> QED
  BY <1>7, <1>8, <1>9, <1>10, <1>11, <1>12, <1>13, <1>14, <1>15, <1>16, <1>17, <1>18 DEF Step

\* What every step of an operation does to where the operations are.
LEMMA MoveStep ==
  ASSUME RecordTypes, StageOK, NEW op \in Ops, Step(op)
  PROVE  /\ ~(pc[op] \in {"done", "failed"}) /\ pc'[op] # "idle"
         /\ \A o \in Ops : o # op => pc'[o] = pc[o] /\ local'[o] = local[o]
         /\ faults \subseteq faults' /\ torn \subseteq torn'
         /\ (pc[op] = "idle" /\ ~Quiet) => "overlap" \in faults'
         /\ faults' = {} => torn' = torn
         /\ StageOK'
<1>0. /\ pc \in [Ops -> Stages] /\ local \in [Ops -> Local] /\ KindOf[op] \in {"update", "read", "reset"}
      /\ torn \subseteq Ops
  BY ReputationAssumption DEF RecordTypes, Local, ReputationAssumption
<1> DEFINE Moved(s) == /\ pc' = [pc EXCEPT ![op] = s]
                       /\ \A o \in Ops : o # op => local'[o] = local[o]
                       /\ faults \subseteq faults' /\ torn \subseteq torn'
           Fits(s) == /\ s # "idle"
                      /\ KindOf[op] = "read" => s \in {"idle", "score", "fill", "done", "failed"}
                      /\ KindOf[op] = "reset" => s \in {"idle", "putScore", "putStamp", "cache", "done", "failed"}
                      /\ s \in {"count", "putCount"} => Counts(op)
                      /\ s = "failed" => op \in torn'
           Clear == /\ (pc[op] = "idle" /\ ~Quiet) => "overlap" \in faults'
                    /\ faults' = {} => torn' = torn
                    /\ ~(pc[op] \in {"done", "failed"})
<1>1. ASSUME NEW s, Moved(s), Fits(s), Clear
      PROVE  /\ ~(pc[op] \in {"done", "failed"}) /\ pc'[op] # "idle"
             /\ \A o \in Ops : o # op => pc'[o] = pc[o] /\ local'[o] = local[o]
             /\ faults \subseteq faults' /\ torn \subseteq torn'
             /\ (pc[op] = "idle" /\ ~Quiet) => "overlap" \in faults'
             /\ faults' = {} => torn' = torn
             /\ StageOK'
  <2>1. pc'[op] = s /\ \A o \in Ops : o # op => pc'[o] = pc[o]
    BY <1>0, <1>1
  <2>2. StageOK'
    BY <1>1, <2>1 DEF StageOK
  <2> QED
    BY <1>1, <2>1, <2>2
<1>k. ASSUME NEW f, NEW v, Keep(op, f, v) PROVE \A o \in Ops : o # op => local'[o] = local[o]
  BY <1>0, <1>k DEF Keep
<1>f. ASSUME NEW f, Happens(f) PROVE faults \subseteq faults' /\ f \in faults'
  BY <1>f DEF Happens
<1>o. /\ KindOf[op] = "read" => pc[op] \in {"idle", "score", "fill", "done", "failed"}
      /\ KindOf[op] = "reset" => pc[op] \in {"idle", "putScore", "putStamp", "cache", "done", "failed"}
      /\ pc[op] \in {"count", "putCount"} => Counts(op)
  BY DEF StageOK
<1> DEFINE Some == \E s \in Stages : Moved(s) /\ Fits(s) /\ Clear
<1>s. KindOf[op] # "reset" => Fits(AfterScore(op)) /\ AfterScore(op) \in Stages
  BY DEF AfterScore, Stages
<1>t. KindOf[op] # "read" => Fits(AfterCache(op)) /\ AfterCache(op) \in Stages
  BY DEF AfterCache, Stages
<1>u. UNCHANGED local => \A o \in Ops : o # op => local'[o] = local[o]
  OBVIOUS
<1>2. ASSUME Begin(op) PROVE Some
  <2>1. faults \subseteq faults' /\ torn' = torn /\ (~Quiet => "overlap" \in faults')
    BY <1>2, <1>f DEF Begin
  <2>2. Clear
    BY <1>2, <2>1 DEF Begin
  <2>3. \A o \in Ops : o # op => local'[o] = local[o]
    BY <1>2, <1>k, <1>u DEF Begin
  <2>4. /\ Fits("putScore") \/ KindOf[op] # "reset"
        /\ Fits("score") \/ KindOf[op] = "reset"
    BY <1>0
  <2>5. PICK s \in Stages : pc' = [pc EXCEPT ![op] = s] /\ Fits(s)
    BY <1>2, <1>s, <2>4 DEF Begin, Goto, Stages
  <2> QED
    BY <2>1, <2>2, <2>3, <2>5
<1>3. ASSUME ReadScore(op) PROVE Some
  <2>1. faults \subseteq faults' /\ torn' = torn /\ pc[op] = "score"
    BY <1>3, <1>f DEF ReadScore
  <2>3. \A o \in Ops : o # op => local'[o] = local[o]
    BY <1>3, <1>k DEF ReadScore
  <2>4. Fits("fill") /\ KindOf[op] # "reset"
    BY <1>o, <2>1
  <2>5. PICK s \in Stages : pc' = [pc EXCEPT ![op] = s] /\ Fits(s)
    BY <1>3, <1>s, <2>4 DEF ReadScore, Goto, Stages
  <2> QED
    BY <2>1, <2>3, <2>5
<1>4. ASSUME FillCache(op) PROVE Some
  BY <1>4, <1>s, <1>o DEF FillCache, Goto, history
<1>5. ASSUME Apply(op) PROVE Some
  <2>1. faults \subseteq faults' /\ torn' = torn /\ pc[op] = "stamp"
    BY <1>5, <1>f DEF Apply
  <2>3. \A o \in Ops : o # op => local'[o] = local[o]
    BY <1>5, <1>k DEF Apply
  <2>4. Fits("putScore")
    BY <1>o, <2>1
  <2> QED
    BY <1>5, <2>1, <2>3, <2>4 DEF Apply, Goto, Stages
<1>6. ASSUME PutScore(op) PROVE Some
  <2> pc[op] = "putScore" /\ Fits("putStamp") /\ "putStamp" \in Stages
    BY <1>6, <1>o DEF PutScore, Stages
  <2> QED
    BY <1>6 DEF PutScore, Goto
<1>7. ASSUME PutStamp(op) PROVE Some
  <2> pc[op] = "putStamp" /\ Fits("cache") /\ "cache" \in Stages
    BY <1>7, <1>o DEF PutStamp, Stages
  <2> QED
    BY <1>7 DEF PutStamp, Goto, history
<1>8. ASSUME CacheScore(op) PROVE Some
  BY <1>8, <1>t, <1>o DEF CacheScore, Goto, history
<1>9. ASSUME ReadCount(op) PROVE Some
  <2>1. faults \subseteq faults' /\ torn' = torn /\ pc[op] = "count"
    BY <1>9, <1>f DEF ReadCount
  <2>3. \A o \in Ops : o # op => local'[o] = local[o]
    BY <1>9, <1>k DEF ReadCount
  <2>4. Fits("putCount")
    BY <1>o, <2>1
  <2> QED
    BY <1>9, <2>1, <2>3, <2>4 DEF ReadCount, Goto, Stages
<1>10. ASSUME PutCount(op) PROVE Some
  <2> pc[op] = "putCount" /\ Fits("history") /\ "history" \in Stages
    BY <1>10, <1>o DEF PutCount, Stages
  <2> QED
    BY <1>10 DEF PutCount, Goto, history
<1>11. ASSUME ReadHistory(op) PROVE Some
  <2>1. faults \subseteq faults' /\ torn' = torn /\ pc[op] = "history"
    BY <1>11, <1>f DEF ReadHistory
  <2>3. \A o \in Ops : o # op => local'[o] = local[o]
    BY <1>11, <1>k DEF ReadHistory
  <2>4. Fits("putHistory")
    BY <1>o, <2>1
  <2> QED
    BY <1>11, <2>1, <2>3, <2>4 DEF ReadHistory, Goto, Stages
<1>12. ASSUME PutHistory(op) PROVE Some
  <2> pc[op] = "putHistory" /\ Fits("done") /\ "done" \in Stages
    BY <1>12, <1>o DEF PutHistory, Stages
  <2> QED
    BY <1>12 DEF PutHistory, Goto, history
<1>13. ASSUME WriteFails(op) PROVE Some
  <2>1. faults \subseteq faults' /\ "write" \in faults' /\ torn' = torn \cup {op} /\ UNCHANGED local
        /\ pc[op] \in {"putScore", "putStamp", "putCount", "putHistory"}
    BY <1>13, <1>f DEF WriteFails
  <2>4. Fits("failed") /\ Clear
    BY <2>1
  <2> QED
    BY <1>13, <2>1, <2>4 DEF WriteFails, Goto, Stages
<1>14. Some
  BY <1>2, <1>3, <1>4, <1>5, <1>6, <1>7, <1>8, <1>9, <1>10, <1>11, <1>12, <1>13 DEF Step
<1> QED
  BY <1>1, <1>14

\* Only one operation at a time is under way until an overlap has happened.
LEMMA LoneStep ==
  ASSUME RecordTypes, StageOK, Lone, NEW op \in Ops, Step(op)
  PROVE  Lone' /\ ("overlap" \notin faults' => \A o \in Ops : o # op => Idle(o) /\ Idle(o)')
<1>1. /\ ~(pc[op] \in {"done", "failed"})
      /\ \A o \in Ops : o # op => pc'[o] = pc[o]
      /\ faults \subseteq faults'
      /\ (pc[op] = "idle" /\ ~Quiet) => "overlap" \in faults'
  BY MoveStep
<1>2. ASSUME "overlap" \notin faults', NEW o \in Ops, o # op PROVE Idle(o) /\ Idle(o)'
  <2>1. CASE pc[op] = "idle"
    BY <1>1, <1>2, <2>1 DEF Quiet, Idle
  <2>2. CASE pc[op] # "idle"
    BY <1>1, <1>2, <2>2 DEF Lone, Idle
  <2> QED
    BY <2>1, <2>2
<1>3. Lone'
  BY <1>2 DEF Lone
<1> QED
  BY <1>2, <1>3

\* What a step does to the counters: it reads one, puts one or leaves them alone.
LEMMA CountMoves ==
  ASSUME RecordTypes, StageOK, NEW op \in Ops, Step(op)
  PROVE  /\ pc[op] \in {"history", "putHistory"} => pc'[op] \in {"putHistory", "done", "failed"}
         /\ \/ /\ pc[op] = "count" /\ pc'[op] = "putCount" /\ db' = db
               /\ \/ local'[op].count = db.count[Counter(op)]
                  \/ local'[op].count = 0 /\ "read" \in faults'
            \/ /\ pc[op] = "putCount" /\ pc'[op] = "history" /\ UNCHANGED local
               /\ db'.count = [db.count EXCEPT ![Counter(op)] = local[op].count + 1]
            \/ /\ db'.count = db.count /\ pc'[op] # "putCount"
               /\ (Counts(op) /\ pc'[op] \in {"history", "putHistory", "done"}) =>
                    pc[op] \in {"history", "putHistory"}
<1>0. /\ db \in Record /\ pc \in [Ops -> Stages] /\ local \in [Ops -> Local]
  BY DEF RecordTypes, Record, Local
<1>c. pc[op] = "count" => Counter(op) \in Counters
  BY CounterKnown DEF StageOK
<1>o. (KindOf[op] = "reset" \/ KindOf[op] = "read") => ~Counts(op)
  BY DEF Counts
<1>1. CASE Begin(op)
  BY <1>0, <1>1, <1>o DEF Begin, Goto, AfterScore
<1>2. CASE ReadScore(op)
  BY <1>0, <1>2, <1>o DEF ReadScore, Goto, AfterScore
<1>3. CASE FillCache(op)
  BY <1>0, <1>3, <1>o DEF FillCache, Goto, AfterScore
<1>4. CASE Apply(op)
  BY <1>0, <1>4 DEF Apply, Goto
<1>5. CASE PutScore(op)
  BY <1>0, <1>5 DEF PutScore, Goto, Record
<1>6. CASE PutStamp(op)
  BY <1>0, <1>6 DEF PutStamp, Goto, Record
<1>7. CASE CacheScore(op)
  BY <1>0, <1>7, <1>o DEF CacheScore, Goto, AfterCache
<1>8. CASE ReadCount(op)
  <2>1. pc[op] = "count" /\ pc'[op] = "putCount" /\ db' = db
    BY <1>0, <1>8 DEF ReadCount, Goto
  <2>2. db.count[Counter(op)] \in Nat
    BY <1>0, <1>c, <2>1 DEF Record
  <2>3. CASE Keep(op, "count", db.count[Counter(op)])
    <3>1. local'[op].count = db.count[Counter(op)]
      BY <1>0, <2>2, <2>3, KeepCount
    <3> QED
      BY <2>1, <3>1
  <2>4. CASE Keep(op, "count", 0) /\ Happens("read")
    <3>1. local'[op].count = 0
      BY <1>0, <2>4, KeepCount
    <3> QED
      BY <2>1, <2>4, <3>1 DEF Happens
  <2> QED
    BY <1>8, <2>3, <2>4 DEF ReadCount
<1>9. CASE PutCount(op)
  BY <1>0, <1>9 DEF PutCount, Goto, Record
<1>10. CASE ReadHistory(op)
  BY <1>0, <1>10 DEF ReadHistory, Goto
<1>11. CASE PutHistory(op)
  BY <1>0, <1>11 DEF PutHistory, Goto, Record
<1>12. CASE WriteFails(op)
  BY <1>0, <1>12 DEF WriteFails, Goto
<1> QED
  BY <1>1, <1>2, <1>3, <1>4, <1>5, <1>6, <1>7, <1>8, <1>9, <1>10, <1>11, <1>12 DEF Step

\* Only the operations that count have events, each for its own counter.
LEMMA EventsCount ==
  ASSUME NEW c \in Counters
  PROVE  /\ EventsOf(c) = {op \in Begun : Counts(op) /\ Counter(op) = c}
         /\ \A op \in EventsOf(c) : op \in Ops /\ Counts(op) /\ Counter(op) = c
<1>1. ASSUME NEW op \in Ops
      PROVE  (KindOf[op] = "update" /\ c \in CounterOf(EventOf[op])) <=> (Counts(op) /\ Counter(op) = c)
  <2>1. (KindOf[op] = "update" /\ c \in CounterOf(EventOf[op])) => Counts(op)
    BY DEF Counts
  <2>2. Counts(op) => KindOf[op] = "update" /\ CounterOf(EventOf[op]) = {Counter(op)}
    BY CounterKnown DEF Counts
  <2> QED
    BY <2>1, <2>2
<1> QED
  BY <1>1 DEF EventsOf, Begun

\* The sets that are counted are finite and lie within each other.
LEMMA FiniteEvents ==
  ASSUME NEW c \in Counters, IsFiniteSet(Begun)
  PROVE  /\ PastCount(c) \subseteq EventsOf(c) /\ HasCounted(c) \subseteq PastCount(c)
         /\ IsFiniteSet(EventsOf(c)) /\ IsFiniteSet(PastCount(c)) /\ IsFiniteSet(HasCounted(c))
         /\ Cardinality(EventsOf(c)) \in Nat /\ Cardinality(PastCount(c)) \in Nat
         /\ Cardinality(HasCounted(c)) \in Nat /\ Cardinality(PastCount(c)) <= Cardinality(EventsOf(c))
<1>1. /\ PastCount(c) \subseteq EventsOf(c) /\ HasCounted(c) \subseteq PastCount(c)
      /\ EventsOf(c) \subseteq Begun
  BY DEF PastCount, HasCounted, EventsOf
<1>2. IsFiniteSet(EventsOf(c))
  BY <1>1, FS_Subset
<1>3. IsFiniteSet(PastCount(c)) /\ Cardinality(PastCount(c)) <= Cardinality(EventsOf(c))
  BY <1>1, <1>2, FS_Subset
<1>4. IsFiniteSet(HasCounted(c))
  BY <1>1, <1>3, FS_Subset
<1> QED
  BY <1>1, <1>2, <1>3, <1>4, FS_CardinalityType

\* A counter is put back with one more than was read, by an operation that then
\* joins those past their count.
LEMMA CountStep ==
  ASSUME RecordTypes, StageOK, CountInv, NEW op \in Ops, Step(op)
  PROVE  CountInv'
<1>0. /\ \A c \in Counters : db.count[c] \in Nat /\ db.count \in [Counters -> Nat]
      /\ \A o \in Ops : local[o].count \in Nat
  BY DEF RecordTypes
<1>1. pc'[op] # "idle" /\ \A o \in Ops : o # op => pc'[o] = pc[o] /\ local'[o] = local[o]
  BY MoveStep
<1>2. /\ IsFiniteSet(Begun') /\ Begun \subseteq Begun'
  <2>1. Begun' = Begun \cup {op}
    BY <1>1 DEF Begun
  <2> QED
    BY <2>1, FS_AddElement DEF CountInv
<1>3. \A o \in Ops : pc[o] = "putCount" => Counter(o) \in Counters /\ Counts(o)
                                            /\ CounterOf(EventOf[o]) = {Counter(o)}
  BY CounterKnown DEF StageOK
<1>4. pc[op] \in {"history", "putHistory"} => pc'[op] \in {"putHistory", "done", "failed"}
  BY CountMoves
<1>5. ASSUME NEW c \in Counters
      PROVE  /\ PastCount(c) \subseteq PastCount(c)'
             /\ IsFiniteSet(PastCount(c)') /\ Cardinality(PastCount(c)') \in Nat
             /\ Cardinality(PastCount(c)) \in Nat
             /\ Cardinality(PastCount(c)) <= Cardinality(PastCount(c)')
  <2>1. PastCount(c) \subseteq PastCount(c)'
    <3>1. ~(pc[op] \in {"done", "failed"})
      BY MoveStep
    <3> QED
      BY <1>1, <1>2, <1>4, <3>1 DEF PastCount, EventsOf, Begun
  <2>2. PastCount(c)' \subseteq Begun'
    BY DEF PastCount, EventsOf
  <2>3. IsFiniteSet(PastCount(c)')
    BY <1>2, <2>2, FS_Subset
  <2>4. IsFiniteSet(PastCount(c)) /\ Cardinality(PastCount(c)) <= Cardinality(PastCount(c)')
    BY <2>1, <2>3, FS_Subset
  <2> QED
    BY <2>1, <2>3, <2>4, FS_CardinalityType
<1>6. ASSUME NEW o \in Ops, o # op, pc'[o] = "putCount"
      PROVE  local'[o].count <= Cardinality(PastCount(Counter(o))')
  BY <1>0, <1>1, <1>3, <1>5, <1>6 DEF CountInv
<1>7. CASE /\ pc[op] = "count" /\ pc'[op] = "putCount" /\ db' = db
           /\ \/ local'[op].count = db.count[Counter(op)]
              \/ local'[op].count = 0 /\ "read" \in faults'
  <2>1. Counter(op) \in Counters
    BY <1>7, CounterKnown DEF StageOK
  <2>2. local'[op].count <= Cardinality(PastCount(Counter(op))')
    BY <1>0, <1>5, <1>7, <2>1 DEF CountInv
  <2>3. \A c \in Counters : db'.count[c] <= Cardinality(PastCount(c)')
    BY <1>0, <1>5, <1>7 DEF CountInv
  <2> QED
    BY <1>2, <1>6, <2>2, <2>3 DEF CountInv
<1>8. CASE /\ pc[op] = "putCount" /\ pc'[op] = "history" /\ UNCHANGED local
           /\ db'.count = [db.count EXCEPT ![Counter(op)] = local[op].count + 1]
  <2> DEFINE k == Counter(op)
  <2>1. k \in Counters /\ Counts(op) /\ CounterOf(EventOf[op]) = {k}
    BY <1>3, <1>8
  <2>2. op \in PastCount(k)' /\ op \notin PastCount(k)
    BY <1>1, <1>8, <2>1 DEF PastCount, EventsOf, Begun, Counts
  <2>3. Cardinality(PastCount(k) \cup {op}) = Cardinality(PastCount(k)) + 1
    <3>1. IsFiniteSet(PastCount(k))
      BY <1>5, <2>1, FS_Subset
    <3> QED
      BY <2>2, <3>1, FS_AddElement
  <2>4. Cardinality(PastCount(k) \cup {op}) <= Cardinality(PastCount(k)')
    BY <1>5, <2>1, <2>2, FS_Subset
  <2>5. local[op].count <= Cardinality(PastCount(k))
    BY <1>8 DEF CountInv
  <2>6. db'.count[k] <= Cardinality(PastCount(k)')
    BY <1>0, <1>5, <1>8, <2>1, <2>3, <2>4, <2>5
  <2>7. \A c \in Counters : c # k => db'.count[c] <= Cardinality(PastCount(c)')
    BY <1>0, <1>5, <1>8 DEF CountInv
  <2> QED
    BY <1>2, <1>6, <1>8, <2>6, <2>7 DEF CountInv
<1>9. CASE db'.count = db.count /\ pc'[op] # "putCount"
  <2>1. \A c \in Counters : db'.count[c] <= Cardinality(PastCount(c)')
    BY <1>0, <1>5, <1>9 DEF CountInv
  <2> QED
    BY <1>2, <1>6, <1>9, <2>1 DEF CountInv
<1> QED
  BY <1>7, <1>8, <1>9, CountMoves

\* Without overlaps and failed reads the value put back is one more than the one
\* that is there, and only the operation that puts it joins those counted.
LEMMA LossStep ==
  ASSUME RecordTypes, StageOK, Lone, CountInv, LossInv, NEW op \in Ops, Step(op)
  PROVE  LossInv'
<1> SUFFICES ASSUME faults' \cap {"overlap", "read"} = {}
             PROVE  /\ \A c \in Counters : db'.count[c] >= Cardinality(HasCounted(c)')
                    /\ \A o \in Ops : pc'[o] = "putCount" => local'[o].count = db'.count[Counter(o)]
  BY DEF LossInv
<1>0. /\ db.count \in [Counters -> Nat] /\ \A c \in Counters : db.count[c] \in Nat
      /\ \A o \in Ops : local[o].count \in Nat
  BY DEF RecordTypes
<1>1. pc'[op] # "idle" /\ \A o \in Ops : o # op => pc'[o] = pc[o] /\ Idle(o)'
  BY MoveStep, LoneStep
<1>2. /\ \A c \in Counters : db.count[c] >= Cardinality(HasCounted(c))
      /\ pc[op] = "putCount" => local[op].count = db.count[Counter(op)]
  BY MoveStep DEF LossInv
<1>3. \A o \in Ops : pc'[o] = "putCount" => o = op
  BY <1>1 DEF Idle
<1>4. ASSUME NEW c \in Counters, NEW o \in HasCounted(c)', o # op PROVE o \in HasCounted(c)
  BY <1>1, <1>4 DEF HasCounted, EventsOf, Begun
<1>5. ASSUME NEW c \in Counters, NEW T, HasCounted(c)' \subseteq T, IsFiniteSet(T)
      PROVE  /\ Cardinality(HasCounted(c)') <= Cardinality(T)
             /\ Cardinality(HasCounted(c)') \in Nat /\ Cardinality(T) \in Nat
  BY <1>5, FS_Subset, FS_CardinalityType
<1>6. \A c \in Counters : IsFiniteSet(HasCounted(c)) /\ Cardinality(HasCounted(c)) \in Nat
  BY FiniteEvents DEF CountInv
<1>7. ASSUME NEW c \in Counters, op \notin HasCounted(c)' \/ op \in HasCounted(c),
             db'.count[c] = db.count[c]
      PROVE  db'.count[c] >= Cardinality(HasCounted(c)')
  <2>1. HasCounted(c)' \subseteq HasCounted(c)
    BY <1>4, <1>7
  <2> QED
    BY <1>0, <1>2, <1>5, <1>6, <1>7, <2>1
<1>8. CASE /\ pc[op] = "count" /\ pc'[op] = "putCount" /\ db' = db
           /\ \/ local'[op].count = db.count[Counter(op)]
              \/ local'[op].count = 0 /\ "read" \in faults'
  <2>1. \A c \in Counters : op \notin HasCounted(c)'
    BY <1>8 DEF HasCounted
  <2> QED
    BY <1>3, <1>7, <1>8, <2>1
<1>9. CASE /\ pc[op] = "putCount" /\ pc'[op] = "history" /\ UNCHANGED local
           /\ db'.count = [db.count EXCEPT ![Counter(op)] = local[op].count + 1]
  <2> DEFINE k == Counter(op)
  <2>1. k \in Counters /\ CounterOf(EventOf[op]) = {k}
    BY <1>9, CounterKnown DEF StageOK
  <2>2. HasCounted(k)' \subseteq HasCounted(k) \cup {op}
    BY <1>4, <2>1
  <2>3. op \notin HasCounted(k)
    BY <1>9 DEF HasCounted
  <2>4. /\ IsFiniteSet(HasCounted(k) \cup {op})
        /\ Cardinality(HasCounted(k) \cup {op}) = Cardinality(HasCounted(k)) + 1
    BY <1>6, <2>1, <2>3, FS_AddElement
  <2>5. Cardinality(HasCounted(k)') <= Cardinality(HasCounted(k)) + 1
        /\ Cardinality(HasCounted(k)') \in Nat
    BY <1>5, <2>1, <2>2, <2>4
  <2>6. db'.count[k] = db.count[k] + 1
    BY <1>0, <1>2, <1>9, <2>1
  <2>7. db'.count[k] >= Cardinality(HasCounted(k)')
    BY <1>0, <1>2, <1>6, <2>1, <2>5, <2>6
  <2>8. ASSUME NEW c \in Counters, c # k PROVE db'.count[c] >= Cardinality(HasCounted(c)')
    <3>1. op \notin HasCounted(c)'
      BY <2>1, <2>8 DEF HasCounted, EventsOf
    <3>2. db'.count[c] = db.count[c]
      BY <1>0, <1>9, <2>8
    <3> QED
      BY <1>7, <3>1, <3>2
  <2> QED
    BY <1>3, <1>9, <2>7, <2>8
<1>10. CASE /\ db'.count = db.count /\ pc'[op] # "putCount"
            /\ (Counts(op) /\ pc'[op] \in {"history", "putHistory", "done"}) =>
                 pc[op] \in {"history", "putHistory"}
  <2>1. ASSUME NEW c \in Counters, op \in HasCounted(c)' PROVE op \in HasCounted(c)
    <3>1. Counts(op) /\ pc'[op] \in {"history", "putHistory", "done"}
      BY <2>1 DEF HasCounted, EventsOf, Counts
    <3> QED
      BY <1>10, <2>1, <3>1 DEF HasCounted, EventsOf, Begun
  <2> QED
    BY <1>3, <1>7, <1>10, <2>1
<1> QED
  BY <1>8, <1>9, <1>10, CountMoves

\* A crash moves every operation that is under way to "failed".
LEMMA CrashStep ==
  ASSUME RecordTypes, StageOK, Lone, CountInv, LossInv, ExactInv, Crash
  PROVE  RecordTypes' /\ StageOK' /\ Lone' /\ CountInv' /\ LossInv' /\ ExactInv'
<1>1. /\ pc \in [Ops -> Stages] /\ torn \subseteq Ops /\ faults \subseteq Faults
  BY DEF RecordTypes
<1>2. /\ \A o \in Ops : pc'[o] = IF Idle(o) THEN pc[o] ELSE "failed"
      /\ torn' = torn \cup {o \in Ops : ~Idle(o)} /\ cache' = Absent
      /\ UNCHANGED <<db, local, ideal, stored>>
      /\ "crash" \in faults' /\ faults \subseteq faults' /\ faults' \subseteq Faults
  BY <1>1 DEF Crash, Happens
<1>3. \A o \in Ops : pc'[o] \in Stages /\ Idle(o)'
  BY <1>1, <1>2 DEF Idle, Stages
<1>4. RecordTypes'
  <2>1. pc' \in [Ops -> Stages]
    BY <1>3 DEF Crash
  <2> QED
    BY <1>1, <1>2, <2>1 DEF RecordTypes
<1>5. StageOK'
  <2>1. \A o \in Ops : ~Idle(o) => o \in torn'
    BY <1>2
  <2> QED
    BY <1>2, <1>3, <2>1 DEF StageOK, Idle
<1>6. Begun' = Begun
  BY <1>2 DEF Begun, Idle
<1>7. \A c \in Counters : EventsOf(c)' = EventsOf(c)
  BY <1>6 DEF EventsOf
<1>8. CountInv'
  <2>1. ASSUME NEW c \in Counters PROVE db'.count[c] <= Cardinality(PastCount(c)')
    <3>1. PastCount(c) \subseteq PastCount(c)'
      BY <1>2, <1>7 DEF PastCount, EventsOf, Begun, Idle
    <3>2. PastCount(c)' \subseteq Begun
      BY <1>7 DEF PastCount, EventsOf
    <3>3. IsFiniteSet(PastCount(c)')
      BY <3>2, FS_Subset DEF CountInv
    <3>4. /\ IsFiniteSet(PastCount(c)) /\ Cardinality(PastCount(c)) <= Cardinality(PastCount(c)')
      BY <3>1, <3>3, FS_Subset
    <3>5. Cardinality(PastCount(c)) \in Nat /\ Cardinality(PastCount(c)') \in Nat /\ db.count[c] \in Nat
      BY <3>3, <3>4, FS_CardinalityType DEF RecordTypes
    <3> QED
      BY <1>2, <3>4, <3>5 DEF CountInv
  <2> QED
    BY <1>3, <1>6, <2>1 DEF CountInv, Idle
<1>9. LossInv'
  <2> SUFFICES ASSUME faults' \cap {"overlap", "read"} = {}, NEW c \in Counters
               PROVE  db'.count[c] >= Cardinality(HasCounted(c)')
    BY <1>3 DEF LossInv, Idle
  <2>1. HasCounted(c)' \subseteq HasCounted(c)
    BY <1>2, <1>7 DEF HasCounted, EventsOf, Begun, Idle
  <2>2. IsFiniteSet(HasCounted(c)) /\ Cardinality(HasCounted(c)) \in Nat
    BY FiniteEvents DEF CountInv
  <2>3. Cardinality(HasCounted(c)') <= Cardinality(HasCounted(c)) /\ IsFiniteSet(HasCounted(c)')
    BY <2>1, <2>2, FS_Subset
  <2>4. Cardinality(HasCounted(c)') \in Nat /\ db.count[c] \in Nat
    BY <2>3, FS_CardinalityType DEF RecordTypes
  <2> QED
    BY <1>2, <2>2, <2>3, <2>4 DEF LossInv
<1>10. Lone' /\ ExactInv'
  BY <1>2, <1>3 DEF Lone, ExactInv
<1> QED
  BY <1>4, <1>5, <1>8, <1>9, <1>10

\* Operations that run one after the other leave the score each of them makes.
LEMMA ExactStep ==
  ASSUME RecordTypes, StageOK, Lone, ExactInv, NEW op \in Ops, Step(op)
  PROVE  ExactInv'
<1>0. /\ db \in Record /\ cache \in Scores \cup {Absent} /\ pc \in [Ops -> Stages]
      /\ local \in [Ops -> Local] /\ ideal \in Scores /\ local[op].score \in Scores
      /\ KindOf[op] \in {"update", "read", "reset"} /\ db.score \in Scores \cup {Absent}
  BY ReputationAssumption DEF RecordTypes, Record, Local, ReputationAssumption
<1>1. /\ \A o \in Ops : o # op => pc'[o] = pc[o]
      /\ faults \subseteq faults' /\ (faults' = {} => torn' = torn)
      /\ (pc[op] = "idle" /\ ~Quiet) => "overlap" \in faults'
  BY MoveStep
<1>2. db'.score = Absent => stored' = {}
  <2>1. CASE PutScore(op)
    <3>1. db'.score = local[op].score
      BY <1>0, <2>1 DEF PutScore, Record
    <3> QED
      BY <1>0, <3>1, RepConstants
  <2>2. CASE ~PutScore(op)
    <3>1. stored' = stored /\ (db' = db \/ PutStamp(op) \/ PutCount(op) \/ PutHistory(op))
      BY <2>2 DEF Step, Begin, ReadScore, FillCache, Apply, PutStamp, CacheScore, ReadCount,
                  PutCount, ReadHistory, PutHistory, WriteFails, history
    <3>2. db'.score = db.score
      BY <1>0, <3>1 DEF PutStamp, PutCount, PutHistory, Record
    <3> QED
      BY <3>1, <3>2 DEF ExactInv
  <2> QED
    BY <2>1, <2>2
<1> SUFFICES ASSUME faults' = {}
             PROVE  torn' = {} /\ (Quiet' => Settled') /\ \A o \in Ops : Underway(o)'
  BY <1>2 DEF ExactInv
<1>3. /\ faults = {} /\ torn' = {} /\ (Quiet => Settled) /\ Underway(op)
  BY <1>1 DEF ExactInv
<1>n. \A f : ~Happens(f)
  BY DEF Happens
<1>4. ASSUME Underway(op)', Idle(op)' => Settled'
      PROVE  torn' = {} /\ (Quiet' => Settled') /\ \A o \in Ops : Underway(o)'
  <2>1. ASSUME NEW o \in Ops, o # op PROVE Underway(o)'
    <3>1. pc'[o] \in {"idle", "done", "failed"}
      BY <2>1, LoneStep DEF Idle
    <3> QED
      BY <3>1 DEF Underway
  <2> QED
    BY <1>3, <1>4, <2>1 DEF Quiet
<1>r. KindOf[op] = "read" => pc[op] \in {"idle", "score", "fill", "done", "failed"}
  BY DEF StageOK
<1>q. KindOf[op] = "reset" => pc[op] \in {"idle", "putScore", "putStamp", "cache", "done", "failed"}
  BY DEF StageOK
<1>k. ASSUME NEW s \in Scores, Keep(op, "score", s) PROVE local'[op].score = s
  BY <1>0, <1>k, KeepScore
<1>c. Current \in Scores
  BY <1>0, RepConstants DEF Current
<1> DEFINE Right == Underway(op)' /\ (Idle(op)' => Settled')
<1>5. ASSUME Begin(op) PROVE Right
  <2>1. Settled /\ pc[op] = "idle"
    BY <1>1, <1>3, <1>5 DEF Begin
  <2>2. UNCHANGED <<db, cache>> /\ ideal' = Serial(op, Current)
    BY <1>5, <2>1 DEF Begin, Settled
  <2>3. Current' = Current
    BY <2>2 DEF Current
  <2>4. CASE KindOf[op] = "reset" /\ Keep(op, "score", InitialScore) /\ Goto(op, "putScore")
    <3>1. pc'[op] = "putScore" /\ local'[op].score = InitialScore
      BY <1>0, <1>k, <2>4, RepConstants DEF Goto
    <3>2. ideal' = InitialScore
      BY <2>2, <2>4 DEF Serial
    <3> QED
      BY <3>1, <3>2 DEF Underway, Idle
  <2>5. CASE /\ KindOf[op] # "reset" /\ cache # Absent
             /\ Keep(op, "score", cache) /\ Goto(op, AfterScore(op))
    <3>1. cache = Current /\ local'[op].score = Current
      BY <1>c, <1>k, <2>1, <2>5 DEF Settled
    <3>2. CASE KindOf[op] = "read"
      <4>1. pc'[op] = "done" /\ ideal' = Current
        BY <1>0, <2>2, <2>5, <3>2 DEF Goto, AfterScore, Serial
      <4> QED
        BY <2>2, <2>3, <3>1, <4>1 DEF Underway, Settled
    <3>3. CASE KindOf[op] # "read"
      <4>1. pc'[op] = "stamp"
        BY <1>0, <2>5, <3>3 DEF Goto, AfterScore
      <4> QED
        BY <2>2, <2>3, <3>1, <4>1 DEF Underway, Idle
    <3> QED
      BY <3>2, <3>3
  <2>6. CASE Goto(op, "score")
    <3>1. pc'[op] = "score"
      BY <1>0, <2>6 DEF Goto
    <3> QED
      BY <2>1, <2>2, <2>3, <3>1 DEF Underway, Settled, Idle
  <2> QED
    BY <1>5, <2>4, <2>5, <2>6 DEF Begin
<1>6. ASSUME ReadScore(op) PROVE Right
  <2>1. /\ pc[op] = "score" /\ UNCHANGED <<db, cache, ideal>> /\ KindOf[op] # "reset"
        /\ ideal = Serial(op, Current) /\ cache \in {Current, Absent}
    BY <1>3, <1>6, <1>q DEF ReadScore, Underway
  <2>2. Current' = Current
    BY <2>1 DEF Current
  <2>3. CASE db.score # Absent /\ Keep(op, "score", db.score) /\ Goto(op, "fill")
    <3>1. pc'[op] = "fill" /\ local'[op].score = Current
      BY <1>0, <1>k, <2>3 DEF Goto, Current
    <3> QED
      BY <2>1, <2>2, <3>1 DEF Underway, Idle
  <2>4. CASE db.score = Absent /\ Keep(op, "score", InitialScore) /\ Goto(op, AfterScore(op))
    <3>1. local'[op].score = Current
      BY <1>k, <2>4, RepConstants DEF Current
    <3>2. CASE KindOf[op] = "read"
      <4>1. pc'[op] = "done" /\ ideal' = Current
        BY <1>0, <2>1, <2>4, <3>2 DEF Goto, AfterScore, Serial
      <4> QED
        BY <2>1, <2>2, <4>1 DEF Underway, Settled
    <3>3. CASE KindOf[op] # "read"
      <4>1. pc'[op] = "stamp"
        BY <1>0, <2>4, <3>3 DEF Goto, AfterScore
      <4> QED
        BY <2>1, <2>2, <3>1, <4>1 DEF Underway, Idle
    <3> QED
      BY <3>2, <3>3
  <2> QED
    BY <1>6, <1>n, <2>3, <2>4 DEF ReadScore
<1>7. ASSUME FillCache(op) PROVE Right
  <2>1. /\ pc[op] = "fill" /\ UNCHANGED <<db, local, ideal>> /\ KindOf[op] # "reset"
        /\ ideal = Serial(op, Current) /\ local[op].score = Current /\ cache' = Current
    BY <1>3, <1>7, <1>q DEF FillCache, Underway, history
  <2>2. Current' = Current
    BY <2>1 DEF Current
  <2>3. CASE KindOf[op] = "read"
    <3>1. pc'[op] = "done" /\ ideal' = Current
      BY <1>0, <1>7, <2>1, <2>3 DEF FillCache, Goto, AfterScore, Serial
    <3> QED
      BY <2>1, <2>2, <3>1 DEF Underway, Settled
  <2>4. CASE KindOf[op] # "read"
    <3>1. pc'[op] = "stamp"
      BY <1>0, <1>7, <2>4 DEF FillCache, Goto, AfterScore
    <3> QED
      BY <2>1, <2>2, <3>1 DEF Underway, Idle
  <2> QED
    BY <2>3, <2>4
<1>8. ASSUME Apply(op) PROVE Right
  <2>1. /\ pc[op] = "stamp" /\ ideal' = Serial(op, Current) /\ local[op].score = Current
        /\ KindOf[op] = "update"
    BY <1>0, <1>3, <1>8, <1>q, <1>r DEF Apply, Underway
  <2>2. Keep(op, "score", Clamp(local[op].score + DeltaOf[op]))
    BY <1>8, <1>n DEF Apply
  <2>3. Clamp(Current + DeltaOf[op]) \in Scores
    BY <1>c, RepConstants, ClampedIsScore
  <2>4. pc'[op] = "putScore" /\ local'[op].score = Clamp(Current + DeltaOf[op])
    BY <1>0, <1>8, <1>k, <2>1, <2>2, <2>3 DEF Apply, Goto
  <2>5. ideal' = Clamp(Current + DeltaOf[op])
    BY <2>1 DEF Serial
  <2> QED
    BY <2>4, <2>5 DEF Underway, Idle
<1>9. ASSUME PutScore(op) PROVE Right
  <2>1. /\ pc[op] = "putScore" /\ UNCHANGED <<local, ideal>> /\ local[op].score = ideal
        /\ pc'[op] = "putStamp" /\ db'.score = local[op].score
    BY <1>0, <1>3, <1>9 DEF PutScore, Underway, Goto, Record
  <2> QED
    BY <2>1 DEF Underway, Idle
<1>10. ASSUME PutStamp(op) PROVE Right
  <2>1. /\ pc[op] = "putStamp" /\ UNCHANGED <<local, ideal>> /\ local[op].score = ideal
        /\ db.score = ideal /\ pc'[op] = "cache" /\ db'.score = db.score
    BY <1>0, <1>3, <1>10 DEF PutStamp, Underway, Goto, Record, history
  <2> QED
    BY <2>1 DEF Underway, Idle
<1>11. ASSUME CacheScore(op) PROVE Right
  <2>1. /\ UNCHANGED <<db, ideal>> /\ cache' = ideal /\ db.score = ideal
        /\ pc'[op] \in {"done", "count", "history"}
    BY <1>0, <1>3, <1>11 DEF CacheScore, Underway, Goto, history, AfterCache
  <2>2. Current' = ideal'
    BY <1>0, <2>1, RepConstants DEF Current
  <2> QED
    BY <2>1, <2>2 DEF Underway, Settled
<1>12. ASSUME pc[op] \in {"count", "putCount", "history", "putHistory"},
              pc'[op] \in {"putCount", "history", "putHistory", "done"},
              UNCHANGED <<cache, ideal>>, db'.score = db.score
       PROVE  Right
  <2>1. db'.score = ideal' /\ cache' \in {ideal', Absent}
    BY <1>3, <1>12 DEF Underway
  <2>2. Current' = ideal'
    BY <1>0, <1>12, <2>1, RepConstants DEF Current
  <2> QED
    BY <1>12, <2>1, <2>2 DEF Underway, Settled
<1>13. ASSUME ReadCount(op) \/ ReadHistory(op) PROVE Right
  BY <1>0, <1>12, <1>13 DEF ReadCount, ReadHistory, Goto
<1>14. ASSUME PutCount(op) \/ PutHistory(op) PROVE Right
  <2>1. db'.score = db.score
    BY <1>0, <1>14 DEF PutCount, PutHistory, Record
  <2> QED
    BY <1>0, <1>12, <1>14, <2>1 DEF PutCount, PutHistory, Goto, history
<1>15. ~WriteFails(op)
  BY <1>n DEF WriteFails
<1>16. Right
  BY <1>5, <1>6, <1>7, <1>8, <1>9, <1>10, <1>11, <1>13, <1>14, <1>15 DEF Step
<1> QED
  BY <1>4, <1>16

\* The inductive invariant of the record.
RepInv == RecordTypes /\ StageOK /\ Lone /\ CountInv /\ LossInv /\ ExactInv

\* It holds of an empty database.
LEMMA RepStart == ReputationInit => RepInv
<1> SUFFICES ASSUME ReputationInit PROVE RepInv
  OBVIOUS
<1>1. /\ \A op \in Ops : pc[op] = "idle" /\ local[op].count = 0
      /\ \A c \in Counters : db.count[c] = 0
      /\ db.score = Absent /\ stored = {} /\ torn = {} /\ cache = Absent /\ ideal = InitialScore
  BY DEF ReputationInit
<1>2. RecordTypes
  <2>1. <<>> \in Seq(Scores) /\ Len(<<>>) = 0
    OBVIOUS
  <2>2. db \in Record /\ db.history = <<>>
    BY <2>1 DEF ReputationInit, Record
  <2>3. local \in [Ops -> Local] /\ pc \in [Ops -> Stages]
    BY <2>1, RepConstants DEF ReputationInit, Local, Stages
  <2>4. Len(db.history) <= MaxHistory
    BY <2>1, <2>2, RepConstants
  <2> QED
    BY <2>2, <2>3, <2>4, RepConstants DEF ReputationInit, RecordTypes, Record, Local
<1>3. StageOK /\ Lone
  BY <1>1 DEF StageOK, Lone, Idle
<1>4. Begun = {}
  BY <1>1 DEF Begun
<1>5. \A c \in Counters : PastCount(c) = {} /\ HasCounted(c) = {}
  BY <1>4 DEF PastCount, HasCounted, EventsOf
<1>6. CountInv /\ LossInv
  BY <1>1, <1>4, <1>5, FS_EmptySet DEF CountInv, LossInv
<1>7. ExactInv
  <2>1. Settled
    BY <1>1 DEF Settled, Current
  <2>2. \A op \in Ops : Underway(op)
    BY <1>1 DEF Underway
  <2> QED
    BY <1>1, <2>1, <2>2 DEF ExactInv
<1> QED
  BY <1>2, <1>3, <1>6, <1>7 DEF RepInv

\* Dropping the cached score leaves the database to be read again.
LEMMA ExpireStep == ASSUME RepInv, CacheExpires PROVE RepInv'
<1>1. UNCHANGED <<db, pc, local, ideal, torn, stored, faults>> /\ cache' = Absent
  BY DEF CacheExpires, history
<1>2. RecordTypes' /\ StageOK' /\ Lone'
  BY <1>1 DEF RepInv, RecordTypes, StageOK, Lone, Idle
<1>3. \A c \in Counters : PastCount(c)' = PastCount(c) /\ HasCounted(c)' = HasCounted(c)
  BY <1>1 DEF PastCount, HasCounted, EventsOf, Begun
<1>3b. \A op \in Ops : pc[op] = "putCount" => Counter(op) \in Counters
  BY CounterKnown DEF RepInv, StageOK
<1>4. CountInv'
  BY <1>1, <1>3, <1>3b DEF RepInv, CountInv, Begun
<1>5. LossInv'
  BY <1>1, <1>3 DEF RepInv, LossInv
<1>6. ExactInv'
  <2>1. Current' = Current
    BY <1>1 DEF Current
  <2>2. Settled => Settled'
    BY <1>1, <2>1 DEF Settled
  <2>3. ASSUME NEW op \in Ops, Underway(op) PROVE Underway(op)'
    BY <1>1, <2>1, <2>3 DEF Underway
  <2>4. Quiet' => Quiet
    BY <1>1 DEF Quiet, Idle
  <2> QED
    BY <1>1, <2>2, <2>3, <2>4 DEF RepInv, ExactInv
<1> QED
  BY <1>2, <1>4, <1>5, <1>6 DEF RepInv

\* The invariant holds throughout.
LEMMA ReputationInvariant == ReputationSpec => []RepInv
<1>1. RepInv /\ [ReputationNext]_recordVars => RepInv'
  <2> SUFFICES ASSUME RepInv, [ReputationNext]_recordVars PROVE RepInv'
    OBVIOUS
  <2>1. ASSUME NEW op \in Ops, Step(op) PROVE RepInv'
    BY <2>1, RecordStep, MoveStep, LoneStep, CountStep, LossStep, ExactStep DEF RepInv
  <2>2. CASE Crash
    BY <2>2, CrashStep DEF RepInv
  <2>3. CASE UNCHANGED recordVars
    BY <2>3 DEF RepInv, recordVars, history, RecordTypes, StageOK, Lone, CountInv, LossInv, ExactInv,
                PastCount, HasCounted, EventsOf, Begun, Idle, Quiet, Settled, Underway, Current
  <2> QED
    BY <2>1, <2>2, <2>3, ExpireStep DEF ReputationNext
<1> QED
  BY <1>1, RepStart, PTL DEF ReputationSpec

\* Whatever overlaps, fails or is cut short, no counter passes the number of events
\* reported, and without overlaps and failed reads each cut costs at most its own event.
THEOREM LossesBounded == ReputationSpec => []LossBounded
<1>1. RepInv => LossBounded
  <2> SUFFICES ASSUME RepInv, NEW c \in Counters
               PROVE  /\ db.count[c] <= Cardinality(EventsOf(c))
                      /\ (Quiet /\ faults \subseteq {"write", "crash", "decay"}) =>
                           db.count[c] >= Cardinality(EventsOf(c)) - Cardinality(torn \cap EventsOf(c))
    BY DEF LossBounded
  <2>1. /\ db.count[c] \in Nat /\ db.count[c] <= Cardinality(PastCount(c)) /\ IsFiniteSet(Begun)
    BY DEF RepInv, CountInv, RecordTypes
  <2>2. db.count[c] <= Cardinality(EventsOf(c))
    BY <2>1, FiniteEvents
  <2>3. ASSUME Quiet, faults \subseteq {"write", "crash", "decay"}
        PROVE  db.count[c] >= Cardinality(EventsOf(c)) - Cardinality(torn \cap EventsOf(c))
    <3>1. EventsOf(c) \ torn \subseteq HasCounted(c)
      BY <2>3 DEF RepInv, StageOK, HasCounted, EventsOf, Begun, Quiet, Idle
    <3>2. Cardinality(EventsOf(c) \ torn) = Cardinality(EventsOf(c)) - Cardinality(EventsOf(c) \cap torn)
      BY <2>1, FiniteEvents, FS_Difference
    <3>3. Cardinality(EventsOf(c) \ torn) <= Cardinality(HasCounted(c)) /\ IsFiniteSet(EventsOf(c) \ torn)
      BY <2>1, <3>1, FiniteEvents, FS_Subset
    <3>4. /\ Cardinality(EventsOf(c) \ torn) \in Nat /\ Cardinality(HasCounted(c)) \in Nat
          /\ Cardinality(EventsOf(c)) \in Nat
      BY <2>1, <3>3, FiniteEvents, FS_CardinalityType
    <3>5. db.count[c] >= Cardinality(HasCounted(c))
      BY <2>3 DEF RepInv, LossInv
    <3>6. EventsOf(c) \cap torn = torn \cap EventsOf(c)
      OBVIOUS
    <3> QED
      BY <2>1, <3>2, <3>3, <3>4, <3>5, <3>6
  <2> QED
    BY <2>2, <2>3
<1> QED
  BY <1>1, ReputationInvariant, PTL

\* When callers wait for each update and nothing fails, score, cache and counters are
\* those of the events reported so far, whenever the cached score expires.
THEOREM SerialUpdatesExact == ReputationSpec => []SerialExact
<1>1. RepInv => SerialExact
  <2> SUFFICES ASSUME RepInv, Quiet, faults = {}
               PROVE  /\ db.score \in {ideal} \cup (IF stored = {} THEN {Absent} ELSE {})
                      /\ cache \in {ideal, Absent}
                      /\ \A c \in Counters : db.count[c] = Cardinality(EventsOf(c))
    BY DEF SerialExact
  <2>1. Settled /\ torn = {} /\ (db.score = Absent => stored = {})
    BY DEF RepInv, ExactInv
  <2>2. ASSUME NEW c \in Counters PROVE db.count[c] = Cardinality(EventsOf(c))
    <3>1. EventsOf(c) \subseteq HasCounted(c)
      BY <2>1 DEF RepInv, StageOK, HasCounted, EventsOf, Begun, Quiet, Idle
    <3>2. HasCounted(c) = EventsOf(c) /\ PastCount(c) = EventsOf(c)
      BY <3>1 DEF HasCounted, PastCount
    <3>3. /\ db.count[c] \in Nat /\ Cardinality(EventsOf(c)) \in Nat
          /\ db.count[c] <= Cardinality(PastCount(c)) /\ db.count[c] >= Cardinality(HasCounted(c))
      BY FiniteEvents DEF RepInv, RecordTypes, CountInv, LossInv
    <3> QED
      BY <3>2, <3>3
  <2> QED
    BY <2>1, <2>2 DEF Settled, Current
<1> QED
  BY <1>1, ReputationInvariant, PTL
=============================================================================
