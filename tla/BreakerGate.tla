------------------------------ MODULE BreakerGate ------------------------------
(***************************************************************************)
(* What a circuit breaker promises to its callers, without its counters: a *)
(* tripped breaker lets no call begin before the whole timeout has passed  *)
(* since the last failure, and the first call it lets through afterwards   *)
(* is a probe.                                                             *)
(***************************************************************************)
EXTENDS Naturals

CONSTANTS Calls, Timeout

VARIABLES
  mode,     \* CLOSED, OPEN or HALF_OPEN
  cooldown, \* what is left to wait before a tripped breaker admits a probe
  running   \* the calls in progress

gateVars == <<mode, cooldown, running>>

Unlocked == mode = "OPEN" /\ cooldown = 0

Init ==
  /\ mode = "CLOSED"
  /\ cooldown = 0
  /\ running = {}

Begin(c) ==
  /\ c \notin running
  /\ running' = running \cup {c}
  /\ \/ mode # "OPEN" /\ UNCHANGED mode
     \/ Unlocked /\ mode' = "HALF_OPEN"
  /\ UNCHANGED cooldown

Unlock ==
  /\ Unlocked
  /\ mode' = "HALF_OPEN"
  /\ UNCHANGED <<cooldown, running>>

\* A call that ends may close a breaker that probes.
EndWell(c) ==
  /\ c \in running
  /\ running' = running \ {c}
  /\ mode' = mode \/ (mode = "HALF_OPEN" /\ mode' = "CLOSED")
  /\ UNCHANGED cooldown

\* A failed call trips the breaker, or restarts the wait of a tripped one; only
\* a closed breaker may tolerate it.
EndBadly(c) ==
  /\ c \in running
  /\ running' = running \ {c}
  /\ \/ mode = "CLOSED" /\ UNCHANGED <<mode, cooldown>>
     \/ mode' = "OPEN" /\ cooldown' = Timeout

Reset ==
  /\ mode' = "CLOSED"
  /\ cooldown' = 0
  /\ UNCHANGED running

Wait ==
  /\ cooldown > 0
  /\ cooldown' = cooldown - 1
  /\ UNCHANGED <<mode, running>>

Next ==
  \/ \E c \in Calls : Begin(c) \/ EndWell(c) \/ EndBadly(c)
  \/ Unlock \/ Reset \/ Wait

Spec == Init /\ [][Next]_gateVars
=============================================================================
