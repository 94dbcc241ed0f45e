------------------------------- MODULE Bootstrap -------------------------------
(***************************************************************************)
(* BootstrapManager (lib/p2p/bootstrap.ts): the public bootstrap nodes a   *)
(* node joins the network through.  start() tries them all at once and     *)
(* waits for every outcome; from then on an interval begins a pass over    *)
(* those still missing, whether or not the pass before it has ended.  An   *)
(* attempt, the start's own or a pass's, waits for the health check of     *)
(* its node and then for the dial.  Nodes are numbered in the order of     *)
(* the configuration, and given up after GiveUpAfter failures.             *)
(***************************************************************************)
EXTENDS Integers

CONSTANTS
  Seeds,         \* number of publicBootstrapNodes
  Checked,       \* those with a healthCheck
  RetryPasses,   \* the retry passes that may be under way together
  GiveUpAfter    \* 10 in the code

Nodes == 1 .. Seeds

ASSUME BootstrapAssumption ==
  Seeds \in Nat \ {0} /\ Checked \subseteq Nodes /\ GiveUpAfter \in Nat \ {0}
  /\ RetryPasses \cap Nodes = {}

VARIABLES
  bootPhase,   \* off, connecting, up, stopped
  bootLibp2p,  \* libp2p is set
  connected,   \* connected[n]
  failCount,   \* failCount[n]
  retryTimer,  \* retryInterval is set
  attempting,  \* attempting[w]: node and stage of the attempt w waits for, where
               \* w is a pass or, for the attempts of start(), the node itself
  lateDials    \* history: dials begun after stop()

bootVars == <<bootPhase, bootLibp2p, connected, failCount, retryTimer, attempting, lateDials>>

Workers == Nodes \cup RetryPasses
NoAttempt == [node |-> 0, stage |-> "none"]
At(w, stage) == attempting[w].stage = stage

-----------------------------------------------------------------------------
\* Where connectToNode first waits.
FirstWait(n) == [node |-> n, stage |-> IF n \in Checked THEN "health" ELSE "dial"]

BootstrapStart ==
  /\ bootPhase = "off"
  /\ bootPhase' = "connecting"
  /\ bootLibp2p' = TRUE
  /\ attempting' = [w \in Workers |-> IF w \in Nodes THEN FirstWait(w) ELSE NoAttempt]
  /\ UNCHANGED <<connected, failCount, retryTimer, lateDials>>

\* The nodes a pass still has to try after node n.
Missing(n, conn, fails) == {s \in Nodes : s > n /\ ~conn[s] /\ fails[s] < GiveUpAfter}

\* retryFailed after node n, up to its next wait; without libp2p no attempt waits.
PassFrom(p, n, conn, fails) ==
  LET missing == Missing(n, conn, fails)
  IN  attempting' = [attempting EXCEPT ![p] =
        IF missing = {} \/ ~bootLibp2p THEN NoAttempt
        ELSE FirstWait(CHOOSE s \in missing : \A t \in missing : s <= t)]

BeginPass(p) ==
  /\ retryTimer /\ At(p, "none")
  /\ PassFrom(p, 0, connected, failCount)
  /\ UNCHANGED <<bootPhase, bootLibp2p, connected, failCount, retryTimer, lateDials>>

\* What follows when the attempt of w has ended with these results.
AttemptEnds(w, conn, fails) ==
  /\ connected' = conn
  /\ failCount' = fails
  /\ IF w \in RetryPasses
     THEN PassFrom(w, attempting[w].node, conn, fails)
     ELSE attempting' = [attempting EXCEPT ![w] = NoAttempt]
  /\ UNCHANGED <<bootPhase, bootLibp2p, retryTimer>>

\* An unhealthy node that is not counted as failed.
UnhealthyForgiven(n) == failCount

Unhealthy(n) == [failCount EXCEPT ![n] = @ + 1]

\* The health check answers, and not with success.
CheckRefuses(w) ==
  /\ At(w, "health")
  /\ AttemptEnds(w, connected, Unhealthy(attempting[w].node))
  /\ UNCHANGED lateDials

\* The health check succeeds or cannot be made, and the node is dialled.  The
\* dial of a manager that was stopped meanwhile throws, as one that fails.
CheckPasses(w) ==
  /\ At(w, "health")
  /\ IF bootLibp2p
     THEN /\ attempting' = [attempting EXCEPT ![w].stage = "dial"]
          /\ lateDials' = lateDials + (IF bootPhase = "stopped" THEN 1 ELSE 0)
          /\ UNCHANGED <<bootPhase, bootLibp2p, connected, failCount, retryTimer>>
     ELSE /\ LET n == attempting[w].node
             IN  AttemptEnds(w, [connected EXCEPT ![n] = FALSE], [failCount EXCEPT ![n] = @ + 1])
          /\ UNCHANGED lateDials

\* The dial ends.
BootDialled(w, success) ==
  /\ At(w, "dial")
  /\ LET n == attempting[w].node
     IN  AttemptEnds(w, [connected EXCEPT ![n] = success],
                     [failCount EXCEPT ![n] = IF success THEN 0 ELSE @ + 1])
  /\ UNCHANGED lateDials

\* A start that waits until every node is connected.
AllConnected == \A n \in Nodes : At(n, "none") /\ connected[n]

\* Promise.allSettled
AllSettled == \A n \in Nodes : At(n, "none")

\* The attempts of start() have all ended, well or not.
BootstrapStarted ==
  /\ bootPhase = "connecting"
  /\ AllSettled
  /\ bootPhase' = "up"
  /\ retryTimer' = TRUE
  /\ UNCHANGED <<bootLibp2p, connected, failCount, attempting, lateDials>>

\* A stop that only clears the interval.
KeepsLibp2p == UNCHANGED bootLibp2p

DropsLibp2p == bootLibp2p' = FALSE

BootstrapStop ==
  /\ bootPhase = "up"
  /\ bootPhase' = "stopped"
  /\ retryTimer' = FALSE
  /\ DropsLibp2p
  /\ UNCHANGED <<connected, failCount, attempting, lateDials>>

-----------------------------------------------------------------------------
BootInit ==
  /\ bootPhase = "off"
  /\ bootLibp2p = FALSE
  /\ connected = [n \in Nodes |-> FALSE]
  /\ failCount = [n \in Nodes |-> 0]
  /\ retryTimer = FALSE
  /\ attempting = [w \in Workers |-> NoAttempt]
  /\ lateDials = 0

Answered(w) == CheckRefuses(w) \/ CheckPasses(w) \/ \E success \in BOOLEAN : BootDialled(w, success)

\* What runs once start() is called, stop() aside.
BootStep ==
  \/ \E w \in Workers : Answered(w)
  \/ BootstrapStarted
  \/ \E p \in RetryPasses : BeginPass(p)

\* Health checks time out, dials end, and the interval fires.
BootFairness ==
  /\ WF_bootVars(BootstrapStarted)
  /\ \A w \in Workers : WF_bootVars(Answered(w))
  /\ \A p \in RetryPasses : WF_bootVars(BeginPass(p))

-----------------------------------------------------------------------------
(***************************************************************************)
(* Properties                                                              *)
(***************************************************************************)

\* Each node is connected to or given up in the end, whatever its health check
\* says: no node is tried for ever, and none waits behind another for ever,
\* unless the manager is stopped.
BootstrapSettles ==
  \A n \in Nodes :
    bootPhase = "connecting" ~>
      (bootPhase = "stopped" \/ connected[n] \/ failCount[n] >= GiveUpAfter)

\* A stopped manager dials nobody: a health check that was on its way when it
\* was stopped does not lead to a connection of the node that shuts down.
NoDialAfterStop == lateDials = 0
=============================================================================
