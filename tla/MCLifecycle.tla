------------------------------ MODULE MCLifecycle ------------------------------
(***************************************************************************)
(* A small node process with its database and keys.  Rotations of the keys *)
(* and passing time are followed in behaviours without requests, clients   *)
(* and signals, with which they share nothing.                             *)
(***************************************************************************)
EXTENDS Lifecycle

CONSTANTS c1, c2, s1, s2
MCClients == {c1, c2}
MCSignals == {s1, s2}

MCAll == [steps |-> {"flush", "p2p", "persist", "database"}, force |-> TRUE, appStays |-> FALSE]
MCShutdownConfigs ==
  {MCAll, [MCAll EXCEPT !.force = FALSE], [MCAll EXCEPT !.steps = @ \ {"p2p"}],
   [MCAll EXCEPT !.appStays = TRUE]}

MCConfiguredPeers == {{}, {"p1"}}

\* Nothing has been asked about any of X.
Unasked(X) == \A x \in X : promised[x] = IF x \in Topics THEN "out" ELSE "open"

KeysUsed == lastKey > 1 \/ keyClock > 0
Quiet ==
  /\ shutdownConfig = MCAll /\ configPeers = {} /\ Unasked(Topics \cup Peers)
  /\ sockets = {} /\ ~passing /\ \A s \in Signals : run[s] = 0

\* The topic no scan finds is asked for by one client while nothing else is.
Apart ==
  /\ shutdownConfig = MCAll /\ configPeers = {} /\ Unasked(Scanned \cup Peers)
  /\ sockets = {} /\ ~passing /\ ~Busy(c2)

HungUp(c) == Busy(c) /\ c \notin waiting

\* The configuration's peers matter to requests only, and the shutdown's to the
\* shutdown only, whose other configurations run once; one client opens
\* WebSockets, the other hangs up, in the first life, and a pass meets neither.  Which
\* signal comes first makes no difference.
MCInit == Init /\ (configPeers = {} \/ shutdownConfig = MCAll)

MCNext ==
  /\ Next
  /\ KeysUsed' => Quiet'
  /\ Unasked(Topics \ Scanned)' \/ Apart'
  /\ sockets' \subseteq {c1} /\ ~HungUp(c1)'
  /\ sockets' # {} => starts' = 1 /\ ~HungUp(c2)'
  /\ HungUp(c2)' => starts' = 1
  /\ passing' => starts' = 1 /\ sockets' = {} /\ Unasked(Topics \cup Peers)'
  /\ starts' > 1 => shutdownConfig = MCAll
  /\ run'[s2] # 0 => run'[s1] # 0

MCSpec == MCInit /\ [][MCNext]_vars /\ Fairness
=============================================================================
