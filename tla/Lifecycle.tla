------------------------------- MODULE Lifecycle -------------------------------
(***************************************************************************)
(* The life of a node process: the start sequence of server.ts, the        *)
(* requests of its API that change what a restart restores, and the        *)
(* graceful shutdown of lib/lifecycle/shutdown.ts, with the database       *)
(* (lib/storage) that outlives the process and the keys of KeyStore.  The  *)
(* process may be killed at any moment and is then started again.          *)
(*                                                                         *)
(* The start opens the database, seeds it, counts the restart, starts the  *)
(* node, subscribes to the saved topics and then listens; signals are      *)
(* handled once all of that is done.  The node's security mode is the      *)
(* adversarial one, which needs the keys, and its ID is configured and has *)
(* no colon: under a generated one, or one with a colon, a restart would   *)
(* find none of the saved topics.  The connections of the metrics server   *)
(* are left out: they are taken to end by themselves.                      *)
(***************************************************************************)
EXTENDS KeyStore, FiniteSets

CONSTANTS
  Topics, Peers,
  Scanned,         \* topics a scan finds again: up to U+00FE in the first character
  Clients,         \* API clients, each with one request at a time
  Signals,         \* signals the process may receive
  ShutdownConfigs, \* [steps, force, appStays]: cleanupSteps, timeoutAction = 'force_kill',
                   \* and a Next.js app, which no step closes, that keeps the process alive
  ConfiguredPeers, \* the bootstrap peers file, environment or arguments may name
  Counters,        \* counters initializeDatabase seeds; 4 in the code
  MaxStarts        \* bound on the starts of the process

\* The steps of runCleanupSteps; the first three run whatever is configured.
Steps == <<"background", "api", "metrics", "flush", "p2p", "persist", "database">>
StepNumbers == DOMAIN Steps
Always == {"background", "api", "metrics"}

ASSUME LifecycleAssumption ==
  /\ ShutdownConfigs \subseteq
       [steps : SUBSET {Steps[i] : i \in 4 .. 7}, force : BOOLEAN, appStays : BOOLEAN]
  /\ Scanned \subseteq Topics
  /\ \A peers \in ConfiguredPeers : peers \subseteq Peers
  /\ Topics \cap Peers = {} /\ Counters \in Nat \ {0} /\ MaxStarts \in Nat

VARIABLES
  \* Fixed by the configuration.
  shutdownConfig, configPeers,
  \* The process.
  proc,        \* down, the stage of the start it is at, serving, exited
  dbOpen, nodeUp,
  background,  \* the timers of the maintenance and of the token rotation run
  passing,     \* a pass of one of them is under way
  metricsUp,   \* the metrics server listens
  topics,      \* what the node is subscribed to
  request,     \* request[c]: what the handler of c's request is doing
  waiting,     \* clients connected for the answer to their request
  sockets,     \* clients connected over WebSocket
  run,         \* run[s]: the step the shutdown of signal s is at; 0 without one
  \* The database.
  counters,    \* how many of the counters are there
  restarts,    \* state:restart_count
  savedTopics, savedPeers,
  \* History; nothing reads it.
  starts,      \* starts of the process
  ran,         \* the steps begun since the start
  stepFailed,  \* a step has failed since the start
  promised     \* promised[x]: what the last answered request about x left it as

db == <<counters, restarts, savedTopics, savedPeers>>
parts == <<dbOpen, nodeUp, background, metricsUp>>
clients == <<request, waiting, sockets>>
shutdown == <<run, ran, stepFailed>>
fixed == <<shutdownConfig, configPeers>>
lifeVars == <<fixed, proc, parts, passing, topics, clients, db, shutdown, starts, promised>>

Idle == [kind |-> "none", about |-> "none", stage |-> "idle", read |-> {}, alone |-> TRUE]
Ended == Len(Steps) + 1

-----------------------------------------------------------------------------
\* Database.open, which loadConfig has done before to read the stored values;
\* initializeDatabase stores the bootstrap peers of the configuration, if any.
Boot ==
  /\ proc \in {"down", "exited"} /\ starts < MaxStarts
  /\ starts' = starts + 1
  /\ dbOpen' = TRUE
  /\ savedPeers' = IF configPeers = {} THEN savedPeers ELSE configPeers
  /\ proc' = IF counters = 0 THEN "seeding" ELSE "recovering"
  /\ UNCHANGED <<fixed, nodeUp, background, passing, metricsUp, topics, clients, counters,
                 restarts, savedTopics, shutdown, promised, keyVars>>

\* The counters are put one after the other; only the first is looked for.
SeedCounter ==
  /\ proc = "seeding"
  /\ counters' = counters + 1
  /\ proc' = IF counters' = Counters THEN "recovering" ELSE "seeding"
  /\ UNCHANGED <<fixed, parts, passing, topics, clients, restarts, savedTopics, savedPeers,
                 shutdown, starts, promised, keyVars>>

\* RestartRecovery: of what it can restore the server asks for nothing, and the
\* restart is counted.
Recover ==
  /\ proc = "recovering"
  /\ restarts' = restarts + 1
  /\ proc' = "starting"
  /\ UNCHANGED <<fixed, parts, passing, topics, clients, counters, savedTopics, savedPeers,
                 shutdown, starts, promised, keyVars>>

\* GNNNode.start, up to the keys and after them.
StartNode ==
  /\ proc = "starting" /\ keyPc = "up"
  /\ nodeUp' = TRUE
  /\ proc' = "restoring"
  /\ UNCHANGED <<fixed, dbOpen, background, passing, metricsUp, topics, clients, db,
                 shutdown, starts, promised, keyVars>>

\* getSubscriptions: of the saved topics those its scan comes to.
Subscriptions == savedTopics \cap Scanned

\* These are subscribed to, and the servers and timers started.
Restore ==
  /\ proc = "restoring"
  /\ topics' = Subscriptions
  /\ metricsUp' = TRUE /\ background' = TRUE
  /\ proc' = "serving"
  /\ UNCHANGED <<fixed, dbOpen, nodeUp, passing, clients, db, shutdown, starts, promised, keyVars>>

\* A timer of the background tasks fires; clearing it ends no pass under way.
BeginPass ==
  /\ proc = "serving" /\ background /\ ~passing
  /\ passing' = TRUE
  /\ UNCHANGED <<fixed, proc, parts, topics, clients, db, shutdown, starts, promised, keyVars>>

EndPass ==
  /\ passing
  /\ passing' = FALSE
  /\ UNCHANGED <<fixed, proc, parts, topics, clients, db, shutdown, starts, promised, keyVars>>

-----------------------------------------------------------------------------
Serving == proc = "serving" /\ \A s \in Signals : run[s] < 2

Busy(c) == request[c].kind # "none"

\* Requests that may undo each other: about one topic, or any two that add peers,
\* for each of those writes the whole list.
Conflicting(c, d, kind, x) ==
  /\ d # c /\ Busy(d)
  /\ request[d].about = x \/ (kind = "addPeer" /\ request[d].kind = "addPeer")

Promise(x, what) == promised' = [promised EXCEPT ![x] = what]

\* A request reaches the route: the node is told, and what has to be saved is
\* saved next, for peers after the list has been read.
Request(c, kind, x) ==
  LET others == {d \in Clients : Conflicting(c, d, kind, x)}
      mine == [kind |-> kind, about |-> x, read |-> {}, alone |-> others = {},
               stage |-> IF kind = "addPeer" THEN "reading" ELSE "saving"]
  IN  /\ Serving /\ ~Busy(c)
      /\ request' = [d \in Clients |-> IF d = c THEN mine
                       ELSE [request[d] EXCEPT !.alone = @ /\ d \notin others]]
      /\ topics' = CASE kind = "subscribe" -> topics \cup {x}
                     [] kind = "unsubscribe" -> topics \ {x}
                     [] OTHER -> topics
      /\ waiting' = waiting \cup {c}
      /\ Promise(x, "open")
      /\ UNCHANGED <<fixed, proc, parts, passing, sockets, db, shutdown, starts, keyVars>>

ReadPeers(c) ==
  /\ request[c].stage = "reading" /\ dbOpen
  /\ request' = [request EXCEPT ![c].stage = "saving", ![c].read = savedPeers]
  /\ UNCHANGED <<fixed, proc, parts, passing, topics, waiting, sockets, db, shutdown, starts,
                 promised, keyVars>>

\* An unsubscription that is not saved.
TopicAdded(kind, x) == savedTopics' = savedTopics \cup IF kind = "subscribe" THEN {x} ELSE {}

TopicSaved(kind, x) ==
  savedTopics' = IF kind = "subscribe" THEN savedTopics \cup {x} ELSE savedTopics \ {x}

\* What the request changes is saved, and the client has its answer if it is
\* still there.
Answer(c) ==
  LET asked == request[c]
  IN  /\ asked.stage = "saving" /\ dbOpen
      /\ request' = [request EXCEPT ![c] = Idle]
      /\ waiting' = waiting \ {c}
      /\ IF asked.kind = "addPeer"
         THEN savedPeers' = asked.read \cup {asked.about} /\ UNCHANGED savedTopics
         ELSE TopicSaved(asked.kind, asked.about) /\ UNCHANGED savedPeers
      /\ IF asked.alone /\ c \in waiting
         THEN Promise(asked.about, IF asked.kind = "unsubscribe" THEN "out" ELSE "in")
         ELSE UNCHANGED promised
      /\ UNCHANGED <<fixed, proc, parts, passing, topics, sockets, counters, restarts,
                     shutdown, starts, keyVars>>

\* The database is closed: a list of peers that cannot be read is taken for
\* empty, and nothing can be saved.
SaveFails(c) ==
  /\ Busy(c) /\ ~dbOpen
  /\ request' = [request EXCEPT ![c] = Idle]
  /\ waiting' = waiting \ {c}
  /\ UNCHANGED <<fixed, proc, parts, passing, topics, sockets, db, shutdown, starts, promised,
                 keyVars>>

\* The client does not wait for its answer; the handler goes on.
HangUp(c) ==
  /\ c \in waiting
  /\ waiting' = waiting \ {c}
  /\ UNCHANGED <<fixed, proc, parts, passing, topics, request, sockets, db, shutdown, starts,
                 promised, keyVars>>

Connect(c) ==
  /\ Serving /\ c \notin sockets
  /\ sockets' = sockets \cup {c}
  /\ UNCHANGED <<fixed, proc, parts, passing, topics, request, waiting, db, shutdown, starts,
                 promised, keyVars>>

Disconnect(c) ==
  /\ c \in sockets
  /\ sockets' = sockets \ {c}
  /\ UNCHANGED <<fixed, proc, parts, passing, topics, request, waiting, db, shutdown, starts,
                 promised, keyVars>>

-----------------------------------------------------------------------------
Configured(i) == Steps[i] \in Always \/ Steps[i] \in shutdownConfig.steps

\* The next configured step after i.
After(i) ==
  LET later == {j \in StepNumbers : j > i /\ Configured(j)}
  IN  IF later = {} THEN Ended ELSE CHOOSE j \in later : \A k \in later : j <= k

Enter(s, i) ==
  /\ run' = [run EXCEPT ![s] = i]
  /\ ran' = IF i = Ended THEN ran ELSE Append(ran, i)

\* A handler that does not look whether another shutdown is in progress.
NotHandled(s) == run[s] = 0

FirstSignal(s) == \A t \in Signals : run[t] = 0

Signal(s) ==
  /\ proc = "serving" /\ FirstSignal(s)
  /\ Enter(s, After(0))
  /\ UNCHANGED <<fixed, proc, parts, passing, topics, clients, db, stepFailed, starts,
                 promised, keyVars>>

AtStep(s, name) == run[s] \in StepNumbers /\ Steps[run[s]] = name

\* What the current step of s waits for; server.close() waits for every
\* connection, and for no handler whose client has gone.
StepMayEnd(s) == AtStep(s, "api") => (sockets = {} /\ waiting = {})

\* A step that leaves the timers of the background tasks running.
StepDoneButTimers(s) ==
  /\ UNCHANGED background
  /\ metricsUp' = (metricsUp /\ ~AtStep(s, "metrics"))
  /\ nodeUp' = (nodeUp /\ ~AtStep(s, "p2p"))
  /\ dbOpen' = (dbOpen /\ ~AtStep(s, "database"))

\* What the step has done when it succeeds; of the background tasks the first
\* clears the timers only.
StepDone(s) ==
  /\ background' = (background /\ ~AtStep(s, "background"))
  /\ metricsUp' = (metricsUp /\ ~AtStep(s, "metrics"))
  /\ nodeUp' = (nodeUp /\ ~AtStep(s, "p2p"))
  /\ dbOpen' = (dbOpen /\ ~AtStep(s, "database"))

\* The steps whose dependency may reject.
MayFail(s) == \E name \in {"metrics", "p2p", "persist", "database"} : AtStep(s, name)

\* The step of s succeeds, or rejects, which is only logged; the next one begins.
EndStep(s, success) ==
  /\ run[s] \in StepNumbers /\ StepMayEnd(s)
  /\ success \/ MayFail(s)
  /\ IF success THEN StepDone(s) /\ UNCHANGED stepFailed
     ELSE stepFailed' = TRUE /\ UNCHANGED parts
  /\ Enter(s, After(run[s]))
  /\ UNCHANGED <<fixed, proc, passing, topics, clients, db, starts, promised, keyVars>>

\* What the process keeps in memory is gone.
Gone(next) ==
  /\ proc' = next
  /\ dbOpen' = FALSE /\ nodeUp' = FALSE /\ background' = FALSE /\ metricsUp' = FALSE
  /\ passing' = FALSE
  /\ topics' = {} /\ sockets' = {} /\ waiting' = {}
  /\ request' = [c \in Clients |-> Idle]
  /\ run' = [s \in Signals |-> 0] /\ ran' = <<>> /\ stepFailed' = FALSE
  /\ KeysLost
  /\ UNCHANGED <<fixed, db, starts, promised>>

\* The event loop has nothing left to wait for.
Drained ==
  /\ \E s \in Signals : run[s] = Ended
  /\ ~nodeUp /\ ~metricsUp /\ ~background /\ ~passing /\ ~shutdownConfig.appStays
  /\ sockets = {} /\ waiting = {} /\ \A c \in Clients : ~Busy(c)

Exit == proc = "serving" /\ Drained /\ Gone("exited")

\* The timeout of a shutdown that is still in progress.
TimeOutKills ==
  /\ shutdownConfig.force
  /\ \E s \in Signals : run[s] \in StepNumbers
  /\ Gone("exited")

\* main() rejects when the keys cannot be loaded.
StartFails == proc = "starting" /\ keyPc = "failed" /\ Gone("exited")

Crash == proc \notin {"down", "exited"} /\ Gone("down")

-----------------------------------------------------------------------------
Init ==
  /\ KeyInit
  /\ shutdownConfig \in ShutdownConfigs /\ configPeers \in ConfiguredPeers
  /\ proc = "down"
  /\ dbOpen = FALSE /\ nodeUp = FALSE /\ background = FALSE /\ metricsUp = FALSE
  /\ passing = FALSE
  /\ topics = {} /\ sockets = {} /\ waiting = {}
  /\ request = [c \in Clients |-> Idle]
  /\ run = [s \in Signals |-> 0] /\ ran = <<>> /\ stepFailed = FALSE
  /\ counters = 0 /\ restarts = 0 /\ savedTopics = {} /\ savedPeers = {}
  /\ starts = 0
  /\ promised = [x \in Topics \cup Peers |-> IF x \in Topics THEN "out" ELSE "open"]

StartStep == SeedCounter \/ Recover \/ StartNode \/ Restore \/ StartFails

ClientStep(c) ==
  \/ \E kind \in {"subscribe", "unsubscribe"}, t \in Topics : Request(c, kind, t)
  \/ \E p \in Peers : Request(c, "addPeer", p)
  \/ Connect(c) \/ Disconnect(c) \/ HangUp(c)

RouteStep(c) == ReadPeers(c) \/ Answer(c) \/ SaveFails(c)

ShutdownStep == Exit \/ \E s \in Signals, success \in BOOLEAN : EndStep(s, success)

\* The keys are loaded by the start; who runs the node may rotate them.
NodeKeys ==
  /\ \/ proc = "starting"
     \/ proc = "serving" /\ nodeUp
  /\ KeyStep
  /\ UNCHANGED lifeVars

Next ==
  \/ Boot \/ StartStep
  \/ BeginPass \/ EndPass
  \/ \E c \in Clients : ClientStep(c) \/ RouteStep(c)
  \/ \E s \in Signals : Signal(s)
  \/ ShutdownStep \/ TimeOutKills \/ Crash
  \/ NodeKeys
  \/ KeyTick /\ UNCHANGED lifeVars

vars == <<lifeVars, keyVars>>

\* The code goes on after its awaits and the timeout fires; clients stay as long
\* as they like.
Fairness ==
  /\ WF_vars(ShutdownStep) /\ WF_vars(TimeOutKills) /\ WF_vars(EndPass)
  /\ \A c \in Clients : WF_vars(RouteStep(c))

Spec == Init /\ [][Next]_vars /\ Fairness

-----------------------------------------------------------------------------
(***************************************************************************)
(* Properties                                                              *)
(***************************************************************************)

\* What an answered request has changed is so as long as nothing else changes
\* it, through shutdowns, crashes and restarts: a topic is subscribed to or not,
\* a peer is still listed, unless the configuration names its own peers.  A topic
\* the scan does not come to is saved, and no start after that subscribes to it.
AnswersLast ==
  /\ \A t \in Topics :
       /\ promised[t] = "in" =>
            t \in savedTopics /\ (proc = "serving" /\ t \in Scanned => t \in topics)
       /\ promised[t] = "out" => t \notin savedTopics /\ t \notin topics
  /\ \A p \in Peers : promised[p] = "in" => p \in savedPeers \/ configPeers # {}

\* Each configured step of a shutdown is begun once and in its place, however
\* many signals arrive and whichever steps fail.  When the database is closed no
\* client waits for an answer, no timer is left to begin a pass, and the node has
\* stopped, unless stopping it failed or is not configured.  The handler of a
\* client that hung up, and a pass begun before, may still be using it.
ShutdownInOrder ==
  /\ \A i \in DOMAIN ran : Configured(ran[i])
  /\ \A i, j \in DOMAIN ran : i < j => ran[i] < ran[j]
  /\ \A s \in Signals : run[s] = Ended => \A i \in StepNumbers :
       Configured(i) => \E j \in DOMAIN ran : ran[j] = i
  /\ (proc = "serving" /\ ~dbOpen) =>
       /\ waiting = {} /\ ~background
       /\ ~stepFailed /\ "p2p" \in shutdownConfig.steps => ~nodeUp

\* A signal stops the process in the end: by force, or by itself when the clients
\* leave their WebSockets.  A shutdown that ran through all its steps has cleared
\* its timeout, and does not end if one of them failed or did not stop the node,
\* or if the Next.js app, which none of them closes, keeps the process alive.
ShutdownEnds ==
  (shutdownConfig.force \/ []<>(sockets = {})) =>
    ((\E s \in Signals : run[s] # 0) ~>
       \/ proc # "serving"
       \/ stepFailed \/ "p2p" \notin shutdownConfig.steps \/ shutdownConfig.appStays)
=============================================================================
