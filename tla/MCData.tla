-------------------------------- MODULE MCData --------------------------------
(***************************************************************************)
(* What outlives a process: a deployment of Configuration, with every way  *)
(* a value of the command line, the environment or a file can be missing,  *)
(* repeated or empty, and a small MessageStore.  The two share no state,   *)
(* so a behaviour follows one of them; and nobody pages where queries are. *)
(***************************************************************************)
EXTENDS Configuration, MessageStore, TLC

Arg(flag, word) == [flag |-> flag, word |-> word]

MCCommandLines ==
  {<<>>,
   <<Arg("nodeId", ""), Arg("", "n1"), Arg("level", "debug"), Arg("level", "warn")>>,
   <<Arg("configFile", "c1"), Arg("verbose", ""), Arg("poolSize", "9"), Arg("pooling", "")>>,
   <<Arg("apiToken", ""), Arg("dbPath", "d1")>>,
   <<Arg("apiToken", Empty), Arg("dbPath", "d1")>>}

MCEnvironments ==
  {<<>>,
   [nodeId |-> "n1", logFile |-> "log", level |-> Empty, maxStreams |-> "9"],
   [nodeId |-> Empty, apiToken |-> "token", bootstrapPeers |-> "peers", broadcastMs |-> "9"],
   [dbPath |-> "d1", multiplexing |-> "true", maxStreams |-> "9"]}

MCFiles ==
  Place("c1", "") :> [level |-> "info", queryMs |-> "8", dbPath |-> "d1"]
    @@ Place(Default, "n1") :>
         [level |-> Null, logFile |-> "file", nodeId |-> "n2", bootstrapPeers |-> "peers2"]

MCNewIds == <<"u1", "u2">>
MCNewTokens == <<"t1", "t2">>

MCInit == ConfInit /\ StoreInit

\* The messages are followed in behaviours in which no process is configured.
Followed == ids = 0 /\ tokens = 0 /\ databases = Nothing /\ phase = "down"

Queried == \E key \in stored \cup writing : key.kind # "published"

MCNext ==
  \/ /\ ConfNext
     /\ storeClock = 0 /\ used = {} /\ reader = NoReader /\ prune = NoPrune
     /\ UNCHANGED storeVars
  \/ /\ StoreNext
     /\ Followed /\ args = <<>> /\ env = <<>>
     /\ Queried' => reader' = NoReader
     /\ UNCHANGED confVars

MCSpec == MCInit /\ [][MCNext]_<<confVars, storeVars>>
=============================================================================
