----------------------------- MODULE Configuration -----------------------------
(***************************************************************************)
(* The configuration of a process (lib/config/loader.ts) and the part of   *)
(* it that outlives the process: loadConfig() merges the defaults, what    *)
(* the database holds, the configuration file, the environment and the     *)
(* command line; initializeDatabase() (lib/storage/migrations.ts) stores   *)
(* the node ID, the API token and the bootstrap peers, one after the       *)
(* other.  The process may be killed at any moment and started again, and  *)
(* its command line and environment be edited in between.                  *)
(*                                                                         *)
(* A source is a function from the settings it names to their values: a    *)
(* setting is a leaf of the nested configuration, and merging objects into *)
(* each other is overriding their leaves.                                  *)
(***************************************************************************)
EXTENDS Integers, Sequences

CONSTANTS
  CommandLines,     \* the arguments the process may be started with
  Environments,     \* the variables it may find, by the setting they are for
  Files,            \* the configuration files there are, by their place
  NewIds, NewTokens \* what uuidv4 and randomBytes generate, in order

\* Settings an object of the configuration holds, which the environment names
\* all at once.
Groups ==
  {{"level", "logFile"}, {"retentionDays", "maxPayloadSize"}, {"ttlDays", "cleanupInterval"},
   {"queryMs", "broadcastMs", "peerCheckSec"}}
Places == {"nodeId", "configFile", "dbPath"}
Settings ==
  Places \cup {"apiToken", "bootstrapPeers", "pooling", "poolSize", "maxStreams"}
    \cup UNION Groups

\* Settings that have a flag of their own.
Flags ==
  Places \cup {"apiToken", "bootstrapPeers", "pooling", "poolSize"}
    \cup {"level", "logFile", "retentionDays", "ttlDays"}

Null == "null"
Empty == "empty"       \* an empty string, an empty array
Default == "default"

\* A place that was named, or the default one of the node.
Place(name, nodeId) == [name |-> name, node |-> IF name = Default THEN nodeId ELSE ""]

\* Only a file says null; no variable names an empty place; a token that is
\* generated is not empty, and nobody has written a file for a node that is given
\* its ID when it starts.
ASSUME ConfigurationAssumption ==
  /\ CommandLines \subseteq Seq([flag : STRING, word : STRING \ {Null}])
  /\ \A variables \in Environments : \A s \in DOMAIN variables :
       variables[s] # Null /\ (s \in {"configFile", "dbPath"} => variables[s] # Empty)
  /\ \A place \in DOMAIN Files : DOMAIN Files[place] \subseteq Settings
  /\ NewIds \in Seq(STRING) /\ NewTokens \in Seq(STRING \ {Null, Empty})
  /\ \A i \in DOMAIN NewIds : Place(Default, NewIds[i]) \notin DOMAIN Files

VARIABLES
  args, env,
  phase,      \* down, storing, up
  config,     \* the merged configuration; no setting while down
  toStore,    \* the puts initializeDatabase has still to do
  databases,  \* databases[place]: the settings stored there
  ids, tokens,\* how many were generated
  \* History; nothing reads it.
  present     \* present[place]: what the last complete start there came up with

confVars == <<args, env, phase, config, toStore, databases, ids, tokens, present>>

Nothing == <<>>
Put(f, x, value) == [y \in DOMAIN f \cup {x} |-> IF y = x THEN value ELSE f[y]]

-----------------------------------------------------------------------------
\* A parser that does not look at the next argument.
FollowingLost(arguments, i) == [flag |-> "", word |-> "true"]

\* The next argument, if there is one.
Following(arguments, i) ==
  IF i < Len(arguments) THEN arguments[i + 1] ELSE [flag |-> "", word |-> "true"]

\* parseCLIArgs.  An argument is a flag with or without "=word", or, when its
\* flag is "", a word of its own; a flag without a word takes the next argument
\* if that is a word and is "true" otherwise.
CliSource(arguments) ==
  LET Word(i) ==
        IF arguments[i].word # "" THEN arguments[i].word
        ELSE IF Following(arguments, i).flag = "" THEN Following(arguments, i).word ELSE "true"
      Sets(s) == {i \in DOMAIN arguments : arguments[i].flag = s}
      Final(S) == CHOOSE i \in S : \A j \in S : j <= i
  IN  [s \in {t \in Flags : Sets(t) # {}} |-> Word(Final(Sets(s)))]

\* Variables that bring maxStreams in: its own is not among those looked for.
Openers == {"pooling", "poolSize", "multiplexing"}

\* The variables that count: an empty one does not, except that of pooling, which
\* only has to be there.
Told(variables) == {v \in DOMAIN variables : variables[v] # Empty \/ v = "pooling"}

\* loadEnv.  A variable of a group sets the rest of the group to what the
\* defaults have for it; the two of the log are then taken although empty.
EnvSource(variables) ==
  LET set == Told(variables)
      log == {"level", "logFile"} \cap DOMAIN variables
      heard == (set \cap Settings) \ IF set \cap Openers = {} THEN {"maxStreams"} ELSE {}
      groups == UNION {g \in Groups : g \cap set # {}}
      Value(s) == IF s \in heard \cup log THEN variables[s]
                  ELSE IF s = "logFile" THEN Null ELSE Default
  IN  [s \in heard \cup groups |-> Value(s)]

Named(source) == {s \in DOMAIN source : source[s] # Null}

\* deepMerge: each source overrides what came before, and null nothing.
Override(result, source) ==
  [s \in DOMAIN result \cup Named(source) |->
     IF s \in Named(source) THEN source[s] ELSE result[s]]

DeepMerge(first, second, third, fourth, fifth) ==
  Override(Override(Override(Override(Override(Nothing, first), second), third), fourth), fifth)

\* getDefaults; the ports it looks for are left out.
Defaults ==
  [s \in Settings \ (Places \cup {"apiToken"}) |->
     IF s = "bootstrapPeers" THEN Empty ELSE IF s = "logFile" THEN Null ELSE Default]

\* The command line's or the environment's.
FromCaller(s, default) ==
  IF s \in DOMAIN CliSource(args) THEN CliSource(args)[s]
  ELSE IF s \in Told(env) THEN env[s] ELSE default

FileAt(place) == IF place \in DOMAIN Files THEN Files[place] ELSE Nothing

Stored(place) == IF place \in DOMAIN databases THEN databases[place] ELSE Nothing

\* A load that takes the token of no database.
DatabaseWithoutToken(place) ==
  [s \in DOMAIN Stored(place) \ {"apiToken"} |-> Stored(place)[s]]

DatabaseSource(place) == Stored(place)

Merged(database, file) ==
  DeepMerge(Defaults, database, file, EnvSource(env), CliSource(args))

\* The last source: the ID and the places as they were resolved, and the token.
PutOver(forced, merged) ==
  [s \in DOMAIN forced \cup DOMAIN merged |->
     IF s \in DOMAIN forced THEN forced[s] ELSE merged[s]]

\* loadConfig.  The node ID decides where the file is looked for, and both where
\* the database is; an API token is generated when no source has one.
LoadConfig ==
  LET generates == "nodeId" \notin DOMAIN CliSource(args) \cup Told(env)
      nodeId == IF generates THEN NewIds[ids + 1] ELSE FromCaller("nodeId", "")
      file == FileAt(Place(FromCaller("configFile", Default), nodeId))
      fileDb == IF "dbPath" \in Named(file) THEN file["dbPath"] ELSE Default
      dbPlace == Place(FromCaller("dbPath", fileDb), nodeId)
      merged == Merged(DatabaseSource(dbPlace), file)
      found == "apiToken" \in DOMAIN merged /\ merged["apiToken"] # Empty
      token == IF found THEN merged["apiToken"] ELSE NewTokens[tokens + 1]
      forced == [apiToken |-> token, nodeId |-> nodeId, dbPath |-> dbPlace,
                 configFile |-> Place(FromCaller("configFile", Default), nodeId)]
  IN  /\ phase = "down"
      /\ generates => ids < Len(NewIds)
      /\ ~found => tokens < Len(NewTokens)
      /\ config' = PutOver(forced, merged)
      /\ ids' = IF generates THEN ids + 1 ELSE ids
      /\ tokens' = IF found THEN tokens ELSE tokens + 1
      /\ toStore' = IF config'["bootstrapPeers"] = Empty THEN <<"nodeId", "apiToken">>
                    ELSE <<"nodeId", "apiToken", "bootstrapPeers">>
      /\ phase' = "storing"
      /\ UNCHANGED <<args, env, databases, present>>

\* initializeDatabase, one put of it.
PutNext ==
  LET place == config["dbPath"]
      s == Head(toStore)
  IN  /\ phase = "storing" /\ toStore # <<>>
      /\ databases' = Put(databases, place, Put(Stored(place), s, config[s]))
      /\ toStore' = Tail(toStore)
      /\ UNCHANGED <<args, env, phase, config, ids, tokens, present>>

\* The process serves; its token is printed.
ComeUp ==
  /\ phase = "storing" /\ toStore = <<>>
  /\ phase' = "up"
  /\ present' = Put(present, config["dbPath"], config)
  /\ UNCHANGED <<args, env, config, toStore, databases, ids, tokens>>

Stop ==
  /\ phase # "down"
  /\ phase' = "down" /\ config' = Nothing /\ toStore' = <<>>
  /\ UNCHANGED <<args, env, databases, ids, tokens, present>>

\* Whoever runs the node changes how it is started.
Reconfigure ==
  /\ phase = "down"
  /\ args' \in CommandLines /\ env' \in Environments
  /\ <<args', env'>> # <<args, env>>
  /\ present' = Nothing
  /\ UNCHANGED <<phase, config, toStore, databases, ids, tokens>>

ConfInit ==
  /\ args \in CommandLines /\ env \in Environments
  /\ phase = "down" /\ config = Nothing /\ toStore = <<>>
  /\ databases = Nothing /\ present = Nothing
  /\ ids = 0 /\ tokens = 0

ConfNext == LoadConfig \/ PutNext \/ ComeUp \/ Stop \/ Reconfigure

ConfSpec == ConfInit /\ [][ConfNext]_confVars

\* The configured token is empty, and so a new one generated at every start.
EmptyToken ==
  LET sources == <<FileAt(config["configFile"]), EnvSource(env), CliSource(args)>>
      naming == {i \in DOMAIN sources : "apiToken" \in Named(sources[i])}
  IN  naming # {} /\ \A i \in naming : (\A j \in naming : j <= i) => sources[i]["apiToken"] = Empty

-----------------------------------------------------------------------------
(***************************************************************************)
(* Properties                                                              *)
(***************************************************************************)

\* A start changes nothing the last one had at the same database: as long as
\* nobody edits the command line and the environment, a node stopped or killed
\* anywhere comes back with the same token, peers and settings.  Only its ID may
\* differ when none is configured, the place of the file with it, and the token
\* when the configured one is empty.  The last start is the last that came up: one
\* killed before is not judged.  Nor is the route that adds peers to the stored
\* ones (api/peers/bootstrap), which is outside this module.
RestartsChangeNothing ==
  (phase # "down" /\ config["dbPath"] \in DOMAIN present) =>
    LET last == present[config["dbPath"]]
        Fixed == DOMAIN config \ {"nodeId", "configFile", "dbPath"}
    IN  /\ DOMAIN config = DOMAIN last
        /\ \A s \in Fixed : config[s] = last[s] \/ (s = "apiToken" /\ EmptyToken)

\* "CLI flags > env vars > config file > DB state > defaults".  A flag has its own
\* word, or else the next argument when that is no flag, or else "true".  It is so
\* with these exceptions: a variable counts as naming its whole group, that of
\* maxStreams as nothing unless an opener is set; an empty variable or token is
\* none; a file or a database has no say in the node ID, nor in where the two are.
SourcesInOrder ==
  phase # "down" => \A s \in DOMAIN config \ {"configFile", "dbPath"} :
    LET flags == {i \in DOMAIN args : args[i].flag = s /\ s \in Flags}
        next == {i \in flags : i + 1 \in DOMAIN args /\ args[i + 1].flag = ""}
        group == UNION {g \in Groups \cup {{s}} : s \in g}
        file == FileAt(config["configFile"])
        stored == DatabaseSource(config["dbPath"])
        Is(value) == config[s] = value \/ (s = "apiToken" /\ value = Empty)
    IN  /\ \A i \in flags : (\A j \in flags : j <= i) =>
             /\ args[i].word # "" => Is(args[i].word)
             /\ args[i].word = "" /\ i \in next => Is(args[i + 1].word)
             /\ args[i].word = "" /\ i \notin next => Is("true")
        /\ (flags = {} /\ s \in Told(env) /\ (s = "maxStreams" => Openers \cap Told(env) # {}))
             => Is(env[s])
        /\ flags = {} /\ group \cap Told(env) = {} /\ s # "nodeId" =>
             /\ s \in Named(file) => Is(file[s])
             /\ s \in DOMAIN stored \ Named(file) => Is(stored[s])
             /\ s \notin Named(file) \cup DOMAIN stored \cup {"apiToken"} => Is(Defaults[s])
=============================================================================
