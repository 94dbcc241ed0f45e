# A verification of the GNN node

The repository is a peer-to-peer node in TypeScript: a libp2p node with
publish/subscribe and queries, a security layer in front of what it receives, an
HTTP API behind a token, and the machinery around it (token rotation, retries,
storage, shutdown, metrics). The modules here model its decision logic in TLA+, TLC
checks them on small instances, and TLAPS proves the main results for every
value of the constants.

Contents: [the system](#the-system) · [how code becomes
actions](#how-code-becomes-actions) · [modules](#modules) · [runs](#runs) ·
[fairness](#fairness) · [proofs](#proofs) · [where the code and its texts
differ](#where-the-code-and-its-texts-differ) · [what is not
modelled](#what-is-not-modelled) · [plan](#plan)

## The system

All of it runs in one JavaScript process. Concurrency comes from `await`: a
function runs undisturbed from one await to the next, and any other pending
function may run in between. State outlives the process only in a LevelDB
database of single keys and in a few key files.

| component | state | operations | talks to |
|---|---|---|---|
| rate limiter `security/ratelimit` | global bucket, buckets per peer, map of recent messages | `checkLimit`, `isDuplicate`, `removePeer`, `cleanup` (timer) | called by the pipeline |
| verification pipeline `security/verification` | none | `verify` | blocklist, signatures, limiter, reputation |
| node `p2p/node.ts` | peers map, pending queries, message queue | libp2p events, `publish`, `query`, `broadcastQuery`, `stop` | owns everything under `p2p` and `security` |
| reputation `security/reputation` | score cache; score, stamp, counters and history in the database | `getScore`, `updateScore`, `resetScore` | database |
| blocklist `security/blocklist` | cache; entries and an index by reason in the database | `add`, `remove`, `addEvidence`, `isBlocklisted`, `initialize` | database |
| connection pool `p2p/connection/pool.ts` | entries per peer, cleanup timer | `addConnection`, `getConnection`, streams, `markUnhealthy`, `cleanup` | connect and disconnect events |
| failover `p2p/connection/failover.ts` | a flag per call | staggered dials of which one wins | libp2p, metrics |
| circuit breaker `retry/circuit-breaker.ts` | state, counters, time of the last failure | `execute`, `isAllowed`, `reset` | the retry loop it runs |
| retry `retry/manager.ts`, `adaptive.ts` | profiles of peers | the loop of attempts with timeout and backoff, `updatePeerProfile` | circuit breaker |
| token rotation `security/tokens` | current record, history, stamps, all in the database | `initialize`, `checkAndRotate` (hourly), `forceRotate`, `validateToken` | database; started by `server.ts`, asked by no route |
| identity keys `security/crypto/keys.ts` | key pair, old keys, four files | `initialize`, `rotateKeys`, `isKnownPublicKey` | file system; started by the node |
| NAT manager `p2p/nat` | gateway client, mapping and renewal timer, public address | `start`, renewal, refresh, `stop` | gateway, STUN servers |
| relay client `p2p/relay/client.ts` | registrations, keep-alive timer | `start`, renewal passes, `stop`, `getRelayAddresses` | libp2p |
| bootstrap manager `p2p/bootstrap.ts` | connected flags and failure counts, retry timer | `start`, health checks, retry passes, `stop` | libp2p |
| storage `storage` | LevelDB, keys that sort by kind, time and ID | messages with `prune`, subscriptions, configuration, counters | disk |
| configuration `config/loader.ts` | none; stored values feed the next start | `loadConfig`: five sources merged | files, environment, database |
| lifecycle `lifecycle`, `server.ts` | a flag, counters in the database | start sequence, ordered shutdown with a timeout, restart recovery | everything |
| HTTP API `src/app/api` | none of its own | routes that publish, query, subscribe, add peers, page through messages | node, storage |
| reachability, metrics, health, WebSocket, compression, dashboard | little or none | | node |

What makes the behaviour hard: state read before an await and written after it
(reputation, blocklist, tokens, bootstrap peers), several writes that belong
together and may be cut by a failure, a crash or a restart (tokens, keys,
configuration, API requests), results of calls that arrive in a state they were
not begun in (breaker, ingress, relays, bootstrap), timers racing answers
(queries, failover, leases, shutdown), passes of an interval that overlap, and
limits under concurrency (queue, pool, buckets). `PROJECT.json` lists these
hazards line by line with the properties that watch them.

What correctness means, component by component:

- limiter: no peer, and not all of them together, exceed a bucket beyond the
  rate; a message is new once per duplicate window;
- ingress: however a message is redelivered, its acceptances are a duplicate
  window apart and end with its age; what is accepted is queued exactly once; the
  queue is bounded;
- reputation: events are never invented, and one at a time never lost;
- blocklist: a ban holds as long as it stands, a removed one does not return;
- breaker: fail-fast for the whole timeout, no leaked slot, recovery in the end;
- pool: bounded, nothing stale;
- tokens: the token last returned validates, the replaced one does for its grace
  period and not longer;
- queries: each settles exactly once and leaves nothing behind;
- retry: a call ends although its operation hangs, and behind an open breaker the
  loops that it had admitted run out;
- failover: the first connection wins, nothing is dialled after it, and the call
  returns although dials hang;
- keys: crashes and restarts do not change who the node is, and a key that was
  rotated out is known for its grace period;
- NAT, relays, bootstrap: the mapping is kept, relays are registered again, each
  bootstrap node is reached or given up; a stopped node is quiet;
- lifecycle: what the API has answered survives, the shutdown runs in order and
  ends, and the database is closed when no client waits and no timer is left;
- configuration: the sources override each other in their order, and a restart
  changes nothing;
- messages: a client that pages misses nothing, and pruning takes exactly what
  has outlived its retention.

## How code becomes actions

- The code between two awaits is one atomic action; a synchronous method is one
  action.
- An awaited database access is a step of its own at which the access takes
  effect; the code after it, up to the next access, belongs to that step unless
  it touches state that others share, and then it is another step. `pc[t]` names
  the step a task is at.
- Where the code handles it, an access may fail; a restart ends every task and
  clears what is kept in memory.
- A synchronous write of a file is a step of its own where the process may be
  killed before, after or inside it (`KeyStore`).
- Three modules list in the constant `Faults` what may happen, and remember in
  the variable `faults` what has happened. One run then covers the quiet and the
  disturbed executions, and each property names the disturbances it excludes.
- `now` is `Date.now()`. Time passes in units; `MaxTime` bounds it in the runs.
  The breaker counts the time since the last failure instead and needs no bound.
- History variables record what properties speak of; no action's guard reads
  them, with two exceptions in the ingress that bound its inputs: `copies` counts
  the deliveries of a message, and `published` lets an own message be published
  once.

## Modules

### RateLimiter

`limiter.ts`. `globalBucket`, `peerBuckets` and `recent` are the fields of the
class. The refill of the code is a fraction in floating point; tokens are counted
here in units of 1/interval, where the same computation is exact. Actions:
`CheckLimit` (global bucket first; a refusal there leaves the buckets of the peer
alone), `IsDuplicate`, `RemovePeer`, `Cleanup`, `Tick`. `StaleAssumption` says
that an idle bucket is full before it may be evicted, which an hour against
windows of seconds satisfies. `removePeer`, which the
program itself never calls, hands the peer full buckets by design: the
observation of that peer starts again there.

`since[p]` starts the observation of a peer at an arbitrary instant, so the
bound is about every interval and not only about the first one.

### MessageIngress

The path of a received message: the pub-sub handler in `node.ts`, `verify()` in
`pipeline.ts`, the limiter, and the queue. It extends `RateLimiter`, whose
operators its actions call. `Verify` is the chain of checks up to the first
await, in the order of the code, in adversarial mode; a verification that then
awaits `updateScore` is counted in `inFlight` with its verdict, and `Settle` and
`Fail` are the two ways that promise ends, `Fail` being the `catch` that queues
the message anyway. `ReceiveUnverified` is the handler after `stop()` has dropped
the pipeline. A signature is a bit of the message: `genuine` tells whether
`verifySignature` returns true. The blocklist answers as it pleases
(`SetBlocked`); `publish()` is the other writer of the queue.

### CircuitBreaker and BreakerGate

`circuit-breaker.ts`, one breaker with any number of `execute()` calls in
progress. `call[c]` tells how c was admitted; `checkStateTransition` is a
set of operators that `Execute` and `IsAllowed` share. A call that ends is booked
on whatever state the breaker is in then, as in the code. `BreakerGate` is what a
caller relies on, without counters: a tripped breaker admits nothing for the
whole timeout, then a probe. `GateSpec` is the refinement, with the counters
hidden and `cooldown` computed from the time of the last failure.

### SmartRetry

`SmartRetryFacade` of `adaptive.ts` with the loop of `manager.ts`: it extends
`CircuitBreaker`, whose `Execute`, `Succeed` and `FailCall` are steps of its own
actions, so that the operation the breaker runs is a real loop. `loop[c]` holds the
number of retries fixed when the loop began, the attempt it is at and whether it
sleeps. `adaptive` is `adaptiveRetry.enabled`: with it the length follows from the
profile, without it from the type of the message (`LoopLengths`). `AttemptFails` is
a rejection or the timeout, which end an attempt alike; what a timed-out operation
does later reaches nobody. `CallsEnd` is the fairness the breaker's module assumes
of its calls, shown to hold of the loop.

### Reputation

`system.ts` for one peer (peers share no key). Each call is an operation with its
own event and its own `pc`: score (cache or database), stamp, `Apply` (decay and
delta), four writes and the counter and history accesses. Decay is abstracted to
what it does to a small score: any value between the score and the initial one.
`ideal` is the score that the calls would give one after the other, each what
`Serial` says.

### Blocklist

`manager.ts`. Bans, removals, expiries and reports of evidence are tasks; `disk`,
`index` and `cache` are the three places an entry is in. `Restart` is
`initialize()`. `standing` and `unbanned` record what callers were told.

### ConnectionPool

`pool.ts` with its cleanup timer and the connect and disconnect listeners of the
node. Entries keep their order, since `evictOldest` finds a peer by its least
recently used entry and then drops the first one it has.

### TokenRotation

`rotation.ts`. Rotators run `initialize`, `checkAndRotate` or `forceRotate`,
validators `validateToken`; every access is a step. A read that fails is taken for a
key without a value, as each `catch` of the code takes it (`Got`, `InitRead`,
`Check`); a put that fails ends the call. A rotation mints at most one token and
gives it its own name. The properties speak of `validateToken`: the routes do not
call it (see [below](#where-the-code-and-its-texts-differ)). `status` is not stored:
a record is secondary until its grace period ends. `hasConfigured` is whether the
configuration has a token.

### Queries

`query()`, `broadcastQuery()` and the peers map of `node.ts` with `stop()`.
`pending` and `timers` are the entries of `pendingQueries`, `outcome` what the
promise was settled with, `stage` what a broadcast awaits.

### Failover

One call of `dialPeerWithFailover` and `connectWithFailover`. `Sorted` is the
stable sort by priority; attempt `i` is `delayed` until its place in the stagger
is due, and `dial[i]` is what libp2p makes of it, which goes on when the attempt
has timed out. The clock counts delays of 500 ms and moves only when no timer of
the call is due.

### NatTraversal, RelayClient, Bootstrap and Services

One module per service and `Services`, which composes them as `GNNNode.start` and
`stop` do: in turn, waiting for each, with the earlier services already running
and their answers arriving during and after `stop()`. What runs is a step of the
service (`NatStep`, `RelayStep`, `BootStep`); `start` and `stop` of a service are
part of the node's steps.

- `NatTraversal`: `natPc` is what `start()` or `stop()` does next; `lease` is the
  mapping as the gateway keeps it, which runs out unless it is renewed. A renewal
  that is on its way at `stop()` goes on and may map the port again. `stunOn`
  is `stun.enabled`, which alone decides about the type of the NAT and the refresh.
  A renewal is assumed to end before the next is due.
- `RelayClient`: `active` is the registrations map, `pass[k]` the relay that the
  renewal pass `k` waits for. The interval begins a pass whether or not another
  has ended, and a dial that ends after `stop()` still enters its relay.
- `Bootstrap`: `attempting[w]` is the health check or dial that an attempt of
  `start()` or a retry pass waits for.

### KeyStore

`KeyManager` of `keys.ts`. Keys are numbers in the order of their generation; a
file of the encrypted key names the password that opens it. Each
`writeFileSync` is a step; `KeysLost` ends the process before, between or inside
two of them, and a file that is cut cannot be parsed. `interrupted` remembers
what was cut short. What a rotation writes to `backups/` is read by nobody. A
write that throws in a process that lives on is not modelled.

### Lifecycle

The process: the start sequence of `server.ts`, the API requests whose effects a
restart restores, the signals and the shutdown of `shutdown.ts`. It extends
`KeyStore`, so the node of the process loads real keys: a key store that cannot
be loaded makes the start fail, and every end of the process is a `KeysLost`.
`Steps` are the seven steps of `runCleanupSteps`; `run[s]` is the one the handler
of signal `s` is at, `stepFailed` whether one has rejected. `server.close()`
waits for every connection, that is for `waiting` clients and WebSockets
(`sockets`), not for handlers: a client may hang up (`HangUp`) and leave its
handler running, which then may find the database closed (`SaveFails`). `passing`
is a pass of the maintenance or of the token check, which clearing its timer does
not end. `Drained` is Node's end of the process by itself; `appStays` tells
whether the Next.js app, which no step closes, holds it. `promised[x]` is what the
last answered request left of `x`; a request that met another one about the same
thing, or whose client is gone, promises nothing. `Scanned` are the topics that the
scan of `getSubscriptions` comes to. The node ID is configured and has no colon:
else a restart finds none of the saved topics. The connections of the metrics
server are taken to end by themselves.

### Configuration

`loadConfig` with `parseCLIArgs`, `loadEnv` and `deepMerge`, and the puts of
`initializeDatabase`, over kills and edits. A source is a function from settings
to values. `Settings` are representative: one of each way a value travels (a
place, a token, a list, a flag, a number, and the groups whose variables the
environment turns into whole objects). A flag has a word of its own or takes the
next argument (`Following`); an empty variable is none (`Told`). The route that
adds peers to the stored ones is not part of it. The variables of NAT, transports and
discovery travel like `poolSize`. Ports are left out: they depend on what else
listens on the machine. `Override` is one merge, `DeepMerge` the five in their
order, `PutOver` the settings that are forced on the result.

### MessageStore

The messages of `schema.ts` with the routes that stamp and store them, the client
that pages, and the daily pruning with its three scans and its batch. A key is a
kind, a time and an ID, which is how the database sorts.

## Runs

| run | module, instance | what it shows |
|---|---|---|
| `limiter` | two peers, one message, capacities 2 and 1, windows 2 and 1, four ticks | the rate bound over every interval, spacing of fresh answers |
| `ingress` | two valid messages of one peer and an unsigned one, two deliveries each, an own message, queue of 1, a window longer than age and skew, four ticks | acceptances a window apart (here: each message once), within the rate; every acceptance queued exactly once |
| `breaker` | `SmartRetry`: three callers, thresholds 2 and 3, two probes, timeout 1; one or two retries with adaptive retries, none without | the breaker's counters and slots, the refinement of the gate, recovery, every call ends, admitted loops run out while it is open |
| `reputation` | two updates of one counter, a read and a reset, all disturbances | serial updates exact, losses bounded, nothing invented |
| `blocklist` | a temporary and a permanent ban of one peer, a removal, an expiry, a report, all disturbances | bans hold, removals last |
| `pool` | three peers, two entries, two streams, six ticks | bounded, no empty peers, nothing stale |
| `tokens` | three rotators, a validator, one kept token, four instants, failed reads and writes and crashes | grace is kept and ends, the returned token validates |
| `queries` | two queries, a broadcast, two peers | exactly one outcome, no entry or timer left, every call returns |
| `services` | two relays and two bootstrap nodes, two overlapping passes each, a lease of two ticks; a dial with up to three addresses of two transports | mapping kept, relays recover, bootstrap settles, start and stop return, a stopped node is quiet; one winner of a dial, which returns |
| `lifecycle` | two clients, two topics of which the scan misses one, two peers, two signals, two starts, two counters, five keys | answers last, the shutdown is in order and ends, the identity survives, keys in their grace are known |
| `data` | `Configuration` with five command lines (words of their own, following words, none, an empty one), four environments, two files, and `MessageStore` with three messages | restarts change nothing, sources in order, paging and pruning exact |
| `pool_added` | two peers, two entries | **violated**: an added connection is not in the pool |

Why these bounds are enough to be interesting. Two entries per limit let a limit be
reached, exceeded by one and left again. Two deliveries of a message allow one that
is accepted and one that is refused as a duplicate, for want of tokens, as too old,
or that comes after `cleanup()` has forgotten the mark; a second valid message
competes for the tokens. Three callers let a stale result of one episode of the
breaker meet the two probes of the next. Two updates of one counter are the least
that can lose one. Three rotators allow an `initialize()` and two rotations, hence a
token pushed out of the history. Two passes over two relays or bootstrap nodes are
the least that can disagree about one of them. Two clients are the least whose
requests can undo each other, two signals the least that could start a second
shutdown, two starts the least that restore something. Five keys allow four
rotations, so that the first key falls out of a history of three. Three messages and
pages of one or two give a client several pages while a fourth operation prunes. In
the passing runs the clock reaches past every window and lifetime. In `ingress` the
window is longer than age and skew together, the case where a single repeat is
already a violation; other settings are left to the proof. The `tokens` instance
lets a token of the configuration be rotated out, outlive its grace and, when the
minted one has expired, be stored again. Symmetry is used only where a run has no
liveness property (`FreshSpacing` is an action property, so it is safety).

Three MC modules keep independent parts apart, since interleaving them would show
nothing: in `MCServices` the NAT manager runs alone in all its configurations and
in one of them beside each other service, and the dial varies where no service
runs; in `MCLifecycle` keys are rotated in behaviours without requests and
signals, every behaviour has the first generation, and the second start has one
shutdown configuration; `MCData` follows either the configuration or the
messages.

`CHECK_DEADLOCK FALSE` stands where the system really comes to an end: a stopped
node, or an instance whose calls have all been made. `limiter` and `breaker`
check deadlock.

Every property has a mutant: a definition changed the way a slip in the code
would change it, which TLC must then find to violate that property. No run lists a
type invariant: those of most modules are proved below, as parts of the inductive
invariants.

## Fairness

- `breaker`: timers fire, attempts end (their timeout ends them if nothing else
  does) and some caller keeps asking. Without the last one a breaker may stay
  open because nobody tries; nothing in the code tries by itself. No operation
  need ever settle. `Recovers` supposes that from some moment on no operation
  fails.
- `queries`: timers that are set fire, and the node's own answer and the code
  after a settled race run. The requests to other peers are *not* fair: a peer
  may never answer. The built-in actions of `handleRpcRequest` answer at once; a
  custom handler that never resolves would break the assumption, and with it
  `CallsReturn`.
- `services`: dials and health checks end, with whatever result (libp2p and
  `AbortSignal` bound them), the gateway answers or times out before the next
  renewal is due, intervals fire
  and the code after an await runs. Nobody need ever start or stop the node, and
  connections may be lost at any time; `RelaysRecover` supposes that from some
  moment on they are not, and dials succeed.
- The dial in `services`: its timers fire; its dials need never settle.
- `lifecycle`: the steps of a shutdown go on, its timeout fires, and routes that
  have been entered and passes that have begun finish. Clients, signals and crashes
  are not fair: a client may keep its connection for ever, which is what
  `ShutdownEnds` is about.

The other runs have safety properties only.

## Proofs

Proved by TLAPS, for every set of peers, messages and calls and every value of
the configuration that satisfies the assumptions named in the modules. Every
safety property that a passing run checks is stated by one of these theorems; the
specification named is the one without fairness.

| module | about | theorem | of |
|---|---|---|---|
| `MessageIngress_proofs` | `RateLimiter` | `LimiterTypeCorrect`, `PeerRate`, `GlobalRate`, `FreshAnswersSpaced` | `Spec` |
| | `MessageIngress` | `IngressTypeCorrect`, `QueueStaysBounded`, `AdmittedExactly` | `IngressSpec` |
| | | `AcceptancesWithinRate`, when the limiter is enabled | `IngressSpec` |
| | | `AcceptancesApart` | `IngressSpec` |
| `Trust_proofs` | `CircuitBreaker` | `TypeCorrect`, `ClosedTolerates`, `SlotsNotLeaked`, `ImplementsGate` | `Spec` |
| | `SmartRetry` | `FacadeRunsBreaker`, `FacadeImplementsGate`, `OpenBreakerDrains` | `SmartSpec` |
| | `Reputation` | `LossesBounded`, `SerialUpdatesExact` | `ReputationSpec` |
| `Storage_proofs` | `Blocklist` | `BlocklistTypeCorrect`, `BannedAlwaysBlocked`, `ActiveBansHold`, `RemovedForGood` | `Spec` |
| | `MessageStore` | `PrunesExactly`, `PagingMissesNothing` | `StoreSpec` |
| | `Configuration` | `RestartsKeepConfig`, `SourcesAlwaysInOrder` | `ConfSpec` |
| `Connections_proofs` | `ConnectionPool` | `PoolTypeCorrect`, `PoolAlwaysBounded`, `NeverStaleConnection` | `Spec` |
| | `Failover` | `FirstConnectionAlwaysWins` | `FailoverSpec` |
| `TokenRotation_proofs` | `TokenRotation` | `TypeCorrect`, `GraceAlwaysEnds`, `GraceIsKept`, `ReturnedIsAccepted` | `Spec` |
| `Node_proofs` | `Queries` | `QueriesTypeCorrect`, `PendingIsOpen`, `ReturnsWholeOrEmpty` | `QueriesSpec` |
| | `Services` | `MappingAlwaysKept`, `StoppedStaysQuiet` | `Spec` |
| `Lifecycle_proofs` | `KeyStore` | `IdentityKeptForever`, `OldKeysAlwaysKnown` | `KeySpec` |
| | `Lifecycle` | `ProcessRunsKeyStore`, `IdentityOutlivesProcess`, `OldKeysOutliveProcess`, `AnswersAlwaysLast`, `ShutdownAlwaysInOrder` | `Spec` |
| `Subsequence_proofs` | `Subsequence` | the lemmas on filtered and cut arrays that pool, tokens and keys cite | |

The arguments:

- *Rate bounds.* The bound itself is not inductive: it says nothing of what a
  bucket still holds. `TrackedLedger` adds it: grants since the start of the
  observation plus the tokens left are at most one capacity plus what was earned
  up to the last refill. The hard case is eviction, for a peer that comes back
  gets a full bucket. `UntrackedLedger` says that a peer without a bucket has
  been granted no more than the plain rate, without the initial burst; an evicted
  bucket satisfies it because it was idle for `StaleAfter >= PeerWindow`, in
  which time a whole capacity was earned and not spent. `RateInv` keeps the same
  ledger for the acceptances of the ingress, each of which took a token.
- *Repeats.* `Remembered`: of a message that was accepted k times either the
  duplicate map still holds a mark no older than k-1 windows after the earliest
  instant at which the timestamp check would pass it, or the k-th window after
  that instant is over. Each acceptance therefore lies a window further on, and
  all of them within the age and the skew a message may have (`RepeatsBounded`).
  This assumes nothing of the settings: with the defaults, a window of 60 seconds
  against 330, it allows six acceptances; with a window longer than age and skew
  together it allows one.
- *Queued exactly once.* `AdmittedExact` is inductive given the types: every step
  that lands a verification moves one from in flight to queued. It needs no
  assumption.
- *Breaker.* The five invariants together are inductive. `NoSlotLeaked` needs the
  count of a finite set to change by one with a call that begins or ends.
  The refinement needs `OpenHasDeadline` (an open breaker has a finite
  `cooldown`); each step maps to a step of the gate or to a stutter. A step of the
  facade is one of the breaker or leaves it alone (`SmartIsBreaker`), so all of
  this carries over to the retry loops. `LoopCounts` bounds the attempt of a loop
  by the length it began with, so that the attempts left are a number that
  `OpenBreakerDrains` can show to fall with each operation.
- *Reputation.* `CountInv`: a counter in the database, or on its way there, is no
  greater than the number of operations that may have put it; that set only grows,
  and it grows with every put. `LossInv`, without overlaps and failed reads: nor
  is it less than the number of those that have put it and were not cut short
  since, because one operation at most is under way (`Lone`) and what it has read
  is still there. `ExactInv` follows that one operation: until its put the score
  in the database is the one it began with, and `ideal` what it will make of it;
  afterwards they are equal, and the cache holds that score or none.
- *Blocklist.* `Filed` and `Working` (an entry is filed under its peer and was
  begun; a task holds the entry its stage says) carry the rest. `Blocking` follows
  a ban from its put to its return while nobody removes or expires one of that
  peer. Without overlaps the ban that stands is the one on disk (`Standing`), and
  one that was removed is held by no task that could write it back (`Gone`).
- *Messages.* `PutInTime`: what a request has stamped and not yet put is younger
  than the retention; so what a scan has passed cannot be joined later by
  something it should have found (`FoundAll`). For the client, `SeenSoFar`: what
  is owed to it and not yet seen lies at or behind its offset in the order it
  reads. Newest first, new messages push it further back and pruning takes from the
  far end; oldest first, nothing is owed once messages were pruned (`Counted`).
- *Configuration.* What a start is given without the database (`Given`) depends on
  the command line, environment and file alone. `Running` and `Lasting` say that a
  process and every later start at the same database agree with it and, where it
  is silent, with what is stored there. While the token is still to be stored
  (`TokenDue`) no complete start has happened there.
- *Pool.* `Fresh` weakens the promise between two cleanups: no entry is older than
  its lifetime and the time since the last one, which the interval bounds. The
  bound on the pool needs the number of entries to follow every filter of an array
  (`Places`), which is what the lemmas of `Subsequence_proofs` count.
- *First connection.* `DialsFollowed` ties the stage of an attempt to its dial
  and puts every time before the clock; `OneWinner` says that `completed` stands
  for a winner, that the winner connected no later than any other in time, and
  that nothing began to dial after that; `AnswerTold` that the answer came when
  all had ended. The sort by priority plays no part.
- *Tokens.* Without overlaps (`Apart`): what the one rotation has read is what is
  stored (`Faithful`), no token is minted or rotated out twice (`Minting`,
  `Spent`), and records carry the grace period of their tokens (`Matching`).
  `Traced` says that an increasing map takes the history to the tokens rotated
  out, missing none of the last `MaxTokensKept` in their grace; filtering and
  cutting the history compose with it. With no fault at all, failed reads
  included, the stored history, or the one about to be put, is traced. The end of
  the grace needs none of that: an entry of the history never promises more than
  `out` records (`GraceGiven`), whatever was read.
- *Queries.* Types and `PendingExact` are inductive as they stand; `WholeOrEmpty`
  needs the replies of a broadcast to have the peers it asked as their domain.
- *Services.* `RenewedInTime`: a lease that is not being renewed lasts at least what
  the timer still waits and the other half. `Unmapping` says what `stop()` leaves at
  each of its stages, unless a renewal was on its way then; `RelayInv` and `BootInv`
  that a stopped service has no libp2p to dial with.
- *Identity.* The property speaks of a node that is up; the invariant has to
  follow the files while it is not. `Unadopted`: before the node has had an
  identity the password file names no key while the encrypted key needs one, so
  no start can load, and what is written is of one pair. `Adopted`: afterwards
  the files agree while the process is down or up, and are taken apart by a
  rotation only. Once a rotation has been cut short nothing is claimed.
- *Old keys.* `OldKeysKept`: the history on disk, or the one in memory while a
  rotation writes, holds its keys in the order they were generated, with the end
  of their grace, and misses none in its grace that fewer than three have
  followed. The `slice(-3)` keeps those by `GrowingPlaces`.
- *Lifecycle.* To the keys, each step of the process is a step of the key store
  (`KeysFollowed`): `Lifecycle` implements `KeyStore`, and its theorems carry over.
  `AnswersLast` rests on `RequestsApart` (nothing is promised of what a request is
  changing, and a lone request is the only one to change its subject) and
  `PeersKept` (every copy of the peer list that is to be written back has the
  promised peers). `ShutdownInOrder` rests on `StepsInOrder` (one signal at most has
  a shutdown; its steps so far are the configured ones up to where it is) and on
  `DatabaseLast` (past the step of the timers none is left, past the API's no client
  waits; past the node's there is no node unless stopping it failed or is not
  configured; only at the end is the database closed). Handlers whose client is gone
  and passes under way are outside of it, as they are in the code. That the next
  configured step exists is `FirstStep`, by cases over the seven steps.
- *Filtered arrays.* The filters and slices of pool, tokens and keys are stated by
  places: `Picked(s, I)` is the array of the elements of `s` at the places `I`, the
  k-th being the one of rank k (`Nth`). `LeastNatural` and `NthElement` prove that
  every rank is taken, by counting; nothing is proved by induction over data.

Only model-checked: liveness (`Recovers`, `CallsEnd`, `CallsReturn`,
`RelaysRecover`, `BootstrapSettles`, `StartAndStopReturn`, `DialReturns`,
`ShutdownEnds`), which is out of the reach of this prover.

What the theorems assume is in the modules: sets of peers and calls are finite
where the code counts them, limits are positive, windows relate as
`StaleAssumption` says. `ConfigurationAssumption` excludes words and variables
that are null, generated tokens that are empty, and a configuration file at the
place a generated node ID would have by default, which nobody can have written
before the ID was drawn.

## Where the code and its texts differ

The third has a run that exhibits it, `pool_added`.

1. `pipeline.ts:66`, "In adversarial mode, unsigned messages are rejected". A
   rejection awaits `updateScore`; when that rejects, the handler's `catch`
   (`node.ts:242-246`) queues the message. And `stop()` sets the pipeline to null
   (`node.ts:417`) before it awaits `libp2p.stop()` (`node.ts:424`): what arrives
   in between takes the branch without verification (`node.ts:247-249`).
2. `circuit-breaker.ts:71`, "allow only up to halfOpenRequests". Any call that
   ends in HALF_OPEN frees a slot (57-61), also one begun before the breaker
   tripped, so more probes run than allowed. `NoSlotLeaked` shows that the error
   is on that side only.
3. `pool.ts:75`, "Add a connection to the pool." At capacity `evictOldest` may
   empty and delete the array that `addConnection` has already fetched; the entry
   then goes to an array the pool no longer has.
4. `rotation.ts:30`, "Returns the current plaintext token". After a rotation and
   a restart `initialize()` returns the token of the configuration (56), which is
   not the current one; once its grace period is over `validateToken` refuses it.

Tokens:

- "Validate a token against current and grace-period tokens. This is the primary
  auth check for API requests" (`rotation.ts:194-195`): no route calls it.
  `withAuth` (`middleware.ts:29-34`, `72-83`) and the WebSocket upgrade compare
  with the token of the configuration, which rotations do not change. What the
  properties say of grace and its end they say of `validateToken`.
- When the current token has expired, `initialize()` stores the configured token
  as current again (`rotation.ts:59-70`), also one that had been rotated out and
  was past its grace. `GraceEnds` claims of minted tokens only that a replaced one
  is never current again.
- A read that fails is taken for a key without a value (35-39, 110-115, 134-138,
  141-146). One failed read of the history makes the rotation store a history
  without the tokens in grace (183), one of the current record leaves that token
  without grace or, in `initialize()`, overwrites it.

Identity and lifecycle:

- A first start that is cut after the encrypted key and before the password file
  (`keys.ts:264-268`) leaves a node that never starts again: both files that are
  looked for exist (204), and the password does not. A rotation that is cut short
  mixes the halves of two pairs. `IdentitySurvives` says that nothing else comes
  between a node and its identity.
- "Backup old encrypted key" (`keys.ts:334`) writes the new one (338), after the
  old one has been overwritten.
- A shutdown clears its timeout when its steps are over (`shutdown.ts:97`). A step
  that failed is only logged, so a metrics server or a node that did not stop
  keeps the process alive, with nothing left to end it; so does a configuration
  without `close_connections`.
- Closing the API server (`shutdown.ts:125`) waits for every open connection, a
  WebSocket included; one idle client holds the flush, the node and the database
  until the kill, or for ever when `timeoutAction` is not `force_kill`.
- "Graceful restart <30 seconds (no message loss)" (`prompt4.md:42`): the message
  queue is dropped. The recovery would restore peers and pending messages, but
  `server.ts` gives it neither.
- The configured bootstrap peers replace the stored ones at every start
  (`migrations.ts:8-10`), those added over the API included, and concurrent
  requests that add peers lose each other's (`bootstrap/route.ts:22-24`).
- A start that is killed while it seeds the counters leaves the later ones unset,
  for the next start looks for the first one only (`migrations.ts:14-20`).
- With a generated node ID and a configured database a restart finds none of the
  saved subscriptions, which are stored under the ID (`server.ts:74`). The scan
  that looks for them ends at `subscription:\xff` and compares what follows the
  last colon with the ID (`schema.ts:144-146`): a topic whose first character
  sorts behind it is saved and answered and never restored, and a node ID with a
  colon restores none.
- `server.close()` waits for connections, not for handlers, and clearing a timer
  does not end its pass (`server.ts:199-212`, `234-240`, `rotation.ts:84-90`). A
  handler whose client has hung up, and a pass under way, may find the database
  closed. `ShutdownInOrder` speaks of clients and timers for this reason.
- No step closes the Next.js app (`server.ts:92-95`); what it keeps open, in
  development its watchers, keeps the process alive. `ShutdownEnds` supposes it
  lets go.

Network services:

- `stop()` of the NAT manager cancels the timer of the renewal and not a renewal
  on its way (`upnp.ts:130-138`, `157-185`), which then takes a new client and maps
  the port again. `StoppedIsQuiet` holds of nodes stopped without one.
- "First successful connection wins, others are cancelled" (`failover.ts:54`):
  attempts that are dialling are not, their connections stay open. "Falls back to
  relay as last resort" (55): only the first `maxConcurrentAttempts` addresses are
  ever tried, and relays sort last.
- The public address is reported to a metrics collector that is created later
  (`node.ts:295`, `340`). A dial with failover that connects is counted twice, by
  the listener (195) and by the dial (618).

Configuration and storage:

- "CLI flags > env vars > config file > DB state > defaults" (`README.md:12`,
  `ARCHITECTURE.md:77`). A variable of logging, storage, messages or timing brings
  the defaults of its whole group along, which override the file
  (`loader.ts:167-191`). `GNN_MAX_STREAMS_PER_CONN` alone is ignored and
  `GNN_MULTIPLEXING_ENABLED` sets nothing (232-246). The node ID of the file and of
  the database is never used (293, 334). An empty variable counts as none, except
  that of the pool, whose presence is enough, and those of the log, which are taken
  when another of the group is set. `SourcesInOrder` states the order with these
  exceptions.
- `hasMore` is computed from the limit the client asked for, not from the one
  that was applied (`route.ts:18-28`): with more than 100 it ends too early.
- `validateConfig` and `savePeer` have no callers.
- The duplicate map is lost with a restart: a message young enough is accepted
  again.

Elsewhere:

- The timeout of an attempt does not cancel the operation (`manager.ts:98`): the
  next attempt runs beside it.
- The duplicate window defaults to one minute (`config/defaults.ts:275`) while a
  message may be five minutes old (`signing.ts:14`) and thirty seconds early.
  With these a message redelivered after a minute is accepted again, up to five
  times (`RepeatsBounded`).
- Overlapping `updateScore` calls for a peer lose counter increments and history
  entries, since each reads, awaits and writes back (`system.ts:181-182`,
  `203-215`). `SerialExact` and `LossBounded` hold when they do not overlap.
- `isBlocklisted` starts a `remove()` when it meets an expired ban
  (`manager.ts:63`); a ban added while it runs disappears from the cache
  (`manager.ts:158`). `addEvidence` that overlaps `remove()` restores the entry
  (172-173). A failed `del` is swallowed (145) and the ban returns with a restart.
- `evictOldest` removes the first entry of the peer it found, not the oldest one
  (`pool.ts:195`).
- A rotation cut between its first and its last write (`rotation.ts:167-183`)
  leaves a current token that was never handed out, and an old one without its
  grace period. Overlapping rotations overwrite each other's history. The hourly
  scheduler discards the token it makes (86). `validateToken` reads current record
  and history in two steps (202, 212); a token that a rotation moves from one to
  the other in between is refused.
- `broadcastQuery` that times out returns no answer at all, although some may have
  come (`node.ts:566`), and arms its timer only after its own answer (557).
- A `'message'` listener that throws makes the `catch` queue the message again
  (`node.ts:241-245`).

## What is not modelled

Cryptography, canonical serialisation, the libp2p stack, the wire formats of STUN
and UPnP, and LevelDB are external: they appear as bits, steps, answers and failures
of the code that calls them. Transports and discovery are configuration of libp2p. A
file write that throws in a process that lives on is left out of `KeyStore`, the
route that adds bootstrap peers out of `Configuration` (it is in `Lifecycle`), and
open connections of the metrics server out of `Lifecycle`. Reachability,
connectivity metrics, the Prometheus export, logging and the health checks observe
and decide nothing; the one report with an outcome, of a dial, is in `Failover`, and
the metrics server that keeps the process alive in `Lifecycle`. The WebSocket server
fans events out and keeps no state; its connections are in `Lifecycle`. Compression,
certificates, `validateConfig` and `savePeer` have no callers. Ports depend on the
machine. Trusted mode accepts every message. Routes other than those named under
`Lifecycle` and `MessageStore`, and the pages of the dashboard, only read.

## Plan

Done: the limiter and the ingress path first, since every message passes them;
then the breaker, reputation, blocklist, pool, tokens and queries; then the retry
loop inside the breaker, failover, the services of the node, the key files and
the process around them, the configuration and the messages; with the proofs
above.

Next, in this order:

1. `ScoredIngress`: ingress composed with `Reputation` and `Blocklist`, so that
   penalties, failing updates and bans are those of the modules instead of free
   choices.
2. The node's own start: the pipeline of the ingress set up between the services
   of `Services` and the first message.
3. The reason index of the blocklist, which concurrent bans of several peers lose
   entries of.

Proofs to add, with those modules: that the composition implements each of its
parts, so that the theorems above carry over as those of the breaker do to the
retry loops.
