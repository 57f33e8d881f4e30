# A TLA+ model of the EVOID plugins

This directory is a verification development for the EVOID plugin collection
(`src/packages/*`). It models the parts whose correctness depends on the order
of steps, on failures and on state shared between tasks; it checks them with
TLC on small instances and proves with TLAPS, for every instance, every safety
property and every action property those runs check. `PROJECT.json` lists components, runs, mutants,
the map from definitions to source lines, findings, hazards and theorems.

## 1. Inventory

All packages run in one asyncio thread per process: a step of the program is
what happens between two `await`s, and races are between tasks that are
suspended, between processes, and with the network. An operation that awaits
nothing is one action, whatever it calls.

### evoid-cluster (`packages/evoid-cluster/evoid_cluster`)

| part | state | operations | hard about it |
|---|---|---|---|
| `registry.py` ServiceRegistry | `_nodes` (id → record), `_service_map` (pattern → list of ids), `_rr_index` | `register_node`, `unregister_node`, `update_services`, `mark_node_offline/online`, `resolve`, `resolve_load_balanced`, `resolve_all`, `is_local` | two structures kept in step by incremental edits; long call sequences; a counter that outlives the list it indexes |
| `router.py` IntentRouter | `_pending` (message id → future) | `route`, `route_with_failover`, `_forward_remote`, `handle_incoming` | late, lost and unsuccessful answers, timeouts racing with answers, cancellation, sends that raise, several calls at once |
| `health.py` HealthChecker | `_last_seen`, two loops | `record_heartbeat`, `_heartbeat_loop`, `_reconnect_loop`, `_handle_node_offline` | state copied before an `await` and used after it; buffered heartbeats of a dead peer; something that must eventually happen |
| `bridge.py` ClusterBridge | `_nodes_ws` (peer → websocket), `config.services`, the server | `start`, `stop`, `_handle_connection`, `_connect_to_peer`, `_listen_peer`, `_announce_services`, `send`, `service` | nodes start and stop in any order; loops over a dict that listeners shrink; announcements that overtake connections |
| `protocol.py`, `node.py`, `admin.py` | none of their own | message and record types; admin intents that call the registry | — |

The bridge owns the other three. The router and the health checker write the
node statuses in the registry; the router sends on the websockets of
`_nodes_ws`; `_listen_peer` and `_handle_connection` deliver heartbeats to the
health checker, announcements to the registry and the rest to the router. A
pair of nodes has up to two connections, one per direction of `connect`; each
node sends its messages, answers included, only on the connection it opened.

### The other packages

| package | state and operations | hard about it, and what makes it correct |
|---|---|---|
| evoid-di `engine.py`, `rules.py` | factories, scopes, singletons, per-user cache, fallback chains, unhealthy marks; `register`, `resolve`, `resolve_async`, `inject`, `clear`, `clear_user`, `resolve_with_fallback` | cached instances outlive their factory; the bound of the cache; marks that never go away. Users' instances are never mixed |
| evoid-auth `processors.py`, `providers.py` | `_providers`; per request `ctx.state`; `authenticate`, `authorize` | the provider is awaited; a context may be authenticated again and keeps the old role when that fails. Only what the provider vouched for is granted |
| evoid-scheduler `engine.py`, `processor.py` | heap, task index, deferred deque, cached metrics; `submit`, `cancel`, `_dequeue`, `process_deferred` | items compare by priority alone; the bound of the deque; stale metrics. A task is in one place at a time |
| evoid-tasks `scheduler.py` | `_tasks`, `_running`, handlers; `run`, `task`, `on`, `emit`, `cancel`, `shutdown` | cancellation at every suspension point, entries overwritten or left behind. `on_stop` runs, everything running can be reached |
| evoid-transport `__init__.py` | clients with trackers, publish tasks under a semaphore | wrap-around of sequence numbers, repeated and late datagrams, a client looked up after an await. What is acknowledged was received |
| evoid-smart-storage `engine.py` | resolved engines; `setup`, `write`, `read`, `delete`, `health` | multi-writes that fail or interleave half way; routes to engines that were never resolved |
| evoid-sqlite, evoid-postgresql | a lazy connection or engine each | the first uses of it at once; closing it under a write; locks of a shared file |
| evoid-jitsi-maubot | plugin object, storage, 66 commands; `start`, `stop`, `on_message` | messages during start and stop; persisted rows; who may do what |
| evoid-godot `hosting.py` | builds; the routes of an app; scripts that run in the browser | a build replaced while a page loads its chunks; caches that outlive it |

They interact in three places, each of which is a composition in the model:
evoid-auth fills the context from which evoid-di injects (`AuthPipeline` over
`DIEngine`); evoid-smart-storage and the Jitsi bot both write through
`SQLiteStorage` (`SmartStorage` and `JitsiBot` over `SqliteStore`); bridges keep
their registries with the operations of the registry (`ClusterBridge` and
`ServiceRegistry` over `RegistryOps`).

## 2. Modules

| module | models | actions and operators |
|---|---|---|
| `RegistryOps` | the data structure of `registry.py` as operators on values | `Index`, `Unindex`, `AddId`, `DropId`, ... |
| `ServiceRegistry` | one registry; every call is one step | `RegisterNode`, `UnregisterNode`, `UpdateServices`, `MarkNode`, `ResolveLoadBalanced`; the read-only resolutions are operators |
| `ServiceDirectory` | abstract: what a registry promises | `Declare`, `Leave` |
| `IntentRouter` | the router of one node, its calls, links and remote nodes | `RouteWithFailover`, `Route`, `LocalReturns/Raises`, `SendCompletes/Raises`, `ResumeWithValue/Error`, `Timeout`, `Cancel`, `RemoteExecutes`, `HandleReply`; `Lose`, `LinkBreaks`, `ListenerEnds`, `HeartbeatArrives` |
| `HealthChecker` | both loops of one node with its peers, sockets, listeners | `LoopWakes`, `LoopChecks`, `HandleNodeOffline`, `CloseReturns`, `Reconnect`, `ServerReceives`, `ListenerReceives`, `ListenerEnds`, and the environment |
| `ClusterBridge` | the bridges of all nodes | start (`StartServer`, `ServerStarts`, `ServeFails` ... `Started`, `StartBreaks`), `ReceiveAnnounce`, `ConnectionLost`, `ListenerEnds`, stop (`BeginStop`, `ServerClosed` ... `StopBreaks`, `StopUnserved`), `AddService` |
| `SchedulerQueue` | the queue of `SchedulerEngine` | `Submit`, `Dequeue`, `CancelQueued`, `ProcessDeferred`, `SchedulerProcessor`; `LoadChanges`, `MetricsExpire` |
| `TaskScheduler` | lifecycles, one-shot tasks and events | `Task`, `Cancel`, `Shutdown`, `Begin`, `Returns`, `Raises`, `Quits`, `CancelArrives`, `OnStopEnds`, `Run`, `ExecOnce`, `CleanupTask`, `On`, `Emit`, `ExecEvent` |
| `DIEngine` | the calls of the dependency engine | `Register`, `Resolve`, `ResolveAsync`, `Clear`, `ClearUser`, `MarkHealthy/Unhealthy`, `ResolveWithFallback` |
| `AuthPipeline` | requests through authentication, authorization, injection, over `DIEngine` | `RegisterProvider`, `Authenticate`, `ProviderAnswers`, `Authorize`, `Inject`, `ResolveFor`, `Elsewhere`, `Configure` |
| `SqliteStore` | SQLiteStorage objects over one file | `Begin`, `Opened`, `Created`, `Executed`, `Committed`, `Raises`, `Close` |
| `SmartStorage` | the storage router with SQLite, PostgreSQL and a cache, over `SqliteStore` | `Write`, `InSqlite`, `PgCreated`, `PgInserted`, `PgRaises`, `ReadOrDelete`; `SetupRaises`, `NotMapped`; `Health`, `HealthConnects`, `HealthCreates`, `HealthProbes` |
| `JitsiCommands` | the command table and what its parsers ask for | `CommandRegistry`, `ParseArgs` |
| `JitsiBot` | the plugin and its messages, over `SqliteStore` and `JitsiCommands` | `Start`, `Starting`, `Started`, `Stop`, `Stopped`, `OnMessage`, `Published`, `Persist` |
| `GameHosting` | one hosted game and a browser that loads it | `RegisterBuild`, `CreateApp`, `Open`, `LoadStep` (with `StatChunk`, `ReadChunk`, `ChunkFromCache`), `Rebuild` |
| `UdpTransport` | the UDP server, its trackers and publish tasks | `Start`, `Stop`, `RegisterClient`, `RemoveClient`, `ReceiveIntent`, `ReceivePing`, `SendIntentToClient`, `BroadcastStateSync`, `BeginPublish`, `EndPublish`; `Send` |
| `MC*` | constants for TLC; `MCServiceRegistry` adds a history of picks | |
| `RegistryOpsProofs` | lemmas about the lists and the index of `RegistryOps` | |
| `MembershipProofs` | proofs about `MCServiceRegistry`, over `RegistryOpsProofs`, and about `HealthChecker` | |
| `ClusterBridgeProofs` | proofs about the bridges, over `RegistryOpsProofs` | |
| `IntentRouterProofs`, `AuthPipelineProofs` | proofs about the module each is named after | |
| `SchedulerProofs` | proofs about `TaskScheduler` and about `SchedulerQueue` | |
| `SqliteStoreProofs` | proofs about the two users of `SqliteStore`: `JitsiBot` and `SmartStorage` | |
| `GodotProofs` | proofs about what a game talks to: `UdpTransport` and `GameHosting` | |

A specification is called `Spec`, with `Init`, `Next` and `TypeOK`. Where a
proof module holds two, the second has a prefix: `QueueSpec`, `CheckerSpec`,
`StorageSpec`, `HostingSpec`. Such a module composes nothing: each theorem names
the one specification it is about, and its proof cites no assumption of the other.

Every module with VARIABLES states its types in a `TypeOK` (`StoreTypeOK`,
`DITypeOK`), which documents its state. Operators whose comment begins with
*Mutant* are plausible bugs. They are used by no specification; replacing a
definition by one of them must break a property.

Abstractions worth knowing:

* A node record keeps the set of services and the status; patterns are
  uninterpreted and `WildcardOf` gives the pattern `prefix:*` of a name. A
  message id is the attempt (call, node) it was generated for. Time in the
  health checker is the age of a heartbeat, capped one tick beyond the timeout.
* A dict iterator is the size of the dict when the loop began: Python raises
  at the next element, and at the end, when the size has changed.
* The heap of the scheduler is a set of ids: `heapq` orders by priority alone,
  and which of several equal items comes first is left open, as is which
  cancelled ones of the same priority are popped on the way.
* An instance of the dependency engine is its number in the order of creation.
  The per-user cache is the set of its entries: a dict keeps insertion order,
  and an entry is inserted with the instance just created, so that the entry
  evicted first is the one with the smallest number. What is registered and is
  not callable is an object, handed out as it is to everybody; it keeps its name.
  How a rule matches is the constant `RuleFor`.
* A row of the key-value tables is the coroutine that wrote it. A connection
  with an uncommitted row locks the file for all others, as SQLite does.
* A command of the Jitsi bot is three facts: is it for moderators, how many
  words it needs, and what its parser does with words it cannot convert. The
  table has all 66 of them: that only `tone` lets an exception out, and that
  whatever grants moderation asks for a moderator, are facts about the whole
  table, on which `SilentHasCause` and `GrantsByModerators` rest.
* A byte of `game.pck` is its version and offset. The browser's HTTP cache may
  answer with what `Cache-Control` lets it keep, the body of a 206 under its
  chunk's number, or not. A served chunk is read from the version on disk then,
  to the end that the `stat` of an earlier moment gave.
* Sequence numbers wrap at `Modulus` (2^32 in the code), the header carries
  `HeaderBits` bits (32). The tracker's own bitfield grows without bound; only
  the bits a header can carry are kept, since nothing else reads it.

## 3. Runs

| run | instance | shows |
|---|---|---|
| `registry` | 3 nodes, 1 name with its wildcard, no registration over a known id | `UniqueEntries`, `IndexComplete`, `IndexSound`, `ResolveComplete`, `RoundRobin`; `ImplementsDirectory` (refinement) |
| `router` | 2 calls that share a provider, local execution, all faults | `OwnAnswer`, `WaiterIsReachable`, `LeaksAreSendFailures`, `RetriedOnlyByFailover`; `CallsEnd` |
| `health` | 1 peer that connects back, timeout of 2 ticks | `TimeoutIsCurrent`, `DeadIsDetected`, `AliveIsRestored` |
| `health_reconnect` | 1 peer | that `Reconnects` does not hold |
| `bridge` | 2 mutual peers, a service added at run time | `OnlyOwnServices`, `RemoteIndexAgrees`, `SocketsAreTracked`; `KnownAnnounceIsRecorded` |
| `scheduler` | 4 tasks of 3 priorities, room for 2 deferred | `Conserved`, `LossHasEqualVictim` |
| `tasks` | 2 functions, one with hooks, 3 lifecycles, a one-shot task, a listener | `LiveIsReachable`, `DeadEntriesEndedAlone`, `OnStopUninterrupted`, `StopHookRuns`; `CancelEnds` |
| `auth` | 1 observed request among those of 2 users, a role that is too low, a required role outside the hierarchy, objects, a failing dependency with its fallback, a routed service, `max_per_user` 0 | `AuthorizedIsVouched`, `UsersNotMixed`, `CacheBound`, `UnhealthyHasCause`; `SingletonIsStable` |
| `storage` | 3 calls, of write, read, delete or health, for one data type with every kind of route | `ReplicasAgree`, `TrueMeansStored`, `EngineHasTable` |
| `transport` | 2 addresses, numbers modulo 6, 8 datagrams of one | `AcksAreReceived`, `PlayerIsSender`; `AckNeverRegresses` |
| `hosting` | 5 versions of a game, of 4, 3, 5, 1 and 0 bytes with chunks of 2, 3 loads | `WholeFile` |
| `jitsi` | 2 messages of 2 users, 2 starts, commands of each kind | `AnsweredIsKept`, `SilentHasCause`, `GrantsByModerators` |

Several properties state what the code keeps together with the exact
circumstances in which it does not: `AnsweredIsKept` excepts messages that
arrive while `start()` connects, `ReplicasAgree` overlapping writes,
`LiveIsReachable` functions that were scheduled twice. The exceptions are what
the code does, found by running the unconditional property first; the property
shows that there is no other. A hazard that a property excepts is not covered by
it, and `PROJECT.json` says so in the hazard's note.

Bounds. Three nodes give the registry lists that shrink and grow around an entry
and around the counter. Two calls and two providers are the least in which a
late answer meets a later attempt of the same call and another call's timeout.
With one peer every interleaving of heartbeats, closing and listener exists;
what a second dead peer adds is described below. Four tasks fill the deque of
two, with one dropped and one beyond; three lifecycles let a function be
scheduled twice beside another. A cache of `max_per_user` 0 holds one entry,
which the second resolution evicts; larger caches, with entries of two users at
once, are left to the theorems `UsersAreApart` and `CacheIsBounded`. Three calls
are a write, one that races its connection and one that finds the outcome. Eight
datagrams pass the wrap-around at 6; the late ones stay within half the sequence
space, as they do in the code unless 2^31 packets are in flight. `FewStamps`
cuts the sequence numbers of outgoing headers, which no property reads. The
versions of `hosting` have two, one and a half, two and a half, and half a
chunk, and the last has no `game.pck` by that name. Other counters are bounded
by the guards named in the modules (`Max...`).

Where deadlock is not checked the system may stop: calls, tasks or messages
have all ended.

Fairness. `router` assumes weak fairness of the steps of a call: asyncio runs
every ready task, `wait_for` always fires, a write to a socket completes or
raises, a local handler ends. Nothing is assumed of messages, remote nodes or
links. `health` assumes that both loops, the listeners and time go on, that a
running peer sends, and that the keepalive of the websockets library finds a
half-open socket. The pass over the dead peers runs in one turn of the event
loop, so steps it holds up are ready again after it; that is why they have
strong fairness. `bridge` assumes that starts, stops and listeners proceed and
messages on open connections arrive. `tasks` assumes that the event loop
resumes lifecycles and that the user's functions and hooks end.

### What the code does not keep

`Reconnects`, in the run `health_reconnect`: `_reconnect_loop` calls
`_connect_to_peer` without the port; the `TypeError` is swallowed and no
connection is ever replaced (`health.py:24`: "Auto-reconnect when nodes come
back online"). It is the one finding `PROJECT.json` lists.

These are behaviours of the models that no run shows, because every run but that
one states what holds. They are why properties have the exceptions they have:

* `resolve_all` is empty while `resolve` finds an online wildcard provider, when
  the exact provider is offline; `route_with_failover` then raises
  (registry.py:102).
* An announcement that reaches a node before that node has connected to the
  sender is dropped and never repeated (bridge.py:208). It takes two nodes that
  start at the same time, and nothing else.
* `cancel` of a deferred task removes an older one of the same priority, and the
  cancelled one runs (scheduler engine.py:179).
* A function scheduled twice has one entry in `_running`, and `shutdown` cancels
  its second lifecycle only (tasks scheduler.py:99).
* `authenticate` writes `user` and `role` where the dependency engine reads
  `user_id` and `user_role` (context_extractor.py:16), so that a `per_user`
  service with rules is one instance for all users.
* A write to an engine that only a level or a preference names stores nothing
  and answers True (smart storage engine.py:41).
* `IndexSound` fails when an id is registered over a known one (hence the
  constant `AllowReRegister`).
* With two dead peers, after the awaited close of one websocket the loop times
  the other out from a stale copy although its heartbeat has arrived
  (health.py:78); `TimeoutIsCurrent` speaks of what precedes the first close.
* Failover runs an intent twice when the answer to the first run was lost or
  late (router.py:71).
* Closing one websocket lets its listener shrink `_nodes_ws` under the loop of
  `stop()`, which raises with others still open (bridge.py:136); `service()`
  after `start()` enters the local record but not the index (bridge.py:318).
* `authorize` asks for nothing when the required role is not in the hierarchy.
* A lifecycle that ends by itself stays in `_running` (tasks scheduler.py:278).
* `SmartStorage.read` and `delete` pass an argument no backend takes.
  `PostgresStorage.health` sets the engine and swallows it when the table cannot
  be created; nobody creates the table after that.
* All grants of `mod` in a room share one row: the parser's key is not the one
  `_persist_meeting` reads (jitsi `__init__.py:258`). The first connect may be
  done twice at once, and a row may stay uncommitted on the connection that lost.
* With the Rust extension built, `EvoidUDPPort` has no Python server and its
  receive loop does nothing.

## 4. Proofs

For each specification one theorem says `Spec => []IInv` for an inductive
invariant `IInv` (`BalanceInv`, `HealthInv`, `QueueInv`, `StorageInv`, `HostInv`
where the module holds a second one), one lemma per action lies below it, and
the properties are consequences of it. The theorems hold for every value of the
constants that meets the named ASSUMEs of the modules, which TLC evaluates on
every run. None needs a bound to be small: `Max...` constants are only natural
numbers.

| module | about | proved, besides the types | assumed of the constants |
|---|---|---|---|
| `MembershipProofs` | `ServiceRegistry` | `UniqueEntries`, `IndexComplete`, `ResolveComplete`; without re-registration `IndexSound` and the refinement `ImplementsDirectory` | the assumptions of `ServiceRegistry` |
| | `MCServiceRegistry` | `RoundRobin` | finitely many node ids |
| | `HealthChecker` | `TimeoutIsCurrent` (action) | a positive timeout |
| `ClusterBridgeProofs` | `ClusterBridge` | `OnlyOwnServices`, `RemoteIndexAgrees`, `SocketsAreTracked` | finitely many nodes, peers among them |
| `IntentRouterProofs` | `IntentRouter` | `OwnAnswer`, `WaiterIsReachable`, `LeaksAreSendFailures`, `RetriedOnlyByFailover` | providers of a call are a list without repetition |
| `SchedulerProofs` | `TaskScheduler` | `LiveIsReachable`, `DeadEntriesEndedAlone`, `OnStopUninterrupted`, `StopHookRuns` | `Hooked` among the functions |
| | `SchedulerQueue` | `Conserved`, `LossHasEqualVictim` | priorities are natural numbers |
| `AuthPipelineProofs` | `AuthPipeline`, `DIEngine` | `AuthorizedIsVouched`, `UsersNotMixed`, `CacheBound`, `UnhealthyHasCause`; `SingletonIsStable` (action) | types of the configuration; `NoUser` and `NoRole` are distinct from users and roles |
| `SqliteStoreProofs` | `JitsiBot` | `AnsweredIsKept`, `SilentHasCause`, `GrantsByModerators` | storage objects numbered from 1; a row key for every room; some word |
| | `SmartStorage` | `ReplicasAgree`, `TrueMeansStored`, `EngineHasTable` | one SQLite object; routes name known engines |
| `GodotProofs` | `UdpTransport` | `AcksAreReceived`, `PlayerIsSender`; `AckNeverRegresses` (action) | an even modulus of at least 6, a header no wider than it, datagrams late by at most half of it |
| | `GameHosting` | `WholeFile` | at least one version; a positive chunk size |

Why the invariants are what they are:

* *Registry*: `TypeOK /\ UniqueEntries /\ IndexComplete /\ (AllowReRegister \/
  IndexSound)`. Completeness alone is not inductive: removing one position of a
  list removes a node only if the list names it once; and `unregister_node` and
  `update_services` clean up only what the current record mentions, so the
  refinement needs soundness. `RegistryOpsProofs` says once what `AddId`,
  `DropId`, `Index` and `Unindex` do to any map that is an index (`IsIndex`);
  the refinement goes step by step through `DeclareStep` and `LeaveStep`.
* *Round robin*: the counter of an intent stands at the position of the last
  pick, and the picks before it are at the positions before, counted round the
  list, as far as they are remembered (`PicksOK`). A pick reduces the counter
  modulo the list it finds, so the invariant says nothing about what a longer
  list left there; a change of the candidates forgets the picks.
* *Health checker*: while the loop sends, the age it knows of a peer is no more
  than the true one, and in a pass that has not been suspended the peers still
  to be handled are too old now (`AgeInv`). It is the second half that the first
  close breaks, for the peers behind it.
* *Bridge*: each registry of each node is an index that agrees with its records
  (`RegistriesOK`). An announcement in flight says only what its sender has
  (`SaidOK`), and a node that is still to be connected is not known yet
  (`NotYetKnown`): without it the record that `_connect_to_peer` overwrites
  could leave entries behind.
* *Router*: the loop tries providers in order and knows which attempt it is at
  (`TriedInOrder`, `AtItsAttempt`); what has happened to an attempt fits its
  future and its entry (`AttemptOK`); answers in flight belong to executed
  attempts (`MessageOK`). `ProceedKeeps` is the shared step to the next provider.
* *Task scheduler*: an entry of `_running` names a lifecycle of its own function
  (`EntryOK`), so that removing the entry of one function cannot hide another;
  a cancelled lifecycle has lost its entry for good, so that no second
  cancellation meets it in `on_stop`, and its place says whether it has begun and
  has called `on_stop` (`LifecycleOK`).
* *Queue*: `Conserved` is inductive only with the deque free of repetition and
  with its members of low priority (`Apart`, `WaitingAreLow`): a cancellation
  that removes an equal item from the deque must not take one that is also
  queued. `Count` is the balance of submissions and cancellations. `VictimsOK`
  carries the witnesses of `LossHasEqualVictim` in both directions, so that a
  cancelled task that is itself taken by a later cancellation passes its own
  victim on.
* *Storage*: while no two calls overlapped (`Sequential`), the statement of the
  only active call is the only open transaction (`Uncommitted`), what it has
  passed is stored (`WriteDone`), and the two backends agree on a key but for
  calls that wrote one of them alone or the one now between them (`Settled`,
  `Between`). An overlap ends all of that at once and for good; `EngineHasTable`
  does not depend on it and is inductive.
* *Game host*: whatever a page holds or the browser kept for a chunk's number is
  an error or that chunk of some version, cut by the size some version had,
  empty ones included (`Served`), and a page that merges has as many as the
  manifest counted. That the chunks of one version, put one after the other, are
  the file is `ChunksJoin`. No induction is needed: `FlattenFacts` compares the
  function by which `FlattenSeq` is defined with the growing prefix of the file
  at the least index where the two would differ.
* *Transport*: the tracker's wrapped number is the number of the last accepted
  datagram modulo `Modulus`, and its bits stand for datagrams received
  (`TrackerOK`); the sender is at most half the sequence space ahead
  (`WindowOK`). The arithmetic of the wrap-around is in `WindowIsExact`: within
  that window the difference of two wrapped numbers says which came first.
  `TaskOK` carries the sender of a waiting task to the lookup after the await.
* *Pipeline*: an instance is in one place of the two caches only (`CacheOK`), and
  what a request holds was made before now and, while it is cached, for that
  request's user (`RequestOK`): an instance made later has a new number, so it
  cannot be mistaken for one that was evicted. `RequestOK` also ties the role in
  the context to the one vouched for. `EvictFacts` is the step that removes the
  oldest entry, `FallbackKeeps` the loop over a fallback chain.
* *Jitsi bot*: a row that waits or is kept belongs to a command whose call has
  that key (`Owned`), and a call fits its message (`MessageOK`). While no message
  came before `start()` had ended (`InTime`), there is at most one open
  connection, that of the newest storage object, and what it has pending belongs
  to calls about to commit; that is why no file stays locked and no answered row
  waits. `RegistryFacts` goes through the table of all commands: only `tone`
  lets an exception out, and `mod` asks for a moderator.

Only model-checked are the liveness properties: `CallsEnd`, `DeadIsDetected`,
`AliveIsRestored`, `KnownAnnounceIsRecorded` and `CancelEnds`, and the refuted
`Reconnects`. They rest on fairness, and ENABLED is outside the prover. What TLC
says of them is said of the instances in section 3. No module declares a
RECURSIVE operator.

## 5. Not modelled

* Two routers with the serial connection handlers between them (an inner call
  to the peer whose intent is being executed ends by its timeout only), the
  WITHDRAW message (handled, but sent by nothing), the hook into the message
  bus, `HealthChecker.stop`, a restart of a stopped bridge.
* `start()` of a bridge with TLS material that cannot be read; functions that
  catch the CancelledError of their own task; dependency factories that call the
  engine again while they run; data that `json.dumps` refuses; replies to a chat
  that fail.
* What runs a pipeline: a processor that raises is taken to end that run, so
  that nothing is authorized after it.
* The service worker of a game. Its installation asks for `/index.js`, for which
  the app has no route (hosting.py:546), so that it ends without a worker.
* The Rust queue, metrics and UDP server: alternatives for the Python code that
  is modelled, with locks inside calls that hold the GIL throughout.
* Redis and Scylla beyond their place as backends, the read side of SQLite and
  PostgreSQL, the schema enforcer (a pure check).
* The generic maubot bridge, the topics of evoid-godot's handler, TLS
  certificate generation, the dashboards and their HTML, the texts of chat
  messages, build scripts, evoid-base (protocol classes), and the EVOID runtime
  itself, which is not in this repository.
