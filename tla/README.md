# TLA+ verification of fumemory (memu)

memu is a memory service for groups of agents ("gateways"): a FastAPI application
(`src/memu/api.py`) over PostgreSQL with pgvector, with NATS (JetStream and KV buckets)
for coordination and events, Temporal workflows, a Markdown wiki with an SQLite index, and
a set of in-process workers. This directory models the parts of it in which several actors
change shared state, checks them with TLC on small instances, and proves with TLAPS, for
instances of any size, what the locks, the tables and the services are relied on for.

Run a model with `tlc -workers 2 -config <run>.cfg <module>`, a proof with
`tlapm <component>_proofs.tla`. `PROJECT.json` lists the runs, the mutants that show that
every property can fail, the source lines behind every definition, the hazards and the
theorems.

## 1. Inventory

| Component | State | Operations | What is hard | Correct if |
|---|---|---|---|---|
| Lane locks (`lane_lock.py`) | KV buckets RESOURCE_LANES, FENCING_TOKENS; the locks each execution holds; failure counters | acquire all lanes, heartbeat, run and validate, release, orphan detection, escalation | every NATS call is a suspension point; TTL expiry; crash; a detector that deletes | a lane has one holder while leases are alive, no lock survives its execution, abandoned lanes come free |
| Mesh RPC (`lane_lock.py` 480-540) | the response subject of a gateway | call, answer, time out | no request ids; late and repeated answers | a call gets its own answer |
| Gateway boot (`boot.py`, `hardening.py` 400-) | tasks of one process, its lane, its connections | hydrate, register, run, signal handlers, drain | one cancellation per task; an `__aexit__` that suppresses it | a signalled gateway releases its lanes and ends |
| Gateway topic leases (`api.py` 2836-2979) | table `gateway_topic_leases` | acquire, renew, release, release on shutdown | handlers wait between reading the clock and writing; lost answers; first insert unprotected by the row lock | no two gateways act as owners of one topic |
| Neighborhood lock (`neighborhood_lock.py`) | SQLite tables or sidecar files for leases and fencing counters; the records of each context | enter, renew loop, exit, rollback; registry calls | late wake-ups, cancellation, several processes on one vault | the registry keeps its contract, stale holders are fenced, a failed acquisition or release leaks nothing but the row its own release failed on |
| Reflection review queue (`api.py` 1993-2408, `boot.py`) | tables `reflection_proposals`, `reflection_actions`, `memories` | create, approve, deny, edit, inspect, process timeouts | every statement commits alone; handlers overlap; failures half-way | proposal, memory and log agree; windows are respected; everything is decided |
| Canonical memory write (`api.py` 656-778, 964-1222, 1313, 2521, 4131) | tables `memories`, `memory_links` | create (evidence and learning), bulk import, delete, dedupe | idempotency keys, dedup by reading first, supersession after the insert | replays are harmless, duplicates merge, supersession sticks |
| Recall and search (`api.py`, `concept_search.py`) | the same tables, a pager's cursor | search, learning recall, temporal and forensic recall, supersede | filters and fusion over several channels; stamps older than their commits | superseded memories are not shown, pages neither skip nor repeat, the past is stable |
| Task registry (`api.py` 2560-2830, four scripts) | table `backlog` | create, complete, review, scan, refine | each script writes back what it read | one row per source; a task the endpoint approved is done until a later decision or a PATCH of its status; retries are counted |
| Task projection (`projection.py`, `hardening.py`) | events, tasks table, a connection pool | replay, materialise, lock, archive | nested use of one pool; two projections | rows never go back, calls end, only finished tasks are archived |
| Bridge and ledger (`ws_bridge.py`, `bridge_ledger.py`) | clients, incremental DAG | process event, broadcast, connect, halt | clients come and go during a send; early children; events that are lost or come out of the order of their timestamps | the ledger is what a replay gives |
| NATS cluster manager (`cluster.py`) | two connections, active node, recorded health | connect, callbacks, fail over, monitor, close | callbacks lag behind the link; health is stale | traffic goes to a live node, and back to the local one |
| Event pipeline (`nats_publisher.py`, `projector.py`, `task_orchestrator.py`) | stream, positions, buffers, summaries | publish, fetch, project, acknowledge, summarise | redelivery, swallowed errors, malformed events | nothing acknowledged is lost, the stream drains |
| Warden (`warden.py`, `warden_runtime.py`) | liveness table, containers, cooldowns | heartbeat, watchdog, respawn | heartbeat during expiry; limits; restart | only silent gateways are handled, one replacement each, the dead are forgotten |
| Parallel worker router (`parallel_worker_router.py`) | workers, a batch, results and errors | register, dispatch (three modes), result, retry, complete | stale counts, late results, lost messages, publications that raise, no free worker | a batch completes once, with all of its results; a worker gets what it can take |
| Core memory and pager (`core_memory.py`, `archival_pager.py`) | blocks in a KV bucket, the archive | update, append, replace, evict, restore, delete | conflicts, failing inserts | nothing leaves a block unnoticed |
| Implicit profiler (`implicit_profiler.py`) | buffers per agent, timers, a profile block | on message, flush, extract, write | a message cancels the flush under way | no message is lost unnoticed, a quiet chat is flushed |
| Temporal workflows (`temporal_worker/`) | `memories`, the history of an external engine | ingestion, dream consolidation, erasure | activities run again after they took effect | an effect happens once; no knowledge is hidden without its rule |
| Memory agent (`memory_agent.py`) | compaction nodes, run records | compact, index, distil | the test for a run and its record are two statements | a memory is compacted once |
| Storage and wiki sync (`storage/sqlite_backend.py`, `wiki/`, `mcp/tools.py`) | nodes, slugs, links; the watcher's snapshot and debounce | put, delete, register slug, poll, dispatch | files change while they are read, or cannot be read; two transactions per put, either of which may raise | the index agrees with the vault |
| Code ingest (`ingest/`) | nodes with the hash of their file | parse, resolve, put | links depend on other files than the hash does | nodes and links are those of the tree |
| Task board (`notion_bridge.py`, `notion_poller.py`, `nats_worker.py`) | pages of an external board | poll, claim, note, finish | lists and pages are stale when written; an event comes once at most; requests are sent again | a page is claimed once and keeps its notes; what is remembered is on the board |
| API client (`memu_hardening.py`) | failure counter, circuit breaker | request with retries | concurrent requests share the breaker | an open breaker keeps requests away |
| Cognitive workers, federation, tenancy, bundles, RLM, MCP server, CLI, sandbox, adapters | little of their own | - | - | - |

How they interact: the API handlers, the boot-time timeout handler and the background
writers share the PostgreSQL tables and nothing else (every pooled connection is in
autocommit, `tenancy.py` 87-120, so the statement is the unit of atomicity unless a handler
opens a transaction). Executions, heartbeats and orphan detectors share the KV buckets.
Lane locks and gateway leases meet in the shutdown hook `release_all_my_leases`, which
deletes rows of the lease table directly; lane locks and boot meet in the cancellation that
a signal sends through `__aexit__`. The wiki sync uses the neighborhood lock through the
protocol `LockRegistry`. The archival pager, the profiler and the workflows insert into
`memories` or the core memory bucket without going through `create_memory`. Events of tasks
are projected twice: by `projection.py` from the table, in the order of the publishers'
timestamps, and by the bridge event by event, in the order of arrival over core NATS, which
may lose some. The replay takes a granted lease to be for the gateway that published it
(`projection.py` 90-92), the ledger for the one the payload names (`bridge_ledger.py` 112-114).
`TaskEvents` has both, `SwarmBridge` compares them.

## 2. Modules

| Module | Models | State and actions |
|---|---|---|
| `LaneLock` | `lane_lock.py`, the retry loop of `boot.py` | One action per awaited NATS call: `AcquireRead`, `AcquireReclaim`, `AcquireFence`, `AcquireCreate`, `AcquirePut` for a lane, then the next one; `Wake`, `RenewRead`, `RenewPut` for the heartbeat; `AgentReturns`/`AgentRaises`, `Validate`, `Complete`; `ReleaseRead`, `ReleaseDelete`; `DetectStale`, `DetectDelete`; `KVExpire` for the bucket's TTL. A failing NATS call is a disjunct of the action. |
| `MeshRPC` | `request_rpc` | A call subscribes, publishes, takes the first message or times out; answers are duplicated and late. |
| `GatewayBoot` | `main` of `boot.py`, the signal handlers | The stages of `main` and the points at which a cancellation is delivered; handlers, drain, `sys.exit` and what `asyncio.run` then does. |
| `GatewayLease` | the lease endpoints and `release_all_my_leases` | `Arrive` reads the clock, `AcquireSelect`, `AcquireInsert`, `Renew`, `Release` are the SQL, `Deliver`/`Lose` the fate of the answer. The gateway itself is outside the repository: it acts as the owner until the expiry of its last answer (`belief`). |
| `LeaseRegistry` | the protocol `LockRegistry` | The abstract specification: a free slug is granted under a higher token, a live lease is extended or dropped, never given away. |
| `NeighborhoodLock` | `SqliteLockRegistry`, `NeighborhoodLock` | A registry call has no suspension point and is one step. `AcquireNext`, `Rollback`, `RenewWake`, `RenewNext`, `RenewLost`, `Leave`, `ReleaseNext` (a release that raises is logged and the row stays), `ReleaseCut` (cancelled), `Crash`. |
| `MarkdownLocks` | `MarkdownLockRegistry` | One action per file operation, over a file system in which an open file follows its name when others rename or unlink it. The `asyncio.Lock` keeps the tasks of one process apart (`CallFree`). |
| `ReflectionQueue` | the queue's endpoints | `TakeAction` and `ProcessTimeouts` read, `WriteMemory`, `Invalidate`, `UpdateProposal`, `LogAction` each are one committed statement; `Fail` and `Die` between any two. |
| `MemoryStore` | the writers of `memories` | `CheckKey`, `Dedup`, `Merge`, `Insert`, `Supersede`, `Link` for `create_memory`; `BulkImport`/`BulkDedup`; `ArchivePage`; `DeleteMemory`; `Dedupe`, `DedupePick`, `Relink`, `DedupeDrop`; `FailRequest`. |
| `Recall` | the readers of `memories`, `supersede_entity` | Rows with the stamp of their statement and a later commit. The searches are operators on the table (channels, filters, expansion, reciprocal rank fusion), evaluated in every state; the forensic pager is an actor with a cursor. A sorted list is defined by its order (`Ordered`: the i-th is the one that i - 1 others precede), a LIMIT by `Take`. |
| `TaskRegistry` | `/tasks` endpoints, scanner, refiner, reviewer, project manager | One action per statement; a script keeps the rows it fetched. `UpdateTask` is the PATCH, which may set any status and review status of any row: the run lets an agent take a task on or report a review (`Patches`), the theorem any PATCH. |
| `TaskEvents` | the two projections | `Stored` puts an event where its timestamp belongs. `Replay` replays the table (`ReplayEvent`) and `Project` links the children after it; `ProcessTaskEvent` applies one event to the ledger (`LedgerEvent`). The two operators differ in whom a granted lease is for. |
| `TaskProjection` | `materialize_tasks`, `project_with_lock`, `archive_old_events` | Projectors step through connection, lock, read, write and release over a pool of a given size. |
| `SwarmBridge` | `ws_bridge.py`, `bridge_ledger.py` | `PublishEvent` stores an event in the table, at any place, and delivers it to the bridge or not; `log` has those that came. The queue, the ledger, a broadcast that awaits each send, clients, restart and halt. |
| `Cluster` | `cluster.py` | Links change and queue callbacks; the callbacks, the accessors and each await of the monitor are actions. |
| `EventPipeline` | publisher, projector, orchestrator | A stream with redelivery; a POST that succeeds, fails or whose answer is lost; summaries. |
| `Warden` | `warden_runtime.py` | `Scan`, `HandleExpired`, `SendSuicide`, `RequestRespawn`, `FinishExpired` for the watchdog, the receiver of requests, containers, failing listings, restart. |
| `ParallelRouter` | `parallel_worker_router.py` | The pool with announcements on their way, one batch in one of three modes, the subscriptions, publications that raise, subtasks lost with their answers, the retry that sleeps, the callback that is awaited. |
| `TaskBoard` | `notion_bridge.py`, `notion_poller.py`, `nats_worker.py` | Requests to an external board; a page is one record that a PATCH overwrites. A request that had its effect may be sent again for want of an answer. An event reaches one worker once or is lost (`LoseMessage`); one whose handling fails is lost too (`RequestFails`), because the subscription is one of core NATS. |
| `CoreMemory` | `core_memory.py`, `archival_pager.py` | Read, compare-and-set and retry of each kind of call; eviction and restore paragraph by paragraph. |
| `Profiler` | `implicit_profiler.py` | Buffer, timer, extraction and write per pod; cancellation by a later message. |
| `Workflows` | `temporal_worker/` | Activities that run at least once; ingestion, dreams, erasure. |
| `MemoryAgent` | `memory_agent.py` | Runs: check, record, select, cluster, store, mark, distil. |
| `Vault` | `sqlite_backend.py`, `wiki/sync.py`, `slug_registry.py`, `mcp/tools.py` | Files with modification times, the polling watcher, `put_node` as two transactions, other processes. A file may be unreadable (`ReadFile`), either transaction may raise (`SyncTextRaises`, `PutLinksRaises`): the watcher logs it and its snapshot advances, `start()` passes it on. |
| `Codebase` | `ingest/codebase.py`, `ingest/resolve.py` | Edits, runs node by node, crashes; the resolver is an operator on the files that were parsed. |
| `ApiClient` | `memu_hardening.py` | Attempts and sleeps of concurrent requests, the counter and the breaker. |
| `ReflectionQueue_proofs` | - | Inductive invariant, lemmas and theorems of the component. |
| `MemoryAgent_proofs` | - | The same for `MemoryAgent`, `SwarmBridge` and `Codebase`: the components whose proofs need induction over a sequence. |
| `MemoryStore_proofs` | - | The same for `MemoryStore`, `TaskRegistry` and `Recall`. |
| `Warden_proofs` | - | The same for `Warden`, `GatewayLease`, `ApiClient` and `TaskBoard`. |
| `NeighborhoodLock_proofs` | - | The same for `NeighborhoodLock` and `MarkdownLocks`, with their refinements of `LeaseRegistry`. |
| `LaneLock_proofs` | - | The same for `LaneLock` and `MeshRPC`, the two halves of `lane_lock.py`. |
| `CoreMemory_proofs` | - | The same for `CoreMemory`, `Workflows` and `Vault`. |
| `Cluster_proofs` | - | The same for `Cluster`, `EventPipeline` and `ParallelRouter`. |

The modules named `MC...` fix the constants. Six of them put small instances side by side:
`MCLaneLock`, `MCLocks`, `MCTables`, `MCSwarm`, `MCMemory` and `MCProgress` have a variable `part`, chosen
in the initial state and never changed, that says which instance a behaviour is of; the
variables of the others keep their initial values. The state space is the sum of those of
the instances, not their product, and nothing is claimed about a combination of parts.
An `MC` module extends the modules about which something is proved and instantiates the
others, so that TLC checks the very definitions the theorems are about. For that the
definitions of two modules extended together have different names (`StoreNext`,
`ClusterNext`, `WardenNext`, `FilesNext`, ...).

Both registries are shown to implement `LeaseRegistry` (checked as `RegistriesKeepContract`,
proved as `RegistryKeepsContract` and `FilesKeepContract`); the
refinement mapping of `NeighborhoodLock` is the identity on the tables, that of
`MarkdownLocks` reads a torn or absent lease file as no lease and takes the token of the last
grant for the fence (a failed attempt may move the counter file without granting anything).

Data is abstracted to what the code compares: a lock payload to its owner, token and age; a
memory to kind, content, hash, key, whether it has an embedding and when it was valid; a
payload hash to the content; similarity and scores to given orders; what a language model
answers to a choice. Times are small integers. In `GatewayLease` the tick is half a second,
because `replace(microsecond=0)` rounds the clock down before the TTL is added.

Many properties have the form "X unless Y", where Y is recorded by a history variable
(`excuse`, `doubtful`, `crossed`, `misfiled`, ...) at the step where the code gives X up: the
properties say that the code loses the guarantee in these ways and in no other.

Definitions whose comment begins with "Mutant:" are plausible slips in the code; none of
them is used by a specification. They are kept so that every property can be seen to fail.

## 3. Runs

| Run | Parts | Shows |
|---|---|---|
| `LaneLock_shared` | one lane, one retried execution, a peer and a detector; two executions whose tasks overlap in a lane, with the same lanes and executions, so that the fairness of `Tick` and `KVExpire` is meant in both parts | `ExclusiveUntilLapse`: while no lease has lapsed, what an execution holds is locked in its name under the current token; `NoEscalationOnFirstFailure`; `NoZombieRenewal`: no heartbeat brings a lock back after its execution left (these three proved in general); `AbandonedLaneFreed`: the lanes of a crashed or refused execution become free, the first lane of one that was refused its second included. |
| `Locks` | two contexts on the SQLite registry, the Markdown registry in one process and in two | `HeldOrFenced`, `NoLeak`, `ExclusiveUntilExpiry`, `RegistriesKeepContract` (the refinements): all proved in general. |
| `Tables` | review queue, canonical writes, recall (supersession, searches, pages) | `OneLiveMemory`, `AcceptedHasMemory`, `WindowRespected`; `StoreSafe` = replays are harmless, duplicates merge unless raced, an answered write supersedes; `RecallSafe` = the past is stable but for late commits, pages are complete and without repeats, no answer shows a memory beside its successor, room is used, fusion agrees with its channels, supersession has no cycle, linked memories are retired. All five are proved in general. |
| `Swarm` | cluster, Warden, router, pipeline, bridge, board, topic leases, mesh RPC, API client | For the leases `Exclusive`, `BeliefCovered`, `RenewExtends`; for each of the others one conjunction of its invariants: `ClusterSafe`, `WardenSafe`, `PipelineSafe`, `RPCSafe`, `BoardSafe`, `ClientSafe`, `RouterSafe`, `BridgeSafe` (all proved in general, with those of the leases). |
| `Memory` | core memory, workflows, memory agent, vault, scans and reviews of the task registry, code ingest | `CoreSafe` (nothing leaves a block unnoticed), `AppendsKeepTheRest`, `WorkflowSafe`, `AgentSafe`, `RegistrySafe`, `VaultSafe`, `CodebaseSafe`: all proved in general. |
| `Progress` | cluster, Warden, router, pipeline, projection, profiler, review queue, boot, under fairness | `LocalPreferred`, `DeadForgotten`, `Settles`, `StreamDrains`, `ProjectionFinishes`, `EventuallyDecided`, `GatewayEnds`; `ProjectionSafe` and `ChatProfiled` also have the safety of the projection and the profiler. |
| `LaneLock_v_splitbrain` | - | `SplitBrainPrevented` is violated. |
| `ReflectionQueue_v_deny` | - | `DeniedWithoutMemory` is violated. |
| `MemoryStore_v_dedupe` | - | `DedupeKeepsContent` is violated. |
| `Memory_v_rules` | - | `EveryRuleStored` is violated. |
| `Recall_v_accepted` | - | `AcceptedRecalled` is violated. |
| `GatewayBoot_v_exit` | - | `SignalEnds` is violated. |

A name that ends in `Safe` is the conjunction of a component's invariants; each of them is
stated and explained in the component's module.

### Bounds

- Two executions, contexts, gateways, tasks, requests, pods, projectors, pollers or handlers
  at a time: every hazard listed is a race of two actors, the third party being time (TTL) or
  a crash, both of which are actions of their own. Where a third one adds a case it is there:
  three mesh calls (two of one gateway, one of another), three client requests (the failures
  that open the breaker are of two, the third finds it open), three subtasks for workers of
  capacity one and two.
- TTLs are one or two ticks. Ages and clocks are compared with the TTL only, so a TTL of one
  already has the instants before, at and after expiry. `LaneLock` keeps saturating ages
  instead of a clock and has no time bound; the others stop at `MaxTime`, `MaxInstant` or `MaxClock`, one to
  five ticks, which lets a lease expire, be taken over and expire again, or a gateway die,
  be replaced and die again.
- `MaxRuns`, `MaxEnter`, `MaxCalls`, `MaxSent`, `MaxRequests`, `MaxActions`, `MaxTasks`,
  `MaxReviews`, `MaxEdits`, `MaxLog`, `MaxSignals` bound how often the actors start something.
  `MaxRequests = 3` is enough for an original, its duplicate and a supersession or a dedupe
  of the two; `MaxActions = 2` for two overlapping decisions;
  `MaxLog = 3` for a task
  drafted, leased and claimed (or rejected, or halted), in any order of the timestamps, or two events of one task and one of
  its child; `MaxSent = 3` for an acquisition, a takeover and a renewal of the stale owner (the lease
  properties are proved for any number); `MaxSignals = 2` because a third
  signal finds the process ended. `MaxRuns` of the Warden bounds the containers of one gateway:
  two, so that a second one would be seen. `MaxFaults`, `MaxVaultFaults`, `MaxBoardFaults`, `MaxLost`, `MaxFailed`,
  `MaxOutages`, `MaxRestarts`, `MaxCrashes` are one
  to three: a handler that fails twice has left the same statements behind as one that fails
  once; the two faults of the vault let a call break off and the file be missed, the two of the
  board an answer be lost and the request sent again fail; three outages let each of the two nodes fail and the first fail again.
- `MaxContainers = 1` with two gateways puts the Warden at its limit; `PoolSizes = {2, 3}` with
  two projectors has a pool with no connection to spare and one with; `Limit = 3`,
  `Threshold = 1` let a block overflow; `MaxBuffer = 1` lets a chat buffer be trimmed;
  `PageLimit = 1` makes every row a page boundary.
- The review queue of `Tables` has two handlers and one window (`MaxTime = 1`), so both
  proposals close together; in `Progress` it has two windows and one worker.
- Some bounds of the `MC` modules are joint ones: the router reports `MaxErrors` errors or takes
  `MaxChurn` announcements and removals, but not both to the full; what fails in the vault and
  what agents do there are at most `MaxVaultFaults` together. The bridge has two parts: `bridge` has
  no clients and every event at every place of the table, `broadcast` has clients, with drafts and
  claims in order; what a client does changes no projection but by the events that are lost.
- `Recall` is one instance of three memories whose `Nearness` and `Score` are fixed orders that
  disagree, so the limit, the expansion and the fusion all have something to decide; its three
  requests have room for one, two and all of them. Three parts of `MCTables` restrict its
  steps: two memories and two requests that would have one supersede the other
  (`SupersedingStep`), three memories with and without embeddings at one time
  (`SearchingStep`), three records of evidence, stamped in any order, each in place of one
  at most (`PagingStep`). Three instants let a row be stamped, superseded and asked for later.
- The runs that say `CHECK_DEADLOCK FALSE` are those in which bounded callers really stop.
- Symmetry is used in runs without a temporal property of liveness, over actors with equal
  constants.

### Fairness

| Module | Fair | Because |
|---|---|---|
| `LaneLock` | clock, `KVExpire` | NATS removes entries at the TTL that `ensure_kv_buckets` sets. Nothing is assumed of executions, heartbeats or detectors. |
| `ReflectionQueue` | clock, a handler in progress, `ProcessTimeouts` (strong for several workers, weak for the one worker of `Progress`) | every await returns or raises; the endpoint is meant to "run on schedule" (`docs/OPENCLAW_INTEGRATION.md`). |
| `Cluster` | the monitor | a task of a running loop that sleeps and continues; every exception is caught. |
| `Warden` | clock, watchdog | as above. |
| `ParallelRouter` | the router's own tasks, and that a subtask leaves its worker | handlers run on one loop; a subtask is answered or lost in the end. Core NATS delivers at most once, so losing it is one of the ways to leave, and `Settles` excuses it: the code has no timeout and no second dispatch. |
| `EventPipeline` | a lost connection returns, `ProcessEvent`, strong for the delivery of each unacknowledged event | the client tries to reconnect for two minutes and longer outages are left out; JetStream redelivers what is not acknowledged. |
| `TaskProjection` | strong for each step of a projection begun | a waiter for a connection or an advisory lock gets its turn when these are free again and again (waiters are served in the order they came). |
| `Profiler` | timers, extraction and write of each pod | `asyncio.sleep` returns, the model's call has a timeout. |
| `GatewayBoot` | `main`, the drain, each handler | callbacks of a running loop. |

In `MCProgress` each condition is conjoined with its part.

### Assumptions of the models

- `Patient` (`GatewayLease`): a gateway awaits the answer, or its loss, before it sends another
  request about the same lease. With two renewals in flight the slower handler writes the
  older expiry and the properties fail.
- A gateway restarts after its old requests are through, and its clock agrees with the
  API's.
- `MemoryStore`: no two texts of the instance have one `content_hash` (such texts differ in
  case or outer blanks only, and their embeddings may fall below the threshold); one tenant.
- `Recall`: the pool of `api.py` sets no codec for jsonb, so metadata is text to the code;
  `decodes` also covers a driver that converts it.
- `NeighborhoodLock`: all contexts live in one process, as its `asyncio.Lock` requires.
- `TaskBoard`, `MeshRPC`, the KV buckets, the stream, Temporal and docker are external and
  modelled from how the code uses them.
- `Vault`: every file has slugs of its own; `Codebase` has the case of two files with one.
- The replay and the ledger charge one unit of compute per event.

## 4. Where code and comments disagree

Six disagreements are kept as runs; PROJECT.json quotes the lines.

- `LaneLock_v_splitbrain`: two executions pass the fencing validation of one lane.
- `ReflectionQueue_v_deny`: a denied proposal whose memory was written and stays valid.
- `MemoryStore_v_dedupe`: dedupe deletes distinct memories that have no content hash.
- `Memory_v_rules`: all rules of one dream have one idempotency key, so one is stored.
- `Recall_v_accepted`: an accepted proposal has no embedding and is not recalled.
- `GatewayBoot_v_exit`: `__aexit__` returns True for a `CancelledError` too; the one cancellation
  `asyncio.run` sends after `sys.exit` is swallowed and the gateway retries for ever with its
  lane locked. `GatewayEnds` shows what does hold: a gateway without a task ends, and so does
  any gateway on a second signal.

Others were met while modelling. Those that a model contains are the "unless" of its
properties; the rest is only described here.

- Lane locks: `lane_lock.py` 226 puts the fencing token after the create, unconditionally, so
  the "monotonically increasing" counter can go back; 277 and 578 delete a key without a
  revision; 139 and 406 count one failing run twice. Nothing writes the checkpoints table.
- Boot: the Warden's suicide advisory is `b"{}"` (`warden_runtime.py` 188), and the handler in
  `boot.py` 219-237 ignores an advisory that does not name it, so a replaced gateway that is
  alive goes on. Heartbeat and listener keep the connection captured at the start. The
  release of topic leases at shutdown never runs there, the API's pool being None.
- Warden: the cap on containers is per life of the process and entries are not removed; fencing
  tokens are not revoked before a spawn.
- Leases: releasing deletes the row, so versions restart at 1 (`api.py` 2969).
- Neighborhood locks: two processes that find one expired lease file can both acquire it (294);
  a crash between creating and writing the file blocks the slug (305); the counter file can go
  back (415); an attempt that loses the race bumps the fence and the holder's release is
  refused (296, 360); only the neighbors, not the root, are taken in sorted order (490).
- Review queue: the timeout handler works on rows it read at the start (2381); the proposal
  changes before the action is recorded (2222).
- Memory writes: the similarity of a row without an embedding is NULL and makes the comparison
  with the threshold raise (1057); a retry after a failed supersession is answered as a replay
  (1100); dedupe also removes evidence of equal content (4131).
- Recall: a search fetches at most 400 candidates whatever its limit (`_expansion_schedule`), so
  one of more than 200 does not look at twice its limit; `supersede_entity` passes a dict where the driver expects text and is refused; with a
  converting driver two such calls can retire each other's memory. Learning rows of
  `POST /memories` have no review_status and learning recall passes them over. The full-text
  and concept channels and the recent list do not filter `valid_to`. The expansion schedule
  never finds more rows. The `updated_at` trigger makes text searches order by last access.
- Router: sequential mode never returns with a plain callback; the semaphore limits publishes
  only; a late or lost answer, or a publication that raises, leaks a worker's slot; a worker's
  announced count replaces the router's, so that what was dispatched while it was under way is
  forgotten and the worker overloaded.
- Projection: `projection.py` 9 says the tasks table can be rebuilt, but the replay joins it;
  `revoke_expired_leases` returns a NULL into a NOT NULL column; budgets forget archived costs;
  `project_with_lock` deadlocks when the pool has no connection to spare.
- Core memory: a full update retried after a conflict overwrites the peer's; the pager can bring
  purged paragraphs back after `delete_agent`.
- Workflows: erasure activities swallow errors, so they are not "independently retried"
  (`workflows.py` 197); a dream may store rules after the erasure; the state pulse overwrites
  busy with online.
- Vault: `sqlite_backend.py` 209 says "Replace outbound links atomically", but `register_slug` has
  committed before; an edit between the reindex of start and its snapshot, or within the
  granularity of mtime, is not indexed; a file whose indexing raised (`wiki/sync.py` 386-390) or
  that could not be read (101-104) stays stale until its next edit, because the snapshot has moved
  on (357); a rename leaves the old slug as an alias.
- Code ingest: `codebase.py` 8 ("re-running against an unchanged tree produces zero writes") fails
  for two files with one slug; links of unchanged files go stale when other files change; a
  module's first alias wins where Python's last does.
- Task registry: the refiner reopens tasks the completion reviewer closed; the project manager's
  status 'delegated' violates `backlog_status_check`; `publish_task_created` does not exist.
- Task board: `nats_worker.py` 143-172 acknowledges, counts deliveries and moves an event to a dead
  letter subject after the last, but 183-185 subscribes over core NATS: nothing is delivered
  again, and an event whose handling fails is gone. (Whether a core message passes the test
  for `metadata` depends on the client library; if the test raised, no event would be handled, which
  `LoseMessage` allows for any of them.) A claim overwrites any status.
- Bridge: the ledger and the replay differ on the holder of a lease granted by another gateway,
  on a halt, and on events that come out of the order of their timestamps.
- API client: a late success closes a breaker others opened; sleeping retries pass through it.

## 5. Proofs

Every theorem holds for any sets of actors and data and for any value of the bounds; what it
assumes beyond the named ASSUMEs of the module is in its statement. Each proof has an
inductive invariant (`IInv`, or the name given below), one lemma per action or group of
actions, and a last step that combines them. TLC checked each invariant on the instance of
its run before it was proved.

**Neighborhood lock** (`NeighborhoodLock_proofs`): `TypeCorrect`, `StaleWritersFenced`
(`HeldOrFenced`), `LeasesReturned` (`NoLeak`), `RegistryKeepsContract` (the SQLite registry
implements `LeaseRegistry`). `Shape` ties the program counter to the records and the loop
positions; `TokensIssued` and `RowsCurrent` say that a record's token was handed out and a
row's is the latest, so a record that is not the row's is older than the fence; `OneOwner`
gives a token to one context though contexts may share a holder; `Accounted` names, for
every row whose own release has not failed (history `leaked`), the context that will still
release it, which is what `NoLeak` needs. For the refinement, `RowsCurrent` bounds the expiry of a row by
what an extension now would give it, so that a renewal is an `Extend` and never shortens.

**Markdown registry** (same module): `FilesExclusive` (`ExclusiveUntilExpiry`) for tasks of any
processes, with `FileTTL \in Nat`. A claim is a record or a created file that is still to be
written; `OneClaim` says there is at most one, and that the lease file then exists, as long as
nothing expired. `ExpiryNoted` and `Steps` show that a task unlinks only what has expired.
`FilesKeepContract`: the files implement `LeaseRegistry` if all tasks are of one process
(`OneProcess`, which is necessary: section 4). A call is up to eight file operations, so
`ContractInv` says for each point of a call what the files and the locals agree on
(`Underway`), that one call runs at a time (`Alone`), that the counter is never behind the
last grant (`FenceKept`), and how long a lease lasts at most (`LeaseBound`); only the write of
the lease, the replacement at a renewal, the unlinks and the clock are steps of the
specification, all others stutter.

**Lane locks** (`LaneLock_proofs`): `TypeCorrect`, `LanesExclusive` (`ExclusiveUntilLapse`),
`FirstFailureRetried` (`NoEscalationOnFirstFailure`, with `MaxFailures >= 3`, the code's value),
`NoLockComesBack` (the action property `NoZombieRenewal`). `LapseKnown` says that whoever is
about to delete a lock by age has seen one lapse; `Locked` that, before any lapse, an
execution holds each lane it has taken and not yet released, has taken it once, and is alone
on the lane between its create and its put of the token; `Counted` that a failing run is
counted at most twice.

**Mesh RPC** (same module): `RPCAnswersExplained` (`RPCSafe`). `Met` - subscribed calls of one
gateway know of each other; `MailExplained` - the messages that wait for a call are its own, or
of a call it met, or late; `AnswerWaits` - an answer cannot come before its call listens, so
a call that times out had none.

**Review queue** (`ReflectionQueue_proofs`): `TypeCorrect`, `AcceptedNamesItsMemory`
(`AcceptedHasMemory`), `WindowKept` (`WindowRespected`), `UndisturbedTablesAgree`
(`OneLiveMemory`). `Reads`, `Supersedes` and `Written` say what a handler between two statements
knows of the rows it read or wrote, whatever others did since; `Rooted` that memory ids are of
the proposal's own memories. `OneLiveMemory` is about proposals whose handlers neither
overlapped nor failed; for them `Undisturbed` says what the tables look like at each point of
the one handler that works on them (`Progress`), which is not true of any other proposal.

**Canonical writes** (`MemoryStore_proofs`): `StoreKept` (`StoreSafe`), if NULL is no hash.
`ForeignKeys` and `KeyUnique` are the constraints of the schema, `AcksNamed` ties answers to
rows through deletions, and `Request` says what a write under way may still rely on: nothing
once it was overtaken, otherwise that the content it is about to insert is still unknown and
that what it has superseded stays invalid.

**Task registry** (same module): `RegistryKept` (`RegistrySafe`), with `Sources`: a scanner between two
sources has none. `LookedUp` - a source some scanner has found absent has a scanned row only
if another scanner is on record as having raced it; `ReviewKnown` - the count a review has
read is never ahead of the reworks of its row; `ApprovedRefined` - an approval also settles
`refine_status`, which keeps the refiner from fetching the task again, unless it had fetched it
before or a PATCH has set the status of the task since.

**Recall** (same module): `RecallKept` (`RecallSafe`), from `RecallAssumption`: there are finitely many
memories, a page has room for one, no two memories have one rank in an order. TLC evaluates it.
`RecallInv` has `TimeTravel` and what it rests on. `Stamped` - a row is superseded after it was
written, by a stamp that is not ahead of the clock, so a commit changes no past but the one it
is stamped in. `RetiredRows` - what is linked as superseded, or was superseded by a statement
that has run, is not valid and never will be again; so an answer, which has valid rows only,
can hold a memory beside its successor only before the statement. `Acyclic` - the links, and
those still to be entered, have a root in every set of memories: a link is entered from a
memory that was valid a moment ago, hence not linked to (`RootedMore`), unless that moment has
passed, which `crossed` records. `Paged` - what was given is not behind the cursor, what was
there at the first page was given or lies behind it; deletions and late stamps in between
included.
The lists are reasoned about by counting: in a strict order of a finite set every position has
one member (`OrderedLists`), so a LIMIT leaves out only what that many others precede
(`TakeLeads`), from which `FoundIfRoom` follows for any limit. Its bound, twice the limit but
at most 400, is that of the code's schedule (`ScheduleSteps`). For `FusionAgrees` the weights
1/(60 + rank) are whole multiples of one over their common denominator
(`DenominatorMultiple`, by induction over the ranks), they fall with the rank (`WeightFalls`), so a
memory that every channel has before another one scores more (`ScoresFall`) and is fused
before it (`FusionRespects`). The code adds floating-point numbers, the model rationals; two
ranks of one channel are too far apart for the rounding to matter.

**Core memory** (`CoreMemory_proofs`): `NothingLostSilently` (`CoreSafe`), `AppendsKept` (the action
property `AppendsKeepTheRest`), with `Sizes`: the retry limit and the batch are positive, the
token limits natural. The compare-and-set makes `Current` inductive: a call that has met no
conflict since it read the block will write what it made of the revision it expects, so
whatever it drops is what it knew. `Evicting` keeps account of paragraphs that are neither in
the block nor yet in the archive. Facts about `Range` of concatenations, tails and slices are
lemmas of their own.

**Workflows** (same module): `WorkflowsKept` (`WorkflowSafe`). `Prepared` - a dream that is about to
hide its episodes has stored a rule for them, or the erasure has taken them; `RunOnce` - a
request without a key has a second row only if its activity ran twice.

**Vault** (`CoreMemory_proofs`): `VaultKept` (`VaultSafe`), with `Naming`, which TLC evaluates too:
what stands for the absence of a node or file is none of them. `RegistrySound`, `PutKnown` and
`NodesOwned` tie slugs, nodes and calls under way together: a slug leads to a node that has it
or to one whose second transaction is to come. `LinksOfBody` accounts for links that are
neither of the body nor of `put_link` by the call that broke off or overlapped. `DaemonHolds`,
`Times` and `UpToDate` say what the watcher knows of the files it has read and not yet indexed,
by their modification times; `Forgotten` what it will not look at again.

**Cluster manager** (`Cluster_proofs`): `TrafficFollowsTheLinks` (`ClusterSafe`). The callbacks of
a client lag behind its link; `FailoverToCome` says that where the active node is dead without
an excuse, the callback that will move the traffic is still queued, as the last one.

**Event pipeline** (same module): `PipelineKept` (`PipelineSafe`). `OnlyPublished` and
`BufferFresh` relate the buffer and the summaries to what was published: the next event is
none of them, so no event is summarised twice unless something failed.

**Worker router** (same module): `BatchesComplete` (`RouterSafe`), with `Pool`: natural capacities,
and a load that stands for absence is no number. `Loaded` - the router's count of a worker is
never behind the subtasks it has and the answers it has given, as long as no announcement with
a count behind them was handled; the count may be ahead, because answers that are lost or for
a batch that is gone, and publications that raise, do not lower it. `CalledBack` - after a call the batch is gone or the subscription
that made the call still waits for it, so it cannot call again. `AllAnswered` is the counting
argument behind `EarlyOnlyAfterRetry`.

**Topic leases** (`Warden_proofs`): `LeaseTypeCorrect`; under `Patient`, `LeaseCovered`
(`BeliefCovered`), `OwnershipExclusive` (`Exclusive`), `RenewalsExtend` (`RenewExtends`).
`Exclusive` is not inductive: it says nothing of answers that are still on their way.
`BeliefCovered` explains it (one row has one owner), and `LeaseInv` makes that inductive:
`AnswerCovered` - an answer on its way is as good as a belief, so delivering it preserves
`BeliefCovered`; `PendingExtends` - a request that has not reached the table will not give its
gateway less than it already believes; `Timely` bounds beliefs by what a request made now
would get, which gives `PendingExtends` when a request arrives; `ReleaseInactive` and
`DownInactive` - those whose rows are deleted no longer act as owners; `OneRequest` is what
`Patient` means in the state. A takeover reads an expiry that is not ahead of the clock the
handler read, which is not ahead of the clock now, and `BeliefCovered` then says that the old
owner's belief has run out. `RenewalsExtend` compares the row with requests in progress as
well: `RowTimely` and `RowExtends`, carried along with `LeaseInv`.

**Warden** (same module): `WardenKeepsItsLimits` (`WardenSafe`), with `Settings`: finitely many
gateways and natural limits. The cap over all lives is not inductive; `CapHeld` bounds the
containers this life has started and `Survivors` those of earlier lives, and the two add up
(`CapsAdd`). `Scanned` says that the rest of a scan still has its entries.

**API client** (same module): `BreakerKept` (`ClientSafe`), with `Breaker`: at least one attempt and
one failure to count, natural times. `Tried` says that the first attempt of a request found the
breaker closed, so that fewer than all of them pass an open one; `CounterTrue` that the code's
counter counts the failures in a row of all requests together.

**Task board** (same module): `BoardKept` (`BoardSafe`), with `Events`: events name pages and agents
that exist. `Claims` - a claimed page has left the Backlog, so that a second claim is from a
list that is out of date; `InHand` - what a worker has in hand is
taken, and nobody else has it; `AppliedFirst` - the note of a completion is on its page, as far
as nobody overwrote it, before it is remembered and before its event counts as handled.
`PagesMove`, `MemoriesMove` and `JobsStay` are what a step does to the pages, the memories and
the hands of the workers, and suffice to carry `Applied` along. Nothing rests on a message that
comes again: an event is handled once or lost.

**Memory agent** (`MemoryAgent_proofs`): `AgentKept` (`AgentSafe`), with `Clustering`: a cluster has
room for its centroid, the other limits are natural. `TogetherRecorded` - two runs under way
are on record as overlapping; `Planned` and `Grouped` - the clusters a run has still to store
are apart and coherent, and share sources only with what a run it overlaps has stored, so that
another run's insert between the load and the insert is accounted for. `ClusterBySimilarity` is
a recursive function of the memories. That its definition has a solution (`ClusterTurns`) and
that every turn keeps the clusters apart, coherent and below the limit (`Clustered`) are proved
by induction over the turns; `FirstFew` bounds the memories a centroid takes. The library's
induction theorems take an operator, which the provers cannot instantiate; the induction here
(`SetInduction`) is derived from the well-foundedness of strict inclusion on finite sets, which
the library states as a theorem about a relation.

**Bridge ledger** (same module): `BridgeKept` (`BridgeSafe`), with `TaskNames` and `PublishedEvents`: the
name that stands for "no task" is none, what is published are events. Two replays stand between
the ledger and the table. `Follows` - the ledger agrees with the replay of the events it has
processed, in the order they came, but for tasks with a lease for another gateway (`Diverted`) and
for halts. `TableAgrees` - that replay, of all that came, agrees with the replay of the table: an
event stored at any place leaves the knowledge, the parent and the cost of its task the same as at the end, and
the status and the gateway unless an event of the task stands behind it (`InsertReplay`, by
induction over the events; `belated`). `QueueIsTail` - those still queued are the end of the log, so that an empty queue means it has
seen them all; `ChildBefore` - a child it does not link was complete before its parent began.
The replay is a recursive function of the log: that it has a value for every log
(`IterationExists`) and that a further event advances it as it advances the ledger is shown by
induction over the events.

**Code ingest** (same module): `CodebaseKept` (`CodebaseSafe`), with `SourceCode`: names have parts, a
method stands with its class. The resolver is shown to link to slugs of the tree only
(`LinksKnown`, through one lemma for each way it resolves a name), a slug to tell its qualname
(`SlugTellsName`), and the nodes of a run to be those of the files it parsed (`EmitsAll`, by
induction over the files). Over these, `EmittedSoFar` says what a run under way has put,
`QuietReads` that a run that began settled reads the tree the last one left, `LinksLead` that a
link leads to a node or to one still to come, and `LinksOfTree` that a node not outdated has the
links of the tree, or is between its two transactions; there it would be without its links,
but a settled run rewrites nothing, which is `Idempotent`, part of the invariant as well.

Only model-checked:

- liveness (`AbandonedLaneFreed` and the properties of `Progress`): TLAPS has no support for
  fairness and ENABLED;
- `ProjectionSafe`, over the rows of `materialize_tasks`, and the safety part of `ChatProfiled`, for which no proofs are written yet.

## 6. Not modelled

- Cryptography of bundles and the supply chain; parsing, prompts and clients of external
  services (RLM, MCP server, CLI, sandbox, adapters); lookups without state (tenancy, policy).
- The decay of scores and the spreading activation of recall: floating-point arithmetic. What
  is modelled of ranking is the order and the fusion of ranks.
- Checkpoints of lane-locked tasks, which the code publishes and never stores; the suicide
  listener, which never acts (section 4).
- Which proposals the nightly reflection writes, the relationship links other than
  `supersedes`, and the update of confidence and metadata of a memory.
- The Markdown and Postgres storage backends: the former rewrites a whole file per
  call, the latter is SQL like that of the API.
- `event_consumer.py` (an observer that logs and counts), budgets, the pruning of checkpoints, state snapshots of workflows, the
  contradiction engine (called without a pool, it returns at once) and the federation's
  registry of subjects, which one process keeps and no two tasks share.

## 7. Plan

Proofs, in this order: the safety of `Profiler`; then `ProjectionSafe`.

Models: the Markdown backend beside `Vault`, the budgets beside `TaskProjection`, and the
suicide listener composed with `Warden` once the advisory names its target.
