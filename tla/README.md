# MCPMate: specifications, model checking and proofs

MCPMate's core process (`src/backend`) is a proxy between MCP clients and MCP
servers. It keeps connections to the upstream servers in a pool, discovers and
stores what each upstream offers, and publishes the part of it that each client
is to see. This directory holds TLA+ modules for the parts of that process whose
correctness depends on the order in which things happen, configurations that
check them with TLC, and theorems about them that TLAPS checks.

| module | what it is | instances | proofs |
|---|---|---|---|
| `UpstreamPool` | the upstream connections of one server: startups, health, operators, configuration | `MCUpstreamPool` | `UpstreamPoolTyping`, `UpstreamPoolSafety`, `UpstreamPoolOwnership` |
| `UpstreamServices` | the abstract specification of its services: served, retained, cancelled | | |
| `PreviewOwners` | upstreams started for previews, shared, collected and promoted to production | `MCPreviewOwners` | `PreviewOwnersProofs` |
| `ValidationReservations` | the upstream an inspector session or a temporary owner runs for itself: reservations, leases, attempts | `MCValidationReservations` | `ValidationReservationsProofs` |
| `DerivedCache` | the cache of catalog snapshots and its single flights | `MCDerivedCache` | `DerivedCacheProofs` |
| `SurfaceReconciliation` | jobs, leases, workers and outbox between the catalog and the surfaces | `MCSurfaceReconciliation` | `SurfaceReconciliationProofs` |
| `SurfaceConvergence` | the abstract specification of the jobs: consumers catch up, events are announced | | |
| `SurfaceReviews` | what a surface contains: policies, review items, decisions, rollbacks | `MCSurfaceReviews` | `SurfaceReviewsProofs` |

`PROJECT.json` holds the components, runs, mutations, the map from definitions to
source lines, the findings, hazards and theorems. Paths below are relative to
`src/backend/src/core` unless they say otherwise; `store` stands for
`src/backend/crates/mcpmate-capability-store/src`.

## 1. Inventory

### 1.1 Upstream connection pool (`pool/`)

One `UpstreamConnectionPool` behind one `tokio::Mutex`. Every task of the process
that needs an upstream locks it, and the slow part of most operations (starting
a process, an HTTP handshake) happens after the lock is released.

| part | state | operations |
|---|---|---|
| connections (`types.rs`, `connection.rs`) | `connections` (shared instances per server), `client_bound_connections` (per client or per session), `cancellation_tokens`, `production_routes` | connect, disconnect, reconnect, reset, reap, instance operations |
| startup coordinator (`startup.rs`) | `startup_attempts`: per server and affinity one attempt with its fingerprints and a `watch` channel | prepare (answer, join or own), claim, publish, discard, clean up after a panic |
| enable (`startup.rs`) | `server_lifecycle_generations` | capture the generation, load the row, compare and apply |
| configuration (`config.rs`, `sync.rs`) | `config`, the server table | update, synchronize, repair of namespaces, placeholders |
| health maintenance (`health.rs`) | `health_reconnect_epochs` | collect, begin, connect, publish or discard |
| failure budget (`types.rs`) | `failure_states`: consecutive failures, automatic starts, backoff | register, claim, succeed, clear |
| validation reservations (`connection.rs`) | reservations, tokens (session id and generation), owner epochs, leases released on drop | reserve, publish, refresh, detach, release; begin, claim, commit and finalize an attempt; invalidate a server |
| preview owners (`runtime.rs`) | owners of previews, their attempts and expiry | prepare, spawn, wait, schedule clean-up, promote into production |

*Interactions.* API handlers, event handlers (`events/handlers.rs`), capability
calls (`capability/connection_provider.rs`, `capability/runtime.rs`) and timers
(health, reaping) all call it. It reads the server table and the secret resolver.

*What is hard.* An attempt is prepared under the lock, connects without it, and
publishes under it again; meanwhile the route, the instance, the configuration
and the secrets may change, a second attempt may replace the first, a health
reconnect may take the same instance, the request that owns it may be dropped or
the task may panic. What is discarded is cancelled after the lock is released.

*What makes it correct.* Nobody waits for an attempt that nobody will finish; a
result is published only if what it was started for still holds; an attempt that
lost harms nothing that won; one client never gets the connection of another; a
server that was switched off stays off; a crashing server is restarted only so often.

### 1.2 Event bus (`events/`)

A tokio broadcast channel of 100 events beside a list of synchronous handlers
under an `RwLock`; handlers spawn tasks, so their effects have no order, and a slow
subscriber of the channel loses events. *Correct if* each handler works when its
effects come in any order, with the state they find and not with the one they were
sent in. The pool's side of that is modelled: the effects of the handlers are
requests that arrive in any order.

### 1.3 Capability read service (`capability/read_service.rs`, `facade.rs`, `management.rs`)

Answers list and read requests from a snapshot and refreshes it when it is stale.
State: per-server discovery flights (`ManagementDiscoveryCoordinator`, a single flight
per server), failure records. Operations: read, discover with an existing
connection and then with a fresh one, release after a failure, invalidate.
*Hard:* followers of a flight whose leader fails or is dropped; a snapshot
invalidated while its discovery is running. *Correct if* a follower always gets an
answer, and a discovery that began before an invalidation never publishes after it.

### 1.4 Capability store (`src/backend/crates/mcpmate-capability-store`)

`DerivedCapabilityCache` (generations, projection epochs, flight locks), the sqlite
catalogue with a revision per server (`commit_observation_after_revision`,
`invalidate_server_if_current`), and the surface store: reconciliation jobs
(`pending`, `leased`, `succeeded`, `failed`, with `leased_by`, `lease_expires_at`,
`attempt_count`, `next_attempt_at`), outbox events with `delivered_at`, surfaces
published against an expected generation, review items and proposals.
*Hard:* a lease that expires while its worker goes on; a crash between publishing
and completing the job; a compare-and-set against a revision that has moved.
*Correct if* a job is completed only by who holds its lease, every job ends, a
publication never replaces a newer one, and every outbox event is delivered.

### 1.5 Surface reconciliation (`capability/reconciliation.rs`, `materializer.rs`)

`SurfaceReconciliationWorker` leases jobs, materializes a surface from the catalogue
and profiles, publishes it, completes or retries the job and delivers the outbox.
*Correct if* after the last change of the inputs the bound surface is eventually the one
those inputs give.

### 1.6 Secrets and OAuth (`crates/mcpmate-secrets`, `secrets/`, `oauth/`)

A local store encrypted under a root key held by a provider, with a staged root
key during rotation; OAuth prepares, initiates, exchanges a code, refreshes,
revokes, and cleans up the secrets it wrote. *Hard:* a crash between staging a root
key and re-encrypting under it; a refresh that races a revocation; tokens written
and the row not. *Correct if* every stored secret can be decrypted after any crash, and
a revoked server has no token again.

### 1.7 Migrations (`crates/mcpmate-migrations`)

A runner that makes a backup when something is pending, compares the ledger with the
known history and applies steps in order. *Correct if* after any crash a restart
applies each step exactly once or refuses.

### 1.8 Everything else

Proxy server and gateway (`proxy/`): downstream sessions, routing of calls to
affinities. Profiles, clients, audit, inspector, LLM client, built-in MCP tools,
HTTP handlers, transports, the desktop shell, the board and the extension:
`PROJECT.json` lists each with what of it is modelled and, where nothing is, why.
The inspector has a table of calls in flight and the LLM client a provider switch;
both come last in the plan. The others are queries, file I/O, templates or user interfaces.

## 2. Plan

Done: the pool; previews and their promotion; the snapshot cache; the jobs and the outbox
of the surfaces with an abstract specification and the refinement, liveness included; the
reviews; the validation reservations; what the pool promises of its services, and the refinement.
What is next, in this order:

1. `DiscoveryFlights`: the single flights of management reads (`capability/management.rs`),
   whose leader may fail or be dropped, over the reads of `DerivedCache`.
2. `RootKeyRotation`, `OAuthTokens`, `Migrations`: crash and restart.
3. The event bus, the inspector's calls, the decay window of the failure state.

How the modules fit together: `PreviewOwners` contains the shared production route that
`UpstreamPool` models in full, reduced to what a preview can see of it. `ValidationReservations` shares the lock of the
pool with both but none of their maps. The commit of an
observation is one transaction followed by an invalidation: `SurfaceReviews` has what it
does to refs and surfaces, `SurfaceReconciliation` what it enqueues, `DerivedCache` the
invalidation. `SurfaceReviews` has a counter of due jobs, and that each of
them runs in the end is what `SurfaceReconciliation` shows; a compilation that publishes or not there is
the compilation of `SurfaceReviews`.

No module uses a `RECURSIVE` operator, so all of them can be proved about.

## 3. The module `UpstreamPool`

An action is one critical section of the pool's mutex, or one step outside of it.
The maps of the pool are keyed by server first, so servers do not interact and the
model has one.

### 3.1 State

| variable | code |
|---|---|
| `stored` | the row of `server_config`: its configuration and whether it is enabled, disabled or blocked by a namespace issue |
| `pending` | an `update_server` request between its commit and the pool's lock |
| `secret` | what the secret resolver answers now |
| `config` | the pool's configuration of the server |
| `lifecycle` | `server_lifecycle_generations` |
| `insts` | `connections` and `client_bound_connections`; `place` says which of the two, and whose |
| `routes` | `production_routes` |
| `registry`, `tasks` | `startup_attempts`, and the detached tasks behind them |
| `epochs`, `recon` | `health_reconnect_epochs`, and the reconnects in flight |
| `failure` | `failure_states` |
| `callers` | requests inside `ensure_connected_coordinated` or `enable_server_coordinated` |
| `cancelled` | services, held by an instance, whose token someone cancelled |
| `launches`, `requests` | history and bound, no part of the code |

A *runtime* is the pair of configuration and secret that the fingerprints compare.
`rt` of an instance is the runtime its service was built with; `made` of a task is
the runtime the transport really resolved, which may be newer than the one prepared.
The stamp `created_at`, compared beside the instance id, coincides with the id,
because an id is taken again only when nothing refers to it.

### 3.2 Actions

* **Demand** (`startup.rs:247-427`): `Demand`, then one of `PrepareAnswers`,
  `PrepareJoins`, `PrepareOwns`; `PreparePanics` where `expect` fires. The retry loop
  is in `After`: only a superseded outcome retries, at most `MaxTries` attempts.
* **Attempt** (`startup.rs:432-683`): `TransportBegins`, one of `PublishReady`,
  `PublishFailed`, `PublishSuperseded`, `PublishUnclaimed`, then `Discard`, which cancels
  the losing service outside of the lock and tells the owner. Joiners hear at the publication.
* **Faults**: `TaskPanics`, `CleanUpPanic` (by the owner, `startup.rs:297-316`),
  `DropCaller` (the future is dropped; the detached task goes on).
* **Enable** (`startup.rs:180-216`): `EnableCaptures`, `EnableLoads` without the lock,
  `EnableApplies` or `EnableBails`.
* **Configuration**: `SetMode`, `StoreUpdate` with `ApplyUpdate` or `AbandonUpdate`,
  `Delete`, `RotateSecret`, `Synchronize`, `DisableRuntime`.
* **Operator and calls**: `Disconnect`, `Connect`, `Relaunch`, `Reap`, `CallFails`,
  `CallSucceeds`, `EvictClosed`, `BackoffEnds`. An operator's connect holds the lock across
  its transport, so it is one action; a dropped future may stop it, or a disconnect, at
  its await (`Interrupted`, the `MayDrop` branches).
* **Health** (`health.rs:342-546`): `HealthBegins`, one of `HealthPublishes`, `HealthFails`,
  `HealthInvalidated`, then `HealthDiscards`.

### 3.3 What it abstracts

* Time. A backoff may end at any moment, a periodic reconnect may be due at any
  moment; the schedule of the backoff and the decay window are not modelled. Automatic
  starts are counted up to `MaxStarts`, beyond which no guard looks.
* Per-client and per-session affinities are two maps in the code that are treated
  alike; `BoundKeys` stands for the keys of both.
* Errors of the database or of secret resolution, which end a request before it
  changes anything in the pool.
* `select_ready_instance_id` takes the first match of a hash map: any match.
* Validation instances and preview owners, which live in other maps. Promotion is the
  one path from there into these maps; it is modelled in `PreviewOwners`.

*Refinement.* `UpstreamServices` knows no attempts, routes, tokens or requests: `Serve(i)` gives an instance a
service that nobody knew, `Withdraw` takes services out of use, and in both whoever retains an old service may forget
or cancel it. `Promise` maps `serving` to the services of the Ready instances (`Serving`) and `retained` to
every other service that an instance, an attempt or a reconnect still holds (`Retained`); `cancelled` has the same name.
So `PublishReady`, `HealthPublishes` and `Connect` are `Serve`; whatever closes, resets, reaps, disables or removes is
`Withdraw`; and the rest are `Withdraw` of nothing, or stutter. `KeepsPromise` says that the worker which is left with an
old service never cancels the new one, and that no two instances share one.

Bounds, all in guards: `MaxLifecycle` disables, `MaxRequests` requests and faults other
than demands, of the kinds in `Kinds`. Demands, tasks, reconnects, panics and dropped
requests are bounded by their sets only.

## 4. The module `SurfaceReconciliation`

Every management write and every step of a worker is one transaction on one SQLite file, so an action is a
transaction, or a step of a worker between two of them. Most are `BEGIN IMMEDIATE`. A rollback and the decision on a
target are deferred (`handlers/client/surface_reviews.rs:174` and 330); SQLite does not let such a one write
after another transaction has changed what it read, so it is serial, too, or fails without effect.

| variable | code |
|---|---|
| `revision`, `touched` | `catalog_revision` of each server's snapshot, and the last one that changed a capability |
| `relies`, `leftover` | the servers in the authoring of a consumer, and those of which a rolled-back surface still has entries |
| `binding`, `lastGeneration` | `consumer_surface_bindings`, `consumer_surface_generations` |
| `seen` | what the last compilation of a consumer read: history, no part of the code |
| `jobs` | `surface_reconciliation_jobs`, a function from idempotency keys to status and holder |
| `outbox`, `marked` | `surface_outbox_events`, and those with a `delivered_at` |
| `announced` | what the proxy was handed: history |
| `worker` | where each worker is in `spawn_surface_background_workers` |

* **Catalog**: `Bump` (a commit that changes no capability), `Change` (one that does: it
  contracts surfaces and enqueues jobs in the same transaction, `reconciliation.rs:81-258`).
* **Management**: `Save` (compiles at once), `Rollback`, `Revoke`.
* **Worker**: `Lease` or `NothingDue`, then `Supersede`, `Materialize` or `Refuse`
  (`process_job`), `RecordFailure`, then `LoadOutbox`, `Deliver` and `Mark`, each of which may fail
  (`DispatchFails`); `Crash` at any step. A restarted process draws a new worker id.

*Abstractions.* The content of a surface is in `SurfaceReviews`; here a compilation
publishes or does not. A lease expires by the clock (30 s): it can be taken at once when its holder
does not work on it any more, and otherwise at the price of a fault. Failed jobs are due
again after a while, thus at any time. `attempt_count`, which tells two
leases of one worker apart, is left out because a worker is at work on one job at a time. The
limit of 50 events in a batch is left out: a batch is what is pending.

*Refinement.* `SurfaceConvergence` knows no jobs, leases, workers or deliveries: a consumer
is compiled in one step, and every event is announced at some time. `Promise` maps
`generation` to `binding` and `events` to `outbox`; the other variables have the same names.
`surface_promise` checks `Promise!Spec`, liveness included; `ImplementsPromiseSafely` proves its
safety part.

*Fairness.* `FairSpec` has weak fairness of a worker's steps: the loop of a worker whose process
runs does not stop. It has strong fairness of leasing some job of a given consumer, because
`lease_next_reconciliation_job` takes the due job with the earliest `next_attempt_at`
(`store/surface_store.rs:1161-1200`), so one that keeps coming due is taken before those that came due
after it. Crashes and failures are not fair and bounded: after the last one somebody must be left
to do the work, as a process that is started again is.

## 5. The module `SurfaceReviews`

One consumer and the capabilities of one server. A ref is new, active or unresolved; its
version is a capability id. The authoring relationships are refs picked one by one (always
reviewed, `RelationshipLevel::Capability`) and one server-level relationship that follows or
reviews (`change_policy.rs:90-121`).

| variable | code |
|---|---|
| `state`, `current`, `generation` | `capability_refs.state`, `capability_ref_current`, `state_generation` |
| `owners` | the relationships that `load_relationships_in_transaction` collects |
| `surface`, `published` | the entries of the active publication, and of all those a rollback may name |
| `baseline`, `contracted` | the manifest `load_job_changes` compares with: the last publication that is not a safe contraction |
| `items` | `surface_review_items` with their decisions, by ref and target key |
| `due` | jobs that have not succeeded |

`Compile` is `SurfaceMaterializer::compile` and `persist_in_transaction` in one: it publishes what policy and
decisions allow, opens and closes items, and fails as a whole on a `Mismatch`
(`store/surface_store.rs:355-364`). `Observe` is a catalog commit with its safe contraction, `RunJob` a job
that is not superseded, `Save`, `Resolve`, `KeepIntent` and `RemoveIntent` are management
transactions, `Rollback` binds an earlier manifest. Jobs get their changes from the baseline (`JobClass`),
everything else from the open items (`ItemClass`); where a ref has several open items the code takes the first
row, and they turn out always to agree on the class. `Removed` is what the removal of an intent leaves of its item:
pending without a decision if somebody else still wants the ref, so that the compilation that follows compares it like
any other, and obsolete otherwise.

`PendingIsNotPublished` speaks of the items that are open when a compilation is done. It does not say that a change
has a review before it is published: see the save below (section 9).

Left out: built-in tools, renamed refs and rebinding, changes of evidence or metadata only (recorded,
never reviewed), owners of items beyond whether anybody still wants the ref.

## 6. The module `DerivedCache`

`DerivedCapabilityCache` (`store/cache.rs`) has three concurrent maps and an LRU under a lock; no
task holds two of them at once. An action is what runs under one of them.

* **Reader** (`get_or_load_current_snapshot`, 234-290): `Begin`, `Lookup`, `Forget` (a key whose entry is
  gone), `Observe` (the two generations, one after the other), `Join` and `Enter` (the flight),
  `LookAgain`, `Load`, then `Refuse` or `Keep` and `Insert`. `Abandon` is a failed load or a dropped request.
* **Writer**: `Commit`, then `invalidate_server` as `Purge`, `ForgetKey`, `ForgetFlight`; `DropWriter` if the
  request is dropped in between.
* **Reset** (`clear`, 429-444): `ResetCatalogs`, `Clear`, and `ClearMaps` three times.

`purged` and `forgotten` are history: what was committed when the server was last purged and when the cache was last
emptied. A reader notes them when it begins.
An evicted entry is any entry (the least recently used one in the code). Projections, whose pattern is
the same under one more lock, and reads of a given revision, which only tests make, are left out.

## 7. The module `PreviewOwners`

`start` has one record for every launch of an upstream: its task, the subject it was started for and
its service. `owner` and `attempt` are the two registries of `pool/runtime.rs`; `route`, `startup` and `config` are the
shared production connection of one server, its startup attempt and the print its configuration has now, with
its secrets resolved. `literal` says whether that configuration has no secret placeholders; it belongs to the
configuration's source, so it is chosen in `Init` and never changes.

* **Preview** (`preview_capabilities_coordinated`, 438-521): `Ask`, then under the lock one of `Reuse`,
  `JoinPreview`, `UseProduction`, `Own` (129-223). What the acquisition took out of the registry is
  discarded next (`Discard`), without the lock, and only then comes what it planned (`Carry`). `Heard` loops or
  ends; `Drop` is the request being dropped at one of its awaits.
* **Launch** (350-419): `Connects`, then `PublishOwner` or `FailOwner`.
* **Collection** (95-121): `Expire`, `Collect`, `CollectTooEarly`. A renewal leaves the task of the
  previous renewal behind (`early`), which finds the owner not expired.
* **Promotion** (`startup.rs:112-172`, `runtime.rs:264-336`, 523-553): `Check` reads the print, then, after a query of the
  database and under the lock again, `Promote` or `NoPromotion`. `Promotable` compares that print with the one of
  the pool's own configuration, whose placeholders are not resolved: the two agree only if there are none (`literal`).
* **Production**: `Ready`, `JoinStartup`, `OwnStartup`, `PublishStartup`, `FailStartup`, `DemandHears`,
  `Disconnect`: as much of the startup coordinator as previews meet.
* **Configuration**: `Rotate`, the secret behind a placeholder changes; `Reload`, a synchronization loads the
  configuration anew, with the OAuth token of the moment in its headers (`foundation/loader.rs:219-225`), and may reset
  an instance that is starting. The subject's key, which has the source and not the token, stays.

*Abstractions.* Time is a flag. Of production there is one server and its shared route: backoff, health and operators
are in `UpstreamPool`. A superseded demand may end after any number of tries.

## 8. The module `ValidationReservations`

One validation session of one server (`pool/connection.rs`), with the three ways to open it: for the inspector
(`inspector/service.rs`, `inspector/sessions.rs`), for a single call or listing that guards its lease, and for the owner
of a capability read (`capability/connection_provider.rs`). Ids of sessions are fresh, so sessions meet only in an OAuth
completion, which invalidates the attempts of a server.

| variable | code |
|---|---|
| `reservation`, `last` | `validation_reservations` with the deadline of `validation_sessions`; the counter of generations |
| `inFlight` | the attempts registered in the reservation, by the request that makes each |
| `published` | the connection in `validation_sessions` |
| `committed` | the generations whose authority was committed, which the drop of a lease does not release |
| `entry` | the `SessionEntry` by which other requests find an inspector session |
| `request` | where each request is and what it holds: a lease, a guarded lease, an owner, a closing, a service |
| `service` | whether each upstream runs, or has closed by itself |
| `failing` | whether `failure_states` has failures for the validation of the server |
| `cleanups` | tasks that drop handlers spawned and that have not run |

* **Finding a session**: `Open`, `Find`, `BeginClose`, `RefreshFound`, `ExistingOwner`, `UseExisting`.
* **`ensure_validation_instance`**: `Join` or `Replace` (`reserve_validation_session`), `Look`, `Begin`
  (`begin_validation_attempt`), without the lock `Connect` or `FailToConnect`, then `FinalizeSuccess` or `FinalizeFailure`.
* **What the lease is for**: `AcquirePeer` and `OpenEntry`; `GuardListing` or `GuardCall`, then `CleanUp`; `Own`,
  `TakeOwner`, `UseFresh`; `ReleaseClosing` and `CompleteClose`.
* **Drops**: `Drop(r)` at any await of any request. What Rust drops with the future spawns tasks (`Orphans`,
  `AttemptsLeft`, `OwnersLeft`, `ClosingsLeft`), and `RunRelease`, `RunRemove`, `RunReopen` run them at any later time.
* **Environment**: `ServiceCloses`, `ReservationExpires`, `EntryExpires`, `OAuthCompletes`.

*Abstractions.* Time is a flag: what is not refreshed may expire at any moment. The failure state is a Boolean. A database
that is missing refuses like a backoff does. A connect task that panics leaves what a drop leaves. Proxy sessions of the
inspector hold no reservation. `refresh_validation_session`, `cleanup_expired_sessions` and
`destroy_validation_session`, which only tests call, are left out.

## 9. Runs

| run | the question | instance | properties |
|---|---|---|---|
| `demand_answered` | Is every demand answered? | 3 callers, 3 attempts, 2 versions, an update, panics, fairness | `NoStrandedWaiter`, `DemandAnswered` |
| `recovery` | Do operators, calls, a startup and a health reconnect take instances from each other without harm, within one budget? | 1 caller, 1 reconnect, 1 automatic start, 2 secrets, 2 requests | `RecoveryBudget`, `InitializingHasOwner`, `LateResultHarmless` |
| `lifecycle` | Does off mean off, whatever enable, update and startup are in flight, and is no service handed on? | 2 callers, 2 versions, 2 disables, 4 requests, panics | `TypeOK`, `DisabledStaysDown`, `DisableIsFinal`, `FreshPublication`, `KeepsPromise` |
| `dropped_requests` | What if futures are dropped at any await? | 2 callers, shared and bound key, 2 versions, a disable, drops | `NoStrandedWaiter`, `ServedServiceLive`, `AffinityIsolation` |
| `surface_jobs` | Is a change ever lost between catalog and surface, a lease broken, an announcement overtaken? | 1 consumer, 2 servers, 2 workers, 2 revisions, 1 management write, 1 fault | `TypeOK`, `NoLostChange`, `AnnouncedInOrder`, `LeaseIsRespected` |
| `surface_promise` | Does a consumer that is behind always catch up, and hear of it? | 1 consumer, 1 server, 2 workers, 3 revisions, a revocation, 1 fault, fairness | `ImplementsPromise` |
| `surface_reviews` | Can a surface contain what the catalog lost, or what is under review? | 2 refs, 2 versions, 3 commits, a save, a decision, a rollback | `TypeOK`, `SurfaceIsCurrent`, `ReviewsFollowCatalog`, `PendingIsNotPublished` |
| `derived_cache` | Can a load bring back what was invalidated? | 2 readers, 1 writer, capacity 1, 2 commits, a reset, a failure | `TypeOK`, `ResetForgets`, `FreshAfterInvalidation`, `SingleFlight` |
| `preview_owners` | Whose is a service that previews, collection, promotion and startups all handle? | 2 previews, 2 demands, 2 prints, 3 launches, with and without placeholders, 3 requests, a rotation or reload, a fault, a drop | `TypeOK`, `OnePlace`, `NothingLeaks`, `AttemptsAreUnderWay`, `OwnersAreCollected`, `DiscoversOwnLaunch`, `ProductionIsCurrent` |
| `validation_reservations` | Does anything that was started or reserved lose its last owner, or a late task hit the replacement? | 3 requests, 3 upstreams, 2 generations, drops anywhere | `TypeOK`, `NothingLeaks`, `ReservationsAreOwned`, `ClosingIsUnderWay`, `AttemptsAreHeld`, `OvertakenAttemptsAreMute`, `ReplacementsSurvive` |

*Why the bounds are enough.* **Pool**: everything that can go wrong involves one attempt that
is overtaken by a second, a reconnect or a request: two attempts and one reconnect give
every pair, and the second caller gives joiners beside owners. A joiner that is superseded
needs a third caller, who brings the attempt that supersedes its own. `demand_answered` has an
attempt for each caller, so that nobody is kept waiting by the bound itself. An affinity can allocate again only after its route is
gone, so `Instances` exceeds the requests that remove routes by the instances that
remain; `Services` exceeds the places that can hold one, so `FreeServices` never runs dry.
`Kinds` says which requests meet the demands in a run.
**Jobs**: two workers give an expired lease and overlapping batches; two servers let one change
supersede the job of the other; two revisions of each give a change during a job; three, with one
server, give a successor that is superseded in its turn.
**Reviews**: a version goes away, comes back or is replaced and comes back within three commits; with two
refs one compilation decides two of them. **Cache**: a capacity of one makes every load evict; two commits
let an invalidation overlap a load that began before another; readers of different servers share only the LRU.
**Previews**: a third request meets the owner that the first left and the second renewed;
the other print supersedes both. **Reservations**: two generations give the replaced one and its
replacement; three requests give two that hold a lease beside one that closes or is dropped; at most three upstreams run at a
time, one for each request that connects, or a published one and two. The proofs lift most of this to every instance (section 10).

*Symmetry* is declared where values are only compared: callers, configurations and secrets of the pool, workers, readers and
flights, refs and versions, launches, prints and requests, requests and upstreams of a session. Fresh ids of the pool are chosen with `CHOOSE`, so none
is declared on them, and liveness runs have none.

*Deadlock* is checked in every run of the pool, of the jobs, of the cache and of the reservations. `surface_reviews` and
`preview_owners` switch it off: their requests are bounded, and a job that meets a mismatch in the first has
nowhere to go until its next retry.

*Fairness of the pool.* `FairSpec` assumes weak fairness of what continues: a request that is not
dropped (`CallerContinues`), a task whose transport ends because it runs under
a timeout (`TaskContinues`), a health reconnect (`ReconnectContinues`). The runtime polls each
of them and the mutex is fair. Nothing is assumed of demands, operators, events,
timers, panics or of the end of a backoff. A demand that meets a backoff is answered at
once, so it need not end. For the jobs see section 4; the other modules state no fairness.

### Findings

Two runs show that the code does not do what its tests or assertions say.

| run | claim | what happens |
|---|---|---|
| `dangling_route` | `pool/startup.rs:394`: `expect("allocated production instance exists")` | Removing the server from the configuration drops the shared instances and not the route. Once the server is back the next demand takes the old route and panics. |
| `stranded_preview` | `src/backend/tests/upstream_runtime_owner_convergence.rs:111`: next preview must not wait on a stranded acquisition | The attempt is registered before the request awaits the end of the owners it replaces, and spawned after. A request dropped there leaves an attempt that later previews of the subject join until their timeout. The test drops its request when there is nothing to replace. |

Some more was seen in the models and is stated by no line of the source that could be refuted; these are hazards with a
note in `PROJECT.json`, and properties are stated so as not to claim the contrary:

* A task that panics after its owning request was dropped leaves its registry entry; `NoStrandedWaiter` is
  checked with panics and with drops, not with both at once.
* An enable that loaded the row before an update puts the old configuration back, because an update does not
  advance the lifecycle generation (`pool/executor.rs:1254`).
* A reconnect of a client-bound instance removes it first (`pool/executor.rs:135`).
* A disable or connect dropped at its await leaves ready or Initializing instances;
  `DisabledStaysDown` and `InitializingHasOwner` are not claimed under drops.
* A reset of the cache clears the generations of the servers, so an invalidation around it may let an old
  load be kept (`store/cache.rs:442`); `FreshAfterInvalidation` is claimed without resets.
* A capability that was rejected, or is pending, is taken for new by the first job after some other
  publication and published under a relationship that follows (`capability/reconciliation.rs:626`). Its review
  is obsolete by then, so `PendingIsNotPublished` holds.
* A save between a contraction and its job knows no review of the change yet: it goes by the open items
  (`ItemClass`), takes a changed ref that has none for unchanged (`core/capability/materializer.rs:600-641`) and publishes
  its new entry, under a relationship that reviews changes, too. `PendingIsNotPublished` and `ReviewsFollowCatalog` do
  not exclude it: the first speaks of open items, the second of what is open once no job is due.
* One listing changes two reviewed capabilities. Approving one compiles the consumer, finds the item of the other with a
  `before` that differs from the contracted surface, and fails; so does every save, and the job at every retry
  (`store/surface_store.rs:357`). Only the name of a test promises otherwise.
* A request may take the lease of a generation after the last other lease was given up and before the release which that
  spawned has run (`pool/connection.rs:108`); the release then ends the generation under it. `ReplacementsSurvive` excepts it.
* Nothing but tests calls `cleanup_expired_sessions`, so an inspector session that nobody closes keeps its upstream
  (`pool/connection.rs:736`). `ReservationsAreOwned` counts its entry as an owner.
* A promotion compares the print of a configuration whose secrets are not resolved with one whose secrets are
  (`pool/runtime.rs:284`), so a server with secret placeholders is never promoted: a demand waits for the preview's
  launch and then starts a second upstream beside it. No line of the source says that every owner is promoted.
* After a rollback a review may stay open for a target that is gone until the next job: `ReviewsFollowCatalog` is
  claimed without rollbacks and when no job is due.

## 10. Theorems

Every invariant and every action property of a passing run is a theorem, and so are both refinements as far as safety
goes. Liveness and ENABLED are out of the prover's reach: `DemandAnswered` and the two
leads-to properties of `SurfaceConvergence!Spec` stay with TLC.

### The pool

Assumed of the constants: `None` is no element of the other sets (`NoneIsNoValue`),
`Default` is no bound key (`DefaultIsShared`), the bounds are numbers and `MaxTries` is
not zero (`BoundsAreNumbers`). TLC evaluates all three in every run of the module. The sets may be
infinite; nothing is assumed of their size.

**`TypeCorrect`: `Spec => []TypeOK`.** `TypeOK` is not inductive: an action that
answers a waiter or publishes for a task indexes the maps with the task's key, instance
and owner, which may be `None` by type. `Typed` adds that a request that has begun has a
key, that an attempt in flight has key, instance and runtime, that a reconnect in flight
has an instance and a runtime, and that the owner of an attempt waits for that
attempt (`CallersNamed`, `AttemptsNamed`, `ReconnectsNamed`, `OwnersWait`). The proof has one lemma per
group of actions, and lemmas such as `OneTaskChanges` for an update of one entry.

**`RecoveryIsBudgeted`: `Spec => []RecoveryBudget`.** Inductive: `launches <= failure.starts`
(`Charged`). Every launch is charged where it is claimed, and the two are cleared together.

**`AffinitiesAreIsolated`: `Spec => []AffinityIsolation`.** Inductive with `Typed`: a
route is set only to the instance it had or to one no route names; and an instance
changes its place only by leaving the pool or to the key of the attempt that is still
owned by its route.

**`DisabledServersStayDown`: `MayDrop = FALSE` implies `Spec => []DisabledStaysDown`.** Needs
`AffinityIsolation`, because an attempt publishes into the place of its key and that
must be the one its instance has already, and that a loaded enable has a configuration (`LoadedRow`).

**`NobodyIsStranded`: `~(MayPanic /\ MayDrop)` implies `Spec => []NoStrandedWaiter`.**
`NoStrandedWaiter` says of each waiter what it needs; the induction needs to know of the
registry (`Registered`: an entry is an attempt in flight for that key), of the
waiters (`Known`) and of the owners (`OwnedWhileRunning`: without drops an attempt has the
owner that cleans up after it), together `Told`. The condition cannot be omitted: a task that
panics after its owner was dropped leaves its entry behind.

The rest is in `UpstreamPoolOwnership`, which asks of every step what it does to the services (`ServicesMove`: each
instance keeps, loses, is given back or renews its service) and to who is starting what (`StartsOwned`).

**`DisablesAreFinal`: `Spec => DisableIsFinal`** needs no invariant. Without a configuration only an enable, a
synchronization or an update could bring one back: the second needs a row that is enabled, the third that the pool still has
the server, and the first is stopped by its generation.

**`PublicationsAreFresh`: `Spec => FreshPublication`.** What becomes ready is published by an attempt whose configuration
is compared under the lock with the pool's (`StillOwned`), but what runs is what the transport resolved. `MadeAsAsked` says
that the two agree in all but the secrets.

**`LateResultsAreHarmless`: `Spec => LateResultHarmless`** follows from `Typed`: each publication is
guarded by its route, its instance and the status Initializing, or by its epoch, and changes no instance but that one.

**`ServedServicesLive`: `Spec => []ServedServiceLive`.** Inductive with `Typed`: `Lone` (the service of a ready
instance is held by no other instance and by no worker that has to discard it), `CancelledIsHeld` (a service that is
cancelled is held by some instance, so a fresh one is not), and `AbsentIsAbsent` (what has left the pool holds
nothing, so an instance that is allocated again brings no service along). Under faults and drops.

**`StartingIsOwned`: `MayDrop = FALSE` implies `Spec => []InitializingHasOwner`.** Inductive: `Owned` (what initializes is
on the route of the attempt registered for it, or has the epoch of a reconnect that connects) with `Told` and
`AbsentIsAbsent`. The condition is needed for one thing only: an operator's connect that is dropped at its transport
leaves its instance Initializing with nobody behind it (`pool/executor.rs:326`).

**`ServicesAsPromised`: `Spec => KeepsPromise`**, the refinement of `UpstreamServices`. `Lone` makes the
fresh service one that `Retained` does not have, and lets every step be read as one `Serve` or one `Withdraw`
(`PromiseStep`).

### The jobs and the outbox (`SurfaceReconciliationProofs`)

Assumed: `None` is no worker, the bounds are numbers. `SurfaceInvariant` proves
`TypeOK /\ NumbersGrow /\ BatchInOrder /\ AnnouncedInOrder /\ DoneIsCovered /\ NoLostChange`.

* **`NoChangeIsLost`.** `NoLostChange` alone is not inductive: a job is handed to a successor by INSERT OR IGNORE, and
  a row that has already succeeded under the successor's key would swallow it. `DoneIsCovered` says why that loses
  nothing: a finished row whose revisions and generation are those of now was finished by a compilation that read them.
  It rests on `NumbersGrow`, because a new revision or generation leaves every such row behind.
* **`AnnouncementsInOrder`.** `BatchInOrder`: whatever precedes an event in a worker's batch is in the batch
  or was announced. A publication gets a higher generation than all before it, so it cannot slip in before.
* **`LeasesAreRespected`** is an action property: each step either leaves a leased row, leases it
  again, or is its holder's.
* **`ImplementsPromiseSafely`**: `Spec => Promise!Safety`, one lemma per action. `Materialize` is `CatchUp`, `Change` and `Bump` are
  `CatalogMoves`, `Save` is `Author`, `Deliver` is `Announce`; leases, failures, supersedes and marks stutter.

### Reviews (`SurfaceReviewsProofs`)

Assumed: `None` is no version and no decision. `ReviewsTypeCorrect` and **`SurfaceStaysCurrent`**, which is inductive with the
types: a commit cuts what it makes unsafe, compilations publish current versions, a
rollback is compared with the catalog. **`PendingStaysOut`**: an item that a compilation leaves open is about the target key it
computed for that ref, so it is the one whose decision let the ref be published (`CompileRespectsReviews`).

**`ReviewsAreCurrent`: `Spec => []ReviewsFollowCatalog`.** Inductive (`ReviewInv`): a ref has one open item at most
(`OneOpen`), what is picked was observed and what is active has a version (`RefsAreKnown`), and before any rollback the
open items of what the surface has are about the catalog's target (`PublishedAreFresh`), and those of whatever is wanted are
once no job is due (`WantedAreFresh`). A compilation issues the items anew, for the targets of now, or finds nothing to do
and leaves them as they are; then whatever is wanted is on the surface, and the third part says that its items are fresh
(`CompileSettles`). A commit of the catalog cuts from the surface every ref whose target it moves, and makes jobs due
if anything is wanted (`ObserveSettles`).

### The cache (`DerivedCacheProofs`)

Assumed: `None` is no flight, the capacity is a number other than zero. `CacheTypeCorrect` includes that the cache never exceeds its
capacity. **`LoadsAreSingleFlight`** from `Exclusion`: no two readers are past the guard of one flight.
**`ResetIsRemembered`** and **`InvalidationIsRemembered`** from `Fresh`, which says of each reader (`Sound`) that as long as the
generations it noted are those of the cache, nothing newer than what it loaded has been dropped, and of the entries
that none is older than what was dropped.

### Previews (`PreviewOwnersProofs`)

Assumed: `None` is no launch, the server has a subject. `PreviewInvariant` proves
`TypeOK /\ Whole /\ Placed /\ Apart /\ Registered /\ Planned /\ NothingLeaks /\ AttemptsAreUnderWay /\ OwnersAreCollected`. To
show that nothing leaks one needs that what is discarded is in no other place
(`Apart`), hence that a launch which is being published has none yet (`Registered`), hence that a plan to spawn has a launch of its own
(`Planned`). From it follow **`OwnersInOnePlace`**, **`NothingIsLeaked`**, **`AttemptsRun`**, **`OwnersGetCollected`**,
**`OwnLaunchDiscovered`** and **`ProductionStaysCurrent`**.

### Validation reservations (`ValidationReservationsProofs`)

Assumed: `None` is no upstream and no number, the bound is a number. `Invariant` proves `IInv`, the conjunction of `TypeOK`, `Shaped`
(what a request holds where it is), `NothingLeaks`, `AttemptsAreHeld`, `OvertakenAreOut`, `LonelyAreAlone`,
`ClosingIsUnderWay`, `CloserIsOne`, `ReservationsAreOwned` and `CommittedAreOwned`. That a reservation keeps an owner
(**`EveryReservationIsOwned`**) needs that a committed one does, because dropping a lease of it releases nothing
(`CommittedAreOwned`), and that a session opened for one purpose is known to one request (`LonelyAreAlone`). That a closing
goes on (**`EveryClosingIsUnderWay`**) needs that there is one at a time, in a request or in a task (`CloserIsOne`). From it follow
**`TypeCorrect`**, **`NoUpstreamLeaks`**, **`EveryAttemptIsHeld`**, and the action properties
**`OvertakenAttemptsDoNothing`** (through `OvertakenAreOut`) and **`ReplacementsAreSafe`**.

*Only model-checked*: `DemandAnswered`, and the two leads-to properties within `ImplementsPromise`, which are liveness
under fairness.

## 11. Not modelled

* **Proxy sessions and calls in flight** of the inspector: the first hold no reservation; the second is last in the plan.
* **Discovery flights** of management reads, **OAuth**, **root keys**, **migrations**: in the plan.
* **The rest of the pool**: the schedule of the backoff, connecting all servers in parallel, the manual recovery of
  disabled instances, which no other code calls.
* **Profiles, clients, audit, the built-in tools, HTTP handlers**: queries, merges and templates over data, each in one
  transaction or one file write, with no interleaving of their own; what their saves do to surfaces
  is `Save` in two modules.
* **Transports, entry points, desktop shell, board, extension, website, packaging**: I/O and user interfaces.

The share of the repository's lines that definitions map to is small and will stay so: most of its lines are the last two
groups and tests.

## 12. Running it

    tlc -workers 2 -config MCLifecycle.cfg MCUpstreamPool.tla
    tlapm SurfaceReconciliationProofs.tla

Each run takes at most about three minutes, and so does each proof, with the exception of those of the
pool and of `PreviewOwners`, which take some minutes more. Every property of a passing run has, in
`PROJECT.json`, a mutation of the modelled code that violates it; the mutated definitions stand in the module before the
ones they replace and are marked `bug:`.
