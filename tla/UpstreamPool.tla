---------------------------- MODULE UpstreamPool ----------------------------
(***************************************************************************)
(* The upstream connection pool of one MCP server (core/pool).  Demands    *)
(* for a connection, the detached startup attempts they own or join, the   *)
(* health reconnects, the operator's requests, configuration loading and   *)
(* the failure budget all meet under the pool's mutex; an action is one    *)
(* critical section of that mutex, or one step taken outside of it.        *)
(*                                                                         *)
(* Every map of the pool is keyed by the server first, so servers do not   *)
(* interact here and the model has one.  Instance ids, attempt ids, health *)
(* epochs and services are all unique in the code; the model takes an id   *)
(* again only once nothing refers to it any more, which is why an id also  *)
(* stands for the `created_at` stamp compared next to it.                  *)
(***************************************************************************)
EXTENDS Naturals, FiniteSets

CONSTANTS
    Callers,      \* requests that may be in flight at the same time
    BoundKeys,    \* client and session ids with a connection of their own
    Default,      \* the affinity key of the shared connections
    Versions,     \* versions of the stored server configuration
    Secrets,      \* values the secrets of the configuration may resolve to
    Instances,    \* connection instances
    Attempts,     \* startup attempts
    Reconnects,   \* health reconnects
    Services,     \* running upstream services
    None,
    MaxStarts,    \* MAX_AUTOMATIC_START_ATTEMPTS
    MaxTries,     \* MAX_STARTUP_ATTEMPTS
    MaxLifecycle, \* bound: disables of the server in a behaviour
    MaxRequests,  \* bound: requests and faults, other than demands, in a behaviour
    Kinds,        \* bound: which of them occur
    MayPanic,     \* whether a startup task may panic
    MayDrop       \* whether the future of a request may be dropped

Keys == BoundKeys \cup {Default}
Opt(S) == S \cup {None}

ASSUME NoneIsNoValue ==
    None \notin Callers \cup Keys \cup Versions \cup Secrets \cup Instances
                \cup Attempts \cup Reconnects \cup Services
ASSUME DefaultIsShared == Default \notin BoundKeys
ASSUME BoundsAreNumbers ==
    /\ {MaxStarts, MaxTries, MaxLifecycle, MaxRequests} \subseteq Nat /\ MaxTries # 0
    /\ {MayPanic, MayDrop} \subseteq BOOLEAN

VARIABLES
    stored,     \* server_config row: its configuration and its mode
    pending,    \* an update committed to the row but not applied to the pool
    secret,     \* what the secret resolver returns now
    config,     \* the configuration the pool holds, None when absent
    lifecycle,  \* server_lifecycle_generations
    insts,      \* connections and client_bound_connections
    routes,     \* production_routes
    registry,   \* startup_attempts
    tasks,      \* the detached startup tasks
    epochs,     \* health_reconnect_epochs
    recon,      \* the health reconnects in flight
    failure,    \* failure_states
    launches,   \* health launches since the failure state was last cleared
    callers,    \* the requests inside enable or ensure_connected
    cancelled,  \* services held by an instance whose token was cancelled
    requests    \* operator requests and faults so far

dbVars     == <<stored, pending, secret>>
healthVars == <<epochs, recon>>
budgetVars == <<failure, launches>>
startVars  == <<registry, tasks, callers>>
vars == <<dbVars, config, lifecycle, insts, routes, startVars, healthVars,
          budgetVars, cancelled, requests>>

-----------------------------------------------------------------------------
(* Values *)

Modes   == {"enabled", "disabled", "blocked"}
Status  == {"Idle", "Initializing", "Ready", "Error", "Permanent", "Shutdown"}
Runtime == [cfg : Opt(Versions), sec : Secrets]   \* what a runtime fingerprint tells apart
Results == {"ok", "error", "auth"}           \* how a transport startup may end

\* `place` is the map an instance is in: the shared one or a bound client's.
Instance == [place : Opt(Keys), status : Status, svc : Opt(Services), rt : Opt(Runtime)]
Absent   == [place |-> None, status |-> "Idle", svc |-> None, rt |-> None]
Placeholder(k) == [Absent EXCEPT !.place = k]

Attempt == [phase : {"free", "spawned", "connecting", "discarding", "panicked"},
            key : Opt(Keys), inst : Opt(Instances), rt : Opt(Runtime), made : Opt(Runtime),
            owner : Opt(Callers), held : Opt(Services),
            outcome : Opt({"published", "failed", "superseded"})]
NoAttempt == [phase |-> "free", key |-> None, inst |-> None, rt |-> None, made |-> None,
              owner |-> None, held |-> None, outcome |-> None]

Reconnect == [phase : {"free", "connecting", "discarding"}, inst : Opt(Instances),
              rt : Opt(Runtime), held : Opt(Services)]
NoReconnect == [phase |-> "free", inst |-> None, rt |-> None, held |-> None]

Caller == [pc : {"idle", "captured", "loaded", "deciding", "waiting", "panicked"},
           key : Opt(Keys), tries : 0..MaxTries, task : Opt(Attempts),
           gen : Nat, load : Opt(Versions)]
Idle == [pc |-> "idle", key |-> None, tries |-> 0, task |-> None, gen |-> 0, load |-> None]

TypeOK ==
    /\ stored \in [cfg : Opt(Versions), mode : Modes]
    /\ pending \in BOOLEAN
    /\ secret \in Secrets
    /\ config \in Opt(Versions)
    /\ lifecycle \in Nat
    /\ insts \in [Instances -> Instance]
    /\ routes \in [Keys -> Opt(Instances)]
    /\ registry \in [Keys -> Opt(Attempts)]
    /\ tasks \in [Attempts -> Attempt]
    /\ epochs \in [Instances -> Opt(Reconnects)]
    /\ recon \in [Reconnects -> Reconnect]
    /\ failure \in [starts : 0..MaxStarts, backoff : BOOLEAN]
    /\ launches \in Nat
    /\ callers \in [Callers -> Caller]
    /\ cancelled \subseteq Services
    /\ requests \in Nat

-----------------------------------------------------------------------------
(* Helpers over the pool's maps *)

Current == [cfg |-> config, sec |-> secret]     \* runtime_server_config
Exists(i) == insts[i].place # None              \* get_instance
In(k) == {i \in Instances : insts[i].place = k}
ReadyIn(k) == {i \in In(k) : insts[i].status = "Ready" /\ insts[i].svc # None}

\* select_ready_instance_id returns any one of these, in the order of a HashMap.
Selectable(k) == IF k # Default /\ ReadyIn(k) # {} THEN ReadyIn(k) ELSE ReadyIn(Default)

\* Ids that nothing refers to.  They are interchangeable, so one is chosen.
NotInFlight ==
    {i \in Instances : /\ epochs[i] = None
                       /\ \A t \in Attempts : tasks[t].inst # i
                       /\ \A h \in Reconnects : recon[h].inst # i}
FreeInstances == {i \in NotInFlight : ~Exists(i) /\ \A k \in Keys : routes[k] # i}
FreeServices ==
    {s \in Services : /\ \A i \in Instances : insts[i].svc # s
                      /\ \A t \in Attempts : tasks[t].held # s
                      /\ \A h \in Reconnects : recon[h].held # s}
\* A panicked task that no owner and no registry entry knows is gone as well.
FreeAttempts ==
    {t \in Attempts : \/ tasks[t].phase = "free"
                      \/ /\ tasks[t].phase = "panicked"
                         /\ tasks[t].owner = None
                         /\ \A k \in Keys : registry[k] # t}
FreshInstance == CHOOSE i \in FreeInstances : TRUE
FreshService  == CHOOSE s \in FreeServices : TRUE
FreshAttempt  == CHOOSE t \in FreeAttempts : TRUE

\* An instance that a new service of the given runtime has made ready.
Served(instance, rt) ==
    [instance EXCEPT !.status = "Ready", !.svc = FreshService, !.rt = rt]

\* Only a service that some instance still holds matters once cancelled.
Cancel(S) ==
    cancelled' = {s \in Services : s \in cancelled \cup S /\ \E i \in Instances : insts'[i].svc = s}

Request(kind) == kind \in Kinds /\ requests < MaxRequests /\ requests' = requests + 1

(* The failure state: consecutive failures only stretch the backoff. *)
Cleared      == failure' = [starts |-> 0, backoff |-> FALSE] /\ launches' = 0
ConnectFails == /\ failure' = [starts  |-> IF failure.starts < MaxStarts
                                           THEN failure.starts + 1 ELSE MaxStarts,
                               backoff |-> TRUE]
                /\ UNCHANGED launches
BacksOff     == failure' = [failure EXCEPT !.backoff = TRUE] /\ UNCHANGED launches
Fails(r)     == IF r = "auth" THEN Cleared ELSE ConnectFails
ErrorOf(r)   == IF r = "auth" THEN "Permanent" ELSE "Error"

-----------------------------------------------------------------------------
(* ensure_connected_coordinated: demands and startup attempts *)

Waiters(t) == {c \in Callers : callers[c].pc = "waiting" /\ callers[c].task = t}
Joiners(t) == Waiters(t) \ {tasks[t].owner}

\* What a request does with the outcome it waited for: only a superseded one
\* retries, and only so often.
AfterUncounted(c, outcome) ==    \* bug: the attempts are not counted
    IF outcome = "superseded" THEN [callers[c] EXCEPT !.pc = "deciding", !.task = None] ELSE Idle
After(c, outcome) ==
    IF outcome = "superseded" /\ callers[c].tries < MaxTries
    THEN [callers[c] EXCEPT !.pc = "deciding", !.task = None]
    ELSE Idle
Answer(who, outcome) ==
    [c \in Callers |-> IF c \in who THEN After(c, outcome) ELSE callers[c]]

Demand(c, k) ==
    /\ callers[c].pc \in {"idle", "panicked"}
    /\ callers' = [callers EXCEPT ![c] = [Idle EXCEPT !.pc = "deciding", !.key = k]]
    /\ UNCHANGED <<dbVars, config, lifecycle, insts, routes, registry, tasks,
                   healthVars, budgetVars, cancelled, requests>>

\* The routed instance may be the one select_ready_instance_id returns, and it
\* runs the current configuration with the current secrets.
RoutedIsReady(k) ==
    routes[k] # None /\ routes[k] \in Selectable(k) /\ insts[routes[k]].rt = Current
RoutedMayBeMissed(k) == ~RoutedIsReady(k) \/ Selectable(k) # {routes[k]}

\* Prepare ends in an answer: ready, no configuration, or backing off.
PrepareAnswers(c) ==
    /\ callers[c].pc = "deciding"
    /\ \/ config = None
       \/ RoutedIsReady(callers[c].key)
       \/ failure.backoff
    /\ callers' = [callers EXCEPT ![c] = Idle]
    /\ UNCHANGED <<dbVars, config, lifecycle, insts, routes, registry, tasks,
                   healthVars, budgetVars, cancelled, requests>>

MustStart(c) ==
    /\ callers[c].pc = "deciding"
    /\ config # None
    /\ RoutedMayBeMissed(callers[c].key)
    /\ ~failure.backoff

\* An attempt for the route with the same runtime fingerprint is in flight.
SameInFlight(k) == registry[k] # None /\ tasks[registry[k]].rt = Current

Waiting(c, t) == [callers[c] EXCEPT !.pc = "waiting", !.tries = @ + 1, !.task = t]

PrepareJoins(c) ==
    /\ MustStart(c)
    /\ SameInFlight(callers[c].key)
    /\ callers' = [callers EXCEPT ![c] = Waiting(c, registry[callers[c].key])]
    /\ UNCHANGED <<dbVars, config, lifecycle, insts, routes, registry, tasks,
                   healthVars, budgetVars, cancelled, requests>>

\* The demands that hear at once that the attempt registered for k is superseded.
SupersededSilently(k) == IF registry[k] = None THEN {} ELSE Joiners(registry[k]) \ Callers
    \* bug: the entry is dropped without an outcome
Superseded(k) == IF registry[k] = None THEN {} ELSE Joiners(registry[k])

\* The instance an attempt for k starts: the routed one, or a new one.
RoutedOrReady(k) ==    \* bug: a ready instance of any affinity is taken before a new one
    IF routes[k] # None THEN routes[k]
    ELSE CHOOSE i \in Instances : IF Selectable(k) = {} THEN i \in FreeInstances ELSE i \in Selectable(k)
RoutedOrFresh(k) == IF routes[k] # None THEN routes[k] ELSE FreshInstance

\* The demand owns a new attempt: the one registered for other secrets or
\* another configuration is superseded, the routed instance is restarted or a
\* new one allocated, and the worker clones the instance with its service.
PrepareOwns(c) ==
    LET k == callers[c].key
        t == FreshAttempt
        i == RoutedOrFresh(k)
    IN  /\ MustStart(c)
        /\ ~SameInFlight(k)
        /\ FreeAttempts # {}
        /\ IF routes[k] # None THEN Exists(i) ELSE FreeInstances # {}
        /\ insts' = [insts EXCEPT ![i] =
               [(IF Exists(i) THEN insts[i] ELSE Placeholder(k)) EXCEPT !.status = "Initializing"]]
        /\ routes' = [routes EXCEPT ![k] = i]
        /\ registry' = [registry EXCEPT ![k] = t]
        /\ tasks' = [tasks EXCEPT ![t] =
               [NoAttempt EXCEPT !.phase = "spawned", !.key = k, !.inst = i, !.rt = Current,
                                 !.owner = c, !.held = insts[i].svc]]
        /\ epochs' = [epochs EXCEPT ![i] = None]
        /\ callers' = [Answer(Superseded(k), "superseded") EXCEPT ![c] = Waiting(c, t)]
        /\ UNCHANGED <<dbVars, config, lifecycle, recon, budgetVars, cancelled, requests>>

\* The route names an instance the pool no longer has: the registered attempt
\* is already superseded when `expect` panics and the request dies with it.
PreparePanics(c) ==
    LET k == callers[c].key
    IN  /\ MustStart(c)
        /\ ~SameInFlight(k)
        /\ routes[k] # None /\ ~Exists(routes[k])
        /\ registry' = [registry EXCEPT ![k] = None]
        /\ epochs' = [epochs EXCEPT ![routes[k]] = None]
        /\ callers' = [Answer(Superseded(k), "superseded") EXCEPT
               ![c] = [Idle EXCEPT !.pc = "panicked"]]
        /\ UNCHANGED <<dbVars, config, lifecycle, insts, routes, tasks, recon,
                       budgetVars, cancelled, requests>>

\* The transport resolves the secrets itself, outside of the lock.
TransportBegins(t) ==
    /\ tasks[t].phase = "spawned"
    /\ tasks' = [tasks EXCEPT ![t] = [@ EXCEPT !.phase = "connecting",
                                              !.made = [cfg |-> tasks[t].rt.cfg, sec |-> secret]]]
    /\ UNCHANGED <<dbVars, config, lifecycle, insts, routes, registry, callers,
                   healthVars, budgetVars, cancelled, requests>>

Claims(t) == registry[tasks[t].key] = t
\* The route, the identity and the fingerprints captured at prepare still hold.
OwnedByRoute(t) == routes[tasks[t].key] = tasks[t].inst    \* bug: only the route is compared
OwnedAnyConfig(t) ==    \* bug: the fingerprints are not compared
    /\ routes[tasks[t].key] = tasks[t].inst
    /\ Exists(tasks[t].inst)
    /\ insts[tasks[t].inst].status = "Initializing"
OwnedAnyStatus(t) ==    \* bug: the status is not compared
    /\ routes[tasks[t].key] = tasks[t].inst
    /\ Exists(tasks[t].inst)
    /\ Current = tasks[t].rt
StillOwned(t) ==
    /\ routes[tasks[t].key] = tasks[t].inst
    /\ Exists(tasks[t].inst)
    /\ insts[tasks[t].inst].status = "Initializing"
    /\ config = tasks[t].rt.cfg
    /\ Current = tasks[t].rt

\* What is left to discard outside of the lock, and what the owner will hear.
DiscardingPublished(t, service, outcome) ==    \* bug: the published side is discarded
    tasks' = [tasks EXCEPT ![t] = [@ EXCEPT !.phase = "discarding", !.outcome = outcome,
                                            !.held = insts'[tasks[t].inst].svc]]
Discarding(t, service, outcome) ==
    tasks' = [tasks EXCEPT ![t] = [@ EXCEPT !.phase = "discarding", !.held = service,
                                            !.outcome = outcome]]
Release(t, outcome) ==
    /\ registry' = [registry EXCEPT ![tasks[t].key] = None]
    /\ callers' = Answer(Joiners(t), outcome)

PublishReady(t) ==
    LET i == tasks[t].inst
    IN  /\ tasks[t].phase = "connecting"
        /\ Claims(t) /\ StillOwned(t)
        /\ FreeServices # {}
        /\ insts' = [insts EXCEPT ![i] = Served([@ EXCEPT !.place = tasks[t].key], tasks[t].made)]
        /\ Discarding(t, insts[i].svc, "published")
        /\ Release(t, "published")
        /\ Cancel({})
        /\ Cleared
        /\ UNCHANGED <<dbVars, config, lifecycle, routes, healthVars, requests>>

PublishFailed(t, r) ==
    /\ tasks[t].phase = "connecting"
    /\ r # "ok"
    /\ Claims(t) /\ StillOwned(t)
    /\ insts' = [insts EXCEPT ![tasks[t].inst].status = ErrorOf(r)]
    /\ Discarding(t, tasks[t].held, "failed")
    /\ Release(t, "failed")
    /\ Fails(r)
    /\ UNCHANGED <<dbVars, config, lifecycle, routes, healthVars, cancelled, requests>>

\* An invalidated result fails the instance, unless someone moved it on.
LeftInitializing(i) == insts    \* bug: nothing moves it on
Settled(i) == IF Exists(i) /\ insts[i].status = "Initializing"
              THEN [insts EXCEPT ![i].status = "Error"] ELSE insts

\* A worker that connected holds a service of its own, one that failed still
\* holds the service the instance had when it was cloned.
WorkerHolds(t, r) == IF r = "ok" THEN None ELSE tasks[t].held

PublishSuperseded(t, r) ==
    /\ tasks[t].phase = "connecting"
    /\ Claims(t) /\ ~StillOwned(t)
    /\ insts' = Settled(tasks[t].inst)
    /\ Discarding(t, WorkerHolds(t, r), "superseded")
    /\ Release(t, "superseded")
    /\ UNCHANGED <<dbVars, config, lifecycle, routes, healthVars, budgetVars,
                   cancelled, requests>>

\* Superseded by a later prepare: nothing of the pool is touched.
PublishUnclaimed(t, r) ==
    /\ tasks[t].phase = "connecting"
    /\ ~Claims(t)
    /\ Discarding(t, WorkerHolds(t, r), "superseded")
    /\ UNCHANGED <<dbVars, config, lifecycle, insts, routes, registry, callers,
                   healthVars, budgetVars, cancelled, requests>>

\* discard_startup_result, then the task ends and its owner hears the outcome.
Discard(t) ==
    /\ tasks[t].phase = "discarding"
    /\ tasks' = [tasks EXCEPT ![t] = NoAttempt]
    /\ callers' = Answer({tasks[t].owner} \cap Callers, tasks[t].outcome)
    /\ UNCHANGED insts
    /\ Cancel({tasks[t].held})
    /\ UNCHANGED <<dbVars, config, lifecycle, routes, registry, healthVars,
                   budgetVars, requests>>

TaskPanics(t) ==
    /\ MayPanic
    /\ tasks[t].phase \in {"spawned", "connecting"}
    /\ tasks' = [tasks EXCEPT ![t] = [@ EXCEPT !.phase = "panicked", !.held = None]]
    /\ UNCHANGED <<dbVars, config, lifecycle, insts, routes, registry, callers,
                   healthVars, budgetVars, cancelled, requests>>

\* The owner, not the task, cleans up after a panic.
CleanUpOwnerOnly(t) ==    \* bug: only the owner hears of the panic
    /\ tasks[t].phase = "panicked"
    /\ tasks[t].owner # None
    /\ callers' = Answer({tasks[t].owner}, "failed")
    /\ tasks' = [tasks EXCEPT ![t].owner = None]
    /\ UNCHANGED <<dbVars, config, lifecycle, insts, routes, registry, healthVars,
                   budgetVars, cancelled, requests>>
CleanUpPanic(t) ==
    LET i == tasks[t].inst
    IN  /\ tasks[t].phase = "panicked"
        /\ tasks[t].owner # None
        /\ registry' = IF Claims(t) THEN [registry EXCEPT ![tasks[t].key] = None] ELSE registry
        /\ insts' = IF Exists(i) THEN [insts EXCEPT ![i].status = "Error"] ELSE insts
        /\ callers' = Answer(Waiters(t), "failed")
        /\ tasks' = [tasks EXCEPT ![t] = NoAttempt]
        /\ UNCHANGED <<dbVars, config, lifecycle, routes, healthVars, budgetVars,
                       cancelled, requests>>

\* The request's future is dropped: its task, if it owns one, runs on.
DropCallerAndTask(c) ==    \* bug: the attempt runs inside the request's own future
    /\ MayDrop
    /\ callers[c].pc \in {"captured", "loaded", "deciding", "waiting"}
    /\ callers' = [callers EXCEPT ![c] = Idle]
    /\ tasks' = [t \in Attempts |-> IF tasks[t].owner = c THEN NoAttempt ELSE tasks[t]]
    /\ UNCHANGED <<dbVars, config, lifecycle, insts, routes, registry, healthVars,
                   budgetVars, cancelled, requests>>
DropCaller(c) ==
    /\ MayDrop
    /\ callers[c].pc \in {"captured", "loaded", "deciding", "waiting"}
    /\ callers' = [callers EXCEPT ![c] = Idle]
    /\ tasks' = [t \in Attempts |-> IF tasks[t].owner = c
                                    THEN [tasks[t] EXCEPT !.owner = None] ELSE tasks[t]]
    /\ UNCHANGED <<dbVars, config, lifecycle, insts, routes, registry, healthVars,
                   budgetVars, cancelled, requests>>

-----------------------------------------------------------------------------
(* enable_server_coordinated: the handler of an enable event *)

EnableCaptures(c) ==
    /\ Request("enable")
    /\ callers[c].pc \in {"idle", "panicked"}
    /\ callers' = [callers EXCEPT ![c] = [Idle EXCEPT !.pc = "captured", !.gen = lifecycle]]
    /\ UNCHANGED <<dbVars, config, lifecycle, insts, routes, registry, tasks,
                   healthVars, budgetVars, cancelled>>

\* Outside of the lock.  The row is loaded whether it is enabled or not; only a
\* namespace issue or a missing row ends the request.
EnableLoads(c) ==
    /\ callers[c].pc = "captured"
    /\ callers' = [callers EXCEPT ![c] =
           IF stored.cfg = None \/ stored.mode = "blocked" THEN Idle
           ELSE [@ EXCEPT !.pc = "loaded", !.load = stored.cfg]]
    /\ UNCHANGED <<dbVars, config, lifecycle, insts, routes, registry, tasks,
                   healthVars, budgetVars, cancelled, requests>>

\* update_configuration gives a server without shared instances a placeholder.
WithPlaceholder ==
    IF In(Default) = {} THEN [insts EXCEPT ![FreshInstance] = Placeholder(Default)] ELSE insts

GenerationIgnored(c) == callers[c].gen \in Nat    \* bug: the generation is not compared
GenerationHolds(c) == callers[c].gen = lifecycle

EnableApplies(c) ==
    /\ callers[c].pc = "loaded"
    /\ GenerationHolds(c)
    /\ In(Default) = {} => FreeInstances # {}
    /\ config' = callers[c].load
    /\ insts' = WithPlaceholder
    /\ callers' = [callers EXCEPT ![c] = [Idle EXCEPT !.pc = "deciding", !.key = Default]]
    /\ UNCHANGED <<dbVars, lifecycle, routes, registry, tasks, healthVars,
                   budgetVars, cancelled, requests>>

\* The generation moved on while the configuration was loaded.
EnableBails(c) ==
    /\ callers[c].pc = "loaded"
    /\ ~GenerationHolds(c)
    /\ callers' = [callers EXCEPT ![c] = Idle]
    /\ UNCHANGED <<dbVars, config, lifecycle, insts, routes, registry, tasks,
                   healthVars, budgetVars, cancelled, requests>>

-----------------------------------------------------------------------------
(* The stored row, and the pool's copy of it *)

SetMode(m) ==
    /\ Request("mode")
    /\ stored.cfg # None /\ stored.mode # m
    /\ stored' = [stored EXCEPT !.mode = m]
    /\ UNCHANGED <<pending, secret, config, lifecycle, insts, routes, startVars,
                   healthVars, budgetVars, cancelled>>

\* update_server commits the row before it takes the pool's lock.
StoreUpdate(v) ==
    /\ Request("update")
    /\ stored.cfg \notin {None, v} /\ ~pending
    /\ stored' = [stored EXCEPT !.cfg = v]
    /\ pending' = TRUE
    /\ UNCHANGED <<secret, config, lifecycle, insts, routes, startVars,
                   healthVars, budgetVars, cancelled>>

\* delete_server looks for instances under the server's name, where there are
\* none, and leaves the pool to the next synchronization.
Delete ==
    /\ Request("delete")
    /\ stored.cfg # None /\ ~pending
    /\ stored' = [stored EXCEPT !.cfg = None]
    /\ UNCHANGED <<pending, secret, config, lifecycle, insts, routes, startVars,
                   healthVars, budgetVars, cancelled>>

RotateSecret(s) ==
    /\ Request("rotate")
    /\ s # secret
    /\ secret' = s
    /\ UNCHANGED <<stored, pending, config, lifecycle, insts, routes, startVars,
                   healthVars, budgetVars, cancelled>>

NoInstances == [i \in Instances |-> Absent]
NoRoutes    == [k \in Keys |-> None]

\* set_config drops the shared instances of a server that is gone from the
\* configuration; its bound instances and its routes stay.
SharedDropped == [i \in Instances |-> IF i \in In(Default) THEN Absent ELSE insts[i]]

\* The first shared instance of a server that nothing connects becomes idle.
Rested(i) == IF insts[i].status \in {"Shutdown", "Initializing"}
             THEN [insts EXCEPT ![i].status = "Idle"] ELSE insts

\* sync_servers_from_active_profile, given the connections it starts from.
SyncBlocked ==
    /\ stored.cfg # None /\ stored.mode = "blocked"
    /\ insts' = NoInstances /\ routes' = NoRoutes
    /\ config' = None \/ (MayDrop /\ UNCHANGED config)   \* dropped while it loads the rest

SyncRemoves ==
    /\ stored.cfg = None \/ stored.mode = "disabled"
    /\ config' = None /\ insts' = SharedDropped /\ UNCHANGED routes

SyncKeeps ==
    /\ stored.cfg # None /\ stored.mode = "enabled"
    /\ config' = stored.cfg
    /\ UNCHANGED routes
    /\ IF In(Default) = {}
       THEN FreeInstances # {} /\ insts' = WithPlaceholder
       ELSE IF \E i \in In(Default) : insts[i].status = "Ready"
            THEN UNCHANGED insts
            ELSE \E i \in In(Default) : insts' = Rested(i)

Synchronize ==
    /\ Request("sync")
    /\ SyncBlocked \/ SyncRemoves \/ SyncKeeps
    /\ Cancel({})
    /\ UNCHANGED <<dbVars, lifecycle, startVars, healthVars, budgetVars>>

\* update_server, under the lock: invalidate_server_runtime removes everything
\* of the server, then the synchronization starts from nothing.
ApplyUpdate ==
    /\ pending /\ pending' = FALSE
    /\ routes' = NoRoutes
    /\ IF stored.cfg # None /\ stored.mode = "enabled"
       THEN /\ config' = stored.cfg
            /\ NotInFlight # {}
            /\ insts' = [NoInstances EXCEPT ![CHOOSE i \in NotInFlight : TRUE] = Placeholder(Default)]
       ELSE config' = None /\ insts' = NoInstances
    /\ Cancel({})
    /\ UNCHANGED <<stored, secret, lifecycle, startVars, healthVars, budgetVars, requests>>

\* The request is dropped while it waits for the lock.
AbandonUpdate ==
    /\ MayDrop
    /\ pending /\ pending' = FALSE
    /\ UNCHANGED <<stored, secret, config, lifecycle, insts, routes, startVars,
                   healthVars, budgetVars, cancelled, requests>>

\* disable_server_runtime, for a profile event or the global disable.  A request
\* dropped at its first disconnect leaves the instances where they are.
DisableRuntime ==
    /\ Request("disable")
    /\ lifecycle < MaxLifecycle
    /\ lifecycle' = lifecycle + 1
    /\ config' = None
    /\ \/ insts' = NoInstances /\ routes' = NoRoutes
       \/ MayDrop /\ UNCHANGED <<insts, routes>>
    /\ Cancel({})
    /\ UNCHANGED <<dbVars, startVars, healthVars, budgetVars>>

-----------------------------------------------------------------------------
(* Operator requests, and failures reported by calls *)

\* disconnect, blocking or not: a bound instance leaves the pool, a shared one
\* stays as Shutdown, and no route leads to either any more.
Disconnected(i) ==
    [insts EXCEPT ![i] = IF @.place = Default
                         THEN [@ EXCEPT !.status = "Shutdown", !.svc = None] ELSE Absent]
Unrouted(i) == [k \in Keys |-> IF routes[k] = i THEN None ELSE routes[k]]

Disconnects(i) ==
    /\ insts' = Disconnected(i)
    /\ routes' = Unrouted(i)
    /\ Cancel({})

\* The future is dropped while it shuts the service down or looks up a name for
\* the log: the instance keeps its place and its routes.
Interrupted(i) ==
    /\ MayDrop
    /\ \E status \in {insts[i].status, "Shutdown"} :
           insts' = [insts EXCEPT ![i] = [@ EXCEPT !.status = status, !.svc = None]]
    /\ UNCHANGED routes
    /\ Cancel({})

\* Disconnect, Cancel and ForceDisconnect.
Disconnect(i) ==
    /\ Request("disconnect")
    /\ Exists(i) /\ insts[i].status # "Shutdown"
    /\ Disconnects(i) \/ Interrupted(i)
    /\ UNCHANGED <<dbVars, config, lifecycle, startVars, healthVars, budgetVars>>

\* connect_internal on instance i of the connections ii.  It runs under the
\* pool's lock from its first line to its last, transport included; the future
\* of the request may be dropped at that await.
ConnectRefused(ii, i) ==
    stored.mode = "blocked" \/ failure.backoff \/ config = None \/ ii[i].place = None

ConnectFrom(ii, i) ==
    /\ epochs' = [epochs EXCEPT ![i] = None]
    /\ \/ /\ ConnectRefused(ii, i)
          /\ insts' = ii
          /\ UNCHANGED budgetVars
       \/ /\ ~ConnectRefused(ii, i)
          /\ FreeServices # {}
          /\ insts' = [ii EXCEPT ![i] = Served(@, Current)]
          /\ Cleared
       \/ /\ ~ConnectRefused(ii, i)
          /\ \E r \in Results \ {"ok"} :
                 Fails(r) /\ insts' = [ii EXCEPT ![i].status = ErrorOf(r)]
       \/ /\ ~ConnectRefused(ii, i)
          /\ MayDrop
          /\ insts' \in {ii, [ii EXCEPT ![i].status = "Initializing"]}
          /\ UNCHANGED budgetVars
    /\ Cancel({})

Connect(i) ==
    /\ Request("connect")
    /\ Exists(i) /\ insts[i].status \in {"Idle", "Error", "Permanent", "Shutdown"}
    /\ ConnectFrom(insts, i)
    /\ UNCHANGED <<dbVars, config, lifecycle, routes, startVars, recon>>

\* Reconnect, and ResetReconnect of an instance that is not shut down.
Relaunch(i) ==
    /\ Request("relaunch")
    /\ Exists(i)
    /\ routes' = Unrouted(i)
    /\ ConnectFrom(Disconnected(i), i)
    /\ UNCHANGED <<dbVars, config, lifecycle, startVars, recon>>

\* reap_idle_instances.
Reap(i) ==
    /\ Request("reap")
    /\ i \in In(Default) /\ insts[i].status = "Ready"
    /\ Disconnects(i)
    /\ UNCHANGED <<dbVars, config, lifecycle, startVars, healthVars, budgetVars>>

\* handle_runtime_failure, for a call that went out on the instance at some
\* earlier time; only a gone session or transport tears the instance down.
CallFails(i, gone) ==
    /\ Request("callfails")
    /\ Exists(i) /\ insts[i].rt # None
    /\ BacksOff
    /\ IF gone THEN Disconnects(i) \/ Interrupted(i) ELSE UNCHANGED <<insts, routes, cancelled>>
    /\ UNCHANGED <<dbVars, config, lifecycle, startVars, healthVars>>

CallSucceeds ==
    /\ Request("succeed")
    /\ \E i \in Instances : insts[i].status = "Ready"
    /\ failure # [starts |-> 0, backoff |-> FALSE]
    /\ Cleared
    /\ UNCHANGED <<dbVars, config, lifecycle, insts, routes, startVars, healthVars,
                   cancelled>>

\* existing_owner finds that the upstream closed the selected service.
EvictClosed(i) ==
    /\ Request("evict")
    /\ \E k \in Keys : i \in Selectable(k)
    /\ BacksOff
    /\ insts' = [insts EXCEPT ![i] = [@ EXCEPT !.status = "Shutdown", !.svc = None]]
    /\ Cancel({})
    /\ UNCHANGED <<dbVars, config, lifecycle, routes, startVars, healthVars>>

BackoffEnds ==
    /\ failure.backoff
    /\ failure' = [failure EXCEPT !.backoff = FALSE]
    /\ UNCHANGED <<dbVars, config, lifecycle, insts, routes, startVars, healthVars,
                   launches, cancelled, requests>>

-----------------------------------------------------------------------------
(* Health reconnects *)

\* claim_automatic_recovery_attempt.
ClaimForgotten ==    \* bug: the budget is looked at and not charged
    failure.starts < MaxStarts /\ UNCHANGED failure /\ launches' = launches + 1
ClaimStart ==
    /\ failure.starts < MaxStarts
    /\ failure' = [failure EXCEPT !.starts = @ + 1]
    /\ launches' = launches + 1

\* Phase 1, for an intent collected earlier.  An hour may pass at any time, so
\* a ready instance may be due for its periodic reconnect.  It is not asked
\* whether the pool has a configuration: without one the transport fails.
HealthBegins(h, i) ==
    /\ recon[h].phase = "free"
    /\ \A g \in Reconnects : recon[g].inst # i
    /\ i \in In(Default) /\ insts[i].status \in {"Ready", "Error"}
    /\ ~failure.backoff
    /\ ClaimStart
    /\ epochs' = [epochs EXCEPT ![i] = h]
    /\ insts' = [insts EXCEPT ![i].status = "Initializing"]
    /\ recon' = [recon EXCEPT ![h] =
           [phase |-> "connecting", inst |-> i, rt |-> Current, held |-> insts[i].svc]]
    /\ UNCHANGED <<dbVars, config, lifecycle, routes, startVars, cancelled, requests>>

OwnsEpoch(h) == epochs[recon[h].inst] = h
\* The secrets are not compared: the next demand finds the difference.
HealthStillOwned(h) ==
    /\ Exists(recon[h].inst)
    /\ insts[recon[h].inst].status = "Initializing"
    /\ OwnsEpoch(h)
    /\ config = recon[h].rt.cfg

HealthDiscarding(h, service) ==
    recon' = [recon EXCEPT ![h] = [NoReconnect EXCEPT !.phase = "discarding",
                                                      !.inst = recon[h].inst, !.held = service]]

\* The transport resolved the secrets at some time since phase 1.
HealthPublishes(h) ==
    LET i == recon[h].inst
    IN  /\ recon[h].phase = "connecting"
        /\ HealthStillOwned(h)
        /\ recon[h].rt.cfg # None
        /\ FreeServices # {}
        /\ \E s \in {recon[h].rt.sec, secret} :
               insts' = [insts EXCEPT ![i] = Served(@, [recon[h].rt EXCEPT !.sec = s])]
        /\ epochs' = [epochs EXCEPT ![i] = None]
        /\ HealthDiscarding(h, insts[i].svc)
        /\ Cleared
        /\ Cancel({})
        /\ UNCHANGED <<dbVars, config, lifecycle, routes, startVars, requests>>

\* The worker's clone, with the old service, takes the instance's place; the
\* start was claimed in phase 1 and is not counted again.
HealthFails(h, r) ==
    LET i == recon[h].inst
    IN  /\ recon[h].phase = "connecting"
        /\ r # "ok"
        /\ HealthStillOwned(h)
        /\ insts' = [insts EXCEPT ![i] = [@ EXCEPT !.status = ErrorOf(r), !.svc = recon[h].held]]
        /\ epochs' = [epochs EXCEPT ![i] = None]
        /\ HealthDiscarding(h, insts[i].svc)
        /\ IF r = "auth" THEN Cleared ELSE BacksOff
        /\ Cancel({})
        /\ UNCHANGED <<dbVars, config, lifecycle, routes, startVars, requests>>

HealthInvalidated(h, r) ==
    LET i == recon[h].inst
    IN  /\ recon[h].phase = "connecting"
        /\ ~HealthStillOwned(h)
        /\ epochs' = IF OwnsEpoch(h) THEN [epochs EXCEPT ![i] = None] ELSE epochs
        /\ insts' = IF OwnsEpoch(h) THEN Settled(i) ELSE insts
        /\ HealthDiscarding(h, IF r = "ok" THEN None ELSE recon[h].held)
        /\ UNCHANGED <<dbVars, config, lifecycle, routes, startVars, budgetVars,
                       cancelled, requests>>

HealthDiscards(h) ==
    /\ recon[h].phase = "discarding"
    /\ recon' = [recon EXCEPT ![h] = NoReconnect]
    /\ UNCHANGED insts
    /\ Cancel({recon[h].held})
    /\ UNCHANGED <<dbVars, config, lifecycle, routes, startVars, epochs,
                   budgetVars, requests>>

-----------------------------------------------------------------------------
(* The whole *)

Init ==
    /\ stored \in [cfg : Versions, mode : {"enabled"}]
    /\ pending = FALSE
    /\ secret \in Secrets
    /\ config = stored.cfg
    /\ lifecycle = 0
    /\ insts = [NoInstances EXCEPT ![CHOOSE i \in Instances : TRUE] = Placeholder(Default)]
    /\ routes = NoRoutes
    /\ registry = [k \in Keys |-> None]
    /\ tasks = [t \in Attempts |-> NoAttempt]
    /\ epochs = [i \in Instances |-> None]
    /\ recon = [h \in Reconnects |-> NoReconnect]
    /\ failure = [starts |-> 0, backoff |-> FALSE]
    /\ launches = 0
    /\ callers = [c \in Callers |-> Idle]
    /\ cancelled = {}
    /\ requests = 0

CallerSteps(c) ==
    \/ \E k \in Keys : Demand(c, k)
    \/ EnableCaptures(c)
    \/ DropCaller(c)

CallerContinues(c) ==
    \/ PrepareAnswers(c) \/ PrepareJoins(c) \/ PrepareOwns(c) \/ PreparePanics(c)
    \/ EnableLoads(c) \/ EnableApplies(c) \/ EnableBails(c)

TaskContinues(t) ==
    \/ TransportBegins(t) \/ PublishReady(t) \/ Discard(t) \/ CleanUpPanic(t)
    \/ \E r \in Results : PublishFailed(t, r) \/ PublishSuperseded(t, r) \/ PublishUnclaimed(t, r)

ReconnectContinues(h) ==
    \/ HealthPublishes(h) \/ HealthDiscards(h)
    \/ \E r \in Results : HealthFails(h, r) \/ HealthInvalidated(h, r)

Administer ==
    \/ \E m \in Modes : SetMode(m)
    \/ \E v \in Versions : StoreUpdate(v)
    \/ \E s \in Secrets : RotateSecret(s)
    \/ Delete \/ Synchronize \/ ApplyUpdate \/ AbandonUpdate \/ DisableRuntime

Operate ==
    \E i \in Instances :
        \/ Disconnect(i) \/ Connect(i) \/ Relaunch(i) \/ Reap(i) \/ EvictClosed(i)
        \/ \E gone \in BOOLEAN : CallFails(i, gone)

Next ==
    \/ \E c \in Callers : CallerSteps(c) \/ CallerContinues(c)
    \/ \E t \in Attempts : TaskContinues(t) \/ TaskPanics(t)
    \/ \E h \in Reconnects : ReconnectContinues(h) \/ \E i \in Instances : HealthBegins(h, i)
    \/ Administer \/ Operate \/ CallSucceeds \/ BackoffEnds

Spec == Init /\ [][Next]_vars

-----------------------------------------------------------------------------
(* Properties *)

Running == {"spawned", "connecting"}

\* Whoever waits for a startup attempt will be told: the attempt is the
\* waiter's own, or it is still registered where its result is looked up and a
\* task, or the owner that cleans up after it, is there to send one.
NoStrandedWaiter ==
    \A c \in Callers : callers[c].pc = "waiting" =>
        LET t == callers[c].task
        IN  \/ tasks[t].owner = c /\ tasks[t].phase # "free"
            \/ /\ registry[callers[c].key] = t
               /\ \/ tasks[t].phase \in Running
                  \/ tasks[t].phase = "panicked" /\ tasks[t].owner # None

\* An instance is Initializing only while the startup attempt or the health
\* reconnect that will move it on is in flight; prepare, disconnect, sync and
\* the operator's connect take instances from each other in any order.
InitializingHasOwner ==
    \A i \in Instances : insts[i].status = "Initializing" =>
        \/ \E k \in Keys : /\ registry[k] # None
                          /\ tasks[registry[k]].inst = i
                          /\ tasks[registry[k]].phase \in Running \cup {"panicked"}
        \/ /\ epochs[i] # None
           /\ recon[epochs[i]].phase = "connecting"
           /\ recon[epochs[i]].inst = i

\* Two affinities are never routed to one instance, and a route leads into the
\* partition of its own affinity.
AffinityIsolation ==
    \A k \in Keys : routes[k] # None =>
        /\ \A l \in Keys : routes[l] = routes[k] => l = k
        /\ Exists(routes[k]) => insts[routes[k]].place = k

\* A ready instance and its service: no other instance has the same one, and no
\* attempt that lost, was superseded or came late has cancelled it.
ServedServiceLive ==
    \A i \in Instances : insts[i].status = "Ready" /\ insts[i].svc # None =>
        /\ insts[i].svc \notin cancelled
        /\ \A j \in Instances : insts[j].svc = insts[i].svc => j = i

\* Between two successes, health maintenance starts a server no more often
\* than the automatic budget allows, however its starts mix with demands.
RecoveryBudget == launches <= MaxStarts

\* A server without configuration has no shared instance: a late result never
\* brings back a server that was disabled or removed.
DisabledStaysDown == config = None => In(Default) = {}

\* An instance becomes ready only with the configuration the pool has then.
FreshPublication ==
    [][\A i \in Instances :
          insts[i].status # "Ready" /\ insts'[i].status = "Ready" => insts'[i].rt.cfg = config']_vars

\* The result of a startup task or a health reconnect leaves every instance
\* that became ready in the meantime as it is.
LateResultHarmless ==
    [][(\/ \E t \in Attempts : tasks[t].phase = "connecting" /\ tasks'[t].phase = "discarding"
        \/ \E h \in Reconnects : recon[h].phase = "connecting" /\ recon'[h].phase = "discarding")
       => \A i \in Instances : insts[i].status = "Ready" => insts'[i] = insts[i]]_vars

\* Once a server is off and stored as off, no enable that began before the
\* last disable puts its configuration back.
DisableIsFinal ==
    [][(/\ config = None
        /\ stored.cfg = None \/ stored.mode # "enabled"
        /\ \A c \in Callers : callers[c].pc \in {"captured", "loaded"} => callers[c].gen # lifecycle)
       => config' = None]_vars

\* The pool keeps the promise of UpstreamServices: whatever interleaves, an
\* instance becomes ready with a service that nobody had, the worker left with
\* the old one never cancels the new one, and no service is served twice.
Serving  == [i \in Instances |-> IF insts[i].status = "Ready" THEN insts[i].svc ELSE None]
Retained ==
    ({insts[i].svc : i \in Instances} \cup {tasks[t].held : t \in Attempts}
        \cup {recon[h].held : h \in Reconnects}) \ ({Serving[i] : i \in Instances} \cup {None})
Promise  == INSTANCE UpstreamServices WITH serving <- Serving, retained <- Retained
KeepsPromise == Promise!Spec

\* A claim of the source that the code does not keep; a run shows how.
\* "allocated production instance exists": no demand dies in prepare.
NoDemandPanics == \A c \in Callers : callers[c].pc # "panicked"

-----------------------------------------------------------------------------
(* Liveness *)

\* Transports run under timeouts, the runtime polls every task, and a request
\* that is not dropped goes on when it can.
Fairness ==
    /\ \A c \in Callers : WF_vars(CallerContinues(c))
    /\ \A t \in Attempts : WF_vars(TaskContinues(t))
    /\ \A h \in Reconnects : WF_vars(ReconnectContinues(h))
FairSpec == Spec /\ Fairness

\* Every demand is answered, however its attempts are superseded.
DemandAnswered ==
    \A c \in Callers : callers[c].pc \in {"deciding", "waiting"} ~> callers[c].pc \in {"idle", "panicked"}

=============================================================================
