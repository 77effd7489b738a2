--------------------------- MODULE PreviewOwners ----------------------------
(***************************************************************************)
(* Preview owners: upstreams that are started to preview a server's        *)
(* capabilities, kept for other previews of the same subject, and promoted *)
(* to the production route of the server when a demand wants what they     *)
(* already run.                                                            *)
(*                                                                         *)
(* A subject has a key (namespace and configuration) and a print, the      *)
(* fingerprint of what is really launched.  A start stands for one launch  *)
(* of an upstream: its task, and the service it gives.  An action is what  *)
(* runs under the pool's lock, or between two awaits.  Of production there *)
(* is the shared route of one server, with its startup attempt; what else  *)
(* happens to routes is in UpstreamPool.                                   *)
(*                                                                         *)
(* Time is a flag: an owner that is not renewed expires, and the task that *)
(* collects it was spawned at its last renewal (armed) or at an earlier    *)
(* one (early); only the first is sure to find it expired.                 *)
(***************************************************************************)
EXTENDS Integers, FiniteSets

CONSTANTS
    Keys,           \* subjects, without what is launched for them
    ServerKey,      \* the key of the server that production has a route for
    Prints,         \* runtime fingerprints
    Previews,       \* requests that preview
    Demands,        \* requests that need the server's production connection
    Starts,         \* launches
    None,           \* no launch, no print, no key
    MaxRequests,    \* bound: previews and demands
    MaxRotations,   \* bound: changes of what the server's configuration launches, and resets of its route by a reload
    MaxFaults,      \* bound: services that close
    MaxDrops        \* bound: previews whose request is dropped

ASSUME NoneAssumption == None \notin Starts
ASSUME ServerKeyAssumption == ServerKey \in Keys

VARIABLES
    owner,          \* preview_owners
    attempt,        \* preview_attempts: the start that a key's next owner will come from
    start,          \* every launch: its task, what it publishes and its service
    preview,        \* where each preview is in preview_capabilities_coordinated
    demand,         \* where each demand is in ensure_connected_coordinated
    route,          \* the shared production connection
    startup,        \* startup_attempts, of the shared route
    config,         \* the print of the server's runtime configuration, its secrets resolved
    literal,        \* whether it has no secret placeholders: its print before they are resolved is config
    spent           \* what is spent of the bounds

vars == <<owner, attempt, start, preview, demand, route, startup, config, literal, spent>>

-----------------------------------------------------------------------------
NoOwner == [svc |-> None, expired |-> FALSE, armed |-> FALSE, early |-> FALSE]

(* A launch that is over, and one whose request still has to spawn its task. *)
Over == [phase |-> "over", key |-> None, print |-> None, open |-> FALSE, outcome |-> "none"]

Launch(k, f, phase) == [Over EXCEPT !.phase = phase, !.key = k, !.print = f]

Asleep == [pc |-> "idle", key |-> None, print |-> None, at |-> None, plan |-> "none", todo |-> {}]

Rest == [pc |-> "idle", print |-> None, at |-> None]

Down == [svc |-> None, status |-> "down"]

Spend(bound, max) == spent[bound] < max /\ spent' = [spent EXCEPT ![bound] = @ + 1]

Open(t) == t # None /\ start[t].open

Runs(t, f) == t # None /\ start[t].print = f

(* Who has a hold of a launch: the registries, the route, and the requests that wait for it, use *)
(* its service or are to discard it. *)
Held(t) ==
    \/ \E k \in Keys : owner[k].svc = t \/ attempt[k] = t
    \/ route.svc = t \/ startup = t
    \/ \E p \in Previews : preview[p].at = t \/ t \in preview[p].todo
    \/ \E d \in Demands : demand[d].at = t

Fresh(t) == start[t].phase = "over" /\ ~Held(t)

(* discard_startup_result; all that is left of a launch is what its waiters are told. *)
Discarded(starts, gone) ==
    [t \in Starts |-> IF t \in gone THEN [Over EXCEPT !.outcome = starts[t].outcome] ELSE starts[t]]

Told(starts, t, outcome) ==
    [u \in Starts |-> IF u = t THEN [starts[u] EXCEPT !.outcome = outcome] ELSE starts[u]]

(* The owner that a launch becomes; publishing it spawns the task that collects it. *)
OwnerOf(t) == [svc |-> t, expired |-> FALSE, armed |-> TRUE, early |-> FALSE]

ArmedOnce(owners, k, svc) == owners    \* bug: only the publication spawns a task that collects

(* Spawning the collecting task after a renewal; without the owner it was meant for it does nothing. *)
Armed(owners, k, svc) ==
    IF svc # None /\ owners[k].svc = svc THEN [owners EXCEPT ![k].armed = TRUE] ELSE owners

-----------------------------------------------------------------------------
Init ==
    /\ owner = [k \in Keys |-> NoOwner]
    /\ attempt = [k \in Keys |-> None]
    /\ start = [t \in Starts |-> Over]
    /\ preview = [p \in Previews |-> Asleep]
    /\ demand = [d \in Demands |-> Rest]
    /\ route = Down
    /\ startup = None
    /\ config \in Prints
    /\ literal \in BOOLEAN
    /\ spent = [requests |-> 0, rotations |-> 0, faults |-> 0, drops |-> 0]

Ask(p, k, f) ==
    /\ preview[p].pc = "idle"
    /\ Spend("requests", MaxRequests)
    /\ preview' = [preview EXCEPT ![p] = [Asleep EXCEPT !.pc = "acquire", !.key = k, !.print = f]]
    /\ UNCHANGED <<owner, attempt, start, demand, route, startup, config, literal>>

(* What an acquisition leads to: the request discards what it took out of the registry, and only then *)
(* does what it planned. *)
Carry(p, plan, t, todo, owners, starts) ==
    IF todo # {}
    THEN /\ preview' = [preview EXCEPT ![p].pc = "discard", ![p].plan = plan, ![p].at = t, ![p].todo = todo]
         /\ owner' = owners /\ start' = starts
    ELSE /\ preview' = [preview EXCEPT ![p].pc = IF plan = "discover" THEN "discover" ELSE "wait",
                                       ![p].plan = "none", ![p].at = t, ![p].todo = {}]
         /\ owner' = IF plan = "discover" THEN Armed(owners, preview[p].key, t) ELSE owners
         /\ start' = IF plan = "spawn" THEN [starts EXCEPT ![t].phase = "connecting"] ELSE starts

(* prepare_preview_acquisition *)
Swept == [k \in Keys |-> IF owner[k].expired THEN NoOwner ELSE owner[k]]

ReusableWhateverRuns(p) ==    \* bug: the prints are not compared
    Open(Swept[preview[p].key].svc)

Reusable(p) ==
    LET entry == Swept[preview[p].key]
    IN  Open(entry.svc) /\ Runs(entry.svc, preview[p].print)

TakenOrNone(p) ==    \* bug: what is not there is discarded, too
    {owner[k].svc : k \in {j \in Keys : owner[j].expired \/ (j = preview[p].key /\ ~Reusable(p))}}

TakenExpired(p) ==    \* bug: a stale owner is only removed
    {owner[k].svc : k \in {j \in Keys : owner[j].svc # None /\ owner[j].expired}}

Taken(p) ==    \* the owners that the request is to discard
    {owner[k].svc : k \in {j \in Keys : owner[j].svc # None /\
                                         (owner[j].expired \/ (j = preview[p].key /\ ~Reusable(p)))}}

Reuse(p) ==
    LET k == preview[p].key
        entry == owner[k]
    IN  /\ preview[p].pc = "acquire" /\ Reusable(p)
        /\ Carry(p, "discover", entry.svc, Taken(p),
                 [Swept EXCEPT ![k] = [entry EXCEPT !.armed = FALSE, !.early = entry.early \/ entry.armed]],
                 start)
        /\ UNCHANGED <<attempt, demand, route, startup, config, literal, spent>>

Remaining(p) == [Swept EXCEPT ![preview[p].key] = NoOwner]

Joinable(p) == Runs(attempt[preview[p].key], preview[p].print)

JoinPreview(p) ==
    /\ preview[p].pc = "acquire" /\ ~Reusable(p) /\ Joinable(p)
    /\ Carry(p, "wait", attempt[preview[p].key], Taken(p), Remaining(p), start)
    /\ UNCHANGED <<attempt, demand, route, startup, config, literal, spent>>

(* An attempt with another print is superseded, and its joiners fail. *)
Superseded(p) ==
    LET t == attempt[preview[p].key] IN IF t = None THEN start ELSE Told(start, t, "failed")

AsProduction(p) ==
    /\ preview[p].key = ServerKey
    /\ route.status = "ready" /\ Open(route.svc) /\ Runs(route.svc, preview[p].print)

StartingInProduction(p) ==
    preview[p].key = ServerKey /\ Runs(startup, preview[p].print)

Acquires(p) == preview[p].pc = "acquire" /\ ~Reusable(p) /\ ~Joinable(p)

UseProduction(p) ==
    /\ Acquires(p) /\ (AsProduction(p) \/ StartingInProduction(p))
    /\ attempt' = [attempt EXCEPT ![preview[p].key] = None]
    /\ IF AsProduction(p)
       THEN Carry(p, "discover", route.svc, Taken(p), Remaining(p), Superseded(p))
       ELSE Carry(p, "wait", startup, Taken(p), Remaining(p), Superseded(p))
    /\ UNCHANGED <<demand, route, startup, config, literal, spent>>

Own(p, t) ==
    /\ Acquires(p) /\ ~AsProduction(p) /\ ~StartingInProduction(p)
    /\ Fresh(t)
    /\ attempt' = [attempt EXCEPT ![preview[p].key] = t]
    /\ Carry(p, "spawn", t, Taken(p), Remaining(p),
             [Superseded(p) EXCEPT ![t] = Launch(preview[p].key, preview[p].print, "unspawned")])
    /\ UNCHANGED <<demand, route, startup, config, literal, spent>>

(* The owners it took are discarded, one after the other; then the plan. *)
Discard(p) ==
    /\ preview[p].pc = "discard"
    /\ Carry(p, preview[p].plan, preview[p].at, {}, owner, Discarded(start, preview[p].todo))
    /\ UNCHANGED <<attempt, demand, route, startup, config, literal, spent>>

(* What a request waits for tells it to look again, or that it failed; or it waited for too long. *)
Heard(p) ==
    /\ preview[p].pc = "wait"
    /\ preview' = [preview EXCEPT ![p] =
            IF start[preview[p].at].outcome = "published"
            THEN [Asleep EXCEPT !.pc = "acquire", !.key = preview[p].key, !.print = preview[p].print]
            ELSE Asleep]
    /\ UNCHANGED <<owner, attempt, start, demand, route, startup, config, literal, spent>>

Discovered(p) ==
    /\ preview[p].pc = "discover"
    /\ preview' = [preview EXCEPT ![p] = Asleep]
    /\ UNCHANGED <<owner, attempt, start, demand, route, startup, config, literal, spent>>

(* The request is dropped: what it was discarding closes with it, and its plan is forgotten. *)
Drop(p) ==
    /\ preview[p].pc \in {"discard", "wait", "discover"}
    /\ Spend("drops", MaxDrops)
    /\ start' = Discarded(start, preview[p].todo)
    /\ preview' = [preview EXCEPT ![p] = Asleep]
    /\ UNCHANGED <<owner, attempt, demand, route, startup, config, literal>>

-----------------------------------------------------------------------------
Connects(t) ==
    /\ start[t].phase = "connecting"
    /\ start' = [start EXCEPT ![t].phase = "connected", ![t].open = TRUE]
    /\ UNCHANGED <<owner, attempt, preview, demand, route, startup, config, literal, spent>>

(* spawn_preview_attempt: the launch becomes the owner if its attempt is still the registered one. *)
PublishOwner(t) ==
    LET k == start[t].key IN
    /\ start[t].phase = "connected" /\ startup # t
    /\ IF attempt[k] = t
       THEN /\ owner' = [owner EXCEPT ![k] = OwnerOf(t)]
            /\ attempt' = [attempt EXCEPT ![k] = None]
            /\ start' = [start EXCEPT ![t].phase = "live", ![t].outcome = "published"]
       ELSE /\ start' = Discarded(start, {t})
            /\ UNCHANGED <<owner, attempt>>
    /\ UNCHANGED <<preview, demand, route, startup, config, literal, spent>>

FailUnclaimed(t) ==    \* bug: the attempt of a failed launch stays registered
    /\ start[t].phase = "connecting" /\ startup # t
    /\ start' = Told(Discarded(start, {t}), t, "failed")
    /\ UNCHANGED <<owner, attempt, preview, demand, route, startup, config, literal, spent>>

(* The launch fails, or its task panics. *)
FailOwner(t) ==
    LET k == start[t].key IN
    /\ start[t].phase = "connecting" /\ startup # t
    /\ IF attempt[k] = t
       THEN /\ attempt' = [attempt EXCEPT ![k] = None]
            /\ start' = Told(Discarded(start, {t}), t, "failed")
       ELSE /\ start' = Discarded(start, {t})
            /\ UNCHANGED attempt
    /\ UNCHANGED <<owner, preview, demand, route, startup, config, literal, spent>>

(* An owner that nobody renews expires, and the task that finds it expired discards it. *)
Expire(k) ==
    /\ owner[k].svc # None /\ ~owner[k].expired
    /\ owner' = [owner EXCEPT ![k].expired = TRUE]
    /\ UNCHANGED <<attempt, start, preview, demand, route, startup, config, literal, spent>>

Collect(k) ==
    /\ owner[k].armed \/ owner[k].early
    /\ owner[k].expired
    /\ owner' = [owner EXCEPT ![k] = NoOwner]
    /\ start' = Discarded(start, {owner[k].svc})
    /\ UNCHANGED <<attempt, preview, demand, route, startup, config, literal, spent>>

CollectTooEarly(k) ==
    /\ owner[k].early /\ ~owner[k].expired
    /\ owner' = [owner EXCEPT ![k].early = FALSE]
    /\ UNCHANGED <<attempt, start, preview, demand, route, startup, config, literal, spent>>

Closes(t) ==    \* the upstream goes away
    /\ start[t].phase = "live" /\ start[t].open
    /\ Spend("faults", MaxFaults)
    /\ start' = [start EXCEPT ![t].open = FALSE]
    /\ UNCHANGED <<owner, attempt, preview, demand, route, startup, config, literal>>

-----------------------------------------------------------------------------
(* A demand of the shared route: promote_matching_preview_owner looks for a candidate, *)
Candidate == owner[ServerKey].svc # None \/ attempt[ServerKey] # None

ServesAs(f) == route.status = "ready" /\ Runs(route.svc, f)

Check(d) ==
    /\ demand[d].pc = "idle"
    /\ Spend("requests", MaxRequests)
    /\ demand' = [demand EXCEPT ![d] =
            IF ServesAs(config) \/ ~Candidate THEN [Rest EXCEPT !.pc = "prepare"]
            ELSE [Rest EXCEPT !.pc = "promote", !.print = config]]
    /\ UNCHANGED <<owner, attempt, start, preview, route, startup, config, literal>>

PromotableByPrint(f) ==    \* bug: the configuration is not looked at again
    LET entry == owner[ServerKey]
    IN  /\ ~entry.expired /\ Open(entry.svc) /\ Runs(entry.svc, f)
        /\ ~ServesAs(f) /\ startup = None

(* and with the print it had then, prepare_preview_promotion takes the owner: the pool's configuration *)
(* has that print only if no placeholder is left in it, *)
Promotable(f) ==
    LET entry == owner[ServerKey]
    IN  /\ ~entry.expired /\ Open(entry.svc) /\ Runs(entry.svc, f)
        /\ literal /\ config = f /\ ~ServesAs(f) /\ startup = None

PromoteCopy(d) ==    \* bug: the owner stays in the registry
    /\ demand[d].pc = "promote" /\ Promotable(demand[d].print)
    /\ route' = [svc |-> owner[ServerKey].svc, status |-> "ready"]
    /\ start' = Discarded(start, {route.svc})
    /\ demand' = [demand EXCEPT ![d] = Rest]
    /\ UNCHANGED <<owner, attempt, preview, startup, config, literal, spent>>

Promote(d) ==
    /\ demand[d].pc = "promote" /\ Promotable(demand[d].print)
    /\ owner' = [owner EXCEPT ![ServerKey] = NoOwner]
    /\ route' = [svc |-> owner[ServerKey].svc, status |-> "ready"]
    /\ start' = Discarded(start, {route.svc})
    /\ demand' = [demand EXCEPT ![d] = Rest]
    /\ UNCHANGED <<attempt, preview, startup, config, literal, spent>>

(* joins the launch that will be the owner, or leaves it to a startup. *)
NoPromotion(d) ==
    /\ demand[d].pc = "promote" /\ ~Promotable(demand[d].print)
    /\ demand' = [demand EXCEPT ![d] =
            IF Runs(attempt[ServerKey], demand[d].print)
            THEN [@ EXCEPT !.pc = "wait_preview", !.at = attempt[ServerKey]]
            ELSE [Rest EXCEPT !.pc = "prepare"]]
    /\ UNCHANGED <<owner, attempt, start, preview, route, startup, config, literal, spent>>

(* prepare_startup_attempt *)
Ready(d) ==
    /\ demand[d].pc = "prepare" /\ ServesAs(config)
    /\ demand' = [demand EXCEPT ![d] = Rest]
    /\ UNCHANGED <<owner, attempt, start, preview, route, startup, config, literal, spent>>

JoinStartup(d) ==
    /\ demand[d].pc = "prepare" /\ ~ServesAs(config) /\ Runs(startup, config)
    /\ demand' = [demand EXCEPT ![d] = [Rest EXCEPT !.pc = "wait_startup", !.at = startup]]
    /\ UNCHANGED <<owner, attempt, start, preview, route, startup, config, literal, spent>>

OwnStartup(d, t) ==
    /\ demand[d].pc = "prepare" /\ ~ServesAs(config) /\ ~Runs(startup, config)
    /\ Fresh(t)
    /\ startup' = t
    /\ start' = [(IF startup = None THEN start ELSE Told(start, startup, "superseded"))
                    EXCEPT ![t] = Launch(ServerKey, config, "connecting")]
    /\ route' = [route EXCEPT !.status = "initializing"]
    /\ demand' = [demand EXCEPT ![d] = [Rest EXCEPT !.pc = "wait_startup", !.at = t]]
    /\ UNCHANGED <<owner, attempt, preview, config, literal, spent>>

(* A demand hears of what it waits for.  Only a wait for a preview has a time limit. *)
DemandHears(d) ==
    LET outcome == start[demand[d].at].outcome IN
    /\ \/ /\ demand[d].pc = "wait_preview"
          /\ demand' = [demand EXCEPT ![d] =
                  IF outcome = "published" THEN [@ EXCEPT !.pc = "promote", !.at = None] ELSE Rest]
       \/ /\ demand[d].pc = "wait_startup" /\ outcome # "none"
          /\ \/ demand' = [demand EXCEPT ![d] = Rest]
             \/ /\ outcome = "superseded"
                /\ demand' = [demand EXCEPT ![d] = [Rest EXCEPT !.pc = "prepare"]]
    /\ UNCHANGED <<owner, attempt, start, preview, route, startup, config, literal, spent>>

(* publish_startup_attempt, for the attempt that is still registered. *)
PublishStartup(t) ==
    /\ startup = t /\ start[t].phase = "connected"
    /\ startup' = None
    /\ IF config = start[t].print /\ route.status = "initializing"
       THEN /\ route' = [svc |-> t, status |-> "ready"]
            /\ start' = [Discarded(start, {route.svc})
                            EXCEPT ![t].phase = "live", ![t].outcome = "published"]
       ELSE /\ route' = [route EXCEPT !.status = "down"]
            /\ start' = Told(Discarded(start, {t}), t, "superseded")
    /\ UNCHANGED <<owner, attempt, preview, demand, config, literal, spent>>

FailStartup(t) ==
    /\ startup = t /\ start[t].phase = "connecting"
    /\ startup' = None
    /\ route' = [route EXCEPT !.status = "down"]
    /\ start' = Told(Discarded(start, {t}), t, "failed")
    /\ UNCHANGED <<owner, attempt, preview, demand, config, literal, spent>>

(* An operator disconnects the server. *)
Disconnect ==
    /\ route.status = "ready"
    /\ route' = Down
    /\ start' = Discarded(start, {route.svc})
    /\ UNCHANGED <<owner, attempt, preview, demand, startup, config, literal, spent>>

(* The secret behind a placeholder of the configuration changes. *)
Rotate ==
    /\ ~literal
    /\ Spend("rotations", MaxRotations)
    /\ config' \in Prints \ {config}
    /\ UNCHANGED <<owner, attempt, start, preview, demand, route, startup, literal>>

(* sync_servers_from_active_profile loads the configuration anew, with the OAuth token of the moment *)
(* in its headers, and may reset an instance that is starting. *)
Reload ==
    /\ Spend("rotations", MaxRotations)
    /\ config' \in Prints
    /\ \/ UNCHANGED route
       \/ route.status = "initializing" /\ route' = [route EXCEPT !.status = "down"]
    /\ <<config, route>>' # <<config, route>>
    /\ UNCHANGED <<owner, attempt, start, preview, demand, startup, literal>>

Next ==
    \/ \E p \in Previews, k \in Keys, f \in Prints : Ask(p, k, f)
    \/ \E p \in Previews, t \in Starts : Own(p, t)
    \/ \E p \in Previews : \/ Reuse(p) \/ JoinPreview(p) \/ UseProduction(p) \/ Discard(p) \/ Heard(p)
                          \/ Discovered(p) \/ Drop(p)
    \/ \E t \in Starts : \/ Connects(t) \/ PublishOwner(t) \/ FailOwner(t) \/ Closes(t)
                        \/ PublishStartup(t) \/ FailStartup(t)
    \/ \E k \in Keys : Expire(k) \/ Collect(k) \/ CollectTooEarly(k)
    \/ \E d \in Demands : \/ Check(d) \/ Promote(d) \/ NoPromotion(d) \/ Ready(d) \/ JoinStartup(d)
                         \/ DemandHears(d)
    \/ \E d \in Demands, t \in Starts : OwnStartup(d, t)
    \/ Disconnect \/ Rotate \/ Reload

Spec == Init /\ [][Next]_vars

-----------------------------------------------------------------------------
TypeOK ==
    /\ owner \in [Keys -> [svc : Starts \cup {None}, expired : BOOLEAN, armed : BOOLEAN, early : BOOLEAN]]
    /\ attempt \in [Keys -> Starts \cup {None}]
    /\ start \in [Starts -> [phase : {"over", "unspawned", "connecting", "connected", "live"},
                             key : Keys \cup {None}, print : Prints \cup {None}, open : BOOLEAN,
                             outcome : {"none", "published", "failed", "superseded"}]]
    /\ preview \in [Previews -> [pc : {"idle", "acquire", "discard", "wait", "discover"},
                                 key : Keys \cup {None}, print : Prints \cup {None},
                                 at : Starts \cup {None}, plan : {"none", "discover", "wait", "spawn"},
                                 todo : SUBSET Starts]]
    /\ demand \in [Demands -> [pc : {"idle", "promote", "wait_preview", "prepare", "wait_startup"},
                               print : Prints \cup {None}, at : Starts \cup {None}]]
    /\ route \in [svc : Starts \cup {None}, status : {"down", "initializing", "ready"}]
    /\ startup \in Starts \cup {None} /\ config \in Prints /\ literal \in BOOLEAN
    /\ spent \in [requests : Nat, rotations : Nat, faults : Nat, drops : Nat]

(* What a launch gives belongs to one place: no two of the preview owners and the production route *)
(* share a service, none of them has one that was discarded, and no launch will replace an owner.  A *)
(* promotion moves the service that a collecting task, another preview or a renewal may be about to touch. *)
OnePlace ==
    /\ \A k \in Keys : owner[k].svc # None =>
          /\ attempt[k] = None
          /\ start[owner[k].svc].phase = "live" /\ owner[k].svc # route.svc
          /\ \A j \in Keys \ {k} : owner[j].svc # owner[k].svc
    /\ route.status = "ready" => start[route.svc].phase = "live"

(* A launch that was published and not discarded still has a place, or a request that discards it. *)
NothingLeaks ==
    \A t \in Starts : start[t].phase = "live" =>
        \/ route.svc = t
        \/ \E k \in Keys : owner[k].svc = t
        \/ \E p \in Previews : t \in preview[p].todo

(* As long as no request is dropped, a registered attempt has a task at work, or a request that is *)
(* about to spawn it: nobody joins a launch that will not tell. *)
AttemptsAreUnderWay ==
    spent.drops = 0 => \A k \in Keys : attempt[k] # None =>
        \/ start[attempt[k]].phase \in {"connecting", "connected"}
        \/ \E p \in Previews : preview[p].pc = "discard" /\ preview[p].plan = "spawn" /\ preview[p].at = attempt[k]

(* The same whatever is dropped. *)
NoStrandedPreview ==
    \A k \in Keys : attempt[k] # None =>
        \/ start[attempt[k]].phase \in {"connecting", "connected"}
        \/ \E p \in Previews : preview[p].pc = "discard" /\ preview[p].plan = "spawn" /\ preview[p].at = attempt[k]

(* As long as no request is dropped, every owner has a task that will find it expired, or a request *)
(* that is about to spawn one: no preview keeps an upstream running for good. *)
OwnersAreCollected ==
    spent.drops = 0 => \A k \in Keys : owner[k].svc # None =>
        \/ owner[k].armed
        \/ \E p \in Previews : preview[p].plan = "discover" /\ preview[p].at = owner[k].svc

(* Production only ever takes a service that runs what the configuration says at that moment, though *)
(* the print a promotion compares was read before the database was. *)
ProductionIsCurrent ==
    [][route'.svc \notin {route.svc, None} => start'[route'.svc].print = config']_vars

(* A preview discovers only from what was launched with its own print. *)
DiscoversOwnLaunch ==
    \A p \in Previews : preview[p].pc = "discover" /\ Open(preview[p].at) =>
        Runs(preview[p].at, preview[p].print)
=============================================================================
