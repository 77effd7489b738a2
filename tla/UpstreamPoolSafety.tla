------------------------- MODULE UpstreamPoolSafety -------------------------
(***************************************************************************)
(* The safety theorems of the connection pool, for any number of requests, *)
(* keys, instances, attempts and reconnects.  Each has an inductive        *)
(* invariant of its own, inductive together with Typed:                    *)
(*                                                                         *)
(*   RecoveryBudget     Charged: the launches are covered by the starts    *)
(*                      charged to the failure state;                      *)
(*   AffinityIsolation  inductive as it stands, because an instance that   *)
(*                      is chosen afresh is on no route;                   *)
(*   DisabledStaysDown  with AffinityIsolation, so that publishing moves   *)
(*                      no instance between partitions, and LoadedRow;     *)
(*   NoStrandedWaiter   Told: what is registered runs for that key, who    *)
(*                      waits owns the attempt or finds it registered, and *)
(*                      a task without an owner is one that was dropped.   *)
(***************************************************************************)
EXTENDS UpstreamPoolTyping

-----------------------------------------------------------------------------
(* The automatic budget *)

\* Every launch was charged to the failure state as it is now.
Charged == launches <= failure.starts

\* What a step may do to the failure state.
BudgetSteps ==
    \/ UNCHANGED budgetVars
    \/ Cleared \/ ConnectFails \/ BacksOff \/ ClaimStart
    \/ UNCHANGED launches /\ failure' = [failure EXCEPT !.backoff = FALSE]

\* The operator's connect counts as a success, a failure, or nothing.
LEMMA OperatorCharges ==
    ASSUME NEW ii, NEW i, ConnectFrom(ii, i) PROVE BudgetSteps
BY DEF ConnectFrom, BudgetSteps, Fails

\* No step changes the failure state in any other way.
LEMMA EveryStepCharges == ASSUME [Next]_vars PROVE BudgetSteps
<1>1. CASE UNCHANGED vars
  BY <1>1 DEF vars, BudgetSteps
<1>2. ASSUME NEW c \in Callers, CallerSteps(c) \/ CallerContinues(c) PROVE BudgetSteps
  BY <1>2 DEF CallerSteps, CallerContinues, Demand, EnableCaptures, DropCaller, PrepareAnswers,
              PrepareJoins, PrepareOwns, PreparePanics, EnableLoads, EnableApplies, EnableBails,
              BudgetSteps
<1>3. ASSUME NEW t \in Attempts, TaskContinues(t) \/ TaskPanics(t) PROVE BudgetSteps
  BY <1>3 DEF TaskContinues, TaskPanics, TransportBegins, PublishReady, Discard, CleanUpPanic,
              PublishFailed, PublishSuperseded, PublishUnclaimed, Fails, BudgetSteps
<1>4. ASSUME NEW h \in Reconnects, ReconnectContinues(h) \/ \E i \in Instances : HealthBegins(h, i)
      PROVE  BudgetSteps
  BY <1>4 DEF ReconnectContinues, HealthPublishes, HealthDiscards, HealthFails, HealthInvalidated,
              HealthBegins, BudgetSteps
<1>5. CASE Administer
  BY <1>5 DEF Administer, SetMode, StoreUpdate, RotateSecret, Delete, Synchronize, ApplyUpdate,
              AbandonUpdate, DisableRuntime, BudgetSteps
<1>6. CASE Operate \/ CallSucceeds \/ BackoffEnds
  BY <1>6, OperatorCharges
     DEF Operate, Disconnect, Connect, Relaunch, Reap, EvictClosed, CallFails, CallSucceeds,
         BackoffEnds, BudgetSteps
<1> QED BY <1>1, <1>2, <1>3, <1>4, <1>5, <1>6 DEF Next

\* Every step keeps Charged.
LEMMA ChargedStep == Typed /\ Charged /\ [Next]_vars => Charged'
<1> SUFFICES ASSUME Typed, Charged, [Next]_vars PROVE Charged'
  OBVIOUS
<1>1. failure \in [starts : 0..MaxStarts, backoff : BOOLEAN] /\ launches \in Nat /\ MaxStarts \in Nat
  BY BoundsAreNumbers DEF Typed, TypeOK
<1>2. CASE UNCHANGED budgetVars
  BY <1>2 DEF Charged, budgetVars
<1>3. CASE Cleared
  BY <1>3 DEF Charged, Cleared
<1>4. CASE ConnectFails
  BY <1>1, <1>4 DEF Charged, ConnectFails
<1>5. CASE BacksOff
  BY <1>1, <1>5 DEF Charged, BacksOff
<1>6. CASE ClaimStart
  BY <1>1, <1>6 DEF Charged, ClaimStart
<1>7. CASE UNCHANGED launches /\ failure' = [failure EXCEPT !.backoff = FALSE]
  BY <1>1, <1>7 DEF Charged
<1> QED BY <1>2, <1>3, <1>4, <1>5, <1>6, <1>7, EveryStepCharges DEF BudgetSteps

\* Health maintenance never launches the server more often than the automatic
\* budget allows between two successes (claim_automatic_recovery_attempt).
THEOREM RecoveryIsBudgeted == Spec => []RecoveryBudget
<1>1. Init => Charged
  BY DEF Init, Charged
<1>2. Typed /\ Charged => RecoveryBudget
  BY BoundsAreNumbers DEF Typed, TypeOK, Charged, RecoveryBudget
<1> QED BY <1>1, <1>2, TypedInit, TypedStep, ChargedStep, PTL DEF Spec

-----------------------------------------------------------------------------
(* Affinities *)

\* A step that adds no route and moves no instance to another partition.
LEMMA RoutesOnlyGo ==
    ASSUME Typed, AffinityIsolation,
           \A k \in Keys : routes'[k] \in {routes[k], None},
           \A i \in Instances : insts'[i].place \in {insts[i].place, None}
    PROVE  AffinityIsolation'
BY NoneIsNoValue DEF Typed, TypeOK, Opt, AffinityIsolation, Exists

\* A step that gives the server a placeholder in an instance nothing refers to.
LEMMA PlaceholderIsolated ==
    ASSUME Typed, AffinityIsolation, routes' = routes,
           FreeInstances # {}, insts' = [insts EXCEPT ![FreshInstance] = Placeholder(Default)]
    PROVE  AffinityIsolation'
<1>1. FreshInstance \in FreeInstances
  BY DEF FreshInstance
<1>2. \A k \in Keys : routes[k] # FreshInstance
  BY <1>1 DEF FreeInstances
<1> QED BY <1>2 DEF Typed, TypeOK, Opt, AffinityIsolation, Exists

\* Replacing the status, the service or the runtime leaves the partition.
LEMMA PlacesKept ==
    \A x \in Instance :
        /\ \A s \in Status : [x EXCEPT !.status = s].place = x.place
        /\ \A s \in Status : \A v : [x EXCEPT !.status = s, !.svc = v].place = x.place
        /\ \A rt : Served(x, rt).place = x.place
BY DEF Instance, Served

\* A disconnect moves no instance to another partition.
LEMMA DisconnectedPlaces ==
    ASSUME Typed, NEW i \in Instances, NEW j \in Instances
    PROVE  Disconnected(i)[j].place \in {insts[j].place, None}
<1>1. insts[i] \in Instance /\ insts[j] \in Instance
  BY DEF Typed, TypeOK
<1>2. Absent.place = None /\ [insts[i] EXCEPT !.status = "Shutdown", !.svc = None].place = insts[i].place
  BY <1>1 DEF Absent, Instance
<1> QED BY <1>1, <1>2 DEF Disconnected, Typed, TypeOK

\* Routes and partitions only lose what they had.
PlacesGo ==
    /\ \A k \in Keys : routes'[k] \in {routes[k], None}
    /\ \A i \in Instances : insts'[i].place \in {insts[i].place, None}

\* Neither does the operator's connect, however it ends,
LEMMA OperatorPlaces ==
    ASSUME Typed, NEW ii \in [Instances -> Instance], NEW i \in Instances, ConnectFrom(ii, i)
    PROVE  \A j \in Instances : insts'[j].place = ii[j].place
<1>1. ii[i] \in Instance
  OBVIOUS
<1>2. ASSUME NEW r, insts' = [ii EXCEPT ![i].status = ErrorOf(r)]
      PROVE  \A j \in Instances : insts'[j].place = ii[j].place
  BY <1>1, <1>2 DEF Instance
<1>3. CASE insts' = [ii EXCEPT ![i] = Served(@, Current)]
  BY <1>1, <1>3, PlacesKept
<1>4. CASE insts' = [ii EXCEPT ![i].status = "Initializing"]
  BY <1>1, <1>4 DEF Instance
<1> QED BY <1>2, <1>3, <1>4 DEF ConnectFrom

\* nor a disconnect that is dropped,
LEMMA InterruptedPlaces ==
    ASSUME Typed, NEW i \in Instances, Disconnects(i) \/ Interrupted(i)
    PROVE  PlacesGo
<1>1. CASE Disconnects(i)
  BY <1>1, DisconnectedPlaces DEF Disconnects, Unrouted, PlacesGo
<1>2. CASE Interrupted(i)
  <2>1. PICK status \in {insts[i].status, "Shutdown"} :
            insts' = [insts EXCEPT ![i] = [@ EXCEPT !.status = status, !.svc = None]]
    BY <1>2 DEF Interrupted
  <2>2. insts[i] \in Instance
    BY DEF Typed, TypeOK
  <2>3. [insts[i] EXCEPT !.status = status, !.svc = None].place = insts[i].place
    BY <2>2 DEF Instance
  <2> QED BY <1>2, <2>1, <2>3 DEF Interrupted, PlacesGo, Typed, TypeOK
<1> QED BY <1>1, <1>2

\* nor a step that only changes a status,
LEMMA StatusPlaces ==
    ASSUME Typed, NEW i \in Instances, NEW status, routes' = routes,
           insts' = [insts EXCEPT ![i].status = status]
    PROVE  PlacesGo
BY DEF Typed, TypeOK, Instance, PlacesGo

\* nor settling an invalidated result,
LEMMA SettledPlaces ==
    ASSUME Typed, NEW i \in Instances, routes' = routes, insts' = Settled(i)
    PROVE  PlacesGo
<1>1. CASE insts' = insts
  BY <1>1 DEF PlacesGo
<1>2. CASE insts' = [insts EXCEPT ![i].status = "Error"]
  BY <1>2, StatusPlaces
<1> QED BY <1>1, <1>2 DEF Settled

\* nor any step of a startup task: it publishes where its route leads,
LEMMA TaskPlaces ==
    ASSUME Typed, AffinityIsolation, NEW t \in Attempts, TaskContinues(t) \/ TaskPanics(t)
    PROVE  PlacesGo
<1> DEFINE i == tasks[t].inst
<1>1. CASE TransportBegins(t) \/ Discard(t) \/ TaskPanics(t)
  BY <1>1 DEF TransportBegins, Discard, TaskPanics, PlacesGo
<1>2. CASE PublishReady(t)
  <2>1. i \in Instances /\ tasks[t].key \in Keys /\ insts[i] \in Instance
    BY <1>2 DEF PublishReady, Typed, TypeOK, AttemptsNamed
  <2>2. insts[i].place = tasks[t].key
    BY <1>2, <2>1, NoneIsNoValue DEF PublishReady, StillOwned, AffinityIsolation
  <2> DEFINE x == [insts[i] EXCEPT !.place = tasks[t].key]
  <2>3. x \in Instance /\ x.place = insts[i].place
    BY <2>1, <2>2 DEF Instance
  <2>4. Served(x, tasks[t].made).place = insts[i].place
    BY <2>3, PlacesKept
  <2>5. insts' = [insts EXCEPT ![i] = Served(x, tasks[t].made)] /\ routes' = routes
    BY <1>2, <2>1 DEF PublishReady, Typed, TypeOK
  <2> HIDE DEF x
  <2> QED BY <2>4, <2>5 DEF PlacesGo, Typed, TypeOK
<1>3. ASSUME NEW r \in Results, PublishFailed(t, r) PROVE PlacesGo
  <2>1. i \in Instances
    BY <1>3 DEF PublishFailed, Typed, AttemptsNamed
  <2> QED BY <1>3, <2>1, StatusPlaces DEF PublishFailed
<1>4. ASSUME NEW r \in Results, PublishSuperseded(t, r) PROVE PlacesGo
  <2>1. i \in Instances
    BY <1>4 DEF PublishSuperseded, Typed, AttemptsNamed
  <2> QED BY <1>4, <2>1, SettledPlaces DEF PublishSuperseded
<1>5. ASSUME NEW r \in Results, PublishUnclaimed(t, r) PROVE PlacesGo
  BY <1>5 DEF PublishUnclaimed, PlacesGo
<1>6. CASE CleanUpPanic(t)
  <2>1. i \in Instances /\ routes' = routes
    BY <1>6 DEF CleanUpPanic, Typed, AttemptsNamed
  <2>2. CASE insts' = [insts EXCEPT ![i].status = "Error"]
    BY <2>1, <2>2, StatusPlaces
  <2>3. CASE insts' = insts
    BY <2>1, <2>3 DEF PlacesGo
  <2> QED BY <1>6, <2>2, <2>3 DEF CleanUpPanic
<1> QED BY <1>1, <1>2, <1>3, <1>4, <1>5, <1>6 DEF TaskContinues

\* nor any step of a health reconnect,
LEMMA HealthPlaces ==
    ASSUME Typed, NEW h \in Reconnects,
           ReconnectContinues(h) \/ \E i \in Instances : HealthBegins(h, i)
    PROVE  PlacesGo
<1> DEFINE j == recon[h].inst
<1>1. ASSUME NEW i \in Instances, HealthBegins(h, i) PROVE PlacesGo
  BY <1>1, StatusPlaces DEF HealthBegins
<1>2. CASE HealthPublishes(h)
  <2>1. j \in Instances /\ insts[j] \in Instance
    BY <1>2 DEF HealthPublishes, Typed, TypeOK, ReconnectsNamed
  <2>2. PICK s : insts' = [insts EXCEPT ![j] = Served(@, [recon[h].rt EXCEPT !.sec = s])]
    BY <1>2 DEF HealthPublishes
  <2>3. Served(insts[j], [recon[h].rt EXCEPT !.sec = s]).place = insts[j].place
    BY <2>1, PlacesKept
  <2> QED BY <1>2, <2>2, <2>3 DEF HealthPublishes, PlacesGo, Typed, TypeOK
<1>3. CASE HealthDiscards(h)
  BY <1>3 DEF HealthDiscards, PlacesGo
<1>4. ASSUME NEW r \in Results, HealthFails(h, r) PROVE PlacesGo
  <2>1. insts[j] \in Instance
    BY <1>4 DEF HealthFails, Typed, TypeOK, ReconnectsNamed
  <2>2. [insts[j] EXCEPT !.status = ErrorOf(r), !.svc = recon[h].held].place = insts[j].place
    BY <2>1 DEF Instance
  <2> QED BY <1>4, <2>2 DEF HealthFails, PlacesGo, Typed, TypeOK
<1>5. ASSUME NEW r \in Results, HealthInvalidated(h, r) PROVE PlacesGo
  <2>1. j \in Instances /\ routes' = routes
    BY <1>5 DEF HealthInvalidated, Typed, ReconnectsNamed
  <2>2. CASE insts' = insts
    BY <2>1, <2>2 DEF PlacesGo
  <2>3. CASE insts' = Settled(j)
    BY <2>1, <2>3, SettledPlaces
  <2> QED BY <1>5, <2>2, <2>3 DEF HealthInvalidated
<1> QED BY <1>1, <1>2, <1>3, <1>4, <1>5 DEF ReconnectContinues

\* nor any request of the operator or report of a call.
LEMMA OperatePlaces ==
    ASSUME Typed, Operate \/ CallSucceeds \/ BackoffEnds PROVE PlacesGo
<1>1. ASSUME NEW i \in Instances, Disconnect(i) \/ Reap(i) PROVE PlacesGo
  BY <1>1, InterruptedPlaces DEF Disconnect, Reap
<1>2. ASSUME NEW i \in Instances, Connect(i) PROVE PlacesGo
  BY <1>2, OperatorPlaces DEF Connect, PlacesGo, Typed, TypeOK
<1>3. ASSUME NEW i \in Instances, Relaunch(i) PROVE PlacesGo
  <2>1. \A j \in Instances : insts'[j].place = Disconnected(i)[j].place
    BY <1>3, DisconnectedTyped, OperatorPlaces DEF Relaunch
  <2> QED BY <1>3, <2>1, DisconnectedPlaces DEF Relaunch, Unrouted, PlacesGo
<1>4. ASSUME NEW i \in Instances, EvictClosed(i) PROVE PlacesGo
  <2>1. insts[i] \in Instance
    BY DEF Typed, TypeOK
  <2>2. [insts[i] EXCEPT !.status = "Shutdown", !.svc = None].place = insts[i].place
    BY <2>1 DEF Instance
  <2> QED BY <1>4, <2>2 DEF EvictClosed, PlacesGo, Typed, TypeOK
<1>5. ASSUME NEW i \in Instances, NEW gone \in BOOLEAN, CallFails(i, gone) PROVE PlacesGo
  <2>1. CASE gone
    BY <1>5, <2>1, InterruptedPlaces DEF CallFails
  <2>2. CASE ~gone
    BY <1>5, <2>2 DEF CallFails, PlacesGo
  <2> QED BY <2>1, <2>2
<1>6. CASE CallSucceeds \/ BackoffEnds
  BY <1>6 DEF CallSucceeds, BackoffEnds, PlacesGo
<1> QED BY <1>1, <1>2, <1>3, <1>4, <1>5, <1>6 DEF Operate

\* A synchronization drops instances, or adds a placeholder.
LEMMA SynchronizePlaces ==
    ASSUME Typed, Synchronize
    PROVE  \/ PlacesGo
           \/ /\ FreeInstances # {} /\ routes' = routes /\ config' # None
              /\ insts' = [insts EXCEPT ![FreshInstance] = Placeholder(Default)]
<1>1. CASE SyncBlocked
  BY <1>1 DEF SyncBlocked, NoInstances, NoRoutes, Absent, PlacesGo
<1>2. CASE SyncRemoves
  BY <1>2 DEF SyncRemoves, SharedDropped, Absent, PlacesGo
<1>3. CASE SyncKeeps
  <2>1. CASE In(Default) = {}
    BY <1>3, <2>1 DEF SyncKeeps, WithPlaceholder
  <2>2. CASE insts' = insts
    BY <1>3, <2>2 DEF SyncKeeps, PlacesGo
  <2>3. ASSUME NEW i \in Instances, insts' = Rested(i) PROVE PlacesGo
    <3>1. CASE insts' = insts
      BY <1>3, <3>1 DEF SyncKeeps, PlacesGo
    <3>2. CASE insts' = [insts EXCEPT ![i].status = "Idle"]
      BY <1>3, <3>2, StatusPlaces DEF SyncKeeps
    <3> QED BY <2>3, <3>1, <3>2 DEF Rested
  <2> QED BY <1>3, <2>1, <2>2, <2>3 DEF SyncKeeps, In
<1> QED BY <1>1, <1>2, <1>3 DEF Synchronize

\* How the instances and the routes change in a step of the pool.
LEMMA PlacesStep ==
    ASSUME Typed, AffinityIsolation, [Next]_vars
    PROVE  \/ PlacesGo
           \/ \E c \in Callers : PrepareOwns(c)
           \/ ApplyUpdate
           \/ /\ FreeInstances # {} /\ routes' = routes
              /\ \/ Synchronize /\ config' # None
                 \/ \E c \in Callers : EnableApplies(c)
              /\ insts' = [insts EXCEPT ![FreshInstance] = Placeholder(Default)]
<1>1. CASE UNCHANGED vars
  BY <1>1 DEF vars, PlacesGo
<1>2. ASSUME NEW c \in Callers, CallerSteps(c) \/ CallerContinues(c),
             ~PrepareOwns(c), ~EnableApplies(c)
      PROVE  PlacesGo
  BY <1>2 DEF CallerSteps, CallerContinues, Demand, EnableCaptures, DropCaller, PrepareAnswers,
              PrepareJoins, PreparePanics, EnableLoads, EnableBails, PlacesGo
<1>3. ASSUME NEW c \in Callers, EnableApplies(c)
      PROVE  \/ PlacesGo
             \/ /\ FreeInstances # {} /\ routes' = routes
                /\ insts' = [insts EXCEPT ![FreshInstance] = Placeholder(Default)]
  BY <1>3 DEF EnableApplies, WithPlaceholder, PlacesGo
<1>4. CASE Administer
  <2>1. CASE Synchronize
    BY <2>1, SynchronizePlaces
  <2>2. CASE DisableRuntime
    BY <2>2 DEF DisableRuntime, NoInstances, NoRoutes, Absent, PlacesGo
  <2>3. ASSUME Administer, ~Synchronize, ~DisableRuntime, ~ApplyUpdate PROVE PlacesGo
    BY <2>3 DEF Administer, SetMode, StoreUpdate, RotateSecret, Delete, AbandonUpdate, PlacesGo
  <2> QED BY <1>4, <2>1, <2>2, <2>3
<1>5. ASSUME Operate \/ CallSucceeds \/ BackoffEnds PROVE PlacesGo
  BY <1>5, OperatePlaces
<1>6. ASSUME NEW t \in Attempts, TaskContinues(t) \/ TaskPanics(t) PROVE PlacesGo
  BY <1>6, TaskPlaces
<1>7. ASSUME NEW h \in Reconnects, ReconnectContinues(h) \/ \E i \in Instances : HealthBegins(h, i)
      PROVE  PlacesGo
  BY <1>7, HealthPlaces
<1> QED BY <1>1, <1>2, <1>3, <1>4, <1>5, <1>6, <1>7 DEF Next

\* The instance of a new attempt is on the route of its key or on none.
LEMMA ChosenInstance ==
    ASSUME Typed, NEW k \in Keys, routes[k] # None \/ FreeInstances # {}
    PROVE  /\ RoutedOrFresh(k) \in Instances
           /\ \/ routes[k] = RoutedOrFresh(k)
              \/ ~Exists(RoutedOrFresh(k)) /\ \A l \in Keys : routes[l] # RoutedOrFresh(k)
<1>1. CASE routes[k] # None
  BY <1>1 DEF RoutedOrFresh, Typed, TypeOK, Opt
<1>2. CASE routes[k] = None
  <2>1. RoutedOrFresh(k) \in FreeInstances
    BY <1>2 DEF RoutedOrFresh, FreshInstance
  <2> QED BY <2>1 DEF FreeInstances, NotInFlight
<1> QED BY <1>1, <1>2

\* Every step keeps the affinities apart.
LEMMA AffinityStep == Typed /\ AffinityIsolation /\ [Next]_vars => AffinityIsolation'
<1> SUFFICES ASSUME Typed, AffinityIsolation, [Next]_vars PROVE AffinityIsolation'
  OBVIOUS
<1>1. CASE PlacesGo
  BY <1>1, RoutesOnlyGo DEF PlacesGo
<1>2. ASSUME NEW c \in Callers, PrepareOwns(c) PROVE AffinityIsolation'
  <2>1. PICK k \in Keys : k = callers[c].key
    BY <1>2 DEF PrepareOwns, MustStart, Typed, CallersNamed, CallerNamed
  <2> DEFINE i == RoutedOrFresh(k)
             b == IF Exists(i) THEN insts[i] ELSE Placeholder(k)
             n == [b EXCEPT !.status = "Initializing"]
  <2>2. /\ i \in Instances
        /\ \/ routes[k] = i
           \/ ~Exists(i) /\ \A l \in Keys : routes[l] # i
    <3>1. routes[k] # None \/ FreeInstances # {}
      BY <1>2, <2>1 DEF PrepareOwns
    <3> QED BY <3>1, ChosenInstance
  <2>3. b \in Instance /\ b.place = k
    <3>1. CASE Exists(i)
      BY <2>1, <2>2, <3>1, NoneIsNoValue DEF AffinityIsolation, Typed, TypeOK
    <3>2. CASE ~Exists(i)
      BY <2>1, <3>2, PlaceholderTyped DEF Placeholder, Absent
    <3> QED BY <3>1, <3>2
  <2>4. n.place = k
    BY <2>3 DEF Instance
  <2>5. insts' = [insts EXCEPT ![i] = n] /\ routes' = [routes EXCEPT ![k] = i]
    BY <1>2, <2>1 DEF PrepareOwns
  <2> HIDE DEF n, b, i
  <2>6. \A l \in Keys : l # k => routes[l] # i
    BY <2>1, <2>2, NoneIsNoValue DEF AffinityIsolation
  <2> QED BY <2>1, <2>2, <2>4, <2>5, <2>6 DEF AffinityIsolation, Exists, Typed, TypeOK, Opt
<1>3. CASE ApplyUpdate
  BY <1>3 DEF ApplyUpdate, NoRoutes, AffinityIsolation
<1>4. CASE /\ FreeInstances # {} /\ routes' = routes
           /\ insts' = [insts EXCEPT ![FreshInstance] = Placeholder(Default)]
  BY <1>4, PlaceholderIsolated
<1> QED BY <1>1, <1>2, <1>3, <1>4, PlacesStep

\* No two affinities share a production route, and a route leads to an instance
\* of its own affinity (allocate_production_route, prepare_startup_attempt).
THEOREM AffinitiesAreIsolated == Spec => []AffinityIsolation
<1>1. Init => AffinityIsolation
  BY DEF Init, NoRoutes, AffinityIsolation
<1> QED BY <1>1, TypedInit, TypedStep, AffinityStep, PTL DEF Spec

-----------------------------------------------------------------------------
(* A server that is off stays off *)

\* A request that loaded the row loaded one.
LoadedRow == \A c \in Callers : callers[c].pc = "loaded" => callers[c].load # None

\* Answers and the beginnings of demands never bring a request to "loaded".
LEMMA LoadedOnlyLoads ==
    ASSUME Typed, [Next]_vars
    PROVE  \A c \in Callers : callers'[c].pc = "loaded" => callers'[c] = callers[c] \/ EnableLoads(c)
<1> DEFINE Kept == \A c \in Callers : callers'[c].pc = "loaded" => callers'[c] = callers[c]
<1>1. ASSUME NEW who, NEW outcome, NEW c \in Callers, Answer(who, outcome)[c].pc = "loaded"
      PROVE  Answer(who, outcome)[c] = callers[c]
  <2>1. callers[c] \in Caller
    BY DEF Typed, TypeOK
  <2>2. [callers[c] EXCEPT !.pc = "deciding", !.task = None].pc = "deciding"
    BY <2>1 DEF Caller
  <2> QED BY <1>1, <2>2 DEF Answer, After, Idle
<1>2. CASE UNCHANGED vars \/ UNCHANGED callers
  BY <1>2 DEF vars, startVars
<1>3. ASSUME NEW d \in Callers, CallerSteps(d) \/ CallerContinues(d), ~EnableLoads(d)
      PROVE  Kept
  <2>1. CASE PrepareJoins(d)
    <3>1. Waiting(d, registry[callers[d].key]).pc = "waiting"
      BY DEF Typed, TypeOK, Caller, Waiting
    <3> QED BY <2>1, <3>1 DEF PrepareJoins, Typed, TypeOK
  <2>2. CASE PrepareOwns(d)
    <3>1. Waiting(d, FreshAttempt).pc = "waiting"
      BY DEF Typed, TypeOK, Caller, Waiting
    <3>2. callers' = [Answer(Superseded(callers[d].key), "superseded") EXCEPT ![d] = Waiting(d, FreshAttempt)]
      BY <2>2 DEF PrepareOwns
    <3> QED BY <1>1, <3>1, <3>2 DEF Answer
  <2>3. CASE PreparePanics(d)
    <3>1. callers' = [Answer(Superseded(callers[d].key), "superseded") EXCEPT
                         ![d] = [Idle EXCEPT !.pc = "panicked"]]
      BY <2>3 DEF PreparePanics
    <3> QED BY <1>1, <3>1 DEF Answer, Idle
  <2>4. ASSUME NEW k \in Keys, Demand(d, k) PROVE Kept
    BY <2>4 DEF Demand, Idle, Typed, TypeOK
  <2>5. CASE EnableCaptures(d) \/ EnableApplies(d)
    <3>1. PICK w : callers' = [callers EXCEPT ![d] = w] /\ w.pc # "loaded"
      <4>1. /\ [Idle EXCEPT !.pc = "captured", !.gen = lifecycle].pc # "loaded"
            /\ [Idle EXCEPT !.pc = "deciding", !.key = Default].pc # "loaded"
        BY DEF Idle
      <4> QED BY <2>5, <4>1 DEF EnableCaptures, EnableApplies
    <3> QED BY <3>1 DEF Typed, TypeOK
  <2>6. CASE DropCaller(d) \/ PrepareAnswers(d) \/ EnableBails(d)
    BY <2>6 DEF DropCaller, PrepareAnswers, EnableBails, Idle, Typed, TypeOK
  <2> QED BY <1>3, <2>1, <2>2, <2>3, <2>4, <2>5, <2>6 DEF CallerSteps, CallerContinues
<1>4. ASSUME NEW d \in Callers, EnableLoads(d)
      PROVE  \A c \in Callers : callers'[c].pc = "loaded" => callers'[c] = callers[c] \/ EnableLoads(c)
  BY <1>4 DEF EnableLoads, Typed, TypeOK
<1>5. ASSUME NEW t \in Attempts, TaskContinues(t) \/ TaskPanics(t) PROVE Kept
  <2>1. UNCHANGED callers \/ \E who, outcome : callers' = Answer(who, outcome)
    BY <1>5 DEF TaskContinues, TaskPanics, TransportBegins, PublishReady, Discard, CleanUpPanic,
                PublishFailed, PublishSuperseded, PublishUnclaimed, Release
  <2> QED BY <1>1, <2>1
<1>6. ASSUME NEW h \in Reconnects, ReconnectContinues(h) \/ \E i \in Instances : HealthBegins(h, i)
      PROVE  UNCHANGED callers
  BY <1>6 DEF ReconnectContinues, HealthPublishes, HealthDiscards, HealthFails, HealthInvalidated,
              HealthBegins, startVars
<1>7. ASSUME Administer PROVE UNCHANGED callers
  BY <1>7 DEF Administer, SetMode, StoreUpdate, RotateSecret, Delete, Synchronize, ApplyUpdate,
              AbandonUpdate, DisableRuntime, startVars
<1>8. ASSUME Operate \/ CallSucceeds \/ BackoffEnds PROVE UNCHANGED callers
  BY <1>8 DEF Operate, Disconnect, Connect, Relaunch, Reap, EvictClosed, CallFails, CallSucceeds,
              BackoffEnds, startVars
<1> QED BY <1>2, <1>3, <1>4, <1>5, <1>6, <1>7, <1>8 DEF Next

\* Every step keeps LoadedRow.
LEMMA LoadedStep == Typed /\ LoadedRow /\ [Next]_vars => LoadedRow'
<1> SUFFICES ASSUME Typed, LoadedRow, [Next]_vars, NEW c \in Callers, callers'[c].pc = "loaded"
             PROVE  callers'[c].load # None
  BY DEF LoadedRow
<1>1. CASE callers'[c] = callers[c]
  BY <1>1 DEF LoadedRow
<1>2. CASE EnableLoads(c)
  <2>1. callers[c] \in Caller
    BY DEF Typed, TypeOK
  <2>2. [callers[c] EXCEPT !.pc = "loaded", !.load = stored.cfg].load = stored.cfg
    BY <2>1 DEF Caller
  <2> QED BY <1>2, <2>2 DEF EnableLoads, Idle, Typed, TypeOK
<1> QED BY <1>1, <1>2, LoadedOnlyLoads

\* Who may change the pool's copy of the configuration.
LEMMA ConfigStep ==
    ASSUME [Next]_vars
    PROVE  config' = config \/ Synchronize \/ ApplyUpdate \/ DisableRuntime
           \/ \E c \in Callers : EnableApplies(c)
<1>1. CASE UNCHANGED vars
  BY <1>1 DEF vars
<1>2. ASSUME NEW c \in Callers, CallerSteps(c) \/ CallerContinues(c), ~EnableApplies(c)
      PROVE  config' = config
  BY <1>2 DEF CallerSteps, CallerContinues, Demand, EnableCaptures, DropCaller, PrepareAnswers,
              PrepareJoins, PrepareOwns, PreparePanics, EnableLoads, EnableBails
<1>3. ASSUME NEW t \in Attempts, TaskContinues(t) \/ TaskPanics(t) PROVE config' = config
  BY <1>3 DEF TaskContinues, TaskPanics, TransportBegins, PublishReady, Discard, CleanUpPanic,
              PublishFailed, PublishSuperseded, PublishUnclaimed
<1>4. ASSUME NEW h \in Reconnects, ReconnectContinues(h) \/ \E i \in Instances : HealthBegins(h, i)
      PROVE  config' = config
  BY <1>4 DEF ReconnectContinues, HealthPublishes, HealthDiscards, HealthFails, HealthInvalidated,
              HealthBegins
<1>5. ASSUME Administer, ~Synchronize, ~ApplyUpdate, ~DisableRuntime PROVE config' = config
  BY <1>5 DEF Administer, SetMode, StoreUpdate, RotateSecret, Delete, AbandonUpdate
<1>6. ASSUME Operate \/ CallSucceeds \/ BackoffEnds PROVE config' = config
  BY <1>6 DEF Operate, Disconnect, Connect, Relaunch, Reap, EvictClosed, CallFails, CallSucceeds,
              BackoffEnds
<1> QED BY <1>1, <1>2, <1>3, <1>4, <1>5, <1>6 DEF Next

\* Every step of requests that run to their end keeps a server down.
LEMMA DisabledStep ==
    ASSUME MayDrop = FALSE, Typed, AffinityIsolation, LoadedRow, DisabledStaysDown, [Next]_vars
    PROVE  DisabledStaysDown'
<1> SUFFICES ASSUME config' = None PROVE \A i \in Instances : insts'[i].place # Default
  BY DEF DisabledStaysDown, In
<1>1. Default # None
  BY NoneIsNoValue DEF Keys
<1>2. ASSUME NEW c \in Callers, EnableApplies(c) PROVE FALSE
  BY <1>2 DEF EnableApplies, LoadedRow
<1>3. CASE config' = config
  <2>1. \A i \in Instances : insts[i].place # Default
    BY <1>3 DEF DisabledStaysDown, In
  <2>2. CASE PlacesGo
    BY <1>1, <2>1, <2>2 DEF PlacesGo
  <2>3. ASSUME NEW c \in Callers, PrepareOwns(c) PROVE FALSE
    BY <1>3, <2>3 DEF PrepareOwns, MustStart
  <2>4. CASE ApplyUpdate
    BY <1>1, <2>4 DEF ApplyUpdate, NoInstances, Absent, Typed, TypeOK
  <2> QED BY <1>2, <1>3, <2>2, <2>3, <2>4, PlacesStep
<1>4. CASE Synchronize
  <2>1. CASE SyncBlocked
    BY <1>1, <2>1 DEF SyncBlocked, NoInstances, Absent
  <2>2. CASE SyncRemoves
    BY <1>1, <2>2 DEF SyncRemoves, SharedDropped, In, Absent
  <2>3. CASE SyncKeeps
    BY <2>3 DEF SyncKeeps
  <2> QED BY <1>4, <2>1, <2>2, <2>3 DEF Synchronize
<1>5. CASE ApplyUpdate
  BY <1>1, <1>5 DEF ApplyUpdate, NoInstances, Absent
<1>6. CASE DisableRuntime
  BY <1>1, <1>6 DEF DisableRuntime, NoInstances, Absent
<1> QED BY <1>2, <1>3, <1>4, <1>5, <1>6, ConfigStep

\* As long as no request is dropped midway, a server without configuration has
\* no shared instance, whichever result comes late (publish_startup_attempt,
\* disable_server_runtime, sync_servers_from_active_profile).
THEOREM DisabledServersStayDown ==
    ASSUME MayDrop = FALSE PROVE Spec => []DisabledStaysDown
<1>1. Init => AffinityIsolation /\ LoadedRow /\ DisabledStaysDown
  <2>1. Init => AffinityIsolation /\ LoadedRow
    BY DEF Init, NoRoutes, AffinityIsolation, LoadedRow, Idle
  <2>2. Init => DisabledStaysDown
    <3>1. Init => config \in Versions
      BY DEF Init
    <3> QED BY <3>1, NoneIsNoValue DEF DisabledStaysDown
  <2> QED BY <2>1, <2>2
<1>2. DisabledStaysDown /\ Typed /\ AffinityIsolation /\ LoadedRow /\ [Next]_vars => DisabledStaysDown'
  BY DisabledStep
<1> QED BY <1>1, <1>2, TypedInit, TypedStep, AffinityStep, LoadedStep, PTL DEF Spec

-----------------------------------------------------------------------------
(* Whoever waits is told *)

\* What is registered has a task behind it, for that key.
Registered ==
    \A k \in Keys : registry[k] # None =>
        /\ tasks[registry[k]].phase \in {"spawned", "connecting", "panicked"}
        /\ tasks[registry[k]].key = k

\* Who waits owns the attempt, or finds it registered.
Known ==
    \A c \in Callers : callers[c].pc = "waiting" =>
        \/ tasks[callers[c].task].owner = c
        \/ registry[callers[c].key] = callers[c].task

\* A task has an owner until it ends, unless requests may be dropped, and it
\* panics only where tasks may panic.
OwnedWhileRunning ==
    \A t \in Attempts :
        /\ tasks[t].owner # None => tasks[t].phase # "free"
        /\ tasks[t].phase # "free" /\ tasks[t].owner = None => MayDrop
        /\ tasks[t].phase = "panicked" => MayPanic

Told == Registered /\ Known /\ OwnedWhileRunning

\* An answered request waits no more, and nobody else is touched.
LEMMA AnswersEndWaiting ==
    ASSUME Typed, NEW who, NEW outcome, NEW c \in Callers
    PROVE  /\ c \in who => Answer(who, outcome)[c].pc # "waiting"
           /\ c \notin who => Answer(who, outcome)[c] = callers[c]
<1>1. callers[c] \in Caller
  BY DEF Typed, TypeOK
<1>2. [callers[c] EXCEPT !.pc = "deciding", !.task = None].pc = "deciding"
  BY <1>1 DEF Caller
<1> QED BY <1>2 DEF Answer, After, Idle

\* A step of one request that neither waits before it nor after it.
LEMMA QuietCaller ==
    ASSUME Typed, Told, NEW c \in Callers, NEW w, w.pc # "waiting", callers[c].pc # "waiting",
           callers' = [callers EXCEPT ![c] = w], UNCHANGED <<registry, tasks>>
    PROVE  Told'
<1>1. Known'
  BY DEF Told, Known, Typed, TypeOK
<1> QED BY <1>1 DEF Told, Registered, OwnedWhileRunning

\* The actions that are such steps.
LEMMA QuietCallers ==
    ASSUME Typed, Told, NEW c \in Callers,
           \/ \E k \in Keys : Demand(c, k)
           \/ PrepareAnswers(c) \/ EnableCaptures(c) \/ EnableLoads(c) \/ EnableApplies(c)
           \/ EnableBails(c)
    PROVE  Told'
<1>1. \E w : /\ w.pc # "waiting" /\ callers[c].pc # "waiting"
             /\ callers' = [callers EXCEPT ![c] = w] /\ UNCHANGED <<registry, tasks>>
  <2>1. ASSUME NEW k \in Keys, Demand(c, k)
        PROVE  /\ [Idle EXCEPT !.pc = "deciding", !.key = k].pc # "waiting"
               /\ callers[c].pc # "waiting"
               /\ callers' = [callers EXCEPT ![c] = [Idle EXCEPT !.pc = "deciding", !.key = k]]
               /\ UNCHANGED <<registry, tasks>>
    BY <2>1 DEF Demand, Idle
  <2>2. CASE PrepareAnswers(c) \/ EnableBails(c)
    BY <2>2 DEF PrepareAnswers, EnableBails, Idle
  <2>3. ASSUME EnableCaptures(c)
        PROVE  /\ [Idle EXCEPT !.pc = "captured", !.gen = lifecycle].pc # "waiting"
               /\ callers[c].pc # "waiting"
               /\ callers' = [callers EXCEPT ![c] = [Idle EXCEPT !.pc = "captured", !.gen = lifecycle]]
               /\ UNCHANGED <<registry, tasks>>
    BY <2>3 DEF EnableCaptures, Idle
  <2>4. ASSUME EnableApplies(c)
        PROVE  /\ [Idle EXCEPT !.pc = "deciding", !.key = Default].pc # "waiting"
               /\ callers[c].pc # "waiting"
               /\ callers' = [callers EXCEPT ![c] = [Idle EXCEPT !.pc = "deciding", !.key = Default]]
               /\ UNCHANGED <<registry, tasks>>
    BY <2>4 DEF EnableApplies, Idle
  <2>5. CASE EnableLoads(c)
    <3> DEFINE w == IF stored.cfg = None \/ stored.mode = "blocked" THEN Idle
                    ELSE [callers[c] EXCEPT !.pc = "loaded", !.load = stored.cfg]
    <3>1. w.pc # "waiting"
      BY DEF Typed, TypeOK, Caller, Idle
    <3>2. callers' = [callers EXCEPT ![c] = w] /\ callers[c].pc # "waiting" /\ UNCHANGED <<registry, tasks>>
      BY <2>5 DEF EnableLoads, Typed, TypeOK
    <3> HIDE DEF w
    <3> QED BY <3>1, <3>2
  <2> QED BY <2>1, <2>2, <2>3, <2>4, <2>5
<1> QED BY <1>1, QuietCaller

\* Nobody waits for an attempt that is taken for a new one.
LEMMA FreshIsUnknown ==
    ASSUME Typed, Told, FreeAttempts # {}
    PROVE  /\ FreshAttempt \in Attempts
           /\ \A k \in Keys : registry[k] # FreshAttempt
           /\ \A c \in Callers : callers[c].pc = "waiting" => callers[c].task # FreshAttempt
<1> DEFINE t == FreshAttempt
<1>1. t \in FreeAttempts
  BY DEF FreshAttempt
<1> HIDE DEF t
<1>2. t \in Attempts /\ tasks[t].owner = None /\ \A k \in Keys : registry[k] # t
  <2>1. CASE tasks[t].phase = "free"
    BY <1>1, <2>1, NoneIsNoValue DEF FreeAttempts, Told, Registered, OwnedWhileRunning
  <2>2. CASE tasks[t].phase # "free"
    BY <1>1, <2>2 DEF FreeAttempts
  <2> QED BY <2>1, <2>2
<1>3. ASSUME NEW c \in Callers, callers[c].pc = "waiting" PROVE callers[c].task # t
  <2>1. callers[c].key \in Keys
    BY <1>3 DEF Typed, CallersNamed, CallerNamed
  <2> QED BY <1>2, <1>3, <2>1, NoneIsNoValue DEF Told, Known
<1> QED BY <1>2, <1>3 DEF t

\* Joining an attempt, owning one, and the panic in prepare.
LEMMA PreparesTold ==
    ASSUME Typed, Told, NEW c \in Callers, PrepareJoins(c) \/ PrepareOwns(c) \/ PreparePanics(c)
    PROVE  Told'
<1>1. PICK k \in Keys : k = callers[c].key
  BY DEF PrepareJoins, PrepareOwns, PreparePanics, MustStart, Typed, CallersNamed, CallerNamed
<1>2. callers[c] \in Caller /\ callers[c].pc = "deciding"
  BY DEF PrepareJoins, PrepareOwns, PreparePanics, MustStart, Typed, TypeOK
<1>3. CASE PrepareJoins(c)
  <2> DEFINE w == Waiting(c, registry[k])
  <2>1. w.task = registry[k] /\ w.key = k
    BY <1>1, <1>2 DEF Waiting, Caller
  <2>2. callers' = [callers EXCEPT ![c] = w] /\ UNCHANGED <<registry, tasks>>
    BY <1>1, <1>3 DEF PrepareJoins
  <2> HIDE DEF w
  <2>3. Known'
    BY <2>1, <2>2 DEF Told, Known, Typed, TypeOK
  <2> QED BY <2>2, <2>3 DEF Told, Registered, OwnedWhileRunning
<1> DEFINE a == Answer(Superseded(k), "superseded")
<1>4. ASSUME NEW d \in Callers, a[d].pc = "waiting"
      PROVE  a[d] = callers[d] /\ d \notin Superseded(k)
  BY <1>4, AnswersEndWaiting
<1>5. ASSUME NEW d \in Callers, a[d].pc = "waiting"
      PROVE  \/ tasks[callers[d].task].owner = d
             \/ callers[d].key # k /\ registry[callers[d].key] = callers[d].task
  <2>1. callers[d].pc = "waiting" /\ d \notin Superseded(k)
    BY <1>4, <1>5
  <2>2. callers[d].task \in Attempts
    BY <2>1 DEF Typed, CallersNamed, CallerNamed
  <2>3. CASE callers[d].key = k /\ registry[k] = callers[d].task
    BY <2>1, <2>2, <2>3, NoneIsNoValue DEF Superseded, Joiners, Waiters
  <2> QED BY <2>1, <2>3 DEF Told, Known
<1>6. a \in [Callers -> Caller]
  BY AnswerTyped, SupersededWait
<1> HIDE DEF a
<1>7. CASE PreparePanics(c)
  <2> DEFINE w == [Idle EXCEPT !.pc = "panicked"]
  <2>1. /\ callers' = [a EXCEPT ![c] = w] /\ tasks' = tasks
        /\ registry' = [registry EXCEPT ![k] = None]
    BY <1>1, <1>7 DEF PreparePanics, a
  <2>2. w.pc # "waiting"
    BY DEF Idle
  <2> HIDE DEF w
  <2>3. Known'
    <3> SUFFICES ASSUME NEW d \in Callers, callers'[d].pc = "waiting"
                 PROVE  \/ tasks[callers'[d].task].owner = d
                        \/ registry'[callers'[d].key] = callers'[d].task
      BY <2>1 DEF Known
    <3>1. callers'[d] = a[d]
      BY <1>6, <2>1, <2>2
    <3>2. callers'[d] = callers[d] /\ callers[d].key \in Keys
      BY <1>4, <3>1 DEF Typed, CallersNamed, CallerNamed
    <3> QED BY <1>5, <2>1, <3>1, <3>2 DEF Typed, TypeOK
  <2>4. Registered'
    BY <2>1 DEF Told, Registered, Typed, TypeOK
  <2> QED BY <2>1, <2>3, <2>4 DEF Told, OwnedWhileRunning
<1>8. CASE PrepareOwns(c)
  <2> DEFINE t == FreshAttempt
             i == RoutedOrFresh(k)
             n == [NoAttempt EXCEPT !.phase = "spawned", !.key = k, !.inst = i, !.rt = Current,
                                    !.owner = c, !.held = insts[i].svc]
             w == Waiting(c, t)
  <2>1. /\ t \in Attempts
        /\ \A l \in Keys : registry[l] # t
        /\ \A d \in Callers : callers[d].pc = "waiting" => callers[d].task # t
    BY <1>8, FreshIsUnknown DEF PrepareOwns
  <2>2. /\ callers' = [a EXCEPT ![c] = w] /\ tasks' = [tasks EXCEPT ![t] = n]
        /\ registry' = [registry EXCEPT ![k] = t]
    BY <1>1, <1>8 DEF PrepareOwns, a
  <2>3. n.phase = "spawned" /\ n.key = k /\ n.owner = c
    BY DEF NoAttempt
  <2>4. w.task = t
    BY <1>2 DEF Waiting, Caller
  <2> HIDE DEF n, w, t
  <2>5. Known'
    <3> SUFFICES ASSUME NEW d \in Callers, callers'[d].pc = "waiting"
                 PROVE  \/ tasks'[callers'[d].task].owner = d
                        \/ registry'[callers'[d].key] = callers'[d].task
      BY DEF Known
    <3>1. CASE d = c
      BY <1>6, <2>1, <2>2, <2>3, <2>4, <3>1 DEF Typed, TypeOK
    <3>2. CASE d # c
      <4>1. a[d].pc = "waiting" /\ callers'[d] = callers[d] /\ callers[d].pc = "waiting"
        BY <1>4, <1>6, <2>2, <3>2
      <4>2. callers[d].key \in Keys /\ callers[d].task \in Attempts \ {t}
        BY <2>1, <4>1 DEF Typed, CallersNamed, CallerNamed
      <4> QED BY <1>5, <2>2, <4>1, <4>2 DEF Typed, TypeOK
    <3> QED BY <3>1, <3>2
  <2>6. Registered'
    BY <2>1, <2>2, <2>3 DEF Told, Registered, Typed, TypeOK, Opt
  <2>7. OwnedWhileRunning'
    BY <2>2, <2>3, NoneIsNoValue DEF Told, OwnedWhileRunning, Typed, TypeOK
  <2> QED BY <2>5, <2>6, <2>7 DEF Told
<1> QED BY <1>3, <1>7, <1>8

\* A dropped request leaves its task without an owner.
LEMMA DropTold == ASSUME Typed, Told, NEW c \in Callers, DropCaller(c) PROVE Told'
<1>1. \A t \in Attempts : /\ tasks'[t].phase = tasks[t].phase /\ tasks'[t].key = tasks[t].key
                          /\ tasks'[t].owner = IF tasks[t].owner = c THEN None ELSE tasks[t].owner
  BY DEF DropCaller, Typed, TypeOK, Attempt
<1>2. callers' = [callers EXCEPT ![c] = Idle] /\ registry' = registry /\ MayDrop
  BY DEF DropCaller
<1>3. Known'
  BY <1>1, <1>2 DEF Told, Known, Idle, Typed, TypeOK, CallersNamed, CallerNamed
<1>4. Registered'
  BY <1>1, <1>2 DEF Told, Registered, Typed, TypeOK, Opt
<1>5. OwnedWhileRunning'
  BY <1>1, <1>2 DEF Told, OwnedWhileRunning
<1> QED BY <1>3, <1>4, <1>5 DEF Told

\* The task t turns to discarding or panics, and whoever else waited for it,
\* if it was registered and is no more, is told.
LEMMA OneTaskTold ==
    ASSUME Typed, Told, NEW t \in Attempts, NEW w,
           tasks' = [tasks EXCEPT ![t] = w],
           w.owner = tasks[t].owner, tasks[t].phase # "free", w.phase # "free",
           w.phase = "panicked" => MayPanic,
           \/ /\ UNCHANGED <<registry, callers>>
              /\ \/ ~Claims(t)
                 \/ w.phase \in {"connecting", "panicked"} /\ w.key = tasks[t].key
           \/ \E outcome : Claims(t) /\ Release(t, outcome)
    PROVE  Told'
<1>1. OwnedWhileRunning'
  BY DEF Told, OwnedWhileRunning, Typed, TypeOK
<1>2. tasks[t].key \in Keys /\ \A k \in Keys : registry[k] = t => k = tasks[t].key
  BY NoneIsNoValue DEF Typed, AttemptsNamed, Told, Registered
<1>3. CASE UNCHANGED <<registry, callers>> /\ ~Claims(t)
  <2>1. \A k \in Keys : registry[k] # t
    BY <1>2, <1>3 DEF Claims
  <2>2. Registered'
    BY <1>3, <2>1 DEF Told, Registered, Typed, TypeOK, Opt
  <2>3. Known'
    BY <1>3 DEF Told, Known, Typed, TypeOK, CallersNamed, CallerNamed
  <2> QED BY <1>1, <2>2, <2>3 DEF Told
<1>4. CASE /\ UNCHANGED <<registry, callers>>
           /\ w.phase \in {"connecting", "panicked"} /\ w.key = tasks[t].key
  <2>1. Registered'
    BY <1>4 DEF Told, Registered, Typed, TypeOK, Opt
  <2>2. Known'
    BY <1>4 DEF Told, Known, Typed, TypeOK, CallersNamed, CallerNamed
  <2> QED BY <1>1, <2>1, <2>2 DEF Told
<1>5. ASSUME NEW outcome, Claims(t), Release(t, outcome) PROVE Told'
  <2>1. /\ registry' = [registry EXCEPT ![tasks[t].key] = None]
        /\ callers' = Answer(Joiners(t), outcome)
        /\ registry[tasks[t].key] = t
    BY <1>5 DEF Release, Claims
  <2>2. Registered'
    BY <1>2, <2>1 DEF Told, Registered, Typed, TypeOK, Opt
  <2>3. Known'
    <3> SUFFICES ASSUME NEW c \in Callers, callers'[c].pc = "waiting"
                 PROVE  \/ tasks'[callers'[c].task].owner = c
                        \/ registry'[callers'[c].key] = callers'[c].task
      BY DEF Known
    <3>1. c \notin Joiners(t) /\ callers'[c] = callers[c]
      BY <2>1, AnswersEndWaiting
    <3>2. callers[c].key \in Keys /\ callers[c].task \in Attempts
      BY <3>1 DEF Typed, CallersNamed, CallerNamed
    <3>3. callers[c].task = t => tasks[t].owner = c
      BY <3>1 DEF Joiners, Waiters
    <3> QED BY <2>1, <3>1, <3>2, <3>3 DEF Told, Known, Typed, TypeOK
  <2> QED BY <1>1, <2>2, <2>3 DEF Told
<1> QED BY <1>3, <1>4, <1>5

\* Every step of a startup task.
LEMMA TasksTold ==
    ASSUME Typed, Told, NEW t \in Attempts, TaskContinues(t) \/ TaskPanics(t)
    PROVE  Told'
<1>0. tasks[t] \in Attempt
  BY DEF Typed, TypeOK
<1>1. CASE TransportBegins(t)
  <2> DEFINE w == [tasks[t] EXCEPT !.phase = "connecting",
                                   !.made = [cfg |-> tasks[t].rt.cfg, sec |-> secret]]
  <2>1. w.owner = tasks[t].owner /\ w.phase = "connecting" /\ w.key = tasks[t].key
    BY <1>0 DEF Attempt
  <2>2. tasks' = [tasks EXCEPT ![t] = w] /\ tasks[t].phase # "free" /\ UNCHANGED <<registry, callers>>
    BY <1>1 DEF TransportBegins, Typed, TypeOK
  <2> HIDE DEF w
  <2> QED BY <2>1, <2>2, OneTaskTold
<1>2. CASE TaskPanics(t)
  <2> DEFINE w == [tasks[t] EXCEPT !.phase = "panicked", !.held = None]
  <2>1. w.owner = tasks[t].owner /\ w.phase = "panicked" /\ w.key = tasks[t].key
    BY <1>0 DEF Attempt
  <2>2. /\ tasks' = [tasks EXCEPT ![t] = w] /\ tasks[t].phase # "free"
        /\ UNCHANGED <<registry, callers>> /\ MayPanic
    BY <1>2 DEF TaskPanics, Typed, TypeOK
  <2> HIDE DEF w
  <2> QED BY <2>1, <2>2, OneTaskTold
<1>3. ASSUME NEW service, NEW outcome, Discarding(t, service, outcome), tasks[t].phase = "connecting",
             \/ Claims(t) /\ Release(t, outcome)
             \/ ~Claims(t) /\ UNCHANGED <<registry, callers>>
      PROVE  Told'
  <2> DEFINE w == [tasks[t] EXCEPT !.phase = "discarding", !.held = service, !.outcome = outcome]
  <2>1. w.owner = tasks[t].owner /\ w.phase = "discarding"
    BY <1>0 DEF Attempt
  <2>2. tasks' = [tasks EXCEPT ![t] = w]
    BY <1>3 DEF Discarding, Typed, TypeOK
  <2> HIDE DEF w
  <2> QED BY <1>3, <2>1, <2>2, OneTaskTold
<1>4. CASE PublishReady(t)
  BY <1>3, <1>4 DEF PublishReady
<1>5. ASSUME NEW r \in Results, PublishFailed(t, r) \/ PublishSuperseded(t, r) \/ PublishUnclaimed(t, r)
      PROVE  Told'
  BY <1>3, <1>5 DEF PublishFailed, PublishSuperseded, PublishUnclaimed
<1>6. ASSUME NEW who, NEW outcome, callers' = Answer(who, outcome),
             \A c \in Callers : callers[c].pc = "waiting" /\ callers[c].task = t => c \in who,
             \A k \in Keys : registry'[k] = IF registry[k] = t THEN None ELSE registry[k],
             tasks' = [tasks EXCEPT ![t] = NoAttempt]
      PROVE  Told'
  <2>1. Registered'
    BY <1>6 DEF Told, Registered, Typed, TypeOK, Opt
  <2>2. Known'
    <3> SUFFICES ASSUME NEW c \in Callers, callers'[c].pc = "waiting"
                 PROVE  \/ tasks'[callers'[c].task].owner = c
                        \/ registry'[callers'[c].key] = callers'[c].task
      BY DEF Known
    <3>1. c \notin who /\ callers'[c] = callers[c]
      BY <1>6, AnswersEndWaiting
    <3>2. callers[c].key \in Keys /\ callers[c].task \in Attempts \ {t}
      BY <1>6, <3>1 DEF Typed, CallersNamed, CallerNamed
    <3> QED BY <1>6, <3>1, <3>2 DEF Told, Known, Typed, TypeOK
  <2>3. OwnedWhileRunning'
    BY <1>6 DEF NoAttempt, Told, OwnedWhileRunning, Typed, TypeOK
  <2> QED BY <2>1, <2>2, <2>3 DEF Told
<1>7. CASE Discard(t)
  <2>1. \A k \in Keys : registry[k] # t
    BY <1>7, NoneIsNoValue DEF Discard, Told, Registered
  <2>2. ASSUME NEW c \in Callers, callers[c].pc = "waiting", callers[c].task = t
        PROVE  c \in {tasks[t].owner} \cap Callers
    <3>1. callers[c].key \in Keys
      BY <2>2 DEF Typed, CallersNamed, CallerNamed
    <3> QED BY <2>1, <2>2, <3>1 DEF Told, Known
  <2>3. /\ callers' = Answer({tasks[t].owner} \cap Callers, tasks[t].outcome)
        /\ tasks' = [tasks EXCEPT ![t] = NoAttempt] /\ registry' = registry
    BY <1>7 DEF Discard
  <2> QED BY <1>6, <2>1, <2>2, <2>3
<1>8. CASE CleanUpPanic(t)
  <2>1. \A k \in Keys : registry[k] = t => k = tasks[t].key
    BY NoneIsNoValue DEF Told, Registered
  <2>2. \A k \in Keys : registry'[k] = IF registry[k] = t THEN None ELSE registry[k]
    BY <1>8, <2>1 DEF CleanUpPanic, Claims, Typed, TypeOK
  <2>3. callers' = Answer(Waiters(t), "failed") /\ tasks' = [tasks EXCEPT ![t] = NoAttempt]
    BY <1>8 DEF CleanUpPanic
  <2>4. \A c \in Callers : callers[c].pc = "waiting" /\ callers[c].task = t => c \in Waiters(t)
    BY DEF Waiters
  <2> QED BY <1>6, <2>2, <2>3, <2>4
<1> QED BY <1>1, <1>2, <1>4, <1>5, <1>7, <1>8 DEF TaskContinues

\* Every step keeps Told.
LEMMA ToldStep == Typed /\ Told /\ [Next]_vars => Told'
<1> SUFFICES ASSUME Typed, Told, [Next]_vars PROVE Told'
  OBVIOUS
<1>1. CASE UNCHANGED startVars
  BY <1>1 DEF startVars, Told, Registered, Known, OwnedWhileRunning
<1>2. ASSUME NEW c \in Callers, CallerSteps(c) \/ CallerContinues(c) PROVE Told'
  BY <1>2, QuietCallers, PreparesTold, DropTold DEF CallerSteps, CallerContinues
<1>3. ASSUME NEW t \in Attempts, TaskContinues(t) \/ TaskPanics(t) PROVE Told'
  BY <1>3, TasksTold
<1>4. ASSUME NEW h \in Reconnects, ReconnectContinues(h) \/ \E i \in Instances : HealthBegins(h, i)
      PROVE  UNCHANGED startVars
  BY <1>4 DEF ReconnectContinues, HealthPublishes, HealthDiscards, HealthFails, HealthInvalidated,
              HealthBegins
<1>5. ASSUME Administer PROVE UNCHANGED startVars
  BY <1>5 DEF Administer, SetMode, StoreUpdate, RotateSecret, Delete, Synchronize, ApplyUpdate,
              AbandonUpdate, DisableRuntime
<1>6. ASSUME Operate \/ CallSucceeds \/ BackoffEnds PROVE UNCHANGED startVars
  BY <1>6 DEF Operate, Disconnect, Connect, Relaunch, Reap, EvictClosed, CallFails, CallSucceeds,
              BackoffEnds
<1>7. CASE UNCHANGED vars
  BY <1>1, <1>7 DEF vars
<1> QED BY <1>1, <1>2, <1>3, <1>4, <1>5, <1>6, <1>7 DEF Next

\* Where tasks do not panic, or requests are not dropped, whoever waits for a
\* startup attempt has someone who will answer (ensure_connected_coordinated).
THEOREM NobodyIsStranded ==
    ASSUME ~(MayPanic /\ MayDrop) PROVE Spec => []NoStrandedWaiter
<1>1. Init => Told
  BY NoneIsNoValue DEF Init, Told, Registered, Known, OwnedWhileRunning, NoAttempt, Idle
<1>2. Typed /\ Told => NoStrandedWaiter
  <2> SUFFICES ASSUME Typed, Told, NEW c \in Callers, callers[c].pc = "waiting",
                      tasks[callers[c].task].owner # c
               PROVE  LET t == callers[c].task
                      IN  /\ registry[callers[c].key] = t
                          /\ \/ tasks[t].phase \in Running
                             \/ tasks[t].phase = "panicked" /\ tasks[t].owner # None
    BY NoneIsNoValue DEF NoStrandedWaiter, Told, OwnedWhileRunning, Typed, CallersNamed, CallerNamed
  <2>1. /\ registry[callers[c].key] = callers[c].task
        /\ callers[c].key \in Keys /\ callers[c].task \in Attempts
    BY DEF Told, Known, Typed, CallersNamed, CallerNamed
  <2> QED BY <2>1, NoneIsNoValue DEF Told, Registered, OwnedWhileRunning, Running
<1> QED BY <1>1, <1>2, TypedInit, TypedStep, ToldStep, PTL DEF Spec

=============================================================================
