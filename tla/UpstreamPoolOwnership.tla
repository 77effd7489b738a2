------------------------ MODULE UpstreamPoolOwnership ------------------------
(***************************************************************************)
(* Who owns what in the connection pool: the services, the instances that  *)
(* are being started, and the right to bring a disabled server back.  The  *)
(* theorems hold for any number of requests, keys, instances, attempts,    *)
(* reconnects and services; each rests on Typed and an inductive invariant *)
(* of its own:                                                             *)
(*                                                                         *)
(*   FreshPublication     MadeAsAsked: a transport runs the configuration  *)
(*                        its attempt was made for;                        *)
(*   ServedServiceLive    Lone: the service of a ready instance is held by *)
(*                        nobody else, neither another instance nor a      *)
(*                        worker that will cancel it, and what is          *)
(*                        cancelled is held by some instance;              *)
(*   InitializingHasOwner Owned: what initializes is on the route of the   *)
(*                        attempt registered for it, or under its epoch.   *)
(*                                                                         *)
(* DisableIsFinal and LateResultHarmless follow from Typed alone.  Lone is *)
(* also what the refinement rests on: the pool implements UpstreamServices *)
(* (KeepsPromise, at the end).                                             *)
(***************************************************************************)
EXTENDS UpstreamPoolSafety

-----------------------------------------------------------------------------
(* A disabled server stays off *)

\* Only an enable of the present generation, or a row stored as enabled, gives
\* a server without configuration one.
LEMMA OffStaysOff ==
    ASSUME [Next]_vars, config = None, stored.cfg = None \/ stored.mode # "enabled",
           \A c \in Callers : callers[c].pc \in {"captured", "loaded"} => callers[c].gen # lifecycle
    PROVE  config' = None
<1>1. CASE Synchronize
  BY <1>1 DEF Synchronize, SyncBlocked, SyncRemoves, SyncKeeps
<1>2. CASE ApplyUpdate
  BY <1>2 DEF ApplyUpdate
<1>3. CASE DisableRuntime
  BY <1>3 DEF DisableRuntime
<1>4. ASSUME NEW c \in Callers, EnableApplies(c) PROVE FALSE
  BY <1>4 DEF EnableApplies, GenerationHolds
<1> QED BY <1>1, <1>2, <1>3, <1>4, ConfigStep

\* No enable that captured its generation before the last disable brings the
\* server back, whatever it loaded meanwhile (enable_server_coordinated).
THEOREM DisablesAreFinal == Spec => DisableIsFinal
<1> DEFINE Final ==
        (/\ config = None
         /\ stored.cfg = None \/ stored.mode # "enabled"
         /\ \A c \in Callers : callers[c].pc \in {"captured", "loaded"} => callers[c].gen # lifecycle)
        => config' = None
<1>1. ASSUME [Next]_vars PROVE [Final]_vars
  BY <1>1, OffStaysOff
<1> QED BY <1>1, PTL DEF Spec, DisableIsFinal

-----------------------------------------------------------------------------
(* How the services of the instances change *)

\* The fields of an instance after the pool has replaced some of them.
LEMMA InstanceFields ==
    ASSUME NEW x \in Instance
    PROVE  /\ \A s : /\ [x EXCEPT !.status = s].status = s
                     /\ [x EXCEPT !.status = s].svc = x.svc
                     /\ [x EXCEPT !.status = s].place = x.place
           /\ \A s, v : /\ [x EXCEPT !.status = s, !.svc = v].status = s
                        /\ [x EXCEPT !.status = s, !.svc = v].svc = v
                        /\ [x EXCEPT !.status = s, !.svc = v].place = x.place
           /\ \A rt : /\ Served(x, rt).status = "Ready"
                      /\ Served(x, rt).svc = FreshService
                      /\ Served(x, rt).rt = rt
                      /\ Served(x, rt).place = x.place
           /\ \A k \in Keys : [x EXCEPT !.place = k] \in Instance /\ [x EXCEPT !.place = k].place = k
<1>1. \A k \in Keys : [x EXCEPT !.place = k] \in Instance
  BY InstanceUpdates DEF Opt, Status
<1> QED BY <1>1 DEF Instance, Served

LEMMA AbsentFields ==
    /\ Absent.place = None /\ Absent.status = "Idle" /\ Absent.svc = None
    /\ \A k : /\ Placeholder(k).place = k
              /\ Placeholder(k).status = "Idle" /\ Placeholder(k).svc = None
BY DEF Absent, Placeholder

\* A transport runs the configuration that its attempt was made for; only the
\* secrets are resolved anew.
MadeAsAsked == \A t \in Attempts : tasks[t].phase = "connecting" => tasks[t].made.cfg = tasks[t].rt.cfg

\* The instance keeps its service or loses it, and does not become ready.
FadesFrom(i, x) ==
    x.svc \in {insts[i].svc, None} /\ (x.status = "Ready" => insts[i].status = "Ready")
Fades(i) == FadesFrom(i, insts'[i])
\* It becomes ready with a new service for the configuration of the pool,
Renewed(i) ==
    /\ FreeServices # {} /\ insts'[i].svc = FreshService
    /\ insts'[i].status = "Ready" /\ insts'[i].rt.cfg = config'
\* or a reconnect that failed gives it back the service that was cloned.
Restored(i) ==
    /\ insts'[i].status # "Ready"
    /\ \E h \in Reconnects : insts'[i].svc = recon[h].held

\* One instance at most gets a service in a step.
ServicesMove ==
    \/ \A i \in Instances : Fades(i)
    \/ \E i \in Instances : /\ Renewed(i) \/ Restored(i)
                            /\ \A j \in Instances \ {i} : insts'[j] = insts[j]

\* A step that replaces one instance.
LEMMA OneInstanceMoves ==
    ASSUME Typed, NEW i \in Instances, NEW w, insts' = [insts EXCEPT ![i] = w]
    PROVE  /\ insts'[i] = w
           /\ \A j \in Instances \ {i} : insts'[j] = insts[j] /\ Fades(j)
           /\ FadesFrom(i, w) => ServicesMove
           /\ FreeServices # {} /\ w.svc = FreshService /\ w.status = "Ready" /\ w.rt.cfg = config' => ServicesMove
<1>1. insts'[i] = w
  BY DEF Typed, TypeOK
<1>2. \A j \in Instances \ {i} : insts'[j] = insts[j] /\ Fades(j)
  BY DEF Typed, TypeOK, Fades, FadesFrom
<1>3. ASSUME FadesFrom(i, w) PROVE \A j \in Instances : Fades(j)
  BY <1>1, <1>2, <1>3 DEF Fades
<1>4. ASSUME FreeServices # {}, w.svc = FreshService, w.status = "Ready", w.rt.cfg = config' PROVE Renewed(i)
  BY <1>1, <1>4 DEF Renewed
<1> QED BY <1>1, <1>2, <1>3, <1>4 DEF ServicesMove

\* A step that leaves the instances alone or replaces a status.
LEMMA StatusMoves ==
    ASSUME Typed, NEW i \in Instances, NEW s, s # "Ready",
           insts' = insts \/ insts' = [insts EXCEPT ![i].status = s]
    PROVE  ServicesMove
<1>1. CASE insts' = insts
  BY <1>1 DEF ServicesMove, Fades, FadesFrom
<1>2. CASE insts' = [insts EXCEPT ![i].status = s]
  <2> DEFINE w == [insts[i] EXCEPT !.status = s]
  <2>1. insts' = [insts EXCEPT ![i] = w]
    BY <1>2 DEF Typed, TypeOK
  <2>2. FadesFrom(i, w)
    BY InstanceFields DEF FadesFrom, Typed, TypeOK
  <2> HIDE DEF w
  <2> QED BY <2>1, <2>2, OneInstanceMoves
<1> QED BY <1>1, <1>2

\* Settling an invalidated result does no more than that.
LEMMA SettledMoves ==
    ASSUME Typed, NEW i \in Instances, insts' = insts \/ insts' = Settled(i)
    PROVE  ServicesMove
BY StatusMoves DEF Settled

\* A disconnect takes the service of the instance away.
LEMMA DisconnectedFades ==
    ASSUME Typed, NEW i \in Instances, NEW j \in Instances
    PROVE  /\ FadesFrom(j, Disconnected(i)[j])
           /\ j = i => Disconnected(i)[j].status # "Ready"
           /\ j # i => Disconnected(i)[j] = insts[j]
<1>1. insts[i] \in Instance /\ insts[j] \in Instance
  BY DEF Typed, TypeOK
<1>2. /\ [insts[i] EXCEPT !.status = "Shutdown", !.svc = None].svc = None
      /\ [insts[i] EXCEPT !.status = "Shutdown", !.svc = None].status = "Shutdown"
  BY <1>1, InstanceFields
<1> QED BY <1>1, <1>2, AbsentFields DEF Disconnected, FadesFrom, Typed, TypeOK

\* A disconnect that may be dropped midway.
LEMMA InterruptedMoves ==
    ASSUME Typed, NEW i \in Instances, Disconnects(i) \/ Interrupted(i)
    PROVE  ServicesMove
<1>1. CASE Disconnects(i)
  BY <1>1, DisconnectedFades DEF Disconnects, ServicesMove, Fades
<1>2. CASE Interrupted(i)
  <2>1. PICK status \in {insts[i].status, "Shutdown"} :
            insts' = [insts EXCEPT ![i] = [@ EXCEPT !.status = status, !.svc = None]]
    BY <1>2 DEF Interrupted
  <2> DEFINE w == [insts[i] EXCEPT !.status = status, !.svc = None]
  <2>2. w.status = status /\ w.svc = None
    BY InstanceFields DEF Typed, TypeOK
  <2>3. insts' = [insts EXCEPT ![i] = w]
    BY <2>1 DEF Typed, TypeOK
  <2> HIDE DEF w
  <2>4. FadesFrom(i, w)
    BY <2>2 DEF FadesFrom
  <2> QED BY <2>3, <2>4, OneInstanceMoves
<1> QED BY <1>1, <1>2

\* The operator's connect on instances that are as they were or have faded.
LEMMA ConnectFromMoves ==
    ASSUME Typed, NEW ii \in [Instances -> Instance], NEW i \in Instances,
           \A j \in Instances : FadesFrom(j, ii[j]) /\ (j # i => ii[j] = insts[j]),
           ConnectFrom(ii, i), config' = config
    PROVE  ServicesMove
<1>1. ii[i] \in Instance
  OBVIOUS
<1>2. CASE insts' = ii
  BY <1>2 DEF ServicesMove, Fades
<1>3. CASE FreeServices # {} /\ insts' = [ii EXCEPT ![i] = Served(@, Current)]
  <2> DEFINE w == Served(ii[i], Current)
  <2>1. w.svc = FreshService /\ w.status = "Ready" /\ w.rt.cfg = config
    BY <1>1, InstanceFields DEF Current
  <2>2. insts' = [ii EXCEPT ![i] = w]
    BY <1>3
  <2> HIDE DEF w
  <2>3. Renewed(i)
    BY <1>3, <2>1, <2>2 DEF Renewed
  <2>4. \A j \in Instances \ {i} : insts'[j] = insts[j]
    BY <2>2
  <2> QED BY <2>3, <2>4 DEF ServicesMove
<1>4. ASSUME NEW s, s # "Ready", insts' = [ii EXCEPT ![i].status = s]
      PROVE  ServicesMove
  <2> DEFINE w == [ii[i] EXCEPT !.status = s]
  <2>1. w.status = s /\ w.svc = ii[i].svc
    BY <1>1, InstanceFields
  <2>2. insts' = [ii EXCEPT ![i] = w]
    BY <1>4
  <2> HIDE DEF w
  <2>3. \A j \in Instances : Fades(j)
    BY <1>4, <2>1, <2>2 DEF Fades, FadesFrom
  <2> QED BY <2>3 DEF ServicesMove
<1>5. \A r : ErrorOf(r) # "Ready"
  BY DEF ErrorOf
<1> QED BY <1>2, <1>3, <1>4, <1>5 DEF ConnectFrom

\* A demand that owns an attempt starts an instance, with the service it has.
LEMMA PrepareOwnsMoves ==
    ASSUME Typed, NEW c \in Callers, PrepareOwns(c)
    PROVE  LET i == RoutedOrFresh(callers[c].key)
           IN  /\ i \in Instances /\ callers[c].key \in Keys
               /\ insts'[i].status = "Initializing"
               /\ \A j \in Instances \ {i} : insts'[j] = insts[j]
               /\ insts'[i].svc = IF Exists(i) THEN insts[i].svc ELSE None
               /\ insts'[i].place # None
               /\ ServicesMove
<1>1. PICK k \in Keys : k = callers[c].key
  BY DEF PrepareOwns, MustStart, Typed, CallersNamed, CallerNamed
<1> DEFINE i == RoutedOrFresh(k)
           b == IF Exists(i) THEN insts[i] ELSE Placeholder(k)
           w == [b EXCEPT !.status = "Initializing"]
<1>2. i \in Instances
  BY <1>1, ChosenInstance DEF PrepareOwns
<1>3. b \in Instance /\ b.svc = (IF Exists(i) THEN insts[i].svc ELSE None) /\ b.place # None
  BY <1>2, PlaceholderTyped, AbsentFields, NoneIsNoValue DEF Typed, TypeOK, Exists
<1>4. insts' = [insts EXCEPT ![i] = w]
  BY <1>1 DEF PrepareOwns
<1>5. w.status = "Initializing" /\ w.svc = b.svc /\ w.place # None
  BY <1>3, InstanceFields
<1> HIDE DEF w, b, i
<1>6. FadesFrom(i, w)
  BY <1>3, <1>5 DEF FadesFrom
<1>7. /\ insts'[i] = w
      /\ \A j \in Instances \ {i} : insts'[j] = insts[j]
      /\ ServicesMove
  BY <1>2, <1>4, <1>6, OneInstanceMoves
<1> QED BY <1>1, <1>2, <1>3, <1>5, <1>7 DEF i

\* An instance that becomes the placeholder.
LEMMA PlaceholderMoves ==
    ASSUME Typed, insts' = WithPlaceholder, In(Default) = {} => FreeInstances # {}
    PROVE  ServicesMove
<1>1. CASE insts' = insts
  BY <1>1 DEF ServicesMove, Fades, FadesFrom
<1>2. CASE FreeInstances # {} /\ insts' = [insts EXCEPT ![FreshInstance] = Placeholder(Default)]
  <2>1. FreshInstance \in Instances
    BY <1>2, FreshIds
  <2>2. FadesFrom(FreshInstance, Placeholder(Default))
    BY AbsentFields DEF FadesFrom
  <2> QED BY <1>2, <2>1, <2>2, OneInstanceMoves
<1> QED BY <1>1, <1>2 DEF WithPlaceholder

\* A startup task serves the instance it was made for with a new service.
LEMMA TasksMove ==
    ASSUME Typed, MadeAsAsked, NEW t \in Attempts, TaskContinues(t) \/ TaskPanics(t)
    PROVE  ServicesMove
<1> DEFINE i == tasks[t].inst
<1>1. CASE TransportBegins(t) \/ Discard(t) \/ TaskPanics(t)
  BY <1>1 DEF TransportBegins, Discard, TaskPanics, ServicesMove, Fades, FadesFrom
<1>2. CASE PublishReady(t)
  <2>1. i \in Instances /\ tasks[t].key \in Keys /\ insts[i] \in Instance
    BY <1>2 DEF PublishReady, Typed, TypeOK, AttemptsNamed
  <2> DEFINE x == [insts[i] EXCEPT !.place = tasks[t].key]
             w == Served(x, tasks[t].made)
  <2>2. x \in Instance
    BY <2>1, InstanceFields
  <2>3. insts' = [insts EXCEPT ![i] = w] /\ FreeServices # {}
    BY <1>2, <2>1 DEF PublishReady, Typed, TypeOK
  <2>4. w.svc = FreshService /\ w.status = "Ready" /\ w.rt = tasks[t].made
    BY <2>2, InstanceFields
  <2>5. tasks[t].made.cfg = config'
    BY <1>2 DEF PublishReady, StillOwned, MadeAsAsked
  <2> HIDE DEF w, i
  <2> QED BY <2>1, <2>3, <2>4, <2>5, OneInstanceMoves
<1>3. ASSUME NEW r \in Results, PublishFailed(t, r) \/ PublishSuperseded(t, r) \/ PublishUnclaimed(t, r)
      PROVE  ServicesMove
  <2>1. i \in Instances
    BY <1>3 DEF PublishFailed, PublishSuperseded, PublishUnclaimed, Typed, AttemptsNamed
  <2>2. ErrorOf(r) # "Ready"
    BY DEF ErrorOf
  <2> QED BY <1>3, <2>1, <2>2, StatusMoves, SettledMoves DEF PublishFailed, PublishSuperseded, PublishUnclaimed
<1>4. CASE CleanUpPanic(t)
  <2>1. i \in Instances
    BY <1>4 DEF CleanUpPanic, Typed, AttemptsNamed
  <2> QED BY <1>4, <2>1, StatusMoves DEF CleanUpPanic
<1> QED BY <1>1, <1>2, <1>3, <1>4 DEF TaskContinues

\* So does a health reconnect; a failed one puts the cloned service back.
LEMMA ReconnectsMove ==
    ASSUME Typed, NEW h \in Reconnects,
           ReconnectContinues(h) \/ \E i \in Instances : HealthBegins(h, i)
    PROVE  ServicesMove
<1> DEFINE i == recon[h].inst
<1>1. ASSUME NEW j \in Instances, HealthBegins(h, j) PROVE ServicesMove
  BY <1>1, StatusMoves DEF HealthBegins
<1>2. CASE HealthDiscards(h)
  BY <1>2 DEF HealthDiscards, ServicesMove, Fades, FadesFrom
<1>3. ASSUME recon[h].phase = "connecting" PROVE i \in Instances /\ insts[i] \in Instance
  BY <1>3 DEF Typed, TypeOK, ReconnectsNamed
<1>4. CASE HealthPublishes(h)
  <2>1. i \in Instances /\ insts[i] \in Instance
    BY <1>3, <1>4 DEF HealthPublishes
  <2>2. PICK s : insts' = [insts EXCEPT ![i] = Served(@, [recon[h].rt EXCEPT !.sec = s])]
    BY <1>4 DEF HealthPublishes
  <2> DEFINE rt == [recon[h].rt EXCEPT !.sec = s]
             w == Served(insts[i], rt)
  <2>3. recon[h].rt \in Runtime
    BY <1>4 DEF HealthPublishes, Typed, ReconnectsNamed
  <2>4. rt.cfg = config'
    BY <1>4, <2>3 DEF HealthPublishes, HealthStillOwned, Runtime
  <2>5. w.svc = FreshService /\ w.status = "Ready" /\ w.rt = rt
    <3> HIDE DEF rt
    <3> QED BY <2>1, InstanceFields
  <2>6. insts' = [insts EXCEPT ![i] = w] /\ FreeServices # {}
    BY <1>4, <2>1, <2>2 DEF HealthPublishes, Typed, TypeOK
  <2> HIDE DEF w, i, rt
  <2> QED BY <2>1, <2>4, <2>5, <2>6, OneInstanceMoves
<1>5. ASSUME NEW r \in Results, HealthFails(h, r) PROVE ServicesMove
  <2>1. i \in Instances /\ insts[i] \in Instance
    BY <1>3, <1>5 DEF HealthFails
  <2> DEFINE w == [insts[i] EXCEPT !.status = ErrorOf(r), !.svc = recon[h].held]
  <2>2. insts' = [insts EXCEPT ![i] = w]
    BY <1>5, <2>1 DEF HealthFails, Typed, TypeOK
  <2>3. w.status # "Ready" /\ w.svc = recon[h].held
    BY <2>1, InstanceFields DEF ErrorOf
  <2> HIDE DEF w, i
  <2>4. /\ insts'[i] = w
        /\ \A j \in Instances \ {i} : insts'[j] = insts[j]
    BY <2>1, <2>2, OneInstanceMoves
  <2> QED BY <2>1, <2>3, <2>4 DEF ServicesMove, Restored
<1>6. ASSUME NEW r \in Results, HealthInvalidated(h, r) PROVE ServicesMove
  BY <1>3, <1>6, SettledMoves DEF HealthInvalidated
<1> QED BY <1>1, <1>2, <1>4, <1>5, <1>6 DEF ReconnectContinues

\* Synchronizing, updating and disabling only take instances away.
LEMMA AdministerMoves == ASSUME Typed, Administer PROVE ServicesMove
<1>1. ASSUME \A i \in Instances : insts'[i] \in {insts[i], Absent, Placeholder(Default)}
      PROVE  ServicesMove
  BY <1>1, AbsentFields DEF ServicesMove, Fades, FadesFrom
<1>2. CASE Synchronize
  <2>1. CASE SyncBlocked \/ SyncRemoves
    BY <1>1, <2>1 DEF SyncBlocked, SyncRemoves, NoInstances, SharedDropped
  <2>2. CASE SyncKeeps
    <3>1. ASSUME NEW i \in Instances, insts' = Rested(i) PROVE ServicesMove
      BY <3>1, StatusMoves DEF Rested
    <3>2. insts' = insts => ServicesMove
      BY <1>1
    <3> QED BY <2>2, <3>1, <3>2, PlaceholderMoves DEF SyncKeeps, In
  <2> QED BY <1>2, <2>1, <2>2 DEF Synchronize
<1>3. CASE ApplyUpdate
  BY <1>1, <1>3 DEF ApplyUpdate, NoInstances
<1>4. CASE DisableRuntime
  BY <1>1, <1>4 DEF DisableRuntime, NoInstances
<1>5. ASSUME ~Synchronize, ~ApplyUpdate, ~DisableRuntime PROVE insts' = insts
  BY <1>5 DEF Administer, SetMode, StoreUpdate, RotateSecret, Delete, AbandonUpdate
<1> QED BY <1>1, <1>2, <1>3, <1>4, <1>5

\* The operator's requests, and the failures that calls report.
LEMMA OperateMoves == ASSUME Typed, Operate \/ CallSucceeds \/ BackoffEnds PROVE ServicesMove
<1>1. ASSUME NEW i \in Instances, Disconnect(i) \/ Reap(i) PROVE ServicesMove
  BY <1>1, InterruptedMoves DEF Disconnect, Reap
<1>2. ASSUME NEW i \in Instances, Connect(i) PROVE ServicesMove
  <2>1. insts \in [Instances -> Instance] /\ \A j \in Instances : FadesFrom(j, insts[j])
    BY DEF Typed, TypeOK, FadesFrom
  <2> QED BY <1>2, <2>1, ConnectFromMoves DEF Connect
<1>3. ASSUME NEW i \in Instances, Relaunch(i) PROVE ServicesMove
  BY <1>3, DisconnectedTyped, DisconnectedFades, ConnectFromMoves DEF Relaunch
<1>4. ASSUME NEW i \in Instances, EvictClosed(i) PROVE ServicesMove
  <2> DEFINE w == [insts[i] EXCEPT !.status = "Shutdown", !.svc = None]
  <2>1. w.status = "Shutdown" /\ w.svc = None
    BY InstanceFields DEF Typed, TypeOK
  <2>2. insts' = [insts EXCEPT ![i] = w]
    BY <1>4 DEF EvictClosed, Typed, TypeOK
  <2> HIDE DEF w
  <2>3. FadesFrom(i, w)
    BY <2>1 DEF FadesFrom
  <2> QED BY <2>2, <2>3, OneInstanceMoves
<1>5. ASSUME NEW i \in Instances, NEW gone \in BOOLEAN, CallFails(i, gone) PROVE ServicesMove
  BY <1>5, InterruptedMoves, StatusMoves DEF CallFails
<1>6. CASE CallSucceeds \/ BackoffEnds
  BY <1>6 DEF CallSucceeds, BackoffEnds, ServicesMove, Fades, FadesFrom
<1> QED BY <1>1, <1>2, <1>3, <1>4, <1>5, <1>6 DEF Operate

\* In every step at most one instance gets a service: a new one, for the
\* configuration of that moment, or the one a failed reconnect had cloned.
LEMMA ServicesStep == ASSUME Typed, MadeAsAsked, [Next]_vars PROVE ServicesMove
<1>1. CASE insts' = insts
  BY <1>1 DEF ServicesMove, Fades, FadesFrom
<1>2. ASSUME NEW c \in Callers, CallerSteps(c) \/ CallerContinues(c) PROVE ServicesMove
  <2>1. CASE PrepareOwns(c)
    BY <2>1, PrepareOwnsMoves
  <2>2. CASE EnableApplies(c)
    BY <2>2, PlaceholderMoves DEF EnableApplies
  <2>3. CASE ~PrepareOwns(c) /\ ~EnableApplies(c)
    BY <1>1, <1>2, <2>3 DEF CallerSteps, CallerContinues, Demand, EnableCaptures, DropCaller,
         PrepareAnswers, PrepareJoins, PreparePanics, EnableLoads, EnableBails
  <2> QED BY <2>1, <2>2, <2>3
<1>3. CASE UNCHANGED vars
  BY <1>1, <1>3 DEF vars
<1> QED BY <1>2, <1>3, TasksMove, ReconnectsMove, AdministerMoves, OperateMoves DEF Next

-----------------------------------------------------------------------------
(* How the attempts and the reconnects change *)

\* The result of a startup task is taken, one way or another.
Publishes(t) ==
    \/ PublishReady(t)
    \/ \E r \in Results : PublishFailed(t, r) \/ PublishSuperseded(t, r) \/ PublishUnclaimed(t, r)

\* The task keeps all but its owner,
TaskKept(t) ==
    /\ tasks'[t].phase = tasks[t].phase /\ tasks'[t].inst = tasks[t].inst
    /\ tasks'[t].rt = tasks[t].rt /\ tasks'[t].made = tasks[t].made
    /\ tasks'[t].held = tasks[t].held
\* begins with the service of an instance that it starts,
TaskStarts(t) ==
    /\ tasks'[t].phase = "spawned"
    /\ \E i \in Instances : insts'[i].status = "Initializing" /\ tasks'[t].held = insts[i].svc
\* makes its transport,
TaskConnects(t) ==
    /\ tasks'[t].phase = "connecting" /\ tasks'[t].made.cfg = tasks'[t].rt.cfg
    /\ tasks'[t].held = tasks[t].held
\* publishes, and is left with a service to discard,
TaskPublishes(t) ==
    /\ tasks[t].phase = "connecting" /\ tasks'[t].phase = "discarding"
    /\ Publishes(t)
    /\ \/ tasks'[t].held \in {tasks[t].held, None}
       \/ \E i \in Instances : /\ insts'[i].svc = FreshService /\ FreeServices # {}
                               /\ tasks'[t].held = insts[i].svc
\* or is over.
TaskStops(t) == tasks'[t].phase \in {"free", "panicked"} /\ tasks'[t].held = None

TaskMoves(t) ==
    TaskKept(t) \/ TaskStarts(t) \/ TaskConnects(t) \/ TaskPublishes(t) \/ TaskStops(t)

\* The fields of an attempt after the pool has replaced some of them.
LEMMA AttemptFields ==
    ASSUME NEW x \in Attempt
    PROVE  /\ \A p, s : /\ [x EXCEPT !.phase = p, !.held = s].phase = p
                        /\ [x EXCEPT !.phase = p, !.held = s].held = s
                        /\ [x EXCEPT !.phase = p, !.held = s].inst = x.inst
                        /\ [x EXCEPT !.phase = p, !.held = s].key = x.key
           /\ \A p, m : /\ [x EXCEPT !.phase = p, !.made = m].phase = p
                        /\ [x EXCEPT !.phase = p, !.made = m].made = m
                        /\ [x EXCEPT !.phase = p, !.made = m].rt = x.rt
                        /\ [x EXCEPT !.phase = p, !.made = m].held = x.held
                        /\ [x EXCEPT !.phase = p, !.made = m].inst = x.inst
           /\ \A p, s, o : /\ [x EXCEPT !.phase = p, !.held = s, !.outcome = o].phase = p
                           /\ [x EXCEPT !.phase = p, !.held = s, !.outcome = o].held = s
                           /\ [x EXCEPT !.phase = p, !.held = s, !.outcome = o].inst = x.inst
           /\ /\ [x EXCEPT !.owner = None].phase = x.phase /\ [x EXCEPT !.owner = None].inst = x.inst
              /\ [x EXCEPT !.owner = None].rt = x.rt /\ [x EXCEPT !.owner = None].made = x.made
              /\ [x EXCEPT !.owner = None].held = x.held /\ [x EXCEPT !.owner = None].key = x.key
BY DEF Attempt

LEMMA NoAttemptFields ==
    /\ NoAttempt.phase = "free" /\ NoAttempt.held = None
    /\ \A k, i, rt, c, s :
          LET n == [NoAttempt EXCEPT !.phase = "spawned", !.key = k, !.inst = i, !.rt = rt,
                                     !.owner = c, !.held = s]
          IN  n.phase = "spawned" /\ n.key = k /\ n.inst = i /\ n.rt = rt /\ n.owner = c /\ n.held = s
BY DEF NoAttempt

\* A step that leaves the tasks alone.
LEMMA TasksAlone == ASSUME tasks' = tasks, NEW t PROVE TaskMoves(t)
BY DEF TaskMoves, TaskKept

\* The four ways a task publishes.
LEMMA PublishesMoves ==
    ASSUME Typed, NEW t \in Attempts, Publishes(t)
    PROVE  /\ TaskPublishes(t)
           /\ \A u \in Attempts \ {t} : tasks'[u] = tasks[u]
<1> DEFINE i == tasks[t].inst
<1>1. ASSUME NEW service, NEW outcome, Discarding(t, service, outcome)
      PROVE  /\ tasks'[t].phase = "discarding" /\ tasks'[t].held = service
             /\ \A u \in Attempts \ {t} : tasks'[u] = tasks[u]
  <2> DEFINE w == [tasks[t] EXCEPT !.phase = "discarding", !.held = service, !.outcome = outcome]
  <2>1. w.phase = "discarding" /\ w.held = service
    BY AttemptFields DEF Typed, TypeOK
  <2>2. tasks' = [tasks EXCEPT ![t] = w]
    BY <1>1 DEF Discarding, Typed, TypeOK
  <2> HIDE DEF w
  <2> QED BY <2>1, <2>2 DEF Typed, TypeOK
<1>2. CASE PublishReady(t)
  <2>1. i \in Instances /\ tasks[t].key \in Keys /\ insts[i] \in Instance
    BY <1>2 DEF PublishReady, Typed, TypeOK, AttemptsNamed
  <2> DEFINE x == [insts[i] EXCEPT !.place = tasks[t].key]
             w == Served(x, tasks[t].made)
  <2>2. insts' = [insts EXCEPT ![i] = w] /\ FreeServices # {}
    BY <1>2, <2>1 DEF PublishReady, Typed, TypeOK
  <2>3. x \in Instance
    BY <2>1, InstanceFields
  <2>4. w.svc = FreshService
    <3> HIDE DEF x
    <3> QED BY <2>3, InstanceFields
  <2> HIDE DEF w
  <2>5. insts'[i].svc = FreshService
    BY <2>1, <2>2, <2>4 DEF Typed, TypeOK
  <2>6. Discarding(t, insts[i].svc, "published") /\ tasks[t].phase = "connecting"
    BY <1>2 DEF PublishReady
  <2> HIDE DEF i
  <2> QED BY <1>1, <1>2, <2>1, <2>2, <2>5, <2>6 DEF TaskPublishes, Publishes
<1>3. ASSUME NEW r \in Results, PublishFailed(t, r) \/ PublishSuperseded(t, r) \/ PublishUnclaimed(t, r)
      PROVE  /\ TaskPublishes(t)
             /\ \A u \in Attempts \ {t} : tasks'[u] = tasks[u]
  <2>1. \E service \in {tasks[t].held, None} : \E outcome : Discarding(t, service, outcome)
    BY <1>3 DEF PublishFailed, PublishSuperseded, PublishUnclaimed, WorkerHolds
  <2>2. tasks[t].phase = "connecting"
    BY <1>3 DEF PublishFailed, PublishSuperseded, PublishUnclaimed
  <2> QED BY <1>1, <1>3, <2>1, <2>2 DEF TaskPublishes, Publishes
<1> QED BY <1>2, <1>3 DEF Publishes

\* How the tasks change in a step of a task.
LEMMA OneTaskMoves ==
    ASSUME Typed, NEW t \in Attempts, TaskContinues(t) \/ TaskPanics(t), NEW u \in Attempts
    PROVE  TaskMoves(u)
<1>0. tasks[t] \in Attempt
  BY DEF Typed, TypeOK
<1>1. CASE Publishes(t)
  BY <1>1, PublishesMoves DEF TaskMoves, TaskKept
<1>2. ASSUME NEW w, tasks' = [tasks EXCEPT ![t] = w],
             \/ w.phase = "connecting" /\ w.made.cfg = w.rt.cfg /\ w.held = tasks[t].held
             \/ w.phase \in {"free", "panicked"} /\ w.held = None
      PROVE  TaskMoves(u)
  BY <1>2 DEF TaskMoves, TaskKept, TaskConnects, TaskStops, Typed, TypeOK
<1>3. CASE TransportBegins(t)
  <2> DEFINE m == [cfg |-> tasks[t].rt.cfg, sec |-> secret]
             w == [tasks[t] EXCEPT !.phase = "connecting", !.made = m]
  <2>1. /\ w.phase = "connecting" /\ w.made = m /\ w.rt = tasks[t].rt /\ w.held = tasks[t].held
        /\ m.cfg = tasks[t].rt.cfg
    BY <1>0, AttemptFields
  <2>2. tasks' = [tasks EXCEPT ![t] = w]
    BY <1>3 DEF TransportBegins, Typed, TypeOK
  <2> HIDE DEF w, m
  <2> QED BY <1>2, <2>1, <2>2
<1>4. CASE Discard(t) \/ CleanUpPanic(t)
  BY <1>2, <1>4, NoAttemptFields DEF Discard, CleanUpPanic
<1>5. CASE TaskPanics(t)
  <2> DEFINE w == [tasks[t] EXCEPT !.phase = "panicked", !.held = None]
  <2>1. w.phase = "panicked" /\ w.held = None
    BY <1>0, AttemptFields
  <2>2. tasks' = [tasks EXCEPT ![t] = w]
    BY <1>5 DEF TaskPanics, Typed, TypeOK
  <2> HIDE DEF w
  <2> QED BY <1>2, <2>1, <2>2
<1> QED BY <1>1, <1>3, <1>4, <1>5 DEF TaskContinues, Publishes

\* How the tasks change in any step.
LEMMA TasksStep == ASSUME Typed, [Next]_vars, NEW t \in Attempts PROVE TaskMoves(t)
<1>1. ASSUME NEW c \in Callers, PrepareOwns(c) PROVE TaskMoves(t)
  <2> DEFINE k == callers[c].key
             i == RoutedOrFresh(k)
             n == [NoAttempt EXCEPT !.phase = "spawned", !.key = k, !.inst = i, !.rt = Current,
                                    !.owner = c, !.held = insts[i].svc]
  <2>1. i \in Instances /\ insts'[i].status = "Initializing"
    BY <1>1, PrepareOwnsMoves
  <2>2. n.phase = "spawned" /\ n.held = insts[i].svc
    BY NoAttemptFields
  <2>3. tasks' = [tasks EXCEPT ![FreshAttempt] = n] /\ FreshAttempt \in Attempts
    BY <1>1, FreshIds DEF PrepareOwns
  <2> HIDE DEF n, i, k
  <2> QED BY <2>1, <2>2, <2>3 DEF TaskMoves, TaskStarts, TaskKept, Typed, TypeOK
<1>2. ASSUME NEW c \in Callers, DropCaller(c) PROVE TaskMoves(t)
  <2>1. tasks'[t] = tasks[t] \/ tasks'[t] = [tasks[t] EXCEPT !.owner = None]
    BY <1>2 DEF DropCaller
  <2>2. tasks[t] \in Attempt
    BY DEF Typed, TypeOK
  <2> QED BY <2>1, <2>2, AttemptFields DEF TaskMoves, TaskKept
<1>3. ASSUME NEW c \in Callers, CallerSteps(c) \/ CallerContinues(c), ~PrepareOwns(c), ~DropCaller(c)
      PROVE  tasks' = tasks
  BY <1>3 DEF CallerSteps, CallerContinues, Demand, EnableCaptures, EnableApplies, PrepareAnswers,
              PrepareJoins, PreparePanics, EnableLoads, EnableBails
<1>4. ASSUME NEW h \in Reconnects, ReconnectContinues(h) \/ \E i \in Instances : HealthBegins(h, i)
      PROVE  tasks' = tasks
  BY <1>4 DEF ReconnectContinues, HealthPublishes, HealthDiscards, HealthFails, HealthInvalidated,
              HealthBegins, startVars
<1>5. ASSUME Administer PROVE tasks' = tasks
  BY <1>5 DEF Administer, SetMode, StoreUpdate, RotateSecret, Delete, Synchronize, ApplyUpdate,
              AbandonUpdate, DisableRuntime, startVars
<1>6. ASSUME Operate \/ CallSucceeds \/ BackoffEnds PROVE tasks' = tasks
  BY <1>6 DEF Operate, Disconnect, Connect, Relaunch, Reap, EvictClosed, CallFails, CallSucceeds,
              BackoffEnds, startVars
<1>7. CASE UNCHANGED vars
  BY <1>7, TasksAlone DEF vars, startVars
<1> QED BY <1>1, <1>2, <1>3, <1>4, <1>5, <1>6, <1>7, TasksAlone, OneTaskMoves DEF Next

\* Every step keeps MadeAsAsked.
LEMMA MadeStep == Typed /\ MadeAsAsked /\ [Next]_vars => MadeAsAsked'
<1> SUFFICES ASSUME Typed, MadeAsAsked, [Next]_vars, NEW t \in Attempts, tasks'[t].phase = "connecting"
             PROVE  tasks'[t].made.cfg = tasks'[t].rt.cfg
  BY DEF MadeAsAsked
<1> QED BY TasksStep DEF MadeAsAsked, TaskMoves, TaskKept, TaskStarts, TaskConnects, TaskPublishes, TaskStops

LEMMA MadeInit == Init => MadeAsAsked
BY DEF Init, MadeAsAsked, NoAttempt

\* An instance becomes ready with the configuration the pool has at that
\* moment, never with the one that its attempt began with
\* (publish_startup_attempt, publish_health_reconnect, connect_internal).
THEOREM PublicationsAreFresh == Spec => FreshPublication
<1> DEFINE Fresh ==
        \A i \in Instances :
            insts[i].status # "Ready" /\ insts'[i].status = "Ready" => insts'[i].rt.cfg = config'
<1>1. ASSUME Typed, MadeAsAsked, [Next]_vars PROVE [Fresh]_vars
  BY <1>1, ServicesStep DEF ServicesMove, Fades, FadesFrom, Renewed, Restored
<1>2. Spec => [](Typed /\ MadeAsAsked)
  BY TypedInit, TypedStep, MadeInit, MadeStep, PTL DEF Spec
<1> QED BY <1>1, <1>2, PTL DEF Spec, FreshPublication

-----------------------------------------------------------------------------
(* Late results *)

\* The result of a health reconnect is taken.
Reports(h) ==
    \/ HealthPublishes(h)
    \/ \E r \in Results : HealthFails(h, r) \/ HealthInvalidated(h, r)

ReconnectKept(h) == recon'[h] = recon[h]
\* A reconnect begins with the service of the instance that it starts,
ReconnectStarts(h) ==
    /\ recon'[h].phase = "connecting"
    /\ \E i \in Instances : insts'[i].status = "Initializing" /\ recon'[h].held = insts[i].svc
\* reports, and is left with a service to discard: the one it cloned, or the
\* one of the instance that it has served or given back,
ReconnectReports(h) ==
    /\ recon[h].phase = "connecting" /\ recon'[h].phase = "discarding"
    /\ Reports(h)
    /\ \/ recon'[h].held \in {recon[h].held, None}
       \/ \E i \in Instances : /\ \/ insts'[i].svc = FreshService /\ FreeServices # {}
                                  \/ insts'[i].status # "Ready"
                               /\ recon'[h].held = insts[i].svc
\* or is over.
ReconnectStops(h) == recon'[h].phase = "free" /\ recon'[h].held = None

ReconnectMoves(h) ==
    ReconnectKept(h) \/ ReconnectStarts(h) \/ ReconnectReports(h) \/ ReconnectStops(h)

LEMMA NoReconnectFields ==
    /\ NoReconnect.phase = "free" /\ NoReconnect.held = None
    /\ \A i, s : LET n == [NoReconnect EXCEPT !.phase = "discarding", !.inst = i, !.held = s]
                 IN  n.phase = "discarding" /\ n.held = s
BY DEF NoReconnect

\* A step that changes one reconnect.
LEMMA OneReconnectMoves ==
    ASSUME Typed, NEW h \in Reconnects, NEW w, recon' = [recon EXCEPT ![h] = w]
    PROVE  recon'[h] = w /\ \A g \in Reconnects \ {h} : ReconnectMoves(g)
BY DEF ReconnectMoves, ReconnectKept, Typed, TypeOK

\* How the reconnects change in a step of a reconnect,
LEMMA HealthMoves ==
    ASSUME Typed, NEW h \in Reconnects,
           ReconnectContinues(h) \/ \E i \in Instances : HealthBegins(h, i),
           NEW g \in Reconnects
    PROVE  ReconnectMoves(g)
<1> DEFINE j == recon[h].inst
<1>1. ASSUME NEW i \in Instances, HealthBegins(h, i) PROVE ReconnectMoves(g)
  <2> DEFINE w == [phase |-> "connecting", inst |-> i, rt |-> Current, held |-> insts[i].svc]
  <2>1. recon' = [recon EXCEPT ![h] = w] /\ w.phase = "connecting" /\ w.held = insts[i].svc
    BY <1>1 DEF HealthBegins
  <2>2. insts'[i].status = "Initializing"
    <3>1. insts' = [insts EXCEPT ![i].status = "Initializing"]
      BY <1>1 DEF HealthBegins
    <3> QED BY <3>1, InstanceFields DEF Typed, TypeOK
  <2> HIDE DEF w
  <2> QED BY <2>1, <2>2, OneReconnectMoves DEF ReconnectMoves, ReconnectStarts
<1>2. CASE HealthDiscards(h)
  BY <1>2, NoReconnectFields, OneReconnectMoves DEF HealthDiscards, ReconnectMoves, ReconnectStops
<1>3. ASSUME NEW service, HealthDiscarding(h, service), recon[h].phase = "connecting", Reports(h),
             \/ service \in {recon[h].held, None}
             \/ \E i \in Instances : /\ \/ insts'[i].svc = FreshService /\ FreeServices # {}
                                        \/ insts'[i].status # "Ready"
                                     /\ service = insts[i].svc
      PROVE  ReconnectMoves(g)
  <2> DEFINE w == [NoReconnect EXCEPT !.phase = "discarding", !.inst = j, !.held = service]
  <2>1. recon' = [recon EXCEPT ![h] = w] /\ w.phase = "discarding" /\ w.held = service
    BY <1>3, NoReconnectFields DEF HealthDiscarding
  <2> HIDE DEF w
  <2> QED BY <1>3, <2>1, OneReconnectMoves DEF ReconnectMoves, ReconnectReports
<1>4. CASE HealthPublishes(h)
  <2>1. j \in Instances /\ insts[j] \in Instance
    BY <1>4 DEF HealthPublishes, Typed, TypeOK, ReconnectsNamed
  <2>2. PICK s : insts' = [insts EXCEPT ![j] = Served(@, [recon[h].rt EXCEPT !.sec = s])]
    BY <1>4 DEF HealthPublishes
  <2>3. insts'[j].svc = FreshService /\ FreeServices # {}
    BY <1>4, <2>1, <2>2, InstanceFields DEF HealthPublishes, Typed, TypeOK
  <2>4. HealthDiscarding(h, insts[j].svc) /\ recon[h].phase = "connecting"
    BY <1>4 DEF HealthPublishes
  <2> HIDE DEF j
  <2> QED BY <1>3, <1>4, <2>1, <2>3, <2>4 DEF Reports
<1>5. ASSUME NEW r \in Results, HealthFails(h, r) PROVE ReconnectMoves(g)
  <2>1. j \in Instances /\ insts[j] \in Instance
    BY <1>5 DEF HealthFails, Typed, TypeOK, ReconnectsNamed
  <2>2. insts'[j].status # "Ready"
    BY <1>5, <2>1, InstanceFields DEF HealthFails, ErrorOf, Typed, TypeOK
  <2>3. HealthDiscarding(h, insts[j].svc) /\ recon[h].phase = "connecting"
    BY <1>5 DEF HealthFails
  <2> HIDE DEF j
  <2> QED BY <1>3, <1>5, <2>1, <2>2, <2>3 DEF Reports
<1>6. ASSUME NEW r \in Results, HealthInvalidated(h, r) PROVE ReconnectMoves(g)
  BY <1>3, <1>6 DEF HealthInvalidated, Reports
<1> QED BY <1>1, <1>2, <1>4, <1>5, <1>6 DEF ReconnectContinues

\* and in any step.
LEMMA ReconnectsStep == ASSUME Typed, [Next]_vars, NEW h \in Reconnects PROVE ReconnectMoves(h)
<1>1. CASE recon' = recon
  BY <1>1 DEF ReconnectMoves, ReconnectKept
<1>2. ASSUME NEW c \in Callers, CallerSteps(c) \/ CallerContinues(c) PROVE recon' = recon
  BY <1>2 DEF CallerSteps, CallerContinues, Demand, EnableCaptures, DropCaller, PrepareAnswers,
         PrepareJoins, PrepareOwns, PreparePanics, EnableLoads, EnableApplies, EnableBails, healthVars
<1>3. ASSUME NEW t \in Attempts, TaskContinues(t) \/ TaskPanics(t) PROVE recon' = recon
  BY <1>3 DEF TaskContinues, TaskPanics, TransportBegins, PublishReady, Discard, CleanUpPanic,
              PublishFailed, PublishSuperseded, PublishUnclaimed, healthVars
<1>4. ASSUME Administer PROVE recon' = recon
  BY <1>4 DEF Administer, SetMode, StoreUpdate, RotateSecret, Delete, Synchronize, ApplyUpdate,
              AbandonUpdate, DisableRuntime, healthVars
<1>5. ASSUME Operate \/ CallSucceeds \/ BackoffEnds PROVE recon' = recon
  BY <1>5 DEF Operate, Disconnect, Connect, Relaunch, Reap, EvictClosed, CallFails, CallSucceeds,
              BackoffEnds, healthVars
<1>6. CASE UNCHANGED vars
  BY <1>1, <1>6 DEF vars, healthVars
<1> QED BY <1>1, <1>2, <1>3, <1>4, <1>5, <1>6, HealthMoves DEF Next

\* The result of an attempt or a reconnect replaces an instance that
\* initializes, or none.
LEMMA ResultsTouchStarting ==
    ASSUME Typed, NEW i \in Instances, insts[i].status = "Ready",
           (\E t \in Attempts : Publishes(t)) \/ (\E h \in Reconnects : Reports(h))
    PROVE  insts'[i] = insts[i]
<1>1. ASSUME NEW j \in Instances, NEW w, insts' = [insts EXCEPT ![j] = w], insts[j].status = "Initializing"
      PROVE  insts'[i] = insts[i]
  BY <1>1 DEF Typed, TypeOK
<1>2. ASSUME NEW j \in Instances, insts' = Settled(j) PROVE insts'[i] = insts[i]
  <2>1. CASE insts[j].status = "Initializing"
    BY <1>2, <2>1 DEF Settled, Typed, TypeOK
  <2>2. CASE insts[j].status # "Initializing"
    BY <1>2, <2>2 DEF Settled
  <2> QED BY <2>1, <2>2
<1>3. ASSUME NEW t \in Attempts, Publishes(t) PROVE insts'[i] = insts[i]
  <2> DEFINE j == tasks[t].inst
  <2>1. j \in Instances
    BY <1>3 DEF Publishes, PublishReady, PublishFailed, PublishSuperseded, PublishUnclaimed,
                Typed, AttemptsNamed
  <2>2. CASE PublishReady(t)
    <3>1. insts[j].status = "Initializing" /\ \E w : insts' = [insts EXCEPT ![j] = w]
      BY <2>2 DEF PublishReady, StillOwned
    <3> HIDE DEF j
    <3> QED BY <1>1, <2>1, <3>1
  <2>3. ASSUME NEW r \in Results, PublishFailed(t, r) PROVE insts'[i] = insts[i]
    <3>1. insts[j].status = "Initializing" /\ \E w : insts' = [insts EXCEPT ![j] = w]
      BY <2>3 DEF PublishFailed, StillOwned, Typed, TypeOK
    <3> HIDE DEF j
    <3> QED BY <1>1, <2>1, <3>1
  <2>4. ASSUME NEW r \in Results, PublishSuperseded(t, r) \/ PublishUnclaimed(t, r)
        PROVE  insts'[i] = insts[i]
    BY <1>2, <2>1, <2>4 DEF PublishSuperseded, PublishUnclaimed
  <2> QED BY <1>3, <2>2, <2>3, <2>4 DEF Publishes
<1>4. ASSUME NEW h \in Reconnects, Reports(h) PROVE insts'[i] = insts[i]
  <2> DEFINE j == recon[h].inst
  <2>1. j \in Instances
    BY <1>4 DEF Reports, HealthPublishes, HealthFails, HealthInvalidated, Typed, ReconnectsNamed
  <2>2. ASSUME HealthPublishes(h) \/ \E r \in Results : HealthFails(h, r)
        PROVE  insts'[i] = insts[i]
    <3>1. insts[j].status = "Initializing" /\ \E w : insts' = [insts EXCEPT ![j] = w]
      BY <2>2 DEF HealthPublishes, HealthFails, HealthStillOwned
    <3> HIDE DEF j
    <3> QED BY <1>1, <2>1, <3>1
  <2>3. ASSUME NEW r \in Results, HealthInvalidated(h, r) PROVE insts'[i] = insts[i]
    BY <1>2, <2>1, <2>3 DEF HealthInvalidated
  <2> QED BY <1>4, <2>2, <2>3 DEF Reports
<1> QED BY <1>3, <1>4

\* A startup or a reconnect whose result comes late leaves the instances alone
\* that others have made ready meanwhile (publish_startup_attempt,
\* publish_health_reconnect).
THEOREM LateResultsAreHarmless == Spec => LateResultHarmless
<1> DEFINE Harmless ==
        (\/ \E t \in Attempts : tasks[t].phase = "connecting" /\ tasks'[t].phase = "discarding"
         \/ \E h \in Reconnects : recon[h].phase = "connecting" /\ recon'[h].phase = "discarding")
        => \A i \in Instances : insts[i].status = "Ready" => insts'[i] = insts[i]
<1>1. ASSUME Typed, [Next]_vars PROVE [Harmless]_vars
  <2>1. ASSUME NEW t \in Attempts, tasks[t].phase = "connecting", tasks'[t].phase = "discarding"
        PROVE  Publishes(t)
    BY <1>1, <2>1, TasksStep
       DEF TaskMoves, TaskKept, TaskStarts, TaskConnects, TaskPublishes, TaskStops
  <2>2. ASSUME NEW h \in Reconnects, recon[h].phase = "connecting", recon'[h].phase = "discarding"
        PROVE  Reports(h)
    BY <1>1, <2>2, ReconnectsStep
       DEF ReconnectMoves, ReconnectKept, ReconnectStarts, ReconnectReports, ReconnectStops
  <2> QED BY <1>1, <2>1, <2>2, ResultsTouchStarting
<1> QED BY <1>1, TypedInit, TypedStep, PTL DEF Spec, LateResultHarmless

-----------------------------------------------------------------------------
(* Instances that are not there *)

\* An instance that left the pool, or never was in it, is as good as new.
AbsentIsAbsent == \A i \in Instances : ~Exists(i) => insts[i] = Absent

\* A step that replaces one instance by one that is there, or takes it away.
LEMMA OneInstanceAbsent ==
    ASSUME Typed, AbsentIsAbsent, NEW i, NEW w, insts' = [insts EXCEPT ![i] = w],
           w.place # None \/ w = Absent
    PROVE  AbsentIsAbsent'
BY DEF AbsentIsAbsent, Exists, Typed, TypeOK

\* Settling, and other changes of a status, where the instance is there.
LEMMA StatusAbsent ==
    ASSUME Typed, AbsentIsAbsent, NEW i \in Instances, NEW s,
           insts' = insts \/ insts' = Settled(i) \/ (Exists(i) /\ insts' = [insts EXCEPT ![i].status = s])
    PROVE  AbsentIsAbsent'
<1>1. CASE insts' = insts
  BY <1>1 DEF AbsentIsAbsent, Exists
<1>2. ASSUME NEW u, Exists(i), insts' = [insts EXCEPT ![i].status = u] PROVE AbsentIsAbsent'
  <2> DEFINE w == [insts[i] EXCEPT !.status = u]
  <2>1. insts' = [insts EXCEPT ![i] = w]
    BY <1>2 DEF Typed, TypeOK
  <2>2. w.place = insts[i].place
    BY InstanceFields DEF Typed, TypeOK
  <2> HIDE DEF w
  <2> QED BY <1>2, <2>1, <2>2, OneInstanceAbsent DEF Exists
<1> QED BY <1>1, <1>2 DEF Settled

\* A disconnect takes a bound instance away as a whole.
LEMMA DisconnectedAbsent ==
    ASSUME Typed, AbsentIsAbsent, NEW i \in Instances, Exists(i), NEW j \in Instances
    PROVE  Disconnected(i)[j].place = None => Disconnected(i)[j] = Absent
<1>1. [insts[i] EXCEPT !.status = "Shutdown", !.svc = None].place = insts[i].place
  BY InstanceFields DEF Typed, TypeOK
<1> QED BY <1>1 DEF Disconnected, AbsentIsAbsent, Exists, Typed, TypeOK

LEMMA InterruptedAbsent ==
    ASSUME Typed, AbsentIsAbsent, NEW i \in Instances, Exists(i), Disconnects(i) \/ Interrupted(i)
    PROVE  AbsentIsAbsent'
<1>1. CASE Disconnects(i)
  BY <1>1, DisconnectedAbsent DEF Disconnects, AbsentIsAbsent, Exists
<1>2. CASE Interrupted(i)
  <2>1. PICK status \in {insts[i].status, "Shutdown"} :
            insts' = [insts EXCEPT ![i] = [@ EXCEPT !.status = status, !.svc = None]]
    BY <1>2 DEF Interrupted
  <2> DEFINE w == [insts[i] EXCEPT !.status = status, !.svc = None]
  <2>2. w.place = insts[i].place
    BY InstanceFields DEF Typed, TypeOK
  <2>3. insts' = [insts EXCEPT ![i] = w]
    BY <2>1 DEF Typed, TypeOK
  <2> HIDE DEF w
  <2> QED BY <2>2, <2>3, OneInstanceAbsent DEF Exists
<1> QED BY <1>1, <1>2

\* The operator connects only what is there.
LEMMA ConnectFromAbsent ==
    ASSUME Typed, NEW ii \in [Instances -> Instance], NEW i \in Instances, ConnectFrom(ii, i),
           \A j \in Instances : ii[j].place = None => ii[j] = Absent
    PROVE  AbsentIsAbsent'
<1>1. CASE insts' = ii
  BY <1>1 DEF AbsentIsAbsent, Exists
<1>2. ASSUME NEW w, insts' = [ii EXCEPT ![i] = w], w.place = ii[i].place, ~ConnectRefused(ii, i)
      PROVE  AbsentIsAbsent'
  BY <1>2 DEF ConnectRefused, AbsentIsAbsent, Exists
<1>3. /\ \A s : [ii[i] EXCEPT !.status = s].place = ii[i].place
      /\ Served(ii[i], Current).place = ii[i].place
  BY InstanceFields
<1>4. CASE ~ConnectRefused(ii, i) /\ insts' = [ii EXCEPT ![i] = Served(@, Current)]
  <2>1. insts' = [ii EXCEPT ![i] = Served(ii[i], Current)]
    BY <1>4
  <2> QED BY <1>2, <1>3, <1>4, <2>1
<1>5. ASSUME NEW s, ~ConnectRefused(ii, i), insts' = [ii EXCEPT ![i].status = s]
      PROVE  AbsentIsAbsent'
  <2>1. insts' = [ii EXCEPT ![i] = [ii[i] EXCEPT !.status = s]]
    BY <1>5
  <2> QED BY <1>2, <1>3, <1>5, <2>1
<1> QED BY <1>1, <1>4, <1>5 DEF ConnectFrom

\* Adding the placeholder.
LEMMA PlaceholderAbsent ==
    ASSUME Typed, AbsentIsAbsent, insts' = WithPlaceholder PROVE AbsentIsAbsent'
<1>1. Placeholder(Default).place # None
  BY AbsentFields, NoneIsNoValue DEF Keys
<1> QED BY <1>1, OneInstanceAbsent DEF WithPlaceholder, AbsentIsAbsent, Exists

\* Every step keeps AbsentIsAbsent.
LEMMA AbsentStep == Typed /\ AbsentIsAbsent /\ [Next]_vars => AbsentIsAbsent'
<1> SUFFICES ASSUME Typed, AbsentIsAbsent, [Next]_vars PROVE AbsentIsAbsent'
  OBVIOUS
<1>0. ASSUME insts' = insts PROVE AbsentIsAbsent'
  BY <1>0 DEF AbsentIsAbsent, Exists
<1>1. CASE UNCHANGED vars
  BY <1>0, <1>1 DEF vars
<1>2. ASSUME NEW c \in Callers, CallerSteps(c) \/ CallerContinues(c) PROVE AbsentIsAbsent'
  <2>1. CASE PrepareOwns(c)
    BY <2>1, PrepareOwnsMoves DEF AbsentIsAbsent, Exists
  <2>2. CASE EnableApplies(c)
    BY <2>2, PlaceholderAbsent DEF EnableApplies
  <2>3. CASE ~PrepareOwns(c) /\ ~EnableApplies(c)
    BY <1>0, <1>2, <2>3 DEF CallerSteps, CallerContinues, Demand, EnableCaptures, DropCaller,
         PrepareAnswers, PrepareJoins, PreparePanics, EnableLoads, EnableBails
  <2> QED BY <2>1, <2>2, <2>3
<1>3. ASSUME NEW t \in Attempts, TaskContinues(t) \/ TaskPanics(t) PROVE AbsentIsAbsent'
  <2> DEFINE i == tasks[t].inst
  <2>1. CASE TransportBegins(t) \/ Discard(t) \/ TaskPanics(t)
    BY <1>0, <2>1 DEF TransportBegins, Discard, TaskPanics
  <2>2. CASE PublishReady(t)
    <3>1. i \in Instances /\ tasks[t].key \in Keys /\ insts[i] \in Instance
      BY <2>2 DEF PublishReady, Typed, TypeOK, AttemptsNamed
    <3> DEFINE x == [insts[i] EXCEPT !.place = tasks[t].key]
               w == Served(x, tasks[t].made)
    <3>2. insts' = [insts EXCEPT ![i] = w]
      BY <2>2, <3>1 DEF PublishReady, Typed, TypeOK
    <3>3. x \in Instance /\ x.place # None
      BY <3>1, InstanceFields, NoneIsNoValue
    <3>4. w.place # None
      <4> HIDE DEF x
      <4> QED BY <3>3, InstanceFields
    <3> HIDE DEF w
    <3> QED BY <3>2, <3>4, OneInstanceAbsent
  <2>3. ASSUME NEW r \in Results, PublishFailed(t, r) PROVE AbsentIsAbsent'
    <3>1. i \in Instances
      BY <2>3 DEF PublishFailed, Typed, AttemptsNamed
    <3> QED BY <2>3, <3>1, StatusAbsent DEF PublishFailed, StillOwned
  <2>4. ASSUME NEW r \in Results, PublishSuperseded(t, r) \/ PublishUnclaimed(t, r) PROVE AbsentIsAbsent'
    <3>1. i \in Instances
      BY <2>4 DEF PublishSuperseded, PublishUnclaimed, Typed, AttemptsNamed
    <3> QED BY <2>4, <3>1, StatusAbsent DEF PublishSuperseded, PublishUnclaimed
  <2>5. CASE CleanUpPanic(t)
    <3>1. i \in Instances
      BY <2>5 DEF CleanUpPanic, Typed, AttemptsNamed
    <3> QED BY <2>5, <3>1, StatusAbsent DEF CleanUpPanic
  <2> QED BY <1>3, <2>1, <2>2, <2>3, <2>4, <2>5 DEF TaskContinues
<1>4. ASSUME NEW h \in Reconnects, ReconnectContinues(h) \/ \E i \in Instances : HealthBegins(h, i)
      PROVE  AbsentIsAbsent'
  <2> DEFINE i == recon[h].inst
  <2>1. ASSUME NEW j \in Instances, HealthBegins(h, j) PROVE AbsentIsAbsent'
    <3>1. Exists(j)
      BY <2>1, NoneIsNoValue DEF HealthBegins, In, Exists, Keys
    <3> QED BY <2>1, <3>1, StatusAbsent DEF HealthBegins
  <2>2. CASE HealthDiscards(h)
    BY <1>0, <2>2 DEF HealthDiscards
  <2>3. ASSUME recon[h].phase = "connecting" PROVE i \in Instances /\ insts[i] \in Instance
    BY <2>3 DEF Typed, TypeOK, ReconnectsNamed
  <2>4. ASSUME NEW w, i \in Instances, Exists(i), w.place = insts[i].place, insts' = [insts EXCEPT ![i] = w]
        PROVE  AbsentIsAbsent'
    BY <2>4, OneInstanceAbsent DEF Exists
  <2>5. CASE HealthPublishes(h)
    <3>1. i \in Instances /\ insts[i] \in Instance /\ Exists(i)
      BY <2>3, <2>5 DEF HealthPublishes, HealthStillOwned
    <3>2. PICK s : insts' = [insts EXCEPT ![i] = Served(@, [recon[h].rt EXCEPT !.sec = s])]
      BY <2>5 DEF HealthPublishes
    <3>3. Served(insts[i], [recon[h].rt EXCEPT !.sec = s]).place = insts[i].place
      BY <3>1, InstanceFields
    <3> QED BY <2>4, <3>1, <3>2, <3>3 DEF Typed, TypeOK
  <2>6. ASSUME NEW r \in Results, HealthFails(h, r) PROVE AbsentIsAbsent'
    <3>1. i \in Instances /\ insts[i] \in Instance /\ Exists(i)
      BY <2>3, <2>6 DEF HealthFails, HealthStillOwned
    <3>2. [insts[i] EXCEPT !.status = ErrorOf(r), !.svc = recon[h].held].place = insts[i].place
      BY <3>1, InstanceFields
    <3> QED BY <2>4, <2>6, <3>1, <3>2 DEF HealthFails, Typed, TypeOK
  <2>7. ASSUME NEW r \in Results, HealthInvalidated(h, r) PROVE AbsentIsAbsent'
    BY <2>3, <2>7, StatusAbsent DEF HealthInvalidated
  <2> QED BY <1>4, <2>1, <2>2, <2>5, <2>6, <2>7 DEF ReconnectContinues
<1>5. CASE Administer
  <2>1. ASSUME \A i \in Instances : insts'[i] \in {insts[i], Absent, Placeholder(Default)}
        PROVE  AbsentIsAbsent'
    BY <2>1, AbsentFields, NoneIsNoValue DEF AbsentIsAbsent, Exists, Keys
  <2>2. CASE Synchronize
    <3>1. CASE SyncBlocked \/ SyncRemoves
      BY <2>1, <3>1 DEF SyncBlocked, SyncRemoves, NoInstances, SharedDropped
    <3>2. CASE SyncKeeps
      <4>1. ASSUME NEW i \in In(Default), insts' = Rested(i) PROVE AbsentIsAbsent'
        <5>1. i \in Instances /\ Exists(i)
          BY NoneIsNoValue DEF In, Exists, Keys
        <5> QED BY <4>1, <5>1, StatusAbsent DEF Rested
      <4> QED BY <1>0, <3>2, <4>1, PlaceholderAbsent DEF SyncKeeps
    <3> QED BY <2>2, <3>1, <3>2 DEF Synchronize
  <2>3. CASE ApplyUpdate
    BY <2>1, <2>3 DEF ApplyUpdate, NoInstances
  <2>4. CASE DisableRuntime
    BY <2>1, <2>4 DEF DisableRuntime, NoInstances
  <2>5. ASSUME ~Synchronize, ~ApplyUpdate, ~DisableRuntime PROVE insts' = insts
    BY <1>5, <2>5 DEF Administer, SetMode, StoreUpdate, RotateSecret, Delete, AbandonUpdate
  <2> QED BY <1>0, <2>2, <2>3, <2>4, <2>5
<1>6. CASE Operate \/ CallSucceeds \/ BackoffEnds
  <2>1. ASSUME NEW i \in Instances, Disconnect(i) \/ Reap(i) PROVE AbsentIsAbsent'
    <3>1. Exists(i)
      BY <2>1, NoneIsNoValue DEF Disconnect, Reap, In, Exists, Keys
    <3> QED BY <2>1, <3>1, InterruptedAbsent DEF Disconnect, Reap
  <2>2. ASSUME NEW i \in Instances, Connect(i) PROVE AbsentIsAbsent'
    <3>1. insts \in [Instances -> Instance] /\ \A j \in Instances : insts[j].place = None => insts[j] = Absent
      BY DEF Typed, TypeOK, AbsentIsAbsent, Exists
    <3> QED BY <2>2, <3>1, ConnectFromAbsent DEF Connect
  <2>3. ASSUME NEW i \in Instances, Relaunch(i) PROVE AbsentIsAbsent'
    BY <2>3, DisconnectedTyped, DisconnectedAbsent, ConnectFromAbsent DEF Relaunch
  <2>4. ASSUME NEW i \in Instances, EvictClosed(i) PROVE AbsentIsAbsent'
    <3> DEFINE w == [insts[i] EXCEPT !.status = "Shutdown", !.svc = None]
    <3>1. insts' = [insts EXCEPT ![i] = w]
      BY <2>4 DEF EvictClosed, Typed, TypeOK
    <3>2. w.place = insts[i].place
      BY InstanceFields DEF Typed, TypeOK
    <3>3. insts[i].place # None
      BY <2>4, NoneIsNoValue DEF EvictClosed, Selectable, ReadyIn, In, Keys
    <3> HIDE DEF w
    <3> QED BY <3>1, <3>2, <3>3, OneInstanceAbsent
  <2>5. ASSUME NEW i \in Instances, NEW gone \in BOOLEAN, CallFails(i, gone) PROVE AbsentIsAbsent'
    BY <1>0, <2>5, InterruptedAbsent DEF CallFails
  <2>6. CASE CallSucceeds \/ BackoffEnds
    BY <1>0, <2>6 DEF CallSucceeds, BackoffEnds
  <2> QED BY <1>6, <2>1, <2>2, <2>3, <2>4, <2>5, <2>6 DEF Operate
<1> QED BY <1>1, <1>2, <1>3, <1>4, <1>5, <1>6 DEF Next

LEMMA AbsentInit == Init => AbsentIsAbsent
BY AbsentFields, NoneIsNoValue DEF Init, AbsentIsAbsent, Exists, NoInstances, Keys

-----------------------------------------------------------------------------
(* The service of a ready instance *)

\* What is cancelled matters only as long as some instance holds it.
CancelledIsHeld == \A s \in cancelled : \E i \in Instances : insts[i].svc = s

\* The service of a ready instance is cancelled by nobody: no other instance
\* has it, and no worker is left with it.
Lone ==
    \A i \in Instances : insts[i].status = "Ready" /\ insts[i].svc # None =>
        /\ insts[i].svc \notin cancelled
        /\ \A j \in Instances : insts[j].svc = insts[i].svc => j = i
        /\ \A t \in Attempts : tasks[t].held # insts[i].svc
        /\ \A h \in Reconnects : recon[h].held # insts[i].svc

\* A worker's service, as it is discarded.
Handed(s) == (\E t \in Attempts : tasks[t].held = s) \/ (\E h \in Reconnects : recon[h].held = s)
HandedNext(s) == (\E t \in Attempts : tasks'[t].held = s) \/ (\E h \in Reconnects : recon'[h].held = s)

\* A step cancels what workers hold, or nothing; where it cancels nothing and
\* forgets nothing, every instance keeps its service.
Cancels ==
    \/ cancelled' = cancelled /\ \A i \in Instances : insts'[i].svc = insts[i].svc
    \/ \E S : Cancel(S) /\ \A s \in S : Handed(s)

\* A step that replaces a status, at most.
LEMMA StatusCancels ==
    ASSUME Typed, NEW i \in Instances, NEW s, cancelled' = cancelled,
           insts' = insts \/ insts' = Settled(i) \/ insts' = [insts EXCEPT ![i].status = s]
    PROVE  Cancels
<1>1. ASSUME NEW u, insts' = [insts EXCEPT ![i].status = u] PROVE Cancels
  <2>1. [insts[i] EXCEPT !.status = u].svc = insts[i].svc
    BY InstanceFields DEF Typed, TypeOK
  <2> QED BY <1>1, <2>1 DEF Cancels, Typed, TypeOK
<1>2. CASE insts' = insts
  BY <1>2 DEF Cancels
<1> QED BY <1>1, <1>2 DEF Settled

\* The placeholder takes an instance that had no service.
LEMMA PlaceholderCancels ==
    ASSUME Typed, AbsentIsAbsent, cancelled' = cancelled, insts' = WithPlaceholder,
           In(Default) = {} => FreeInstances # {}
    PROVE  Cancels
<1>1. CASE insts' = insts
  BY <1>1 DEF Cancels
<1>2. CASE FreeInstances # {} /\ insts' = [insts EXCEPT ![FreshInstance] = Placeholder(Default)]
  <2>1. FreshInstance \in Instances /\ ~Exists(FreshInstance)
    <3>1. FreshInstance \in FreeInstances
      BY <1>2 DEF FreshInstance
    <3> QED BY <3>1 DEF FreeInstances, NotInFlight
  <2>2. insts[FreshInstance].svc = None
    BY <2>1, AbsentFields DEF AbsentIsAbsent
  <2> QED BY <1>2, <2>1, <2>2, AbsentFields DEF Cancels, Typed, TypeOK
<1> QED BY <1>1, <1>2 DEF WithPlaceholder

\* What the steps cancel.
LEMMA CancelsStep == ASSUME Typed, AbsentIsAbsent, [Next]_vars PROVE Cancels
<1>0. ASSUME insts' = insts /\ cancelled' = cancelled PROVE Cancels
  BY <1>0 DEF Cancels
<1>x. ASSUME Cancel({}) PROVE Cancels
  BY <1>x DEF Cancels
<1>1. CASE UNCHANGED vars
  BY <1>0, <1>1 DEF vars
<1>2. ASSUME NEW c \in Callers, CallerSteps(c) \/ CallerContinues(c) PROVE Cancels
  <2>1. CASE PrepareOwns(c)
    <3>1. cancelled' = cancelled
      BY <2>1 DEF PrepareOwns
    <3> QED BY <2>1, <3>1, PrepareOwnsMoves, AbsentFields DEF Cancels, AbsentIsAbsent
  <2>2. CASE EnableApplies(c)
    BY <2>2, PlaceholderCancels DEF EnableApplies
  <2>3. CASE ~PrepareOwns(c) /\ ~EnableApplies(c)
    BY <1>0, <1>2, <2>3 DEF CallerSteps, CallerContinues, Demand, EnableCaptures, DropCaller,
         PrepareAnswers, PrepareJoins, PreparePanics, EnableLoads, EnableBails
  <2> QED BY <2>1, <2>2, <2>3
<1>3. ASSUME NEW t \in Attempts, TaskContinues(t) \/ TaskPanics(t) PROVE Cancels
  <2>1. CASE TransportBegins(t) \/ TaskPanics(t)
    BY <1>0, <2>1 DEF TransportBegins, TaskPanics
  <2>2. CASE PublishReady(t)
    BY <1>x, <2>2 DEF PublishReady
  <2>3. CASE Discard(t)
    BY <2>3 DEF Discard, Cancels, Handed
  <2>4. ASSUME tasks[t].phase # "free" PROVE tasks[t].inst \in Instances
    BY <2>4 DEF Typed, AttemptsNamed
  <2>5. ASSUME NEW r \in Results, PublishFailed(t, r) \/ PublishSuperseded(t, r) \/ PublishUnclaimed(t, r)
        PROVE  Cancels
    BY <2>4, <2>5, StatusCancels DEF PublishFailed, PublishSuperseded, PublishUnclaimed
  <2>6. CASE CleanUpPanic(t)
    BY <2>4, <2>6, StatusCancels DEF CleanUpPanic
  <2> QED BY <1>3, <2>1, <2>2, <2>3, <2>5, <2>6 DEF TaskContinues
<1>4. ASSUME NEW h \in Reconnects, ReconnectContinues(h) \/ \E i \in Instances : HealthBegins(h, i)
      PROVE  Cancels
  <2>1. ASSUME NEW i \in Instances, HealthBegins(h, i) PROVE Cancels
    BY <2>1, StatusCancels DEF HealthBegins
  <2>2. CASE HealthPublishes(h) \/ \E r \in Results : HealthFails(h, r)
    BY <1>x, <2>2 DEF HealthPublishes, HealthFails
  <2>3. CASE HealthDiscards(h)
    BY <2>3 DEF HealthDiscards, Cancels, Handed
  <2>4. ASSUME NEW r \in Results, HealthInvalidated(h, r) PROVE Cancels
    <3>1. recon[h].inst \in Instances
      BY <2>4 DEF HealthInvalidated, Typed, ReconnectsNamed
    <3> QED BY <2>4, <3>1, StatusCancels DEF HealthInvalidated
  <2> QED BY <1>4, <2>1, <2>2, <2>3, <2>4 DEF ReconnectContinues
<1>5. CASE Administer
  BY <1>0, <1>x, <1>5 DEF Administer, SetMode, StoreUpdate, RotateSecret, Delete, AbandonUpdate,
       Synchronize, ApplyUpdate, DisableRuntime
<1>6. CASE Operate \/ CallSucceeds \/ BackoffEnds
  BY <1>0, <1>x, <1>6 DEF Operate, Disconnect, Connect, Relaunch, Reap, EvictClosed, CallFails,
       CallSucceeds, BackoffEnds, Disconnects, Interrupted, ConnectFrom
<1> QED BY <1>1, <1>2, <1>3, <1>4, <1>5, <1>6 DEF Next

\* Every step keeps CancelledIsHeld.
LEMMA CancelledStep == Typed /\ AbsentIsAbsent /\ CancelledIsHeld /\ [Next]_vars => CancelledIsHeld'
BY CancelsStep DEF CancelledIsHeld, Cancels, Cancel

\* A service that a worker holds after a step was in its hands before, or was
\* cloned from, or replaced in, an instance that is not ready with it any more.
LEMMA WorkersTake ==
    ASSUME Typed, [Next]_vars, NEW s, s # None, HandedNext(s)
    PROVE  \/ Handed(s)
           \/ \E i \in Instances : /\ insts[i].svc = s
                                   /\ \/ insts'[i].status # "Ready"
                                      \/ insts'[i].svc = FreshService /\ FreeServices # {}
<1>1. ASSUME NEW t \in Attempts, tasks'[t].held = s
      PROVE  \/ tasks[t].held = s
             \/ \E i \in Instances : /\ insts[i].svc = s
                                     /\ \/ insts'[i].status # "Ready"
                                        \/ insts'[i].svc = FreshService /\ FreeServices # {}
  BY <1>1, TasksStep DEF TaskMoves, TaskKept, TaskStarts, TaskConnects, TaskPublishes, TaskStops
<1>2. ASSUME NEW h \in Reconnects, recon'[h].held = s
      PROVE  \/ recon[h].held = s
             \/ \E i \in Instances : /\ insts[i].svc = s
                                     /\ \/ insts'[i].status # "Ready"
                                        \/ insts'[i].svc = FreshService /\ FreeServices # {}
  BY <1>2, ReconnectsStep DEF ReconnectMoves, ReconnectKept, ReconnectStarts, ReconnectReports, ReconnectStops
<1> QED BY <1>1, <1>2 DEF Handed, HandedNext

\* A new service is known to nobody.
LEMMA FreshServiceUnknown ==
    ASSUME FreeServices # {}, CancelledIsHeld
    PROVE  /\ FreshService \in Services /\ ~Handed(FreshService) /\ FreshService \notin cancelled
           /\ \A i \in Instances : insts[i].svc # FreshService
<1>1. FreshService \in FreeServices
  BY DEF FreshService
<1> QED BY <1>1 DEF FreeServices, Handed, CancelledIsHeld

\* Every step keeps Lone.
LEMMA LoneStep ==
    ASSUME Typed, MadeAsAsked, AbsentIsAbsent, CancelledIsHeld, Lone, [Next]_vars PROVE Lone'
<1> SUFFICES ASSUME NEW i \in Instances, insts'[i].status = "Ready", insts'[i].svc # None
             PROVE  /\ insts'[i].svc \notin cancelled'
                    /\ \A j \in Instances : insts'[j].svc = insts'[i].svc => j = i
                    /\ ~HandedNext(insts'[i].svc)
  BY DEF Lone, HandedNext
<1> DEFINE s == insts'[i].svc
<1>1. ServicesMove /\ Cancels
  BY ServicesStep, CancelsStep
<1>2. s \in cancelled' => s \in cancelled \/ Handed(s)
  BY <1>1 DEF Cancels, Cancel
<1>3. CASE Renewed(i)
  <2>1. /\ s = FreshService /\ FreeServices # {}
        /\ ~Handed(s) /\ s \notin cancelled /\ \A j \in Instances : insts[j].svc # s
    BY <1>3, FreshServiceUnknown DEF Renewed
  <2>2. \A j \in Instances \ {i} : Fades(j)
    BY <1>1, <1>3, <2>1 DEF ServicesMove, Renewed, Restored, Fades, FadesFrom, Handed
  <2>3. \A j \in Instances : insts'[j].svc = s => j = i
    BY <2>1, <2>2 DEF Fades, FadesFrom
  <2>4. ~HandedNext(s)
    BY <2>1, WorkersTake
  <2> QED BY <1>2, <2>1, <2>3, <2>4
<1>4. CASE ~Renewed(i)
  <2>1. Fades(i)
    BY <1>1, <1>4 DEF ServicesMove, Restored, Fades, FadesFrom
  <2>2. insts[i].status = "Ready" /\ insts[i].svc = s
    BY <2>1 DEF Fades, FadesFrom
  <2>3. /\ s \notin cancelled /\ ~Handed(s)
        /\ \A j \in Instances : insts[j].svc = s => j = i
    BY <2>2 DEF Lone, Handed
  <2>4. FreeServices # {} => FreshService # s
    BY <2>2, FreshServiceUnknown
  <2>5. \A j \in Instances : insts'[j].svc = s => j = i
    BY <1>1, <2>3, <2>4 DEF ServicesMove, Fades, FadesFrom, Renewed, Restored, Handed
  <2>6. ~HandedNext(s)
    BY <2>3, <2>4, WorkersTake
  <2> QED BY <1>2, <2>3, <2>5, <2>6
<1> QED BY <1>3, <1>4

LEMMA LoneInit == Init => CancelledIsHeld /\ Lone
BY AbsentFields DEF Init, CancelledIsHeld, Lone, NoInstances

\* A ready instance has its service to itself, and no attempt that lost, was
\* superseded or came late cancels it, dropped requests and panics included
\* (publish_startup_attempt, discard_startup_result, publish_health_reconnect).
THEOREM ServedServicesLive == Spec => []ServedServiceLive
<1>1. Lone => ServedServiceLive
  BY DEF Lone, ServedServiceLive
<1>2. /\ Init => Typed /\ MadeAsAsked /\ AbsentIsAbsent /\ CancelledIsHeld /\ Lone
      /\ /\ Typed /\ MadeAsAsked /\ AbsentIsAbsent /\ CancelledIsHeld /\ Lone
         /\ [Next]_vars
         => (Typed /\ MadeAsAsked /\ AbsentIsAbsent /\ CancelledIsHeld /\ Lone)'
  BY TypedInit, TypedStep, MadeInit, MadeStep, AbsentInit, AbsentStep, LoneInit, CancelledStep, LoneStep
<1> QED BY <1>1, <1>2, PTL DEF Spec

-----------------------------------------------------------------------------
(* Who moves a starting instance on *)

\* The attempt registered for the key that is routed to the instance, or the
\* health reconnect that has the instance's epoch.
ByTask(i) ==
    \E k \in Keys : registry[k] # None /\ routes[k] = i /\ tasks[registry[k]].inst = i
ByHealth(i) ==
    epochs[i] # None /\ recon[epochs[i]].phase = "connecting" /\ recon[epochs[i]].inst = i
Owned == \A i \in Instances : insts[i].status = "Initializing" => ByTask(i) \/ ByHealth(i)

\* An instance that was starting keeps whoever it has,
Keeps(i) ==
    /\ insts[i].status = "Initializing"
    /\ \A k \in Keys : registry[k] # None /\ routes[k] = i /\ tasks[registry[k]].inst = i =>
           registry'[k] = registry[k] /\ routes'[k] = i /\ tasks'[registry[k]].inst = i
    /\ ByHealth(i) => epochs'[i] = epochs[i] /\ recon'[epochs[i]] = recon[epochs[i]]
\* and one that starts gets someone.
StartsOwned == \A i \in Instances : insts'[i].status = "Initializing" => Keeps(i) \/ ByTask(i)' \/ ByHealth(i)'

LEMMA OwnedAfter == ASSUME Owned, StartsOwned PROVE Owned'
<1> SUFFICES ASSUME NEW i \in Instances, insts'[i].status = "Initializing", Keeps(i)
             PROVE  ByTask(i)' \/ ByHealth(i)'
  BY DEF Owned, StartsOwned
<1>1. CASE ByTask(i)
  BY <1>1 DEF ByTask, Keeps
<1>2. CASE ByHealth(i)
  BY <1>2 DEF ByHealth, Keeps
<1> QED BY <1>1, <1>2 DEF Owned, Keeps

\* A step of neither the tasks nor the reconnects that starts no instance.
LEMMA NothingStarts ==
    ASSUME UNCHANGED <<registry, tasks, recon>>,
           \A i \in Instances : insts'[i].status = "Initializing" =>
               /\ insts[i].status = "Initializing" /\ epochs'[i] = epochs[i]
               /\ \A k \in Keys : routes[k] = i => routes'[k] = i
    PROVE  StartsOwned
BY DEF StartsOwned, Keeps

\* An instance whose status is replaced, or that is not in the pool, starts no
\* more, and the others are as they were.
LEMMA StatusEnds ==
    ASSUME Typed, AbsentIsAbsent, NEW i \in Instances, NEW s, s # "Initializing",
           \/ insts' = [insts EXCEPT ![i].status = s]
           \/ insts' = insts /\ (Exists(i) => insts[i].status # "Initializing")
    PROVE  /\ insts'[i].status # "Initializing"
           /\ \A j \in Instances \ {i} : insts'[j] = insts[j]
<1>1. CASE insts' = [insts EXCEPT ![i].status = s]
  <2> DEFINE w == [insts[i] EXCEPT !.status = s]
  <2>1. w.status = s
    BY InstanceFields DEF Typed, TypeOK
  <2>2. insts' = [insts EXCEPT ![i] = w]
    BY <1>1 DEF Typed, TypeOK
  <2> HIDE DEF w
  <2> QED BY <2>1, <2>2, OneInstanceMoves
<1>2. CASE insts' = insts /\ (Exists(i) => insts[i].status # "Initializing")
  BY <1>2, AbsentFields DEF AbsentIsAbsent
<1> QED BY <1>1, <1>2

LEMMA SettledEnds ==
    ASSUME Typed, AbsentIsAbsent, NEW i \in Instances, insts' = Settled(i)
    PROVE  /\ insts'[i].status # "Initializing"
           /\ \A j \in Instances \ {i} : insts'[j] = insts[j]
BY StatusEnds DEF Settled

\* A demand that owns an attempt, and one that panics.
LEMMA PreparesOwned ==
    ASSUME Typed, AbsentIsAbsent, Told, NEW c \in Callers, PrepareOwns(c) \/ PreparePanics(c)
    PROVE  StartsOwned
<1>1. PICK k \in Keys : k = callers[c].key
  BY DEF PrepareOwns, PreparePanics, MustStart, Typed, CallersNamed, CallerNamed
<1>2. CASE PreparePanics(c)
  <2>1. /\ routes[k] \in Instances /\ ~Exists(routes[k])
    BY <1>1, <1>2, NoneIsNoValue DEF PreparePanics, Typed, TypeOK, Opt
  <2>2. insts[routes[k]].status # "Initializing"
    BY <2>1, AbsentFields DEF AbsentIsAbsent
  <2>3. /\ UNCHANGED <<insts, routes, tasks, recon>>
        /\ registry' = [registry EXCEPT ![k] = None]
        /\ epochs' = [epochs EXCEPT ![routes[k]] = None]
    BY <1>1, <1>2 DEF PreparePanics
  <2> QED BY <2>1, <2>2, <2>3 DEF StartsOwned, Keeps, Typed, TypeOK
<1>3. CASE PrepareOwns(c)
  <2>1. PICK t \in Attempts : t = FreshAttempt /\ \A l \in Keys : registry[l] # t
    BY <1>3, FreshIsUnknown DEF PrepareOwns
  <2>2. PICK i \in Instances : i = RoutedOrFresh(k) /\ \A j \in Instances \ {i} : insts'[j] = insts[j]
    BY <1>1, <1>3, PrepareOwnsMoves
  <2> DEFINE n == [NoAttempt EXCEPT !.phase = "spawned", !.key = k, !.inst = i, !.rt = Current,
                                    !.owner = c, !.held = insts[i].svc]
  <2>3. routes[k] # None => i = routes[k]
    BY <2>2 DEF RoutedOrFresh
  <2>4. /\ routes' = [routes EXCEPT ![k] = i] /\ registry' = [registry EXCEPT ![k] = t]
        /\ tasks' = [tasks EXCEPT ![t] = n] /\ epochs' = [epochs EXCEPT ![i] = None]
        /\ recon' = recon
    BY <1>1, <1>3, <2>1, <2>2 DEF PrepareOwns
  <2>5. n.inst = i
    BY NoAttemptFields
  <2> HIDE DEF n
  <2>6. ByTask(i)'
    BY <2>1, <2>2, <2>4, <2>5, NoneIsNoValue DEF ByTask, Typed, TypeOK
  <2>7. ASSUME NEW j \in Instances \ {i}, insts'[j].status = "Initializing" PROVE Keeps(j)
    BY <2>1, <2>2, <2>3, <2>4, <2>7, NoneIsNoValue DEF Keeps, ByHealth, Typed, TypeOK, Opt
  <2> QED BY <2>6, <2>7 DEF StartsOwned
<1> QED BY <1>2, <1>3

\* A step of a task t that ends the start of the task's own instance, if it
\* takes the task out of the registry, and leaves the other instances alone.
LEMMA TaskEnds ==
    ASSUME Typed, Registered, NEW t \in Attempts, UNCHANGED <<routes, epochs, recon>>,
           NEW i, i = tasks[t].inst,
           \A j \in Instances \ {i} : insts'[j] = insts[j],
           \A u \in Attempts \ {t} : tasks'[u] = tasks[u],
           \/ insts'[i].status # "Initializing"
           \/ insts' = insts /\ registry' = registry /\ tasks'[t].inst = i
           \/ insts' = insts /\ registry' = registry /\ \A k \in Keys : registry[k] # t,
           \A k \in Keys : registry'[k] = registry[k] \/ registry[k] = t
    PROVE  StartsOwned
<1> SUFFICES ASSUME NEW j \in Instances, insts'[j].status = "Initializing" PROVE Keeps(j)
  BY DEF StartsOwned
<1>1. insts[j].status = "Initializing"
  <2>1. CASE j = i
    BY <2>1
  <2>2. CASE j # i
    BY <2>2
  <2> QED BY <2>1, <2>2
<1>2. ASSUME NEW k \in Keys, registry[k] # None, routes[k] = j, tasks[registry[k]].inst = j
      PROVE  registry'[k] = registry[k] /\ routes'[k] = j /\ tasks'[registry[k]].inst = j
  <2>1. registry[k] \in Attempts
    BY <1>2 DEF Typed, TypeOK, Opt
  <2>2. CASE registry[k] = t
    BY <1>2, <2>2
  <2>3. CASE registry[k] # t
    BY <1>2, <2>1, <2>3
  <2> QED BY <2>2, <2>3
<1> QED BY <1>1, <1>2 DEF Keeps

\* Every step of a startup task.
LEMMA TasksOwned ==
    ASSUME Typed, AbsentIsAbsent, Told, NEW t \in Attempts, TaskContinues(t) \/ TaskPanics(t)
    PROVE  StartsOwned
<1> DEFINE i == tasks[t].inst
<1>0. Registered /\ tasks[t] \in Attempt /\ tasks[t].phase \in {"spawned", "connecting", "discarding", "panicked"}
  BY DEF Told, Typed, TypeOK, TaskContinues, TaskPanics, TransportBegins, PublishReady, PublishFailed,
         PublishSuperseded, PublishUnclaimed, Discard, CleanUpPanic
<1>1. i \in Instances /\ tasks[t].key \in Keys
  BY <1>0 DEF Typed, AttemptsNamed
<1>2. ASSUME NEW w, tasks' = [tasks EXCEPT ![t] = w], w.inst = i,
             UNCHANGED <<insts, routes, epochs, recon, registry>>
      PROVE  StartsOwned
  BY <1>0, <1>2, TaskEnds DEF Typed, TypeOK
<1>3. CASE TransportBegins(t)
  <2> DEFINE m == [cfg |-> tasks[t].rt.cfg, sec |-> secret]
             w == [tasks[t] EXCEPT !.phase = "connecting", !.made = m]
  <2>1. w.inst = i
    BY <1>0, AttemptFields
  <2>2. tasks' = [tasks EXCEPT ![t] = w] /\ UNCHANGED <<insts, routes, epochs, recon, registry>>
    BY <1>3 DEF TransportBegins, healthVars, Typed, TypeOK
  <2> HIDE DEF w, m
  <2> QED BY <1>2, <2>1, <2>2
<1>4. CASE TaskPanics(t)
  <2> DEFINE w == [tasks[t] EXCEPT !.phase = "panicked", !.held = None]
  <2>1. w.inst = i
    BY <1>0, AttemptFields
  <2>2. tasks' = [tasks EXCEPT ![t] = w] /\ UNCHANGED <<insts, routes, epochs, recon, registry>>
    BY <1>4 DEF TaskPanics, healthVars, Typed, TypeOK
  <2> HIDE DEF w
  <2> QED BY <1>2, <2>1, <2>2
<1>5. ASSUME NEW r \in Results, PublishUnclaimed(t, r) PROVE StartsOwned
  <2> DEFINE w == [tasks[t] EXCEPT !.phase = "discarding", !.held = WorkerHolds(t, r),
                                   !.outcome = "superseded"]
  <2>1. w.inst = i
    BY <1>0, AttemptFields
  <2>2. tasks' = [tasks EXCEPT ![t] = w] /\ UNCHANGED <<insts, routes, epochs, recon, registry>>
    BY <1>5 DEF PublishUnclaimed, Discarding, healthVars, Typed, TypeOK
  <2> HIDE DEF w
  <2> QED BY <1>2, <2>1, <2>2
<1>6. CASE Discard(t)
  <2>1. \A k \in Keys : registry[k] # t
    BY <1>6, NoneIsNoValue DEF Discard, Told, Registered
  <2>2. UNCHANGED <<insts, routes, epochs, recon, registry>> /\ \A u \in Attempts \ {t} : tasks'[u] = tasks[u]
    BY <1>6 DEF Discard, healthVars, Typed, TypeOK
  <2> QED BY <1>0, <2>1, <2>2, TaskEnds
<1>7. ASSUME Claims(t), registry' = [registry EXCEPT ![tasks[t].key] = None]
      PROVE  \A k \in Keys : registry'[k] = registry[k] \/ registry[k] = t
  BY <1>1, <1>7 DEF Claims, Typed, TypeOK
<1>8. CASE CleanUpPanic(t)
  <2>1. /\ insts' = (IF Exists(i) THEN [insts EXCEPT ![i].status = "Error"] ELSE insts)
        /\ UNCHANGED <<routes, epochs, recon>> /\ tasks' = [tasks EXCEPT ![t] = NoAttempt]
        /\ registry' = IF Claims(t) THEN [registry EXCEPT ![tasks[t].key] = None] ELSE registry
    BY <1>8 DEF CleanUpPanic, healthVars
  <2>2. insts'[i].status # "Initializing" /\ \A j \in Instances \ {i} : insts'[j] = insts[j]
    <3> HIDE DEF i
    <3> QED BY <1>1, <2>1, StatusEnds
  <2>3. /\ \A k \in Keys : registry'[k] = registry[k] \/ registry[k] = t
        /\ \A u \in Attempts \ {t} : tasks'[u] = tasks[u]
    BY <1>7, <2>1 DEF Typed, TypeOK
  <2> QED BY <1>0, <2>1, <2>2, <2>3, TaskEnds
<1>9. ASSUME PublishReady(t) \/ \E r \in Results : PublishFailed(t, r) \/ PublishSuperseded(t, r)
      PROVE  StartsOwned
  <2>1. insts'[i].status # "Initializing" /\ \A j \in Instances \ {i} : insts'[j] = insts[j]
    <3>1. CASE PublishReady(t)
      <4> DEFINE x == [insts[i] EXCEPT !.place = tasks[t].key]
                 w == Served(x, tasks[t].made)
      <4>1. insts' = [insts EXCEPT ![i] = w]
        BY <1>1, <3>1 DEF PublishReady, Typed, TypeOK
      <4>2. x \in Instance
        BY <1>1, InstanceFields DEF Typed, TypeOK
      <4>3. w.status = "Ready"
        <5> HIDE DEF x
        <5> QED BY <4>2, InstanceFields
      <4> HIDE DEF w, i
      <4> QED BY <1>1, <4>1, <4>3, OneInstanceMoves
    <3>2. ASSUME NEW r \in Results, PublishFailed(t, r)
          PROVE  insts'[i].status # "Initializing" /\ \A j \in Instances \ {i} : insts'[j] = insts[j]
      <4>1. insts' = [insts EXCEPT ![i].status = ErrorOf(r)] /\ ErrorOf(r) # "Initializing"
        BY <3>2 DEF PublishFailed, ErrorOf
      <4> HIDE DEF i
      <4> QED BY <1>1, <4>1, StatusEnds
    <3>3. ASSUME NEW r \in Results, PublishSuperseded(t, r)
          PROVE  insts'[i].status # "Initializing" /\ \A j \in Instances \ {i} : insts'[j] = insts[j]
      <4>1. insts' = Settled(i)
        BY <3>3 DEF PublishSuperseded
      <4> HIDE DEF i
      <4> QED BY <1>1, <4>1, SettledEnds
    <3> QED BY <1>9, <3>1, <3>2, <3>3
  <2>2. /\ Claims(t) /\ registry' = [registry EXCEPT ![tasks[t].key] = None]
        /\ UNCHANGED <<routes, epochs, recon>>
    BY <1>9 DEF PublishReady, PublishFailed, PublishSuperseded, Release, healthVars
  <2>3. \A u \in Attempts \ {t} : tasks'[u] = tasks[u]
    BY <1>9, PublishesMoves DEF Publishes
  <2> QED BY <1>0, <1>7, <2>1, <2>2, <2>3, TaskEnds
<1> QED BY <1>3, <1>4, <1>5, <1>6, <1>8, <1>9 DEF TaskContinues

\* A step of a health reconnect h that ends the start of the reconnect's own
\* instance, if it gives up the instance's epoch.
LEMMA ReconnectEnds ==
    ASSUME Typed, NEW h \in Reconnects, UNCHANGED <<registry, routes, tasks>>,
           NEW i, i = recon[h].inst,
           \A j \in Instances \ {i} : insts'[j] = insts[j] /\ epochs'[j] = epochs[j],
           \A g \in Reconnects \ {h} : recon'[g] = recon[g],
           \/ insts'[i].status # "Initializing"
           \/ insts' = insts /\ epochs' = epochs /\ (epochs[i] = h => recon[h].phase # "connecting")
    PROVE  StartsOwned
<1> SUFFICES ASSUME NEW j \in Instances, insts'[j].status = "Initializing" PROVE Keeps(j)
  BY DEF StartsOwned
<1>1. insts[j].status = "Initializing"
  <2>1. CASE j = i
    BY <2>1
  <2>2. CASE j # i
    BY <2>2
  <2> QED BY <2>1, <2>2
<1>2. ASSUME ByHealth(j) PROVE epochs'[j] = epochs[j] /\ recon'[epochs[j]] = recon[epochs[j]]
  <2>1. epochs[j] \in Reconnects
    BY <1>2 DEF ByHealth, Typed, TypeOK, Opt
  <2>2. CASE j = i
    BY <1>2, <2>1, <2>2 DEF ByHealth
  <2>3. CASE j # i
    BY <1>2, <2>1, <2>3 DEF ByHealth
  <2> QED BY <2>2, <2>3
<1> QED BY <1>1, <1>2 DEF Keeps

\* Every step of a health reconnect.
LEMMA ReconnectsOwned ==
    ASSUME Typed, AbsentIsAbsent, NEW h \in Reconnects,
           ReconnectContinues(h) \/ \E i \in Instances : HealthBegins(h, i)
    PROVE  StartsOwned
<1> DEFINE i == recon[h].inst
<1>1. ASSUME NEW j \in Instances, HealthBegins(h, j) PROVE StartsOwned
  <2> DEFINE n == [phase |-> "connecting", inst |-> j, rt |-> Current, held |-> insts[j].svc]
  <2>1. /\ epochs' = [epochs EXCEPT ![j] = h] /\ recon' = [recon EXCEPT ![h] = n]
        /\ insts' = [insts EXCEPT ![j].status = "Initializing"]
        /\ UNCHANGED <<routes, registry, tasks>> /\ recon[h].phase = "free"
    BY <1>1 DEF HealthBegins, startVars
  <2>2. n.phase = "connecting" /\ n.inst = j
    OBVIOUS
  <2> HIDE DEF n
  <2>3. ByHealth(j)'
    BY <2>1, <2>2, NoneIsNoValue DEF ByHealth, Typed, TypeOK
  <2>4. ASSUME NEW l \in Instances \ {j}, insts'[l].status = "Initializing" PROVE Keeps(l)
    <3>1. insts'[l] = insts[l] /\ epochs'[l] = epochs[l]
      BY <2>1 DEF Typed, TypeOK
    <3>2. ByHealth(l) => recon'[epochs[l]] = recon[epochs[l]]
      BY <2>1 DEF ByHealth, Typed, TypeOK, Opt
    <3> QED BY <2>1, <2>4, <3>1, <3>2 DEF Keeps
  <2> QED BY <2>3, <2>4 DEF StartsOwned
<1>2. ASSUME NEW service, HealthDiscarding(h, service)
      PROVE  \A g \in Reconnects \ {h} : recon'[g] = recon[g]
  BY <1>2 DEF HealthDiscarding, Typed, TypeOK
<1>3. CASE HealthDiscards(h)
  <2>1. /\ UNCHANGED <<registry, routes, tasks, insts, epochs>>
        /\ \A g \in Reconnects \ {h} : recon'[g] = recon[g]
        /\ recon[h].phase = "discarding"
    BY <1>3 DEF HealthDiscards, startVars, Typed, TypeOK
  <2> QED BY <2>1, ReconnectEnds
<1>4. ASSUME recon[h].phase = "connecting" PROVE i \in Instances /\ insts[i] \in Instance
  BY <1>4 DEF Typed, TypeOK, ReconnectsNamed
<1>5. ASSUME NEW w, i \in Instances, insts' = [insts EXCEPT ![i] = w], w.status # "Initializing",
             epochs' = [epochs EXCEPT ![i] = None], UNCHANGED <<registry, routes, tasks>>,
             NEW service, HealthDiscarding(h, service)
      PROVE  StartsOwned
  <2>1. insts'[i].status # "Initializing" /\ \A j \in Instances \ {i} : insts'[j] = insts[j]
    <3> HIDE DEF i
    <3> QED BY <1>5, OneInstanceMoves
  <2>2. \A j \in Instances \ {i} : epochs'[j] = epochs[j]
    BY <1>5 DEF Typed, TypeOK
  <2> QED BY <1>2, <1>5, <2>1, <2>2, ReconnectEnds
<1>6. CASE HealthPublishes(h)
  <2>1. PICK s : insts' = [insts EXCEPT ![i] = Served(@, [recon[h].rt EXCEPT !.sec = s])]
    BY <1>6 DEF HealthPublishes
  <2> DEFINE w == Served(insts[i], [recon[h].rt EXCEPT !.sec = s])
  <2>2. i \in Instances /\ insts[i] \in Instance
    BY <1>4, <1>6 DEF HealthPublishes
  <2>3. w.status = "Ready"
    BY <2>2, InstanceFields
  <2>4. insts' = [insts EXCEPT ![i] = w]
    BY <2>1, <2>2 DEF Typed, TypeOK
  <2>5. /\ epochs' = [epochs EXCEPT ![i] = None] /\ UNCHANGED <<registry, routes, tasks>>
        /\ HealthDiscarding(h, insts[i].svc)
    BY <1>6 DEF HealthPublishes, startVars
  <2> HIDE DEF w
  <2> QED BY <1>5, <2>2, <2>3, <2>4, <2>5
<1>7. ASSUME NEW r \in Results, HealthFails(h, r) PROVE StartsOwned
  <2> DEFINE w == [insts[i] EXCEPT !.status = ErrorOf(r), !.svc = recon[h].held]
  <2>1. i \in Instances /\ insts[i] \in Instance
    BY <1>4, <1>7 DEF HealthFails
  <2>2. w.status # "Initializing"
    BY <2>1, InstanceFields DEF ErrorOf
  <2>3. insts' = [insts EXCEPT ![i] = w]
    BY <1>7, <2>1 DEF HealthFails, Typed, TypeOK
  <2>4. /\ epochs' = [epochs EXCEPT ![i] = None] /\ UNCHANGED <<registry, routes, tasks>>
        /\ HealthDiscarding(h, insts[i].svc)
    BY <1>7 DEF HealthFails, startVars
  <2> HIDE DEF w
  <2> QED BY <1>5, <2>1, <2>2, <2>3, <2>4
<1>8. ASSUME NEW r \in Results, HealthInvalidated(h, r) PROVE StartsOwned
  <2>1. i \in Instances
    BY <1>4, <1>8 DEF HealthInvalidated
  <2>2. \A g \in Reconnects \ {h} : recon'[g] = recon[g]
    BY <1>2, <1>8 DEF HealthInvalidated
  <2>3. CASE OwnsEpoch(h)
    <3>1. insts' = Settled(i) /\ epochs' = [epochs EXCEPT ![i] = None] /\ UNCHANGED <<registry, routes, tasks>>
      BY <1>8, <2>3 DEF HealthInvalidated, startVars
    <3>2. insts'[i].status # "Initializing" /\ \A j \in Instances \ {i} : insts'[j] = insts[j]
      <4> HIDE DEF i
      <4> QED BY <2>1, <3>1, SettledEnds
    <3>3. \A j \in Instances \ {i} : epochs'[j] = epochs[j]
      BY <3>1 DEF Typed, TypeOK
    <3> QED BY <2>2, <3>1, <3>2, <3>3, ReconnectEnds
  <2>4. CASE ~OwnsEpoch(h)
    <3>1. UNCHANGED <<insts, epochs, registry, routes, tasks>> /\ epochs[i] # h
      BY <1>8, <2>4 DEF HealthInvalidated, OwnsEpoch, startVars
    <3> QED BY <2>2, <3>1, ReconnectEnds
  <2> QED BY <2>3, <2>4
<1> QED BY <1>1, <1>3, <1>6, <1>7, <1>8 DEF ReconnectContinues

\* A disconnect leaves its instance shut down or gone.
LEMMA DisconnectedEnds ==
    ASSUME Typed, NEW i \in Instances
    PROVE  /\ Disconnected(i) \in [Instances -> Instance]
           /\ Disconnected(i)[i].status # "Initializing"
           /\ \A j \in Instances \ {i} : Disconnected(i)[j] = insts[j]
           /\ \A k \in Keys : routes[k] # i => Unrouted(i)[k] = routes[k]
<1> DEFINE w == [insts[i] EXCEPT !.status = "Shutdown", !.svc = None]
<1>1. w.status = "Shutdown"
  BY InstanceFields DEF Typed, TypeOK
<1>2. Disconnected(i) = [insts EXCEPT ![i] = IF insts[i].place = Default THEN w ELSE Absent]
  BY DEF Disconnected, Typed, TypeOK
<1> HIDE DEF w
<1>3. /\ Disconnected(i)[i].status # "Initializing"
      /\ \A j \in Instances \ {i} : Disconnected(i)[j] = insts[j]
  BY <1>1, <1>2, AbsentFields DEF Typed, TypeOK
<1> QED BY <1>3, DisconnectedTyped DEF Unrouted

\* The operator's connect of an instance that is not starting, to its end.
LEMMA ConnectEnds ==
    ASSUME Typed, MayDrop = FALSE, NEW i \in Instances, NEW ii \in [Instances -> Instance],
           ii[i].status # "Initializing", \A j \in Instances \ {i} : ii[j] = insts[j],
           ConnectFrom(ii, i)
    PROVE  /\ insts'[i].status # "Initializing"
           /\ \A j \in Instances \ {i} : insts'[j] = insts[j] /\ epochs'[j] = epochs[j]
<1>1. \A j \in Instances \ {i} : epochs'[j] = epochs[j]
  BY DEF ConnectFrom, Typed, TypeOK
<1>2. ASSUME NEW w, insts' = [ii EXCEPT ![i] = w], w.status # "Initializing"
      PROVE  /\ insts'[i].status # "Initializing"
             /\ \A j \in Instances \ {i} : insts'[j] = insts[j]
  BY <1>2
<1>3. CASE insts' = ii
  BY <1>1, <1>3
<1>4. CASE insts' = [ii EXCEPT ![i] = Served(@, Current)]
  <2> DEFINE w == Served(ii[i], Current)
  <2>1. w.status # "Initializing"
    BY InstanceFields
  <2>2. insts' = [ii EXCEPT ![i] = w]
    BY <1>4
  <2> HIDE DEF w
  <2> QED BY <1>1, <1>2, <2>1, <2>2
<1>5. ASSUME NEW r \in Results, insts' = [ii EXCEPT ![i].status = ErrorOf(r)]
      PROVE  /\ insts'[i].status # "Initializing"
             /\ \A j \in Instances \ {i} : insts'[j] = insts[j]
  <2> DEFINE w == [ii[i] EXCEPT !.status = ErrorOf(r)]
  <2>1. w.status # "Initializing"
    BY InstanceFields DEF ErrorOf
  <2>2. insts' = [ii EXCEPT ![i] = w]
    BY <1>5
  <2> HIDE DEF w
  <2> QED BY <1>2, <2>1, <2>2
<1> QED BY <1>1, <1>3, <1>4, <1>5 DEF ConnectFrom

\* Every request of an operator, carried to its end.
LEMMA OperateOwned ==
    ASSUME Typed, MayDrop = FALSE, Operate \/ CallSucceeds \/ BackoffEnds
    PROVE  StartsOwned
<1>1. ASSUME NEW i \in Instances, UNCHANGED <<registry, tasks, recon>>,
             insts'[i].status # "Initializing",
             \A j \in Instances \ {i} : insts'[j] = insts[j] /\ epochs'[j] = epochs[j],
             routes' = routes \/ routes' = Unrouted(i)
      PROVE  StartsOwned
  <2>1. ASSUME NEW j \in Instances, insts'[j].status = "Initializing"
        PROVE  /\ insts[j].status = "Initializing" /\ epochs'[j] = epochs[j]
               /\ \A k \in Keys : routes[k] = j => routes'[k] = j
    <3>1. j # i
      BY <1>1, <2>1
    <3> QED BY <1>1, <2>1, <3>1 DEF Unrouted
  <2> QED BY <1>1, <2>1, NothingStarts
<1>2. ASSUME UNCHANGED <<registry, tasks, recon, insts, routes, epochs>> PROVE StartsOwned
  BY <1>2, NothingStarts
<1>3. ASSUME NEW i \in Instances, Disconnects(i) \/ Interrupted(i), UNCHANGED <<startVars, healthVars>>
      PROVE  StartsOwned
  <2>1. insts' = Disconnected(i) /\ routes' = Unrouted(i)
    BY <1>3 DEF Disconnects, Interrupted
  <2>2. insts'[i].status # "Initializing" /\ \A j \in Instances \ {i} : insts'[j] = insts[j]
    BY <2>1, DisconnectedEnds
  <2> QED BY <1>1, <1>3, <2>1, <2>2 DEF startVars, healthVars
<1>4. ASSUME NEW i \in Instances, Disconnect(i) \/ Reap(i) \/ \E gone \in BOOLEAN : CallFails(i, gone)
      PROVE  StartsOwned
  BY <1>2, <1>3, <1>4 DEF Disconnect, Reap, CallFails, startVars, healthVars
<1>5. ASSUME NEW i \in Instances, Connect(i) PROVE StartsOwned
  <2>1. /\ insts \in [Instances -> Instance] /\ insts[i].status # "Initializing"
        /\ ConnectFrom(insts, i)
        /\ UNCHANGED <<registry, tasks, recon, routes>>
    BY <1>5 DEF Connect, startVars, Typed, TypeOK
  <2>2. /\ insts'[i].status # "Initializing"
        /\ \A j \in Instances \ {i} : insts'[j] = insts[j] /\ epochs'[j] = epochs[j]
    BY <2>1, ConnectEnds
  <2> QED BY <1>1, <2>1, <2>2
<1>6. ASSUME NEW i \in Instances, Relaunch(i) PROVE StartsOwned
  <2>1. /\ ConnectFrom(Disconnected(i), i) /\ routes' = Unrouted(i)
        /\ UNCHANGED <<registry, tasks, recon>>
    BY <1>6 DEF Relaunch, startVars
  <2>2. /\ insts'[i].status # "Initializing"
        /\ \A j \in Instances \ {i} : insts'[j] = insts[j] /\ epochs'[j] = epochs[j]
    BY <2>1, DisconnectedEnds, ConnectEnds
  <2> QED BY <1>1, <2>1, <2>2
<1>7. ASSUME NEW i \in Instances, EvictClosed(i) PROVE StartsOwned
  <2> DEFINE w == [insts[i] EXCEPT !.status = "Shutdown", !.svc = None]
  <2>1. w.status # "Initializing"
    BY InstanceFields DEF Typed, TypeOK
  <2>2. insts' = [insts EXCEPT ![i] = w] /\ UNCHANGED <<registry, tasks, recon, routes, epochs>>
    BY <1>7 DEF EvictClosed, startVars, healthVars, Typed, TypeOK
  <2> HIDE DEF w
  <2>3. insts'[i].status # "Initializing" /\ \A j \in Instances \ {i} : insts'[j] = insts[j]
    BY <2>1, <2>2, OneInstanceMoves
  <2> QED BY <1>1, <2>2, <2>3
<1>8. CASE CallSucceeds \/ BackoffEnds
  BY <1>2, <1>8 DEF CallSucceeds, BackoffEnds, startVars, healthVars
<1> QED BY <1>4, <1>5, <1>6, <1>7, <1>8 DEF Operate

\* An instance that becomes the placeholder, or rests, is idle.
LEMMA PlaceholderRests ==
    ASSUME Typed, NEW i \in Instances, insts'[i].status = "Initializing",
           \/ insts' = WithPlaceholder /\ (In(Default) = {} => FreeInstances # {})
           \/ \E j \in Instances : insts' = Rested(j)
    PROVE  insts[i].status = "Initializing"
<1>1. CASE insts' = WithPlaceholder /\ (In(Default) = {} => FreeInstances # {})
  <2>1. insts' = insts \/ (FreeInstances # {} /\ insts' = [insts EXCEPT ![FreshInstance] = Placeholder(Default)])
    BY <1>1 DEF WithPlaceholder
  <2>2. FreeInstances # {} => FreshInstance \in Instances
    BY FreshIds
  <2> QED BY <2>1, <2>2, AbsentFields DEF Typed, TypeOK
<1>2. ASSUME NEW j \in Instances, insts' = Rested(j) PROVE insts[i].status = "Initializing"
  <2> DEFINE w == [insts[j] EXCEPT !.status = "Idle"]
  <2>1. w.status = "Idle"
    BY InstanceFields DEF Typed, TypeOK
  <2>2. insts' = [insts EXCEPT ![j] = w] \/ insts' = insts
    BY <1>2 DEF Rested, Typed, TypeOK
  <2> HIDE DEF w
  <2> QED BY <2>1, <2>2 DEF Typed, TypeOK
<1> QED BY <1>1, <1>2

\* Every step of the store and of the synchronization, carried to its end.
LEMMA AdministerOwned ==
    ASSUME Typed, MayDrop = FALSE, Administer
    PROVE  StartsOwned
<1>0. \A i \in Instances : NoInstances[i].status # "Initializing"
  BY AbsentFields DEF NoInstances
<1>1. UNCHANGED <<registry, tasks, recon, epochs>>
  BY DEF Administer, SetMode, StoreUpdate, RotateSecret, Delete, Synchronize, ApplyUpdate,
         AbandonUpdate, DisableRuntime, startVars, healthVars
<1>2. ASSUME \A i \in Instances : insts'[i].status # "Initializing" PROVE StartsOwned
  BY <1>2 DEF StartsOwned
<1>3. ASSUME routes' = routes,
             \A i \in Instances : insts'[i].status = "Initializing" => insts[i].status = "Initializing"
      PROVE  StartsOwned
  BY <1>1, <1>3, NothingStarts
<1>4. CASE Synchronize
  <2>1. CASE SyncBlocked
    BY <1>0, <1>2, <2>1 DEF SyncBlocked
  <2>2. CASE SyncRemoves
    BY <1>3, <2>2, AbsentFields DEF SyncRemoves, SharedDropped
  <2>3. CASE SyncKeeps
    <3>1. routes' = routes
      BY <2>3 DEF SyncKeeps
    <3>2. \/ insts' = insts
          \/ insts' = WithPlaceholder /\ (In(Default) = {} => FreeInstances # {})
          \/ \E j \in Instances : insts' = Rested(j)
      BY <2>3 DEF SyncKeeps, In
    <3> QED BY <1>3, <3>1, <3>2, PlaceholderRests
  <2> QED BY <1>4, <2>1, <2>2, <2>3 DEF Synchronize
<1>5. CASE ApplyUpdate
  <2>1. CASE insts' = NoInstances
    BY <1>0, <1>2, <2>1
  <2>2. CASE insts' = [NoInstances EXCEPT ![CHOOSE i \in NotInFlight : TRUE] = Placeholder(Default)]
    BY <1>0, <1>2, <2>2, AbsentFields DEF NoInstances
  <2> QED BY <1>5, <2>1, <2>2 DEF ApplyUpdate
<1>6. CASE DisableRuntime
  BY <1>0, <1>2, <1>6 DEF DisableRuntime
<1>7. CASE UNCHANGED <<insts, routes>>
  BY <1>3, <1>7
<1> QED BY <1>4, <1>5, <1>6, <1>7 DEF Administer, SetMode, StoreUpdate, RotateSecret, Delete, AbandonUpdate

\* Every step keeps Owned.
LEMMA OwnedStep ==
    ASSUME MayDrop = FALSE PROVE Typed /\ AbsentIsAbsent /\ Told /\ Owned /\ [Next]_vars => Owned'
<1> SUFFICES ASSUME Typed, AbsentIsAbsent, Told, Owned, [Next]_vars PROVE StartsOwned
  BY OwnedAfter
<1>1. CASE UNCHANGED <<insts, routes, registry, tasks, healthVars>>
  BY <1>1, NothingStarts DEF healthVars
<1>2. ASSUME NEW c \in Callers, CallerSteps(c) \/ CallerContinues(c) PROVE StartsOwned
  <2>1. CASE PrepareOwns(c) \/ PreparePanics(c)
    BY <2>1, PreparesOwned
  <2>2. CASE EnableApplies(c)
    <3>1. /\ insts' = WithPlaceholder /\ (In(Default) = {} => FreeInstances # {})
          /\ UNCHANGED <<registry, tasks, recon, epochs, routes>>
      BY <2>2 DEF EnableApplies, healthVars
    <3> QED BY <3>1, PlaceholderRests, NothingStarts
  <2>3. CASE ~PrepareOwns(c) /\ ~PreparePanics(c) /\ ~EnableApplies(c)
    BY <1>1, <1>2, <2>3 DEF CallerSteps, CallerContinues, Demand, EnableCaptures, DropCaller,
         PrepareAnswers, PrepareJoins, EnableLoads, EnableBails
  <2> QED BY <2>1, <2>2, <2>3
<1>3. ASSUME NEW t \in Attempts, TaskContinues(t) \/ TaskPanics(t) PROVE StartsOwned
  BY <1>3, TasksOwned
<1>4. ASSUME NEW h \in Reconnects, ReconnectContinues(h) \/ \E i \in Instances : HealthBegins(h, i)
      PROVE  StartsOwned
  BY <1>4, ReconnectsOwned
<1>5. CASE UNCHANGED vars
  BY <1>1, <1>5 DEF vars, startVars
<1> QED BY <1>2, <1>3, <1>4, <1>5, AdministerOwned, OperateOwned DEF Next

\* Where no request is dropped, an instance that is starting has the attempt or
\* the reconnect in flight that will move it on (prepare_coordinated,
\* publish_startup_attempt, health_reconnect, disconnect).
THEOREM StartingIsOwned == ASSUME MayDrop = FALSE PROVE Spec => []InitializingHasOwner
<1>1. Init => Told /\ Owned
  BY NoneIsNoValue, AbsentFields
     DEF Init, Told, Registered, Known, OwnedWhileRunning, NoAttempt, Idle, Owned, NoInstances
<1>2. Typed /\ Told /\ Owned => InitializingHasOwner
  BY DEF Told, Registered, Owned, ByTask, ByHealth, InitializingHasOwner, Running
<1>3. /\ Init => Typed /\ AbsentIsAbsent /\ Told /\ Owned
      /\ Typed /\ AbsentIsAbsent /\ Told /\ Owned /\ [Next]_vars
         => (Typed /\ AbsentIsAbsent /\ Told /\ Owned)'
  BY <1>1, TypedInit, TypedStep, AbsentInit, AbsentStep, ToldStep, OwnedStep
<1> QED BY <1>2, <1>3, PTL DEF Spec

-----------------------------------------------------------------------------
(* The promise of the pool about its services *)

\* Who has a service after a step had it before, or serves it as a new one.
LEMMA KnownBefore ==
    ASSUME Typed, MadeAsAsked, [Next]_vars, NEW s, s # None,
           HandedNext(s) \/ \E i \in Instances : insts'[i].svc = s
    PROVE  \/ Handed(s) \/ \E i \in Instances : insts[i].svc = s
           \/ \E i \in Instances : insts'[i].status = "Ready" /\ insts'[i].svc = s
<1>1. CASE HandedNext(s)
  BY <1>1, WorkersTake
<1>2. ASSUME NEW i \in Instances, insts'[i].svc = s
      PROVE  \/ Handed(s) \/ insts[i].svc = s
             \/ insts'[i].status = "Ready" /\ insts'[i].svc = s
  BY <1>2, ServicesStep DEF ServicesMove, Renewed, Restored, Fades, FadesFrom, Handed
<1> QED BY <1>1, <1>2

\* Who is retained is in somebody's hands, and nobody serves it.
LEMMA RetainedIs ==
    /\ \A s : s \in Retained <=> /\ s # None
                                 /\ Handed(s) \/ \E i \in Instances : insts[i].svc = s
                                 /\ \A i \in Instances : Serving[i] # s
    /\ \A s : s \in Retained' <=> /\ s # None
                                  /\ HandedNext(s) \/ \E i \in Instances : insts'[i].svc = s
                                  /\ \A i \in Instances : Serving'[i] # s
BY DEF Retained, Handed, HandedNext

\* A service that an instance has left, and only such a service, is discarded.
LEMMA DiscardsLeft ==
    ASSUME Typed, MadeAsAsked, CancelledIsHeld', Lone', cancelled' \subseteq Services, [Next]_vars,
           NEW held, Retained \subseteq held,
           \A i \in Instances : Serving'[i] # Serving[i] /\ Serving[i] # None => Serving[i] \in held
    PROVE  Promise!Discard(held)
<1>1. ASSUME NEW s \in Retained' PROVE s \in held
  <2>1. /\ s # None /\ \A i \in Instances : Serving'[i] # s
        /\ HandedNext(s) \/ \E i \in Instances : insts'[i].svc = s
    BY RetainedIs
  <2>2. Handed(s) \/ \E i \in Instances : insts[i].svc = s
    BY <2>1, KnownBefore DEF Serving
  <2>3. CASE \A i \in Instances : Serving[i] # s
    BY <2>1, <2>2, <2>3, RetainedIs
  <2>4. CASE \E i \in Instances : Serving[i] = s
    BY <2>1, <2>4
  <2> QED BY <2>3, <2>4
<1>2. ASSUME NEW s \in cancelled' PROVE s \in Retained'
  <2>1. s # None /\ \E i \in Instances : insts'[i].svc = s
    BY <1>2, NoneIsNoValue DEF CancelledIsHeld
  <2>2. ASSUME NEW i \in Instances, Serving'[i] = s PROVE FALSE
    BY <1>2, <2>1, <2>2 DEF Serving, Lone
  <2> QED BY <2>1, <2>2, RetainedIs
<1> QED BY <1>1, <1>2 DEF Promise!Discard

\* Every step serves one new service, or withdraws some.
LEMMA PromiseStep ==
    ASSUME Typed, MadeAsAsked, CancelledIsHeld, CancelledIsHeld', Lone', cancelled' \subseteq Services,
           [Next]_vars
    PROVE  Promise!Next
<1>1. ASSUME NEW i \in Instances, Renewed(i), \A j \in Instances \ {i} : insts'[j] = insts[j]
      PROVE  Promise!Serve(i)
  <2>1. Serving'[i] = FreshService /\ \A j \in Instances \ {i} : Serving'[j] = Serving[j]
    BY <1>1 DEF Serving, Renewed
  <2>2. Serving' = [Serving EXCEPT ![i] = Serving'[i]]
    BY <2>1 DEF Serving
  <2>3. FreshService \in Services \ (Retained \cup Promise!Of(Instances))
    BY <1>1, FreshServiceUnknown, RetainedIs DEF Renewed, Promise!Of, Serving
  <2>4. Promise!Discard(Retained \cup Promise!Of({i}))
    BY <2>1, DiscardsLeft DEF Promise!Of
  <2> QED BY <2>1, <2>2, <2>3, <2>4 DEF Promise!Serve
<1>2. ASSUME \A i \in Instances : Serving'[i] \in {Serving[i], None} PROVE Promise!Withdraw
  <2> DEFINE gone == {i \in Instances : Serving'[i] = None}
  <2>1. Serving' = [i \in Instances |-> IF i \in gone THEN None ELSE Serving[i]]
    BY <1>2 DEF Serving
  <2>2. Promise!Discard(Retained \cup Promise!Of(gone))
    BY <1>2, DiscardsLeft DEF Promise!Of
  <2> QED BY <2>1, <2>2 DEF Promise!Withdraw
<1>3. CASE \A i \in Instances : Fades(i)
  BY <1>2, <1>3 DEF Fades, FadesFrom, Serving, Promise!Next
<1>4. ASSUME NEW i \in Instances, Restored(i), \A j \in Instances \ {i} : insts'[j] = insts[j]
      PROVE  Promise!Withdraw
  BY <1>2, <1>4 DEF Restored, Serving
<1> QED BY <1>1, <1>3, <1>4, ServicesStep DEF ServicesMove, Promise!Next

\* The pool keeps the promise of UpstreamServices, dropped requests and panics
\* included: an instance serves what nobody knew before, and what it served is
\* not served again by anyone as long as somebody has yet to discard it.
THEOREM ServicesAsPromised == Spec => KeepsPromise
<1> DEFINE Inv == Typed /\ MadeAsAsked /\ AbsentIsAbsent /\ CancelledIsHeld /\ Lone
<1>1. Init => Promise!Init
  BY NoneIsNoValue, AbsentFields
     DEF Init, NoInstances, NoAttempt, NoReconnect, Serving, Retained, Promise!Init
<1>2. Init => Inv
  BY TypedInit, MadeInit, AbsentInit, LoneInit
<1>3. Inv /\ [Next]_vars => Inv'
  BY TypedStep, MadeStep, AbsentStep, CancelledStep, LoneStep
<1>4. Inv /\ [Next]_vars => [Promise!Next]_(Promise!vars)
  <2>1. Inv' => cancelled' \subseteq Services
    BY DEF Typed, TypeOK
  <2> QED BY <1>3, <2>1, PromiseStep
<1> QED BY <1>1, <1>2, <1>3, <1>4, PTL DEF Spec, KeepsPromise, Promise!Spec

=============================================================================
