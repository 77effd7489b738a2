----------------------- MODULE SurfaceReconciliation -----------------------
(***************************************************************************)
(* The durable reconciliation of consumer surfaces with the catalog.       *)
(*                                                                         *)
(* A catalog commit raises the revision of a server, contracts the         *)
(* surfaces that hold an entry it made unsafe and enqueues one job per     *)
(* affected consumer, all in one transaction.  Workers lease jobs, compile *)
(* the consumer against the catalog of that moment, or hand over to a      *)
(* successor when the job was made for other revisions or another binding, *)
(* and then deliver the publications the outbox still holds.  Management   *)
(* saves, rollbacks and revocations run beside them.                       *)
(*                                                                         *)
(* Every transaction is BEGIN IMMEDIATE on one SQLite file: an action.     *)
(* What a surface contains is the subject of SurfaceReviews; here a        *)
(* compilation publishes or not.  A lease expires by the clock: it may be  *)
(* taken over at any time, at the price of a fault while its holder is     *)
(* still at work on it.  attempt_count tells two leases of one worker      *)
(* apart; a worker is at work on one job at a time, so the holder decides. *)
(***************************************************************************)
EXTENDS Integers, FiniteSets

CONSTANTS
    Consumers,      \* clients with a managed surface
    Servers,        \* servers with a catalog snapshot
    Workers,        \* worker ids: a process draws a new one when it starts
    None,           \* no holder, no job
    MaxRevision,    \* bound: catalog revisions of one server
    Kinds,          \* bound: what management does, of {"save", "rollback", "revoke"}
    MaxSaves,       \* bound: how often it does
    MaxFaults       \* bound: crashes, failed transactions and deliveries, expired leases of live workers

ASSUME NoneAssumption == None \notin Workers
ASSUME BoundsAssumption == MaxRevision \in Nat /\ MaxSaves \in Nat /\ MaxFaults \in Nat

VARIABLES
    revision,       \* catalog_revision of each server's snapshot
    touched,        \* the last revision of each server that changed a capability
    relies,         \* the servers a consumer's authoring relationships name
    binding,        \* the generation of the active binding, 0 without one
    leftover,       \* other servers a surface that was rolled back still has entries of
    lastGeneration, \* consumer_surface_generations.last_generation
    seen,           \* the revisions the last compilation of a consumer read
    jobs,           \* surface_reconciliation_jobs: a function on the keys enqueued so far
    outbox,         \* surface_outbox_events
    marked,         \* the events with a delivered_at
    announced,      \* the events the proxy was handed at least once
    worker,         \* where each worker is in its loop
    saves, faults   \* what is spent of the bounds

catalogVars == <<revision, touched>>
surfaceVars == <<relies, leftover, binding, lastGeneration, seen>>
outboxVars == <<outbox, marked, announced>>
vars == <<revision, touched, relies, leftover, binding, lastGeneration, seen, jobs, outbox, marked,
          announced, worker, saves, faults>>

-----------------------------------------------------------------------------
Bound(c) == binding[c] > 0

(* The idempotency key: cause, consumer, target revisions (0 for a server that is not among them), *)
(* expected generation. *)
Job == [server : Servers, revision : Nat, consumer : Consumers,
        target : [Servers -> Nat], generation : Nat]

Row == [status : {"pending", "leased", "failed", "succeeded"}, holder : Workers \cup {None}]

Pending == [status |-> "pending", holder |-> None]

Event == [consumer : Consumers, generation : Nat, kind : {"published", "revoked"}]

Published(c, g) == [consumer |-> c, generation |-> g, kind |-> "published"]

(* What the surface of c depends on: its authoring, its active entries and the trigger s. *)
Derive(c, s, rev) ==
    [t \in Servers |-> IF t \in relies[c] \cup leftover[c] \cup {s} THEN rev[t] ELSE 0]

NewJob(c, s, r, rev, g) ==
    [server |-> s, revision |-> r, consumer |-> c, target |-> Derive(c, s, rev), generation |-> g]

(* INSERT OR IGNORE by key: a row that is there stays as it is. *)
Enqueue(rows, new) ==
    [j \in DOMAIN rows \cup new |-> IF j \in DOMAIN rows THEN rows[j] ELSE Pending]

Unfinished(j) == jobs[j].status # "succeeded"

Phases == {"reconcile", "process", "refused", "dispatch", "deliver", "mark", "gone"}

At(phase) == [phase |-> phase, job |-> None, batch |-> {}, event |-> None]

Works(w) == worker[w].phase \in {"process", "refused"}

HeldBySomeone(w) == jobs[worker[w].job].status = "leased"    \* bug: the owner of the lease is not compared
Holds(w) == jobs[worker[w].job].status = "leased" /\ jobs[worker[w].job].holder = w

(* The consumers in C get the next generation, bound and in the outbox, in one transaction. *)
Publish(C) ==
    /\ lastGeneration' = [c \in Consumers |-> lastGeneration[c] + IF c \in C THEN 1 ELSE 0]
    /\ binding' = [c \in Consumers |-> IF c \in C THEN lastGeneration'[c] ELSE binding[c]]
    /\ outbox' = outbox \cup {Published(c, lastGeneration'[c]) : c \in C}
    /\ UNCHANGED <<marked, announced>>

(* A compilation holds entries of the servers it relies on only, and publishes when the manifest *)
(* differs from the active one: always, for a consumer without a binding. *)
Compile(C) ==
    /\ seen' = [c \in Consumers |-> IF c \in C THEN revision ELSE seen[c]]
    /\ leftover' = [c \in Consumers |-> IF c \in C THEN {} ELSE leftover[c]]
    /\ \E P \in SUBSET C : {c \in C : ~Bound(c)} \subseteq P /\ Publish(P)

Manage(kind) == kind \in Kinds /\ saves < MaxSaves /\ saves' = saves + 1

Fault == faults < MaxFaults /\ faults' = faults + 1

-----------------------------------------------------------------------------
Init ==
    /\ revision = [s \in Servers |-> 1]
    /\ touched = [s \in Servers |-> 1]
    /\ relies \in [Consumers -> SUBSET Servers]
    /\ leftover = [c \in Consumers |-> {}]
    /\ binding = [c \in Consumers |-> 1]
    /\ lastGeneration = [c \in Consumers |-> 1]
    /\ seen = [c \in Consumers |-> revision]
    /\ jobs = [j \in {} |-> Pending]
    /\ outbox = {} /\ marked = {} /\ announced = {}
    /\ worker = [w \in Workers |-> At("reconcile")]
    /\ saves = 0 /\ faults = 0

(* A commit that changes no capability: metadata, a failed discovery, an invalidation. *)
Bump(s) ==
    /\ revision[s] < MaxRevision
    /\ revision' = [revision EXCEPT ![s] = @ + 1]
    /\ UNCHANGED <<touched, surfaceVars, jobs, outboxVars, worker, saves, faults>>

(* A commit that adds, changes, loses or finds again a capability, or retires the server: it cuts *)
(* the surfaces that pin what changed, and enqueues a job for each of them and for every consumer *)
(* that relies on s.  The revisions a job expects are derived before the cut. *)
Change(s) ==
    /\ revision[s] < MaxRevision
    /\ revision' = [revision EXCEPT ![s] = @ + 1]
    /\ touched' = [touched EXCEPT ![s] = revision[s] + 1]
    /\ \E cut \in SUBSET {c \in Consumers : Bound(c) /\ s \in relies[c] \cup leftover[c]} :
          /\ Publish(cut)
          /\ leftover' \in [Consumers -> SUBSET Servers]
          /\ \A c \in Consumers :
                /\ leftover'[c] \subseteq leftover[c]
                /\ leftover[c] \ leftover'[c] \subseteq IF c \in cut THEN {s} ELSE {}
          /\ LET affected == cut \cup {c \in Consumers : Bound(c) /\ s \in relies[c]}
             IN  jobs' = Enqueue(jobs, {NewJob(c, s, revision[s] + 1, revision', binding'[c]) : c \in affected})
    /\ UNCHANGED <<relies, seen, worker, saves, faults>>

(* A management save, a review decision or a bootstrap: new authoring of the consumers that share *)
(* a profile, compiled at once. *)
Save(C) ==
    /\ Manage("save")
    /\ \E R \in SUBSET Servers : relies' = [c \in Consumers |-> IF c \in C THEN R ELSE relies[c]]
    /\ Compile(C)
    /\ UNCHANGED <<catalogVars, jobs, worker, faults>>

(* A rollback binds an older manifest again without compiling: it may hold entries of servers *)
(* the authoring does not name any more. *)
Rollback(c) ==
    /\ Bound(c)
    /\ Manage("rollback")
    /\ Publish({c})
    /\ \E R \in SUBSET (Servers \ relies[c]) : leftover' = [leftover EXCEPT ![c] = R]
    /\ UNCHANGED <<catalogVars, relies, seen, jobs, worker, faults>>

(* The consumer is no longer managed: the binding goes, its jobs stay. *)
Revoke(c) ==
    /\ Bound(c)
    /\ Manage("revoke")
    /\ binding' = [binding EXCEPT ![c] = 0]
    /\ leftover' = [leftover EXCEPT ![c] = {}]
    /\ outbox' = outbox \cup {[consumer |-> c, generation |-> binding[c], kind |-> "revoked"]}
    /\ UNCHANGED <<catalogVars, relies, lastGeneration, seen, jobs, marked, announced, worker, faults>>

-----------------------------------------------------------------------------
(* The process ends, by a crash or its cancellation token: the id is never used again. *)
Crash(w) ==
    /\ worker[w].phase # "gone"
    /\ Fault
    /\ worker' = [worker EXCEPT ![w] = At("gone")]
    /\ UNCHANGED <<catalogVars, surfaceVars, jobs, outboxVars, saves>>

(* Nobody is at work under the lease of j any more: it will expire. *)
Abandoned(j) == \A w \in Workers : Works(w) /\ worker[w].job = j => ~Holds(w)

(* A job whose time has come: pending, failed thirty seconds ago, or leased and expired. *)
Lease(w, j) ==
    /\ worker[w].phase = "reconcile"
    /\ Unfinished(j)
    /\ IF jobs[j].status = "leased" /\ ~Abandoned(j) THEN Fault ELSE UNCHANGED faults
    /\ jobs' = [jobs EXCEPT ![j] = [status |-> "leased", holder |-> w]]
    /\ worker' = [worker EXCEPT ![w] = [At("process") EXCEPT !.job = j]]
    /\ UNCHANGED <<catalogVars, surfaceVars, outboxVars, saves>>

(* No job is due, a failed or a leased one may still be waiting; or the lease is not to be had. *)
NothingDue(w) ==
    /\ worker[w].phase = "reconcile"
    /\ IF \E j \in DOMAIN jobs : jobs[j].status = "pending" THEN Fault ELSE UNCHANGED faults
    /\ worker' = [worker EXCEPT ![w] = At("dispatch")]
    /\ UNCHANGED <<catalogVars, surfaceVars, jobs, outboxVars, saves>>

UpToDate(j) ==
    /\ binding[j.consumer] = j.generation
    /\ \A s \in Servers : j.target[s] \in {0, revision[s]}

SuccessorInPlace(j) == [j EXCEPT !.generation = binding[j.consumer]]    \* bug: the old revisions are kept
Successor(j) == NewJob(j.consumer, j.server, j.revision, revision, binding[j.consumer])

SucceedAndDelete(rows, j) == [k \in DOMAIN rows \ {j} |-> rows[k]]    \* bug: the finished row is deleted
Succeed(rows, j) == [rows EXCEPT ![j] = [status |-> "succeeded", holder |-> None]]

SupersedeSilently(w) ==    \* bug: the job is finished without a successor
    LET j == worker[w].job
    IN  /\ worker[w].phase = "process" /\ Holds(w)
        /\ Bound(j.consumer) /\ ~UpToDate(j)
        /\ jobs' = Succeed(jobs, j)
        /\ worker' = [worker EXCEPT ![w] = At("dispatch")]
        /\ UNCHANGED <<catalogVars, surfaceVars, outboxVars, saves, faults>>
(* The job was made for other revisions or another generation: a successor takes over. *)
Supersede(w) ==
    LET j == worker[w].job
    IN  /\ worker[w].phase = "process" /\ Holds(w)
        /\ Bound(j.consumer) /\ ~UpToDate(j)
        /\ jobs' = Succeed(Enqueue(jobs, {Successor(j)}), j)
        /\ worker' = [worker EXCEPT ![w] = At("dispatch")]
        /\ UNCHANGED <<catalogVars, surfaceVars, outboxVars, saves, faults>>

Materialize(w) ==
    LET j == worker[w].job
    IN  /\ worker[w].phase = "process" /\ Holds(w)
        /\ Bound(j.consumer) /\ UpToDate(j)
        /\ Compile({j.consumer})
        /\ jobs' = Succeed(jobs, j)
        /\ worker' = [worker EXCEPT ![w] = At("dispatch")]
        /\ UNCHANGED <<catalogVars, relies, saves, faults>>

(* The transaction is rolled back: the lease was lost, the consumer has no binding, or an error. *)
Refuse(w) ==
    /\ worker[w].phase = "process"
    /\ IF Holds(w) /\ Bound(worker[w].job.consumer) THEN Fault ELSE UNCHANGED faults
    /\ worker' = [worker EXCEPT ![w].phase = "refused"]
    /\ UNCHANGED <<catalogVars, surfaceVars, jobs, outboxVars, saves>>

(* The failure is recorded in a statement of its own, if the lease is still this worker's; when *)
(* that fails too, the lease is left to expire. *)
RecordFailure(w) ==
    /\ worker[w].phase = "refused"
    /\ \/ /\ Holds(w)
          /\ jobs' = [jobs EXCEPT ![worker[w].job] = [status |-> "failed", holder |-> None]]
          /\ UNCHANGED faults
       \/ /\ IF Holds(w) THEN Fault ELSE UNCHANGED faults
          /\ UNCHANGED jobs
    /\ worker' = [worker EXCEPT ![w] = At("dispatch")]
    /\ UNCHANGED <<catalogVars, surfaceVars, outboxVars, saves>>

-----------------------------------------------------------------------------
(* What is left of a batch is delivered next; an empty one ends the round. *)
WithBatch(B) == IF B = {} THEN At("reconcile") ELSE [At("deliver") EXCEPT !.batch = B]

LoadOutbox(w) ==
    /\ worker[w].phase = "dispatch"
    /\ worker' = [worker EXCEPT ![w] = WithBatch(outbox \ marked)]
    /\ UNCHANGED <<catalogVars, surfaceVars, jobs, outboxVars, saves, faults>>

(* A revocation comes after the publication of the generation it ends. *)
Earlier(e, f) ==
    /\ e.consumer = f.consumer
    /\ \/ e.generation < f.generation
       \/ e.generation = f.generation /\ e.kind = "published" /\ f.kind = "revoked"

(* The events are taken in the order of their creation. *)
Deliver(w) ==
    /\ worker[w].phase = "deliver"
    /\ \E e \in worker[w].batch :
          /\ \A f \in worker[w].batch : ~Earlier(f, e)
          /\ announced' = announced \cup {e}
          /\ worker' = [worker EXCEPT ![w].phase = "mark", ![w].event = e]
    /\ UNCHANGED <<catalogVars, surfaceVars, jobs, outbox, marked, saves, faults>>

MarkBatch(w) ==    \* bug: the whole batch is marked after its first delivery
    /\ worker[w].phase = "mark"
    /\ marked' = marked \cup worker[w].batch
    /\ worker' = [worker EXCEPT ![w] = WithBatch(worker[w].batch \ {worker[w].event})]
    /\ UNCHANGED <<catalogVars, surfaceVars, jobs, outbox, announced, saves, faults>>
(* Another worker may have marked the event: that is an error, which ends the round. *)
Mark(w) ==
    LET e == worker[w].event
    IN  /\ worker[w].phase = "mark"
        /\ marked' = marked \cup {e}
        /\ worker' = [worker EXCEPT ![w] =
                         IF e \in marked THEN At("reconcile") ELSE WithBatch(worker[w].batch \ {e})]
        /\ UNCHANGED <<catalogVars, surfaceVars, jobs, outbox, announced, saves, faults>>

(* An error while loading, delivering or marking, the proxy not being there among them, ends the *)
(* round. *)
DispatchFails(w) ==
    /\ worker[w].phase \in {"dispatch", "deliver", "mark"}
    /\ Fault
    /\ worker' = [worker EXCEPT ![w] = At("reconcile")]
    /\ UNCHANGED <<catalogVars, surfaceVars, jobs, outboxVars, saves>>

-----------------------------------------------------------------------------
Environment ==
    \/ \E s \in Servers : Bump(s) \/ Change(s)
    \/ \E c \in Consumers : Rollback(c) \/ Revoke(c)
    \/ \E C \in SUBSET Consumers \ {{}} : Save(C)
    \/ \E w \in Workers : Crash(w) \/ DispatchFails(w)

LeaseFor(c) == \E w \in Workers : \E j \in DOMAIN jobs : j.consumer = c /\ Lease(w, j)

WorkerStep(w) ==
    \/ \E j \in DOMAIN jobs : Lease(w, j)
    \/ NothingDue(w)
    \/ Supersede(w)
    \/ Materialize(w)
    \/ Refuse(w)
    \/ RecordFailure(w)
    \/ LoadOutbox(w)
    \/ Deliver(w)
    \/ Mark(w)

Next == Environment \/ \E w \in Workers : WorkerStep(w)

Spec == Init /\ [][Next]_vars

(* The loop runs on while its process does, and the jobs are leased by the time they came due: *)
(* one that is due again and again is leased again. *)
Fairness ==
    /\ \A w \in Workers : WF_vars(WorkerStep(w))
    /\ \A c \in Consumers : SF_vars(LeaseFor(c))

FairSpec == Spec /\ Fairness

-----------------------------------------------------------------------------
RevisionOf == [Servers -> Nat]

WorkerRecord == [phase : Phases, job : Job \cup {None}, batch : SUBSET Event, event : Event \cup {None}]

(* Every variable has the shape the tables give it, and a worker that processes has a job. *)
TypeOK ==
    /\ revision \in RevisionOf /\ touched \in RevisionOf
    /\ relies \in [Consumers -> SUBSET Servers]
    /\ leftover \in [Consumers -> SUBSET Servers]
    /\ binding \in [Consumers -> Nat] /\ lastGeneration \in [Consumers -> Nat]
    /\ seen \in [Consumers -> RevisionOf]
    /\ DOMAIN jobs \subseteq Job /\ jobs \in [DOMAIN jobs -> Row]
    /\ outbox \subseteq Event /\ marked \subseteq outbox /\ announced \subseteq outbox
    /\ worker \in [Workers -> WorkerRecord]
    /\ \A w \in Workers : Works(w) => worker[w].job \in DOMAIN jobs
    /\ saves \in 0 .. MaxSaves /\ faults \in 0 .. MaxFaults

(* The catalog changed since c was last compiled. *)
Behind(c) == Bound(c) /\ \E s \in relies[c] : seen[c][s] < touched[s]

(* Nothing gets lost between the catalog and the surfaces: a bound consumer whose servers changed *)
(* since its last compilation has an unfinished job, through supersedes, ignored inserts, lost    *)
(* leases, crashes, saves and rollbacks (reconciliation.rs enqueues in the catalog's transaction). *)
NoLostChange == \A c \in Consumers : Behind(c) => \E j \in DOMAIN jobs : j.consumer = c /\ Unfinished(j)

(* A late worker disturbs nothing: a row under a lease changes only by a step of its holder or by *)
(* a new lease, a row that succeeded never changes again, and no row is ever gone. *)
LeaseRespected ==
    \A j \in DOMAIN jobs :
        /\ j \in DOMAIN jobs'
        /\ ~Unfinished(j) => jobs'[j] = jobs[j]
        /\ jobs[j].status = "leased" /\ jobs'[j] # jobs[j] =>
              jobs'[j].status = "leased" \/ worker'[jobs[j].holder] # worker[jobs[j].holder]

LeaseIsRespected == [][LeaseRespected]_vars

(* The consumers hear of their publications in order and miss none: whatever was announced, every *)
(* earlier event of the consumer was too, through overlapping batches of two workers and crashes  *)
(* between a delivery and its mark. *)
AnnouncedInOrder == \A f \in announced, e \in outbox : Earlier(e, f) => e \in announced

-----------------------------------------------------------------------------
(* What the machinery of jobs, leases, workers and outbox promises to the consumers. *)
Promise == INSTANCE SurfaceConvergence WITH generation <- binding, events <- outbox

(* The detailed module implements the abstract one, liveness included: a consumer that is behind  *)
(* is compiled again or loses its binding, and every publication is announced. *)
ImplementsPromise == Promise!Spec
=============================================================================
