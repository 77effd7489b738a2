-------------------- MODULE SurfaceReconciliationProofs --------------------
(***************************************************************************)
(* Theorems about SurfaceReconciliation, for every set of consumers,       *)
(* servers and workers and every bound: no change of the catalog is lost,  *)
(* leases are respected, announcements keep their order, and every step is *)
(* one of SurfaceConvergence.                                              *)
(***************************************************************************)
EXTENDS SurfaceReconciliation, TLAPS

-----------------------------------------------------------------------------
(* Revisions and generations only grow, so what a row was made for is never ahead of them. *)
NumbersGrow ==
    /\ \A s \in Servers : 1 <= revision[s] /\ touched[s] <= revision[s]
    /\ \A c \in Consumers : binding[c] \in {0, lastGeneration[c]}
    /\ \A e \in outbox : e.generation <= lastGeneration[e.consumer]
    /\ \A j \in DOMAIN jobs :
          /\ j.revision <= revision[j.server]
          /\ 1 <= j.generation /\ j.generation <= lastGeneration[j.consumer]
          /\ \A s \in Servers : j.target[s] <= revision[s]

(* A job that succeeded and could be a successor's key again was done by a compilation that read *)
(* everything the key names: ignoring the insert of such a successor loses nothing. *)
DoneIsCovered ==
    \A j \in DOMAIN jobs :
        ~Unfinished(j) /\ UpToDate(j) =>
            \A s \in Servers : j.target[s] = revision[s] => touched[s] <= seen[j.consumer][s]

(* What a worker has yet to deliver has nothing unannounced before it, and it marks only what it *)
(* delivered. *)
BatchInOrder ==
    /\ marked \subseteq announced
    /\ \A w \in Workers :
          /\ worker[w].batch \subseteq outbox
          /\ \A e \in outbox, f \in worker[w].batch :
                Earlier(e, f) => e \in worker[w].batch \cup announced
          /\ worker[w].phase = "mark" => worker[w].event \in announced

-----------------------------------------------------------------------------
(* Helper lemmas about the records and functions the module is built from. *)

LEMMA AtType ==
    ASSUME NEW phase \in Phases
    PROVE  At(phase) \in WorkerRecord
  BY Zenon DEF At, WorkerRecord

LEMMA ProcessType ==
    ASSUME NEW j \in Job
    PROVE  [At("process") EXCEPT !.job = j] \in WorkerRecord
  BY DEF At, WorkerRecord, Phases

LEMMA WithBatchType ==
    ASSUME NEW B \in SUBSET Event
    PROVE  /\ WithBatch(B) \in WorkerRecord
           /\ WithBatch(B).batch = B
           /\ WithBatch(B).phase \in {"reconcile", "deliver"}
<1>1. CASE B = {}
  BY <1>1, AtType DEF WithBatch, At, Phases
<1>2. CASE B # {}
  BY <1>2 DEF WithBatch, At, WorkerRecord, Phases
<1>3. QED
  BY <1>1, <1>2

LEMMA NewJobType ==
    ASSUME TypeOK, NEW c \in Consumers, NEW s \in Servers, NEW r \in Nat,
           NEW rev \in RevisionOf, NEW g \in Nat
    PROVE  /\ NewJob(c, s, r, rev, g) \in Job
           /\ NewJob(c, s, r, rev, g).server = s
           /\ NewJob(c, s, r, rev, g).revision = r
           /\ NewJob(c, s, r, rev, g).consumer = c
           /\ NewJob(c, s, r, rev, g).generation = g
           /\ \A t \in Servers :
                 /\ NewJob(c, s, r, rev, g).target[t] \in {0, rev[t]}
                 /\ t \in relies[c] => NewJob(c, s, r, rev, g).target[t] = rev[t]
<1> DEFINE d == Derive(c, s, rev)
<1>1. d \in [Servers -> Nat]
  BY DEF Derive, RevisionOf
<1>2. \A t \in Servers : d[t] \in {0, rev[t]} /\ (t \in relies[c] => d[t] = rev[t])
  BY DEF Derive
<1>3. NewJob(c, s, r, rev, g) = [server |-> s, revision |-> r, consumer |-> c, target |-> d, generation |-> g]
  BY DEF NewJob
<1> HIDE DEF d
<1>4. QED
  BY <1>1, <1>2, <1>3 DEF Job

LEMMA PendingType == Pending \in Row /\ Pending.status = "pending"
  BY DEF Pending, Row

LEMMA EnqueueType ==
    ASSUME TypeOK, NEW new \in SUBSET Job
    PROVE  /\ DOMAIN Enqueue(jobs, new) = DOMAIN jobs \cup new
           /\ DOMAIN Enqueue(jobs, new) \subseteq Job
           /\ Enqueue(jobs, new) \in [DOMAIN Enqueue(jobs, new) -> Row]
           /\ \A j \in DOMAIN jobs : Enqueue(jobs, new)[j] = jobs[j]
           /\ \A j \in new \ DOMAIN jobs : Enqueue(jobs, new)[j] = Pending
  BY PendingType DEF Enqueue, TypeOK

LEMMA PublishedType ==
    ASSUME NEW c \in Consumers, NEW g \in Nat
    PROVE  /\ Published(c, g) \in Event
           /\ Published(c, g).consumer = c
           /\ Published(c, g).generation = g
           /\ Published(c, g).kind = "published"
  BY DEF Published, Event

(* A publication gives out the next generation of each consumer, and events for just those. *)
LEMMA PublishType ==
    ASSUME TypeOK, NEW C \in SUBSET Consumers, Publish(C)
    PROVE  /\ lastGeneration' \in [Consumers -> Nat]
           /\ binding' \in [Consumers -> Nat]
           /\ \A c \in Consumers :
                 IF c \in C THEN lastGeneration'[c] = lastGeneration[c] + 1 /\ binding'[c] = lastGeneration[c] + 1
                            ELSE lastGeneration'[c] = lastGeneration[c] /\ binding'[c] = binding[c]
           /\ outbox' \subseteq Event /\ outbox \subseteq outbox'
           /\ \A e \in outbox' \ outbox : e.consumer \in C /\ e.generation = lastGeneration'[e.consumer]
                                          /\ e.kind = "published"
           /\ \A e \in outbox', f \in outbox' : e \notin outbox /\ f \notin outbox => ~Earlier(e, f)
           /\ marked' = marked /\ announced' = announced
<1>1. lastGeneration' \in [Consumers -> Nat] /\ \A c \in Consumers :
         lastGeneration'[c] = IF c \in C THEN lastGeneration[c] + 1 ELSE lastGeneration[c]
  BY DEF Publish, TypeOK
<1>2. binding' \in [Consumers -> Nat] /\ \A c \in Consumers :
         binding'[c] = IF c \in C THEN lastGeneration'[c] ELSE binding[c]
  BY <1>1 DEF Publish, TypeOK
<1>3. \A e \in outbox' \ outbox : \E c \in C : e = Published(c, lastGeneration'[c])
  BY DEF Publish
<1>4. ASSUME NEW e \in outbox' \ outbox
      PROVE  /\ e \in Event /\ e.consumer \in C
             /\ e.generation = lastGeneration'[e.consumer] /\ e.kind = "published"
  <2>1. PICK c \in C : e = Published(c, lastGeneration'[c])
    BY <1>3
  <2>2. QED
    BY <2>1, <1>1, PublishedType
<1>5. outbox' \subseteq Event /\ outbox \subseteq outbox'
  BY <1>4 DEF Publish, TypeOK
<1>6. \A e \in outbox', f \in outbox' : e \notin outbox /\ f \notin outbox => ~Earlier(e, f)
  <2> SUFFICES ASSUME NEW e \in outbox' \ outbox, NEW f \in outbox' \ outbox, Earlier(e, f)
               PROVE  FALSE
    OBVIOUS
  <2>1. e.consumer = f.consumer
    BY DEF Earlier
  <2>2. e.generation = f.generation /\ f.kind = "published" /\ e.generation \in Nat
    BY <1>4, <1>1, <2>1
  <2>3. QED
    BY <2>2 DEF Earlier
<1>7. QED
  BY <1>1, <1>2, <1>4, <1>5, <1>6 DEF Publish, outboxVars

LEMMA CompileType ==
    ASSUME TypeOK, NEW C \in SUBSET Consumers, Compile(C)
    PROVE  /\ seen' \in [Consumers -> RevisionOf]
           /\ \A c \in Consumers : seen'[c] = IF c \in C THEN revision ELSE seen[c]
           /\ leftover' \in [Consumers -> SUBSET Servers]
           /\ \E P \in SUBSET Consumers : P \subseteq C /\ Publish(P)
  BY DEF Compile, TypeOK

-----------------------------------------------------------------------------
(* Type correctness, split by the tables an action can write. *)

SurfaceTypes ==
    /\ relies \in [Consumers -> SUBSET Servers]
    /\ leftover \in [Consumers -> SUBSET Servers]
    /\ binding \in [Consumers -> Nat] /\ lastGeneration \in [Consumers -> Nat]
    /\ seen \in [Consumers -> RevisionOf]

OutboxTypes == outbox \subseteq Event /\ marked \subseteq outbox /\ announced \subseteq outbox

JobTypes == DOMAIN jobs \subseteq Job /\ jobs \in [DOMAIN jobs -> Row]

WorkerTypes ==
    /\ worker \in [Workers -> WorkerRecord]
    /\ \A w \in Workers : Works(w) => worker[w].job \in DOMAIN jobs

CounterTypes == saves \in 0 .. MaxSaves /\ faults \in 0 .. MaxFaults

CatalogTypes == revision \in RevisionOf /\ touched \in RevisionOf

LEMMA TypeSplit ==
    TypeOK <=> CatalogTypes /\ SurfaceTypes /\ JobTypes /\ OutboxTypes /\ WorkerTypes /\ CounterTypes
  BY DEF TypeOK, CatalogTypes, SurfaceTypes, JobTypes, OutboxTypes, WorkerTypes, CounterTypes

LEMMA CounterStep ==
    ASSUME TypeOK
    PROVE  /\ Fault => faults' \in 0 .. MaxFaults
           /\ \A kind : Manage(kind) => saves' \in 0 .. MaxSaves
  BY BoundsAssumption DEF TypeOK, Fault, Manage

(* A worker that moves to another record keeps every other worker's job in the table. *)
LEMMA WorkerStepType ==
    ASSUME TypeOK, NEW w \in Workers, NEW r \in WorkerRecord,
           worker' = [worker EXCEPT ![w] = r],
           r.phase \in {"process", "refused"} => r.job \in DOMAIN jobs',
           DOMAIN jobs \subseteq DOMAIN jobs'
    PROVE  WorkerTypes'
  BY DEF TypeOK, WorkerTypes, Works

LEMMA WorkersStay ==
    ASSUME TypeOK, worker' = worker, DOMAIN jobs \subseteq DOMAIN jobs'
    PROVE  WorkerTypes'
  BY DEF TypeOK, WorkerTypes, Works

LEMMA JobsStay == ASSUME TypeOK, jobs' = jobs PROVE JobTypes'
  BY DEF TypeOK, JobTypes

LEMMA SurfacesStay == ASSUME TypeOK, UNCHANGED surfaceVars PROVE SurfaceTypes'
  BY DEF TypeOK, SurfaceTypes, surfaceVars

LEMMA OutboxStays == ASSUME TypeOK, UNCHANGED outboxVars PROVE OutboxTypes'
  BY DEF TypeOK, OutboxTypes, outboxVars

LEMMA CatalogStays == ASSUME TypeOK, UNCHANGED catalogVars PROVE CatalogTypes'
  BY DEF TypeOK, CatalogTypes, catalogVars

LEMMA OutboxGrows ==
    ASSUME TypeOK, outbox' \subseteq Event, outbox \subseteq outbox', marked' = marked, announced' = announced
    PROVE  OutboxTypes'
  BY DEF TypeOK, OutboxTypes

LEMMA JobsUpdated ==
    ASSUME TypeOK, NEW j \in DOMAIN jobs, NEW r \in Row, jobs' = [jobs EXCEPT ![j] = r]
    PROVE  JobTypes' /\ DOMAIN jobs' = DOMAIN jobs
  BY DEF TypeOK, JobTypes

LEMMA JobsGrow ==
    ASSUME TypeOK, NEW new \in SUBSET Job, jobs' = Enqueue(jobs, new)
    PROVE  JobTypes' /\ DOMAIN jobs' = DOMAIN jobs \cup new
  BY EnqueueType DEF JobTypes

LEMMA RowTypes ==
    ASSUME NEW h \in Workers
    PROVE  /\ [status |-> "leased", holder |-> h] \in Row
           /\ [status |-> "failed", holder |-> None] \in Row
           /\ [status |-> "succeeded", holder |-> None] \in Row
  BY DEF Row

(* The successor of a job is a job, for the same consumer, made for the present. *)
LEMMA SuccessorType ==
    ASSUME TypeOK, NEW j \in Job
    PROVE  /\ Successor(j) \in Job
           /\ Successor(j).server = j.server
           /\ Successor(j).revision = j.revision
           /\ Successor(j).consumer = j.consumer
           /\ Successor(j).generation = binding[j.consumer]
           /\ \A t \in Servers :
                 /\ Successor(j).target[t] \in {0, revision[t]}
                 /\ t \in relies[j.consumer] => Successor(j).target[t] = revision[t]
<1>1. /\ j.consumer \in Consumers /\ j.server \in Servers /\ j.revision \in Nat
      /\ revision \in RevisionOf /\ binding[j.consumer] \in Nat
  BY DEF Job, TypeOK
<1>2. QED
  BY <1>1, NewJobType DEF Successor

(* A superseded job is done and its successor is in the table, whatever it was before. *)
LEMMA SupersedeJobs ==
    ASSUME TypeOK, NEW j \in DOMAIN jobs, jobs' = Succeed(Enqueue(jobs, {Successor(j)}), j)
    PROVE  /\ JobTypes' /\ DOMAIN jobs' = DOMAIN jobs \cup {Successor(j)}
           /\ jobs'[j].status = "succeeded"
           /\ \A k \in DOMAIN jobs \ {j} : jobs'[k] = jobs[k]
           /\ Successor(j) \notin DOMAIN jobs => jobs'[Successor(j)] = Pending
<1> DEFINE rows == Enqueue(jobs, {Successor(j)})
<1>1. j \in Job
  BY DEF TypeOK
<1>2. {Successor(j)} \in SUBSET Job
  BY <1>1, SuccessorType
<1>3. /\ DOMAIN rows = DOMAIN jobs \cup {Successor(j)} /\ DOMAIN rows \subseteq Job
      /\ rows \in [DOMAIN rows -> Row]
      /\ \A k \in DOMAIN jobs : rows[k] = jobs[k]
      /\ Successor(j) \notin DOMAIN jobs => rows[Successor(j)] = Pending
  BY <1>2, EnqueueType
<1>4. jobs' = [rows EXCEPT ![j] = [status |-> "succeeded", holder |-> None]]
  BY DEF Succeed
<1>5. [status |-> "succeeded", holder |-> None] \in Row
  BY DEF Row
<1> HIDE DEF rows
<1>6. QED
  BY <1>3, <1>4, <1>5 DEF JobTypes

(* The consumers a change of s concerns once the surfaces in cut are contracted. *)
Affected(cut, s) == cut \cup {c \in Consumers : Bound(c) /\ s \in relies[c]}

ChangeJobs(cut, s) == {NewJob(c, s, revision[s] + 1, revision', binding'[c]) : c \in Affected(cut, s)}

(* What a change does, with the consumers it cuts named. *)
LEMMA ChangeUnfolds ==
    ASSUME TypeOK, NEW s \in Servers, Change(s)
    PROVE  /\ revision' \in RevisionOf /\ touched' \in RevisionOf
           /\ revision' = [revision EXCEPT ![s] = revision[s] + 1]
           /\ touched' = [touched EXCEPT ![s] = revision[s] + 1]
           /\ relies' = relies /\ seen' = seen /\ worker' = worker /\ saves' = saves /\ faults' = faults
           /\ leftover' \in [Consumers -> SUBSET Servers]
           /\ \E cut \in SUBSET Consumers :
                 /\ \A c \in cut : Bound(c)
                 /\ Publish(cut)
                 /\ ChangeJobs(cut, s) \in SUBSET Job
                 /\ jobs' = Enqueue(jobs, ChangeJobs(cut, s))
<1>1. /\ revision' = [revision EXCEPT ![s] = revision[s] + 1]
      /\ touched' = [touched EXCEPT ![s] = revision[s] + 1]
      /\ relies' = relies /\ seen' = seen /\ worker' = worker /\ saves' = saves /\ faults' = faults
  BY DEF Change
<1>2. revision' \in RevisionOf /\ touched' \in RevisionOf
  BY <1>1 DEF TypeOK, RevisionOf
<1>3. PICK cut \in SUBSET {c \in Consumers : Bound(c) /\ s \in relies[c] \cup leftover[c]} :
         /\ Publish(cut)
         /\ leftover' \in [Consumers -> SUBSET Servers]
         /\ jobs' = Enqueue(jobs, ChangeJobs(cut, s))
  BY Zenon DEF Change, ChangeJobs, Affected
<1>4. cut \in SUBSET Consumers /\ \A c \in cut : Bound(c)
  BY <1>3
<1>5. binding' \in [Consumers -> Nat]
  BY <1>3, <1>4, PublishType
<1>6. ASSUME NEW c \in Affected(cut, s)
      PROVE  NewJob(c, s, revision[s] + 1, revision', binding'[c]) \in Job
  <2>1. c \in Consumers /\ revision[s] + 1 \in Nat /\ binding'[c] \in Nat
    BY <1>4, <1>5 DEF Affected, TypeOK, RevisionOf
  <2>2. QED
    BY <1>2, <2>1, NewJobType
<1>7. ChangeJobs(cut, s) \in SUBSET Job
  BY <1>6 DEF ChangeJobs
<1>8. QED
  BY <1>1, <1>2, <1>3, <1>4, <1>7

LEMMA WorkerTypeFacts ==
    ASSUME TypeOK, NEW w \in Workers
    PROVE  /\ worker[w] \in WorkerRecord
           /\ worker[w].phase \in Phases
           /\ worker[w].batch \in SUBSET Event
           /\ Works(w) => worker[w].job \in DOMAIN jobs /\ worker[w].job \in Job
  BY DEF TypeOK, WorkerRecord

LEMMA RefusedType ==
    ASSUME NEW r \in WorkerRecord
    PROVE  /\ [r EXCEPT !.phase = "refused"] \in WorkerRecord
           /\ [r EXCEPT !.phase = "refused"].job = r.job
  BY DEF WorkerRecord, Phases

LEMMA MarkingType ==
    ASSUME NEW r \in WorkerRecord, NEW e \in Event
    PROVE  /\ [r EXCEPT !.phase = "mark", !.event = e] \in WorkerRecord
           /\ [r EXCEPT !.phase = "mark", !.event = e].batch = r.batch
           /\ [r EXCEPT !.phase = "mark", !.event = e].event = e
           /\ [r EXCEPT !.phase = "mark", !.event = e].phase = "mark"
  BY DEF WorkerRecord, Phases

LEMMA TypeInit == Init => TypeOK
<1> SUFFICES ASSUME Init PROVE TypeOK
  OBVIOUS
<1>1. CatalogTypes /\ SurfaceTypes /\ OutboxTypes
  BY DEF Init, CatalogTypes, SurfaceTypes, OutboxTypes, RevisionOf
<1>2. JobTypes /\ CounterTypes
  BY BoundsAssumption DEF Init, JobTypes, CounterTypes
<1>3. At("reconcile") \in WorkerRecord /\ At("reconcile").phase = "reconcile"
  BY AtType DEF At, Phases
<1>4. WorkerTypes
  BY <1>3 DEF Init, WorkerTypes, Works
<1>5. QED
  BY <1>1, <1>2, <1>4, TypeSplit

LEMMA TypeEnvironment ==
    ASSUME TypeOK,
           \/ \E s \in Servers : Bump(s) \/ Change(s)
           \/ \E c \in Consumers : Rollback(c) \/ Revoke(c)
           \/ \E C \in SUBSET Consumers : Save(C)
    PROVE  TypeOK'
<1> SUFFICES CatalogTypes' /\ SurfaceTypes' /\ JobTypes' /\ OutboxTypes' /\ WorkerTypes' /\ CounterTypes'
  BY TypeSplit, PTL
<1>1. ASSUME NEW s \in Servers, Bump(s)
      PROVE  CatalogTypes' /\ SurfaceTypes' /\ JobTypes' /\ OutboxTypes' /\ WorkerTypes' /\ CounterTypes'
  <2>1. CatalogTypes'
    BY <1>1 DEF Bump, TypeOK, CatalogTypes, RevisionOf
  <2>2. UNCHANGED <<surfaceVars, jobs, outboxVars, worker, saves, faults>>
    BY <1>1 DEF Bump
  <2>3. QED
    BY <2>1, <2>2, SurfacesStay, JobsStay, OutboxStays, WorkersStay DEF TypeOK, CounterTypes
<1>2. ASSUME NEW s \in Servers, Change(s)
      PROVE  CatalogTypes' /\ SurfaceTypes' /\ JobTypes' /\ OutboxTypes' /\ WorkerTypes' /\ CounterTypes'
  <2>1. PICK cut \in SUBSET Consumers :
           /\ Publish(cut) /\ ChangeJobs(cut, s) \in SUBSET Job
           /\ jobs' = Enqueue(jobs, ChangeJobs(cut, s))
    BY <1>2, ChangeUnfolds
  <2>2. OutboxTypes' /\ binding' \in [Consumers -> Nat] /\ lastGeneration' \in [Consumers -> Nat]
    BY <2>1, PublishType, OutboxGrows
  <2>3. JobTypes' /\ DOMAIN jobs \subseteq DOMAIN jobs'
    BY <2>1, JobsGrow
  <2>4. CatalogTypes' /\ SurfaceTypes' /\ CounterTypes' /\ worker' = worker
    BY <1>2, <2>2, ChangeUnfolds DEF TypeOK, CatalogTypes, SurfaceTypes, CounterTypes
  <2>5. QED
    BY <2>2, <2>3, <2>4, WorkersStay
<1>3. ASSUME NEW C \in SUBSET Consumers, Save(C)
      PROVE  CatalogTypes' /\ SurfaceTypes' /\ JobTypes' /\ OutboxTypes' /\ WorkerTypes' /\ CounterTypes'
  <2>1. Compile(C) /\ relies' \in [Consumers -> SUBSET Servers] /\ Manage("save")
        /\ UNCHANGED <<catalogVars, jobs, worker, faults>>
    BY <1>3 DEF Save, TypeOK
  <2>2. PICK P \in SUBSET Consumers : Publish(P)
    BY <2>1, CompileType
  <2>3. OutboxTypes' /\ SurfaceTypes'
    BY <2>1, <2>2, CompileType, PublishType, OutboxGrows DEF SurfaceTypes
  <2>4. CounterTypes'
    BY <2>1, CounterStep DEF TypeOK, CounterTypes
  <2>5. QED
    BY <2>1, <2>3, <2>4, JobsStay, WorkersStay, CatalogStays
<1>4. ASSUME NEW c \in Consumers, Rollback(c)
      PROVE  CatalogTypes' /\ SurfaceTypes' /\ JobTypes' /\ OutboxTypes' /\ WorkerTypes' /\ CounterTypes'
  <2>1. Publish({c}) /\ leftover' \in [Consumers -> SUBSET Servers] /\ Manage("rollback")
        /\ UNCHANGED <<catalogVars, relies, seen, jobs, worker, faults>>
    BY <1>4 DEF Rollback, TypeOK
  <2>2. OutboxTypes' /\ SurfaceTypes'
    BY <2>1, PublishType, OutboxGrows DEF SurfaceTypes, TypeOK
  <2>3. CounterTypes'
    BY <2>1, CounterStep DEF TypeOK, CounterTypes
  <2>4. QED
    BY <2>1, <2>2, <2>3, JobsStay, WorkersStay, CatalogStays
<1>5. ASSUME NEW c \in Consumers, Revoke(c)
      PROVE  CatalogTypes' /\ SurfaceTypes' /\ JobTypes' /\ OutboxTypes' /\ WorkerTypes' /\ CounterTypes'
  <2>1. UNCHANGED <<catalogVars, jobs, worker, marked, announced, faults>> /\ Manage("revoke")
    BY <1>5 DEF Revoke
  <2>2. SurfaceTypes'
    BY <1>5 DEF Revoke, TypeOK, SurfaceTypes
  <2>3. [consumer |-> c, generation |-> binding[c], kind |-> "revoked"] \in Event
    BY DEF Event, TypeOK
  <2>4. OutboxTypes'
    BY <1>5, <2>1, <2>3, OutboxGrows DEF Revoke, TypeOK
  <2>5. CounterTypes'
    BY <2>1, CounterStep DEF TypeOK, CounterTypes
  <2>6. QED
    BY <2>1, <2>2, <2>4, <2>5, JobsStay, WorkersStay, CatalogStays
<1>6. QED
  BY <1>1, <1>2, <1>3, <1>4, <1>5

LEMMA TypeReconcile ==
    ASSUME TypeOK, NEW w \in Workers,
           \/ Crash(w) \/ NothingDue(w) \/ Refuse(w) \/ RecordFailure(w)
           \/ \E j \in DOMAIN jobs : Lease(w, j)
    PROVE  TypeOK'
<1> SUFFICES CatalogTypes' /\ SurfaceTypes' /\ JobTypes' /\ OutboxTypes' /\ WorkerTypes' /\ CounterTypes'
  BY TypeSplit, PTL
<1>1. UNCHANGED catalogVars /\ UNCHANGED surfaceVars /\ UNCHANGED outboxVars /\ saves' = saves
  BY DEF Crash, NothingDue, Refuse, RecordFailure, Lease
<1>2. CatalogTypes' /\ SurfaceTypes' /\ OutboxTypes'
  BY <1>1, CatalogStays, SurfacesStay, OutboxStays
<1>3. faults' = faults \/ Fault
  BY DEF Crash, NothingDue, Refuse, RecordFailure, Lease
<1>4. CounterTypes'
  BY <1>1, <1>3, CounterStep DEF TypeOK, CounterTypes
<1>5. \A phase \in {"gone", "dispatch"} : At(phase) \in WorkerRecord /\ At(phase).phase = phase
  BY AtType DEF At, Phases
<1>6. CASE Crash(w)
  <2>1. jobs' = jobs /\ worker' = [worker EXCEPT ![w] = At("gone")]
    BY <1>6 DEF Crash
  <2>2. QED
    BY <2>1, <1>2, <1>4, <1>5, JobsStay, WorkerStepType
<1>7. CASE NothingDue(w)
  <2>1. jobs' = jobs /\ worker' = [worker EXCEPT ![w] = At("dispatch")]
    BY <1>7 DEF NothingDue
  <2>2. QED
    BY <2>1, <1>2, <1>4, <1>5, JobsStay, WorkerStepType
<1>8. CASE Refuse(w)
  <2> DEFINE r == [worker[w] EXCEPT !.phase = "refused"]
  <2>1. jobs' = jobs /\ worker' = [worker EXCEPT ![w] = r]
    BY <1>8 DEF Refuse
  <2>2. r \in WorkerRecord /\ r.job = worker[w].job /\ worker[w].job \in DOMAIN jobs
    BY <1>8, RefusedType, WorkerTypeFacts DEF Refuse, Works
  <2> HIDE DEF r
  <2>3. QED
    BY <2>1, <2>2, <1>2, <1>4, JobsStay, WorkerStepType
<1>9. CASE RecordFailure(w)
  <2>1. worker' = [worker EXCEPT ![w] = At("dispatch")] /\ worker[w].job \in DOMAIN jobs
    BY <1>9, WorkerTypeFacts DEF RecordFailure, Works
  <2>2. jobs' = jobs \/ jobs' = [jobs EXCEPT ![worker[w].job] = [status |-> "failed", holder |-> None]]
    BY <1>9 DEF RecordFailure
  <2>3. JobTypes' /\ DOMAIN jobs' = DOMAIN jobs
    BY <2>1, <2>2, JobsStay, JobsUpdated, RowTypes
  <2>4. QED
    BY <2>1, <2>3, <1>2, <1>4, <1>5, WorkerStepType
<1>10. CASE \E j \in DOMAIN jobs : Lease(w, j)
  <2>1. PICK j \in DOMAIN jobs : Lease(w, j)
    BY <1>10
  <2> DEFINE r == [At("process") EXCEPT !.job = j]
  <2>2. worker' = [worker EXCEPT ![w] = r]
        /\ jobs' = [jobs EXCEPT ![j] = [status |-> "leased", holder |-> w]]
    BY <2>1 DEF Lease
  <2>3. JobTypes' /\ DOMAIN jobs' = DOMAIN jobs
    BY <2>2, JobsUpdated, RowTypes
  <2>4. r \in WorkerRecord /\ r.job = j
    <3>1. j \in Job
      BY DEF TypeOK
    <3>2. r.job = j
      BY DEF At
    <3>3. QED
      BY <3>1, <3>2, ProcessType
  <2> HIDE DEF r
  <2>5. QED
    BY <2>2, <2>3, <2>4, <1>2, <1>4, WorkerStepType
<1>11. QED
  BY <1>6, <1>7, <1>8, <1>9, <1>10

LEMMA TypeProcess ==
    ASSUME TypeOK, NEW w \in Workers, Supersede(w) \/ Materialize(w)
    PROVE  TypeOK'
<1> SUFFICES CatalogTypes' /\ SurfaceTypes' /\ JobTypes' /\ OutboxTypes' /\ WorkerTypes' /\ CounterTypes'
  BY TypeSplit, PTL
<1> DEFINE j == worker[w].job
<1>1. UNCHANGED catalogVars /\ UNCHANGED <<saves, faults>>
      /\ worker' = [worker EXCEPT ![w] = At("dispatch")] /\ Works(w)
  BY DEF Supersede, Materialize, Works
<1>2. j \in DOMAIN jobs /\ j \in Job /\ j.consumer \in Consumers
  BY <1>1, WorkerTypeFacts DEF Job
<1>3. At("dispatch") \in WorkerRecord /\ At("dispatch").phase = "dispatch"
  BY AtType DEF At, Phases
<1>4. CatalogTypes' /\ CounterTypes'
  BY <1>1, CatalogStays DEF TypeOK, CounterTypes
<1>5. CASE Supersede(w)
  <2>1. jobs' = Succeed(Enqueue(jobs, {Successor(j)}), j) /\ UNCHANGED surfaceVars /\ UNCHANGED outboxVars
    BY <1>5 DEF Supersede
  <2> HIDE DEF j
  <2>2. JobTypes' /\ DOMAIN jobs \subseteq DOMAIN jobs'
    BY <2>1, <1>2, SupersedeJobs
  <2>3. QED
    BY <2>1, <2>2, <1>1, <1>3, <1>4, SurfacesStay, OutboxStays, WorkerStepType
<1>6. CASE Materialize(w)
  <2>1. Compile({j.consumer}) /\ relies' = relies
        /\ jobs' = [jobs EXCEPT ![j] = [status |-> "succeeded", holder |-> None]]
    BY <1>6 DEF Materialize, Succeed
  <2> HIDE DEF j
  <2>2. PICK P \in SUBSET Consumers : Publish(P)
    BY <2>1, <1>2, CompileType
  <2>3. SurfaceTypes' /\ OutboxTypes'
    BY <2>1, <2>2, <1>2, CompileType, PublishType, OutboxGrows DEF SurfaceTypes, TypeOK
  <2>4. JobTypes' /\ DOMAIN jobs' = DOMAIN jobs
    BY <2>1, <1>2, JobsUpdated, RowTypes
  <2>5. QED
    BY <2>3, <2>4, <1>1, <1>3, <1>4, WorkerStepType
<1>7. QED
  BY <1>5, <1>6

LEMMA TypeDispatch ==
    ASSUME TypeOK, NEW w \in Workers, worker[w].batch \subseteq outbox,
           LoadOutbox(w) \/ Deliver(w) \/ Mark(w) \/ DispatchFails(w),
           worker[w].phase = "mark" => worker[w].event \in announced
    PROVE  TypeOK'
<1> SUFFICES CatalogTypes' /\ SurfaceTypes' /\ JobTypes' /\ OutboxTypes' /\ WorkerTypes' /\ CounterTypes'
  BY TypeSplit, PTL
<1>1. UNCHANGED catalogVars /\ UNCHANGED surfaceVars /\ jobs' = jobs /\ saves' = saves /\ outbox' = outbox
      /\ (faults' = faults \/ Fault)
  BY DEF LoadOutbox, Deliver, Mark, DispatchFails, outboxVars
<1>2. CatalogTypes' /\ SurfaceTypes' /\ JobTypes' /\ CounterTypes'
  BY <1>1, CatalogStays, SurfacesStay, JobsStay, CounterStep DEF TypeOK, CounterTypes
<1>3. At("reconcile") \in WorkerRecord /\ At("reconcile").phase = "reconcile"
  BY AtType DEF At, Phases
<1>4. worker[w] \in WorkerRecord /\ worker[w].batch \in SUBSET Event
  BY WorkerTypeFacts
<1>5. CASE LoadOutbox(w)
  <2>1. UNCHANGED outboxVars /\ worker' = [worker EXCEPT ![w] = WithBatch(outbox \ marked)]
    BY <1>5 DEF LoadOutbox
  <2>2. outbox \ marked \in SUBSET Event
    BY DEF TypeOK
  <2>3. QED
    BY <2>1, <2>2, <1>1, <1>2, OutboxStays, WithBatchType, WorkerStepType
<1>6. CASE Deliver(w)
  <2>1. PICK e \in worker[w].batch :
           /\ announced' = announced \cup {e}
           /\ worker' = [worker EXCEPT ![w] = [worker[w] EXCEPT !.phase = "mark", !.event = e]]
    BY <1>6 DEF Deliver
  <2>2. OutboxTypes'
    BY <1>6, <2>1 DEF Deliver, TypeOK, OutboxTypes
  <2> DEFINE r == [worker[w] EXCEPT !.phase = "mark", !.event = e]
  <2>3. r \in WorkerRecord /\ r.phase = "mark"
    BY <1>4, MarkingType
  <2> HIDE DEF r
  <2>4. WorkerTypes'
    BY <2>1, <2>3, <1>1, WorkerStepType DEF r
  <2>5. QED
    BY <2>2, <2>4, <1>2
<1>7. CASE Mark(w)
  <2> DEFINE e == worker[w].event
             r == IF e \in marked THEN At("reconcile") ELSE WithBatch(worker[w].batch \ {e})
  <2>1. marked' = marked \cup {e} /\ announced' = announced /\ e \in announced
        /\ worker' = [worker EXCEPT ![w] = r]
    BY <1>7 DEF Mark
  <2>2. OutboxTypes'
    BY <2>1, <1>1 DEF TypeOK, OutboxTypes
  <2>3. r \in WorkerRecord /\ r.phase \in {"reconcile", "deliver"}
    BY <1>3, <1>4, WithBatchType
  <2> HIDE DEF r
  <2>4. WorkerTypes'
    BY <2>1, <2>3, <1>1, WorkerStepType
  <2>5. QED
    BY <2>2, <2>4, <1>2
<1>8. CASE DispatchFails(w)
  <2>1. UNCHANGED outboxVars /\ worker' = [worker EXCEPT ![w] = At("reconcile")]
    BY <1>8 DEF DispatchFails
  <2>2. QED
    BY <2>1, <1>1, <1>2, <1>3, OutboxStays, WorkerStepType
<1>9. QED
  BY <1>5, <1>6, <1>7, <1>8

-----------------------------------------------------------------------------
(* What every step does to the numbers and the tables: they only grow, and a binding that changes *)
(* goes away or gets a generation nobody had. *)
Grows ==
    /\ \A s \in Servers :
          /\ revision[s] <= revision'[s] /\ touched'[s] <= revision'[s]
          /\ revision'[s] = revision[s] => touched'[s] = touched[s]
    /\ \A c \in Consumers :
          /\ lastGeneration[c] <= lastGeneration'[c]
          /\ binding'[c] \in {0, lastGeneration'[c]}
          /\ binding'[c] = binding[c] \/ binding'[c] = 0 \/ lastGeneration[c] < binding'[c]
          /\ seen'[c] = seen[c] \/ seen'[c] = revision'
    /\ outbox \subseteq outbox'
    /\ \A e \in outbox' \ outbox : e.generation <= lastGeneration'[e.consumer]
    /\ DOMAIN jobs \subseteq DOMAIN jobs'
    /\ \A j \in DOMAIN jobs' \ DOMAIN jobs :
          /\ j.revision <= revision'[j.server]
          /\ 1 <= j.generation /\ j.generation <= lastGeneration'[j.consumer]
          /\ \A s \in Servers : j.target[s] <= revision'[s]
          /\ jobs'[j] = Pending

TableVars == <<revision, touched, relies, leftover, binding, lastGeneration, seen, outbox>>

LEMMA GrowsSame ==
    ASSUME TypeOK, NumbersGrow, UNCHANGED TableVars, DOMAIN jobs' = DOMAIN jobs
    PROVE  Grows
  BY DEF TypeOK, RevisionOf, NumbersGrow, TableVars, Grows

(* A publication, by whoever, keeps the generations growing. *)
LEMMA PublishGrows ==
    ASSUME TypeOK, NumbersGrow, NEW C \in SUBSET Consumers, Publish(C)
    PROVE  /\ \A c \in Consumers :
                 /\ lastGeneration[c] <= lastGeneration'[c]
                 /\ binding'[c] \in {0, lastGeneration'[c]}
                 /\ binding'[c] = binding[c] \/ lastGeneration[c] < binding'[c]
                 /\ binding[c] > 0 => binding'[c] > 0
           /\ outbox \subseteq outbox'
           /\ \A e \in outbox' \ outbox : e.generation <= lastGeneration'[e.consumer]
           /\ \A e \in outbox', f \in outbox : e \notin outbox => ~Earlier(e, f)
<1>1. ASSUME NEW c \in Consumers
      PROVE  /\ lastGeneration[c] <= lastGeneration'[c]
             /\ binding'[c] \in {0, lastGeneration'[c]}
             /\ binding'[c] = binding[c] \/ lastGeneration[c] < binding'[c]
             /\ binding[c] > 0 => binding'[c] > 0
  <2>1. lastGeneration[c] \in Nat /\ binding[c] \in Nat /\ binding[c] \in {0, lastGeneration[c]}
    BY DEF TypeOK, NumbersGrow
  <2>2. CASE c \in C
    BY <2>1, <2>2, PublishType
  <2>3. CASE c \notin C
    BY <2>1, <2>3, PublishType
  <2>4. QED
    BY <2>2, <2>3
<1>2. /\ outbox \subseteq outbox' /\ outbox' \subseteq Event
      /\ lastGeneration' \in [Consumers -> Nat]
      /\ \A e \in outbox' \ outbox : e.consumer \in C /\ e.generation = lastGeneration'[e.consumer]
                                     /\ e.kind = "published"
  BY PublishType
<1>3. ASSUME NEW e \in outbox' \ outbox PROVE e.generation <= lastGeneration'[e.consumer]
  BY <1>2
<1>4. ASSUME NEW e \in outbox' \ outbox, NEW f \in outbox, Earlier(e, f) PROVE FALSE
  <2>1. /\ e.consumer = f.consumer /\ e.consumer \in C /\ e.consumer \in Consumers
        /\ e.generation <= f.generation
        /\ f.generation <= lastGeneration[f.consumer]
        /\ f.generation \in Nat /\ e.generation \in Nat
    BY <1>2, <1>4 DEF Earlier, NumbersGrow, TypeOK, Event
  <2>2. e.generation = lastGeneration[e.consumer] + 1 /\ lastGeneration[e.consumer] \in Nat
    BY <1>2, <2>1, PublishType DEF TypeOK
  <2>3. QED
    BY <2>1, <2>2
<1>5. QED
  BY <1>1, <1>2, <1>3, <1>4

LEMMA CompileGrows ==
    ASSUME TypeOK, NumbersGrow, NEW C \in SUBSET Consumers, Compile(C), UNCHANGED catalogVars,
           DOMAIN jobs' = DOMAIN jobs
    PROVE  Grows
<1>1. PICK P \in SUBSET Consumers : Publish(P)
  BY CompileType
<1>2. \A c \in Consumers : seen'[c] = seen[c] \/ seen'[c] = revision'
  BY CompileType DEF catalogVars
<1>3. \A s \in Servers : /\ revision[s] <= revision'[s] /\ touched'[s] <= revision'[s]
                         /\ touched'[s] = touched[s]
  BY DEF catalogVars, NumbersGrow, TypeOK, RevisionOf
<1>4. QED
  BY <1>1, <1>2, <1>3, PublishGrows DEF Grows

LEMMA ChangeGrows ==
    ASSUME TypeOK, NumbersGrow, NEW s \in Servers, Change(s)
    PROVE  Grows
<1>1. PICK cut \in SUBSET Consumers :
         /\ \A c \in cut : Bound(c)
         /\ Publish(cut) /\ ChangeJobs(cut, s) \in SUBSET Job
         /\ jobs' = Enqueue(jobs, ChangeJobs(cut, s))
  BY ChangeUnfolds
<1>2. \A t \in Servers : /\ revision[t] <= revision'[t] /\ touched'[t] <= revision'[t]
                         /\ revision'[t] = revision[t] => touched'[t] = touched[t]
                         /\ 1 <= revision'[t]
  BY ChangeUnfolds DEF TypeOK, RevisionOf, NumbersGrow
<1>3. DOMAIN jobs' = DOMAIN jobs \cup ChangeJobs(cut, s)
      /\ \A j \in ChangeJobs(cut, s) \ DOMAIN jobs : jobs'[j] = Pending
  BY <1>1, EnqueueType
<1>4. ASSUME NEW j \in ChangeJobs(cut, s)
      PROVE  /\ j.revision <= revision'[j.server]
             /\ 1 <= j.generation /\ j.generation <= lastGeneration'[j.consumer]
             /\ \A t \in Servers : j.target[t] <= revision'[t]
  <2>1. PICK c \in Affected(cut, s) : j = NewJob(c, s, revision[s] + 1, revision', binding'[c])
    BY DEF ChangeJobs
  <2>2. c \in Consumers /\ binding[c] \in Nat /\ binding[c] > 0
    BY <1>1 DEF Affected, Bound, TypeOK
  <2>3. binding'[c] \in Nat /\ lastGeneration'[c] \in Nat /\ 1 <= binding'[c] /\ binding'[c] <= lastGeneration'[c]
    BY <1>1, <2>2, PublishType, PublishGrows
  <2>4. revision' \in RevisionOf /\ revision[s] + 1 \in Nat /\ revision'[s] = revision[s] + 1
    BY ChangeUnfolds DEF TypeOK, RevisionOf
  <2>5. /\ j.server = s /\ j.revision = revision[s] + 1 /\ j.consumer = c /\ j.generation = binding'[c]
        /\ \A t \in Servers : j.target[t] \in {0, revision'[t]}
    BY <2>1, <2>2, <2>3, <2>4, NewJobType
  <2>6. QED
    BY <1>2, <2>3, <2>4, <2>5 DEF RevisionOf
<1>5. seen' = seen
  BY ChangeUnfolds
<1>6. QED
  BY <1>1, <1>2, <1>3, <1>4, <1>5, PublishGrows DEF Grows

LEMMA SupersedeGrows ==
    ASSUME TypeOK, NumbersGrow, NEW w \in Workers, Supersede(w)
    PROVE  Grows
<1> DEFINE j == worker[w].job
<1>1. j \in DOMAIN jobs /\ j \in Job /\ j.consumer \in Consumers /\ j.server \in Servers
  BY WorkerTypeFacts DEF Supersede, Works, Job
<1>2. /\ jobs' = Succeed(Enqueue(jobs, {Successor(j)}), j)
      /\ Bound(j.consumer) /\ UNCHANGED TableVars
  BY DEF Supersede, TableVars, catalogVars, surfaceVars, outboxVars
<1> HIDE DEF j
<1>3. /\ DOMAIN jobs' = DOMAIN jobs \cup {Successor(j)}
      /\ Successor(j) \notin DOMAIN jobs => jobs'[Successor(j)] = Pending
  BY <1>1, <1>2, SupersedeJobs
<1>4. /\ Successor(j).revision <= revision[Successor(j).server]
      /\ 1 <= Successor(j).generation
      /\ Successor(j).generation <= lastGeneration[Successor(j).consumer]
      /\ \A t \in Servers : Successor(j).target[t] <= revision[t]
  <2>1. /\ Successor(j).server = j.server /\ Successor(j).revision = j.revision
        /\ Successor(j).consumer = j.consumer /\ Successor(j).generation = binding[j.consumer]
        /\ \A t \in Servers : Successor(j).target[t] \in {0, revision[t]}
    BY <1>1, SuccessorType
  <2>2. /\ j.revision <= revision[j.server]
        /\ binding[j.consumer] \in Nat /\ lastGeneration[j.consumer] \in Nat
        /\ binding[j.consumer] \in {0, lastGeneration[j.consumer]} /\ binding[j.consumer] > 0
        /\ \A t \in Servers : revision[t] \in Nat
    BY <1>1, <1>2 DEF NumbersGrow, TypeOK, RevisionOf, Bound
  <2>3. QED
    BY <2>1, <2>2
<1>5. /\ UNCHANGED <<revision, touched, binding, lastGeneration, seen, outbox>>
      /\ \A s \in Servers : revision[s] <= revision[s] /\ touched[s] <= revision[s]
      /\ \A c \in Consumers :
            lastGeneration[c] <= lastGeneration[c] /\ binding[c] \in {0, lastGeneration[c]}
  BY <1>2 DEF NumbersGrow, TypeOK, RevisionOf, TableVars
<1>6. \A k \in DOMAIN jobs' \ DOMAIN jobs : k = Successor(j) /\ jobs'[k] = Pending
  BY <1>3
<1>7. QED
  BY <1>3, <1>4, <1>5, <1>6 DEF Grows

LEMMA NextGrows ==
    ASSUME TypeOK, NumbersGrow, Next
    PROVE  Grows
<1>1. ASSUME NEW s \in Servers, Bump(s) PROVE Grows
  BY <1>1 DEF Bump, Grows, TypeOK, RevisionOf, NumbersGrow, surfaceVars, outboxVars
<1>2. ASSUME NEW s \in Servers, Change(s) PROVE Grows
  BY <1>2, ChangeGrows
<1>3. ASSUME NEW C \in SUBSET Consumers, Save(C) PROVE Grows
  BY <1>3, CompileGrows DEF Save
<1>4. ASSUME NEW c \in Consumers, Rollback(c) PROVE Grows
  <2>1. Publish({c}) /\ UNCHANGED <<revision, touched, seen, jobs>>
    BY <1>4 DEF Rollback, catalogVars
  <2>2. \A s \in Servers : revision'[s] <= revision'[s] /\ touched'[s] <= revision'[s]
    BY <2>1 DEF TypeOK, RevisionOf, NumbersGrow
  <2>3. QED
    BY <2>1, <2>2, PublishGrows DEF Grows
<1>5. ASSUME NEW c \in Consumers, Revoke(c) PROVE Grows
  <2> DEFINE r == [consumer |-> c, generation |-> binding[c], kind |-> "revoked"]
  <2>1. /\ UNCHANGED <<revision, touched, lastGeneration, seen, jobs>>
        /\ outbox' = outbox \cup {r}
        /\ binding' = [binding EXCEPT ![c] = 0]
    BY <1>5 DEF Revoke, catalogVars
  <2>2. r.generation <= lastGeneration[r.consumer]
    BY DEF TypeOK, NumbersGrow
  <2>3. \A s \in Servers : revision[s] <= revision[s] /\ touched[s] <= revision[s]
    BY DEF TypeOK, RevisionOf, NumbersGrow
  <2>4. \A d \in Consumers : /\ lastGeneration[d] <= lastGeneration[d]
                             /\ binding'[d] \in {0, lastGeneration[d]}
                             /\ binding'[d] = binding[d] \/ binding'[d] = 0
    BY <2>1 DEF TypeOK, NumbersGrow
  <2> HIDE DEF r
  <2>5. QED
    BY <2>1, <2>2, <2>3, <2>4 DEF Grows
<1>6. ASSUME NEW w \in Workers, Materialize(w) PROVE Grows
  <2>1. worker[w].job \in DOMAIN jobs /\ worker[w].job.consumer \in Consumers
    BY <1>6, WorkerTypeFacts DEF Materialize, Works, Job
  <2>2. Compile({worker[w].job.consumer}) /\ UNCHANGED catalogVars /\ DOMAIN jobs' = DOMAIN jobs
    BY <1>6 DEF Materialize, Succeed
  <2>3. QED
    BY <2>1, <2>2, CompileGrows
<1>7. ASSUME NEW w \in Workers, Supersede(w) PROVE Grows
  BY <1>7, SupersedeGrows
<1>8. ASSUME NEW w \in Workers,
             \/ Crash(w) \/ NothingDue(w) \/ Refuse(w) \/ RecordFailure(w)
             \/ LoadOutbox(w) \/ Deliver(w) \/ Mark(w) \/ DispatchFails(w)
             \/ \E j \in DOMAIN jobs : Lease(w, j)
      PROVE  Grows
  <2>1. UNCHANGED TableVars
    BY <1>8 DEF Crash, NothingDue, Refuse, RecordFailure, LoadOutbox, Deliver, Mark, DispatchFails, Lease,
                TableVars, catalogVars, surfaceVars, outboxVars
  <2>2. DOMAIN jobs' = DOMAIN jobs
    BY <1>8 DEF Crash, NothingDue, Refuse, RecordFailure, LoadOutbox, Deliver, Mark, DispatchFails, Lease
  <2>3. QED
    BY <2>1, <2>2, GrowsSame
<1>9. QED
  BY <1>1, <1>2, <1>3, <1>4, <1>5, <1>6, <1>7, <1>8 DEF Next, Environment, WorkerStep

LEMMA NumbersStep ==
    ASSUME TypeOK, TypeOK', NumbersGrow, Grows
    PROVE  NumbersGrow'
<1>1. \A s \in Servers : 1 <= revision'[s] /\ touched'[s] <= revision'[s]
  BY DEF TypeOK, RevisionOf, NumbersGrow, Grows
<1>2. \A c \in Consumers : binding'[c] \in {0, lastGeneration'[c]}
  BY DEF Grows
<1>3. ASSUME NEW e \in outbox' PROVE e.generation <= lastGeneration'[e.consumer]
  <2>1. CASE e \in outbox
    <3>1. /\ e.consumer \in Consumers /\ e.generation \in Nat
          /\ e.generation <= lastGeneration[e.consumer]
          /\ lastGeneration[e.consumer] \in Nat /\ lastGeneration'[e.consumer] \in Nat
      BY <2>1 DEF TypeOK, Event, NumbersGrow
    <3>2. lastGeneration[e.consumer] <= lastGeneration'[e.consumer]
      BY <3>1 DEF Grows
    <3>3. QED
      BY <3>1, <3>2
  <2>2. QED
    BY <2>1 DEF Grows
<1>4. ASSUME NEW j \in DOMAIN jobs'
      PROVE  /\ j.revision <= revision'[j.server]
             /\ 1 <= j.generation /\ j.generation <= lastGeneration'[j.consumer]
             /\ \A s \in Servers : j.target[s] <= revision'[s]
  <2>1. CASE j \in DOMAIN jobs
    <3>1. j \in Job
      BY <2>1 DEF TypeOK
    <3>2. /\ j.consumer \in Consumers /\ j.server \in Servers
          /\ j.generation \in Nat /\ j.revision \in Nat /\ j.target \in [Servers -> Nat]
      BY <3>1 DEF Job
    <3>3. /\ \A c \in Consumers : lastGeneration[c] \in Nat /\ lastGeneration'[c] \in Nat
          /\ \A s \in Servers : revision[s] \in Nat /\ revision'[s] \in Nat
      BY DEF TypeOK, RevisionOf
    <3>4. /\ \A c \in Consumers : lastGeneration[c] <= lastGeneration'[c]
          /\ \A s \in Servers : revision[s] <= revision'[s]
      BY DEF Grows
    <3>5. /\ j.revision <= revision[j.server]
          /\ 1 <= j.generation /\ j.generation <= lastGeneration[j.consumer]
          /\ \A s \in Servers : j.target[s] <= revision[s]
      BY <2>1 DEF NumbersGrow
    <3>6. QED
      BY <3>2, <3>3, <3>4, <3>5
  <2>2. QED
    BY <2>1 DEF Grows
<1>5. QED
  BY <1>1, <1>2, <1>3, <1>4 DEF NumbersGrow

(* An event written now is never earlier than one that was there. *)
LEMMA NewIsLater ==
    ASSUME TypeOK, NumbersGrow, Next,
           NEW e \in outbox', e \notin outbox, NEW f \in outbox
    PROVE  ~Earlier(e, f)
<1>1. ASSUME NEW C \in SUBSET Consumers, Publish(C) PROVE ~Earlier(e, f)
  BY <1>1, PublishGrows
<1>2. ASSUME NEW c \in Consumers, Revoke(c) PROVE ~Earlier(e, f)
  <2>1. e = [consumer |-> c, generation |-> binding[c], kind |-> "revoked"] /\ Bound(c)
    BY <1>2 DEF Revoke
  <2>2. binding[c] = lastGeneration[c] /\ lastGeneration[c] \in Nat
    BY <2>1 DEF TypeOK, NumbersGrow, Bound
  <2>3. f.consumer = c => f.generation \in Nat /\ f.generation <= lastGeneration[c]
    BY DEF TypeOK, NumbersGrow, Event
  <2>4. e.consumer = c /\ e.generation = lastGeneration[c] /\ e.kind = "revoked"
    BY <2>1, <2>2
  <2>5. QED
    BY <2>2, <2>3, <2>4 DEF Earlier
<1>3. ASSUME NEW C \in SUBSET Consumers, Compile(C) PROVE ~Earlier(e, f)
  BY <1>1, <1>3, CompileType
<1>4. CASE outbox' = outbox
  BY <1>4
<1>5. ASSUME NEW s \in Servers, Change(s) PROVE ~Earlier(e, f)
  BY <1>1, <1>5, ChangeUnfolds
<1>6. ASSUME NEW w \in Workers, Materialize(w) PROVE ~Earlier(e, f)
  <2>1. worker[w].job.consumer \in Consumers
    BY <1>6, WorkerTypeFacts DEF Materialize, Works, Job
  <2>2. QED
    BY <2>1, <1>3, <1>6 DEF Materialize
<1>7. ASSUME NEW c \in Consumers, Rollback(c) PROVE ~Earlier(e, f)
  BY <1>1, <1>7 DEF Rollback
<1>8. ASSUME NEW C \in SUBSET Consumers, Save(C) PROVE ~Earlier(e, f)
  BY <1>3, <1>8 DEF Save
<1>9. ASSUME NEW s \in Servers, Bump(s) PROVE outbox' = outbox
  BY <1>9 DEF Bump, outboxVars
<1>10. ASSUME NEW w \in Workers,
             \/ Crash(w) \/ NothingDue(w) \/ Refuse(w) \/ RecordFailure(w) \/ Supersede(w)
             \/ LoadOutbox(w) \/ Deliver(w) \/ Mark(w) \/ DispatchFails(w)
             \/ \E j \in DOMAIN jobs : Lease(w, j)
      PROVE  outbox' = outbox
  BY <1>10 DEF Crash, NothingDue, Refuse, RecordFailure, Supersede, LoadOutbox, Deliver, Mark, DispatchFails,
               Lease, outboxVars
<1>11. QED
  BY <1>2, <1>4, <1>5, <1>6, <1>7, <1>8, <1>9, <1>10 DEF Next, Environment, WorkerStep

(* What is announced stays so, and what a worker does not take up anew it only has less of. *)
LEMMA OutboxQuiet ==
    ASSUME TypeOK, NumbersGrow, Next, OutboxTypes, BatchInOrder, AnnouncedInOrder,
           outbox \subseteq outbox', marked' = marked, announced' = announced,
           \A w \in Workers : \/ worker'[w] = worker[w]
                              \/ worker'[w].batch \subseteq {} /\ worker'[w].phase # "mark"
                              \/ /\ worker'[w].batch = worker[w].batch
                                 /\ worker'[w].phase # "mark"
    PROVE  BatchInOrder' /\ AnnouncedInOrder'
<1>1. \A e \in outbox' \ outbox, f \in outbox : ~Earlier(e, f)
  BY NewIsLater
<1>2. AnnouncedInOrder'
  <2> SUFFICES ASSUME NEW f \in announced, NEW e \in outbox', Earlier(e, f)
               PROVE  e \in announced
    BY Zenon DEF AnnouncedInOrder, Earlier
  <2>1. e \in outbox
    BY <1>1 DEF OutboxTypes
  <2>2. QED
    BY <2>1 DEF AnnouncedInOrder
<1>3. ASSUME NEW w \in Workers
      PROVE  /\ worker'[w].batch \subseteq outbox'
             /\ \A e \in outbox', f \in worker'[w].batch :
                   Earlier(e, f) => e \in worker'[w].batch \cup announced'
             /\ worker'[w].phase = "mark" => worker'[w].event \in announced'
  <2>1. worker'[w].batch = worker[w].batch \/ worker'[w].batch = {}
    OBVIOUS
  <2>2. worker[w].batch \subseteq outbox
    BY DEF BatchInOrder
  <2>3. ASSUME NEW e \in outbox', NEW f \in worker'[w].batch, Earlier(e, f)
        PROVE  e \in worker'[w].batch \cup announced'
    <3>1. f \in worker[w].batch /\ f \in outbox /\ worker'[w].batch = worker[w].batch
      BY <2>1, <2>2
    <3>2. e \in outbox
      BY <1>1, <2>3, <3>1
    <3>3. QED
      BY <2>3, <3>1, <3>2 DEF BatchInOrder
  <2>4. QED
    BY <2>1, <2>2, <2>3 DEF BatchInOrder
<1>4. QED
  BY <1>2, <1>3 DEF BatchInOrder, Earlier

LEMMA OutboxStep ==
    ASSUME TypeOK, NumbersGrow, BatchInOrder, AnnouncedInOrder, Next
    PROVE  BatchInOrder' /\ AnnouncedInOrder'
<1>1. OutboxTypes /\ outbox \subseteq outbox' /\ worker \in [Workers -> WorkerRecord]
  BY NextGrows DEF Grows, TypeOK, OutboxTypes
<1>2. \A phase \in {"gone", "dispatch", "reconcile"} : At(phase).batch = {} /\ At(phase).phase # "mark"
  BY DEF At
<1>3. \A j : [At("process") EXCEPT !.job = j].batch = {} /\ [At("process") EXCEPT !.job = j].phase # "mark"
  BY DEF At
<1>4. ASSUME NEW w \in Workers
      PROVE  /\ [worker[w] EXCEPT !.phase = "refused"].batch = worker[w].batch
             /\ [worker[w] EXCEPT !.phase = "refused"].phase # "mark"
  BY WorkerTypeFacts DEF WorkerRecord
<1>5. CASE \/ \E s \in Servers : Bump(s) \/ Change(s)
           \/ \E c \in Consumers : Rollback(c) \/ Revoke(c)
           \/ \E C \in SUBSET Consumers \ {{}} : Save(C)
  <2>1. marked' = marked /\ announced' = announced /\ worker' = worker
    BY <1>5 DEF Bump, Change, Rollback, Revoke, Save, Compile, Publish, outboxVars
  <2>2. QED
    BY <2>1, <1>1, OutboxQuiet
<1>6. ASSUME NEW w \in Workers, NEW r, worker' = [worker EXCEPT ![w] = r],
             r.batch = {} \/ r.batch = worker[w].batch, r.phase # "mark",
             marked' = marked, announced' = announced
      PROVE  BatchInOrder' /\ AnnouncedInOrder'
  <2>1. \A v \in Workers : \/ worker'[v] = worker[v]
                           \/ worker'[v].batch \subseteq {} /\ worker'[v].phase # "mark"
                           \/ worker'[v].batch = worker[v].batch /\ worker'[v].phase # "mark"
    BY <1>1, <1>6
  <2>2. QED
    BY <2>1, <1>1, <1>6, OutboxQuiet
<1>7. ASSUME NEW w \in Workers, Crash(w) \/ NothingDue(w) \/ RecordFailure(w) \/ DispatchFails(w) \/ Supersede(w)
      PROVE  BatchInOrder' /\ AnnouncedInOrder'
  <2>1. PICK phase \in {"gone", "dispatch", "reconcile"} : worker' = [worker EXCEPT ![w] = At(phase)]
    BY <1>7 DEF Crash, NothingDue, RecordFailure, DispatchFails, Supersede
  <2>2. marked' = marked /\ announced' = announced
    BY <1>7 DEF Crash, NothingDue, RecordFailure, DispatchFails, Supersede, outboxVars
  <2>3. QED
    BY <2>1, <2>2, <1>2, <1>6
<1>8. ASSUME NEW w \in Workers, Materialize(w) PROVE BatchInOrder' /\ AnnouncedInOrder'
  <2>1. worker' = [worker EXCEPT ![w] = At("dispatch")] /\ marked' = marked /\ announced' = announced
    BY <1>8 DEF Materialize, Compile, Publish
  <2>2. QED
    BY <2>1, <1>2, <1>6
<1>9. ASSUME NEW w \in Workers, Refuse(w) PROVE BatchInOrder' /\ AnnouncedInOrder'
  <2> DEFINE r == [worker[w] EXCEPT !.phase = "refused"]
  <2>1. worker' = [worker EXCEPT ![w] = r] /\ marked' = marked /\ announced' = announced
    BY <1>9 DEF Refuse, outboxVars
  <2>2. r.batch = worker[w].batch /\ r.phase # "mark"
    BY <1>4
  <2> HIDE DEF r
  <2>3. QED
    BY <2>1, <2>2, <1>6
<1>10. ASSUME NEW w \in Workers, NEW j \in DOMAIN jobs, Lease(w, j) PROVE BatchInOrder' /\ AnnouncedInOrder'
  <2> DEFINE r == [At("process") EXCEPT !.job = j]
  <2>1. worker' = [worker EXCEPT ![w] = r] /\ marked' = marked /\ announced' = announced
    BY <1>10 DEF Lease, outboxVars
  <2>2. r.batch = {} /\ r.phase # "mark"
    BY <1>3
  <2> HIDE DEF r
  <2>3. QED
    BY <2>1, <2>2, <1>6
<1>11. ASSUME NEW w \in Workers, LoadOutbox(w) PROVE BatchInOrder' /\ AnnouncedInOrder'
  <2>1. worker' = [worker EXCEPT ![w] = WithBatch(outbox \ marked)]
        /\ UNCHANGED <<outbox, marked, announced>>
    BY <1>11 DEF LoadOutbox, outboxVars
  <2>2. outbox \ marked \in SUBSET Event
    BY DEF TypeOK
  <2>3. WithBatch(outbox \ marked).batch = outbox \ marked /\ WithBatch(outbox \ marked).phase # "mark"
    BY <2>2, WithBatchType
  <2>4. worker'[w] = WithBatch(outbox \ marked) /\ \A v \in Workers \ {w} : worker'[v] = worker[v]
    BY <2>1, <1>1
  <2>5. AnnouncedInOrder'
    BY <2>1 DEF AnnouncedInOrder, Earlier
  <2>6. ASSUME NEW v \in Workers
        PROVE  /\ worker'[v].batch \subseteq outbox
               /\ \A e \in outbox, f \in worker'[v].batch :
                     Earlier(e, f) => e \in worker'[v].batch \cup announced
               /\ worker'[v].phase = "mark" => worker'[v].event \in announced
    <3>1. CASE v = w
      BY <3>1, <2>3, <2>4 DEF BatchInOrder
    <3>2. CASE v # w
      BY <3>2, <2>4 DEF BatchInOrder
    <3>3. QED
      BY <3>1, <3>2
  <2>7. BatchInOrder'
    BY <2>1, <2>6 DEF BatchInOrder, Earlier
  <2>8. QED
    BY <2>5, <2>7
<1>12. ASSUME NEW w \in Workers, Deliver(w) PROVE BatchInOrder' /\ AnnouncedInOrder'
  <2>1. PICK e \in worker[w].batch :
           /\ \A f \in worker[w].batch : ~Earlier(f, e)
           /\ announced' = announced \cup {e}
           /\ worker' = [worker EXCEPT ![w] = [worker[w] EXCEPT !.phase = "mark", !.event = e]]
           /\ UNCHANGED <<outbox, marked>>
    BY <1>12 DEF Deliver
  <2> DEFINE r == [worker[w] EXCEPT !.phase = "mark", !.event = e]
  <2>2. r.batch = worker[w].batch /\ r.event = e
    BY WorkerTypeFacts, MarkingType
  <2>3. worker' = [worker EXCEPT ![w] = r]
    BY <2>1
  <2> HIDE DEF r
  <2>4. worker'[w] = r /\ \A v \in Workers \ {w} : worker'[v] = worker[v]
    BY <2>3, <1>1
  <2>5. \A f \in outbox : Earlier(f, e) => f \in announced
    BY <2>1 DEF BatchInOrder
  <2>6. AnnouncedInOrder'
    <3> SUFFICES ASSUME NEW f \in announced', NEW g \in outbox, Earlier(g, f)
                 PROVE  g \in announced'
      BY <2>1, Zenon DEF AnnouncedInOrder, Earlier
    <3>1. QED
      BY <2>1, <2>5 DEF AnnouncedInOrder
  <2>7. ASSUME NEW v \in Workers
        PROVE  /\ worker'[v].batch \subseteq outbox
               /\ \A f \in outbox, g \in worker'[v].batch :
                     Earlier(f, g) => f \in worker'[v].batch \cup announced'
               /\ worker'[v].phase = "mark" => worker'[v].event \in announced'
    <3>1. worker'[v].batch = worker[v].batch
      BY <2>2, <2>4
    <3>2. worker'[v].phase = "mark" => worker'[v].event \in announced'
      BY <2>1, <2>2, <2>4 DEF BatchInOrder
    <3>3. QED
      BY <3>1, <3>2, <2>1 DEF BatchInOrder
  <2>8. BatchInOrder'
    BY <2>1, <2>7 DEF BatchInOrder, Earlier
  <2>9. QED
    BY <2>6, <2>8
<1>13. ASSUME NEW w \in Workers, Mark(w) PROVE BatchInOrder' /\ AnnouncedInOrder'
  <2> DEFINE e == worker[w].event
             r == IF e \in marked THEN At("reconcile") ELSE WithBatch(worker[w].batch \ {e})
  <2>1. /\ marked' = marked \cup {e} /\ UNCHANGED <<outbox, announced>>
        /\ worker' = [worker EXCEPT ![w] = r] /\ e \in announced
    BY <1>13 DEF Mark, BatchInOrder
  <2>2. r.phase # "mark" /\ (r.batch = {} \/ r.batch = worker[w].batch \ {e})
    <3>1. worker[w].batch \ {e} \in SUBSET Event
      BY WorkerTypeFacts
    <3>2. QED
      BY <3>1, <1>2, WithBatchType
  <2> HIDE DEF r
  <2>3. worker'[w] = r /\ \A v \in Workers \ {w} : worker'[v] = worker[v]
    BY <2>1, <1>1
  <2> HIDE DEF e
  <2>4. AnnouncedInOrder'
    BY <2>1 DEF AnnouncedInOrder, Earlier
  <2>5. ASSUME NEW v \in Workers
        PROVE  /\ worker'[v].batch \subseteq outbox
               /\ \A f \in outbox, g \in worker'[v].batch :
                     Earlier(f, g) => f \in worker'[v].batch \cup announced
               /\ worker'[v].phase = "mark" => worker'[v].event \in announced
    BY <2>1, <2>2, <2>3 DEF BatchInOrder
  <2>6. BatchInOrder'
    BY <2>1, <2>5 DEF BatchInOrder, Earlier
  <2>7. QED
    BY <2>4, <2>6
<1>14. QED
  BY <1>5, <1>7, <1>8, <1>9, <1>10, <1>11, <1>12, <1>13 DEF Next, Environment, WorkerStep

-----------------------------------------------------------------------------
(* A job whose revisions or generation were overtaken never becomes current again. *)
LEMMA StaleForGood ==
    ASSUME TypeOK, TypeOK', NumbersGrow, Grows, NEW j \in DOMAIN jobs, UpToDate(j)'
    PROVE  UpToDate(j) /\ \A s \in Servers : j.target[s] = revision'[s] => revision'[s] = revision[s]
<1>1. j \in Job
  BY DEF TypeOK
<1>2. /\ j.consumer \in Consumers /\ j.generation \in Nat /\ j.target \in [Servers -> Nat]
  BY <1>1 DEF Job
<1>3. /\ binding[j.consumer] \in Nat /\ binding'[j.consumer] \in Nat /\ lastGeneration[j.consumer] \in Nat
      /\ \A s \in Servers : revision[s] \in Nat /\ revision'[s] \in Nat
  BY <1>2 DEF TypeOK, RevisionOf
<1>4. /\ 1 <= j.generation /\ j.generation <= lastGeneration[j.consumer]
      /\ \A s \in Servers : j.target[s] <= revision[s]
  BY DEF NumbersGrow
<1>5. \/ binding'[j.consumer] = binding[j.consumer] \/ binding'[j.consumer] = 0
      \/ lastGeneration[j.consumer] < binding'[j.consumer]
  BY <1>2 DEF Grows
<1>6. \A s \in Servers : revision[s] <= revision'[s]
  BY DEF Grows
<1>7. binding'[j.consumer] = j.generation /\ \A s \in Servers : j.target[s] \in {0, revision'[s]}
  BY DEF UpToDate
<1>8. binding[j.consumer] = j.generation
  BY <1>2, <1>3, <1>4, <1>5, <1>7
<1>9. \A s \in Servers : j.target[s] \in Nat
  BY <1>2
<1>10. \A s \in Servers : /\ j.target[s] \in {0, revision[s]}
                          /\ j.target[s] = revision'[s] => revision'[s] = revision[s]
  BY <1>3, <1>4, <1>6, <1>7, <1>9
<1>11. QED
  BY <1>8, <1>10 DEF UpToDate

LEMMA DoneStep ==
    ASSUME TypeOK, TypeOK', NumbersGrow, Grows, DoneIsCovered,
           \A j \in DOMAIN jobs :
              jobs'[j].status = "succeeded" =>
                 jobs[j].status = "succeeded" \/ ~UpToDate(j) \/ seen'[j.consumer] = revision'
    PROVE  DoneIsCovered'
<1> SUFFICES ASSUME NEW j \in DOMAIN jobs', jobs'[j].status = "succeeded", UpToDate(j)',
                    NEW s \in Servers, j.target[s] = revision'[s]
             PROVE  touched'[s] <= seen'[j.consumer][s]
  BY Zenon DEF DoneIsCovered, Unfinished
<1>1. j \in DOMAIN jobs
  BY PendingType DEF Grows
<1>2. UpToDate(j) /\ revision'[s] = revision[s]
  BY <1>1, StaleForGood
<1>3. j.consumer \in Consumers
  BY <1>1 DEF TypeOK, Job
<1>4. CASE seen'[j.consumer] = revision'
  BY <1>4 DEF Grows
<1>5. CASE seen'[j.consumer] # revision'
  <2>1. seen'[j.consumer] = seen[j.consumer] /\ touched'[s] = touched[s]
    BY <1>2, <1>3, <1>5 DEF Grows
  <2>2. jobs[j].status = "succeeded"
    BY <1>1, <1>2, <1>5
  <2>3. touched[s] <= seen[j.consumer][s]
    BY <1>1, <1>2, <2>2 DEF DoneIsCovered, Unfinished
  <2>4. QED
    BY <2>1, <2>3
<1>6. QED
  BY <1>4, <1>5

(* Nobody falls behind and no unfinished job ends: nothing is lost. *)
LEMMA QuietKeepsChanges ==
    ASSUME NoLostChange,
           \A c \in Consumers : Behind(c)' => Behind(c),
           \A j \in DOMAIN jobs : Unfinished(j) => j \in DOMAIN jobs' /\ Unfinished(j)'
    PROVE  NoLostChange'
  BY DEF NoLostChange

(* The jobs of a step that neither commits a change nor ends one: nothing is done by it. *)
JobsQuiet ==
    \A j \in DOMAIN jobs : j \in DOMAIN jobs' /\ (jobs'[j].status = "succeeded" <=> jobs[j].status = "succeeded")

LEMMA QuietJobs ==
    ASSUME TypeOK, TypeOK', NumbersGrow, Grows, DoneIsCovered, NoLostChange, JobsQuiet,
           \A c \in Consumers : Behind(c)' => Behind(c)
    PROVE  DoneIsCovered' /\ NoLostChange'
  BY DoneStep, QuietKeepsChanges DEF JobsQuiet, Unfinished

LEMMA NotBehind ==
    ASSUME TypeOK, TypeOK', NumbersGrow, NEW c \in Consumers,
           seen'[c] = revision', touched' = touched, revision' = revision
    PROVE  ~Behind(c)'
<1>1. \A s \in Servers : touched[s] \in Nat /\ revision[s] \in Nat /\ touched[s] <= revision[s]
  BY DEF TypeOK, RevisionOf, NumbersGrow
<1>2. ASSUME Behind(c)' PROVE FALSE
  <2>1. PICK s \in relies'[c] : seen'[c][s] < touched'[s]
    BY <1>2 DEF Behind
  <2>2. s \in Servers
    BY <2>1 DEF TypeOK
  <2>3. QED
    BY <2>1, <2>2, <1>1
<1>3. QED
  BY <1>2

LEMMA JobsEnvironment ==
    ASSUME TypeOK, TypeOK', NumbersGrow, Grows, DoneIsCovered, NoLostChange,
           \/ \E s \in Servers : Bump(s)
           \/ \E c \in Consumers : Rollback(c) \/ Revoke(c)
           \/ \E C \in SUBSET Consumers : Save(C)
    PROVE  DoneIsCovered' /\ NoLostChange'
<1>1. JobsQuiet
  BY DEF Bump, Save, Rollback, Revoke, JobsQuiet
<1>2. ASSUME NEW d \in Consumers, Behind(d)' PROVE Behind(d)
  <2>1. ASSUME NEW s \in Servers, Bump(s) PROVE Behind(d)
    BY <1>2, <2>1 DEF Bump, Behind, Bound, surfaceVars
  <2>2. ASSUME NEW C \in SUBSET Consumers, Save(C) PROVE Behind(d)
    <3>1. Compile(C) /\ revision' = revision /\ touched' = touched
          /\ \A b \in Consumers : b \notin C => relies'[b] = relies[b]
      BY <2>2 DEF Save, catalogVars
    <3>2. d \notin C
      BY <1>2, <3>1, CompileType, NotBehind
    <3>3. seen'[d] = seen[d] /\ relies'[d] = relies[d]
      BY <3>1, <3>2, CompileType
    <3>4. PICK P \in SUBSET Consumers : P \subseteq C /\ Publish(P)
      BY <3>1, CompileType
    <3>5. binding'[d] = binding[d]
      BY <3>2, <3>4, PublishType
    <3>6. QED
      BY <1>2, <3>1, <3>3, <3>5 DEF Behind, Bound
  <2>3. ASSUME NEW c \in Consumers, Rollback(c) PROVE Behind(d)
    <3>1. /\ Bound(c) /\ UNCHANGED <<revision, touched, relies, seen>> /\ Publish({c})
      BY <2>3 DEF Rollback, catalogVars
    <3>2. d # c => binding'[d] = binding[d]
      BY <3>1, PublishType
    <3>3. QED
      BY <1>2, <3>1, <3>2 DEF Behind, Bound
  <2>4. ASSUME NEW c \in Consumers, Revoke(c) PROVE Behind(d)
    BY <1>2, <2>4 DEF Revoke, Behind, Bound, TypeOK, catalogVars
  <2>5. QED
    BY <2>1, <2>2, <2>3, <2>4
<1>3. QED
  BY <1>1, <1>2, QuietJobs

(* The job a change enqueues has a key nobody used: its cause is a revision that is new. *)
LEMMA JobsChange ==
    ASSUME TypeOK, TypeOK', NumbersGrow, Grows, DoneIsCovered, NoLostChange,
           NEW s \in Servers, Change(s)
    PROVE  DoneIsCovered' /\ NoLostChange'
<1>1. PICK cut \in SUBSET Consumers :
         /\ \A c \in cut : Bound(c)
         /\ Publish(cut) /\ ChangeJobs(cut, s) \in SUBSET Job
         /\ jobs' = Enqueue(jobs, ChangeJobs(cut, s))
  BY ChangeUnfolds
<1>2. /\ DOMAIN jobs' = DOMAIN jobs \cup ChangeJobs(cut, s)
      /\ \A j \in DOMAIN jobs : jobs'[j] = jobs[j]
      /\ \A j \in ChangeJobs(cut, s) \ DOMAIN jobs : jobs'[j] = Pending
  BY <1>1, EnqueueType
<1>3. /\ relies' = relies /\ seen' = seen
      /\ \A t \in Servers \ {s} : touched'[t] = touched[t]
  BY ChangeUnfolds DEF TypeOK, RevisionOf
<1>4. DoneIsCovered'
  BY <1>2, DoneStep
<1>5. ASSUME NEW c \in Consumers, Behind(c)'
      PROVE  \E j \in DOMAIN jobs' : j.consumer = c /\ Unfinished(j)'
  <2>1. CASE c \in Affected(cut, s)
    <3> DEFINE j == NewJob(c, s, revision[s] + 1, revision', binding'[c])
    <3>1. j \in ChangeJobs(cut, s)
      BY <2>1 DEF ChangeJobs
    <3>2. binding'[c] \in Nat /\ revision' \in RevisionOf /\ revision[s] \in Nat
      BY <1>5 DEF TypeOK, RevisionOf
    <3>3. j.consumer = c /\ j.server = s /\ j.revision = revision[s] + 1
      BY <3>2, NewJobType
    <3> HIDE DEF j
    <3>4. j \notin DOMAIN jobs
      BY <3>2, <3>3 DEF NumbersGrow
    <3>5. jobs'[j] = Pending /\ j \in DOMAIN jobs'
      BY <1>2, <3>1, <3>4
    <3>6. QED
      BY <3>3, <3>5, PendingType DEF Unfinished
  <2>2. CASE c \notin Affected(cut, s)
    <3>1. c \notin cut /\ ~(Bound(c) /\ s \in relies[c])
      BY <2>2 DEF Affected
    <3>2. binding'[c] = binding[c]
      BY <1>1, <3>1, PublishType
    <3>3. Bound(c) /\ \E t \in relies[c] : seen[c][t] < touched'[t]
      BY <1>3, <1>5, <3>2 DEF Behind, Bound
    <3>4. PICK t \in relies[c] : seen[c][t] < touched'[t]
      BY <3>3
    <3>5. t \in Servers \ {s}
      BY <3>1, <3>3, <3>4 DEF TypeOK
    <3>6. Behind(c)
      BY <1>3, <3>3, <3>4, <3>5 DEF Behind
    <3>7. PICK j \in DOMAIN jobs : j.consumer = c /\ Unfinished(j)
      BY <3>6 DEF NoLostChange
    <3>8. QED
      BY <3>7, <1>2 DEF Unfinished
  <2>3. QED
    BY <2>1, <2>2
<1>6. NoLostChange'
  BY <1>5, Zenon DEF NoLostChange
<1>7. QED
  BY <1>4, <1>6

(* A worker that finishes a job by compiling leaves its consumer up to date. *)
LEMMA JobsMaterialize ==
    ASSUME TypeOK, TypeOK', NumbersGrow, Grows, DoneIsCovered, NoLostChange,
           NEW w \in Workers, Materialize(w)
    PROVE  DoneIsCovered' /\ NoLostChange'
<1> DEFINE j == worker[w].job
<1>1. /\ Compile({j.consumer}) /\ UNCHANGED <<revision, touched, relies>>
      /\ jobs' = [jobs EXCEPT ![j] = [status |-> "succeeded", holder |-> None]]
  BY DEF Materialize, Succeed, catalogVars
<1>2. j \in DOMAIN jobs /\ j.consumer \in Consumers
  BY WorkerTypeFacts DEF Materialize, Works, Job
<1> HIDE DEF j
<1>3. /\ seen'[j.consumer] = revision'
      /\ \A c \in Consumers : c # j.consumer => seen'[c] = seen[c]
  BY <1>1, <1>2, CompileType
<1>4. DOMAIN jobs' = DOMAIN jobs /\ \A k \in DOMAIN jobs : k # j => jobs'[k] = jobs[k]
  BY <1>1
<1>5. DoneIsCovered'
  BY <1>3, <1>4, DoneStep
<1>6. ASSUME NEW c \in Consumers, Behind(c)'
      PROVE  \E k \in DOMAIN jobs' : k.consumer = c /\ Unfinished(k)'
  <2>1. c # j.consumer
    BY <1>1, <1>2, <1>3, <1>6, NotBehind
  <2>2. PICK P \in SUBSET Consumers : P \subseteq {j.consumer} /\ Publish(P)
    BY <1>1, <1>2, CompileType
  <2>3. binding'[c] = binding[c]
    BY <2>1, <2>2, PublishType
  <2>4. Behind(c)
    BY <1>1, <1>3, <1>6, <2>1, <2>3 DEF Behind, Bound
  <2>5. PICK k \in DOMAIN jobs : k.consumer = c /\ Unfinished(k)
    BY <2>4 DEF NoLostChange
  <2>6. QED
    BY <1>4, <2>1, <2>5 DEF Unfinished
<1>7. NoLostChange'
  BY <1>6, Zenon DEF NoLostChange
<1>8. QED
  BY <1>5, <1>7

(* A superseded job leaves an unfinished successor, unless one like it was done for the present *)
(* catalog and binding, and then its consumer is not behind. *)
LEMMA JobsSupersede ==
    ASSUME TypeOK, TypeOK', NumbersGrow, Grows, DoneIsCovered, NoLostChange,
           NEW w \in Workers, Supersede(w)
    PROVE  DoneIsCovered' /\ NoLostChange'
<1> DEFINE j == worker[w].job
           k == Successor(j)
<1>1. /\ jobs' = Succeed(Enqueue(jobs, {Successor(j)}), j) /\ ~UpToDate(j)
      /\ UNCHANGED <<revision, touched, relies, binding, seen>>
  BY DEF Supersede, catalogVars, surfaceVars
<1>2. j \in DOMAIN jobs /\ j \in Job /\ j.consumer \in Consumers
  BY WorkerTypeFacts DEF Supersede, Works, Job
<1> HIDE DEF j
<1>3. /\ DOMAIN jobs' = DOMAIN jobs \cup {k}
      /\ \A i \in DOMAIN jobs \ {j} : jobs'[i] = jobs[i]
      /\ k \notin DOMAIN jobs => jobs'[k] = Pending
  BY <1>1, <1>2, SupersedeJobs
<1>4. /\ k.consumer = j.consumer /\ k.generation = binding[j.consumer]
      /\ \A t \in Servers : /\ k.target[t] \in {0, revision[t]}
                            /\ t \in relies[j.consumer] => k.target[t] = revision[t]
  BY <1>2, SuccessorType
<1> HIDE DEF k
<1>5. UpToDate(k) /\ k # j
  BY <1>1, <1>4 DEF UpToDate
<1>6. DoneIsCovered'
  BY <1>1, <1>3, DoneStep
<1>7. ASSUME NEW c \in Consumers, Behind(c)'
      PROVE  \E i \in DOMAIN jobs' : i.consumer = c /\ Unfinished(i)'
  <2>1. Behind(c)
    BY <1>1, <1>7 DEF Behind, Bound
  <2>2. CASE c # j.consumer
    <3>1. PICK i \in DOMAIN jobs : i.consumer = c /\ Unfinished(i)
      BY <2>1 DEF NoLostChange
    <3>2. QED
      BY <1>3, <2>2, <3>1 DEF Unfinished
  <2>3. CASE c = j.consumer /\ k \in DOMAIN jobs /\ ~Unfinished(k)
    <3>1. PICK s \in relies[c] : seen[c][s] < touched[s]
      BY <2>1 DEF Behind
    <3>2. s \in Servers
      BY <3>1 DEF TypeOK
    <3>3. k.target[s] = revision[s]
      BY <1>4, <2>3, <3>1, <3>2
    <3>4. touched[s] <= seen[c][s]
      BY <1>4, <1>5, <2>3, <3>2, <3>3 DEF DoneIsCovered
    <3>5. touched[s] \in Nat /\ seen[c][s] \in Nat
      BY <3>2 DEF TypeOK, RevisionOf
    <3>6. QED
      BY <3>1, <3>4, <3>5
  <2>4. CASE c = j.consumer /\ ~(k \in DOMAIN jobs /\ ~Unfinished(k))
    <3>1. k \in DOMAIN jobs' /\ jobs'[k].status # "succeeded" /\ k.consumer = c
      BY <1>3, <1>4, <1>5, <2>4, PendingType DEF Unfinished
    <3>2. QED
      BY <3>1 DEF Unfinished
  <2>5. QED
    BY <2>2, <2>3, <2>4
<1>8. NoLostChange'
  BY <1>7, Zenon DEF NoLostChange
<1>9. QED
  BY <1>6, <1>8

LEMMA JobsWorkers ==
    ASSUME TypeOK, TypeOK', NumbersGrow, Grows, DoneIsCovered, NoLostChange, NEW w \in Workers,
           \/ Crash(w) \/ NothingDue(w) \/ Refuse(w) \/ RecordFailure(w)
           \/ LoadOutbox(w) \/ Deliver(w) \/ Mark(w) \/ DispatchFails(w)
           \/ \E j \in DOMAIN jobs : Lease(w, j)
    PROVE  DoneIsCovered' /\ NoLostChange'
<1>1. UNCHANGED <<revision, touched, relies, binding, seen>>
  BY DEF Crash, NothingDue, Refuse, RecordFailure, LoadOutbox, Deliver, Mark, DispatchFails, Lease,
         catalogVars, surfaceVars
<1>2. CASE jobs' = jobs
  <2>1. JobsQuiet
    BY <1>2 DEF JobsQuiet
  <2>2. QED
    BY <1>1, <2>1, QuietJobs DEF Behind, Bound
<1>3. ASSUME NEW j \in DOMAIN jobs, Lease(w, j) PROVE JobsQuiet
  BY <1>3 DEF Lease, JobsQuiet, Unfinished
<1>4. CASE RecordFailure(w) /\ jobs' # jobs
  <2>1. jobs' = [jobs EXCEPT ![worker[w].job] = [status |-> "failed", holder |-> None]]
        /\ jobs[worker[w].job].status = "leased"
    BY <1>4 DEF RecordFailure, Holds
  <2>2. JobsQuiet
    BY <2>1 DEF JobsQuiet
  <2>3. QED
    BY <1>1, <2>2, QuietJobs DEF Behind, Bound
<1>5. ASSUME NEW j \in DOMAIN jobs, Lease(w, j) PROVE DoneIsCovered' /\ NoLostChange'
  BY <1>1, <1>3, <1>5, QuietJobs DEF Behind, Bound
<1>6. QED
  BY <1>2, <1>4, <1>5 DEF Crash, NothingDue, Refuse, LoadOutbox, Deliver, Mark, DispatchFails

-----------------------------------------------------------------------------
(* The inductive invariant. *)
SurfaceInv ==
    TypeOK /\ NumbersGrow /\ BatchInOrder /\ AnnouncedInOrder /\ DoneIsCovered /\ NoLostChange

LEMMA SurfaceInit == Init => SurfaceInv
<1> SUFFICES ASSUME Init PROVE SurfaceInv
  OBVIOUS
<1>1. TypeOK
  BY TypeInit
<1>2. NumbersGrow
  BY DEF Init, NumbersGrow
<1>3. BatchInOrder /\ AnnouncedInOrder
  <2>1. At("reconcile").batch = {} /\ At("reconcile").phase # "mark"
    BY DEF At
  <2>2. /\ outbox = {} /\ marked = {} /\ announced = {}
        /\ \A w \in Workers : worker[w] = At("reconcile")
    BY DEF Init
  <2>3. QED
    BY <2>1, <2>2 DEF BatchInOrder, AnnouncedInOrder
<1>4. DoneIsCovered
  BY DEF Init, DoneIsCovered
<1>5. NoLostChange
  BY <1>1 DEF Init, NoLostChange, Behind, TypeOK, RevisionOf
<1>6. QED
  BY <1>1, <1>2, <1>3, <1>4, <1>5 DEF SurfaceInv

LEMMA SurfaceStutter == SurfaceInv /\ UNCHANGED vars => SurfaceInv'
<1> SUFFICES ASSUME SurfaceInv, UNCHANGED vars PROVE SurfaceInv'
  OBVIOUS
<1>1. TypeOK'
  <2>1. TypeOK /\ UNCHANGED <<surfaceVars, outboxVars, catalogVars>> /\ jobs' = jobs /\ worker' = worker
        /\ saves' = saves /\ faults' = faults
    BY DEF SurfaceInv, vars, surfaceVars, outboxVars, catalogVars
  <2>2. CatalogTypes' /\ SurfaceTypes' /\ JobTypes' /\ OutboxTypes' /\ WorkerTypes'
    BY <2>1, CatalogStays, SurfacesStay, JobsStay, OutboxStays, WorkersStay
  <2>3. CounterTypes'
    BY <2>1 DEF TypeOK, CounterTypes
  <2>4. QED
    BY <2>2, <2>3, TypeSplit, PTL
<1>2. NumbersGrow'
  BY DEF SurfaceInv, NumbersGrow, vars
<1>3. BatchInOrder' /\ AnnouncedInOrder'
  BY DEF SurfaceInv, BatchInOrder, AnnouncedInOrder, Earlier, vars
<1>4. DoneIsCovered' /\ NoLostChange'
  BY DEF SurfaceInv, DoneIsCovered, NoLostChange, Unfinished, UpToDate, Behind, Bound, vars
<1>5. QED
  BY <1>1, <1>2, <1>3, <1>4 DEF SurfaceInv

LEMMA TypeStep == SurfaceInv /\ Next => TypeOK'
<1> SUFFICES ASSUME SurfaceInv, Next PROVE TypeOK'
  OBVIOUS
<1>1. TypeOK /\ BatchInOrder
  BY DEF SurfaceInv
<1>2. CASE \/ \E s \in Servers : Bump(s) \/ Change(s)
           \/ \E c \in Consumers : Rollback(c) \/ Revoke(c)
           \/ \E C \in SUBSET Consumers : Save(C)
  BY <1>1, <1>2, TypeEnvironment
<1>3. ASSUME NEW w \in Workers,
             \/ Crash(w) \/ NothingDue(w) \/ Refuse(w) \/ RecordFailure(w)
             \/ \E j \in DOMAIN jobs : Lease(w, j)
      PROVE  TypeOK'
  BY <1>1, <1>3, TypeReconcile
<1>4. ASSUME NEW w \in Workers, Supersede(w) \/ Materialize(w) PROVE TypeOK'
  BY <1>1, <1>4, TypeProcess
<1>5. ASSUME NEW w \in Workers, LoadOutbox(w) \/ Deliver(w) \/ Mark(w) \/ DispatchFails(w) PROVE TypeOK'
  <2>1. worker[w].batch \subseteq outbox /\ (worker[w].phase = "mark" => worker[w].event \in announced)
    BY <1>1 DEF BatchInOrder
  <2>2. QED
    BY <1>1, <1>5, <2>1, TypeDispatch
<1>6. QED
  BY <1>2, <1>3, <1>4, <1>5 DEF Next, Environment, WorkerStep

LEMMA SurfaceStep == SurfaceInv /\ Next => SurfaceInv'
<1> SUFFICES ASSUME SurfaceInv, Next PROVE SurfaceInv'
  OBVIOUS
<1>1. TypeOK /\ NumbersGrow /\ BatchInOrder /\ AnnouncedInOrder /\ DoneIsCovered /\ NoLostChange
  BY DEF SurfaceInv
<1>2. TypeOK'
  BY TypeStep
<1>3. Grows
  BY <1>1, NextGrows
<1>4. NumbersGrow'
  BY <1>1, <1>2, <1>3, NumbersStep
<1>5. BatchInOrder' /\ AnnouncedInOrder'
  BY <1>1, OutboxStep
<1>6. \/ \E s \in Servers : Bump(s)
      \/ \E c \in Consumers : Rollback(c) \/ Revoke(c)
      \/ \E C \in SUBSET Consumers : Save(C)
      => DoneIsCovered' /\ NoLostChange'
  BY <1>1, <1>2, <1>3, JobsEnvironment, Zenon
<1>7. ASSUME NEW s \in Servers, Change(s) PROVE DoneIsCovered' /\ NoLostChange'
  BY <1>1, <1>2, <1>3, <1>7, JobsChange
<1>8. ASSUME NEW w \in Workers, Supersede(w) PROVE DoneIsCovered' /\ NoLostChange'
  BY <1>1, <1>2, <1>3, <1>8, JobsSupersede
<1>9. ASSUME NEW w \in Workers, Materialize(w) PROVE DoneIsCovered' /\ NoLostChange'
  BY <1>1, <1>2, <1>3, <1>9, JobsMaterialize
<1>10. ASSUME NEW w \in Workers,
              \/ Crash(w) \/ NothingDue(w) \/ Refuse(w) \/ RecordFailure(w)
              \/ LoadOutbox(w) \/ Deliver(w) \/ Mark(w) \/ DispatchFails(w)
              \/ \E j \in DOMAIN jobs : Lease(w, j)
       PROVE  DoneIsCovered' /\ NoLostChange'
  BY <1>1, <1>2, <1>3, <1>10, JobsWorkers
<1>11. DoneIsCovered' /\ NoLostChange'
  BY Zenon, <1>6, <1>7, <1>8, <1>9, <1>10 DEF Next, Environment, WorkerStep
<1>12. QED
  BY <1>2, <1>4, <1>5, <1>11 DEF SurfaceInv

(* The inductive invariant holds of every execution. *)
THEOREM SurfaceInvariant == Spec => []SurfaceInv
<1>1. SurfaceInv /\ [Next]_vars => SurfaceInv'
  BY SurfaceStep, SurfaceStutter
<1>2. QED
  BY SurfaceInit, <1>1, PTL DEF Spec

(* Every variable keeps its type (the tables of reconciliation.rs and surface_store.rs). *)
THEOREM SurfaceTypeCorrect == Spec => []TypeOK
<1>1. SurfaceInv => TypeOK
  BY DEF SurfaceInv
<1>2. QED
  BY SurfaceInvariant, <1>1, PTL

(* Whatever the number of consumers, servers, workers, commits, saves and crashes: a bound        *)
(* consumer that is behind the catalog has an unfinished job (reconciliation.rs enqueues with the *)
(* commit, supersedes with a successor and ignores an insert only when that loses nothing). *)
THEOREM NoChangeIsLost == Spec => []NoLostChange
<1>1. SurfaceInv => NoLostChange
  BY DEF SurfaceInv
<1>2. QED
  BY SurfaceInvariant, <1>1, PTL

(* The consumers hear of their publications in order and miss none (dispatch_outbox_once). *)
THEOREM AnnouncementsInOrder == Spec => []AnnouncedInOrder
<1>1. SurfaceInv => AnnouncedInOrder
  BY DEF SurfaceInv
<1>2. QED
  BY SurfaceInvariant, <1>1, PTL

-----------------------------------------------------------------------------
LEMMA HolderStep ==
    ASSUME TypeOK, NEW w \in Workers, Holds(w), Works(w), NEW r \in WorkerRecord,
           worker' = [worker EXCEPT ![w] = r], r.phase = "dispatch",
           worker[w].job \in DOMAIN jobs, DOMAIN jobs \subseteq DOMAIN jobs',
           \A j \in DOMAIN jobs : j # worker[w].job => jobs'[j] = jobs[j]
    PROVE  LeaseRespected
<1>1. jobs[worker[w].job].status = "leased" /\ jobs[worker[w].job].holder = w
  BY DEF Holds
<1>2. worker'[w] # worker[w]
  BY DEF TypeOK, Works
<1>3. QED
  BY <1>1, <1>2 DEF LeaseRespected, Unfinished

LEMMA LeaseStep ==
    ASSUME SurfaceInv, Next
    PROVE  LeaseRespected
<1>1. TypeOK
  BY DEF SurfaceInv
<1>2. At("dispatch") \in WorkerRecord /\ At("dispatch").phase = "dispatch"
  BY AtType DEF At, Phases
<1>3. CASE jobs' = jobs
  BY <1>3 DEF LeaseRespected
<1>4. ASSUME NEW s \in Servers, Change(s) PROVE LeaseRespected
  <2>1. PICK cut \in SUBSET Consumers :
           ChangeJobs(cut, s) \in SUBSET Job /\ jobs' = Enqueue(jobs, ChangeJobs(cut, s))
    BY <1>1, <1>4, ChangeUnfolds
  <2>2. DOMAIN jobs \subseteq DOMAIN jobs' /\ \A j \in DOMAIN jobs : jobs'[j] = jobs[j]
    BY <1>1, <2>1, EnqueueType
  <2>3. QED
    BY <2>2 DEF LeaseRespected
<1>5. ASSUME NEW w \in Workers, NEW j \in DOMAIN jobs, Lease(w, j) PROVE LeaseRespected
  <2>1. jobs' = [jobs EXCEPT ![j] = [status |-> "leased", holder |-> w]] /\ jobs[j].status # "succeeded"
    BY <1>5 DEF Lease, Unfinished
  <2>2. QED
    BY <2>1 DEF LeaseRespected, Unfinished
<1>6. ASSUME NEW w \in Workers, Supersede(w) PROVE LeaseRespected
  <2> DEFINE j == worker[w].job
  <2>1. /\ Holds(w) /\ Works(w) /\ worker' = [worker EXCEPT ![w] = At("dispatch")]
        /\ jobs' = Succeed(Enqueue(jobs, {Successor(j)}), j)
    BY <1>6 DEF Supersede, Works
  <2>2. j \in DOMAIN jobs
    BY <1>1, <2>1, WorkerTypeFacts
  <2> HIDE DEF j
  <2>3. DOMAIN jobs \subseteq DOMAIN jobs' /\ \A k \in DOMAIN jobs : k # j => jobs'[k] = jobs[k]
    BY <1>1, <2>1, <2>2, SupersedeJobs
  <2>4. QED
    BY <1>1, <1>2, <2>1, <2>2, <2>3, HolderStep DEF j
<1>7. ASSUME NEW w \in Workers, Materialize(w) \/ (RecordFailure(w) /\ jobs' # jobs)
      PROVE  LeaseRespected
  <2>1. /\ Holds(w) /\ Works(w) /\ worker' = [worker EXCEPT ![w] = At("dispatch")]
        /\ \E r : jobs' = [jobs EXCEPT ![worker[w].job] = r]
    BY <1>7 DEF Materialize, RecordFailure, Works, Succeed
  <2>2. worker[w].job \in DOMAIN jobs
    BY <1>1, <2>1, WorkerTypeFacts
  <2>3. DOMAIN jobs = DOMAIN jobs' /\ \A k \in DOMAIN jobs : k # worker[w].job => jobs'[k] = jobs[k]
    BY <2>1
  <2>4. QED
    BY <1>1, <1>2, <2>1, <2>2, <2>3, HolderStep
<1>8. CASE \/ \E s \in Servers : Bump(s)
           \/ \E c \in Consumers : Rollback(c) \/ Revoke(c)
           \/ \E C \in SUBSET Consumers : Save(C)
           \/ \E w \in Workers : \/ Crash(w) \/ NothingDue(w) \/ Refuse(w)
                                 \/ LoadOutbox(w) \/ Deliver(w) \/ Mark(w) \/ DispatchFails(w)
  BY <1>3, <1>8 DEF Bump, Rollback, Revoke, Save, Crash, NothingDue, Refuse, LoadOutbox, Deliver, Mark, DispatchFails
<1>9. QED
  BY <1>3, <1>4, <1>5, <1>6, <1>7, <1>8 DEF Next, Environment, WorkerStep

(* A row under a lease is changed by its holder or by the next lease only, and a done row by      *)
(* nobody: the guards of record_reconciliation_* and of the lease check in the transaction. *)
THEOREM LeasesAreRespected == Spec => LeaseIsRespected
<1>1. SurfaceInv /\ [Next]_vars => [LeaseRespected]_vars
  BY LeaseStep
<1>2. QED
  BY SurfaceInvariant, <1>1, PTL DEF Spec, LeaseIsRespected

-----------------------------------------------------------------------------
(* The refinement: each step is a step of the promise or leaves all it speaks of as it was. *)

LEMMA PromiseInit == Init => Promise!Init
  BY DEF Init, Promise!Init

LEMMA PromisePublish ==
    ASSUME NEW C, Publish(C)
    PROVE  Promise!Publish(C)
  BY DEF Publish, Promise!Publish, Published

LEMMA PromiseCompile ==
    ASSUME TypeOK, NEW C \in SUBSET Consumers, Compile(C), UNCHANGED catalogVars
    PROVE  Promise!Compile(C)
<1>1. PICK P \in SUBSET C : {c \in C : ~Bound(c)} \subseteq P /\ Publish(P)
  BY DEF Compile
<1>2. {c \in C : binding[c] = 0} \subseteq P
  BY <1>1 DEF Bound
<1>3. Promise!Publish(P)
  BY <1>1, PromisePublish
<1>4. seen' = [c \in Consumers |-> IF c \in C THEN revision ELSE seen[c]] /\ announced' = announced
  BY <1>1 DEF Compile, Publish
<1>5. QED
  BY <1>2, <1>3, <1>4 DEF Promise!Compile, catalogVars

LEMMA PromiseStep ==
    ASSUME SurfaceInv, Next
    PROVE  Promise!Next \/ UNCHANGED Promise!vars
<1>1. TypeOK /\ BatchInOrder
  BY DEF SurfaceInv
<1>2. ASSUME NEW s \in Servers, Bump(s) PROVE Promise!Next
  BY <1>2 DEF Bump, surfaceVars, outboxVars, Promise!Next, Promise!CatalogMoves
<1>3. ASSUME NEW s \in Servers, Change(s) PROVE Promise!Next
  <2>1. PICK cut \in SUBSET Consumers : (\A c \in cut : Bound(c)) /\ Publish(cut)
    BY <1>1, <1>3, ChangeUnfolds
  <2>2. cut \in SUBSET {c \in Consumers : binding[c] > 0} /\ Promise!Publish(cut)
    BY <2>1, PromisePublish DEF Bound
  <2>3. /\ revision' = [revision EXCEPT ![s] = @ + 1]
        /\ touched' = [touched EXCEPT ![s] = revision[s] + 1]
        /\ UNCHANGED <<relies, seen, announced>>
    BY <1>3, <2>1 DEF Change, Publish
  <2>4. Promise!CatalogMoves(s)
    BY <2>2, <2>3 DEF Promise!CatalogMoves
  <2>5. QED
    BY <2>4 DEF Promise!Next
<1>4. ASSUME NEW C \in SUBSET Consumers, Save(C) PROVE Promise!Next
  <2>1. Promise!Compile(C)
    BY <1>1, <1>4, PromiseCompile DEF Save
  <2>2. Promise!Author(C)
    BY <1>4, <2>1 DEF Save, Promise!Author
  <2>3. QED
    BY <2>2 DEF Promise!Next
<1>5. ASSUME NEW c \in Consumers, Rollback(c) PROVE Promise!Next
  <2>1. Promise!Publish({c})
    BY <1>5, PromisePublish DEF Rollback
  <2>2. binding[c] > 0 /\ UNCHANGED <<revision, touched, relies, seen, announced>>
    BY <1>5 DEF Rollback, Bound, Publish, catalogVars
  <2>3. Promise!Rebind(c)
    BY <2>1, <2>2 DEF Promise!Rebind
  <2>4. QED
    BY <2>3 DEF Promise!Next
<1>6. ASSUME NEW c \in Consumers, Revoke(c) PROVE Promise!Next
  <2>1. Promise!Unbind(c)
    BY <1>6 DEF Revoke, Bound, catalogVars, Promise!Unbind
  <2>2. QED
    BY <2>1 DEF Promise!Next
<1>7. ASSUME NEW w \in Workers, Materialize(w) PROVE Promise!Next
  <2> DEFINE c == worker[w].job.consumer
  <2>1. c \in Consumers
    BY <1>1, <1>7, WorkerTypeFacts DEF Materialize, Works, Job
  <2>2. Compile({c}) /\ UNCHANGED catalogVars /\ relies' = relies /\ binding[c] > 0
    BY <1>7 DEF Materialize, Bound
  <2> HIDE DEF c
  <2>3. Promise!CatchUp(c)
    BY <1>1, <2>1, <2>2, PromiseCompile DEF Promise!CatchUp
  <2>4. QED
    BY <2>1, <2>3 DEF Promise!Next
<1>8. ASSUME NEW w \in Workers, Deliver(w) PROVE Promise!Next
  <2>1. PICK e \in worker[w].batch : announced' = announced \cup {e}
    BY <1>8 DEF Deliver
  <2>2. e \in outbox
    BY <1>1, <2>1 DEF BatchInOrder
  <2>3. Promise!Announce
    BY <1>8, <2>1, <2>2 DEF Deliver, catalogVars, surfaceVars, Promise!Announce
  <2>4. QED
    BY <2>3 DEF Promise!Next
<1>9. ASSUME NEW w \in Workers,
             \/ Crash(w) \/ NothingDue(w) \/ Refuse(w) \/ RecordFailure(w) \/ Supersede(w)
             \/ LoadOutbox(w) \/ Mark(w) \/ DispatchFails(w)
             \/ \E j \in DOMAIN jobs : Lease(w, j)
      PROVE  UNCHANGED Promise!vars
  BY <1>9 DEF Crash, NothingDue, Refuse, RecordFailure, Supersede, LoadOutbox, Mark, DispatchFails, Lease,
              catalogVars, surfaceVars, outboxVars, Promise!vars
<1>10. QED
  BY <1>2, <1>3, <1>4, <1>5, <1>6, <1>7, <1>8, <1>9 DEF Next, Environment, WorkerStep

(* Jobs, leases, supersedes, crashes and batches implement a consumer that is compiled in one step *)
(* from the catalog of that moment (the safety half of ImplementsPromise). *)
THEOREM ImplementsPromiseSafely == Spec => Promise!Safety
<1>1. SurfaceInv /\ [Next]_vars => [Promise!Next]_(Promise!vars)
  <2>1. ASSUME SurfaceInv, Next PROVE Promise!Next \/ UNCHANGED Promise!vars
    BY <2>1, PromiseStep
  <2>2. UNCHANGED vars => UNCHANGED Promise!vars
    BY DEF vars, Promise!vars
  <2>3. QED
    BY <2>1, <2>2
<1>2. QED
  BY SurfaceInvariant, PromiseInit, <1>1, PTL DEF Spec, Promise!Safety
=============================================================================
