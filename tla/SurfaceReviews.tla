--------------------------- MODULE SurfaceReviews ---------------------------
(***************************************************************************)
(* What the surface of one consumer may contain: the policy, the review    *)
(* items and the compilation, for the capabilities of one server.          *)
(*                                                                         *)
(* A catalog commit removes from the surface what it made unsafe and       *)
(* enqueues a job (SurfaceReconciliation says why it runs in the end).     *)
(* The job compiles with the change of every ref against the baseline, the *)
(* last publication that was not such a contraction.  Every other          *)
(* compilation (a management save, a decision on a review) knows of no     *)
(* change but those the open review items name.  A compilation publishes   *)
(* what the policy and the decisions allow and opens an item for what must *)
(* be reviewed; it fails as a whole when an item it needs already exists   *)
(* for another change.                                                     *)
(*                                                                         *)
(* The versions of a ref differ in their effective definition: a change of *)
(* evidence or metadata only is recorded and needs no review.  Built-in    *)
(* tools and renamed refs are left out.                                    *)
(***************************************************************************)
EXTENDS Integers, FiniteSets

CONSTANTS
    Refs,               \* capability refs of the server
    Versions,           \* capability ids a ref can have
    None,               \* no version, no decision
    MaxObservations,    \* bound: catalog commits that change something
    MaxSaves,           \* bound: changes of the authoring relationships
    MaxRollbacks,       \* bound: rollbacks to an earlier publication
    MaxDecisions        \* bound: decisions on review items

ASSUME NoneAssumption == None \notin Versions /\ None \notin {"approve", "reject", "keep", "remove"}

VARIABLES
    state,          \* capability_refs.state of each ref, "new" before its first observation
    current,        \* capability_ref_current: it stays when the ref goes away
    generation,     \* state_generation: one more each time a ref goes away or comes back
    owners,         \* the authoring relationships: refs picked one by one, and a server-level one
    surface,        \* the entries of the active publication
    baseline,       \* what the next job compares with
    contracted,     \* the active publication is a safe contraction
    published,      \* the manifests a rollback may name
    items,          \* surface_review_items, by ref and target key
    due,            \* jobs that have not succeeded
    spent           \* what is spent of the bounds

catalog == <<state, current, generation>>
publication == <<surface, baseline, contracted, published>>
vars == <<state, current, generation, owners, surface, baseline, contracted, published, items, due, spent>>

-----------------------------------------------------------------------------
States == {"new", "active", "unresolved"}
Policies == {"none", "follow", "review"}
Classes == {"unchanged", "changed", "new", "missing", "reappeared"}
Decisions == {None, "approve", "reject", "keep", "remove"}

Manifest == [Refs -> Versions \cup {None}]

Empty == [r \in Refs |-> None]

Owners == [picked : SUBSET {r \in Refs : state[r] # "new"}, server : Policies]

Wanted(o) == o.picked \cup IF o.server = "none" THEN {} ELSE {r \in Refs : state[r] # "new"}

(* The strictest of what the relationships of the ref say of such a change. *)
Action(o, r, class) ==
    CASE class = "unchanged" -> "record"
      [] class \in {"changed", "missing"} -> "review"
      [] class = "reappeared" -> IF r \in o.picked \/ o.server = "review" THEN "review" ELSE "follow"
      [] class = "new" -> IF o.server = "none" THEN "record" ELSE o.server

(* What a review is about. *)
TargetKey(r, class) ==
    CASE state[r] = "unresolved" -> <<"missing", None, generation[r]>>
      [] state[r] # "unresolved" /\ class = "reappeared" -> <<"reappeared", current[r], generation[r]>>
      [] OTHER -> <<"capability", current[r], 0>>

Open(its, r) == {i \in DOMAIN its : i[1] = r /\ its[i].open}

(* The changes a job finds, and those the open items tell any other compilation of. *)
JobClass ==
    [r \in Refs |->
        CASE state[r] = "unresolved" -> "missing"
          [] state[r] # "unresolved" /\ baseline[r] \notin {None, current[r]} -> "changed"
          [] state[r] # "unresolved" /\ baseline[r] = None ->
                IF generation[r] > 1 THEN "reappeared" ELSE "new"
          [] OTHER -> "unchanged"]

ItemClass(its) ==
    [r \in Refs |->
        CASE state[r] = "unresolved" -> "missing"
          [] state[r] # "unresolved" /\ Open(its, r) # {} -> its[CHOOSE i \in Open(its, r) : TRUE].class
          [] OTHER -> "unchanged"]

-----------------------------------------------------------------------------
(* One compilation: o and its are the relationships and the items it reads, class the changes it is *)
(* told of and before the manifest a new item refers to. *)
Id(r, class) == <<r, TargetKey(r, class[r])>>

Decision(its, i) == IF i \in DOMAIN its /\ its[i].open THEN its[i].decision ELSE None

Reviewed(o, class) == {r \in Wanted(o) : Action(o, r, class[r]) = "review"}

PublishesPending(o, its, class, r) ==    \* bug: a review keeps out only what was decided against
    /\ r \in Wanted(o) /\ state[r] = "active"
    /\ CASE Action(o, r, class[r]) = "record" -> class[r] # "new"
         [] Action(o, r, class[r]) = "follow" -> TRUE
         [] OTHER -> Decision(its, Id(r, class)) # "reject"

Publishes(o, its, class, r) ==
    /\ r \in Wanted(o) /\ state[r] = "active"
    /\ CASE Action(o, r, class[r]) = "record" -> class[r] # "new"
         [] Action(o, r, class[r]) = "follow" -> TRUE
         [] OTHER -> Decision(its, Id(r, class)) = "approve"

Publishable(o, its, class) == [r \in Refs |-> IF Publishes(o, its, class, r) THEN current[r] ELSE None]

Proposed(o) == [r \in Refs |-> IF r \in Wanted(o) /\ state[r] = "active" THEN current[r] ELSE None]

Candidates(o, its, class) == {r \in Reviewed(o, class) : Decision(its, Id(r, class)) = None}

NothingToDo(o, its, class) ==
    /\ Publishable(o, its, class) = surface /\ Proposed(o) = surface
    /\ \A r \in Wanted(o) : class[r] = "unchanged"

Draft(r, class, before) ==
    [before |-> before[r], class |-> class[r], decision |-> None, open |-> TRUE]

(* An item is found again by its ref and key, and must be for the same change. *)
Mismatch(o, its, class, before) ==
    \E r \in Candidates(o, its, class) :
        /\ Id(r, class) \in DOMAIN its
        /\ \/ its[Id(r, class)].before # before[r]
           \/ its[Id(r, class)].class # class[r]

ItemizeMore(o, its, class, before) ==    \* bug: what is not reviewed any more stays open
    LET asked == {Id(r, class) : r \in Candidates(o, its, class)}
    IN  [i \in DOMAIN its \cup asked |->
            IF i \notin DOMAIN its THEN Draft(i[1], class, before)
            ELSE [its[i] EXCEPT !.open = @ \/ i \in asked]]

(* The items of this compilation: new ones, obsolete ones that come back with the decision they had, *)
(* and those its reviews are still about.  All others become obsolete. *)
Itemize(o, its, class, before) ==
    LET asked == {Id(r, class) : r \in Candidates(o, its, class)}
        kept  == {Id(r, class) : r \in Reviewed(o, class)}
    IN  [i \in DOMAIN its \cup asked |->
            IF i \notin DOMAIN its THEN Draft(i[1], class, before)
            ELSE [its[i] EXCEPT !.open = (@ /\ i \in kept) \/ i \in asked]]

Compile(o, its, class, before) ==
    /\ owners' = o
    /\ IF NothingToDo(o, its, class)
       THEN items' = its /\ UNCHANGED publication
       ELSE /\ ~Mismatch(o, its, class, before)
            /\ items' = Itemize(o, its, class, before)
            /\ surface' = Publishable(o, its, class)
            /\ IF surface' = surface THEN UNCHANGED <<baseline, contracted>>
                                     ELSE baseline' = surface' /\ contracted' = FALSE
            /\ published' = published \cup {surface'}
    /\ UNCHANGED catalog

Spend(what, limit) == spent[what] < limit /\ spent' = [spent EXCEPT ![what] = @ + 1]

-----------------------------------------------------------------------------
Init ==
    /\ state = [r \in Refs |-> "new"]
    /\ current = Empty
    /\ generation = [r \in Refs |-> 0]
    /\ owners \in [picked : {{}}, server : Policies]
    /\ surface = Empty /\ baseline = Empty /\ contracted = FALSE /\ published = {Empty}
    /\ items = [i \in {} |-> {}]
    /\ due = 0
    /\ spent = [observations |-> 0, saves |-> 0, rollbacks |-> 0, decisions |-> 0]

(* A complete listing.  Entries it makes unsafe leave the surface in the same transaction. *)
Observe(listing) ==
    /\ Spend("observations", MaxObservations)
    /\ state' = [r \in Refs |-> IF listing[r] # None THEN "active"
                                ELSE IF state[r] = "active" THEN "unresolved" ELSE state[r]]
    /\ current' = [r \in Refs |-> IF listing[r] # None THEN listing[r] ELSE current[r]]
    /\ generation' = [r \in Refs |->
            IF <<state[r], state'[r]>> \in {<<"active", "unresolved">>, <<"unresolved", "active">>}
            THEN generation[r] + 1 ELSE generation[r]]
    /\ <<state', current'>> # <<state, current>>
    /\ LET safe == [r \in Refs |-> IF state'[r] = "active" /\ current'[r] = surface[r]
                                   THEN surface[r] ELSE None]
       IN  IF safe # surface
           THEN /\ surface' = safe
                /\ baseline' = IF contracted THEN baseline ELSE surface
                /\ contracted' = TRUE
                /\ published' = published \cup {safe}
           ELSE UNCHANGED publication
    /\ due' = due + IF surface' # surface \/ owners.picked # {} \/ owners.server # "none" THEN 1 ELSE 0
    /\ UNCHANGED <<owners, items>>

RunJobAgain ==    \* bug: a job that has succeeded is leased again
    /\ due' = due - 1
    /\ Compile(owners, items, JobClass, baseline)
    /\ UNCHANGED spent

(* A job that is not superseded: it is compiled against the catalog of this moment.  A failed one *)
(* stays and is retried. *)
RunJob ==
    /\ due > 0 /\ due' = due - 1
    /\ Compile(owners, items, JobClass, baseline)
    /\ UNCHANGED spent

(* A save of profile, direct exposure or client settings. *)
Save(o) ==
    /\ Spend("saves", MaxSaves)
    /\ o \in Owners
    /\ Compile(o, items, ItemClass(items), surface)
    /\ UNCHANGED due

Decided(i, d) == [items EXCEPT ![i].decision = d]

(* Approve or reject the target of an item that is still open. *)
Resolve(i, d) ==
    /\ Spend("decisions", MaxDecisions)
    /\ items[i].open /\ i[2][1] \in {"capability", "reappeared"}
    /\ Compile(owners, Decided(i, d), ItemClass(Decided(i, d)), surface)
    /\ UNCHANGED due

(* Keep a relationship with a missing ref, or remove one of those that want it. *)
KeepIntent(i) ==
    /\ Spend("decisions", MaxDecisions)
    /\ items[i].open /\ i[2][1] = "missing"
    /\ Compile(owners, Decided(i, "keep"), ItemClass(Decided(i, "keep")), surface)
    /\ UNCHANGED due

(* What others still want is pending again, without a decision; the rest is obsolete. *)
Removed(i, o) == [Decided(i, "remove") EXCEPT ![i] =
    IF i[1] \in Wanted(o) THEN [@ EXCEPT !.decision = None] ELSE [@ EXCEPT !.open = FALSE]]

RemoveIntent(i, o) ==
    /\ Spend("decisions", MaxDecisions)
    /\ items[i].open /\ i[2][1] = "missing"
    /\ \/ i[1] \in owners.picked /\ o = [owners EXCEPT !.picked = @ \ {i[1]}]
       \/ owners.server # "none" /\ o = [owners EXCEPT !.server = "none"]
    /\ Compile(o, Removed(i, o), ItemClass(Removed(i, o)), surface)
    /\ UNCHANGED due

RollbackToAny(m) ==    \* bug: the entries are not compared with the catalog
    /\ Spend("rollbacks", MaxRollbacks)
    /\ surface' = m
    /\ baseline' = IF contracted /\ m = surface THEN baseline ELSE m
    /\ contracted' = FALSE
    /\ UNCHANGED <<catalog, owners, published, items, due>>

(* A rollback names a publication, not a manifest: one with the entries of the active publication is *)
(* published again, and a job looks through it to the contraction before it. *)
Rollback(m) ==
    /\ Spend("rollbacks", MaxRollbacks)
    /\ \A r \in Refs : m[r] # None => state[r] = "active" /\ current[r] = m[r]
    /\ surface' = m
    /\ baseline' = IF contracted /\ m = surface THEN baseline ELSE m
    /\ contracted' = FALSE
    /\ UNCHANGED <<catalog, owners, published, items, due>>

Next ==
    \/ \E listing \in Manifest : Observe(listing)
    \/ RunJob
    \/ \E o \in Owners : Save(o)
    \/ \E i \in DOMAIN items, d \in {"approve", "reject"} : Resolve(i, d)
    \/ \E i \in DOMAIN items : KeepIntent(i)
    \/ \E i \in DOMAIN items, o \in Owners : RemoveIntent(i, o)
    \/ \E m \in published : Rollback(m)

Spec == Init /\ [][Next]_vars

-----------------------------------------------------------------------------
Item == [before : Versions \cup {None}, class : Classes, decision : Decisions, open : BOOLEAN]

TypeOK ==
    /\ state \in [Refs -> States]
    /\ current \in Manifest
    /\ generation \in [Refs -> Nat]
    /\ owners \in [picked : SUBSET Refs, server : Policies]
    /\ surface \in Manifest /\ baseline \in Manifest /\ contracted \in BOOLEAN
    /\ published \in SUBSET Manifest
    /\ \A i \in DOMAIN items : items[i] \in Item
    /\ due \in Nat

(* No list or call is ever served an entry the catalog has replaced or lost: the contraction runs in *)
(* the transaction of the commit, and no compilation or rollback brings such an entry back. *)
SurfaceIsCurrent ==
    \A r \in Refs : surface[r] # None => state[r] = "active" /\ surface[r] = current[r]

(* Once the jobs are done, a capability has at most one open review, and that one is about the *)
(* target the catalog has now. *)
ReviewsFollowCatalog ==
    due = 0 /\ spent.rollbacks = 0 => \A r \in Wanted(owners) : \A i \in Open(items, r) :
                  i[2] \in {TargetKey(r, class) : class \in Classes} /\ Open(items, r) = {i}

(* No compilation publishes a target whose review is open and not approved when it is done: what an *)
(* operator is being asked about is not served meanwhile.  Only a rollback may. *)
PendingIsNotPublished ==
    [][\A r \in Refs :
        spent'.rollbacks = spent.rollbacks /\ surface'[r] \notin {None, surface[r]} =>
            \A i \in DOMAIN items' : i[1] = r /\ items'[i].open => items'[i].decision = "approve"]_vars
=============================================================================
