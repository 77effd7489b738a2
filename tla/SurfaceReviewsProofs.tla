------------------------ MODULE SurfaceReviewsProofs ------------------------
(***************************************************************************)
(* Theorems about SurfaceReviews, for any refs, versions and bounds: the   *)
(* state keeps its type, no entry of a surface is ever older than the      *)
(* catalog, no compilation publishes what is still under review, and what  *)
(* is under review is what the catalog has.                                *)
(***************************************************************************)
EXTENDS SurfaceReviews, TLAPS

(* TypeOK, with where the items are and what is spent. *)
Typed ==
    /\ TypeOK
    /\ \A i \in DOMAIN items : i[1] \in Refs
    /\ spent \in [{"observations", "saves", "rollbacks", "decisions"} -> Nat]

Relationships == [picked : SUBSET Refs, server : Policies]

(* The class functions of both kinds of compilation. *)
LEMMA ClassesTyped ==
    ASSUME NEW its, \A i \in DOMAIN its : its[i] \in Item
    PROVE  JobClass \in [Refs -> Classes] /\ ItemClass(its) \in [Refs -> Classes]
<1>1. JobClass \in [Refs -> Classes]
    BY DEF JobClass, Classes
<1>2. ASSUME NEW r \in Refs, Open(its, r) # {}
      PROVE  its[CHOOSE i \in Open(its, r) : TRUE].class \in Classes
    <2> DEFINE j == CHOOSE i \in Open(its, r) : TRUE
    <2>1. j \in Open(its, r)
        BY <1>2
    <2>2. its[j] \in Item
        BY <2>1 DEF Open
    <2> QED
        BY <2>2 DEF Item
<1>3. ItemClass(its) \in [Refs -> Classes]
    BY <1>2 DEF ItemClass, Classes
<1> QED
    BY <1>1, <1>3

(* An item a compilation leaves open keeps its decision, and a new one has none. *)
LEMMA ItemizeTyped ==
    ASSUME NEW o, NEW its, \A i \in DOMAIN its : its[i] \in Item /\ i[1] \in Refs,
           NEW class \in [Refs -> Classes], NEW before \in Manifest,
           Wanted(o) \subseteq Refs
    PROVE  \A i \in DOMAIN Itemize(o, its, class, before) :
               Itemize(o, its, class, before)[i] \in Item /\ i[1] \in Refs
<1> DEFINE asked == {Id(r, class) : r \in Candidates(o, its, class)}
           kept  == {Id(r, class) : r \in Reviewed(o, class)}
           new == Itemize(o, its, class, before)
<1>1. new = [i \in DOMAIN its \cup asked |->
                IF i \notin DOMAIN its THEN Draft(i[1], class, before)
                ELSE [its[i] EXCEPT !.open = (@ /\ i \in kept) \/ i \in asked]]
    BY DEF Itemize
<1> SUFFICES ASSUME NEW i \in DOMAIN its \cup asked
             PROVE  new[i] \in Item /\ i[1] \in Refs
    BY <1>1
<1>2. CASE i \in DOMAIN its
    <2>1. its[i] \in Item /\ i[1] \in Refs
        BY <1>2
    <2>2. new[i] = [its[i] EXCEPT !.open = (its[i].open /\ i \in kept) \/ i \in asked]
        BY <1>1, <1>2
    <2> HIDE DEF new, asked, kept
    <2> QED
        BY <2>1, <2>2 DEF Item
<1>3. CASE i \notin DOMAIN its
    <2>1. PICK r \in Candidates(o, its, class) : i = Id(r, class)
        BY <1>3
    <2>2. r \in Refs /\ i[1] = r
        BY <2>1 DEF Candidates, Reviewed, Id
    <2>3. new[i] = Draft(r, class, before)
        BY <1>1, <1>3, <2>2
    <2>4. Draft(r, class, before) \in Item
        BY <2>2 DEF Draft, Item, Manifest, Decisions
    <2> HIDE DEF new
    <2> QED
        BY <2>2, <2>3, <2>4
<1> QED
    BY <1>2, <1>3

(* Whatever it is told, a compilation keeps the types and publishes current entries only. *)
LEMMA CompileTyped ==
    ASSUME Typed, NEW o \in Relationships, NEW its, \A i \in DOMAIN its : its[i] \in Item /\ i[1] \in Refs,
           NEW class \in [Refs -> Classes], NEW before \in Manifest,
           Compile(o, its, class, before)
    PROVE  /\ state' = state /\ current' = current /\ generation' = generation
           /\ owners' \in Relationships
           /\ surface' \in Manifest /\ baseline' \in Manifest /\ contracted' \in BOOLEAN
           /\ published' \in SUBSET Manifest
           /\ \A i \in DOMAIN items' : items'[i] \in Item /\ i[1] \in Refs
<1>1. o \in Relationships /\ Wanted(o) \subseteq Refs
    BY DEF Relationships, Wanted
<1>2. Publishable(o, its, class) \in Manifest
    BY DEF Publishable, Manifest, Typed, TypeOK
<1>3. owners' = o /\ state' = state /\ current' = current /\ generation' = generation
    BY DEF Compile, catalog
<1>4. CASE NothingToDo(o, its, class)
    BY <1>1, <1>3, <1>4 DEF Compile, publication, Typed, TypeOK, Relationships
<1>5. CASE ~NothingToDo(o, its, class)
    <2>1. /\ items' = Itemize(o, its, class, before)
          /\ surface' = Publishable(o, its, class)
          /\ IF surface' = surface THEN UNCHANGED <<baseline, contracted>>
                                   ELSE baseline' = surface' /\ contracted' = FALSE
          /\ published' = published \cup {surface'}
        BY <1>5 DEF Compile
    <2>2. \A i \in DOMAIN items' : items'[i] \in Item /\ i[1] \in Refs
        BY <1>1, <2>1, ItemizeTyped
    <2> QED
        BY <1>1, <1>2, <1>3, <2>1, <2>2 DEF Typed, TypeOK
<1> QED
    BY <1>4, <1>5

(* A decision leaves the items what they are. *)
LEMMA DecidedTyped ==
    ASSUME Typed, NEW i \in DOMAIN items, NEW d \in Decisions
    PROVE  \A k \in DOMAIN Decided(i, d) : Decided(i, d)[k] \in Item /\ k[1] \in Refs
<1>1. \A k \in DOMAIN items : items[k] \in Item /\ k[1] \in Refs
    BY DEF Typed, TypeOK
<1>2. Decided(i, d) = [k \in DOMAIN items |->
                          IF k = i THEN [items[i] EXCEPT !.decision = d] ELSE items[k]]
    BY DEF Decided
<1>3. [items[i] EXCEPT !.decision = d] \in Item
    BY <1>1 DEF Item
<1> QED
    BY <1>1, <1>2, <1>3

(* The items an intent that is removed leaves. *)
LEMMA RemovedTyped ==
    ASSUME Typed, NEW i \in DOMAIN items, NEW o
    PROVE  \A k \in DOMAIN Removed(i, o) : Removed(i, o)[k] \in Item /\ k[1] \in Refs
<1> DEFINE its == Decided(i, "remove")
<1>1. \A k \in DOMAIN its : its[k] \in Item /\ k[1] \in Refs
    BY DecidedTyped DEF Decisions
<1>2. i \in DOMAIN its
    BY DEF Decided
<1> HIDE DEF its
<1> DEFINE left == IF i[1] \in Wanted(o) THEN [its[i] EXCEPT !.decision = None] ELSE [its[i] EXCEPT !.open = FALSE]
<1>3. Removed(i, o) = [k \in DOMAIN its |-> IF k = i THEN left ELSE its[k]]
    BY DEF Removed, its
<1>4. left \in Item
    <2>1. its[i] \in Item
        BY <1>1, <1>2
    <2>2. [its[i] EXCEPT !.decision = None] \in Item /\ [its[i] EXCEPT !.open = FALSE] \in Item
        BY <2>1 DEF Item, Decisions
    <2> QED
        BY <2>2
<1> HIDE DEF left
<1> QED
    BY <1>1, <1>3, <1>4

-----------------------------------------------------------------------------
LEMMA SpendTyped ==
    ASSUME Typed, NEW what \in {"observations", "saves", "rollbacks", "decisions"}, NEW limit,
           Spend(what, limit)
    PROVE  spent' \in [{"observations", "saves", "rollbacks", "decisions"} -> Nat]
    BY DEF Typed, Spend

LEMMA ObserveTyped ==
    ASSUME Typed, NEW listing \in Manifest, Observe(listing)
    PROVE  Typed'
<1>1. spent' \in [{"observations", "saves", "rollbacks", "decisions"} -> Nat]
    BY SpendTyped DEF Observe
<1>2. state' \in [Refs -> States] /\ current' \in Manifest /\ generation' \in [Refs -> Nat]
    BY DEF Observe, Typed, TypeOK, States, Manifest
<1>3. surface' \in Manifest /\ baseline' \in Manifest /\ contracted' \in BOOLEAN
      /\ published' \in SUBSET Manifest
    <2> DEFINE safe == [r \in Refs |-> IF state'[r] = "active" /\ current'[r] = surface[r]
                                       THEN surface[r] ELSE None]
    <2>1. safe \in Manifest
        BY DEF Manifest, Typed, TypeOK
    <2>2. CASE safe # surface
        <3>1. /\ surface' = safe
              /\ baseline' = IF contracted THEN baseline ELSE surface
              /\ contracted' = TRUE
              /\ published' = published \cup {safe}
            BY <2>2 DEF Observe
        <3> HIDE DEF safe
        <3> QED
            BY <2>1, <3>1 DEF Typed, TypeOK
    <2>3. CASE safe = surface
        BY <2>3 DEF Observe, publication, Typed, TypeOK
    <2> QED
        BY <2>2, <2>3
<1>4. due' \in Nat
    BY DEF Observe, Typed, TypeOK
<1>5. owners' = owners /\ items' = items
    BY DEF Observe
<1> QED
    BY <1>1, <1>2, <1>3, <1>4, <1>5 DEF Typed, TypeOK

LEMMA RollbackTyped ==
    ASSUME Typed, NEW m \in published, Rollback(m)
    PROVE  Typed'
<1>1. spent' \in [{"observations", "saves", "rollbacks", "decisions"} -> Nat]
    BY SpendTyped DEF Rollback
<1>2. surface' \in Manifest /\ baseline' \in Manifest /\ contracted' \in BOOLEAN
    BY DEF Rollback, Typed, TypeOK
<1> QED
    BY <1>1, <1>2 DEF Rollback, catalog, Typed, TypeOK

(* The items a step that is not an observation or a rollback compiles with, and what it is told. *)
LEMMA StepCompiles ==
    ASSUME Typed, Next,
           ~ \E listing \in Manifest : Observe(listing),
           ~ \E m \in published : Rollback(m)
    PROVE  \E its : \E o \in Relationships, before \in Manifest, class \in [Refs -> Classes] :
               /\ \A i \in DOMAIN its : its[i] \in Item /\ i[1] \in Refs
               /\ Compile(o, its, class, before)
               /\ due' \in Nat
               /\ spent' \in [{"observations", "saves", "rollbacks", "decisions"} -> Nat]
<1> DEFINE Result == \E its : \E o \in Relationships, before \in Manifest, class \in [Refs -> Classes] :
               /\ \A i \in DOMAIN its : its[i] \in Item /\ i[1] \in Refs
               /\ Compile(o, its, class, before)
               /\ due' \in Nat
               /\ spent' \in [{"observations", "saves", "rollbacks", "decisions"} -> Nat]
<1>1. /\ owners \in Relationships /\ Owners \subseteq Relationships
      /\ surface \in Manifest /\ baseline \in Manifest /\ due \in Nat
      /\ spent \in [{"observations", "saves", "rollbacks", "decisions"} -> Nat]
      /\ \A i \in DOMAIN items : items[i] \in Item /\ i[1] \in Refs
    BY DEF Typed, TypeOK, Relationships, Owners
<1>2. CASE RunJob
    <2>1. due > 0 /\ due' = due - 1 /\ spent' = spent
        BY <1>2 DEF RunJob
    <2>2. Compile(owners, items, JobClass, baseline)
        BY <1>2 DEF RunJob
    <2>3. JobClass \in [Refs -> Classes]
        BY <1>1, ClassesTyped
    <2>4. due' \in Nat
        BY <1>1, <2>1
    <2> QED
        BY <1>1, <2>1, <2>2, <2>3, <2>4
<1>3. ASSUME NEW o \in Owners, Save(o)
      PROVE  Result
    <2>1. Compile(o, items, ItemClass(items), surface) /\ due' = due
        BY <1>3 DEF Save
    <2>2. ItemClass(items) \in [Refs -> Classes]
        BY <1>1, ClassesTyped
    <2>3. spent' \in [{"observations", "saves", "rollbacks", "decisions"} -> Nat]
        BY <1>3, SpendTyped DEF Save
    <2>4. o \in Relationships
        BY <1>1
    <2> QED
        BY <1>1, <2>1, <2>2, <2>3, <2>4
<1>4. ASSUME NEW i \in DOMAIN items, NEW d \in Decisions,
             Compile(owners, Decided(i, d), ItemClass(Decided(i, d)), surface), due' = due,
             Spend("decisions", MaxDecisions)
      PROVE  Result
    <2>1. \A k \in DOMAIN Decided(i, d) : Decided(i, d)[k] \in Item /\ k[1] \in Refs
        BY DecidedTyped
    <2>2. ItemClass(Decided(i, d)) \in [Refs -> Classes]
        BY <2>1, ClassesTyped
    <2>3. spent' \in [{"observations", "saves", "rollbacks", "decisions"} -> Nat]
        BY <1>4, SpendTyped
    <2> QED
        BY <1>1, <1>4, <2>1, <2>2, <2>3
<1>5. ASSUME NEW i \in DOMAIN items, NEW d \in {"approve", "reject"}, Resolve(i, d)
      PROVE  Result
    BY <1>4, <1>5 DEF Resolve, Decisions
<1>6. ASSUME NEW i \in DOMAIN items, KeepIntent(i)
      PROVE  Result
    BY <1>4, <1>6 DEF KeepIntent, Decisions
<1>7. ASSUME NEW i \in DOMAIN items, NEW o \in Owners, RemoveIntent(i, o)
      PROVE  Result
    <2>1. Compile(o, Removed(i, o), ItemClass(Removed(i, o)), surface) /\ due' = due
        BY <1>7 DEF RemoveIntent
    <2>2. \A k \in DOMAIN Removed(i, o) : Removed(i, o)[k] \in Item /\ k[1] \in Refs
        BY RemovedTyped
    <2>3. ItemClass(Removed(i, o)) \in [Refs -> Classes]
        BY <2>2, ClassesTyped
    <2>4. spent' \in [{"observations", "saves", "rollbacks", "decisions"} -> Nat]
        BY <1>7, SpendTyped DEF RemoveIntent
    <2>5. o \in Relationships
        BY <1>1
    <2> QED
        BY <1>1, <2>1, <2>2, <2>3, <2>4, <2>5
<1> HIDE DEF Result
<1>8. Result
    <2>1. CASE RunJob
        BY <1>2, <2>1 DEF Result
    <2> QED
        BY <1>3, <1>5, <1>6, <1>7, <2>1 DEF Next
<1> QED
    BY <1>8 DEF Result

LEMMA TypedStep ==
    ASSUME Typed, [Next]_vars
    PROVE  Typed'
<1>1. CASE UNCHANGED vars
    BY <1>1 DEF vars, Typed, TypeOK
<1>2. ASSUME NEW listing \in Manifest, Observe(listing)
      PROVE  Typed'
    BY <1>2, ObserveTyped
<1>3. ASSUME NEW m \in published, Rollback(m)
      PROVE  Typed'
    BY <1>3, RollbackTyped
<1>4. CASE /\ Next
           /\ ~ \E listing \in Manifest : Observe(listing)
           /\ ~ \E m \in published : Rollback(m)
    <2>1a. PICK its : \E o \in Relationships, before \in Manifest, class \in [Refs -> Classes] :
               /\ \A i \in DOMAIN its : its[i] \in Item /\ i[1] \in Refs
               /\ Compile(o, its, class, before)
               /\ due' \in Nat
               /\ spent' \in [{"observations", "saves", "rollbacks", "decisions"} -> Nat]
        BY <1>4, StepCompiles
    <2>1. PICK o \in Relationships, before \in Manifest, class \in [Refs -> Classes] :
               /\ \A i \in DOMAIN its : its[i] \in Item /\ i[1] \in Refs
               /\ Compile(o, its, class, before)
               /\ due' \in Nat
               /\ spent' \in [{"observations", "saves", "rollbacks", "decisions"} -> Nat]
        BY <2>1a
    <2>2. /\ state' = state /\ current' = current /\ generation' = generation
          /\ owners' \in Relationships
          /\ surface' \in Manifest /\ baseline' \in Manifest /\ contracted' \in BOOLEAN
          /\ published' \in SUBSET Manifest
          /\ \A i \in DOMAIN items' : items'[i] \in Item /\ i[1] \in Refs
        BY <2>1, CompileTyped
    <2> QED
        BY <2>1, <2>2 DEF Typed, TypeOK, Relationships
<1> QED
    BY <1>1, <1>2, <1>3, <1>4

LEMMA TypedInit == Init => Typed
<1> SUFFICES ASSUME Init PROVE Typed
    OBVIOUS
<1>1. spent \in [{"observations", "saves", "rollbacks", "decisions"} -> Nat]
    BY DEF Init
<1>2. DOMAIN items = {}
    BY DEF Init
<1>3. owners \in [picked : SUBSET Refs, server : Policies]
    BY DEF Init
<1>4. Empty \in Manifest /\ {Empty} \in SUBSET Manifest
    BY DEF Empty, Manifest
<1> QED
    BY <1>1, <1>2, <1>3, <1>4 DEF Init, Typed, TypeOK, States

(* The state always has its type. *)
THEOREM ReviewsTypeCorrect == Spec => []TypeOK
<1>1. Typed => TypeOK
    BY DEF Typed
<1> QED
    BY <1>1, TypedInit, TypedStep, PTL DEF Spec

-----------------------------------------------------------------------------
(* The surface only ever holds active entries at their current version: a commit cuts in its own *)
(* transaction what it makes unsafe, compilations publish current versions, and a rollback is *)
(* compared with the catalog. *)
THEOREM SurfaceStaysCurrent == Spec => []SurfaceIsCurrent
<1>1. Init => SurfaceIsCurrent
    BY DEF Init, SurfaceIsCurrent, Empty
<1>2. ASSUME Typed, SurfaceIsCurrent, [Next]_vars
      PROVE  SurfaceIsCurrent'
    <2>1. CASE UNCHANGED vars
        BY <1>2, <2>1 DEF vars, SurfaceIsCurrent
    <2>2. ASSUME NEW listing \in Manifest, Observe(listing)
          PROVE  SurfaceIsCurrent'
        <3> DEFINE safe == [r \in Refs |-> IF state'[r] = "active" /\ current'[r] = surface[r]
                                           THEN surface[r] ELSE None]
        <3>1. surface' = safe
            BY <2>2 DEF Observe, publication
        <3>2. \A r \in Refs : safe[r] # None => state'[r] = "active" /\ safe[r] = current'[r]
            OBVIOUS
        <3> HIDE DEF safe
        <3> QED
            BY <3>1, <3>2 DEF SurfaceIsCurrent
    <2>3. ASSUME NEW m \in published, Rollback(m)
          PROVE  SurfaceIsCurrent'
        BY <2>3 DEF Rollback, catalog, SurfaceIsCurrent
    <2>4. CASE /\ Next
               /\ ~ \E listing \in Manifest : Observe(listing)
               /\ ~ \E m \in published : Rollback(m)
        <3>1a. PICK its : \E o \in Relationships, before \in Manifest, class \in [Refs -> Classes] :
                   Compile(o, its, class, before)
            BY <1>2, <2>4, StepCompiles
        <3>1. PICK o \in Relationships, before \in Manifest, class \in [Refs -> Classes] :
                   Compile(o, its, class, before)
            BY <3>1a
        <3>2. state' = state /\ current' = current
            BY <3>1 DEF Compile, catalog
        <3>3. surface' \in {surface, Publishable(o, its, class)}
            BY <3>1 DEF Compile, publication
        <3>4. \A r \in Refs : Publishable(o, its, class)[r] # None =>
                  state[r] = "active" /\ Publishable(o, its, class)[r] = current[r]
            BY DEF Publishable, Publishes
        <3> QED
            BY <1>2, <3>2, <3>3, <3>4 DEF SurfaceIsCurrent
    <2> QED
        BY <1>2, <2>1, <2>2, <2>3, <2>4
<1>3. Spec => []Typed
    BY TypedInit, TypedStep, PTL DEF Spec
<1> QED
    BY <1>1, <1>2, <1>3, PTL DEF Spec

-----------------------------------------------------------------------------
(* A review that a compilation leaves open on a ref it publishes has been approved. *)
LEMMA CompileRespectsReviews ==
    ASSUME NEW o \in Relationships, NEW its, \A i \in DOMAIN its : its[i] \in Item /\ i[1] \in Refs,
           NEW class \in [Refs -> Classes], NEW before \in Manifest,
           Compile(o, its, class, before),
           NEW r \in Refs, surface'[r] \notin {None, surface[r]},
           NEW i \in DOMAIN items', i[1] = r, items'[i].open
    PROVE  items'[i].decision = "approve"
<1> DEFINE asked == {Id(q, class) : q \in Candidates(o, its, class)}
           kept  == {Id(q, class) : q \in Reviewed(o, class)}
<1>1. /\ surface' = Publishable(o, its, class)
      /\ items' = Itemize(o, its, class, before)
    BY DEF Compile, publication
<1>2. items' = [j \in DOMAIN its \cup asked |->
                IF j \notin DOMAIN its THEN Draft(j[1], class, before)
                ELSE [its[j] EXCEPT !.open = (@ /\ j \in kept) \/ j \in asked]]
    BY <1>1 DEF Itemize
<1>3. Publishes(o, its, class, r)
    BY <1>1 DEF Publishable
<1>4. \A q \in Reviewed(o, class) : Id(q, class)[1] = q
    BY DEF Id
<1>5. Candidates(o, its, class) \subseteq Reviewed(o, class)
    BY DEF Candidates
<1>6. i \in kept \/ i \in asked
    <2>1. CASE i \in DOMAIN its
        <3>1. items'[i] = [its[i] EXCEPT !.open = (its[i].open /\ i \in kept) \/ i \in asked]
            BY <1>2, <2>1
        <3>2. its[i] \in Item
            BY <2>1
        <3> HIDE DEF kept, asked
        <3> QED
            BY <3>1, <3>2 DEF Item
    <2>2. CASE i \notin DOMAIN its
        BY <1>2, <2>2
    <2> QED
        BY <2>1, <2>2
<1>7. r \in Reviewed(o, class) /\ i = Id(r, class)
    BY <1>4, <1>5, <1>6
<1>8. Decision(its, i) = "approve"
    BY <1>3, <1>7 DEF Publishes, Reviewed
<1>9. i \in DOMAIN its /\ its[i].decision = "approve" /\ its[i] \in Item
    BY <1>8, NoneAssumption DEF Decision
<1>10. items'[i] = [its[i] EXCEPT !.open = (its[i].open /\ i \in kept) \/ i \in asked]
    BY <1>2, <1>9
<1> HIDE DEF kept, asked
<1> QED
    BY <1>9, <1>10 DEF Item

(* No compilation publishes a target whose review it leaves pending or rejected. *)
THEOREM PendingStaysOut == Spec => PendingIsNotPublished
<1> DEFINE Respected ==
        \A r \in Refs :
            spent'.rollbacks = spent.rollbacks /\ surface'[r] \notin {None, surface[r]} =>
                \A i \in DOMAIN items' : i[1] = r /\ items'[i].open => items'[i].decision = "approve"
<1>1. ASSUME Typed, [Next]_vars
      PROVE  [Respected]_vars
    <2>1. ASSUME NEW listing \in Manifest, Observe(listing)
          PROVE  Respected
        <3> DEFINE safe == [r \in Refs |-> IF state'[r] = "active" /\ current'[r] = surface[r]
                                           THEN surface[r] ELSE None]
        <3>1. surface' = safe
            BY <2>1 DEF Observe, publication
        <3>2. \A r \in Refs : safe[r] \in {None, surface[r]}
            OBVIOUS
        <3> HIDE DEF safe
        <3> QED
            BY <3>1, <3>2
    <2>2. ASSUME NEW m \in published, Rollback(m)
          PROVE  Respected
        <3>1. spent'.rollbacks = spent.rollbacks + 1 /\ spent.rollbacks \in Nat
            BY <1>1, <2>2 DEF Rollback, Spend, Typed
        <3> QED
            BY <3>1
    <2>3. CASE /\ Next
               /\ ~ \E listing \in Manifest : Observe(listing)
               /\ ~ \E m \in published : Rollback(m)
        <3>1a. PICK its : \E o \in Relationships, before \in Manifest, class \in [Refs -> Classes] :
                   /\ \A i \in DOMAIN its : its[i] \in Item /\ i[1] \in Refs
                   /\ Compile(o, its, class, before)
            BY <1>1, <2>3, StepCompiles
        <3>1. PICK o \in Relationships, before \in Manifest, class \in [Refs -> Classes] :
                   /\ \A i \in DOMAIN its : its[i] \in Item /\ i[1] \in Refs
                   /\ Compile(o, its, class, before)
            BY <3>1a
        <3>2. \A r \in Refs : surface'[r] \notin {None, surface[r]} =>
                  \A i \in DOMAIN items' : i[1] = r /\ items'[i].open => items'[i].decision = "approve"
            BY <3>1, CompileRespectsReviews
        <3> QED
            BY <3>2
    <2> HIDE DEF Respected
    <2> QED
        BY <1>1, <2>1, <2>2, <2>3
<1>2. Spec => []Typed
    BY TypedInit, TypedStep, PTL DEF Spec
<1> QED
    BY <1>1, <1>2, PTL DEF Spec, PendingIsNotPublished
-----------------------------------------------------------------------------
(* The inductive invariant of the reviews.  A ref never has two open items. *)
OneOpen == \A r \in Refs : \A i, j \in Open(items, r) : i = j

(* The open items of the ref are about the target the catalog has now. *)
Fresh(r) == \A i \in Open(items, r) : i[2] \in {TargetKey(r, class) : class \in Classes}

(* That is so of every ref the surface has: a commit that moves the target cuts the entry. *)
PublishedAreFresh == \A r \in Refs : surface[r] # None => Fresh(r)

(* It is so of every ref the policy asks for, once the job of the last commit is done. *)
WantedAreFresh == \A r \in Wanted(owners) : Fresh(r)

(* What is picked was observed once, and what is active has a version. *)
RefsAreKnown ==
    /\ owners.picked \subseteq {r \in Refs : state[r] # "new"}
    /\ \A r \in Refs : state[r] = "active" => current[r] # None

ReviewInv ==
    /\ OneOpen /\ RefsAreKnown
    /\ spent.rollbacks = 0 => PublishedAreFresh /\ (due = 0 => WantedAreFresh)

(* The items that are open after a compilation that had something to do. *)
LEMMA ItemizedOpen ==
    ASSUME NEW o, NEW its, \A i \in DOMAIN its : its[i] \in Item,
           NEW class \in [Refs -> Classes], Wanted(o) \subseteq Refs, NEW before,
           NEW r, NEW i \in Open(Itemize(o, its, class, before), r)
    PROVE  i = Id(r, class) /\ r \in Refs /\ i[2] \in {TargetKey(r, c) : c \in Classes}
<1> DEFINE asked == {Id(q, class) : q \in Candidates(o, its, class)}
           kept  == {Id(q, class) : q \in Reviewed(o, class)}
           new == Itemize(o, its, class, before)
<1>1. new = [j \in DOMAIN its \cup asked |->
                IF j \notin DOMAIN its THEN Draft(j[1], class, before)
                ELSE [its[j] EXCEPT !.open = (@ /\ j \in kept) \/ j \in asked]]
    BY DEF Itemize
<1>2. i \in DOMAIN new /\ i[1] = r /\ new[i].open
    BY DEF Open
<1>3. i \in kept \/ i \in asked
    <2>1. CASE i \in DOMAIN its
        <3>1. new[i] = [its[i] EXCEPT !.open = (its[i].open /\ i \in kept) \/ i \in asked]
            BY <1>1, <2>1
        <3>2. its[i] \in Item
            BY <2>1
        <3> HIDE DEF kept, asked, new
        <3> QED
            BY <1>2, <3>1, <3>2 DEF Item
    <2>2. CASE i \notin DOMAIN its
        BY <1>1, <1>2, <2>2
    <2> QED
        BY <2>1, <2>2
<1>4. PICK q \in Reviewed(o, class) : i = Id(q, class)
    BY <1>3 DEF Candidates
<1>5. q = r /\ q \in Refs
    BY <1>2, <1>4 DEF Id, Reviewed
<1> QED
    BY <1>4, <1>5 DEF Id

(* A compilation leaves one open item at most for a ref, and about the target of now.  Where it has *)
(* nothing to do it closes none, but then the surface has every ref that the policy asks for. *)
LEMMA CompileSettles ==
    ASSUME Typed, OneOpen, RefsAreKnown,
           NEW o, o.picked \subseteq {r \in Refs : state[r] # "new"},
           NEW its, \A i \in DOMAIN its : its[i] \in Item,
           \A r \in Refs : Open(its, r) \subseteq Open(items, r),
           NEW class \in [Refs -> Classes], \A r \in Refs : state[r] = "unresolved" => class[r] = "missing",
           NEW before, Compile(o, its, class, before)
    PROVE  /\ OneOpen' /\ RefsAreKnown'
           /\ PublishedAreFresh => PublishedAreFresh' /\ WantedAreFresh'
<1>1. owners' = o /\ state' = state /\ current' = current /\ generation' = generation
    BY DEF Compile, catalog
<1>2. Wanted(o) \subseteq {r \in Refs : state[r] # "new"}
    BY DEF Wanted
<1>3. Wanted(owners)' = Wanted(o) /\ RefsAreKnown'
    BY <1>1 DEF Wanted, RefsAreKnown
<1>4. \A r, c : TargetKey(r, c)' = TargetKey(r, c)
    BY <1>1 DEF TargetKey
<1>5. CASE NothingToDo(o, its, class)
    <2>1. items' = its /\ surface' = surface
        BY <1>5 DEF Compile, publication
    <2>2. OneOpen'
        BY <2>1 DEF OneOpen
    <2>3. ASSUME PublishedAreFresh, NEW r \in Refs, surface[r] # None PROVE Fresh(r)'
        BY <1>4, <2>1, <2>3 DEF PublishedAreFresh, Fresh
    <2>4. ASSUME NEW r \in Wanted(o) PROVE r \in Refs /\ surface[r] # None
        <3>1. r \in Refs /\ class[r] = "unchanged" /\ Proposed(o) = surface
            BY <1>2, <1>5, <2>4 DEF NothingToDo
        <3>2. state[r] = "active"
            BY <1>2, <2>4, <3>1 DEF Typed, TypeOK, States
        <3> QED
            BY <2>4, <3>1, <3>2 DEF Proposed, RefsAreKnown
    <2> QED
        BY <1>3, <2>1, <2>2, <2>3, <2>4 DEF PublishedAreFresh, WantedAreFresh
<1>6. CASE ~NothingToDo(o, its, class)
    <2>1. items' = Itemize(o, its, class, before)
        BY <1>6 DEF Compile
    <2>2. ASSUME NEW r, NEW i \in Open(items', r)
          PROVE  i = Id(r, class) /\ i[2] \in {TargetKey(r, c) : c \in Classes}
        BY <1>2, <2>1, <2>2, ItemizedOpen
    <2>3. OneOpen'
        BY <2>2 DEF OneOpen
    <2>4. \A r : Fresh(r)'
        BY <1>4, <2>2 DEF Fresh
    <2> QED
        BY <1>3, <2>3, <2>4 DEF PublishedAreFresh, WantedAreFresh
<1> QED
    BY <1>5, <1>6

(* A decision opens nothing. *)
LEMMA DecidedOpen ==
    ASSUME Typed, NEW i \in DOMAIN items, items[i].open, NEW d \in Decisions, NEW o
    PROVE  /\ \A r \in Refs : Open(Decided(i, d), r) \subseteq Open(items, r)
           /\ \A r \in Refs : Open(Removed(i, o), r) \subseteq Open(items, r)
<1>1. ASSUME NEW e PROVE DOMAIN Decided(i, e) = DOMAIN items
    BY DEF Decided
<1>2. DOMAIN Removed(i, o) = DOMAIN items
    BY <1>1 DEF Removed
<1>3. ASSUME NEW j \in DOMAIN items, j # i
      PROVE  Decided(i, d)[j] = items[j] /\ Removed(i, o)[j] = items[j]
    BY <1>3 DEF Decided, Removed
<1> QED
    BY <1>1, <1>2, <1>3 DEF Open

(* Every compilation of the system is such a one. *)
LEMMA StepSettles ==
    ASSUME Typed, OneOpen, RefsAreKnown, Next,
           ~ \E listing \in Manifest : Observe(listing),
           ~ \E m \in published : Rollback(m)
    PROVE  /\ OneOpen' /\ RefsAreKnown' /\ spent'.rollbacks = spent.rollbacks
           /\ PublishedAreFresh => PublishedAreFresh' /\ WantedAreFresh'
<1> DEFINE Result == /\ OneOpen' /\ RefsAreKnown' /\ spent'.rollbacks = spent.rollbacks
                     /\ PublishedAreFresh => PublishedAreFresh' /\ WantedAreFresh'
<1>1. /\ \A i \in DOMAIN items : items[i] \in Item /\ i[1] \in Refs
      /\ owners.picked \subseteq {r \in Refs : state[r] # "new"}
      /\ surface \in Manifest /\ baseline \in Manifest
    BY DEF Typed, TypeOK, RefsAreKnown
<1>2. ASSUME NEW its PROVE \A r \in Refs : state[r] = "unresolved" => JobClass[r] = "missing" /\ ItemClass(its)[r] = "missing"
    BY DEF JobClass, ItemClass
<1>3. ASSUME NEW what \in {"saves", "decisions"}, NEW limit, Spend(what, limit)
      PROVE  spent'.rollbacks = spent.rollbacks
    BY <1>3 DEF Spend, Typed
<1>4. CASE RunJob
    <2>1. Compile(owners, items, JobClass, baseline) /\ spent' = spent
        BY <1>4 DEF RunJob
    <2>2. JobClass \in [Refs -> Classes]
        BY <1>1, ClassesTyped
    <2> QED
        BY <1>1, <1>2, <2>1, <2>2, CompileSettles
<1>5. ASSUME NEW its, \A i \in DOMAIN its : its[i] \in Item,
             \A r \in Refs : Open(its, r) \subseteq Open(items, r),
             NEW o, o.picked \subseteq {r \in Refs : state[r] # "new"},
             Compile(o, its, ItemClass(its), surface), spent'.rollbacks = spent.rollbacks
      PROVE  Result
    <2>1. ItemClass(its) \in [Refs -> Classes]
        BY <1>5, ClassesTyped
    <2> QED
        BY <1>2, <1>5, <2>1, CompileSettles
<1>6. ASSUME NEW o \in Owners PROVE o.picked \subseteq {r \in Refs : state[r] # "new"}
    BY DEF Owners
<1>7. ASSUME NEW o \in Owners, Save(o) PROVE Result
    <2>1. Compile(o, items, ItemClass(items), surface) /\ spent'.rollbacks = spent.rollbacks
        BY <1>3, <1>7 DEF Save
    <2> QED
        BY <1>1, <1>5, <1>6, <2>1
<1>8. ASSUME NEW i \in DOMAIN items, items[i].open, NEW d \in Decisions,
             Compile(owners, Decided(i, d), ItemClass(Decided(i, d)), surface),
             Spend("decisions", MaxDecisions)
      PROVE  Result
    <2>1. \A k \in DOMAIN Decided(i, d) : Decided(i, d)[k] \in Item
        BY DecidedTyped
    <2>2. \A r \in Refs : Open(Decided(i, d), r) \subseteq Open(items, r)
        BY <1>8, DecidedOpen
    <2>3. spent'.rollbacks = spent.rollbacks
        BY <1>3, <1>8
    <2> QED
        BY <1>1, <1>5, <1>8, <2>1, <2>2, <2>3
<1>9. ASSUME NEW i \in DOMAIN items, NEW d \in {"approve", "reject"}, Resolve(i, d) PROVE Result
    BY <1>8, <1>9 DEF Resolve, Decisions
<1>10. ASSUME NEW i \in DOMAIN items, KeepIntent(i) PROVE Result
    BY <1>8, <1>10 DEF KeepIntent, Decisions
<1>11. ASSUME NEW i \in DOMAIN items, NEW o \in Owners, RemoveIntent(i, o) PROVE Result
    <2>1. /\ Compile(o, Removed(i, o), ItemClass(Removed(i, o)), surface)
          /\ items[i].open /\ Spend("decisions", MaxDecisions)
        BY <1>11 DEF RemoveIntent
    <2>2. \A k \in DOMAIN Removed(i, o) : Removed(i, o)[k] \in Item
        BY RemovedTyped
    <2>3. \A r \in Refs : Open(Removed(i, o), r) \subseteq Open(items, r)
        BY <2>1, DecidedOpen DEF Decisions
    <2>4. spent'.rollbacks = spent.rollbacks
        BY <1>3, <2>1
    <2> QED
        BY <1>5, <1>6, <2>1, <2>2, <2>3, <2>4
<1> HIDE DEF Result
<1>12. Result
    <2>1. CASE RunJob
        BY <1>4, <2>1 DEF Result
    <2> QED
        BY <1>7, <1>9, <1>10, <1>11, <2>1 DEF Next
<1> QED
    BY <1>12 DEF Result

(* A commit enqueues a job for whoever reads relationships, and the refs that stay on the surface    *)
(* have the target they had. *)
LEMMA ObserveSettles ==
    ASSUME Typed, SurfaceIsCurrent, ReviewInv, NEW listing \in Manifest, Observe(listing)
    PROVE  ReviewInv'
<1>1. items' = items /\ owners' = owners /\ spent'.rollbacks = spent.rollbacks
    BY DEF Observe, Spend, Typed
<1>2. OneOpen'
    BY <1>1 DEF ReviewInv, OneOpen
<1>3. RefsAreKnown'
    <2>1. ASSUME NEW r \in Refs
          PROVE  /\ state[r] # "new" => state'[r] # "new"
                 /\ state'[r] = "active" => current'[r] # None
        BY DEF Observe
    <2> QED
        BY <1>1, <2>1 DEF ReviewInv, RefsAreKnown
<1>4. ASSUME PublishedAreFresh PROVE PublishedAreFresh'
    <2> SUFFICES ASSUME NEW r \in Refs, surface'[r] # None PROVE Fresh(r)'
        BY DEF PublishedAreFresh
    <2> DEFINE safe == [q \in Refs |-> IF state'[q] = "active" /\ current'[q] = surface[q]
                                       THEN surface[q] ELSE None]
    <2>1. surface' = safe
        BY DEF Observe, publication
    <2>2. state'[r] = "active" /\ current'[r] = surface[r] /\ surface[r] # None
        BY <2>1
    <2>3. state[r] = "active" /\ current[r] = surface[r]
        BY <2>2 DEF SurfaceIsCurrent
    <2>4. generation'[r] = generation[r]
        BY <2>2, <2>3 DEF Observe
    <2>5. \A class : TargetKey(r, class)' = TargetKey(r, class)
        BY <2>2, <2>3, <2>4 DEF TargetKey
    <2>6. Fresh(r)
        BY <1>4, <2>2 DEF PublishedAreFresh
    <2> QED
        BY <1>1, <2>5, <2>6 DEF Fresh
<1>5. ASSUME due' = 0 PROVE WantedAreFresh'
    <2>1. owners.picked = {} /\ owners.server = "none"
        BY <1>5 DEF Observe, Typed, TypeOK
    <2> QED
        BY <1>1, <2>1 DEF WantedAreFresh, Wanted
<1> QED
    BY <1>1, <1>2, <1>3, <1>4, <1>5 DEF ReviewInv

(* Every step keeps the invariant. *)
LEMMA ReviewStep == Typed /\ SurfaceIsCurrent /\ ReviewInv /\ [Next]_vars => ReviewInv'
<1> SUFFICES ASSUME Typed, SurfaceIsCurrent, ReviewInv, [Next]_vars PROVE ReviewInv'
    OBVIOUS
<1>1. CASE UNCHANGED vars
    BY <1>1 DEF vars, ReviewInv, OneOpen, RefsAreKnown, PublishedAreFresh, WantedAreFresh, Fresh,
                TargetKey, Wanted
<1>2. ASSUME NEW listing \in Manifest, Observe(listing) PROVE ReviewInv'
    BY <1>2, ObserveSettles
<1>3. ASSUME NEW m \in published, Rollback(m) PROVE ReviewInv'
    <2>1. spent'.rollbacks # 0
        BY <1>3 DEF Rollback, Spend, Typed
    <2>2. OneOpen' /\ RefsAreKnown'
        BY <1>3 DEF Rollback, catalog, ReviewInv, OneOpen, RefsAreKnown
    <2> QED
        BY <2>1, <2>2 DEF ReviewInv
<1>4. CASE /\ Next
           /\ ~ \E listing \in Manifest : Observe(listing)
           /\ ~ \E m \in published : Rollback(m)
    BY <1>4, StepSettles DEF ReviewInv
<1> QED
    BY <1>1, <1>2, <1>3, <1>4

(* Once the jobs are done, and before any rollback, a capability that the policy asks for has at most *)
(* one open review, about the target the catalog has now. *)
THEOREM ReviewsAreCurrent == Spec => []ReviewsFollowCatalog
<1>1. Typed /\ ReviewInv => ReviewsFollowCatalog
    <2> SUFFICES ASSUME Typed, ReviewInv, due = 0, spent.rollbacks = 0,
                        NEW r \in Wanted(owners), NEW i \in Open(items, r)
                 PROVE  i[2] \in {TargetKey(r, class) : class \in Classes} /\ Open(items, r) = {i}
        BY DEF ReviewsFollowCatalog
    <2>1. r \in Refs
        BY DEF Wanted, Typed, TypeOK
    <2> QED
        BY <2>1 DEF ReviewInv, OneOpen, WantedAreFresh, Fresh
<1>2. Init => ReviewInv
    <2> SUFFICES ASSUME Init PROVE ReviewInv
        OBVIOUS
    <2>1. \A r : Open(items, r) = {}
        BY DEF Init, Open
    <2> QED
        BY <2>1 DEF Init, ReviewInv, OneOpen, RefsAreKnown, PublishedAreFresh, WantedAreFresh, Fresh
<1> QED
    BY <1>1, <1>2, TypedInit, TypedStep, ReviewStep, SurfaceStaysCurrent, PTL DEF Spec

=============================================================================
