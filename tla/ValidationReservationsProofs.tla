-------------------- MODULE ValidationReservationsProofs --------------------
(***************************************************************************)
(* Theorems about ValidationReservations, for any requests, upstreams and  *)
(* bound of the generations: the state keeps its type, nothing that was    *)
(* started or reserved is left without somebody who ends it, and neither a *)
(* late attempt nor a late release touches what has replaced its own.      *)
(***************************************************************************)
EXTENDS ValidationReservations, TLAPS

(* What a request is, and what it holds where it is. *)
Request == [pc : Pcs, then : Wants, lease : Generations \cup {None}, guard : Generations \cup {None},
            own : Generations \cup {None}, target : Generations \cup {None}, svc : Services \cup {None},
            saw : BOOLEAN, stale : BOOLEAN]

Closers == {"closing", "completing"}

Leasing == Connecting \cup {"look", "begin", "ensured", "opening"}

Shape(q) ==
    /\ q.pc = "idle" => q = Idle
    /\ q.pc \in Leasing => q.lease # None
    /\ q.pc \in {"found", "existing", "using", "reserve"} => q.lease = None
    /\ q.pc \in Closers => q.target # None /\ q.own = None /\ q.guard = None /\ q.then = "none"
    /\ q.svc # None => q.pc = "connected"
    /\ q.own # None => q.then = "own" /\ q.pc \in {"owned", "used"}
    /\ q.then \in {"open", "own"} => q.guard = None
    /\ q.pc = "opening" => q.then = "open"

(* Opened for one purpose, the session is known to one request only. *)
Lonely(q) == q.then \in {"open", "guard", "own"} \/ q.guard # None \/ q.own # None

Shaped ==
    /\ \A r \in Requests : Shape(request[r])
    /\ \A c \in cleanups : c.task # "remove" => c.of = None

OvertakenAreOut ==
    \A r \in Requests : request[r].stale /\ request[r].pc \in Connecting => r \notin inFlight

LonelyAreAlone ==
    \A r \in Requests : Lonely(request[r]) =>
        entry.gen = None /\ \A q \in Requests \ {r} : request[q].pc = "idle"

CloserIsOne ==
    /\ \A r \in Requests : request[r].pc \in Closers =>
           /\ entry.closing /\ entry.gen = request[r].target
           /\ \A q \in Requests \ {r} : request[q].pc \notin Closers
           /\ \A c \in cleanups : c.task # "reopen"
           /\ request[r].pc = "completing" => reservation.gen # request[r].target
    /\ \A c \in cleanups : c.task = "reopen" => entry.closing /\ entry.gen = c.gen
    /\ entry.closing => entry.gen # None

CommittedAreOwned ==
    reservation.gen \in committed =>
        \/ entry.gen = reservation.gen
        \/ \E r \in Requests : request[r].own = reservation.gen
        \/ Release(reservation.gen) \in cleanups

IInv ==
    /\ TypeOK /\ Shaped
    /\ NothingLeaks
    /\ AttemptsAreHeld /\ OvertakenAreOut
    /\ LonelyAreAlone
    /\ ClosingIsUnderWay /\ CloserIsOne
    /\ ReservationsAreOwned /\ CommittedAreOwned

-----------------------------------------------------------------------------
(* Types *)

(* None is neither an upstream nor a generation. *)
LEMMA NoneIsApart ==
    None \notin Services /\ None \notin Generations /\ Generations \subseteq Nat
BY NoneAssumption DEF Generations

(* Without a new generation the types are the same. *)
LEMMA SameLast ==
    ASSUME last' = last
    PROVE  Generations' = Generations /\ Request' = Request /\ Tasks' = Tasks
<1>1. Generations' = Generations
    BY DEF Generations
<1> QED
    BY <1>1 DEF Request, Tasks

(* The requests of TypeOK, as one type. *)
LEMMA RequestsTyped ==
    ASSUME TypeOK
    PROVE  request \in [Requests -> Request]
BY DEF TypeOK, Request

(* A request that has ended holds nothing. *)
LEMMA IdleTyped == Idle \in Request /\ Shape(Idle) /\ ~Lonely(Idle)
BY NoneIsApart DEF Idle, Request, Pcs, Wants, Shape, Leasing, Connecting, Closers, Lonely

(* The usual ways on keep the type, whatever they change beside the place of the request. *)
LEMMA WaysTyped ==
    ASSUME TypeOK, NEW r \in Requests
    PROVE  /\ \A pc \in Pcs : To(r, pc) \in Request
           /\ Ended(r) \in Request
           /\ Retried(r) \in Request
<1>1. request[r] \in Request
    BY RequestsTyped
<1>2. \A pc \in Pcs : To(r, pc) \in Request
    BY <1>1 DEF To, Request
<1>3. Ended(r) \in Request
    <2>1. CASE request[r].guard # None
        BY <1>1, <2>1, NoneIsApart DEF Ended, Request, Pcs, Wants
    <2>2. CASE request[r].guard = None
        BY <2>2, IdleTyped DEF Ended
    <2> QED
        BY <2>1, <2>2
<1>4. Retried(r) \in Request
    BY <1>1 DEF Retried, Request, Pcs, Wants
<1> QED
    BY <1>2, <1>3, <1>4

(* A request that goes on as a request, and spawns tasks, keeps both types. *)
LEMMA GoesTyped ==
    ASSUME TypeOK, NEW r \in Requests, NEW next \in Request, NEW spawned \in SUBSET Tasks,
           Goes(r, next, spawned)
    PROVE  request' \in [Requests -> Request] /\ cleanups' \in SUBSET Tasks
<1>1. request \in [Requests -> Request]
    BY RequestsTyped
<1>2. Orphans(r, next) \subseteq Tasks
    BY <1>1 DEF Orphans, Release, Tasks, Request
<1> QED
    BY <1>1, <1>2 DEF Goes, TypeOK

(* What drops spawn for a generation are tasks. *)
LEMMA TasksTyped ==
    ASSUME NEW g \in Generations, NEW r \in Requests
    PROVE  Release(g) \in Tasks /\ Remove(r, g) \in Tasks /\ Reopen(g) \in Tasks
BY DEF Release, Remove, Reopen, Tasks

(* Stopping an upstream keeps the type of the upstreams. *)
LEMMA StoppedTyped ==
    ASSUME TypeOK, NEW s
    PROVE  Stopped(s) \in [Services -> {"none", "running", "closed"}]
BY DEF TypeOK, Stopped

(* The part of the state that a detachment or a request that goes on does not touch. *)
LEMMA DetachTyped ==
    ASSUME TypeOK, NEW g, Detach(g)
    PROVE  /\ reservation' \in [gen : Generations \cup {None}, expired : BOOLEAN]
           /\ inFlight' \subseteq Requests
           /\ published' \in Services \cup {None}
           /\ service' \in [Services -> {"none", "running", "closed"}]
           /\ reservation'.gen = None => published' = None /\ inFlight' = {}
<1>1. NoReservation \in [gen : Generations \cup {None}, expired : BOOLEAN] /\ NoReservation.gen = None
    BY DEF NoReservation
<1>2. CASE Identical(g)
    BY <1>1, <1>2, StoppedTyped DEF Detach, TypeOK
<1>3. CASE ~Identical(g)
    BY <1>3 DEF Detach, TypeOK
<1> QED
    BY <1>2, <1>3

(* TypeOK of the next state, for steps that reserve nothing. *)
LEMMA TypedFromParts ==
    ASSUME last' = last, last \in 0..MaxGeneration,
           reservation' \in [gen : Generations \cup {None}, expired : BOOLEAN],
           inFlight' \subseteq Requests,
           published' \in Services \cup {None},
           committed' \subseteq Generations,
           entry' \in [gen : Generations \cup {None}, expired : BOOLEAN, closing : BOOLEAN],
           request' \in [Requests -> Request],
           service' \in [Services -> {"none", "running", "closed"}],
           failing' \in BOOLEAN,
           cleanups' \in SUBSET Tasks,
           reservation'.gen = None => published' = None /\ inFlight' = {}
    PROVE  TypeOK'
<1>1. Generations' = Generations /\ Request' = Request /\ Tasks' = Tasks
    BY SameLast
<1>2. request' \in [Requests -> Request']
    BY <1>1
<1> QED
    BY <1>1, <1>2 DEF TypeOK, Request

(* Every step of a request keeps the types; what it holds where it is makes the tokens generations. *)
LEMMA StepTyped ==
    ASSUME TypeOK, Shaped, NEW r \in Requests, Step(r)
    PROVE  TypeOK'
<1> DEFINE Moved == \E next \in Request, spawned \in SUBSET Tasks : Goes(r, next, spawned)
<1>1. request[r] \in Request /\ request \in [Requests -> Request]
    BY RequestsTyped
<1>2. Moved => request' \in [Requests -> Request] /\ cleanups' \in SUBSET Tasks
    BY GoesTyped
<1>3. {} \in SUBSET Tasks
    OBVIOUS
<1>4. Renewed \in [gen : Generations \cup {None}, expired : BOOLEAN] /\ Renewed.gen = reservation.gen
    BY DEF Renewed, TypeOK
<1>5. /\ Matches(request[r].lease) => request[r].lease \in Generations /\ reservation.gen # None
      /\ Claims(r) => reservation.gen # None
      /\ WithoutAttempt(r) \subseteq inFlight
    BY <1>1, NoneIsApart DEF Matches, Identical, Claims, WithoutAttempt, Request
<1>6. ASSUME NEW then \in {"open", "guard", "own"}, Open(r, then) PROVE TypeOK'
    <2>1. Moved
        BY <1>6, <1>3, IdleTyped DEF Open, Request, Pcs, Wants
    <2> QED
        BY <1>6, <2>1, <1>2, TypedFromParts DEF Open, TypeOK
<1>7. ASSUME NEW then \in {"touch", "list"}, Find(r, then) PROVE TypeOK'
    <2>1. /\ [Idle EXCEPT !.pc = "closing", !.target = entry.gen] \in Request
          /\ [Idle EXCEPT !.pc = "found", !.then = then, !.target = entry.gen] \in Request
        BY IdleTyped DEF TypeOK, Request, Pcs, Wants
    <2>2. Moved
        BY <1>7, <1>3, <2>1 DEF Find
    <2>3. entry' \in [gen : Generations \cup {None}, expired : BOOLEAN, closing : BOOLEAN]
        BY <1>7 DEF Find, TypeOK
    <2> QED
        BY <1>7, <2>2, <2>3, <1>2, TypedFromParts DEF Find, TypeOK
<1>8. CASE BeginClose(r)
    <2>1. Moved
        BY <1>8, <1>3, IdleTyped DEF BeginClose, TypeOK, Request, Pcs, Wants
    <2> QED
        BY <1>8, <2>1, <1>2, TypedFromParts DEF BeginClose, TypeOK
<1>9. CASE RefreshFound(r)
    <2>1. [To(r, "existing") EXCEPT !.target = None] \in Request
        BY <1>1 DEF To, Request, Pcs
    <2>2. Moved
        BY <1>9, <1>3, <2>1, WaysTyped DEF RefreshFound
    <2> QED
        BY <1>9, <2>2, <1>2, <1>4, TypedFromParts DEF RefreshFound, TypeOK
<1>10. CASE ExistingOwner(r)
    <2>1. Moved
        BY <1>10, <1>3, WaysTyped DEF ExistingOwner, Pcs
    <2> QED
        BY <1>10, <2>1, <1>2, StoppedTyped, TypedFromParts DEF ExistingOwner, TypeOK
<1>11. CASE UseExisting(r)
    <2>1. Moved
        BY <1>11, <1>3, WaysTyped DEF UseExisting
    <2> QED
        BY <1>11, <2>1, <1>2, TypedFromParts DEF UseExisting, TypeOK
<1>12. CASE Join(r)
    <2>1. Moved
        BY <1>12, <1>1, <1>3 DEF Join, TypeOK, Request, Pcs, Wants
    <2> QED
        BY <1>12, <2>1, <1>2, <1>4, TypedFromParts DEF Join, TypeOK
<1>13. CASE Look(r)
    <2>1. failing \in BOOLEAN
        BY DEF TypeOK
    <2>2. [request[r] EXCEPT !.pc = "begin", !.saw = failing] \in Request
        BY <1>1, <2>1 DEF Request, Pcs
    <2>3. Ensured(r) \in Request
        BY WaysTyped DEF Ensured, Pcs
    <2>4. Moved
        BY <1>13, <1>3, <2>2, <2>3 DEF Look
    <2> QED
        BY <1>13, <2>4, <1>2, TypedFromParts DEF Look, TypeOK
<1>14. CASE Begin(r)
    <2>1. [To(r, "connecting") EXCEPT !.stale = FALSE] \in Request
        BY <1>1 DEF To, Request, Pcs
    <2>2. Moved
        BY <1>14, <1>3, <2>1, WaysTyped DEF Begin
    <2> QED
        BY <1>14, <2>2, <1>2, <1>5, TypedFromParts DEF Begin, TypeOK
<1>15. ASSUME NEW s \in Services, Connect(r, s) PROVE TypeOK'
    <2>1. Moved
        BY <1>15, <1>1, <1>3 DEF Connect, To, Request, Pcs, Wants
    <2> QED
        BY <1>15, <2>1, <1>2, TypedFromParts DEF Connect, TypeOK
<1>16. CASE FailToConnect(r)
    <2>1. Moved
        BY <1>16, <1>3, WaysTyped DEF FailToConnect, Pcs
    <2> QED
        BY <1>16, <2>1, <1>2, TypedFromParts DEF FailToConnect, TypeOK
<1>17. CASE FinalizeSuccess(r)
    <2>1. Settled(r) \in Request
        BY <1>1 DEF Settled, Ensured, To, Request, Pcs, Wants
    <2>2. Moved
        BY <1>17, <1>3, <2>1, WaysTyped DEF FinalizeSuccess
    <2>3. published' \in Services \cup {None}
        BY <1>17, <1>1 DEF FinalizeSuccess, TypeOK, Request
    <2>4. reservation' \in [gen : Generations \cup {None}, expired : BOOLEAN]
        BY <1>17, <1>4 DEF FinalizeSuccess, TypeOK
    <2>5. service' \in [Services -> {"none", "running", "closed"}]
        BY <1>17, StoppedTyped DEF FinalizeSuccess, TypeOK
    <2>6. inFlight' \subseteq Requests /\ failing' \in BOOLEAN
        BY <1>17, <1>5 DEF FinalizeSuccess, TypeOK
    <2>7. reservation'.gen = None => published' = None /\ inFlight' = {}
        BY <1>17, <1>4, <1>5 DEF FinalizeSuccess, TypeOK
    <2> QED
        BY <1>17, <1>2, <2>2, <2>3, <2>4, <2>5, <2>6, <2>7, TypedFromParts DEF FinalizeSuccess, TypeOK
<1>18. CASE FinalizeFailure(r)
    <2>1. Moved
        BY <1>18, <1>3, WaysTyped DEF FinalizeFailure
    <2> QED
        BY <1>18, <2>1, <1>2, <1>5, TypedFromParts DEF FinalizeFailure, TypeOK
<1>19. CASE AcquirePeer(r)
    <2>1. Moved
        BY <1>19, <1>3, WaysTyped, IdleTyped DEF AcquirePeer, Pcs
    <2> QED
        BY <1>19, <2>1, <1>2, <1>4, TypedFromParts DEF AcquirePeer, TypeOK
<1>20. CASE OpenEntry(r)
    <2>1. request[r].lease \in Generations
        BY <1>20, <1>1 DEF OpenEntry, Shaped, Shape, Leasing, Request
    <2>2. request' \in [Requests -> Request]
        BY <1>20, <1>1, IdleTyped DEF OpenEntry
    <2>3. entry' \in [gen : Generations \cup {None}, expired : BOOLEAN, closing : BOOLEAN]
        BY <1>20, <2>1 DEF OpenEntry, NoEntry
    <2> QED
        BY <1>20, <2>1, <2>2, <2>3, TypedFromParts DEF OpenEntry, TypeOK
<1>21. CASE GuardListing(r)
    <2>1. Moved
        BY <1>21, <1>1, <1>3 DEF GuardListing, To, Request, Pcs, Wants
    <2> QED
        BY <1>21, <2>1, <1>2, TypedFromParts DEF GuardListing, TypeOK
<1>22. CASE GuardCall(r)
    <2>1. Moved
        BY <1>22, <1>1, <1>3, IdleTyped DEF GuardCall, To, Request, Pcs, Wants
    <2> QED
        BY <1>22, <2>1, <1>2, <1>4, TypedFromParts DEF GuardCall, TypeOK
<1>23. CASE CleanUp(r)
    <2>1. Moved
        BY <1>23, <1>3, IdleTyped DEF CleanUp
    <2> QED
        BY <1>23, <2>1, <1>2, DetachTyped, TypedFromParts DEF CleanUp, TypeOK
<1>24. CASE Own(r)
    <2>1. request[r].lease \in Generations
        BY <1>24, <1>1 DEF Own, Shaped, Shape, Leasing, Request
    <2>2. request' \in [Requests -> Request]
        BY <1>24, <1>1, <2>1 DEF Own, To, Request, Pcs, Wants
    <2> QED
        BY <1>24, <2>1, <2>2, TypedFromParts DEF Own, TypeOK
<1>25. CASE TakeOwner(r)
    <2>1. [To(r, "used") EXCEPT !.lease = None] \in Request
        BY <1>1 DEF To, Request, Pcs, Wants
    <2>2. (IF request[r].own # None THEN {Release(request[r].own)} ELSE {}) \in SUBSET Tasks
        BY <1>1, TasksTyped DEF Request
    <2>3. Moved
        BY <1>25, <1>3, <2>1, <2>2, WaysTyped DEF TakeOwner
    <2> QED
        BY <1>25, <2>3, <1>2, TypedFromParts DEF TakeOwner, TypeOK
<1>26. CASE UseFresh(r)
    <2>1. Moved
        BY <1>26, <1>3, WaysTyped DEF UseFresh
    <2> QED
        BY <1>26, <2>1, <1>2, DetachTyped, TypedFromParts DEF UseFresh, TypeOK
<1>27. CASE ReleaseClosing(r)
    <2>1. request[r].target \in Generations
        BY <1>27, <1>1 DEF ReleaseClosing, Shaped, Shape, Closers, Request
    <2>2. {Reopen(request[r].target)} \in SUBSET Tasks
        BY <2>1, TasksTyped
    <2>3. Moved
        BY <1>27, <1>3, <2>2, WaysTyped, IdleTyped DEF ReleaseClosing, Pcs
    <2> QED
        BY <1>27, <2>3, <1>2, DetachTyped, TypedFromParts DEF ReleaseClosing, TypeOK
<1>28. CASE CompleteClose(r)
    <2>1. request[r].target \in Generations
        BY <1>28, <1>1 DEF CompleteClose, Shaped, Shape, Closers, Request
    <2>2. {Reopen(request[r].target)} \in SUBSET Tasks
        BY <2>1, TasksTyped
    <2>3. Moved
        BY <1>28, <1>3, <2>2, IdleTyped DEF CompleteClose
    <2>4. entry' \in [gen : Generations \cup {None}, expired : BOOLEAN, closing : BOOLEAN]
        <3>1. NoEntry \in [gen : Generations \cup {None}, expired : BOOLEAN, closing : BOOLEAN]
            BY DEF NoEntry
        <3> QED
            BY <1>28, <3>1 DEF CompleteClose, TypeOK
    <2> QED
        BY <1>28, <2>3, <2>4, <1>2, TypedFromParts DEF CompleteClose, TypeOK
<1>29. CASE Drop(r)
    <2>1. AttemptsLeft(r) \in SUBSET Tasks
        BY <1>1, TasksTyped DEF AttemptsLeft, Shaped, Shape, Leasing, Request
    <2>2. OwnersLeft(r) \in SUBSET Tasks
        BY <1>1, TasksTyped DEF OwnersLeft, Request
    <2>3. ClosingsLeft(r) \in SUBSET Tasks
        BY <1>1, TasksTyped DEF ClosingsLeft, Shaped, Shape, Closers, Request
    <2>4. Moved
        BY <1>29, <2>1, <2>2, <2>3, IdleTyped DEF Drop
    <2> QED
        BY <1>29, <2>4, <1>2, StoppedTyped, TypedFromParts DEF Drop, TypeOK
<1>30. CASE Replace(r)
    <2>1. last + 1 \in Generations' /\ Generations \subseteq Generations' /\ last' \in 0..MaxGeneration
        BY <1>30, BoundAssumption DEF Replace, TypeOK, Generations
    <2>2. request[r].lease = None
        BY <1>30 DEF Replace, Shaped, Shape
    <2>3. Orphans(r, [request[r] EXCEPT !.pc = "look", !.lease = last + 1]) = {}
        BY <1>1, <2>2 DEF Orphans, Request
    <2>4. request' = [request EXCEPT ![r] = [request[r] EXCEPT !.pc = "look", !.lease = last + 1]]
          /\ cleanups' = cleanups
        BY <1>30, <2>3 DEF Replace, Goes
    <2>5. [request[r] EXCEPT !.pc = "look", !.lease = last + 1] \in Request'
        BY <1>1, <2>1 DEF Request, Pcs
    <2>6. Request \subseteq Request' /\ Tasks \subseteq Tasks'
        BY <2>1 DEF Request, Tasks
    <2>7. request' \in [Requests -> Request'] /\ cleanups' \subseteq Tasks'
        BY <1>1, <2>4, <2>5, <2>6 DEF TypeOK
    <2>8. reservation' \in [gen : Generations' \cup {None}, expired : BOOLEAN] /\ reservation'.gen # None
        BY <1>30, <2>1, NoneAssumption DEF Replace, TypeOK
    <2>9. entry' \in [gen : Generations' \cup {None}, expired : BOOLEAN, closing : BOOLEAN]
        BY <1>30, <2>1 DEF Replace, TypeOK
    <2>10. service' \in [Services -> {"none", "running", "closed"}]
        BY <1>30, StoppedTyped DEF Replace
    <2>11. committed' \subseteq Generations' /\ failing' \in BOOLEAN /\ inFlight' = {} /\ published' = None
        BY <1>30, <2>1 DEF Replace, TypeOK
    <2> QED
        BY <2>1, <2>7, <2>8, <2>9, <2>10, <2>11 DEF TypeOK, Request
<1> QED
    BY <1>6, <1>7, <1>8, <1>9, <1>10, <1>11, <1>12, <1>13, <1>14, <1>15, <1>16, <1>17, <1>18, <1>19, <1>20, <1>21, <1>22, <1>23, <1>24, <1>25, <1>26, <1>27, <1>28, <1>29, <1>30 DEF Step

(* A task that drops have spawned keeps the types. *)
LEMMA SpawnedTyped ==
    ASSUME TypeOK, NEW c \in cleanups, Spawned(c)
    PROVE  TypeOK'
<1>1. request' \in [Requests -> Request] /\ cleanups' \in SUBSET Tasks
    BY RequestsTyped DEF Spawned, RunRelease, RunRemove, RunReopen, TypeOK
<1>2. CASE RunRelease(c)
    BY <1>1, <1>2, DetachTyped, TypedFromParts DEF RunRelease, TypeOK
<1>3. CASE RunRemove(c)
    BY <1>1, <1>3, TypedFromParts DEF RunRemove, TypeOK
<1>4. CASE RunReopen(c)
    <2>1. entry' \in [gen : Generations \cup {None}, expired : BOOLEAN, closing : BOOLEAN]
        BY <1>4 DEF RunReopen, TypeOK
    <2> QED
        BY <1>1, <1>4, <2>1, TypedFromParts DEF RunReopen, TypeOK
<1> QED
    BY <1>2, <1>3, <1>4 DEF Spawned

(* Upstreams that close, time and OAuth keep the types. *)
LEMMA EnvironmentTyped ==
    ASSUME TypeOK, Environment
    PROVE  TypeOK'
<1>1. request \in [Requests -> Request] /\ cleanups \in SUBSET Tasks
    BY RequestsTyped DEF TypeOK
<1>2. ASSUME NEW s \in Services, ServiceCloses(s) PROVE TypeOK'
    BY <1>1, <1>2, TypedFromParts DEF ServiceCloses, TypeOK
<1>3. CASE ReservationExpires
    BY <1>1, <1>3, TypedFromParts DEF ReservationExpires, TypeOK
<1>4. CASE EntryExpires
    BY <1>1, <1>4, TypedFromParts DEF EntryExpires, TypeOK
<1>5. CASE OAuthCompletes
    <2>1. request' \in [Requests -> Request]
        BY <1>1, <1>5 DEF OAuthCompletes, Overtaken, Request
    <2> QED
        BY <1>1, <1>5, <2>1, TypedFromParts DEF OAuthCompletes, TypeOK
<1> QED
    BY <1>2, <1>3, <1>4, <1>5 DEF Environment

(* TypeOK is inductive with what the requests hold. *)
LEMMA TypeInductive ==
    TypeOK /\ Shaped /\ [Next]_vars => TypeOK'
<1> SUFFICES ASSUME TypeOK, Shaped, [Next]_vars PROVE TypeOK'
    OBVIOUS
<1>1. CASE UNCHANGED vars
    <2>1. request' \in [Requests -> Request] /\ cleanups' \in SUBSET Tasks
        BY <1>1, RequestsTyped DEF vars, TypeOK
    <2> QED
        BY <1>1, <2>1, TypedFromParts DEF vars, TypeOK
<1> QED
    BY <1>1, StepTyped, SpawnedTyped, EnvironmentTyped DEF Next

-----------------------------------------------------------------------------
(* What a request holds where it is *)

(* A request that goes on with what belongs there keeps Shaped. *)
LEMMA ShapedKept ==
    ASSUME TypeOK, Shaped, NEW r \in Requests, NEW next, NEW spawned, Goes(r, next, spawned),
           Shape(next), \A c \in spawned : c.task # "remove" => c.of = None
    PROVE  Shaped'
<1>1. \A q \in Requests : request'[q] = IF q = r THEN next ELSE request[q]
    BY RequestsTyped DEF Goes
<1>2. \A q \in Requests : Shape(request'[q])
    BY <1>1 DEF Shaped
<1>3. \A c \in cleanups' : c.task # "remove" => c.of = None
    BY DEF Goes, Orphans, Release, Shaped
<1> QED
    BY <1>2, <1>3 DEF Shaped

(* The usual ways on hold what belongs there. *)
LEMMA WaysShaped ==
    ASSUME TypeOK, Shaped, NEW r \in Requests
    PROVE  /\ Shape(Ended(r))
           /\ request[r].pc \in {"existing", "using"} => Shape(Retried(r))
           /\ request[r].pc \in Leasing => Shape(Settled(r))
           /\ request[r].pc = "look" => Shape(Ensured(r))
<1>1. request[r] \in Request /\ Shape(request[r])
    BY RequestsTyped DEF Shaped
<1>2. Shape(Ended(r))
    <2>1. CASE request[r].guard # None
        BY <1>1, <2>1 DEF Ended, Request, Shape, Leasing, Connecting, Closers
    <2>2. CASE request[r].guard = None
        BY <2>2, IdleTyped DEF Ended
    <2> QED
        BY <2>1, <2>2
<1>3. request[r].pc \in {"existing", "using"} => Shape(Retried(r))
    BY <1>1 DEF Retried, Request, Shape, Leasing, Connecting, Closers
<1>4. request[r].pc \in Leasing => Shape(Settled(r))
    BY <1>1 DEF Settled, Ensured, To, Request, Shape, Leasing, Connecting, Closers
<1>5. request[r].pc = "look" => Shape(Ensured(r))
    BY <1>1 DEF Ensured, To, Request, Shape, Leasing, Connecting, Closers
<1> QED
    BY <1>2, <1>3, <1>4, <1>5

(* Every step of a request holds what belongs where it goes. *)
LEMMA StepShaped ==
    ASSUME TypeOK, Shaped, NEW r \in Requests, Step(r)
    PROVE  Shaped'
<1> DEFINE Moved == \E next, spawned : /\ Goes(r, next, spawned) /\ Shape(next)
                                       /\ \A c \in spawned : c.task # "remove" => c.of = None
<1>1. request[r] \in Request /\ Shape(request[r])
    BY RequestsTyped DEF Shaped
<1>2. Moved => Shaped'
    BY ShapedKept
<1>3. \A c \in {} : c.task # "remove" => c.of = None
    OBVIOUS
<1>4. ASSUME NEW then \in {"open", "guard", "own"}, Open(r, then) PROVE Moved
    <2>1. Shape([Idle EXCEPT !.pc = "reserve", !.then = then])
        BY IdleTyped DEF Idle, Shape, Leasing, Connecting, Closers
    <2> QED
        BY <1>3, <1>4, <2>1 DEF Open
<1>5. ASSUME NEW then \in {"touch", "list"}, Find(r, then) PROVE Moved
    <2>1. entry.gen # None
        BY <1>5 DEF Find
    <2>2. /\ Shape([Idle EXCEPT !.pc = "closing", !.target = entry.gen])
          /\ Shape([Idle EXCEPT !.pc = "found", !.then = then, !.target = entry.gen])
        BY <2>1 DEF Idle, Shape, Leasing, Connecting, Closers
    <2> QED
        BY <1>3, <1>5, <2>2 DEF Find
<1>6. CASE BeginClose(r)
    <2>1. entry.gen # None
        BY <1>6 DEF BeginClose
    <2>2. Shape([Idle EXCEPT !.pc = "closing", !.target = entry.gen])
        BY <2>1 DEF Idle, Shape, Leasing, Connecting, Closers
    <2> QED
        BY <1>2, <1>3, <1>6, <2>2 DEF BeginClose
<1>7. CASE RefreshFound(r)
    <2>1. Shape([To(r, "existing") EXCEPT !.target = None])
        BY <1>1, <1>7 DEF RefreshFound, To, Request, Shape, Leasing, Connecting, Closers
    <2> QED
        BY <1>2, <1>3, <1>7, <2>1, WaysShaped DEF RefreshFound
<1>8. CASE ExistingOwner(r)
    <2>1. Shape(To(r, "using"))
        BY <1>1, <1>8 DEF ExistingOwner, To, Request, Shape, Leasing, Connecting, Closers
    <2> QED
        BY <1>2, <1>3, <1>8, <2>1, WaysShaped DEF ExistingOwner
<1>9. CASE UseExisting(r)
    BY <1>2, <1>3, <1>9, WaysShaped DEF UseExisting
<1>10. CASE Join(r)
    <2>1. Shape([request[r] EXCEPT !.pc = "look", !.lease = reservation.gen])
        BY <1>1, <1>10 DEF Join, Request, Shape, Leasing, Connecting, Closers
    <2> QED
        BY <1>2, <1>3, <1>10, <2>1 DEF Join
<1>11. CASE Replace(r)
    <2>1. last + 1 # None
        BY <1>11, NoneAssumption DEF Replace, TypeOK
    <2>2. Shape([request[r] EXCEPT !.pc = "look", !.lease = last + 1])
        BY <1>1, <1>11, <2>1 DEF Replace, Request, Shape, Leasing, Connecting, Closers
    <2> QED
        BY <1>2, <1>3, <1>11, <2>2 DEF Replace
<1>12. CASE Look(r)
    <2>1. Shape([request[r] EXCEPT !.pc = "begin", !.saw = failing])
        BY <1>1, <1>12 DEF Look, Request, Shape, Leasing, Connecting, Closers
    <2> QED
        BY <1>2, <1>3, <1>12, <2>1, WaysShaped DEF Look
<1>13. CASE Begin(r)
    <2>1. Shape([To(r, "connecting") EXCEPT !.stale = FALSE])
        BY <1>1, <1>13 DEF Begin, To, Request, Shape, Leasing, Connecting, Closers
    <2> QED
        BY <1>2, <1>3, <1>13, <2>1, WaysShaped DEF Begin
<1>14. ASSUME NEW s \in Services, Connect(r, s) PROVE Moved
    <2>1. Shape([To(r, "connected") EXCEPT !.svc = s])
        BY <1>1, <1>14 DEF Connect, To, Request, Shape, Leasing, Connecting, Closers
    <2> QED
        BY <1>2, <1>3, <1>14, <2>1 DEF Connect
<1>15. CASE FailToConnect(r)
    <2>1. Shape(To(r, "failed")) /\ Shape(To(r, "refused"))
        BY <1>1, <1>15 DEF FailToConnect, To, Request, Shape, Leasing, Connecting, Closers
    <2> QED
        BY <1>2, <1>3, <1>15, <2>1 DEF FailToConnect
<1>16. CASE FinalizeSuccess(r)
    <2>1. request[r].pc \in Leasing
        BY <1>16 DEF FinalizeSuccess, Leasing, Connecting
    <2> QED
        BY <1>2, <1>3, <1>16, <2>1, WaysShaped DEF FinalizeSuccess
<1>17. CASE FinalizeFailure(r)
    BY <1>2, <1>3, <1>17, WaysShaped DEF FinalizeFailure
<1>18. CASE AcquirePeer(r)
    <2>1. Shape(To(r, "opening"))
        BY <1>1, <1>18 DEF AcquirePeer, To, Request, Shape, Leasing, Connecting, Closers
    <2> QED
        BY <1>2, <1>3, <1>18, <2>1, IdleTyped DEF AcquirePeer
<1>19. CASE OpenEntry(r)
    BY <1>1, <1>19, RequestsTyped, IdleTyped DEF OpenEntry, Shaped
<1>20. CASE GuardListing(r)
    <2>1. Shape([To(r, "existing") EXCEPT !.guard = request[r].lease, !.lease = None])
        BY <1>1, <1>20 DEF GuardListing, To, Request, Shape, Leasing, Connecting, Closers
    <2> QED
        BY <1>2, <1>3, <1>20, <2>1 DEF GuardListing
<1>21. CASE GuardCall(r)
    <2>1. Shape([To(r, "cleaning") EXCEPT !.guard = request[r].lease, !.lease = None, !.then = "none"])
        BY <1>1, <1>21 DEF GuardCall, To, Request, Shape, Leasing, Connecting, Closers
    <2> QED
        BY <1>2, <1>3, <1>21, <2>1, IdleTyped DEF GuardCall
<1>22. CASE CleanUp(r)
    BY <1>2, <1>3, <1>22, IdleTyped DEF CleanUp
<1>23. CASE Own(r)
    <2>1. Shape([To(r, "owned") EXCEPT !.own = request[r].lease, !.lease = None])
        BY <1>1, <1>23 DEF Own, To, Request, Shape, Leasing, Connecting, Closers
    <2> QED
        BY <1>1, <1>23, <2>1, RequestsTyped DEF Own, Shaped
<1>24. CASE TakeOwner(r)
    <2>1. Shape([To(r, "used") EXCEPT !.lease = None])
        BY <1>1, <1>24 DEF TakeOwner, To, Request, Shape, Leasing, Connecting, Closers
    <2>2. \A c \in {Release(request[r].own)} : c.task # "remove" => c.of = None
        BY DEF Release
    <2> QED
        BY <1>2, <1>3, <1>24, <2>1, <2>2, WaysShaped DEF TakeOwner
<1>25. CASE UseFresh(r)
    BY <1>2, <1>3, <1>25, WaysShaped DEF UseFresh
<1>26. CASE ReleaseClosing(r)
    <2>1. Shape(To(r, "completing"))
        BY <1>1, <1>26 DEF ReleaseClosing, To, Request, Shape, Leasing, Connecting, Closers
    <2>2. \A c \in {Reopen(request[r].target)} : c.task # "remove" => c.of = None
        BY DEF Reopen
    <2> QED
        BY <1>2, <1>3, <1>26, <2>1, <2>2, IdleTyped DEF ReleaseClosing
<1>27. CASE CompleteClose(r)
    <2>1. \A c \in {Reopen(request[r].target)} : c.task # "remove" => c.of = None
        BY DEF Reopen
    <2> QED
        BY <1>2, <1>3, <1>27, <2>1, IdleTyped DEF CompleteClose
<1>28. CASE Drop(r)
    <2>1. \A c \in AttemptsLeft(r) \cup OwnersLeft(r) \cup ClosingsLeft(r) : c.task # "remove" => c.of = None
        BY DEF AttemptsLeft, OwnersLeft, ClosingsLeft, Remove, Release, Reopen
    <2> QED
        BY <1>2, <1>28, <2>1, IdleTyped DEF Drop
<1> QED
    BY <1>2, <1>4, <1>5, <1>6, <1>7, <1>8, <1>9, <1>10, <1>11, <1>12, <1>13, <1>14, <1>15, <1>16, <1>17,
       <1>18, <1>19, <1>20, <1>21, <1>22, <1>23, <1>24, <1>25, <1>26, <1>27, <1>28 DEF Step

(* Shaped is inductive with TypeOK. *)
LEMMA ShapedInductive ==
    TypeOK /\ Shaped /\ [Next]_vars => Shaped'
<1> SUFFICES ASSUME TypeOK, Shaped, [Next]_vars PROVE Shaped'
    OBVIOUS
<1>1. CASE UNCHANGED vars
    BY <1>1 DEF vars, Shaped
<1>2. ASSUME NEW r \in Requests, Step(r) PROVE Shaped'
    BY <1>2, StepShaped
<1>3. ASSUME NEW c \in cleanups, Spawned(c) PROVE Shaped'
    BY <1>3 DEF Spawned, RunRelease, RunRemove, RunReopen, Shaped
<1>4. CASE Environment
    <2>1. CASE OAuthCompletes
        <3>1. ASSUME NEW r \in Requests PROVE Shape(request'[r])
            <4>1. request[r] \in Request /\ Shape(request[r])
                BY RequestsTyped DEF Shaped
            <4>2. CASE request[r].pc \in Connecting
                <5>1. request'[r] = [request[r] EXCEPT !.stale = TRUE]
                    BY <2>1, <4>2 DEF OAuthCompletes, Overtaken
                <5> QED
                    BY <4>1, <4>2, <5>1 DEF Request, Shape, Leasing, Connecting, Closers
            <4>3. CASE request[r].pc \notin Connecting
                BY <2>1, <4>1, <4>3 DEF OAuthCompletes, Overtaken
            <4> QED
                BY <4>2, <4>3
        <3> QED
            BY <2>1, <3>1 DEF OAuthCompletes, Shaped
    <2>2. CASE ~OAuthCompletes
        BY <1>4, <2>2 DEF Environment, ServiceCloses, ReservationExpires, EntryExpires, Shaped
    <2> QED
        BY <2>1, <2>2
<1> QED
    BY <1>1, <1>2, <1>3, <1>4 DEF Next

-----------------------------------------------------------------------------
(* Upstreams and attempts *)

(* What Goes does to the requests and tasks. *)
LEMMA GoesMoves ==
    ASSUME TypeOK, NEW r \in Requests, NEW next, NEW spawned, Goes(r, next, spawned)
    PROVE  /\ request'[r] = next
           /\ \A q \in Requests \ {r} : request'[q] = request[q]
           /\ cleanups' = cleanups \cup spawned \cup Orphans(r, next)
BY RequestsTyped DEF Goes

(* A step of a request moves no other and takes back no task. *)
LEMMA StepMoves ==
    ASSUME TypeOK, NEW r \in Requests, Step(r)
    PROVE  (\A q \in Requests \ {r} : request'[q] = request[q]) /\ cleanups \subseteq cleanups'
<1> DEFINE Moved == \E next, spawned : Goes(r, next, spawned)
<1>1. Moved \/ OpenEntry(r) \/ Own(r)
    <2>1. CASE OpenEntry(r) \/ Own(r)
        BY <2>1
    <2>2. CASE ~(OpenEntry(r) \/ Own(r))
        BY <2>2 DEF Step, Open, Find, BeginClose, RefreshFound, ExistingOwner, UseExisting, Join, Replace, Look, Begin,
                    Connect, FailToConnect, FinalizeSuccess, FinalizeFailure, AcquirePeer, GuardListing, GuardCall,
                    CleanUp, TakeOwner, UseFresh, ReleaseClosing, CompleteClose, Drop
    <2> QED
        BY <2>1, <2>2
<1>2. CASE Moved
    BY <1>2, GoesMoves
<1>3. CASE OpenEntry(r) \/ Own(r)
    BY <1>3, RequestsTyped DEF OpenEntry, Own
<1> QED
    BY <1>1, <1>2, <1>3

(* What a step does to the session when the request neither is nor gets under way to an upstream. *)
Calm(r) ==
    /\ request[r].pc \notin Connecting /\ request'[r].pc \notin Connecting
    /\ inFlight' \subseteq inFlight
    /\ inFlight' = {} \/ reservation'.gen = reservation.gen
    /\ \/ UNCHANGED <<published, service>>
       \/ published' = None /\ service' = Stopped(published)

(* A detachment removes attempts and the connection, whose upstream it stops. *)
LEMMA DetachCalm ==
    ASSUME NEW g, Detach(g)
    PROVE  /\ inFlight' \subseteq inFlight
           /\ inFlight' = {} \/ reservation'.gen = reservation.gen
           /\ \/ UNCHANGED <<published, service>>
              \/ published' = None /\ service' = Stopped(published)
BY DEF Detach

(* The usual ways on lead to no upstream. *)
LEMMA WaysCalm ==
    ASSUME TypeOK, NEW r \in Requests
    PROVE  /\ Idle.pc \notin Connecting /\ Ended(r).pc \notin Connecting /\ Retried(r).pc \notin Connecting
           /\ Ensured(r).pc \notin Connecting /\ Settled(r).pc \notin Connecting
           /\ Renewed.gen = reservation.gen
<1>1. request[r] \in Request /\ reservation \in [gen : Generations \cup {None}, expired : BOOLEAN]
    BY RequestsTyped DEF TypeOK
<1> QED
    BY <1>1 DEF Ended, Retried, Ensured, Settled, To, Idle, Renewed, Connecting, Request

(* A step is calm, or one of the attempt itself. *)
LEMMA StepCalm ==
    ASSUME TypeOK, NEW r \in Requests, Step(r)
    PROVE  \/ Calm(r)
           \/ Begin(r) \/ FailToConnect(r) \/ FinalizeSuccess(r) \/ FinalizeFailure(r) \/ Drop(r)
           \/ \E s \in Services : Connect(r, s)
<1>1. request[r] \in Request /\ request \in [Requests -> Request]
    BY RequestsTyped
<1>2. ASSUME NEW then \in {"open", "guard", "own"}, Open(r, then) PROVE Calm(r)
    <2>1. [Idle EXCEPT !.pc = "reserve", !.then = then].pc \notin Connecting
        BY <1>1, <1>2, IdleTyped DEF Open, Free, To, Connecting, Request
    <2> QED
        BY <1>1, <1>2, <2>1, GoesMoves, WaysCalm DEF Calm, Open, Free, Connecting
<1>3. ASSUME NEW then \in {"touch", "list"}, Find(r, then) PROVE Calm(r)
    <2>1. [Idle EXCEPT !.pc = "closing", !.target = entry.gen].pc \notin Connecting /\ [Idle EXCEPT !.pc = "found", !.then = then, !.target = entry.gen].pc \notin Connecting
        BY <1>1, <1>3, IdleTyped DEF Find, Free, To, Connecting, Request
    <2> QED
        BY <1>1, <1>3, <2>1, GoesMoves, WaysCalm DEF Calm, Find, Free, Connecting
<1>4. CASE BeginClose(r)
    <2>1. [Idle EXCEPT !.pc = "closing", !.target = entry.gen].pc \notin Connecting
        BY <1>1, <1>4, IdleTyped DEF BeginClose, Free, To, Connecting, Request
    <2> QED
        BY <1>1, <1>4, <2>1, GoesMoves, WaysCalm DEF Calm, BeginClose, Free, Connecting
<1>5. CASE RefreshFound(r)
    <2>1. [To(r, "existing") EXCEPT !.target = None].pc \notin Connecting
        BY <1>1, <1>5, IdleTyped DEF RefreshFound, To, Connecting, Request
    <2> QED
        BY <1>1, <1>5, <2>1, GoesMoves, WaysCalm DEF Calm, RefreshFound, Connecting
<1>6. CASE ExistingOwner(r)
    BY <1>1, <1>6, GoesMoves, WaysCalm, IdleTyped DEF Calm, Connecting, Request, ExistingOwner, To
<1>7. CASE UseExisting(r)
    BY <1>1, <1>7, GoesMoves, WaysCalm, IdleTyped DEF Calm, Connecting, Request, UseExisting, To
<1>8. CASE Join(r)
    <2>1. [request[r] EXCEPT !.pc = "look", !.lease = reservation.gen].pc \notin Connecting
        BY <1>1, <1>8, IdleTyped DEF Join, To, Connecting, Request
    <2> QED
        BY <1>1, <1>8, <2>1, GoesMoves, WaysCalm DEF Calm, Join, Connecting
<1>9. CASE Replace(r)
    <2>1. [request[r] EXCEPT !.pc = "look", !.lease = last + 1].pc \notin Connecting
        BY <1>1, <1>9, IdleTyped DEF Replace, To, Connecting, Request
    <2> QED
        BY <1>1, <1>9, <2>1, GoesMoves, WaysCalm DEF Calm, Replace, Connecting
<1>10. CASE Look(r)
    <2>1. [request[r] EXCEPT !.pc = "begin", !.saw = failing].pc \notin Connecting
        BY <1>1, <1>10, IdleTyped DEF Look, To, Connecting, Request
    <2> QED
        BY <1>1, <1>10, <2>1, GoesMoves, WaysCalm DEF Calm, Look, Connecting
<1>11. CASE AcquirePeer(r)
    BY <1>1, <1>11, GoesMoves, WaysCalm, IdleTyped DEF Calm, Connecting, Request, AcquirePeer, To
<1>12. CASE OpenEntry(r)
    BY <1>1, <1>12, GoesMoves, WaysCalm, IdleTyped DEF Calm, Connecting, Request, OpenEntry, To
<1>13. CASE GuardListing(r)
    <2>1. [To(r, "existing") EXCEPT !.guard = request[r].lease, !.lease = None].pc \notin Connecting
        BY <1>1, <1>13, IdleTyped DEF GuardListing, To, Connecting, Request
    <2> QED
        BY <1>1, <1>13, <2>1, GoesMoves, WaysCalm DEF Calm, GuardListing, Connecting
<1>14. CASE GuardCall(r)
    <2>1. [To(r, "cleaning") EXCEPT !.guard = request[r].lease, !.lease = None, !.then = "none"].pc \notin Connecting
        BY <1>1, <1>14, IdleTyped DEF GuardCall, To, Connecting, Request
    <2> QED
        BY <1>1, <1>14, <2>1, GoesMoves, WaysCalm DEF Calm, GuardCall, Connecting
<1>15. CASE CleanUp(r)
    BY <1>1, <1>15, GoesMoves, WaysCalm, IdleTyped, DetachCalm DEF Calm, Connecting, Request, CleanUp, To
<1>16. CASE Own(r)
    BY <1>1, <1>16, GoesMoves, WaysCalm, IdleTyped DEF Calm, Connecting, Request, Own, To
<1>17. CASE TakeOwner(r)
    <2>1. [To(r, "used") EXCEPT !.lease = None].pc \notin Connecting
        BY <1>1, <1>17, IdleTyped DEF TakeOwner, To, Connecting, Request
    <2> QED
        BY <1>1, <1>17, <2>1, GoesMoves, WaysCalm DEF Calm, TakeOwner, Connecting
<1>18. CASE UseFresh(r)
    BY <1>1, <1>18, GoesMoves, WaysCalm, IdleTyped, DetachCalm DEF Calm, Connecting, Request, UseFresh, To
<1>19. CASE ReleaseClosing(r)
    BY <1>1, <1>19, GoesMoves, WaysCalm, IdleTyped, DetachCalm DEF Calm, Connecting, Request, ReleaseClosing, To
<1>20. CASE CompleteClose(r)
    BY <1>1, <1>20, GoesMoves, WaysCalm, IdleTyped DEF Calm, Connecting, Request, CompleteClose, To
<1> QED
    BY <1>2, <1>3, <1>4, <1>5, <1>6, <1>7, <1>8, <1>9, <1>10, <1>11, <1>12, <1>13, <1>14, <1>15, <1>16, <1>17, <1>18, <1>19, <1>20 DEF Step

(* A step of a request leaks no upstream: what it starts it holds, and what is let go of is stopped. *)
LEMMA StepLeaks ==
    ASSUME TypeOK, Shaped, NothingLeaks, NEW r \in Requests, Step(r)
    PROVE  NothingLeaks'
<1>1. \A q \in Requests \ {r} : request'[q] = request[q]
    BY StepMoves
<1>2. request[r].pc # "connected" => request[r].svc = None
    BY DEF Shaped, Shape
<1>3. None \notin Services
    BY NoneIsApart
<1> SUFFICES ASSUME NEW s \in Services, service'[s] # "none"
             PROVE  s = published' \/ \E q \in Requests : request'[q].svc = s
    BY DEF NothingLeaks
<1>4. service[s] # "none" => s = published \/ \E q \in Requests : request[q].svc = s
    BY DEF NothingLeaks
<1>5. CASE Calm(r)
    BY <1>1, <1>2, <1>3, <1>4, <1>5 DEF Calm, Stopped, Connecting
<1>6. CASE Begin(r) \/ FailToConnect(r) \/ FinalizeFailure(r)
    BY <1>1, <1>2, <1>3, <1>4, <1>6 DEF Begin, FailToConnect, FinalizeFailure
<1>7. CASE \E x \in Services : Connect(r, x)
    <2>1. PICK x \in Services : Connect(r, x)
        BY <1>7
    <2>2. request'[r].svc = x
        <3>1. [To(r, "connected") EXCEPT !.svc = x].svc = x
            BY RequestsTyped DEF To, Request
        <3> QED
            BY <2>1, <3>1, GoesMoves DEF Connect
    <2>3. s = x \/ service[s] # "none"
        BY <2>1 DEF Connect, TypeOK
    <2>4. request[r].svc = None /\ published' = published
        BY <1>2, <2>1 DEF Connect
    <2> QED
        BY <1>1, <1>3, <1>4, <2>2, <2>3, <2>4
<1>8. CASE FinalizeSuccess(r)
    <2>1. CASE Claims(r) /\ published = None
        <3>1. published' = request[r].svc /\ service' = service
            BY <1>8, <2>1 DEF FinalizeSuccess
        <3> QED
            BY <1>1, <1>3, <1>4, <2>1, <3>1
    <2>2. CASE ~(Claims(r) /\ published = None)
        <3>1. published' = published /\ service' = Stopped(request[r].svc)
            BY <1>8, <2>2 DEF FinalizeSuccess
        <3>2. s # request[r].svc /\ service[s] # "none"
            BY <3>1 DEF Stopped
        <3> QED
            BY <1>1, <1>4, <3>1, <3>2
    <2> QED
        BY <2>1, <2>2
<1>9. CASE Drop(r)
    <2>1. published' = published /\ service' = Stopped(request[r].svc)
        BY <1>9 DEF Drop
    <2>2. s # request[r].svc /\ service[s] # "none"
        BY <2>1 DEF Stopped
    <2> QED
        BY <1>1, <1>4, <2>1, <2>2
<1> QED
    BY <1>5, <1>6, <1>7, <1>8, <1>9, StepCalm

(* NothingLeaks is inductive with the types and shapes. *)
LEMMA LeaksInductive ==
    TypeOK /\ Shaped /\ NothingLeaks /\ [Next]_vars => NothingLeaks'
<1> SUFFICES ASSUME TypeOK, Shaped, NothingLeaks, [Next]_vars PROVE NothingLeaks'
    OBVIOUS
<1>1. CASE UNCHANGED vars
    BY <1>1 DEF vars, NothingLeaks
<1>2. ASSUME NEW r \in Requests, Step(r) PROVE NothingLeaks'
    BY <1>2, StepLeaks
<1>3. ASSUME NEW c \in cleanups, Spawned(c) PROVE NothingLeaks'
    <2>1. request' = request
        BY <1>3 DEF Spawned, RunRelease, RunRemove, RunReopen
    <2>2. UNCHANGED <<published, service>> \/ (published' = None /\ service' = Stopped(published))
        BY <1>3, DetachCalm DEF Spawned, RunRelease, RunRemove, RunReopen
    <2> QED
        BY <2>1, <2>2 DEF NothingLeaks, Stopped
<1>4. CASE Environment
    <2>1. CASE OAuthCompletes
        <3>1. \A r \in Requests : request'[r].svc = request[r].svc
            BY <2>1, RequestsTyped DEF OAuthCompletes, Overtaken, Request
        <3> QED
            BY <2>1, <3>1 DEF OAuthCompletes, NothingLeaks
    <2>2. ASSUME NEW s \in Services, ServiceCloses(s) PROVE NothingLeaks'
        BY <2>2 DEF ServiceCloses, NothingLeaks, TypeOK
    <2>3. CASE ReservationExpires \/ EntryExpires
        BY <2>3 DEF ReservationExpires, EntryExpires, NothingLeaks
    <2> QED
        BY <1>4, <2>1, <2>2, <2>3 DEF Environment
<1> QED
    BY <1>1, <1>2, <1>3, <1>4 DEF Next

(* The attempts of the others, and their records, are left to them. *)
LEMMA AttemptsKept ==
    ASSUME TypeOK, AttemptsAreHeld, OvertakenAreOut, NEW r \in Requests, Step(r),
           inFlight' \subseteq inFlight \cup {r},
           inFlight' = {} \/ reservation'.gen = reservation.gen,
           r \in inFlight' => \/ request'[r].pc \in Connecting /\ request'[r].lease = reservation'.gen
                              \/ Remove(r, reservation'.gen) \in cleanups',
           request'[r].stale /\ request'[r].pc \in Connecting => r \notin inFlight'
    PROVE  AttemptsAreHeld' /\ OvertakenAreOut'
<1>1. (\A q \in Requests \ {r} : request'[q] = request[q]) /\ cleanups \subseteq cleanups'
    BY StepMoves
<1>2. AttemptsAreHeld'
    <2> SUFFICES ASSUME NEW q \in inFlight', q # r
                 PROVE  \/ request'[q].pc \in Connecting /\ request'[q].lease = reservation'.gen
                        \/ Remove(q, reservation'.gen) \in cleanups'
        BY DEF AttemptsAreHeld, Remove
    <2>1. q \in inFlight /\ reservation'.gen = reservation.gen /\ q \in Requests
        BY DEF TypeOK
    <2>2. \/ request[q].pc \in Connecting /\ request[q].lease = reservation.gen
          \/ Remove(q, reservation.gen) \in cleanups
        BY <2>1 DEF AttemptsAreHeld
    <2>3. Remove(q, reservation'.gen) = Remove(q, reservation.gen)
        BY <2>1 DEF Remove
    <2> QED
        BY <1>1, <2>1, <2>2, <2>3
<1>3. OvertakenAreOut'
    BY <1>1 DEF OvertakenAreOut
<1> QED
    BY <1>2, <1>3

(* A step of a request leaves no attempt behind, its own or another. *)
LEMMA StepAttempts ==
    ASSUME TypeOK, Shaped, AttemptsAreHeld, OvertakenAreOut, NEW r \in Requests, Step(r)
    PROVE  AttemptsAreHeld' /\ OvertakenAreOut'
<1>1. request[r] \in Request /\ Shape(request[r])
    BY RequestsTyped DEF Shaped
<1>2. r \in inFlight => \/ request[r].pc \in Connecting /\ request[r].lease = reservation.gen
                        \/ Remove(r, reservation.gen) \in cleanups
    BY DEF AttemptsAreHeld
<1>3. request[r].stale /\ request[r].pc \in Connecting => r \notin inFlight
    BY DEF OvertakenAreOut
<1>4. cleanups \subseteq cleanups'
    BY StepMoves
<1>5. CASE Calm(r)
    <2>1. r \in inFlight' => Remove(r, reservation.gen) \in cleanups' /\ reservation'.gen = reservation.gen
        BY <1>2, <1>4, <1>5 DEF Calm
    <2>2. r \in inFlight' => Remove(r, reservation'.gen) \in cleanups'
        BY <2>1 DEF Remove
    <2> QED
        BY <1>5, <2>2, AttemptsKept DEF Calm
<1>6. CASE Begin(r)
    <2>1. reservation' = reservation
        BY <1>6 DEF Begin
    <2>2. CASE Matches(request[r].lease)
        <3>1. LET next == [To(r, "connecting") EXCEPT !.stale = FALSE]
              IN  /\ next.pc = "connecting" /\ next.lease = request[r].lease /\ ~next.stale
                  /\ request'[r] = next
            BY <1>1, <1>6, <2>2, GoesMoves DEF Begin, To, Request
        <3>2. inFlight' = inFlight \cup {r} /\ request[r].lease = reservation.gen
            BY <1>6, <2>2 DEF Begin, Matches, Identical
        <3> QED
            BY <2>1, <3>1, <3>2, AttemptsKept DEF Connecting
    <2>3. CASE ~Matches(request[r].lease)
        <3>1. inFlight' = inFlight /\ request'[r].pc \notin Connecting
            BY <1>6, <2>3, GoesMoves, WaysCalm DEF Begin
        <3>2. r \in inFlight => Remove(r, reservation'.gen) \in cleanups'
            BY <1>2, <1>4, <1>6, <2>1 DEF Begin, Connecting
        <3> QED
            BY <2>1, <3>1, <3>2, AttemptsKept
    <2> QED
        BY <2>2, <2>3
<1>7. ASSUME (\E s \in Services : Connect(r, s)) \/ FailToConnect(r)
      PROVE  AttemptsAreHeld' /\ OvertakenAreOut'
    <2>1. reservation' = reservation /\ inFlight' = inFlight
        BY <1>7 DEF Connect, FailToConnect
    <2>2. /\ request'[r].lease = request[r].lease /\ request'[r].stale = request[r].stale
          /\ request'[r].pc \in Connecting /\ request[r].pc \in Connecting
        <3>1. CASE FailToConnect(r)
            <4>1. \A pc \in {"failed", "refused"} :
                    To(r, pc).lease = request[r].lease /\ To(r, pc).stale = request[r].stale /\ To(r, pc).pc = pc
                BY <1>1 DEF To, Request
            <4> QED
                BY <3>1, <4>1, GoesMoves DEF FailToConnect, Connecting
        <3>2. ASSUME NEW s \in Services, Connect(r, s)
              PROVE  /\ request'[r].lease = request[r].lease /\ request'[r].stale = request[r].stale
                     /\ request'[r].pc \in Connecting /\ request[r].pc \in Connecting
            <4>1. LET next == [To(r, "connected") EXCEPT !.svc = s]
                  IN  /\ next.lease = request[r].lease /\ next.stale = request[r].stale
                      /\ next.pc = "connected" /\ request'[r] = next
                BY <1>1, <3>2, GoesMoves DEF Connect, To, Request
            <4> QED
                BY <3>2, <4>1 DEF Connect, Connecting
        <3> QED
            BY <1>7, <3>1, <3>2
    <2>3. r \in inFlight' => \/ request'[r].pc \in Connecting /\ request'[r].lease = reservation'.gen
                             \/ Remove(r, reservation'.gen) \in cleanups'
        BY <1>2, <1>4, <2>1, <2>2
    <2> QED
        BY <1>3, <2>1, <2>2, <2>3, AttemptsKept
<1>8. ASSUME FinalizeSuccess(r) \/ FinalizeFailure(r)
      PROVE  AttemptsAreHeld' /\ OvertakenAreOut'
    <2>1. inFlight' = WithoutAttempt(r) /\ request[r].pc \in Connecting
        BY <1>8 DEF FinalizeSuccess, FinalizeFailure, Connecting
    <2>2. reservation'.gen = reservation.gen /\ request'[r].pc \notin Connecting
        BY <1>8, GoesMoves, WaysCalm DEF FinalizeSuccess, FinalizeFailure
    <2>3. r \in inFlight' => Remove(r, reservation.gen) \in cleanups
        BY <1>1, <1>2, <2>1 DEF WithoutAttempt, Identical, Shape, Leasing
    <2>4. r \in inFlight' => Remove(r, reservation'.gen) \in cleanups'
        BY <1>4, <2>2, <2>3 DEF Remove
    <2>5. inFlight' \subseteq inFlight
        BY <2>1 DEF WithoutAttempt
    <2> QED
        BY <2>2, <2>4, <2>5, AttemptsKept
<1>9. CASE Drop(r)
    <2>1. reservation' = reservation /\ inFlight' = inFlight /\ request'[r] = Idle
        BY <1>9, GoesMoves DEF Drop
    <2>2. request[r].pc \in Connecting => Remove(r, request[r].lease) \in cleanups'
        BY <1>9, GoesMoves DEF Drop, AttemptsLeft
    <2>3. r \in inFlight => Remove(r, reservation'.gen) \in cleanups'
        BY <1>2, <1>4, <2>1, <2>2
    <2>4. Idle.pc \notin Connecting
        BY WaysCalm
    <2> QED
        BY <2>1, <2>3, <2>4, AttemptsKept
<1> QED
    BY <1>5, <1>6, <1>7, <1>8, <1>9, StepCalm

(* The two invariants of the attempts are inductive. *)
LEMMA AttemptsInductive ==
    TypeOK /\ Shaped /\ AttemptsAreHeld /\ OvertakenAreOut /\ [Next]_vars => AttemptsAreHeld' /\ OvertakenAreOut'
<1> SUFFICES ASSUME TypeOK, Shaped, AttemptsAreHeld, OvertakenAreOut, [Next]_vars
             PROVE  AttemptsAreHeld' /\ OvertakenAreOut'
    OBVIOUS
<1>1. CASE UNCHANGED vars
    BY <1>1 DEF vars, AttemptsAreHeld, OvertakenAreOut, Remove
<1>2. ASSUME NEW r \in Requests, Step(r) PROVE AttemptsAreHeld' /\ OvertakenAreOut'
    BY <1>2, StepAttempts
<1>3. ASSUME NEW c \in cleanups, Spawned(c) PROVE AttemptsAreHeld' /\ OvertakenAreOut'
    <2>1. request' = request /\ cleanups' = cleanups \ {c}
        BY <1>3 DEF Spawned, RunRelease, RunRemove, RunReopen
    <2>2. inFlight' \subseteq inFlight /\ (inFlight' = {} \/ reservation'.gen = reservation.gen)
        BY <1>3, DetachCalm DEF Spawned, RunRelease, RunRemove, RunReopen
    <2>3. ASSUME NEW r \in inFlight' PROVE c # Remove(r, reservation.gen)
        <3>1. CASE RunRemove(c)
            <4>1. c = Remove(r, reservation.gen) => c.gen = reservation.gen /\ c.of = r
                BY DEF Remove
            <4>2. reservation.gen # None
                BY <2>2 DEF TypeOK
            <4> QED
                BY <3>1, <4>1, <4>2 DEF RunRemove, Identical
        <3>2. CASE RunRelease(c) \/ RunReopen(c)
            BY <3>2 DEF RunRelease, RunReopen, Remove
        <3> QED
            BY <1>3, <3>1, <3>2 DEF Spawned
    <2>4. \A r \in inFlight' : \/ request[r].pc \in Connecting /\ request[r].lease = reservation.gen
                               \/ Remove(r, reservation.gen) \in cleanups'
        BY <2>1, <2>2, <2>3 DEF AttemptsAreHeld
    <2>5. inFlight' = {} \/ \A r \in Requests : Remove(r, reservation'.gen) = Remove(r, reservation.gen)
        BY <2>2 DEF Remove
    <2>6. inFlight' \subseteq Requests
        BY <2>2 DEF TypeOK
    <2> QED
        BY <2>1, <2>2, <2>4, <2>5, <2>6 DEF AttemptsAreHeld, OvertakenAreOut
<1>4. CASE Environment
    <2>1. CASE OAuthCompletes
        BY <2>1 DEF OAuthCompletes, AttemptsAreHeld, OvertakenAreOut
    <2>2. CASE ~OAuthCompletes
        <3>1. UNCHANGED <<inFlight, request, cleanups>> /\ reservation'.gen = reservation.gen
            BY <1>4, <2>2 DEF Environment, ServiceCloses, ReservationExpires, EntryExpires, TypeOK
        <3>2. \A r \in inFlight : Remove(r, reservation'.gen) = Remove(r, reservation.gen)
            BY <3>1 DEF Remove
        <3> QED
            BY <3>1, <3>2 DEF AttemptsAreHeld, OvertakenAreOut
    <2> QED
        BY <2>1, <2>2
<1> QED
    BY <1>1, <1>2, <1>3, <1>4 DEF Next

-----------------------------------------------------------------------------
(* The session of one request, and the closing of the entry *)

(* The usual ways on make nobody lonely. *)
LEMMA WaysLonely ==
    ASSUME TypeOK, NEW r \in Requests
    PROVE  /\ \A pc \in Pcs : Lonely(To(r, pc)) => Lonely(request[r])
           /\ Lonely(Ended(r)) => Lonely(request[r])
           /\ Lonely(Retried(r)) => Lonely(request[r])
           /\ Lonely(Settled(r)) => Lonely(request[r])
<1>1. request[r] \in Request
    BY RequestsTyped
<1>2. Lonely(Ended(r)) => Lonely(request[r])
    <2>1. CASE request[r].guard # None
        BY <2>1 DEF Lonely
    <2>2. CASE request[r].guard = None
        BY <2>2, IdleTyped DEF Ended
    <2> QED
        BY <2>1, <2>2
<1>3. \A pc \in Pcs : Lonely(To(r, pc)) => Lonely(request[r])
    BY <1>1 DEF To, Lonely, Request
<1>4. Lonely(Retried(r)) => Lonely(request[r])
    BY <1>1 DEF Retried, Lonely, Request
<1>5. Lonely(Settled(r)) => Lonely(request[r])
    BY <1>1 DEF Settled, Ensured, To, Lonely, Request
<1> QED
    BY <1>2, <1>3, <1>4, <1>5

(* A request that is under way makes nobody lonely, unless it was. *)
Discreet(r) ==
    /\ request[r].pc # "idle"
    /\ Lonely(request'[r]) => Lonely(request[r]) /\ (entry.gen = None => entry'.gen = None)

(* A discreet step keeps the lonely alone. *)
LEMMA LonelyKept ==
    ASSUME TypeOK, LonelyAreAlone, NEW r \in Requests, Step(r), Discreet(r)
    PROVE  LonelyAreAlone'
<1>1. \A q \in Requests \ {r} : request'[q] = request[q]
    BY StepMoves
<1> SUFFICES ASSUME NEW q \in Requests, Lonely(request'[q])
             PROVE  entry'.gen = None /\ \A o \in Requests \ {q} : request'[o].pc = "idle"
    BY DEF LonelyAreAlone, Lonely
<1>2. CASE q = r
    BY <1>1, <1>2 DEF Discreet, LonelyAreAlone
<1>3. CASE q # r
    BY <1>1, <1>3 DEF Discreet, LonelyAreAlone
<1> QED
    BY <1>2, <1>3

(* A step is discreet, or the first of a request. *)
LEMMA StepDiscreet ==
    ASSUME TypeOK, Shaped, NEW r \in Requests, Step(r)
    PROVE  \/ Discreet(r)
           \/ \E then \in {"open", "guard", "own"} : Open(r, then)
           \/ \E then \in {"touch", "list"} : Find(r, then)
           \/ BeginClose(r)
<1>1. request[r] \in Request
    BY RequestsTyped
<1>2. CASE RefreshFound(r)
    <2>1. (Lonely([To(r, "existing") EXCEPT !.target = None]) => Lonely(request[r]))
        BY <1>1, <1>2, IdleTyped DEF RefreshFound, To, Ensured, Lonely, Request
    <2> QED
        BY <1>2, <2>1, GoesMoves, WaysLonely, IdleTyped DEF Discreet, RefreshFound, Ensured, Pcs
<1>3. CASE ExistingOwner(r)
    BY <1>3, GoesMoves, WaysLonely, IdleTyped DEF Discreet, ExistingOwner, Ensured, Pcs
<1>4. CASE UseExisting(r)
    BY <1>4, GoesMoves, WaysLonely, IdleTyped DEF Discreet, UseExisting, Ensured, Pcs
<1>5. CASE Join(r)
    <2>1. (Lonely([request[r] EXCEPT !.pc = "look", !.lease = reservation.gen]) => Lonely(request[r]))
        BY <1>1, <1>5, IdleTyped DEF Join, To, Ensured, Lonely, Request
    <2> QED
        BY <1>5, <2>1, GoesMoves, WaysLonely, IdleTyped DEF Discreet, Join, Ensured, Pcs
<1>6. CASE Replace(r)
    <2>1. (Lonely([request[r] EXCEPT !.pc = "look", !.lease = last + 1]) => Lonely(request[r]))
        BY <1>1, <1>6, IdleTyped DEF Replace, To, Ensured, Lonely, Request
    <2> QED
        BY <1>6, <2>1, GoesMoves, WaysLonely, IdleTyped DEF Discreet, Replace, Ensured, Pcs
<1>7. CASE Look(r)
    <2>1. (Lonely([request[r] EXCEPT !.pc = "begin", !.saw = failing]) => Lonely(request[r]))
        BY <1>1, <1>7, IdleTyped DEF Look, To, Ensured, Lonely, Request
    <2> QED
        BY <1>7, <2>1, GoesMoves, WaysLonely, IdleTyped DEF Discreet, Look, Ensured, Pcs
<1>8. CASE Begin(r)
    <2>1. (Lonely([To(r, "connecting") EXCEPT !.stale = FALSE]) => Lonely(request[r]))
        BY <1>1, <1>8, IdleTyped DEF Begin, To, Ensured, Lonely, Request
    <2> QED
        BY <1>8, <2>1, GoesMoves, WaysLonely, IdleTyped DEF Discreet, Begin, Ensured, Pcs
<1>9. CASE FailToConnect(r)
    BY <1>9, GoesMoves, WaysLonely, IdleTyped DEF Discreet, FailToConnect, Ensured, Pcs
<1>10. CASE FinalizeSuccess(r)
    BY <1>10, GoesMoves, WaysLonely, IdleTyped DEF Discreet, FinalizeSuccess, Ensured, Pcs
<1>11. CASE FinalizeFailure(r)
    BY <1>11, GoesMoves, WaysLonely, IdleTyped DEF Discreet, FinalizeFailure, Ensured, Pcs
<1>12. CASE AcquirePeer(r)
    BY <1>12, GoesMoves, WaysLonely, IdleTyped DEF Discreet, AcquirePeer, Ensured, Pcs
<1>13. CASE GuardListing(r)
    <2>1. (Lonely([To(r, "existing") EXCEPT !.guard = request[r].lease, !.lease = None]) => Lonely(request[r]))
        BY <1>1, <1>13, IdleTyped DEF GuardListing, To, Ensured, Lonely, Request
    <2> QED
        BY <1>13, <2>1, GoesMoves, WaysLonely, IdleTyped DEF Discreet, GuardListing, Ensured, Pcs
<1>14. CASE GuardCall(r)
    <2>1. (Lonely([To(r, "cleaning") EXCEPT !.guard = request[r].lease, !.lease = None, !.then = "none"]) => Lonely(request[r]))
        BY <1>1, <1>14, IdleTyped DEF GuardCall, To, Ensured, Lonely, Request
    <2> QED
        BY <1>14, <2>1, GoesMoves, WaysLonely, IdleTyped DEF Discreet, GuardCall, Ensured, Pcs
<1>15. CASE CleanUp(r)
    BY <1>15, GoesMoves, WaysLonely, IdleTyped DEF Discreet, CleanUp, Ensured, Pcs
<1>16. CASE TakeOwner(r)
    <2>1. (Lonely([To(r, "used") EXCEPT !.lease = None]) => Lonely(request[r]))
        BY <1>1, <1>16, IdleTyped DEF TakeOwner, To, Ensured, Lonely, Request
    <2> QED
        BY <1>16, <2>1, GoesMoves, WaysLonely, IdleTyped DEF Discreet, TakeOwner, Ensured, Pcs
<1>17. CASE UseFresh(r)
    BY <1>17, GoesMoves, WaysLonely, IdleTyped DEF Discreet, UseFresh, Ensured, Pcs
<1>18. CASE ReleaseClosing(r)
    BY <1>18, GoesMoves, WaysLonely, IdleTyped DEF Discreet, ReleaseClosing, Ensured, Pcs
<1>19. CASE CompleteClose(r)
    BY <1>19, GoesMoves, WaysLonely, IdleTyped DEF Discreet, CompleteClose, Ensured, Pcs
<1>20. CASE Drop(r)
    BY <1>20, GoesMoves, WaysLonely, IdleTyped DEF Discreet, Drop, Ensured, Pcs
<1>21. ASSUME NEW x \in Services, Connect(r, x) PROVE Discreet(r)
    <2>1. (Lonely([To(r, "connected") EXCEPT !.svc = x]) => Lonely(request[r]))
        BY <1>1, <1>21, IdleTyped DEF Connect, To, Ensured, Lonely, Request
    <2> QED
        BY <1>21, <2>1, GoesMoves, WaysLonely, IdleTyped DEF Discreet, Connect, Ensured, Pcs
<1>22. CASE OpenEntry(r)
    BY <1>22, RequestsTyped, IdleTyped DEF Discreet, OpenEntry
<1>23. CASE Own(r)
    BY <1>23 DEF Discreet, Own, Lonely
<1> QED
    BY <1>2, <1>3, <1>4, <1>5, <1>6, <1>7, <1>8, <1>9, <1>10, <1>11, <1>12, <1>13, <1>14, <1>15, <1>16, <1>17, <1>18, <1>19, <1>20, <1>21, <1>22, <1>23 DEF Step

(* LonelyAreAlone is inductive: a session is opened once, and found only when it has an entry. *)
LEMMA LonelyInductive ==
    TypeOK /\ Shaped /\ LonelyAreAlone /\ [Next]_vars => LonelyAreAlone'
<1> SUFFICES ASSUME TypeOK, Shaped, LonelyAreAlone, [Next]_vars PROVE LonelyAreAlone'
    OBVIOUS
<1>1. CASE UNCHANGED vars
    BY <1>1 DEF vars, LonelyAreAlone, Lonely
<1>2. ASSUME NEW r \in Requests, Step(r) PROVE LonelyAreAlone'
    <2>1. \A q \in Requests \ {r} : request'[q] = request[q]
        BY <1>2, StepMoves
    <2>2. ASSUME NEW then \in {"open", "guard", "own"}, Open(r, then) PROVE LonelyAreAlone'
        <3>1. entry' = entry /\ entry.gen = None
            BY <2>2, NoneAssumption DEF Open, TypeOK, Generations
        <3>2. \A q \in Requests \ {r} : request'[q].pc = "idle" /\ request'[q] = Idle
            BY <2>1, <2>2 DEF Open, Shaped, Shape
        <3> QED
            BY <3>1, <3>2, IdleTyped DEF LonelyAreAlone, Lonely
    <2>3. ASSUME NEW next, Goes(r, next, {}), ~Lonely(next), entry.gen # None PROVE LonelyAreAlone'
        <3>1. \A q \in Requests : ~Lonely(request'[q])
            BY <2>1, <2>3, GoesMoves DEF LonelyAreAlone
        <3> QED
            BY <3>1 DEF LonelyAreAlone, Lonely
    <2>4. ASSUME NEW then \in {"touch", "list"}, Find(r, then) PROVE LonelyAreAlone'
        <3>1. /\ ~Lonely([Idle EXCEPT !.pc = "closing", !.target = entry.gen])
              /\ ~Lonely([Idle EXCEPT !.pc = "found", !.then = then, !.target = entry.gen])
            BY DEF Idle, Lonely
        <3> QED
            BY <2>3, <2>4, <3>1 DEF Find
    <2>5. CASE BeginClose(r)
        <3>1. ~Lonely([Idle EXCEPT !.pc = "closing", !.target = entry.gen])
            BY DEF Idle, Lonely
        <3> QED
            BY <2>3, <2>5, <3>1 DEF BeginClose
    <2> QED
        BY <1>2, <2>2, <2>4, <2>5, StepDiscreet, LonelyKept
<1>3. ASSUME NEW c \in cleanups, Spawned(c) PROVE LonelyAreAlone'
    <2>1. request' = request /\ entry'.gen = entry.gen
        BY <1>3 DEF Spawned, RunRelease, RunRemove, RunReopen, TypeOK
    <2> QED
        BY <2>1 DEF LonelyAreAlone, Lonely
<1>4. CASE Environment
    <2>1. entry'.gen = entry.gen
        BY <1>4 DEF Environment, ServiceCloses, ReservationExpires, EntryExpires, OAuthCompletes, TypeOK
    <2>2. \A r \in Requests : /\ request'[r].pc = request[r].pc /\ request'[r].then = request[r].then
                              /\ request'[r].guard = request[r].guard /\ request'[r].own = request[r].own
        BY <1>4, RequestsTyped DEF Environment, ServiceCloses, ReservationExpires, EntryExpires, OAuthCompletes,
                                   Overtaken, Request
    <2> QED
        BY <2>1, <2>2 DEF LonelyAreAlone, Lonely
<1> QED
    BY <1>1, <1>2, <1>3, <1>4 DEF Next

(* A step by which nobody comes to close the entry, or stops to. *)
Aloof(r) ==
    /\ request[r].pc \notin Closers /\ request'[r].pc \notin Closers
    /\ entry' = entry
    /\ \A c \in cleanups' : c.task = "reopen" => c \in cleanups
    /\ reservation'.gen \in {reservation.gen, None, last + 1}

(* A lease that is given up spawns releases only. *)
LEMMA OrphansAreReleases ==
    ASSUME NEW r, NEW next
    PROVE  \A c \in Orphans(r, next) : c.task = "release"
BY DEF Orphans, Release

(* A request that goes on where nothing is closed, and reopens nothing, is aloof. *)
LEMMA GoesAloof ==
    ASSUME TypeOK, NEW r \in Requests, NEW next, NEW spawned, Goes(r, next, spawned),
           request[r].pc \notin Closers, next.pc \notin Closers, \A c \in spawned : c.task # "reopen",
           entry' = entry, reservation'.gen \in {reservation.gen, None, last + 1}
    PROVE  Aloof(r)
<1>1. \A c \in cleanups' : c \in cleanups \/ c \in spawned \/ c.task = "release"
    BY GoesMoves, OrphansAreReleases
<1> QED
    BY <1>1, GoesMoves DEF Aloof

(* Whoever spawns nothing leaves at most releases behind. *)
LEMMA GoesQuietly ==
    ASSUME TypeOK, NEW r \in Requests, NEW next, Goes(r, next, {})
    PROVE  request'[r] = next /\ \A c \in cleanups' : c.task = "reopen" => c \in cleanups
<1>1. \A c \in cleanups' : c \in cleanups \/ c.task = "release"
    BY GoesMoves, OrphansAreReleases
<1> QED
    BY <1>1, GoesMoves

(* The usual ways on close nothing. *)
LEMMA WaysAloof ==
    ASSUME TypeOK, NEW r \in Requests
    PROVE  /\ Idle.pc \notin Closers /\ Ended(r).pc \notin Closers /\ Retried(r).pc \notin Closers
           /\ Ensured(r).pc \notin Closers /\ Settled(r).pc \notin Closers
           /\ Renewed.gen = reservation.gen /\ NoReservation.gen = None
           /\ \A c \in {} : c.task # "reopen"
<1>1. request[r] \in Request /\ reservation \in [gen : Generations \cup {None}, expired : BOOLEAN]
    BY RequestsTyped DEF TypeOK
<1> QED
    BY <1>1 DEF Ended, Retried, Ensured, Settled, To, Idle, Renewed, NoReservation, Closers, Request

(* A step is aloof, or one of those that close or open the entry. *)
LEMMA StepAloof ==
    ASSUME TypeOK, NEW r \in Requests, Step(r)
    PROVE  \/ Aloof(r)
           \/ \E then \in {"touch", "list"} : Find(r, then)
           \/ BeginClose(r) \/ OpenEntry(r) \/ ReleaseClosing(r) \/ CompleteClose(r) \/ Drop(r)
<1>1. request[r] \in Request
    BY RequestsTyped
<1>2. \A g : Detach(g) => reservation'.gen \in {reservation.gen, None, last + 1}
    BY WaysAloof DEF Detach
<1>3. ASSUME NEW then \in {"open", "guard", "own"}, Open(r, then) PROVE Aloof(r)
    <2>1. [Idle EXCEPT !.pc = "reserve", !.then = then].pc \notin Closers
        BY <1>1 DEF To, Closers, Request, Idle
    <2> QED
        BY <1>2, <1>3, <2>1, GoesQuietly, WaysAloof DEF Open, Free, Closers, Aloof
<1>4. CASE RefreshFound(r)
    <2>1. [To(r, "existing") EXCEPT !.target = None].pc \notin Closers
        BY <1>1 DEF To, Closers, Request, Idle
    <2> QED
        BY <1>2, <1>4, <2>1, GoesQuietly, WaysAloof DEF RefreshFound, Closers, Aloof
<1>5. CASE ExistingOwner(r)
    <2>1. (To(r, "using")).pc \notin Closers
        BY <1>1 DEF To, Closers, Request, Idle
    <2> QED
        BY <1>2, <1>5, <2>1, GoesAloof, WaysAloof DEF ExistingOwner, Closers
<1>6. CASE UseExisting(r)
    BY <1>2, <1>6, GoesAloof, WaysAloof DEF UseExisting, Closers
<1>7. CASE Join(r)
    <2>1. [request[r] EXCEPT !.pc = "look", !.lease = reservation.gen].pc \notin Closers
        BY <1>1 DEF To, Closers, Request, Idle
    <2> QED
        BY <1>2, <1>7, <2>1, GoesQuietly, WaysAloof DEF Join, Closers, Aloof
<1>8. CASE Replace(r)
    <2>1. [request[r] EXCEPT !.pc = "look", !.lease = last + 1].pc \notin Closers
        BY <1>1 DEF To, Closers, Request, Idle
    <2> QED
        BY <1>2, <1>8, <2>1, GoesQuietly, WaysAloof DEF Replace, Closers, Aloof
<1>9. CASE Look(r)
    <2>1. [request[r] EXCEPT !.pc = "begin", !.saw = failing].pc \notin Closers
        BY <1>1 DEF To, Closers, Request, Idle
    <2> QED
        BY <1>2, <1>9, <2>1, GoesQuietly, WaysAloof DEF Look, Closers, Aloof
<1>10. CASE Begin(r)
    <2>1. [To(r, "connecting") EXCEPT !.stale = FALSE].pc \notin Closers
        BY <1>1 DEF To, Closers, Request, Idle
    <2> QED
        BY <1>2, <1>10, <2>1, GoesQuietly, WaysAloof DEF Begin, Closers, Aloof
<1>11. CASE FailToConnect(r)
    <2>1. (To(r, "failed")).pc \notin Closers /\ (To(r, "refused")).pc \notin Closers
        BY <1>1 DEF To, Closers, Request, Idle
    <2> QED
        BY <1>2, <1>11, <2>1, GoesAloof, WaysAloof DEF FailToConnect, Closers
<1>12. CASE FinalizeSuccess(r)
    BY <1>2, <1>12, GoesAloof, WaysAloof DEF FinalizeSuccess, Closers
<1>13. CASE FinalizeFailure(r)
    BY <1>2, <1>13, GoesAloof, WaysAloof DEF FinalizeFailure, Closers
<1>14. CASE AcquirePeer(r)
    <2>1. (To(r, "opening")).pc \notin Closers
        BY <1>1 DEF To, Closers, Request, Idle
    <2> QED
        BY <1>2, <1>14, <2>1, GoesAloof, WaysAloof DEF AcquirePeer, Closers
<1>15. CASE GuardListing(r)
    <2>1. [To(r, "existing") EXCEPT !.guard = request[r].lease, !.lease = None].pc \notin Closers
        BY <1>1 DEF To, Closers, Request, Idle
    <2> QED
        BY <1>2, <1>15, <2>1, GoesQuietly, WaysAloof DEF GuardListing, Closers, Aloof
<1>16. CASE GuardCall(r)
    <2>1. [To(r, "cleaning") EXCEPT !.guard = request[r].lease, !.lease = None, !.then = "none"].pc \notin Closers
        BY <1>1 DEF To, Closers, Request, Idle
    <2> QED
        BY <1>2, <1>16, <2>1, GoesQuietly, WaysAloof DEF GuardCall, Closers, Aloof
<1>17. CASE CleanUp(r)
    BY <1>2, <1>17, GoesAloof, WaysAloof DEF CleanUp, Closers
<1>18. CASE UseFresh(r)
    BY <1>2, <1>18, GoesAloof, WaysAloof DEF UseFresh, Closers
<1>19. ASSUME NEW x \in Services, Connect(r, x) PROVE Aloof(r)
    <2>1. [To(r, "connected") EXCEPT !.svc = x].pc \notin Closers
        BY <1>1 DEF To, Closers, Request, Idle
    <2> QED
        BY <1>2, <1>19, <2>1, GoesQuietly, WaysAloof DEF Connect, Closers, Aloof
<1>20. CASE TakeOwner(r)
    <2> DEFINE spawned == IF request[r].own # None THEN {Release(request[r].own)} ELSE {}
    <2>1. UNCHANGED <<entry, reservation>> /\ request[r].pc \notin Closers
        BY <1>20 DEF TakeOwner, Closers
    <2>2. \A c \in spawned : c.task # "reopen"
        BY DEF Release
    <2>3. CASE Goes(r, Ended(r), spawned)
        <3> HIDE DEF spawned
        <3> QED
            BY <2>1, <2>2, <2>3, GoesAloof, WaysAloof
    <2>4. CASE Goes(r, [To(r, "used") EXCEPT !.lease = None], {})
        <3>1. [To(r, "used") EXCEPT !.lease = None].pc \notin Closers
            BY <1>1 DEF To, Closers, Request
        <3> QED
            BY <2>1, <2>4, <3>1, GoesQuietly DEF Aloof
    <2> QED
        BY <1>20, <2>3, <2>4 DEF TakeOwner
<1>21. CASE Own(r)
    <2>1. [To(r, "owned") EXCEPT !.own = request[r].lease, !.lease = None].pc \notin Closers
        BY <1>1 DEF To, Closers, Request
    <2> QED
        BY <1>21, <2>1, RequestsTyped DEF Own, Aloof, Closers
<1> QED
    BY <1>3, <1>4, <1>5, <1>6, <1>7, <1>8, <1>9, <1>10, <1>11, <1>12, <1>13, <1>14, <1>15, <1>16, <1>17, <1>18, <1>19, <1>20, <1>21 DEF Step

(* Who closes the entry is one, and the entry that is being closed has somebody who closes it. *)
Closings == ClosingIsUnderWay /\ CloserIsOne

(* An aloof step keeps the two invariants of the closing. *)
LEMMA AloofCloses ==
    ASSUME TypeOK, Closings, NEW r \in Requests, Step(r), Aloof(r)
    PROVE  Closings'
<1>1. (\A q \in Requests \ {r} : request'[q] = request[q]) /\ cleanups \subseteq cleanups'
    BY StepMoves
<1>2. Reopen(entry'.gen) = Reopen(entry.gen)
    BY DEF Aloof, Reopen
<1>3. ClosingIsUnderWay'
    BY <1>1, <1>2 DEF Closings, ClosingIsUnderWay, Aloof, Closers
<1>4. ASSUME NEW q \in Requests, request'[q].pc \in Closers
      PROVE  /\ entry'.closing /\ entry'.gen = request'[q].target
             /\ \A o \in Requests \ {q} : request'[o].pc \notin Closers
             /\ \A c \in cleanups' : c.task # "reopen"
             /\ request'[q].pc = "completing" => reservation'.gen # request'[q].target
    <2>1. q # r /\ request'[q] = request[q]
        BY <1>1, <1>4 DEF Aloof
    <2>2. /\ entry.closing /\ entry.gen = request[q].target
          /\ \A o \in Requests \ {q} : request[o].pc \notin Closers
          /\ \A c \in cleanups : c.task # "reopen"
          /\ request[q].pc = "completing" => reservation.gen # request[q].target
        BY <1>4, <2>1 DEF Closings, CloserIsOne
    <2>3. request[q].target # None /\ request[q].target # last + 1
        BY <2>2, NoneAssumption DEF Closings, CloserIsOne, TypeOK, Generations
    <2> QED
        BY <1>1, <2>1, <2>2, <2>3 DEF Aloof
<1>5. /\ \A c \in cleanups' : c.task = "reopen" => entry'.closing /\ entry'.gen = c.gen
      /\ entry'.closing => entry'.gen # None
    BY DEF Closings, CloserIsOne, Aloof
<1> QED
    BY <1>3, <1>4, <1>5 DEF Closings, CloserIsOne

(* The entry is found, or taken, by the first who closes it. *)
LEMMA FirstCloses ==
    ASSUME TypeOK, Closings, NEW r \in Requests, ~entry.closing, entry.gen # None,
           NEW next, Goes(r, next, {}), next.pc = "closing", next.target = entry.gen,
           entry' = [entry EXCEPT !.closing = TRUE]
    PROVE  Closings'
<1>1. request'[r] = next /\ \A q \in Requests \ {r} : request'[q] = request[q]
    BY GoesMoves
<1>2. \A q \in Requests : request[q].pc \notin Closers
    BY DEF Closings, CloserIsOne
<1>3. \A c \in cleanups' : c.task # "reopen"
    BY GoesMoves, OrphansAreReleases DEF Closings, CloserIsOne
<1>4. entry'.closing /\ entry'.gen = entry.gen
    BY DEF TypeOK
<1>5. ClosingIsUnderWay'
    BY <1>1, <1>4 DEF ClosingIsUnderWay
<1>6. CloserIsOne'
    BY <1>1, <1>2, <1>3, <1>4 DEF CloserIsOne
<1> QED
    BY <1>5, <1>6 DEF Closings

(* A step of a request keeps the two invariants of the closing. *)
LEMMA StepCloses ==
    ASSUME TypeOK, Shaped, LonelyAreAlone, Closings, NEW r \in Requests, Step(r)
    PROVE  Closings'
<1>1. (\A q \in Requests \ {r} : request'[q] = request[q]) /\ cleanups \subseteq cleanups'
    BY StepMoves
<1>2. request[r] \in Request /\ Shape(request[r])
    BY RequestsTyped DEF Shaped
<1>3. request[r].pc \in Closers =>
          /\ entry.closing /\ entry.gen = request[r].target /\ entry.gen # None
          /\ \A q \in Requests \ {r} : request[q].pc \notin Closers
          /\ \A c \in cleanups : c.task # "reopen"
          /\ request[r].pc = "completing" => reservation.gen # request[r].target
    BY DEF Closings, CloserIsOne
<1>4. \A g : Reopen(g).gen = g /\ Reopen(g).task = "reopen"
    BY DEF Reopen
<1>5. ASSUME NEW then \in {"touch", "list"}, Find(r, then) PROVE Closings'
    <2>1. CASE entry.expired
        <3>1. LET next == [Idle EXCEPT !.pc = "closing", !.target = entry.gen]
              IN  next.pc = "closing" /\ next.target = entry.gen
            BY DEF Idle
        <3> QED
            BY <1>5, <2>1, <3>1, FirstCloses DEF Find
    <2>2. CASE ~entry.expired
        <3>1. [Idle EXCEPT !.pc = "found", !.then = then, !.target = entry.gen].pc \notin Closers
            BY DEF Idle, Closers
        <3>2. request[r].pc \notin Closers
            BY <1>5 DEF Find, Free, Closers
        <3>3. Aloof(r)
            BY <1>5, <2>2, <3>1, <3>2, GoesQuietly DEF Find, Aloof
        <3> QED
            BY <3>3, AloofCloses
    <2> QED
        BY <2>1, <2>2
<1>6. CASE BeginClose(r)
    <2>1. LET next == [Idle EXCEPT !.pc = "closing", !.target = entry.gen]
          IN  next.pc = "closing" /\ next.target = entry.gen
        BY DEF Idle
    <2> QED
        BY <1>6, <2>1, FirstCloses DEF BeginClose
<1>7. CASE OpenEntry(r)
    <2>1. entry.gen = None
        BY <1>2, <1>7 DEF OpenEntry, Shape, LonelyAreAlone, Lonely
    <2>2. ~entry.closing
        BY <2>1 DEF Closings, CloserIsOne
    <2>3. ~entry'.closing
        BY <1>7 DEF OpenEntry, NoEntry
    <2>4. \A q \in Requests : request'[q].pc \notin Closers
        BY <1>1, <1>7, <2>2, RequestsTyped, WaysAloof DEF OpenEntry, Closings, CloserIsOne
    <2>5. \A c \in cleanups' : c.task # "reopen"
        BY <1>7, <2>2 DEF OpenEntry, Closings, CloserIsOne
    <2> QED
        BY <2>3, <2>4, <2>5 DEF Closings, ClosingIsUnderWay, CloserIsOne
<1>8. ASSUME request[r].pc \in Closers, request'[r].pc \notin Closers, entry' = entry,
             Reopen(request[r].target) \in cleanups',
             \A c \in cleanups' : c.task = "reopen" => c \in cleanups \/ c = Reopen(request[r].target)
      PROVE  Closings'
    <2>1. \A q \in Requests : request'[q].pc \notin Closers
        BY <1>1, <1>3, <1>8
    <2>2. \A c \in cleanups' : c.task = "reopen" => c = Reopen(entry.gen)
        BY <1>3, <1>8
    <2>3. entry'.closing /\ entry'.gen # None /\ Reopen(entry'.gen) = Reopen(entry.gen)
        BY <1>3, <1>8
    <2> QED
        BY <1>3, <1>4, <1>8, <2>1, <2>2, <2>3 DEF Closings, ClosingIsUnderWay, CloserIsOne
<1>9. CASE ReleaseClosing(r)
    <2>1. request[r].pc \in Closers /\ request[r].target # None /\ entry' = entry
        BY <1>2, <1>9 DEF ReleaseClosing, Closers, Shape
    <2>2. CASE Goes(r, To(r, "completing"), {})
        <3>1. To(r, "completing").pc = "completing" /\ To(r, "completing").target = request[r].target
            BY <1>2 DEF To, Request
        <3>2. \A c \in cleanups' : c.task # "reopen"
            BY <1>3, <2>1, <2>2, GoesMoves, OrphansAreReleases
        <3>3. reservation'.gen # request[r].target
            BY <1>9, <2>1, WaysAloof DEF ReleaseClosing, Detach, Identical
        <3>4. request'[r].pc = "completing" /\ request'[r].target = request[r].target
            BY <2>2, <3>1, GoesMoves
        <3>5. ClosingIsUnderWay'
            BY <1>3, <2>1, <3>4 DEF ClosingIsUnderWay
        <3>6. CloserIsOne'
            BY <1>1, <1>3, <2>1, <3>2, <3>3, <3>4 DEF CloserIsOne
        <3> QED
            BY <3>5, <3>6 DEF Closings
    <2>3. CASE Goes(r, Idle, {Reopen(request[r].target)})
        <3>1. \A c \in cleanups' : c.task = "reopen" => c \in cleanups \/ c = Reopen(request[r].target)
            BY <2>3, GoesMoves, OrphansAreReleases
        <3> QED
            BY <1>8, <2>1, <2>3, <3>1, GoesMoves, WaysAloof
    <2> QED
        BY <1>9, <2>2, <2>3 DEF ReleaseClosing
<1>10. CASE CompleteClose(r)
    <2>1. request[r].pc \in Closers
        BY <1>10 DEF CompleteClose, Closers
    <2>2. entry' = NoEntry /\ Goes(r, Idle, {})
        BY <1>3, <1>10, <2>1 DEF CompleteClose
    <2>3. \A q \in Requests : request'[q].pc \notin Closers
        BY <1>1, <1>3, <2>1, <2>2, GoesMoves, WaysAloof
    <2>4. \A c \in cleanups' : c.task # "reopen"
        BY <1>3, <2>1, <2>2, GoesMoves, OrphansAreReleases
    <2>5. ~entry'.closing
        BY <2>2 DEF NoEntry
    <2> QED
        BY <2>3, <2>4, <2>5 DEF Closings, ClosingIsUnderWay, CloserIsOne
<1>11. CASE Drop(r)
    <2>1. request'[r] = Idle /\ entry' = entry /\ reservation' = reservation
        BY <1>11, GoesMoves DEF Drop
    <2>2. cleanups' = cleanups \cup AttemptsLeft(r) \cup OwnersLeft(r) \cup ClosingsLeft(r) \cup Orphans(r, Idle)
        BY <1>11, GoesMoves DEF Drop
    <2>3. \A c \in cleanups' : c.task = "reopen" => c \in cleanups \/ c \in ClosingsLeft(r)
        BY <2>2, OrphansAreReleases DEF AttemptsLeft, OwnersLeft, Remove, Release
    <2>4. CASE request[r].pc \in Closers
        <3>1. ClosingsLeft(r) = {Reopen(request[r].target)}
            BY <2>4 DEF ClosingsLeft, Closers
        <3> QED
            BY <1>8, <2>1, <2>2, <2>3, <2>4, <3>1, WaysAloof
    <2>5. CASE request[r].pc \notin Closers
        <3>1. ClosingsLeft(r) = {}
            BY <2>5 DEF ClosingsLeft, Closers
        <3>2. Aloof(r)
            BY <2>1, <2>3, <2>5, <3>1, WaysAloof DEF Aloof
        <3> QED
            BY <3>2, AloofCloses
    <2> QED
        BY <2>4, <2>5
<1> QED
    BY <1>5, <1>6, <1>7, <1>9, <1>10, <1>11, StepAloof, AloofCloses

(* The two invariants of the closing are inductive. *)
LEMMA ClosingsInductive ==
    TypeOK /\ Shaped /\ LonelyAreAlone /\ Closings /\ [Next]_vars => Closings'
<1> SUFFICES ASSUME TypeOK, Shaped, LonelyAreAlone, Closings, [Next]_vars PROVE Closings'
    OBVIOUS
<1> USE DEF Closings
<1>1. CASE UNCHANGED vars
    BY <1>1 DEF vars, ClosingIsUnderWay, CloserIsOne, Reopen
<1>2. ASSUME NEW r \in Requests, Step(r) PROVE Closings'
    BY <1>2, StepCloses
<1>3. ASSUME NEW c \in cleanups, Spawned(c) PROVE Closings'
    <2>1. request' = request /\ cleanups' = cleanups \ {c}
        BY <1>3 DEF Spawned, RunRelease, RunRemove, RunReopen
    <2>2. CASE RunReopen(c)
        <3>1. entry.closing /\ entry.gen = c.gen
            BY <2>2 DEF RunReopen, CloserIsOne
        <3>2. entry' = [entry EXCEPT !.closing = FALSE] /\ ~entry'.closing
            BY <2>2, <3>1 DEF RunReopen, TypeOK
        <3>3. \A r \in Requests : request'[r].pc \notin Closers
            BY <2>1, <2>2 DEF RunReopen, CloserIsOne
        <3>4. \A d \in cleanups : d.task = "reopen" => d = c
            <4> SUFFICES ASSUME NEW d \in cleanups, d.task = "reopen" PROVE d = c
                OBVIOUS
            <4>1. d.gen = c.gen /\ d.of = None /\ c.of = None /\ c.task = "reopen"
                BY <2>2, <3>1 DEF RunReopen, CloserIsOne, Shaped
            <4>2. c \in Tasks /\ d \in Tasks
                BY DEF TypeOK
            <4> QED
                BY <4>1, <4>2 DEF Tasks
        <3> QED
            BY <2>1, <3>2, <3>3, <3>4 DEF ClosingIsUnderWay, CloserIsOne
    <2>3. CASE ~RunReopen(c)
        <3>1. entry' = entry /\ c.task # "reopen"
            BY <1>3, <2>3 DEF Spawned, RunRelease, RunRemove
        <3>2. reservation'.gen \in {reservation.gen, None}
            BY <1>3, <2>3, WaysAloof DEF Spawned, RunRelease, RunRemove, Detach, NoReservation
        <3>3. Reopen(entry'.gen) = Reopen(entry.gen) /\ Reopen(entry.gen) # c
            BY <3>1 DEF Reopen
        <3>4. ClosingIsUnderWay'
            BY <2>1, <3>1, <3>3 DEF ClosingIsUnderWay
        <3>5. \A r \in Requests : request[r].pc \in Closers => request[r].target # None
            BY DEF CloserIsOne
        <3>6. CloserIsOne'
            BY <2>1, <3>1, <3>2, <3>5 DEF CloserIsOne
        <3> QED
            BY <3>4, <3>6
    <2> QED
        BY <2>2, <2>3
<1>4. CASE Environment
    <2>1. /\ entry'.gen = entry.gen /\ entry'.closing = entry.closing /\ cleanups' = cleanups
          /\ reservation'.gen = reservation.gen
        BY <1>4 DEF Environment, ServiceCloses, ReservationExpires, EntryExpires, OAuthCompletes, TypeOK
    <2>2. \A r \in Requests : request'[r].pc = request[r].pc /\ request'[r].target = request[r].target
        BY <1>4, RequestsTyped DEF Environment, ServiceCloses, ReservationExpires, EntryExpires, OAuthCompletes,
                                   Overtaken, Request
    <2>3. Reopen(entry'.gen) = Reopen(entry.gen)
        BY <2>1
    <2> QED
        BY <2>1, <2>2, <2>3 DEF ClosingIsUnderWay, CloserIsOne
<1> QED
    BY <1>1, <1>2, <1>3, <1>4 DEF Next

-----------------------------------------------------------------------------
(* Who ends a reservation *)

Owned == ReservationsAreOwned /\ CommittedAreOwned

(* Whoever gives up the last lease of a generation releases it, unless it is committed. *)
Releases(r) ==
    \A g \in {request[r].lease, request[r].guard} \ {None, request'[r].lease, request'[r].guard} :
        g \notin committed /\ (\A q \in Requests \ {r} : ~Holds(q, g)) => Release(g) \in cleanups'

(* A step that commits nothing, opens no entry, and replaces no reservation. *)
Frugal(r) ==
    /\ committed' = committed
    /\ Releases(r)
    /\ request[r].own # None => \/ request'[r].own = request[r].own
                                \/ Release(request[r].own) \in cleanups'
                                \/ reservation'.gen # request[r].own
    /\ reservation'.gen # None => /\ reservation'.gen = reservation.gen
                                  /\ entry.gen = reservation.gen => entry'.gen = entry.gen

(* A request that goes on releases what it gives up as the last. *)
LEMMA GoesReleases ==
    ASSUME TypeOK, NEW r \in Requests, NEW next, NEW spawned, Goes(r, next, spawned)
    PROVE  Releases(r)
<1>1. request'[r] = next /\ Orphans(r, next) \subseteq cleanups'
    BY GoesMoves
<1> QED
    BY <1>1 DEF Releases, Orphans

(* A frugal step leaves every reservation an owner. *)
LEMMA FrugalOwned ==
    ASSUME TypeOK, Owned, NEW r \in Requests, Step(r), Frugal(r)
    PROVE  Owned'
<1>1. (\A q \in Requests \ {r} : request'[q] = request[q]) /\ cleanups \subseteq cleanups'
    BY StepMoves
<1>2. CASE reservation'.gen = None
    BY <1>2, NoneIsApart DEF Owned, ReservationsAreOwned, CommittedAreOwned, Frugal, TypeOK
<1>3. CASE reservation'.gen # None
    <2> DEFINE g == reservation.gen
    <2>1. reservation'.gen = g /\ g # None /\ (entry.gen = g => entry'.gen = g)
        BY <1>3 DEF Frugal
    <2>2. \A q \in Requests : request[q].own = g =>
              (\E o \in Requests : request'[o].own = g) \/ Release(g) \in cleanups'
        BY <1>1, <2>1 DEF Frugal
    <2>3. g \in committed => \/ entry'.gen = g
                             \/ \E q \in Requests : request'[q].own = g
                             \/ Release(g) \in cleanups'
        BY <1>1, <2>1, <2>2 DEF Owned, CommittedAreOwned
    <2>4. CommittedAreOwned'
        BY <2>1, <2>3 DEF CommittedAreOwned, Frugal, Release
    <2>5. ASSUME NEW q \in Requests, Holds(q, g)
          PROVE  g \in committed \/ (\E o \in Requests : Holds(o, g)') \/ Release(g) \in cleanups'
        <3>1. \A o \in Requests \ {r} : Holds(o, g) => g \in {request'[o].lease, request'[o].guard}
            BY <1>1 DEF Holds
        <3>2. CASE \E o \in Requests \ {r} : Holds(o, g)
            BY <2>1, <3>1, <3>2 DEF Holds
        <3>3. CASE \A o \in Requests \ {r} : ~Holds(o, g)
            <4>1. g \in {request[r].lease, request[r].guard}
                BY <2>5, <3>3 DEF Holds
            <4>2. CASE g \in {request'[r].lease, request'[r].guard}
                BY <2>1, <4>2 DEF Holds
            <4>3. CASE g \notin {request'[r].lease, request'[r].guard}
                BY <2>1, <3>3, <4>1, <4>3 DEF Frugal, Releases
            <4> QED
                BY <4>2, <4>3
        <3> QED
            BY <3>2, <3>3
    <2>6. \/ entry'.gen = g
          \/ \E q \in Requests : Holds(q, g)' \/ request'[q].own = g
          \/ Release(g) \in cleanups'
        BY <1>1, <2>1, <2>2, <2>3, <2>5 DEF Owned, ReservationsAreOwned
    <2>7. ReservationsAreOwned'
        BY <2>1, <2>6 DEF ReservationsAreOwned, Release, Holds
    <2> QED
        BY <2>4, <2>7 DEF Owned
<1> QED
    BY <1>2, <1>3

(* A step is frugal, or replaces the reservation, or commits it. *)
LEMMA StepFrugal ==
    ASSUME TypeOK, Shaped, CloserIsOne, NEW r \in Requests, Step(r)
    PROVE  Frugal(r) \/ Replace(r) \/ OpenEntry(r) \/ Own(r)
<1> DEFINE Moved == \E next, spawned : Goes(r, next, spawned)
<1>1. request[r] \in Request /\ Shape(request[r])
    BY RequestsTyped DEF Shaped
<1>2. Moved => Releases(r)
    BY GoesReleases
<1>3. Renewed.gen = reservation.gen /\ NoReservation.gen = None
    BY WaysAloof
<1>4. \A g : Detach(g) => /\ reservation'.gen \in {None, reservation.gen}
                          /\ g # None => reservation'.gen # g
    BY <1>3 DEF Detach, Identical
<1>5. ASSUME Moved, committed' = committed, reservation'.gen \in {None, reservation.gen},
             entry'.gen = entry.gen, request[r].pc \notin {"owned", "used"}
      PROVE  Frugal(r)
    BY <1>1, <1>2, <1>5 DEF Frugal, Shape
<1>6. ASSUME \/ \E then \in {"open", "guard", "own"} : Open(r, then)
             \/ \E then \in {"touch", "list"} : Find(r, then)
             \/ BeginClose(r) \/ RefreshFound(r) \/ ExistingOwner(r) \/ UseExisting(r)
      PROVE  Frugal(r)
    <2>1. entry'.gen = entry.gen
        BY <1>6 DEF Open, Find, BeginClose, RefreshFound, ExistingOwner, UseExisting, TypeOK
    <2>2. Moved
        BY <1>6 DEF Open, Find, BeginClose, RefreshFound, ExistingOwner, UseExisting
    <2> QED
        BY <1>3, <1>5, <1>6, <2>1, <2>2
            DEF Open, Find, Free, BeginClose, RefreshFound, ExistingOwner, UseExisting
<1>7. ASSUME \/ Join(r) \/ Look(r) \/ Begin(r) \/ (\E s \in Services : Connect(r, s)) \/ FailToConnect(r)
             \/ FinalizeSuccess(r) \/ FinalizeFailure(r)
      PROVE  Frugal(r)
    <2>1. Moved
        BY <1>7 DEF Join, Look, Begin, Connect, FailToConnect, FinalizeSuccess, FinalizeFailure
    <2> QED
        BY <1>3, <1>5, <1>7, <2>1 DEF Join, Look, Begin, Connect, FailToConnect, FinalizeSuccess, FinalizeFailure
<1>8. ASSUME AcquirePeer(r) \/ GuardListing(r) \/ GuardCall(r) \/ CleanUp(r) \/ ReleaseClosing(r)
      PROVE  Frugal(r)
    <2>1. Moved
        BY <1>8 DEF AcquirePeer, GuardListing, GuardCall, CleanUp, ReleaseClosing
    <2> QED
        BY <1>3, <1>4, <1>5, <1>8, <2>1 DEF AcquirePeer, GuardListing, GuardCall, CleanUp, ReleaseClosing
<1>9. CASE TakeOwner(r)
    <2> DEFINE spawned == IF request[r].own # None THEN {Release(request[r].own)} ELSE {}
    <2>1. Moved /\ UNCHANGED <<committed, reservation, entry>>
        BY <1>9 DEF TakeOwner
    <2>2. CASE Goes(r, Ended(r), spawned)
        <3>1. request[r].own # None => Release(request[r].own) \in spawned
            OBVIOUS
        <3> HIDE DEF spawned
        <3> QED
            BY <1>2, <2>1, <2>2, <3>1, GoesMoves DEF Frugal
    <2>3. CASE Goes(r, [To(r, "used") EXCEPT !.lease = None], {})
        <3>1. [To(r, "used") EXCEPT !.lease = None].own = request[r].own
            BY <1>1 DEF To, Request
        <3> QED
            BY <1>2, <2>1, <2>3, <3>1, GoesMoves DEF Frugal
    <2> QED
        BY <1>9, <2>2, <2>3 DEF TakeOwner
<1>10. CASE UseFresh(r)
    <2>1. Moved /\ UNCHANGED <<committed, entry>> /\ Detach(request[r].own)
        BY <1>10 DEF UseFresh
    <2> QED
        BY <1>2, <1>4, <2>1 DEF Frugal
<1>11. CASE CompleteClose(r)
    <2>1. Moved /\ UNCHANGED <<committed, reservation>> /\ request[r].pc = "completing"
        BY <1>11 DEF CompleteClose
    <2>2. reservation.gen # entry.gen
        BY <2>1 DEF CloserIsOne, Closers
    <2> QED
        BY <1>1, <1>2, <2>1, <2>2 DEF Frugal, Shape
<1>12. CASE Drop(r)
    <2>1. Moved /\ UNCHANGED <<committed, reservation, entry>>
        BY <1>12 DEF Drop
    <2>2. OwnersLeft(r) \subseteq cleanups'
        BY <1>12, GoesMoves DEF Drop
    <2> QED
        BY <1>2, <2>1, <2>2 DEF Frugal, OwnersLeft
<1> QED
    BY <1>6, <1>7, <1>8, <1>9, <1>10, <1>11, <1>12 DEF Step

(* A step of a request leaves every reservation an owner. *)
LEMMA StepOwned ==
    ASSUME TypeOK, Shaped, LonelyAreAlone, CloserIsOne, Owned, NEW r \in Requests, Step(r)
    PROVE  Owned'
<1>1. request[r] \in Request /\ Shape(request[r])
    BY RequestsTyped DEF Shaped
<1>2. (\A q \in Requests \ {r} : request'[q] = request[q]) /\ cleanups \subseteq cleanups'
    BY StepMoves
<1>3. CASE Replace(r)
    <2>1. reservation'.gen = last + 1 /\ committed' = committed
        BY <1>3 DEF Replace
    <2>2. last + 1 \notin committed
        BY DEF TypeOK, Generations
    <2>3. [request[r] EXCEPT !.pc = "look", !.lease = last + 1].lease = last + 1
        BY <1>1 DEF Request
    <2>4. request'[r].lease = last + 1
        BY <1>3, <2>3, GoesMoves DEF Replace
    <2> QED
        BY <2>1, <2>2, <2>4 DEF Owned, ReservationsAreOwned, CommittedAreOwned, Holds
<1>4. ASSUME NEW g \in Generations, request[r].lease = g, request[r].guard = None, request[r].own = None,
             entry.gen = None, \A q \in Requests \ {r} : request[q] = Idle,
             reservation' = reservation, committed' = committed \cup {g},
             entry'.gen = g \/ (request'[r].own = g /\ entry' = entry)
      PROVE  Owned'
    <2>1. \A h : h # None => \A q \in Requests \ {r} : ~Holds(q, h) /\ request[q].own # h
        BY <1>4 DEF Holds, Idle
    <2>2. reservation.gen # None => reservation.gen = g \/ Release(reservation.gen) \in cleanups
        BY <1>4, <2>1 DEF Owned, ReservationsAreOwned, Holds
    <2>3. Release(reservation'.gen) = Release(reservation.gen)
        BY <1>4
    <2>4. None \notin committed
        BY NoneIsApart DEF TypeOK
    <2>5. g # None
        BY NoneIsApart
    <2> QED
        BY <1>2, <1>4, <2>2, <2>3, <2>4, <2>5 DEF Owned, ReservationsAreOwned, CommittedAreOwned
<1>5. ASSUME request[r].then \in {"open", "own"}, request[r].pc \in {"opening", "ensured"}
      PROVE  /\ request[r].lease \in Generations /\ request[r].guard = None /\ request[r].own = None
             /\ entry.gen = None /\ \A q \in Requests \ {r} : request[q] = Idle
    <2>1. /\ request[r].lease \in Generations /\ request[r].guard = None /\ request[r].own = None
        BY <1>1, <1>5 DEF Shape, Leasing, Request
    <2>2. entry.gen = None /\ \A q \in Requests \ {r} : request[q].pc = "idle"
        BY <1>5 DEF LonelyAreAlone, Lonely
    <2> QED
        BY <2>1, <2>2 DEF Shaped, Shape
<1>6. CASE OpenEntry(r)
    <2>1. request[r].then \in {"open", "own"} /\ request[r].pc \in {"opening", "ensured"}
        BY <1>1, <1>6 DEF OpenEntry, Shape
    <2>2. entry'.gen = request[r].lease
        BY <1>6 DEF OpenEntry, NoEntry
    <2> QED
        BY <1>4, <1>5, <1>6, <2>1, <2>2 DEF OpenEntry
<1>7. CASE Own(r)
    <2>1. request[r].then \in {"open", "own"} /\ request[r].pc \in {"opening", "ensured"}
        BY <1>7 DEF Own
    <2>2. [To(r, "owned") EXCEPT !.own = request[r].lease, !.lease = None].own = request[r].lease
        BY <1>1 DEF To, Request
    <2>3. request'[r].own = request[r].lease
        BY <1>7, <2>2, RequestsTyped DEF Own
    <2> QED
        BY <1>4, <1>5, <1>7, <2>1, <2>3 DEF Own
<1> QED
    BY <1>3, <1>6, <1>7, StepFrugal, FrugalOwned

(* The two invariants of the owners are inductive. *)
LEMMA OwnedInductive ==
    TypeOK /\ Shaped /\ LonelyAreAlone /\ CloserIsOne /\ Owned /\ [Next]_vars => Owned'
<1> SUFFICES ASSUME TypeOK, Shaped, LonelyAreAlone, CloserIsOne, Owned, [Next]_vars PROVE Owned'
    OBVIOUS
<1> USE DEF Owned
<1>1. CASE UNCHANGED vars
    BY <1>1 DEF vars, ReservationsAreOwned, CommittedAreOwned, Release, Holds
<1>2. ASSUME NEW r \in Requests, Step(r) PROVE Owned'
    BY <1>2, StepOwned
<1>3. ASSUME NEW c \in cleanups, Spawned(c) PROVE Owned'
    <2>1. /\ UNCHANGED <<request, committed>> /\ entry'.gen = entry.gen /\ cleanups' = cleanups \ {c}
        BY <1>3 DEF Spawned, RunRelease, RunRemove, RunReopen, TypeOK
    <2>2. reservation'.gen = None \/ (reservation'.gen = reservation.gen /\ c # Release(reservation.gen))
        <3>1. CASE RunRelease(c)
            BY <3>1, WaysAloof DEF RunRelease, Detach, Identical, Release, NoReservation
        <3>2. CASE ~RunRelease(c)
            BY <1>3, <3>2 DEF Spawned, RunRemove, RunReopen, Release
        <3> QED
            BY <3>1, <3>2
    <2>3. CASE reservation'.gen = None
        BY <2>1, <2>3, NoneIsApart DEF ReservationsAreOwned, CommittedAreOwned, TypeOK
    <2>4. CASE reservation'.gen # None
        <3>1. Release(reservation'.gen) = Release(reservation.gen) /\ reservation'.gen = reservation.gen
            BY <2>2, <2>4
        <3>2. \A r \in Requests : Holds(r, reservation.gen) => Holds(r, reservation.gen)'
            BY <2>1, <3>1 DEF Holds
        <3> QED
            BY <2>1, <2>2, <2>4, <3>1, <3>2 DEF ReservationsAreOwned, CommittedAreOwned
    <2> QED
        BY <2>3, <2>4
<1>4. CASE Environment
    <2>1. /\ entry'.gen = entry.gen /\ cleanups' = cleanups /\ committed' = committed
          /\ reservation'.gen = reservation.gen
        BY <1>4 DEF Environment, ServiceCloses, ReservationExpires, EntryExpires, OAuthCompletes, TypeOK
    <2>2. \A r \in Requests : /\ request'[r].lease = request[r].lease /\ request'[r].guard = request[r].guard
                              /\ request'[r].own = request[r].own
        BY <1>4, RequestsTyped DEF Environment, ServiceCloses, ReservationExpires, EntryExpires, OAuthCompletes,
                                   Overtaken, Request
    <2>3. Release(reservation'.gen) = Release(reservation.gen)
        BY <2>1
    <2> QED
        BY <2>1, <2>2, <2>3 DEF ReservationsAreOwned, CommittedAreOwned, Holds
<1> QED
    BY <1>1, <1>2, <1>3, <1>4 DEF Next

-----------------------------------------------------------------------------
(* The theorems *)

(* The initial states satisfy the invariant. *)
LEMMA InitInvariant == Init => IInv
<1> SUFFICES ASSUME Init PROVE IInv
    OBVIOUS
<1>1. reservation.gen = None /\ entry.gen = None /\ ~entry.closing
    BY DEF Init, NoReservation, NoEntry
<1>2. TypeOK
    <2>1. /\ reservation \in [gen : Generations \cup {None}, expired : BOOLEAN]
          /\ entry \in [gen : Generations \cup {None}, expired : BOOLEAN, closing : BOOLEAN]
        BY DEF Init, NoReservation, NoEntry
    <2>2. request \in [Requests -> Request]
        BY IdleTyped DEF Init
    <2>3. last \in 0..MaxGeneration
        BY BoundAssumption DEF Init
    <2> QED
        BY <2>1, <2>2, <2>3 DEF Init, TypeOK, Request
<1>3. \A r \in Requests : request[r] = Idle
    BY DEF Init
<1>4. Idle.pc = "idle" /\ Idle.svc = None
    BY DEF Idle
<1>5. Shaped /\ LonelyAreAlone
    BY <1>3, <1>4, IdleTyped DEF Init, Shaped, LonelyAreAlone
<1>6. NothingLeaks /\ AttemptsAreHeld /\ OvertakenAreOut
    BY <1>3, <1>4 DEF Init, NothingLeaks, AttemptsAreHeld, OvertakenAreOut
<1>7. ClosingIsUnderWay /\ CloserIsOne
    BY <1>1, <1>3, <1>4 DEF Init, ClosingIsUnderWay, CloserIsOne, Closers
<1>8. ReservationsAreOwned /\ CommittedAreOwned
    BY <1>1 DEF Init, ReservationsAreOwned, CommittedAreOwned
<1> QED
    BY <1>2, <1>5, <1>6, <1>7, <1>8 DEF IInv

(* Every step keeps the invariant. *)
LEMMA NextInvariant == IInv /\ [Next]_vars => IInv'
BY TypeInductive, ShapedInductive, LeaksInductive, AttemptsInductive, LonelyInductive, ClosingsInductive,
   OwnedInductive DEF IInv, Closings, Owned

(* The invariant that carries the others is inductive: who holds a lease where it is, who may open the *)
(* entry, who closes it, and who ends a generation whose authority is committed. *)
THEOREM Invariant == Spec => []IInv
<1>1. Init => IInv
    BY InitInvariant
<1>2. IInv /\ [Next]_vars => IInv'
    BY NextInvariant
<1> QED
    BY <1>1, <1>2, PTL DEF Spec

(* Every state has its type, and the maps of a session are emptied together (detach_validation_reservation). *)
THEOREM TypeCorrect == Spec => []TypeOK
<1>1. IInv => TypeOK
    BY DEF IInv
<1> QED
    BY <1>1, Invariant, PTL

(* Whatever expires, is dropped, released or overtaken, an upstream that runs for a session is its *)
(* connection or in the hands of the request that started it. *)
THEOREM NoUpstreamLeaks == Spec => []NothingLeaks
<1>1. IInv => NothingLeaks
    BY DEF IInv
<1> QED
    BY <1>1, Invariant, PTL

(* A reservation always has somebody who will end it: an entry, a lease, an owner or a release that is *)
(* on its way (release_validation_reservation_if_uncommitted_last, CapabilityOwnerCleanup). *)
THEOREM EveryReservationIsOwned == Spec => []ReservationsAreOwned
<1>1. IInv => ReservationsAreOwned
    BY DEF IInv
<1> QED
    BY <1>1, Invariant, PTL

(* An entry that is being closed is never left closing: somebody completes it, or opens it again *)
(* (InspectorSessionClosing). *)
THEOREM EveryClosingIsUnderWay == Spec => []ClosingIsUnderWay
<1>1. IInv => ClosingIsUnderWay
    BY DEF IInv
<1> QED
    BY <1>1, Invariant, PTL

(* A registered attempt is never left behind: it is under way for the generation that is there, or its *)
(* removal is (ValidationAttemptGuard). *)
THEOREM EveryAttemptIsHeld == Spec => []AttemptsAreHeld
<1>1. IInv => AttemptsAreHeld
    BY DEF IInv
<1> QED
    BY <1>1, Invariant, PTL

(* Only the request itself ends its attempt. *)
LEMMA AttemptEnds ==
    ASSUME IInv, [Next]_vars, NEW r \in Requests,
           request[r].pc \in {"connected", "failed"}, request'[r].pc \notin Connecting
    PROVE  FinalizeSuccess(r) \/ FinalizeFailure(r) \/ Drop(r)
<1>1. TypeOK /\ request[r].pc \in Connecting
    BY DEF IInv, Connecting
<1>2. ~UNCHANGED vars
    BY <1>1 DEF vars
<1>3. ASSUME NEW c \in cleanups, Spawned(c) PROVE FALSE
    BY <1>1, <1>3 DEF Spawned, RunRelease, RunRemove, RunReopen
<1>4. ASSUME Environment PROVE FALSE
    <2>1. request'[r].pc = request[r].pc
        BY <1>1, <1>4, RequestsTyped DEF Environment, ServiceCloses, ReservationExpires, EntryExpires,
                                         OAuthCompletes, Overtaken, Request
    <2> QED
        BY <1>1, <2>1
<1>5. ASSUME NEW q \in Requests, Step(q) PROVE q = r
    BY <1>1, <1>5, StepMoves
<1>6. Step(r)
    BY <1>2, <1>3, <1>4, <1>5 DEF Next
<1> QED
    BY <1>1, <1>6, StepCalm DEF Calm, Begin, Connect, FailToConnect

(* What an attempt brings back after an OAuth completion, or after its generation, counts for nothing: *)
(* it publishes no connection and leaves the failure state alone (claim_validation_attempt). *)
THEOREM OvertakenAttemptsDoNothing == Spec => OvertakenAttemptsAreMute
<1>1. ASSUME IInv, [Next]_vars
      PROVE  [\A r \in Requests :
                (/\ request[r].pc \in {"connected", "failed"} /\ request'[r].pc \notin Connecting
                 /\ request[r].stale \/ request[r].lease # reservation.gen)
                => published' = published /\ failing' = failing]_vars
    <2> SUFFICES ASSUME NEW r \in Requests,
                        request[r].pc \in {"connected", "failed"}, request'[r].pc \notin Connecting,
                        request[r].stale \/ request[r].lease # reservation.gen
                 PROVE  published' = published /\ failing' = failing
        OBVIOUS
    <2>1. ~Claims(r)
        BY <1>1 DEF IInv, OvertakenAreOut, Connecting, Claims, Matches, Identical
    <2>2. failing \in BOOLEAN
        BY <1>1 DEF IInv, TypeOK
    <2>3. FinalizeSuccess(r) \/ FinalizeFailure(r) \/ Drop(r)
        BY <1>1, AttemptEnds
    <2>4. CASE FinalizeSuccess(r)
        BY <2>1, <2>2, <2>4 DEF FinalizeSuccess
    <2>5. CASE FinalizeFailure(r)
        BY <2>1, <2>2, <2>5 DEF FinalizeFailure
    <2>6. CASE Drop(r)
        BY <2>6 DEF Drop
    <2> QED
        BY <2>3, <2>4, <2>5, <2>6
<1> QED
    BY <1>1, Invariant, PTL DEF Spec, OvertakenAttemptsAreMute

(* A reservation that some request still holds is taken from it only when it has expired, when a lease of *)
(* it that was the last was given up, or when its entry is being closed: a late release, close or owner of *)
(* an earlier generation detaches nothing (validation_reservation_identity_matches). *)
THEOREM ReplacementsAreSafe == Spec => ReplacementsSurvive
<1>1. ASSUME IInv, [Next]_vars
      PROVE  [LET g == reservation.gen
              IN  (g # None /\ reservation'.gen # g /\ \E r \in Requests : Holds(r, g) /\ request'[r] = request[r])
                  => reservation.expired \/ Release(g) \in cleanups \/ (entry.closing /\ entry.gen = g)]_vars
    <2> DEFINE g == reservation.gen
    <2> SUFFICES ASSUME NEW r \in Requests, g # None, reservation'.gen # g, Holds(r, g), request'[r] = request[r]
                 PROVE  reservation.expired \/ Release(g) \in cleanups \/ (entry.closing /\ entry.gen = g)
        OBVIOUS
    <2>1. TypeOK /\ Shaped /\ LonelyAreAlone /\ CloserIsOne
        BY <1>1 DEF IInv
    <2>2. request[r].pc # "idle"
        BY <2>1 DEF Shaped, Shape, Holds, Idle
    <2>3. \A h : Detach(h) => h = g
        BY DEF Detach, Identical
    <2>4. ASSUME NEW q \in Requests, Step(q)
          PROVE  reservation.expired \/ (entry.closing /\ entry.gen = g)
        <3>1. Renewed.gen = g
            BY <2>1, WaysAloof
        <3>2. CASE Replace(q)
            BY <3>2 DEF Replace
        <3>3. CASE ReleaseClosing(q)
            BY <2>1, <2>3, <3>3 DEF ReleaseClosing, CloserIsOne, Closers
        <3>4. ASSUME CleanUp(q) \/ UseFresh(q) PROVE FALSE
            <4>1. Lonely(request[q])
                BY <2>3, <3>4 DEF CleanUp, UseFresh, Lonely
            <4>2. q = r
                BY <2>1, <2>2, <4>1 DEF LonelyAreAlone
            <4>3. request'[r].pc # request[r].pc
                <5>1. CASE CleanUp(q)
                    BY <4>2, <5>1, <2>1, GoesMoves DEF CleanUp, Idle
                <5>2. CASE UseFresh(q)
                    <6>1. Ended(r).pc \in {"idle", "cleaning"}
                        BY <2>1, RequestsTyped DEF Ended, Idle, Request
                    <6> QED
                        BY <4>2, <5>2, <6>1, <2>1, GoesMoves DEF UseFresh
                <5> QED
                    BY <3>4, <5>1, <5>2
            <4> QED
                BY <4>3
        <3>5. CASE ~(Replace(q) \/ ReleaseClosing(q) \/ CleanUp(q) \/ UseFresh(q))
            BY <2>4, <3>1, <3>5 DEF Step, Open, Find, BeginClose, RefreshFound, ExistingOwner, UseExisting, Join, Look,
                       Begin, Connect, FailToConnect, FinalizeSuccess, FinalizeFailure, AcquirePeer, OpenEntry,
                       GuardListing, GuardCall, Own, TakeOwner, CompleteClose, Drop
        <3> QED
            BY <3>2, <3>3, <3>4, <3>5
    <2>5. ASSUME NEW c \in cleanups, Spawned(c)
          PROVE  Release(g) \in cleanups
        <3>1. RunRelease(c) /\ c.gen = g
            BY <2>3, <2>5 DEF Spawned, RunRelease, RunRemove, RunReopen
        <3>2. c.task = "release" /\ c.of = None /\ c \in Tasks
            BY <2>1, <3>1 DEF RunRelease, Shaped, TypeOK
        <3>3. c = Release(g)
            BY <3>1, <3>2 DEF Release, Tasks
        <3> QED
            BY <3>3
    <2>6. ~Environment /\ ~UNCHANGED vars
        BY <2>1 DEF Environment, ServiceCloses, ReservationExpires, EntryExpires, OAuthCompletes, vars, TypeOK
    <2> QED
        BY <1>1, <2>4, <2>5, <2>6 DEF Next
<1> QED
    BY <1>1, Invariant, PTL DEF Spec, ReplacementsSurvive

=============================================================================
