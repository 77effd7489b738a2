----------------------- MODULE ValidationReservations -----------------------
(***************************************************************************)
(* Validation reservations: the upstream that a native inspector session,  *)
(* or a temporary owner of a capability read, runs for itself beside the   *)
(* production connections.                                                 *)
(*                                                                         *)
(* A validation session is identified by a fresh id and bound to one       *)
(* server, and sessions meet only where an OAuth completion invalidates    *)
(* the attempts of a server, so the model has one session.  It is opened   *)
(* once: for an inspector (which gives it an entry that other requests     *)
(* find it by), for a single call or listing (which guards its lease), or  *)
(* for a capability owner (which makes its lease persistent).              *)
(*                                                                         *)
(* A reservation of the session has a generation.  A lease of it is given  *)
(* up when its request ends, whatever way, and the last one to be given up *)
(* spawns the release of a generation that nobody committed.  What is      *)
(* spawned by a drop runs at any later time (cleanups).                    *)
(*                                                                         *)
(* An action is what runs under the lock of the pool or of the inspector's *)
(* sessions, or between two awaits.  Time is a flag: reservations and      *)
(* entries expire at any moment until they are refreshed.                  *)
(***************************************************************************)
EXTENDS Integers, FiniteSets

CONSTANTS
    Requests,       \* requests that are handled at a time
    Services,       \* upstreams that run at a time
    None,           \* no generation, no service
    MaxGeneration   \* bound: generations that are reserved

ASSUME NoneAssumption == None \notin Services /\ None \notin Nat
ASSUME BoundAssumption == MaxGeneration \in Nat

VARIABLES
    reservation,    \* validation_reservations and validation_sessions, of the session: generation and expiry
    inFlight,       \* in_flight: the requests whose attempts are registered
    published,      \* the connection in validation_sessions; its identity is its owner epoch
    last,           \* next_validation_reservation
    committed,      \* the generations whose authority is committed
    entry,          \* the inspector's SessionEntry
    request,        \* where each request is, and what it holds
    service,        \* whether each upstream runs, or has closed by itself
    failing,        \* failure_states of the validation of the server
    cleanups        \* tasks that drops have spawned and that have not run

vars == <<reservation, inFlight, published, last, committed, entry, request, service, failing, cleanups>>

-----------------------------------------------------------------------------
NoReservation == [gen |-> None, expired |-> FALSE]

NoEntry == [gen |-> None, expired |-> FALSE, closing |-> FALSE]

(* then: what the request wants its lease for; target: the token it found in the entry; saw: whether *)
(* its worker copied a failure; stale: history, whether an OAuth completion overtook its attempt. *)
Idle == [pc |-> "idle", then |-> "none", lease |-> None, guard |-> None, own |-> None,
         target |-> None, svc |-> None, saw |-> FALSE, stale |-> FALSE]

Connecting == {"connecting", "connected", "failed", "refused"}

Release(g)    == [task |-> "release", gen |-> g, of |-> None]
Remove(r, g)  == [task |-> "remove", gen |-> g, of |-> r]
Reopen(g)     == [task |-> "reopen", gen |-> g, of |-> None]

(* validation_reservation_identity_matches, validation_reservation_matches *)
Identical(g) == g # None /\ reservation.gen = g
Matches(g) == Identical(g) /\ ~reservation.expired

Holds(q, g) == g # None /\ g \in {request[q].lease, request[q].guard}

(* A request goes on as next.  The generations whose last lease that gives up are released by a task, *)
(* unless they are committed; spawned is what other drops leave behind. *)
LeasesForgotten(r, next) == {}    \* bug: a lease that is dropped releases nothing

Orphans(r, next) ==
    {Release(g) : g \in {h \in {request[r].lease, request[r].guard} \ {None, next.lease, next.guard} :
                            h \notin committed /\ \A q \in Requests \ {r} : ~Holds(q, h)}}

Goes(r, next, spawned) ==
    /\ request' = [request EXCEPT ![r] = next]
    /\ cleanups' = cleanups \cup spawned \cup Orphans(r, next)

To(r, pc) == [request[r] EXCEPT !.pc = pc]

(* A request ends; one that guards a lease of its own cleans up first. *)
Ended(r) ==
    IF request[r].guard # None
    THEN [request[r] EXCEPT !.pc = "cleaning", !.then = "none", !.lease = None, !.svc = None,
                            !.saw = FALSE, !.stale = FALSE]
    ELSE Idle

Stopped(s) == [x \in Services |-> IF x = s THEN "none" ELSE service[x]]

(* detach_validation_reservation, and the shutdown of what it detached *)
DetachAny(g) ==    \* bug: whatever generation is there
    /\ reservation' = NoReservation /\ inFlight' = {} /\ published' = None
    /\ service' = Stopped(published)

DetachReservation(g) ==    \* bug: the connection stays in validation_sessions
    IF Identical(g)
    THEN reservation' = NoReservation /\ inFlight' = {} /\ UNCHANGED <<published, service>>
    ELSE UNCHANGED <<reservation, inFlight, published, service>>

Detach(g) ==
    IF Identical(g)
    THEN /\ reservation' = NoReservation /\ inFlight' = {} /\ published' = None
         /\ service' = Stopped(published)
    ELSE UNCHANGED <<reservation, inFlight, published, service>>

-----------------------------------------------------------------------------
Init ==
    /\ reservation = NoReservation
    /\ inFlight = {}
    /\ published = None
    /\ last = 0
    /\ committed = {}
    /\ entry = NoEntry
    /\ request = [r \in Requests |-> Idle]
    /\ service = [s \in Services |-> "none"]
    /\ failing \in BOOLEAN
    /\ cleanups = {}

(* A slot for a new request, of which nothing earlier is left. *)
Free(r) == request[r].pc = "idle" /\ r \notin inFlight /\ \A c \in cleanups : c.of # r

(* A new session id, which nobody else knows. *)
Open(r, then) ==
    /\ Free(r)
    /\ last = 0 /\ \A q \in Requests : request[q].pc = "idle"
    /\ Goes(r, [Idle EXCEPT !.pc = "reserve", !.then = then], {})
    /\ UNCHANGED <<reservation, inFlight, published, last, committed, entry, service, failing>>

(* get_session, by a listing or by a call or refresh *)
Find(r, then) ==
    /\ Free(r)
    /\ entry.gen # None /\ ~entry.closing
    /\ IF entry.expired
       THEN /\ entry' = [entry EXCEPT !.closing = TRUE]
            /\ Goes(r, [Idle EXCEPT !.pc = "closing", !.target = entry.gen], {})
       ELSE /\ UNCHANGED entry
            /\ Goes(r, [Idle EXCEPT !.pc = "found", !.then = then, !.target = entry.gen], {})
    /\ UNCHANGED <<reservation, inFlight, published, last, committed, service, failing>>

(* begin_close *)
BeginClose(r) ==
    /\ Free(r)
    /\ entry.gen # None /\ ~entry.closing
    /\ entry' = [entry EXCEPT !.closing = TRUE]
    /\ Goes(r, [Idle EXCEPT !.pc = "closing", !.target = entry.gen], {})
    /\ UNCHANGED <<reservation, inFlight, published, last, committed, service, failing>>

Renewed == [reservation EXCEPT !.expired = FALSE]

(* acquire_validation_peer and refresh_session need the connection; a listing refreshes what its token names. *)
RefreshFound(r) ==
    /\ request[r].pc = "found"
    /\ LET fresh == Matches(request[r].target) /\ (request[r].then = "list" \/ published # None)
       IN  /\ reservation' = IF fresh THEN Renewed ELSE reservation
           /\ Goes(r, IF fresh /\ request[r].then = "list"
                       THEN [To(r, "existing") EXCEPT !.target = None] ELSE Ended(r), {})
    /\ UNCHANGED <<inFlight, published, last, committed, entry, service, failing>>

(* The read goes on to a fresh owner. *)
Retried(r) == [request[r] EXCEPT !.pc = "reserve", !.then = "owner"]

(* existing_owner: a stale connection is detached, and the read goes on to a fresh owner unless its *)
(* shutdown fails. *)
ExistingOwner(r) ==
    /\ request[r].pc = "existing"
    /\ IF reservation.gen = None \/ reservation.expired \/ published = None
       THEN /\ Goes(r, Retried(r), {})
            /\ UNCHANGED <<inFlight, published, service>>
       ELSE IF service[published] = "running"
       THEN /\ Goes(r, To(r, "using"), {})
            /\ UNCHANGED <<inFlight, published, service>>
       ELSE /\ published' = None /\ inFlight' = {} /\ service' = Stopped(published)
            /\ Goes(r, Retried(r), {}) \/ Goes(r, Ended(r), {})
    /\ UNCHANGED <<reservation, last, committed, entry, failing>>

(* discover_with_owner with the owner that was there: it ends, or its session turns out to be gone. *)
UseExisting(r) ==
    /\ request[r].pc = "using"
    /\ Goes(r, Retried(r), {}) \/ Goes(r, Ended(r), {})
    /\ UNCHANGED <<reservation, inFlight, published, last, committed, entry, service, failing>>

-----------------------------------------------------------------------------
(* ensure_validation_instance *)

(* reserve_validation_session: joins what is active, or replaces it with a new generation. *)
Join(r) ==
    /\ request[r].pc = "reserve"
    /\ reservation.gen # None /\ ~reservation.expired
    /\ reservation' = Renewed
    /\ Goes(r, [request[r] EXCEPT !.pc = "look", !.lease = reservation.gen], {})
    /\ UNCHANGED <<inFlight, published, last, committed, entry, service, failing>>

ReplaceOnly(r) ==    \* bug: what the expired generation ran is forgotten
    /\ request[r].pc = "reserve"
    /\ reservation.gen = None \/ reservation.expired
    /\ last < MaxGeneration
    /\ last' = last + 1
    /\ reservation' = [gen |-> last + 1, expired |-> FALSE]
    /\ inFlight' = {} /\ published' = None
    /\ Goes(r, [request[r] EXCEPT !.pc = "look", !.lease = last + 1], {})
    /\ UNCHANGED <<service, committed, entry, failing>>

Replace(r) ==
    /\ request[r].pc = "reserve"
    /\ reservation.gen = None \/ reservation.expired
    /\ last < MaxGeneration
    /\ last' = last + 1
    /\ reservation' = [gen |-> last + 1, expired |-> FALSE]
    /\ inFlight' = {} /\ published' = None
    /\ service' = Stopped(published)
    /\ Goes(r, [request[r] EXCEPT !.pc = "look", !.lease = last + 1], {})
    /\ UNCHANGED <<committed, entry, failing>>

(* With the lease of a running connection the request goes on to what it wanted it for. *)
Ensured(r) == To(r, "ensured")

Look(r) ==
    /\ request[r].pc = "look"
    /\ Goes(r, IF published # None THEN Ensured(r)
               ELSE [request[r] EXCEPT !.pc = "begin", !.saw = failing], {})
    /\ UNCHANGED <<reservation, inFlight, published, last, committed, entry, service, failing>>

(* begin_validation_attempt *)
Begin(r) ==
    /\ request[r].pc = "begin"
    /\ IF Matches(request[r].lease)
       THEN inFlight' = inFlight \cup {r} /\ Goes(r, [To(r, "connecting") EXCEPT !.stale = FALSE], {})
       ELSE UNCHANGED inFlight /\ Goes(r, Ended(r), {})
    /\ UNCHANGED <<reservation, published, last, committed, entry, service, failing>>

(* create_temporary_validation_instance, without the lock: it connects, fails to, or is refused before *)
(* (by a backoff, the configuration or a secret), which registers no failure. *)
Connect(r, s) ==
    /\ request[r].pc = "connecting"
    /\ service[s] = "none"
    /\ service' = [service EXCEPT ![s] = "running"]
    /\ Goes(r, [To(r, "connected") EXCEPT !.svc = s], {})
    /\ UNCHANGED <<reservation, inFlight, published, last, committed, entry, failing>>

FailToConnect(r) ==
    /\ request[r].pc = "connecting"
    /\ \/ Goes(r, To(r, "failed"), {})
       \/ Goes(r, To(r, "refused"), {})
    /\ UNCHANGED <<reservation, inFlight, published, last, committed, entry, service, failing>>

(* claim_validation_attempt; whoever claims also removes the attempt, if the generation is its own. *)
ClaimUnregistered(r) ==    \* bug: an attempt that was invalidated still counts
    Matches(request[r].lease)

Claims(r) == Matches(request[r].lease) /\ r \in inFlight

WithoutAttempt(r) == IF Identical(request[r].lease) THEN inFlight \ {r} ELSE inFlight

(* The attempt is over, and the request has the lease of a connection. *)
Settled(r) == [Ensured(r) EXCEPT !.svc = None, !.saw = FALSE, !.stale = FALSE]

(* finalize_validation_success: lost, joined (whose shutdown may fail), or published *)
FinalizeSuccess(r) ==
    /\ request[r].pc = "connected"
    /\ inFlight' = WithoutAttempt(r)
    /\ failing' = (failing /\ ~(Claims(r) /\ request[r].saw))
    /\ IF Claims(r) /\ published = None
       THEN /\ published' = request[r].svc
            /\ reservation' = Renewed
            /\ UNCHANGED service
            /\ Goes(r, Settled(r), {})
       ELSE /\ service' = Stopped(request[r].svc)
            /\ UNCHANGED <<published, reservation>>
            /\ \/ Goes(r, Ended(r), {})
               \/ Claims(r) /\ Goes(r, Settled(r), {})
    /\ UNCHANGED <<last, committed, entry>>

(* finalize_validation_failure *)
FinalizeFailure(r) ==
    /\ request[r].pc \in {"failed", "refused"}
    /\ inFlight' = WithoutAttempt(r)
    /\ failing' = (failing \/ (Claims(r) /\ request[r].pc = "failed"))
    /\ Goes(r, Ended(r), {})
    /\ UNCHANGED <<reservation, published, last, committed, entry, service>>

-----------------------------------------------------------------------------
(* What a lease is wanted for *)

(* open_session: the entry and the commitment of the lease are one critical section. *)
AcquirePeer(r) ==
    /\ request[r].pc = "ensured" /\ request[r].then = "open"
    /\ IF published # None /\ Matches(request[r].lease)
       THEN reservation' = Renewed /\ Goes(r, To(r, "opening"), {})
       ELSE UNCHANGED reservation /\ Goes(r, Idle, {})
    /\ UNCHANGED <<inFlight, published, last, committed, entry, service, failing>>

OpenEntry(r) ==
    /\ request[r].pc = "opening"
    /\ entry' = [NoEntry EXCEPT !.gen = request[r].lease]
    /\ committed' = committed \cup {request[r].lease}
    /\ request' = [request EXCEPT ![r] = Idle]
    /\ UNCHANGED <<reservation, inFlight, published, last, service, failing, cleanups>>

(* A request without a session guards the lease while it lists, or calls what its peer is. *)
GuardListing(r) ==
    /\ request[r].pc = "ensured" /\ request[r].then = "guard"
    /\ Goes(r, [To(r, "existing") EXCEPT !.guard = request[r].lease, !.lease = None], {})
    /\ UNCHANGED <<reservation, inFlight, published, last, committed, entry, service, failing>>

GuardCall(r) ==
    /\ request[r].pc = "ensured" /\ request[r].then = "guard"
    /\ IF published # None /\ Matches(request[r].lease)
       THEN /\ reservation' = Renewed
            /\ Goes(r, [To(r, "cleaning") EXCEPT !.guard = request[r].lease, !.lease = None, !.then = "none"], {})
       ELSE UNCHANGED reservation /\ Goes(r, Idle, {})
    /\ UNCHANGED <<inFlight, published, last, committed, entry, service, failing>>

(* NativeValidationSessionGuard::cleanup, before the guarded lease is dropped *)
CleanUp(r) ==
    /\ request[r].pc = "cleaning"
    /\ Detach(request[r].guard)
    /\ Goes(r, Idle, {})
    /\ UNCHANGED <<last, committed, entry, failing>>

(* CapabilityOwnerCleanup::from_lease *)
Own(r) ==
    /\ request[r].pc = "ensured" /\ request[r].then = "own"
    /\ committed' = committed \cup {request[r].lease}
    /\ request' = [request EXCEPT ![r] = [To(r, "owned") EXCEPT !.own = request[r].lease, !.lease = None]]
    /\ UNCHANGED <<reservation, inFlight, published, last, entry, service, failing, cleanups>>

(* owner_from_validation_session, after which create_fresh_owner gives up the lease that it did not *)
(* make persistent, though the owner is still to be used. *)
TakeOwner(r) ==
    /\ \/ request[r].pc = "owned"
       \/ request[r].pc = "ensured" /\ request[r].then = "owner"
    /\ IF published # None /\ service[published] = "running"
       THEN Goes(r, [To(r, "used") EXCEPT !.lease = None], {})
       ELSE Goes(r, Ended(r), IF request[r].own # None THEN {Release(request[r].own)} ELSE {})
    /\ UNCHANGED <<reservation, inFlight, published, last, committed, entry, service, failing>>

(* discover_with_owner with a fresh owner, and release_owner *)
UseFresh(r) ==
    /\ request[r].pc = "used"
    /\ Detach(request[r].own)
    /\ Goes(r, Ended(r), {})
    /\ UNCHANGED <<last, committed, entry, failing>>

(* release_inspector_session; the shutdown of what it detached may fail. *)
ReleaseClosing(r) ==
    /\ request[r].pc = "closing"
    /\ Detach(request[r].target)
    /\ \/ Goes(r, To(r, "completing"), {})
       \/ /\ Identical(request[r].target) /\ published # None
          /\ Goes(r, Idle, {Reopen(request[r].target)})
    /\ UNCHANGED <<last, committed, entry, failing>>

(* complete_close *)
CompleteClose(r) ==
    /\ request[r].pc = "completing"
    /\ IF entry.closing /\ entry.gen = request[r].target
       THEN entry' = NoEntry /\ Goes(r, Idle, {})
       ELSE UNCHANGED entry /\ Goes(r, Idle, {Reopen(request[r].target)})
    /\ UNCHANGED <<reservation, inFlight, published, last, committed, service, failing>>

-----------------------------------------------------------------------------
(* Drops.  A future may be dropped at any await; what it held is given up, and the guards of attempts, *)
(* owners and closings spawn what undoes them. *)
AttemptForgotten(r) == {}    \* bug: only the transport is cancelled

AttemptsLeft(r) == IF request[r].pc \in Connecting THEN {Remove(r, request[r].lease)} ELSE {}

OwnersLeft(r) == IF request[r].own # None THEN {Release(request[r].own)} ELSE {}

ClosingForgotten(r) == {}    \* bug: nothing opens the entry again

ClosingsLeft(r) == IF request[r].pc \in {"closing", "completing"} THEN {Reopen(request[r].target)} ELSE {}

Drop(r) ==
    /\ request[r].pc # "idle"
    /\ service' = Stopped(request[r].svc)
    /\ Goes(r, Idle, AttemptsLeft(r) \cup OwnersLeft(r) \cup ClosingsLeft(r))
    /\ UNCHANGED <<reservation, inFlight, published, last, committed, entry, failing>>

(* The spawned tasks: release_validation_reservation, remove_validation_attempt, abort_close *)
RunRelease(c) ==
    /\ c \in cleanups /\ c.task = "release"
    /\ cleanups' = cleanups \ {c}
    /\ Detach(c.gen)
    /\ UNCHANGED <<last, committed, entry, request, failing>>

RunRemove(c) ==
    /\ c \in cleanups /\ c.task = "remove"
    /\ cleanups' = cleanups \ {c}
    /\ inFlight' = IF Identical(c.gen) THEN inFlight \ {c.of} ELSE inFlight
    /\ UNCHANGED <<reservation, published, last, committed, entry, request, service, failing>>

RunReopen(c) ==
    /\ c \in cleanups /\ c.task = "reopen"
    /\ cleanups' = cleanups \ {c}
    /\ entry' = IF entry.gen = c.gen THEN [entry EXCEPT !.closing = FALSE] ELSE entry
    /\ UNCHANGED <<reservation, inFlight, published, last, committed, request, service, failing>>

-----------------------------------------------------------------------------
(* The environment *)

ServiceCloses(s) ==
    /\ service[s] = "running"
    /\ service' = [service EXCEPT ![s] = "closed"]
    /\ UNCHANGED <<reservation, inFlight, published, last, committed, entry, request, failing, cleanups>>

ReservationExpires ==
    /\ reservation.gen # None /\ ~reservation.expired
    /\ reservation' = [reservation EXCEPT !.expired = TRUE]
    /\ UNCHANGED <<inFlight, published, last, committed, entry, request, service, failing, cleanups>>

EntryExpires ==
    /\ entry.gen # None /\ ~entry.expired
    /\ entry' = [entry EXCEPT !.expired = TRUE]
    /\ UNCHANGED <<reservation, inFlight, published, last, committed, request, service, failing, cleanups>>

Overtaken == [r \in Requests |-> IF request[r].pc \in Connecting
                                 THEN [request[r] EXCEPT !.stale = TRUE] ELSE request[r]]

(* complete_oauth: the attempts of the server are invalidated, and its failures forgotten. *)
OAuthCompletes ==
    /\ inFlight' = {}
    /\ failing' = FALSE
    /\ request' = Overtaken
    /\ UNCHANGED <<reservation, published, last, committed, entry, service, cleanups>>

Step(r) ==
    \/ \E then \in {"open", "guard", "own"} : Open(r, then)
    \/ \E then \in {"touch", "list"} : Find(r, then)
    \/ BeginClose(r) \/ RefreshFound(r) \/ ExistingOwner(r) \/ UseExisting(r)
    \/ Join(r) \/ Replace(r) \/ Look(r) \/ Begin(r)
    \/ \E s \in Services : Connect(r, s)
    \/ FailToConnect(r) \/ FinalizeSuccess(r) \/ FinalizeFailure(r)
    \/ AcquirePeer(r) \/ OpenEntry(r) \/ GuardListing(r) \/ GuardCall(r) \/ CleanUp(r)
    \/ Own(r) \/ TakeOwner(r) \/ UseFresh(r)
    \/ ReleaseClosing(r) \/ CompleteClose(r) \/ Drop(r)

Spawned(c) == RunRelease(c) \/ RunRemove(c) \/ RunReopen(c)

Environment ==
    \/ \E s \in Services : ServiceCloses(s)
    \/ ReservationExpires \/ EntryExpires \/ OAuthCompletes

Next ==
    \/ \E r \in Requests : Step(r)
    \/ \E c \in cleanups : Spawned(c)
    \/ Environment

Spec == Init /\ [][Next]_vars

-----------------------------------------------------------------------------
Generations == {g \in Nat : g > 0 /\ g <= last}

Pcs == {"idle", "found", "existing", "using", "reserve", "look", "begin", "connecting", "connected", "failed",
        "refused", "ensured", "opening", "cleaning", "owned", "used", "closing", "completing"}

Wants == {"none", "open", "guard", "own", "touch", "list", "owner"}

Tasks == [task : {"release", "remove", "reopen"}, gen : Generations, of : Requests \cup {None}]

(* Types; and the maps of a session are removed together: without a reservation there is neither a *)
(* connection nor an attempt (validation_reservations, validation_sessions). *)
TypeOK ==
    /\ reservation \in [gen : Generations \cup {None}, expired : BOOLEAN]
    /\ inFlight \subseteq Requests
    /\ published \in Services \cup {None}
    /\ last \in 0..MaxGeneration
    /\ committed \subseteq Generations
    /\ entry \in [gen : Generations \cup {None}, expired : BOOLEAN, closing : BOOLEAN]
    /\ request \in [Requests -> [pc : Pcs, then : Wants, lease : Generations \cup {None},
                                 guard : Generations \cup {None}, own : Generations \cup {None},
                                 target : Generations \cup {None}, svc : Services \cup {None},
                                 saw : BOOLEAN, stale : BOOLEAN]]
    /\ service \in [Services -> {"none", "running", "closed"}]
    /\ failing \in BOOLEAN
    /\ cleanups \subseteq Tasks
    /\ reservation.gen = None => published = None /\ inFlight = {}

(* Whatever is replaced, released, dropped or invalidated, an upstream that runs is the connection of *)
(* the session or in the hands of the request that started it. *)
NothingLeaks ==
    \A s \in Services : service[s] # "none" => s = published \/ \E r \in Requests : request[r].svc = s

(* A reservation, expired or not, has somebody who will end it: the inspector's entry, a lease, an owner, *)
(* or a release that is on its way; so a connection cannot outlive all that know of it. *)
ReservationsAreOwned ==
    reservation.gen # None =>
        \/ entry.gen = reservation.gen
        \/ \E r \in Requests : Holds(r, reservation.gen) \/ request[r].own = reservation.gen
        \/ Release(reservation.gen) \in cleanups

(* An entry that is being closed is invisible to everyone, so somebody must be closing it, or about to *)
(* open it again (InspectorSessionClosing). *)
ClosingIsUnderWay ==
    entry.closing =>
        \/ \E r \in Requests : request[r].pc \in {"closing", "completing"} /\ request[r].target = entry.gen
        \/ Reopen(entry.gen) \in cleanups

(* A registered attempt is under way for the generation it is registered with, or its removal is. *)
AttemptsAreHeld ==
    \A r \in inFlight :
        \/ request[r].pc \in Connecting /\ request[r].lease = reservation.gen
        \/ Remove(r, reservation.gen) \in cleanups

(* What an attempt brings back counts for nothing once an OAuth completion has overtaken it, or its *)
(* generation is gone: it neither publishes nor changes the failure state of the server. *)
OvertakenAttemptsAreMute ==
    [][\A r \in Requests :
          (/\ request[r].pc \in {"connected", "failed"} /\ request'[r].pc \notin Connecting
           /\ request[r].stale \/ request[r].lease # reservation.gen)
          => published' = published /\ failing' = failing]_vars

(* A generation that some request still holds is ended by others only once it has expired, for a lease of *)
(* it that was the last when it was given up, or because its entry is being closed: a late release, close *)
(* or attempt of an earlier generation cannot end its replacement. *)
ReplacementsSurvive ==
    [][LET g == reservation.gen
       IN  (g # None /\ reservation'.gen # g /\ \E r \in Requests : Holds(r, g) /\ request'[r] = request[r])
           => reservation.expired \/ Release(g) \in cleanups \/ (entry.closing /\ entry.gen = g)]_vars

=============================================================================
