---------------------------- MODULE DerivedCache ----------------------------
(***************************************************************************)
(* The node-local cache of catalog snapshots: DerivedCapabilityCache.      *)
(*                                                                         *)
(* A reader looks for the current snapshot of a server, loads it from the  *)
(* database behind a single flight when it is not there, and keeps what it *)
(* loaded unless the cache was invalidated meanwhile.  A writer commits a  *)
(* catalog revision and then invalidates the server; an operator resets    *)
(* the whole cache.  None of them holds more than one map at a time: an    *)
(* action is what runs under one lock, between two awaits.                 *)
(*                                                                         *)
(* A cached snapshot is the catalog at the revision of its key, so a key   *)
(* stands for the entry, and a full cache may drop any entry rather than   *)
(* the least recently used one.  Projections, which the cache keeps for    *)
(* clients, and lookups of a given revision, which nothing but its tests   *)
(* makes, are left out.                                                    *)
(***************************************************************************)
EXTENDS Integers, FiniteSets

CONSTANTS
    Readers,        \* tasks that read snapshots
    Writers,        \* tasks that commit and invalidate
    Servers,        \* servers with a catalog
    Flights,        \* the mutexes of single flights
    None,           \* no server, no flight
    Capacity,       \* entries the cache keeps
    MaxRevision,    \* bound: revisions of a server
    MaxResets,      \* bound: resets of the cache
    MaxFailures     \* bound: loads that fail, readers and writers that are dropped

ASSUME NoneAssumption == None \notin Flights
ASSUME CapacityAssumption == Capacity \in Nat \ {0}

VARIABLES
    committed,          \* the catalog revision of each server in the database
    raw,                \* raw_snapshots: the keys of the entries
    currentKey,         \* current_raw_keys: the revision of each server's current key, 0 without one
    flight,             \* current_raw_flights: the flight of each server, if it was not removed
    serverGeneration,   \* server_generations, 0 without one
    generation,         \* generation
    reader,             \* where each reader is in get_or_load_current_snapshot
    writer,             \* where each writer is between its commit and the end of invalidate_server
    reset,              \* where the reset is in clear
    purged,             \* what was committed when a server was last purged by an invalidation
    forgotten,          \* and when the cache was last emptied by a reset
    resets, failures    \* what is spent of the bounds

maps == <<raw, currentKey, flight, serverGeneration, generation>>
history == <<purged, forgotten>>
vars == <<committed, raw, currentKey, flight, serverGeneration, generation, reader, writer, reset,
          purged, forgotten, resets, failures>>

-----------------------------------------------------------------------------
Key(s, revision) == [server |-> s, revision |-> revision]

Keys == [server : Servers, revision : Nat]

ReaderPhases == {"idle", "lookup", "forget", "observe", "observe_server", "join", "wait",
                 "again", "again_lookup", "again_forget", "load", "push", "insert", "done"}

(* A reader holds the guard of its flight from the second lookup on. *)
Guarded == {"again", "again_lookup", "again_forget", "load", "push", "insert"}

Live(f) == f # None /\ \E r \in Readers : reader[r].flight = f

Locked(f) == \E r \in Readers : reader[r].flight = f /\ reader[r].phase \in Guarded

Goto(r, phase) == reader' = [reader EXCEPT ![r].phase = phase]

(* A reader is through: it drops its guard and keeps only its answer. *)
Answer(r, revision) ==
    reader' = [reader EXCEPT ![r].phase = "done", ![r].key = revision, ![r].flight = None,
                             ![r].generation = 0, ![r].serverGeneration = 0]

At(r, phase) == reader[r].phase = phase

Server(r) == reader[r].server

Idle == [phase |-> "idle", server |-> None, key |-> 0, generation |-> 0, serverGeneration |-> 0,
         flight |-> None, purged |-> 0, forgotten |-> 0]

Fail == failures < MaxFailures /\ failures' = failures + 1

-----------------------------------------------------------------------------
Init ==
    /\ committed = [s \in Servers |-> 1]
    /\ raw = {}
    /\ currentKey = [s \in Servers |-> 0]
    /\ flight = [s \in Servers |-> None]
    /\ serverGeneration = [s \in Servers |-> 0]
    /\ generation = 0
    /\ reader = [r \in Readers |-> Idle]
    /\ writer = [w \in Writers |-> [phase |-> "idle", server |-> None]]
    /\ reset = "idle"
    /\ purged = [s \in Servers |-> 0]
    /\ forgotten = [s \in Servers |-> 0]
    /\ resets = 0 /\ failures = 0

(* current_snapshot_lookup: the key is read under one lock, the entry under another, and a key *)
(* without an entry is removed under the first again, whatever it is by then. *)
Begin(r, s) ==
    /\ reader[r].phase \in {"idle", "done"}
    /\ reader' = [reader EXCEPT ![r] = [Idle EXCEPT
            !.phase = IF currentKey[s] = 0 THEN "observe" ELSE "lookup",
            !.server = s, !.key = currentKey[s], !.purged = purged[s], !.forgotten = forgotten[s]]]
    /\ UNCHANGED <<committed, maps, writer, reset, history, resets, failures>>

Found(r) == Key(Server(r), reader[r].key) \in raw

Lookup(r) ==
    /\ \/ At(r, "lookup") /\ ~Found(r) /\ Goto(r, "forget")
       \/ At(r, "again_lookup") /\ ~Found(r) /\ Goto(r, "again_forget")
       \/ reader[r].phase \in {"lookup", "again_lookup"} /\ Found(r) /\ Answer(r, reader[r].key)
    /\ UNCHANGED <<committed, maps, writer, reset, history, resets, failures>>

Forget(r) ==
    /\ \/ At(r, "forget") /\ Goto(r, "observe")
       \/ At(r, "again_forget") /\ Goto(r, "load")
    /\ currentKey' = [currentKey EXCEPT ![Server(r)] = 0]
    /\ UNCHANGED <<committed, raw, flight, serverGeneration, generation, writer, reset, history,
                   resets, failures>>

(* What the reader will compare before it keeps what it loads. *)
Observe(r) ==
    /\ \/ /\ At(r, "observe")
          /\ reader' = [reader EXCEPT ![r].phase = "observe_server", ![r].generation = generation]
       \/ /\ At(r, "observe_server")
          /\ reader' = [reader EXCEPT ![r].phase = "join",
                                      ![r].serverGeneration = serverGeneration[Server(r)]]
    /\ UNCHANGED <<committed, maps, writer, reset, history, resets, failures>>

(* A flight nobody holds any more is replaced. *)
Join(r) ==
    /\ At(r, "join")
    /\ \E f \in Flights :
          /\ f = flight[Server(r)] \/ ~Live(flight[Server(r)])
          /\ f # flight[Server(r)] => ~Live(f)
          /\ flight' = [flight EXCEPT ![Server(r)] = f]
          /\ reader' = [reader EXCEPT ![r].phase = "wait", ![r].flight = f]
    /\ UNCHANGED <<committed, raw, currentKey, serverGeneration, generation, writer, reset, history,
                   resets, failures>>

EnterAtOnce(r) ==    \* bug: the flight is joined and not locked
    /\ At(r, "wait")
    /\ Goto(r, "again")
    /\ UNCHANGED <<committed, maps, writer, reset, history, resets, failures>>

Enter(r) ==
    /\ At(r, "wait") /\ ~Locked(reader[r].flight)
    /\ Goto(r, "again")
    /\ UNCHANGED <<committed, maps, writer, reset, history, resets, failures>>

LookAgain(r) ==
    /\ At(r, "again")
    /\ reader' = [reader EXCEPT ![r].phase = IF currentKey[Server(r)] = 0 THEN "load" ELSE "again_lookup",
                                ![r].key = currentKey[Server(r)]]
    /\ UNCHANGED <<committed, maps, writer, reset, history, resets, failures>>

Load(r) ==
    /\ At(r, "load")
    /\ reader' = [reader EXCEPT ![r].phase = "push", ![r].key = committed[Server(r)]]
    /\ UNCHANGED <<committed, maps, writer, reset, history, resets, failures>>

(* The load fails, or the request that reads is dropped at an await. *)
Abandon(r) ==
    /\ reader[r].phase \in {"lookup", "wait", "again_lookup", "load", "push"}
    /\ Fail
    /\ reader' = [reader EXCEPT ![r] = Idle]
    /\ UNCHANGED <<committed, maps, writer, reset, history, resets>>

Stale(r) ==
    reader[r].generation # generation \/ reader[r].serverGeneration # serverGeneration[Server(r)]

Refuse(r) ==
    /\ At(r, "push") /\ Stale(r)
    /\ Answer(r, reader[r].key)
    /\ UNCHANGED <<committed, maps, writer, reset, history, resets, failures>>

KeepAll(r) ==    \* bug: a full cache drops nothing
    /\ At(r, "push") /\ ~Stale(r)
    /\ raw' = raw \cup {Key(Server(r), reader[r].key)}
    /\ Goto(r, "insert")
    /\ UNCHANGED <<committed, currentKey, flight, serverGeneration, generation, writer, reset, history,
                   resets, failures>>

(* push returns the entry it drops, and also the one it replaces: the current key goes with it. *)
Keep(r) ==
    /\ At(r, "push") /\ ~Stale(r)
    /\ LET key == Key(Server(r), reader[r].key)
       IN  \/ /\ key \notin raw /\ Cardinality(raw) < Capacity
              /\ raw' = raw \cup {key}
              /\ UNCHANGED currentKey
           \/ \E dropped \in raw :
                 /\ IF key \in raw THEN dropped = key ELSE Cardinality(raw) = Capacity
                 /\ raw' = (raw \ {dropped}) \cup {key}
                 /\ currentKey' = [currentKey EXCEPT ![dropped.server] =
                                     IF @ = dropped.revision THEN 0 ELSE @]
    /\ Goto(r, "insert")
    /\ UNCHANGED <<committed, flight, serverGeneration, generation, writer, reset, history, resets, failures>>

(* The current key is set when the lock of the entries is gone. *)
Insert(r) ==
    /\ At(r, "insert")
    /\ currentKey' = [currentKey EXCEPT ![Server(r)] = reader[r].key]
    /\ Answer(r, reader[r].key)
    /\ UNCHANGED <<committed, raw, flight, serverGeneration, generation, writer, reset, history,
                   resets, failures>>

-----------------------------------------------------------------------------
Commit(w, s) ==
    /\ writer[w].phase = "idle" /\ committed[s] < MaxRevision
    /\ committed' = [committed EXCEPT ![s] = @ + 1]
    /\ writer' = [writer EXCEPT ![w] = [phase |-> "purge", server |-> s]]
    /\ UNCHANGED <<maps, reader, reset, history, resets, failures>>

PurgeOnly(w) ==    \* bug: loads under way are not told
    LET s == writer[w].server IN
    /\ writer[w].phase = "purge"
    /\ raw' = {k \in raw : k.server # s}
    /\ purged' = [purged EXCEPT ![s] = committed[s]]
    /\ writer' = [writer EXCEPT ![w].phase = "key"]
    /\ UNCHANGED <<committed, serverGeneration, currentKey, flight, generation, reader, reset, forgotten,
                   resets, failures>>

Purge(w) ==
    LET s == writer[w].server IN
    /\ writer[w].phase = "purge"
    /\ serverGeneration' = [serverGeneration EXCEPT ![s] = @ + 1]
    /\ raw' = {k \in raw : k.server # s}
    /\ purged' = [purged EXCEPT ![s] = committed[s]]
    /\ writer' = [writer EXCEPT ![w].phase = "key"]
    /\ UNCHANGED <<committed, currentKey, flight, generation, reader, reset, forgotten, resets, failures>>

ForgetKey(w) ==
    /\ writer[w].phase = "key"
    /\ currentKey' = [currentKey EXCEPT ![writer[w].server] = 0]
    /\ writer' = [writer EXCEPT ![w].phase = "flight"]
    /\ UNCHANGED <<committed, raw, flight, serverGeneration, generation, reader, reset, history,
                   resets, failures>>

ForgetFlight(w) ==
    /\ writer[w].phase = "flight"
    /\ flight' = [flight EXCEPT ![writer[w].server] = None]
    /\ writer' = [writer EXCEPT ![w].phase = "idle"]
    /\ UNCHANGED <<committed, raw, currentKey, serverGeneration, generation, reader, reset, history,
                   resets, failures>>

(* The request that committed is dropped while it waits for the entries. *)
DropWriter(w) ==
    /\ writer[w].phase = "purge" /\ Fail
    /\ writer' = [writer EXCEPT ![w].phase = "idle"]
    /\ UNCHANGED <<committed, maps, reader, reset, history, resets>>

-----------------------------------------------------------------------------
(* A reset invalidates every catalog and clears the cache: the entries under their lock, and then one *)
(* map after the other. *)
ResetCatalogs ==
    /\ reset = "idle" /\ resets < MaxResets
    /\ \A s \in Servers : committed[s] < MaxRevision
    /\ resets' = resets + 1
    /\ committed' = [s \in Servers |-> committed[s] + 1]
    /\ reset' = "entries"
    /\ UNCHANGED <<maps, reader, writer, history, failures>>

ClearOnly ==    \* bug: loads under way are not told
    /\ reset = "entries" /\ reset' = "keys"
    /\ raw' = {}
    /\ forgotten' = committed
    /\ UNCHANGED <<committed, currentKey, flight, serverGeneration, generation, reader, writer, purged,
                   resets, failures>>

Clear ==
    /\ reset = "entries" /\ reset' = "keys"
    /\ generation' = generation + 1
    /\ raw' = {}
    /\ forgotten' = committed
    /\ UNCHANGED <<committed, currentKey, flight, serverGeneration, reader, writer, purged, resets, failures>>

ClearMaps ==
    /\ \/ /\ reset = "keys" /\ reset' = "flights"
          /\ currentKey' = [s \in Servers |-> 0]
          /\ UNCHANGED <<flight, serverGeneration>>
       \/ /\ reset = "flights" /\ reset' = "generations"
          /\ flight' = [s \in Servers |-> None]
          /\ UNCHANGED <<currentKey, serverGeneration>>
       \/ /\ reset = "generations" /\ reset' = "idle"
          /\ serverGeneration' = [s \in Servers |-> 0]
          /\ UNCHANGED <<currentKey, flight>>
    /\ UNCHANGED <<committed, raw, generation, reader, writer, history, resets, failures>>

Next ==
    \/ \E r \in Readers, s \in Servers : Begin(r, s)
    \/ \E r \in Readers : \/ Lookup(r) \/ Forget(r) \/ Observe(r) \/ Join(r) \/ Enter(r) \/ LookAgain(r)
                          \/ Load(r) \/ Abandon(r) \/ Refuse(r) \/ Keep(r) \/ Insert(r)
    \/ \E w \in Writers, s \in Servers : Commit(w, s)
    \/ \E w \in Writers : Purge(w) \/ ForgetKey(w) \/ ForgetFlight(w) \/ DropWriter(w)
    \/ ResetCatalogs \/ Clear \/ ClearMaps

Spec == Init /\ [][Next]_vars

-----------------------------------------------------------------------------
TypeOK ==
    /\ committed \in [Servers -> Nat]
    /\ raw \in SUBSET Keys /\ IsFiniteSet(raw) /\ Cardinality(raw) <= Capacity
    /\ currentKey \in [Servers -> Nat] /\ flight \in [Servers -> Flights \cup {None}]
    /\ serverGeneration \in [Servers -> Nat] /\ generation \in Nat
    /\ reader \in [Readers -> [phase : ReaderPhases, server : Servers \cup {None}, key : Nat,
                               generation : Nat, serverGeneration : Nat, flight : Flights \cup {None},
                               purged : Nat, forgotten : Nat]]
    /\ writer \in [Writers -> [phase : {"idle", "purge", "key", "flight"}, server : Servers \cup {None}]]
    /\ reset \in {"idle", "entries", "keys", "flights", "generations"}
    /\ purged \in [Servers -> Nat] /\ forgotten \in [Servers -> Nat]
    /\ resets \in Nat /\ failures \in Nat

(* A read that begins after a reset has emptied the cache returns nothing older than what was *)
(* committed then: loads that were under way do not put back what they had read. *)
ResetForgets ==
    \A r \in Readers : At(r, "done") => reader[r].key >= reader[r].forgotten

(* A read that begins after an invalidation has purged its server returns nothing older than what was *)
(* committed then, as long as nobody resets the cache. *)
FreshAfterInvalidation ==
    resets = 0 => \A r \in Readers : At(r, "done") => reader[r].key >= reader[r].purged

(* Two readers load one server at a time only if it was invalidated or the cache reset since the first *)
(* of them joined its flight: the flight of one of them has been removed. *)
SingleFlight ==
    \A r, q \in Readers :
        r # q /\ At(r, "load") /\ At(q, "load") /\ Server(r) = Server(q) =>
            reader[r].flight # flight[Server(r)] \/ reader[q].flight # flight[Server(q)]
=============================================================================
