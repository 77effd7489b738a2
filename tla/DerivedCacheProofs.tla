------------------------- MODULE DerivedCacheProofs -------------------------
(***************************************************************************)
(* Theorems about DerivedCache, for any readers, writers, servers and      *)
(* bounds: the state keeps its type and the cache its capacity, two        *)
(* readers never hold one flight, and no read returns what an earlier      *)
(* reset or invalidation had dropped.                                      *)
(***************************************************************************)
EXTENDS DerivedCache, FiniteSetTheorems, TLAPS

Reading == [phase : ReaderPhases, server : Servers \cup {None}, key : Nat, generation : Nat,
            serverGeneration : Nat, flight : Flights \cup {None}, purged : Nat, forgotten : Nat]

(* TypeOK without the size of the cache; a task between two steps has a server. *)
Typed ==
    /\ committed \in [Servers -> Nat] /\ raw \in SUBSET Keys
    /\ currentKey \in [Servers -> Nat] /\ flight \in [Servers -> Flights \cup {None}]
    /\ serverGeneration \in [Servers -> Nat] /\ generation \in Nat
    /\ reader \in [Readers -> Reading]
    /\ \A r \in Readers : reader[r].phase # "idle" => reader[r].server \in Servers
    /\ writer \in [Writers -> [phase : {"idle", "purge", "key", "flight"}, server : Servers \cup {None}]]
    /\ \A w \in Writers : writer[w].phase # "idle" => writer[w].server \in Servers
    /\ reset \in {"idle", "entries", "keys", "flights", "generations"}
    /\ purged \in [Servers -> Nat] /\ forgotten \in [Servers -> Nat]
    /\ resets \in Nat /\ failures \in Nat

Bounded == IsFiniteSet(raw) /\ Cardinality(raw) <= Capacity

(* The steps of one reader. *)
Reads(r) ==
    \/ \E s \in Servers : Begin(r, s)
    \/ Lookup(r) \/ Forget(r) \/ Observe(r) \/ Join(r) \/ Enter(r) \/ LookAgain(r)
    \/ Load(r) \/ Abandon(r) \/ Refuse(r) \/ Keep(r) \/ Insert(r)

LEMMA TypedInit == Init => Typed
BY DEF Init, Typed, Reading, ReaderPhases, Idle, Keys

(* A reader's step changes no other reader, and leaves it a record of the right kind. *)
LEMMA ReaderStep ==
    ASSUME Typed, NEW r \in Readers, Reads(r)
    PROVE  /\ reader' = [reader EXCEPT ![r] = reader'[r]]
           /\ reader'[r] \in Reading
           /\ reader'[r].phase # "idle" => reader'[r].server \in Servers
           /\ UNCHANGED <<committed, serverGeneration, generation, writer, reset, history, resets>>
<1> DEFINE old == reader[r]
<1>1. /\ old \in Reading /\ reader \in [Readers -> Reading]
      /\ old.phase # "idle" => old.server \in Servers
    BY DEF Typed
<1> USE DEF maps, history
<1>2. ASSUME NEW s \in Servers, Begin(r, s)
      PROVE  reader'[r] \in Reading /\ reader'[r].server \in Servers
    <2>1. reader'[r] = [Idle EXCEPT
            !.phase = IF currentKey[s] = 0 THEN "observe" ELSE "lookup",
            !.server = s, !.key = currentKey[s], !.purged = purged[s], !.forgotten = forgotten[s]]
        BY <1>1, <1>2 DEF Begin
    <2>2. /\ (IF currentKey[s] = 0 THEN "observe" ELSE "lookup") \in ReaderPhases
          /\ currentKey[s] \in Nat /\ purged[s] \in Nat /\ forgotten[s] \in Nat
        BY DEF Typed, ReaderPhases
    <2>3. reader'[r] = [phase |-> IF currentKey[s] = 0 THEN "observe" ELSE "lookup",
                        server |-> s, key |-> currentKey[s], generation |-> 0, serverGeneration |-> 0,
                        flight |-> None, purged |-> purged[s], forgotten |-> forgotten[s]]
        BY <2>1 DEF Idle
    <2> QED
        BY <2>2, <2>3 DEF Reading
<1>3. ASSUME NEW phase \in ReaderPhases \ {"idle"}, reader[r].phase # "idle", Goto(r, phase)
      PROVE  reader'[r] \in Reading /\ reader'[r].server \in Servers
    <2>1. reader'[r] = [old EXCEPT !.phase = phase]
        BY <1>1, <1>3 DEF Goto
    <2> HIDE DEF old
    <2> QED
        BY <1>1, <1>3, <2>1 DEF Reading, old
<1>4. ASSUME NEW revision \in Nat, reader[r].phase # "idle", Answer(r, revision)
      PROVE  reader'[r] \in Reading /\ reader'[r].server \in Servers
    <2>1. reader'[r] = [old EXCEPT !.phase = "done", !.key = revision, !.flight = None,
                                   !.generation = 0, !.serverGeneration = 0]
        BY <1>1, <1>4 DEF Answer
    <2>2. /\ old.server \in Servers /\ old.purged \in Nat /\ old.forgotten \in Nat
          /\ "done" \in ReaderPhases
        BY <1>1, <1>4 DEF Reading, ReaderPhases
    <2>3. reader'[r] = [phase |-> "done", server |-> old.server, key |-> revision, generation |-> 0,
                        serverGeneration |-> 0, flight |-> None, purged |-> old.purged,
                        forgotten |-> old.forgotten]
        <3> HIDE DEF old
        <3> QED
            BY <1>1, <2>1 DEF Reading
    <2> HIDE DEF old
    <2> QED
        BY <2>2, <2>3 DEF Reading
<1>5. old.key \in Nat
    BY <1>1 DEF Reading
<1>6. ASSUME Lookup(r) \/ Forget(r) \/ Enter(r) \/ Refuse(r) \/ Keep(r) \/ Insert(r)
      PROVE  reader'[r] \in Reading /\ reader'[r].server \in Servers
    BY <1>3, <1>4, <1>5, <1>6 DEF Lookup, Forget, Enter, Refuse, Keep, Insert, At, ReaderPhases
<1>7. ASSUME Observe(r)
      PROVE  reader'[r] \in Reading /\ reader'[r].server \in Servers
    <2>1. CASE At(r, "observe")
        <3>1. reader'[r] = [old EXCEPT !.phase = "observe_server", !.generation = generation]
            BY <1>1, <1>7, <2>1 DEF Observe, At
        <3>2. "observe_server" \in ReaderPhases /\ generation \in Nat /\ old.phase # "idle"
            BY <2>1 DEF ReaderPhases, Typed, At
        <3>3. old.server \in Servers /\ old \in Reading
            BY <1>1, <3>2
        <3> HIDE DEF old
        <3> QED
            BY <3>1, <3>2, <3>3 DEF Reading
    <2>2. CASE At(r, "observe_server")
        <3>1. reader'[r] = [old EXCEPT !.phase = "join",
                                       !.serverGeneration = serverGeneration[Server(r)]]
            BY <1>1, <1>7, <2>2 DEF Observe, At
        <3>2. "join" \in ReaderPhases /\ serverGeneration[Server(r)] \in Nat /\ old.phase # "idle"
            BY <1>1, <2>2 DEF ReaderPhases, Typed, At, Server
        <3>3. old.server \in Servers /\ old \in Reading
            BY <1>1, <3>2
        <3> HIDE DEF old
        <3> QED
            BY <3>1, <3>2, <3>3 DEF Reading
    <2> QED
        BY <1>7, <2>1, <2>2 DEF Observe
<1>8. CASE Join(r)
    <2>1. PICK f \in Flights : reader' = [reader EXCEPT ![r].phase = "wait", ![r].flight = f]
        BY <1>8 DEF Join
    <2>2. reader'[r] = [old EXCEPT !.phase = "wait", !.flight = f]
        BY <1>1, <2>1
    <2> QED
        BY <1>1, <1>8, <2>2 DEF Reading, ReaderPhases, At, Join
<1>9. CASE LookAgain(r)
    <2>1. reader'[r] = [old EXCEPT !.phase = IF currentKey[Server(r)] = 0 THEN "load" ELSE "again_lookup",
                                   !.key = currentKey[Server(r)]]
        BY <1>1, <1>9 DEF LookAgain
    <2>2. currentKey[Server(r)] \in Nat
        BY <1>1, <1>9 DEF Typed, At, Server, LookAgain
    <2> QED
        BY <1>1, <1>9, <2>1, <2>2 DEF Reading, ReaderPhases, At, LookAgain
<1>10. CASE Load(r)
    <2>1. reader'[r] = [old EXCEPT !.phase = "push", !.key = committed[Server(r)]]
        BY <1>1, <1>10 DEF Load
    <2>2. committed[Server(r)] \in Nat
        BY <1>1, <1>10 DEF Typed, At, Server, Load
    <2> QED
        BY <1>1, <1>10, <2>1, <2>2 DEF Reading, ReaderPhases, At, Load
<1>11. CASE Abandon(r)
    BY <1>1, <1>11 DEF Abandon, Idle, Reading, ReaderPhases
<1>12. /\ reader' = [reader EXCEPT ![r] = reader'[r]]
       /\ UNCHANGED <<committed, serverGeneration, generation, writer, reset, history, resets>>
    BY <1>1 DEF Reads, Begin, Lookup, Forget, Observe, Join, Enter, LookAgain, Load, Abandon, Refuse,
                Keep, Insert, Goto, Answer
<1> QED
    BY <1>2, <1>6, <1>7, <1>8, <1>9, <1>10, <1>11, <1>12 DEF Reads, Idle

LEMMA TypedStep == Typed /\ [Next]_vars => Typed'
<1> SUFFICES ASSUME Typed, [Next]_vars
             PROVE  Typed'
    OBVIOUS
<1> USE DEF maps, history
<1>1. ASSUME NEW r \in Readers, Reads(r)
      PROVE  Typed'
    <2>1. /\ reader' = [reader EXCEPT ![r] = reader'[r]]
          /\ reader'[r] \in Reading
          /\ reader'[r].phase # "idle" => reader'[r].server \in Servers
          /\ UNCHANGED <<committed, serverGeneration, generation, writer, reset, history, resets>>
        BY <1>1, ReaderStep
    <2>2. /\ reader' \in [Readers -> Reading]
          /\ \A q \in Readers : reader'[q].phase # "idle" => reader'[q].server \in Servers
        BY <2>1 DEF Typed
    <2>3. /\ reader[r].key \in Nat
          /\ reader[r].phase # "idle" => Server(r) \in Servers
        BY DEF Typed, Reading, Server
    <2>4. raw' \in SUBSET Keys
        <3>1. CASE Keep(r)
            <4>1. Key(Server(r), reader[r].key) \in Keys
                BY <2>3, <3>1 DEF Keep, At, Key, Keys
            <4> QED
                BY <3>1, <4>1 DEF Keep, Typed
        <3>2. CASE ~Keep(r)
            BY <1>1, <3>2 DEF Reads, Begin, Lookup, Forget, Observe, Join, Enter, LookAgain, Load, Abandon,
                              Refuse, Insert, Typed
        <3> QED
            BY <3>1, <3>2
    <2>5. currentKey' \in [Servers -> Nat]
        <3>1. CASE Keep(r)
            BY <3>1 DEF Keep, Typed
        <3>2. CASE Forget(r) \/ Insert(r)
            BY <2>3, <3>2 DEF Forget, Insert, Typed, At
        <3>3. CASE ~(Keep(r) \/ Forget(r) \/ Insert(r))
            BY <1>1, <3>3 DEF Reads, Begin, Lookup, Observe, Join, Enter, LookAgain, Load, Abandon,
                              Refuse, Typed
        <3> QED
            BY <3>1, <3>2, <3>3
    <2>6. flight' \in [Servers -> Flights \cup {None}] /\ failures' \in Nat
        <3>1. CASE Join(r)
            <4>1. PICK f \in Flights : flight' = [flight EXCEPT ![Server(r)] = f]
                BY <3>1 DEF Join
            <4> QED
                BY <3>1, <4>1 DEF Join, Typed
        <3>2. CASE Abandon(r)
            BY <3>2 DEF Abandon, Fail, Typed
        <3>3. CASE ~(Join(r) \/ Abandon(r))
            BY <1>1, <3>3 DEF Reads, Begin, Lookup, Forget, Observe, Enter, LookAgain, Load, Keep,
                              Refuse, Insert, Typed
        <3> QED
            BY <3>1, <3>2, <3>3
    <2> QED
        BY <2>1, <2>2, <2>4, <2>5, <2>6 DEF Typed
<1>2. ASSUME NEW w \in Writers, NEW s \in Servers, Commit(w, s)
      PROVE  Typed'
    BY <1>2 DEF Commit, Typed
<1>3. ASSUME NEW w \in Writers, Purge(w) \/ ForgetKey(w) \/ ForgetFlight(w) \/ DropWriter(w)
      PROVE  Typed'
    <2> DEFINE was == writer[w]
    <2>1. /\ writer \in [Writers -> [phase : {"idle", "purge", "key", "flight"}, server : Servers \cup {None}]]
          /\ was.phase # "idle" /\ was.server \in Servers
        BY <1>3 DEF Typed, Purge, ForgetKey, ForgetFlight, DropWriter
    <2>2. PICK phase \in {"idle", "key", "flight"} : writer' = [writer EXCEPT ![w].phase = phase]
        BY <1>3 DEF Purge, ForgetKey, ForgetFlight, DropWriter
    <2>3. /\ writer' \in [Writers -> [phase : {"idle", "purge", "key", "flight"}, server : Servers \cup {None}]]
          /\ \A v \in Writers : writer'[v].phase # "idle" => writer'[v].server \in Servers
        BY <2>1, <2>2 DEF Typed
    <2>4. /\ raw' \in SUBSET Keys
          /\ serverGeneration' \in [Servers -> Nat] /\ purged' \in [Servers -> Nat]
          /\ currentKey' \in [Servers -> Nat] /\ flight' \in [Servers -> Flights \cup {None}]
          /\ failures' \in Nat
          /\ UNCHANGED <<committed, generation, reader, reset, forgotten, resets>>
        BY <1>3, <2>1 DEF Typed, Purge, ForgetKey, ForgetFlight, DropWriter, Fail
    <2> QED
        BY <2>3, <2>4 DEF Typed
<1>4. CASE ResetCatalogs
    BY <1>4 DEF ResetCatalogs, Typed
<1>5. CASE Clear
    BY <1>5 DEF Clear, Typed
<1>6. CASE ClearMaps
    BY <1>6 DEF ClearMaps, Typed
<1>7. CASE UNCHANGED vars
    BY <1>7 DEF vars, Typed
<1> QED
    BY <1>1, <1>2, <1>3, <1>4, <1>5, <1>6, <1>7 DEF Next, Reads

LEMMA AlwaysTyped == Spec => []Typed
BY TypedInit, TypedStep, PTL DEF Spec

-----------------------------------------------------------------------------
LEMMA BoundedStep == Typed /\ Bounded /\ [Next]_vars => Bounded'
<1> SUFFICES ASSUME Typed, Bounded, [Next]_vars
             PROVE  Bounded'
    OBVIOUS
<1> USE DEF maps, history
<1>1. ASSUME NEW r \in Readers, Keep(r)
      PROVE  Bounded'
    <2> DEFINE key == Key(Server(r), reader[r].key)
    <2>1. CASE key \notin raw /\ Cardinality(raw) < Capacity /\ raw' = raw \cup {key}
        <3>1. IsFiniteSet(raw') /\ Cardinality(raw') = Cardinality(raw) + 1
            BY <2>1, FS_AddElement DEF Bounded
        <3>2. Cardinality(raw) \in Nat
            BY FS_CardinalityType DEF Bounded
        <3> QED
            BY <2>1, <3>1, <3>2, CapacityAssumption DEF Bounded
    <2>2. ASSUME NEW dropped \in raw, raw' = (raw \ {dropped}) \cup {key},
                 IF key \in raw THEN dropped = key ELSE Cardinality(raw) = Capacity
          PROVE  Bounded'
        <3>1. IsFiniteSet(raw \ {dropped}) /\ Cardinality(raw \ {dropped}) = Cardinality(raw) - 1
            BY FS_RemoveElement DEF Bounded
        <3>2. key \notin raw \ {dropped}
            BY <2>2
        <3>3. IsFiniteSet(raw') /\ Cardinality(raw') = Cardinality(raw \ {dropped}) + 1
            BY <2>2, <3>1, <3>2, FS_AddElement
        <3>4. Cardinality(raw) \in Nat
            BY FS_CardinalityType DEF Bounded
        <3> QED
            BY <3>1, <3>3, <3>4 DEF Bounded
    <2> QED
        BY <1>1, <2>1, <2>2 DEF Keep
<1>2. CASE \A r \in Readers : ~Keep(r)
    <2>1. raw' \subseteq raw
        BY <1>2 DEF Next, vars, Begin, Lookup, Forget, Observe, Join, Enter, LookAgain, Load, Abandon, Refuse,
                    Insert, Commit, Purge, ForgetKey, ForgetFlight, DropWriter, ResetCatalogs, Clear, ClearMaps
    <2>2. IsFiniteSet(raw') /\ Cardinality(raw') <= Cardinality(raw)
        BY <2>1, FS_Subset DEF Bounded
    <2>3. Cardinality(raw) \in Nat /\ Cardinality(raw') \in Nat
        BY <2>2, FS_CardinalityType DEF Bounded
    <2> QED
        BY <2>2, <2>3, CapacityAssumption DEF Bounded
<1> QED
    BY <1>1, <1>2

(* The state keeps its type, and the cache never holds more than its capacity. *)
THEOREM CacheTypeCorrect == Spec => []TypeOK
<1>1. Init => Bounded
    BY FS_EmptySet, CapacityAssumption DEF Init, Bounded
<1>2. Typed /\ Bounded => TypeOK
    BY DEF Typed, Bounded, TypeOK, Reading
<1> QED
    BY <1>1, <1>2, BoundedStep, AlwaysTyped, PTL DEF Spec

-----------------------------------------------------------------------------
(* Two readers inside never share a flight. *)
Exclusion ==
    \A r, q \in Readers :
        r # q /\ reader[r].phase \in Guarded /\ reader[q].phase \in Guarded =>
            reader[r].flight # reader[q].flight

(* Who is inside after a step of a reader was there before, with its flight, or has just entered. *)
LEMMA GuardedBefore ==
    ASSUME Typed, NEW r \in Readers, Reads(r), reader'[r].phase \in Guarded
    PROVE  /\ reader'[r].flight = reader[r].flight
           /\ reader[r].phase \in Guarded \/ ~Locked(reader[r].flight)
<1>1. reader \in [Readers -> Reading]
    BY DEF Typed
<1>2. ASSUME NEW s \in Servers, Begin(r, s)
      PROVE  FALSE
    <2>1. reader'[r] = [Idle EXCEPT
            !.phase = IF currentKey[s] = 0 THEN "observe" ELSE "lookup",
            !.server = s, !.key = currentKey[s], !.purged = purged[s], !.forgotten = forgotten[s]]
        BY <1>1, <1>2 DEF Begin
    <2>2. reader'[r].phase \in {"observe", "lookup"}
        BY <2>1 DEF Idle
    <2> QED
        BY <2>2 DEF Guarded
<1>3. ASSUME NEW revision, Answer(r, revision)
      PROVE  FALSE
    BY <1>1, <1>3 DEF Answer, Guarded, Reading
<1>4. CASE Lookup(r) \/ Forget(r) \/ Keep(r)
    BY <1>1, <1>3, <1>4 DEF Lookup, Forget, Keep, Goto, At, Guarded, Reading
<1>5. CASE Observe(r) \/ Join(r) \/ Abandon(r) \/ Refuse(r) \/ Insert(r)
    BY <1>1, <1>3, <1>5 DEF Observe, Join, Abandon, Refuse, Insert, Guarded, Reading, Idle
<1>6. CASE Enter(r) \/ LookAgain(r) \/ Load(r)
    BY <1>1, <1>6 DEF Enter, LookAgain, Load, Goto, At, Guarded, Reading
<1> QED
    BY <1>2, <1>4, <1>5, <1>6 DEF Reads

LEMMA ExclusionStep == Typed /\ Exclusion /\ [Next]_vars => Exclusion'
<1> SUFFICES ASSUME Typed, Exclusion, [Next]_vars
             PROVE  Exclusion'
    OBVIOUS
<1>1. ASSUME NEW r \in Readers, Reads(r)
      PROVE  Exclusion'
    <2>1. reader' = [reader EXCEPT ![r] = reader'[r]]
        BY <1>1, ReaderStep
    <2>2. \A q \in Readers : q # r => reader'[q] = reader[q]
        BY <2>1 DEF Typed
    <2>3. reader'[r].phase \in Guarded =>
              /\ reader'[r].flight = reader[r].flight
              /\ reader[r].phase \in Guarded \/ ~Locked(reader[r].flight)
        BY <1>1, GuardedBefore
    <2> QED
        BY <2>2, <2>3 DEF Exclusion, Locked
<1>2. CASE \A r \in Readers : ~Reads(r)
    <2>1. reader' = reader
        BY <1>2 DEF Next, Reads, vars, Commit, Purge, ForgetKey, ForgetFlight, DropWriter, ResetCatalogs,
                    Clear, ClearMaps
    <2> QED
        BY <2>1 DEF Exclusion
<1> QED
    BY <1>1, <1>2

(* Two readers that load one server at a time do not both hold the server's flight: it was removed by *)
(* an invalidation or a reset after one of them had joined it. *)
THEOREM LoadsAreSingleFlight == Spec => []SingleFlight
<1>1. Init => Exclusion
    BY DEF Init, Exclusion, Idle, Guarded
<1>2. Typed /\ Exclusion => SingleFlight
    BY DEF Exclusion, SingleFlight, At, Guarded
<1> QED
    BY <1>1, <1>2, ExclusionStep, AlwaysTyped, PTL DEF Spec

-----------------------------------------------------------------------------
(* What was dropped from the cache had been committed. *)
Dropped ==
    /\ \A s \in Servers : purged[s] <= committed[s] /\ forgotten[s] <= committed[s]
    /\ reset # "idle" => resets > 0

(* No entry is older than what a reset, or without resets an invalidation, has dropped. *)
Entries ==
    \A k \in raw :
        /\ forgotten[k.server] <= k.revision
        /\ resets = 0 => purged[k.server] <= k.revision

(* What a reader noted is not ahead of the cache; what it answers is no older than what had been *)
(* dropped when it began; and if the generations it noted are still those of the cache, nothing *)
(* newer than what it loaded has been dropped since. *)
Sound(r) ==
    LET s == Server(r)
        x == reader[r]
    IN  x.phase # "idle" =>
            /\ x.forgotten <= forgotten[s] /\ x.purged <= purged[s]
            /\ x.generation <= generation
            /\ resets = 0 => x.serverGeneration <= serverGeneration[s]
            /\ x.phase \in {"push", "insert", "done"} =>
                   x.forgotten <= x.key /\ (resets = 0 => x.purged <= x.key)
            /\ x.phase = "push" /\ x.generation = generation => forgotten[s] <= x.key
            /\ x.phase = "push" /\ resets = 0 /\ x.serverGeneration = serverGeneration[s] =>
                   purged[s] <= x.key

Fresh == Dropped /\ Entries /\ \A r \in Readers : Sound(r)

LEMMA ReaderStaysSound ==
    ASSUME Typed, Fresh, NEW r \in Readers, Reads(r)
    PROVE  Sound(r)'
<1> DEFINE x == reader[r]
<1>1. /\ reader \in [Readers -> Reading] /\ x \in Reading
      /\ x.phase # "idle" => x.server \in Servers
    BY DEF Typed
<1>2. /\ x.key \in Nat /\ x.generation \in Nat /\ x.serverGeneration \in Nat
      /\ x.purged \in Nat /\ x.forgotten \in Nat
    BY <1>1 DEF Reading
<1>3. UNCHANGED <<committed, serverGeneration, generation, purged, forgotten, resets>>
    BY ReaderStep DEF history
<1>4. ASSUME NEW s \in Servers, Begin(r, s)
      PROVE  Sound(r)'
    <2>1. reader'[r] = [Idle EXCEPT
            !.phase = IF currentKey[s] = 0 THEN "observe" ELSE "lookup",
            !.server = s, !.key = currentKey[s], !.purged = purged[s], !.forgotten = forgotten[s]]
        BY <1>1, <1>4 DEF Begin
    <2>2. reader'[r] = [phase |-> IF currentKey[s] = 0 THEN "observe" ELSE "lookup",
                        server |-> s, key |-> currentKey[s], generation |-> 0, serverGeneration |-> 0,
                        flight |-> None, purged |-> purged[s], forgotten |-> forgotten[s]]
        BY <2>1 DEF Idle
    <2> QED
        BY <1>3, <2>2 DEF Typed, Sound, Server
<1>5. ASSUME NEW phase \in ReaderPhases \ {"push", "done", "idle"}, x.phase # "idle",
             phase = "insert" => x.phase = "push",
             Goto(r, phase)
      PROVE  Sound(r)'
    <2>1. reader'[r] = [x EXCEPT !.phase = phase]
        BY <1>1, <1>5 DEF Goto
    <2>2. /\ reader'[r].phase = phase /\ reader'[r].server = x.server /\ reader'[r].key = x.key
          /\ reader'[r].generation = x.generation /\ reader'[r].serverGeneration = x.serverGeneration
          /\ reader'[r].purged = x.purged /\ reader'[r].forgotten = x.forgotten
        <3> HIDE DEF x
        <3> QED
            BY <1>1, <2>1 DEF Reading
    <2> QED
        BY <1>3, <1>5, <2>2 DEF Fresh, Sound, Server
<1>6. ASSUME NEW revision \in Nat, x.phase # "idle", Answer(r, revision),
             x.forgotten <= revision, resets = 0 => x.purged <= revision
      PROVE  Sound(r)'
    <2>1. reader'[r] = [x EXCEPT !.phase = "done", !.key = revision, !.flight = None,
                                 !.generation = 0, !.serverGeneration = 0]
        BY <1>1, <1>6 DEF Answer
    <2>2. /\ reader'[r].phase = "done" /\ reader'[r].server = x.server /\ reader'[r].key = revision
          /\ reader'[r].generation = 0 /\ reader'[r].serverGeneration = 0
          /\ reader'[r].purged = x.purged /\ reader'[r].forgotten = x.forgotten
        <3> HIDE DEF x
        <3> QED
            BY <1>1, <2>1 DEF Reading
    <2>3. generation \in Nat /\ serverGeneration[Server(r)] \in Nat
        BY <1>1, <1>6 DEF Typed, Server
    <2> QED
        BY <1>3, <1>6, <2>2, <2>3 DEF Fresh, Sound, Server
<1>7. ASSUME x.phase # "idle", Found(r)
      PROVE  x.forgotten <= x.key /\ (resets = 0 => x.purged <= x.key)
    <2>1. /\ forgotten[Server(r)] <= x.key
          /\ resets = 0 => purged[Server(r)] <= x.key
        <3> DEFINE entry == Key(Server(r), x.key)
        <3>1. entry.server = Server(r) /\ entry.revision = x.key
            BY DEF Key
        <3>2. entry \in raw
            BY <1>7 DEF Found
        <3> HIDE DEF entry
        <3>3. forgotten[entry.server] <= entry.revision /\ (resets = 0 => purged[entry.server] <= entry.revision)
            BY <3>2 DEF Fresh, Entries
        <3> QED
            BY <3>1, <3>3
    <2>2. x.forgotten <= forgotten[Server(r)] /\ x.purged <= purged[Server(r)]
        BY <1>7 DEF Fresh, Sound
    <2>3. forgotten[Server(r)] \in Nat /\ purged[Server(r)] \in Nat
        BY <1>1, <1>7 DEF Typed, Server
    <2> QED
        BY <1>2, <2>1, <2>2, <2>3
<1>8. CASE Lookup(r)
    <2>1. CASE At(r, "lookup") /\ ~Found(r) /\ Goto(r, "forget")
        BY <1>5, <2>1 DEF At, ReaderPhases
    <2>2. CASE At(r, "again_lookup") /\ ~Found(r) /\ Goto(r, "again_forget")
        BY <1>5, <2>2 DEF At, ReaderPhases
    <2>3. CASE x.phase \in {"lookup", "again_lookup"} /\ Found(r) /\ Answer(r, x.key)
        BY <1>2, <1>6, <1>7, <2>3
    <2> QED
        BY <1>8, <2>1, <2>2, <2>3 DEF Lookup
<1>9. CASE Forget(r) \/ Enter(r)
    BY <1>5, <1>9 DEF Forget, Enter, At, ReaderPhases
<1>10. CASE Observe(r)
    <2>1. generation \in Nat /\ (x.phase # "idle" => serverGeneration[x.server] \in Nat)
        BY <1>1 DEF Typed
    <2>2. CASE At(r, "observe")
        <3>1. reader'[r] = [x EXCEPT !.phase = "observe_server", !.generation = generation]
            BY <1>1, <1>10, <2>2 DEF Observe, At
        <3>2. /\ reader'[r].phase = "observe_server" /\ reader'[r].server = x.server
              /\ reader'[r].generation = generation /\ reader'[r].serverGeneration = x.serverGeneration
              /\ reader'[r].purged = x.purged /\ reader'[r].forgotten = x.forgotten
            <4> HIDE DEF x
            <4> QED
                BY <1>1, <3>1 DEF Reading
        <3> QED
            BY <1>3, <2>1, <2>2, <3>2 DEF Fresh, Sound, Server, At
    <2>3. CASE At(r, "observe_server")
        <3>1. reader'[r] = [x EXCEPT !.phase = "join", !.serverGeneration = serverGeneration[Server(r)]]
            BY <1>1, <1>10, <2>3 DEF Observe, At
        <3>2. /\ reader'[r].phase = "join" /\ reader'[r].server = x.server
              /\ reader'[r].generation = x.generation
              /\ reader'[r].serverGeneration = serverGeneration[Server(r)]
              /\ reader'[r].purged = x.purged /\ reader'[r].forgotten = x.forgotten
            <4> HIDE DEF x
            <4> QED
                BY <1>1, <3>1 DEF Reading
        <3> QED
            BY <1>3, <2>1, <2>3, <3>2 DEF Fresh, Sound, Server, At
    <2> QED
        BY <1>10, <2>2, <2>3 DEF Observe
<1>11. CASE Join(r)
    <2>1. PICK f \in Flights : reader' = [reader EXCEPT ![r].phase = "wait", ![r].flight = f]
        BY <1>11 DEF Join
    <2>2. reader'[r] = [x EXCEPT !.phase = "wait", !.flight = f]
        BY <1>1, <2>1
    <2>3. /\ reader'[r].phase = "wait" /\ reader'[r].server = x.server
          /\ reader'[r].generation = x.generation /\ reader'[r].serverGeneration = x.serverGeneration
          /\ reader'[r].purged = x.purged /\ reader'[r].forgotten = x.forgotten
        <3> HIDE DEF x
        <3> QED
            BY <1>1, <2>2 DEF Reading
    <2> QED
        BY <1>3, <1>11, <2>3 DEF Fresh, Sound, Server, At, Join
<1>12. CASE LookAgain(r)
    <2>1. reader'[r] = [x EXCEPT !.phase = IF currentKey[Server(r)] = 0 THEN "load" ELSE "again_lookup",
                                 !.key = currentKey[Server(r)]]
        BY <1>1, <1>12 DEF LookAgain
    <2>2. /\ reader'[r].phase \in {"load", "again_lookup"} /\ reader'[r].server = x.server
          /\ reader'[r].generation = x.generation /\ reader'[r].serverGeneration = x.serverGeneration
          /\ reader'[r].purged = x.purged /\ reader'[r].forgotten = x.forgotten
        <3> HIDE DEF x
        <3> QED
            BY <1>1, <2>1 DEF Reading
    <2> QED
        BY <1>3, <1>12, <2>2 DEF Fresh, Sound, Server, At, LookAgain
<1>13. CASE Load(r)
    <2>1. reader'[r] = [x EXCEPT !.phase = "push", !.key = committed[Server(r)]]
        BY <1>1, <1>13 DEF Load
    <2>2. /\ reader'[r].phase = "push" /\ reader'[r].server = x.server
          /\ reader'[r].key = committed[Server(r)]
          /\ reader'[r].generation = x.generation /\ reader'[r].serverGeneration = x.serverGeneration
          /\ reader'[r].purged = x.purged /\ reader'[r].forgotten = x.forgotten
        <3> HIDE DEF x
        <3> QED
            BY <1>1, <2>1 DEF Reading
    <2>3. /\ x.phase # "idle" /\ Server(r) \in Servers
          /\ committed[Server(r)] \in Nat /\ purged[Server(r)] \in Nat /\ forgotten[Server(r)] \in Nat
        BY <1>1, <1>13 DEF Typed, Server, At, Load
    <2>4. purged[Server(r)] <= committed[Server(r)] /\ forgotten[Server(r)] <= committed[Server(r)]
        BY <2>3 DEF Fresh, Dropped
    <2>5. /\ x.forgotten <= forgotten[Server(r)] /\ x.purged <= purged[Server(r)]
          /\ x.generation <= generation
          /\ resets = 0 => x.serverGeneration <= serverGeneration[Server(r)]
        BY <2>3 DEF Fresh, Sound
    <2>6. Server(r)' = Server(r)
        BY <2>2 DEF Server
    <2> QED
        BY <1>2, <1>3, <2>2, <2>3, <2>4, <2>5, <2>6 DEF Sound
<1>14. CASE Abandon(r)
    BY <1>1, <1>14 DEF Abandon, Idle, Sound
<1>15. CASE Refuse(r) \/ Keep(r) \/ Insert(r)
    <2>1. /\ x.phase \in {"push", "insert"}
          /\ x.forgotten <= x.key /\ (resets = 0 => x.purged <= x.key)
        BY <1>15 DEF Refuse, Keep, Insert, At, Fresh, Sound
    <2>2. CASE Refuse(r) \/ Insert(r)
        BY <1>2, <1>6, <2>1, <2>2 DEF Refuse, Insert
    <2>3. CASE Keep(r)
        BY <1>5, <2>3 DEF Keep, At, ReaderPhases
    <2> QED
        BY <1>15, <2>2, <2>3
<1> QED
    BY <1>4, <1>8, <1>9, <1>10, <1>11, <1>12, <1>13, <1>14, <1>15 DEF Reads

(* Only a reader that keeps what it loaded adds an entry. *)
LEMMA EntriesStayFresh ==
    ASSUME Typed, Fresh, NEW r \in Readers, Reads(r)
    PROVE  Entries'
<1> DEFINE x == reader[r]
<1>1. UNCHANGED <<serverGeneration, generation, purged, forgotten, resets>>
    BY ReaderStep DEF history
<1>2. CASE Keep(r)
    <2>1. raw' \subseteq raw \cup {Key(Server(r), x.key)}
        BY <1>2 DEF Keep
    <2>2. /\ x.phase = "push"
          /\ x.generation = generation /\ x.serverGeneration = serverGeneration[Server(r)]
        BY <1>2 DEF Keep, Stale, At
    <2>3. /\ forgotten[Server(r)] <= x.key
          /\ resets = 0 => purged[Server(r)] <= x.key
        BY <2>2 DEF Fresh, Sound
    <2>4. Key(Server(r), x.key).server = Server(r) /\ Key(Server(r), x.key).revision = x.key
        BY DEF Key
    <2> HIDE DEF x
    <2> QED
        BY <1>1, <2>1, <2>3, <2>4 DEF Fresh, Entries
<1>3. CASE ~Keep(r)
    <2>1. raw' = raw
        BY <1>3 DEF Reads, Begin, Lookup, Forget, Observe, Join, Enter, LookAgain, Load, Abandon, Refuse,
                    Insert, maps
    <2> QED
        BY <1>1, <2>1 DEF Fresh, Entries
<1> QED
    BY <1>2, <1>3

LEMMA FreshStep == Typed /\ Fresh /\ [Next]_vars => Fresh'
<1> SUFFICES ASSUME Typed, Fresh, [Next]_vars
             PROVE  Fresh'
    OBVIOUS
<1> USE DEF maps, history
<1>1. ASSUME NEW r \in Readers, Reads(r)
      PROVE  Fresh'
    <2>1. /\ reader' = [reader EXCEPT ![r] = reader'[r]]
          /\ UNCHANGED <<committed, serverGeneration, generation, reset, purged, forgotten, resets>>
        BY <1>1, ReaderStep
    <2>2. \A q \in Readers : q # r => reader'[q] = reader[q]
        BY <2>1 DEF Typed
    <2>3. \A q \in Readers : q # r => Sound(q)'
        BY <2>1, <2>2 DEF Fresh, Sound, Server
    <2>4. Dropped'
        BY <2>1 DEF Fresh, Dropped
    <2> QED
        BY <1>1, <2>3, <2>4, ReaderStaysSound, EntriesStayFresh DEF Fresh
<1>2. ASSUME NEW r \in Readers
      PROVE  /\ reader[r].generation \in Nat /\ reader[r].serverGeneration \in Nat
             /\ reader[r].purged \in Nat /\ reader[r].forgotten \in Nat /\ reader[r].key \in Nat
             /\ reader[r].phase # "idle" => Server(r) \in Servers
    BY DEF Typed, Reading, Server
<1>3. ASSUME NEW w \in Writers, Purge(w)
      PROVE  Fresh'
    <2> DEFINE s == writer[w].server
    <2>1. s \in Servers
        BY <1>3 DEF Purge, Typed
    <2>2. /\ serverGeneration' = [serverGeneration EXCEPT ![s] = @ + 1]
          /\ raw' = {k \in raw : k.server # s}
          /\ purged' = [purged EXCEPT ![s] = committed[s]]
          /\ UNCHANGED <<committed, generation, reader, reset, forgotten, resets>>
        BY <1>3 DEF Purge
    <2> HIDE DEF s
    <2>3. Dropped'
        BY <2>1, <2>2 DEF Fresh, Dropped, Typed
    <2>4. Entries'
        <3>1. \A k \in raw' : k \in raw /\ purged'[k.server] = purged[k.server]
            BY <2>1, <2>2 DEF Typed
        <3> QED
            BY <2>2, <3>1 DEF Fresh, Entries
    <2>5. ASSUME NEW r \in Readers
          PROVE  Sound(r)'
        <3>1. CASE reader[r].phase = "idle"
            BY <2>2, <3>1 DEF Sound
        <3>2. CASE reader[r].phase # "idle" /\ Server(r) # s
            <4>1. /\ purged'[Server(r)] = purged[Server(r)]
                  /\ serverGeneration'[Server(r)] = serverGeneration[Server(r)]
                BY <1>2, <2>1, <2>2, <3>2 DEF Typed
            <4>2. Server(r)' = Server(r)
                BY <2>2 DEF Server
            <4> QED
                BY <2>2, <4>1, <4>2 DEF Fresh, Sound
        <3>3. CASE reader[r].phase # "idle" /\ Server(r) = s
            <4>1. /\ purged'[s] = committed[s] /\ serverGeneration'[s] = serverGeneration[s] + 1
                  /\ purged[s] <= committed[s]
                  /\ purged[s] \in Nat /\ committed[s] \in Nat /\ serverGeneration[s] \in Nat
                BY <2>1, <2>2 DEF Typed, Fresh, Dropped
            <4>2. Server(r)' = s
                BY <2>2, <3>3 DEF Server
            <4>3. Sound(r)
                BY DEF Fresh
            <4> QED
                BY <1>2, <2>2, <3>3, <4>1, <4>2, <4>3 DEF Sound
        <3> QED
            BY <3>1, <3>2, <3>3
    <2> QED
        BY <2>3, <2>4, <2>5 DEF Fresh
<1>4. CASE Clear
    <2>1. /\ generation' = generation + 1 /\ raw' = {} /\ forgotten' = committed
          /\ reset = "entries" /\ reset' = "keys"
          /\ UNCHANGED <<committed, serverGeneration, reader, purged, resets>>
        BY <1>4 DEF Clear
    <2>2. Dropped' /\ Entries'
        BY <2>1 DEF Fresh, Dropped, Entries, Typed
    <2>3. ASSUME NEW r \in Readers, reader[r].phase # "idle"
          PROVE  Sound(r)'
        <3>1. /\ forgotten[Server(r)] <= forgotten'[Server(r)]
              /\ forgotten'[Server(r)] \in Nat /\ forgotten[Server(r)] \in Nat /\ generation \in Nat
            BY <1>2, <2>1, <2>3 DEF Fresh, Dropped, Typed
        <3>2. Sound(r)
            BY DEF Fresh
        <3>3. Server(r)' = Server(r)
            BY <2>1 DEF Server
        <3> QED
            BY <1>2, <2>1, <2>3, <3>1, <3>2, <3>3 DEF Sound
    <2>4. \A r \in Readers : Sound(r)'
        BY <2>1, <2>3 DEF Sound
    <2> QED
        BY <2>2, <2>4 DEF Fresh
<1>5. CASE ClearMaps
    <2>1. /\ reset # "idle"
          /\ UNCHANGED <<committed, raw, generation, reader, purged, forgotten, resets>>
        BY <1>5 DEF ClearMaps
    <2>2. resets > 0
        BY <2>1 DEF Fresh, Dropped
    <2>3. resets # 0 /\ resets' # 0 /\ resets' > 0
        BY <2>1, <2>2 DEF Typed
    <2> QED
        BY <2>1, <2>3 DEF Fresh, Dropped, Entries, Sound, Server
<1>6. CASE ResetCatalogs
    <2>1. /\ resets' = resets + 1 /\ committed' = [s \in Servers |-> committed[s] + 1]
          /\ UNCHANGED <<raw, serverGeneration, generation, reader, purged, forgotten>>
        BY <1>6 DEF ResetCatalogs
    <2>2. resets' # 0 /\ resets' > 0
        BY <2>1 DEF Typed
    <2>3. Dropped'
        BY <2>1, <2>2 DEF Fresh, Dropped, Typed
    <2> QED
        BY <2>1, <2>2, <2>3 DEF Fresh, Entries, Sound, Server
<1>7. ASSUME NEW w \in Writers, NEW s \in Servers, Commit(w, s)
      PROVE  Fresh'
    <2>1. /\ committed' = [committed EXCEPT ![s] = @ + 1]
          /\ UNCHANGED <<raw, serverGeneration, generation, reader, reset, purged, forgotten, resets>>
        BY <1>7 DEF Commit
    <2>2. Dropped'
        BY <2>1 DEF Fresh, Dropped, Typed
    <2> QED
        BY <2>1, <2>2 DEF Fresh, Entries, Sound, Server
<1>8. ASSUME \/ UNCHANGED vars
             \/ \E w \in Writers : ForgetKey(w) \/ ForgetFlight(w) \/ DropWriter(w)
      PROVE  Fresh'
    <2>1. UNCHANGED <<committed, raw, serverGeneration, generation, reader, reset, purged, forgotten, resets>>
        BY <1>8 DEF vars, ForgetKey, ForgetFlight, DropWriter
    <2> QED
        BY <2>1 DEF Fresh, Dropped, Entries, Sound, Server
<1> QED
    BY <1>1, <1>3, <1>4, <1>5, <1>6, <1>7, <1>8 DEF Next, Reads

LEMMA AlwaysFresh == Spec => []Fresh
<1>1. Init => Fresh
    BY DEF Init, Fresh, Dropped, Entries, Sound, Idle
<1> QED
    BY <1>1, FreshStep, AlwaysTyped, PTL DEF Spec

(* A read that begins after a reset has emptied the cache answers with nothing older than what was *)
(* committed when it was emptied, whoever was loading at that moment. *)
THEOREM ResetIsRemembered == Spec => []ResetForgets
<1>1. Typed /\ Fresh => ResetForgets
    BY DEF Fresh, Sound, ResetForgets, At, Typed, Reading
<1> QED
    BY <1>1, AlwaysTyped, AlwaysFresh, PTL

(* While nobody resets the cache, a read that begins after an invalidation has purged its server *)
(* answers with nothing older than what was committed then. *)
THEOREM InvalidationIsRemembered == Spec => []FreshAfterInvalidation
<1>1. Typed /\ Fresh => FreshAfterInvalidation
    BY DEF Fresh, Sound, FreshAfterInvalidation, At, Typed, Reading
<1> QED
    BY <1>1, AlwaysTyped, AlwaysFresh, PTL
=============================================================================
