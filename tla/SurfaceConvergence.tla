------------------------ MODULE SurfaceConvergence ------------------------
(***************************************************************************)
(* What the reconciliation of surfaces promises, without jobs, leases,     *)
(* workers or deliveries: a consumer's surface is compiled in one step     *)
(* from the catalog of that moment, a consumer that is behind the catalog  *)
(* catches up, and every publication is announced.                         *)
(***************************************************************************)
EXTENDS Integers

CONSTANTS Consumers, Servers

VARIABLES
    revision, touched,              \* the catalog: revisions, and the last that changed something
    relies, seen,                   \* what a consumer depends on and what it was compiled from
    generation, lastGeneration,     \* the bound generation (0: none) and the last one given out
    events, announced               \* the publications and those the consumers were told of

vars == <<revision, touched, relies, seen, generation, lastGeneration, events, announced>>

Init ==
    /\ revision = [s \in Servers |-> 1] /\ touched = [s \in Servers |-> 1]
    /\ relies \in [Consumers -> SUBSET Servers]
    /\ seen = [c \in Consumers |-> revision]
    /\ generation = [c \in Consumers |-> 1] /\ lastGeneration = [c \in Consumers |-> 1]
    /\ events = {} /\ announced = {}

Behind(c) == generation[c] > 0 /\ \E s \in relies[c] : seen[c][s] < touched[s]

(* The consumers in C get a generation nobody had before, each with its event. *)
Publish(C) ==
    /\ lastGeneration' = [c \in Consumers |-> lastGeneration[c] + IF c \in C THEN 1 ELSE 0]
    /\ generation' = [c \in Consumers |-> IF c \in C THEN lastGeneration'[c] ELSE generation[c]]
    /\ events' = events \cup
          {[consumer |-> c, generation |-> lastGeneration'[c], kind |-> "published"] : c \in C}

(* The catalog of s moves on; bound surfaces may be cut for it. *)
CatalogMoves(s) ==
    /\ revision' = [revision EXCEPT ![s] = @ + 1]
    /\ \/ /\ touched' = [touched EXCEPT ![s] = revision[s] + 1]
          /\ \E C \in SUBSET {c \in Consumers : generation[c] > 0} : Publish(C)
       \/ UNCHANGED <<touched, generation, lastGeneration, events>>
    /\ UNCHANGED <<relies, seen, announced>>

(* A compilation reads the whole catalog at once; without a binding it makes one. *)
Compile(C) ==
    /\ seen' = [c \in Consumers |-> IF c \in C THEN revision ELSE seen[c]]
    /\ \E P \in SUBSET C : {c \in C : generation[c] = 0} \subseteq P /\ Publish(P)
    /\ UNCHANGED <<revision, touched, announced>>

CatchUp(c) == generation[c] > 0 /\ Compile({c}) /\ UNCHANGED relies

Author(C) == Compile(C) /\ \E R \in SUBSET Servers : relies' = [c \in Consumers |-> IF c \in C THEN R ELSE relies[c]]

Rebind(c) ==
    /\ generation[c] > 0 /\ Publish({c})
    /\ UNCHANGED <<revision, touched, relies, seen, announced>>

Unbind(c) ==
    /\ generation[c] > 0
    /\ generation' = [generation EXCEPT ![c] = 0]
    /\ events' = events \cup {[consumer |-> c, generation |-> generation[c], kind |-> "revoked"]}
    /\ UNCHANGED <<revision, touched, relies, seen, lastGeneration, announced>>

Announce ==
    /\ \E e \in events : announced' = announced \cup {e}
    /\ UNCHANGED <<revision, touched, relies, seen, generation, lastGeneration, events>>

Next ==
    \/ \E s \in Servers : CatalogMoves(s)
    \/ \E c \in Consumers : CatchUp(c) \/ Rebind(c) \/ Unbind(c)
    \/ \E C \in SUBSET Consumers : Author(C)
    \/ Announce

(* A consumer that stays bound does not stay behind, and no event stays unannounced. *)
CatchesUp == \A c \in Consumers : Behind(c) ~> ~Behind(c)

AllAnnounced == (events # announced) ~> (events = announced)

Safety == Init /\ [][Next]_vars

Spec == Safety /\ CatchesUp /\ AllAnnounced
=============================================================================
