-------------------------- MODULE UpstreamServices --------------------------
(***************************************************************************)
(* What the connection pool promises of the services it starts, without    *)
(* attempts, routes, tokens or requests: an instance serves one service at *)
(* most, a service that is new when it is served first.  A service that is *)
(* not served any more may be retained for a while by whoever has to       *)
(* discard it, may be cancelled then, and is not served again.  Forgotten, *)
(* its name is free for a new one.                                         *)
(***************************************************************************)
CONSTANTS Instances, Services, None

VARIABLES
    serving,    \* the service that each instance serves, if any
    retained,   \* services that are known and that nobody serves
    cancelled   \* those of them whose token was cancelled

vars == <<serving, retained, cancelled>>

Init == serving = [i \in Instances |-> None] /\ retained = {} /\ cancelled = {}

Of(S) == {serving[i] : i \in S} \ {None}

\* Whoever retains a service forgets it at some time, and may cancel it before.
Discard(held) == retained' \subseteq held /\ cancelled' \subseteq retained'

\* Instance i serves a service that nobody knew; what it served is retained.
Serve(i) ==
    /\ serving'[i] \in Services \ (retained \cup Of(Instances))
    /\ serving' = [serving EXCEPT ![i] = serving'[i]]
    /\ Discard(retained \cup Of({i}))

\* Some instances serve no more.
Withdraw ==
    LET gone == {i \in Instances : serving'[i] = None}
    IN  /\ serving' = [i \in Instances |-> IF i \in gone THEN None ELSE serving[i]]
        /\ Discard(retained \cup Of(gone))

Next == Withdraw \/ \E i \in Instances : Serve(i)

Spec == Init /\ [][Next]_vars
=============================================================================
