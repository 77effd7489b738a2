------------------------- MODULE PreviewOwnersProofs -------------------------
(***************************************************************************)
(* Proofs about the preview owners, for any number of subjects, previews,  *)
(* demands and launches, and whatever is rotated, closed or dropped.       *)
(*                                                                         *)
(* None of the properties is inductive alone: that nothing leaks needs     *)
(* that what is discarded is in no other place (Apart), which needs that a *)
(* published launch has no place yet (Registered), and so on; IInv is the  *)
(* conjunction that is.                                                    *)
(***************************************************************************)
EXTENDS PreviewOwners, TLAPS

Starting == {"unspawned", "connecting", "connected"}

(* A launch that is over is closed; any other is for some key and print. *)
Whole ==
    \A t \in Starts : IF start[t].phase = "over" THEN ~start[t].open
                      ELSE start[t].key \in Keys /\ start[t].print \in Prints

(* What is in a place, or to be discarded, was published and not discarded, for the key of that place. *)
Placed ==
    /\ \A k \in Keys : owner[k].svc # None =>
          start[owner[k].svc].phase = "live" /\ start[owner[k].svc].key = k
    /\ route.svc # None => start[route.svc].phase = "live" /\ start[route.svc].key = ServerKey
    /\ route.status = "ready" => route.svc # None
    /\ \A p \in Previews : \A t \in preview[p].todo : start[t].phase = "live"

(* Nothing is in two places. *)
Apart ==
    /\ \A k \in Keys : owner[k].svc # None => owner[k].svc # route.svc
    /\ \A k \in Keys, p \in Previews : owner[k].svc \notin preview[p].todo
    /\ \A p \in Previews : route.svc \notin preview[p].todo
    /\ \A p, q \in Previews : \A t \in preview[p].todo : t \in preview[q].todo => p = q

(* The registered attempts are launches that are not over, each for its own key. *)
Registered ==
    /\ \A k \in Keys : attempt[k] # None =>
          /\ start[attempt[k]].phase \in Starting /\ start[attempt[k]].key = k
          /\ attempt[k] # startup /\ owner[k].svc = None
    /\ startup # None => start[startup].phase \in {"connecting", "connected"}
                         /\ start[startup].key = ServerKey

(* What a preview has planned is still to be had when it comes to it. *)
Planned ==
    /\ \A p \in Previews :
          /\ preview[p].pc # "idle" => preview[p].key \in Keys /\ preview[p].print \in Prints
          /\ preview[p].pc \in {"discard", "wait", "discover"} => preview[p].at \in Starts
          /\ preview[p].plan # "none" \/ preview[p].todo # {} => preview[p].pc = "discard"
          /\ preview[p].plan = "spawn" => start[preview[p].at].phase = "unspawned"
          /\ "discover" \in {preview[p].plan, preview[p].pc} /\ start[preview[p].at].phase # "over" =>
                    start[preview[p].at].key = preview[p].key /\ start[preview[p].at].print = preview[p].print
    /\ \A p, q \in Previews :
          preview[p].plan = "spawn" /\ preview[q].plan = "spawn" /\ preview[p].at = preview[q].at => p = q

IInv ==
    /\ TypeOK /\ Whole /\ Placed /\ Apart /\ Registered /\ Planned
    /\ NothingLeaks /\ AttemptsAreUnderWay /\ OwnersAreCollected

-----------------------------------------------------------------------------
(* The records, for the lemmas that follow. *)
OwnerRec == [svc : Starts \cup {None}, expired : BOOLEAN, armed : BOOLEAN, early : BOOLEAN]

StartRec == [phase : {"over", "unspawned", "connecting", "connected", "live"},
             key : Keys \cup {None}, print : Prints \cup {None}, open : BOOLEAN,
             outcome : {"none", "published", "failed", "superseded"}]

PreviewRec == [pc : {"idle", "acquire", "discard", "wait", "discover"},
               key : Keys \cup {None}, print : Prints \cup {None},
               at : Starts \cup {None}, plan : {"none", "discover", "wait", "spawn"},
               todo : SUBSET Starts]

LEMMA ArmedOwner ==
    ASSUME NEW r \in OwnerRec
    PROVE  /\ [r EXCEPT !.armed = TRUE] \in OwnerRec
           /\ [r EXCEPT !.armed = TRUE].svc = r.svc /\ [r EXCEPT !.armed = TRUE].armed = TRUE
           /\ [r EXCEPT !.armed = TRUE].expired = r.expired
BY DEF OwnerRec

LEMMA PhasedStart ==
    ASSUME NEW r \in StartRec, NEW x \in {"over", "unspawned", "connecting", "connected", "live"}
    PROVE  /\ [r EXCEPT !.phase = x] \in StartRec
           /\ [r EXCEPT !.phase = x].phase = x /\ [r EXCEPT !.phase = x].key = r.key
           /\ [r EXCEPT !.phase = x].print = r.print /\ [r EXCEPT !.phase = x].open = r.open
           /\ [r EXCEPT !.phase = x].outcome = r.outcome
BY DEF StartRec

LEMMA ToldStart ==
    ASSUME NEW r \in StartRec, NEW x \in {"none", "published", "failed", "superseded"}
    PROVE  /\ [r EXCEPT !.outcome = x] \in StartRec
           /\ [r EXCEPT !.outcome = x].phase = r.phase /\ [r EXCEPT !.outcome = x].key = r.key
           /\ [r EXCEPT !.outcome = x].print = r.print /\ [r EXCEPT !.outcome = x].open = r.open
BY DEF StartRec

LEMMA OverStart ==
    ASSUME NEW x \in {"none", "published", "failed", "superseded"}
    PROVE  /\ [Over EXCEPT !.outcome = x] \in StartRec /\ [Over EXCEPT !.outcome = x].phase = "over"
           /\ [Over EXCEPT !.outcome = x].open = FALSE
BY DEF StartRec, Over

(* What Carry does, field by field. *)
Carries(p, plan, t, todo, owners, starts) ==
    /\ preview' \in [Previews -> PreviewRec]
    /\ owner' \in [Keys -> OwnerRec]
    /\ start' \in [Starts -> StartRec]
    /\ \A q \in Previews \ {p} : preview'[q] = preview[q]
    /\ preview'[p].key = preview[p].key /\ preview'[p].print = preview[p].print
    /\ preview'[p].at = t /\ preview'[p].todo = todo
    /\ IF todo # {} THEN preview'[p].pc = "discard" /\ preview'[p].plan = plan
       ELSE /\ preview'[p].plan = "none"
            /\ preview'[p].pc = IF plan = "discover" THEN "discover" ELSE "wait"
    /\ \A k \in Keys :
          /\ owner'[k].svc = owners[k].svc
          /\ owner'[k].armed = (owners[k].armed \/
                 (todo = {} /\ plan = "discover" /\ k = preview[p].key /\ t # None /\ owners[k].svc = t))
    /\ \A u \in Starts :
          /\ start'[u].phase = IF todo = {} /\ plan = "spawn" /\ u = t THEN "connecting" ELSE starts[u].phase
          /\ start'[u].key = starts[u].key /\ start'[u].print = starts[u].print
          /\ start'[u].open = starts[u].open

LEMMA CarryLeads ==
    ASSUME TypeOK, NEW p \in Previews, NEW plan \in {"none", "discover", "wait", "spawn"}, NEW t \in Starts \cup {None},
           NEW todo \in SUBSET Starts, NEW owners \in [Keys -> OwnerRec], NEW starts \in [Starts -> StartRec],
           Carry(p, plan, t, todo, owners, starts)
    PROVE  Carries(p, plan, t, todo, owners, starts)
<1> USE NoneAssumption
<1>t. preview \in [Previews -> PreviewRec] BY DEF TypeOK, PreviewRec
<1>1. CASE todo # {}
  <2>1. preview' = [preview EXCEPT ![p].pc = "discard", ![p].plan = plan, ![p].at = t, ![p].todo = todo]
        /\ owner' = owners /\ start' = starts
    BY <1>1 DEF Carry
  <2>2. preview'[p] = [preview[p] EXCEPT !.pc = "discard", !.plan = plan, !.at = t, !.todo = todo]
    BY <2>1, <1>t
  <2>3. preview[p] \in PreviewRec BY <1>t
  <2>4. /\ preview'[p] \in PreviewRec
        /\ preview'[p].key = preview[p].key /\ preview'[p].print = preview[p].print
        /\ preview'[p].at = t /\ preview'[p].todo = todo /\ preview'[p].pc = "discard" /\ preview'[p].plan = plan
    BY <2>2, <2>3 DEF PreviewRec
  <2>5. \A q \in Previews \ {p} : preview'[q] = preview[q] BY <2>1, <1>t
  <2>6. preview' \in [Previews -> PreviewRec] BY <2>1, <2>4, <2>5, <1>t
  <2>7. \A k \in Keys : owners[k].armed \in BOOLEAN BY DEF OwnerRec
  <2> QED BY <1>1, <2>1, <2>4, <2>5, <2>6, <2>7 DEF Carries
<1>2. CASE todo = {}
  <2> DEFINE pc == IF plan = "discover" THEN "discover" ELSE "wait"
  <2>1. preview' = [preview EXCEPT ![p].pc = pc, ![p].plan = "none", ![p].at = t, ![p].todo = {}]
    BY <1>2 DEF Carry
  <2>2. preview'[p] = [preview[p] EXCEPT !.pc = pc, !.plan = "none", !.at = t, !.todo = {}]
    BY <2>1, <1>t
  <2>3. preview[p] \in PreviewRec BY <1>t
  <2>4. /\ preview'[p] \in PreviewRec
        /\ preview'[p].key = preview[p].key /\ preview'[p].print = preview[p].print
        /\ preview'[p].at = t /\ preview'[p].todo = {} /\ preview'[p].pc = pc /\ preview'[p].plan = "none"
    BY <2>2, <2>3 DEF PreviewRec
  <2>5. \A q \in Previews \ {p} : preview'[q] = preview[q] BY <2>1, <1>t
  <2>6. preview' \in [Previews -> PreviewRec] BY <2>1, <2>4, <2>5, <1>t
  <2>7. /\ owner' \in [Keys -> OwnerRec]
        /\ \A k \in Keys :
              /\ owner'[k].svc = owners[k].svc
              /\ owner'[k].armed = (owners[k].armed \/
                    (plan = "discover" /\ k = preview[p].key /\ t # None /\ owners[k].svc = t))
    <3>1. CASE plan # "discover" \/ t = None \/ owners[preview[p].key].svc # t
      <4>1. owner' = owners BY <1>2, <3>1 DEF Carry, Armed
      <4>2. \A k \in Keys : owners[k].armed \in BOOLEAN BY DEF OwnerRec
      <4> QED BY <4>1, <4>2, <3>1
    <3>2. CASE plan = "discover" /\ t # None /\ owners[preview[p].key].svc = t
      <4>1. owner' = [owners EXCEPT ![preview[p].key].armed = TRUE] BY <1>2, <3>2 DEF Carry, Armed
      <4>2. \A k \in Keys : owner'[k] = IF k = preview[p].key THEN [owners[k] EXCEPT !.armed = TRUE] ELSE owners[k]
        BY <4>1
      <4>3. \A k \in Keys : owners[k] \in OwnerRec OBVIOUS
      <4>0. \A k \in Keys : owners[k].armed \in BOOLEAN BY DEF OwnerRec
      <4>4. \A k \in Keys : owner'[k] \in OwnerRec /\ owner'[k].svc = owners[k].svc
                           /\ owner'[k].armed = (owners[k].armed \/ k = preview[p].key)
        <5> TAKE k \in Keys
        <5>1. owners[k] \in OwnerRec /\ owners[k].armed \in BOOLEAN BY <4>0, <4>3
        <5>2. CASE k = preview[p].key BY <4>2, <5>1, <5>2, ArmedOwner
        <5>3. CASE k # preview[p].key BY <4>2, <5>1, <5>3
        <5> QED BY <5>2, <5>3
      <4>5. owner' \in [Keys -> OwnerRec] BY <4>1, <4>4
      <4> QED BY <4>4, <4>5, <3>2
    <3> QED BY <3>1, <3>2
  <2>8. /\ start' \in [Starts -> StartRec]
        /\ \A u \in Starts :
              /\ start'[u].phase = IF plan = "spawn" /\ u = t THEN "connecting" ELSE starts[u].phase
              /\ start'[u].key = starts[u].key /\ start'[u].print = starts[u].print
              /\ start'[u].open = starts[u].open
    <3>1. CASE plan # "spawn"
      BY <1>2, <3>1 DEF Carry
    <3>2. CASE plan = "spawn"
      <4>1. start' = [starts EXCEPT ![t].phase = "connecting"] BY <1>2, <3>2 DEF Carry
      <4>2. \A u \in Starts : start'[u] = IF u = t THEN [starts[u] EXCEPT !.phase = "connecting"] ELSE starts[u]
        BY <4>1
      <4>3. \A u \in Starts : starts[u] \in StartRec OBVIOUS
      <4>4. \A u \in Starts : /\ start'[u] \in StartRec
                              /\ start'[u].phase = IF u = t THEN "connecting" ELSE starts[u].phase
                              /\ start'[u].key = starts[u].key /\ start'[u].print = starts[u].print
                              /\ start'[u].open = starts[u].open
        <5> TAKE u \in Starts
        <5>1. starts[u] \in StartRec BY <4>3
        <5>2. CASE u = t
          <6>1. start'[u] = [starts[u] EXCEPT !.phase = "connecting"] BY <4>2, <5>2
          <6> QED BY <6>1, <5>1, <5>2 DEF StartRec
        <5>3. CASE u # t BY <4>2, <5>1, <5>3
        <5> QED BY <5>2, <5>3
      <4>5. start' \in [Starts -> StartRec] BY <4>1, <4>4
      <4> QED BY <4>4, <4>5, <3>2
    <3> QED BY <3>1, <3>2
  <2> QED BY <1>2, <2>4, <2>5, <2>6, <2>7, <2>8 DEF Carries
<1> QED BY <1>1, <1>2

(* What the acquisitions have in common: the registry gives up owners, and they are what is to be *)
(* discarded. *)
Sweeps(p, plan, t, todo, owners) ==
    /\ \A k \in Keys : owners[k].svc \in {owner[k].svc, None}
    /\ \A u \in Starts : u \in todo <=> \E k \in Keys : owner[k].svc = u /\ owners[k].svc = None
    /\ \A k \in Keys : owners[k].svc # None =>
          owners[k].armed = owner[k].armed \/ (plan = "discover" /\ k = preview[p].key /\ t = owners[k].svc)

(* The launches stay what they are, but for what waiters are told, and for the new one of a plan to spawn. *)
Launches(p, plan, t, starts) ==
    /\ \A u \in Starts : ~(plan = "spawn" /\ u = t) =>
          /\ starts[u].phase = start[u].phase /\ starts[u].key = start[u].key
          /\ starts[u].print = start[u].print /\ starts[u].open = start[u].open
    /\ plan = "spawn" => /\ Fresh(t) /\ starts[t].phase = "unspawned"
                         /\ starts[t].key = preview[p].key /\ starts[t].print = preview[p].print

Registers(p, plan, t, owners) ==
    /\ attempt' \in [Keys -> Starts \cup {None}]
    /\ \A k \in Keys : attempt'[k] \in {attempt[k], None} \/ (plan = "spawn" /\ k = preview[p].key)
    /\ plan = "spawn" => attempt'[preview[p].key] = t
    /\ \A k \in Keys : attempt'[k] # None => owners[k].svc = None
    /\ plan = "discover" /\ start[t].phase # "over" =>
          start[t].key = preview[p].key /\ start[t].print = preview[p].print

(* An acquisition keeps the invariant. *)
LEMMA AcquireKeeps ==
    ASSUME IInv, NEW p \in Previews, preview[p].pc = "acquire",
           NEW plan \in {"discover", "wait", "spawn"}, NEW t \in Starts,
           NEW todo \in SUBSET Starts, NEW owners \in [Keys -> OwnerRec], NEW starts \in [Starts -> StartRec],
           Carries(p, plan, t, todo, owners, starts), Sweeps(p, plan, t, todo, owners),
           Launches(p, plan, t, starts), Registers(p, plan, t, owners),
           UNCHANGED <<demand, route, startup, config, literal, spent>>
    PROVE  IInv'
<1> USE NoneAssumption
<1>a. /\ preview[p].plan = "none" /\ preview[p].todo = {} /\ preview[p].key \in Keys
      /\ preview[p].print \in Prints
  BY DEF IInv, Planned
<1>b. \A u \in Starts : start[u].phase # "over" =>
         /\ start'[u].phase = start[u].phase /\ start'[u].key = start[u].key
         /\ start'[u].print = start[u].print /\ start'[u].open = start[u].open
  BY DEF Carries, Launches, Fresh
<1>c. \A u \in Starts : start'[u].phase = "over" => start[u].phase = "over" /\ start'[u].open = start[u].open
  BY DEF Carries, Launches
<1>d. \A u \in Starts : start'[u].phase = "live" => start[u].phase = "live"
  BY DEF Carries, Launches
<1>e. plan = "spawn" =>
         /\ start'[t].phase = IF todo = {} THEN "connecting" ELSE "unspawned"
         /\ start'[t].key = preview[p].key /\ start'[t].print = preview[p].print
         /\ start[t].phase = "over" /\ startup # t
         /\ \A k \in Keys : attempt[k] # t
         /\ \A q \in Previews : preview[q].at # t
  BY DEF Carries, Launches, Fresh, Held
<1>f. /\ \A u \in Starts : start'[u].phase # "over" /\ ~(plan = "spawn" /\ u = t) => start[u].phase # "over"
      /\ \A u \in Starts : ~(plan = "spawn" /\ u = t) => start'[u].phase = start[u].phase
  BY DEF Carries, Launches
<1>g. /\ \A k \in Keys : owner'[k].svc = owners[k].svc /\ owner'[k].svc \in {owner[k].svc, None}
      /\ \A q \in Previews \ {p} : preview'[q] = preview[q]
      /\ preview'[p].key = preview[p].key /\ preview'[p].print = preview[p].print
      /\ preview'[p].at = t /\ preview'[p].todo = todo
      /\ todo # {} => preview'[p].pc = "discard" /\ preview'[p].plan = plan
      /\ todo = {} => preview'[p].plan = "none" /\ preview'[p].pc = IF plan = "discover" THEN "discover" ELSE "wait"
  BY DEF Carries, Sweeps
<1>h. \A u \in todo : \E k \in Keys : owner[k].svc = u /\ owner'[k].svc = None
  BY <1>g DEF Sweeps
<1>1. TypeOK'
  BY DEF IInv, TypeOK, Carries, Registers, OwnerRec, StartRec, PreviewRec
<1>2. Whole'
  <2> SUFFICES ASSUME NEW u \in Starts
               PROVE  IF start'[u].phase = "over" THEN ~start'[u].open
                      ELSE start'[u].key \in Keys /\ start'[u].print \in Prints
    BY DEF Whole
  <2>1. CASE start'[u].phase = "over" BY <2>1, <1>c DEF IInv, Whole
  <2>2. CASE start'[u].phase # "over" /\ plan = "spawn" /\ u = t BY <2>2, <1>e, <1>a
  <2>3. CASE start'[u].phase # "over" /\ ~(plan = "spawn" /\ u = t) BY <2>3, <1>b, <1>f DEF IInv, Whole
  <2> QED BY <2>1, <2>2, <2>3
<1>3. Placed'
  <2>1. \A k \in Keys : owner'[k].svc # None =>
            start'[owner'[k].svc].phase = "live" /\ start'[owner'[k].svc].key = k
    BY <1>g, <1>b DEF IInv, Placed, TypeOK
  <2>2. route.svc # None => start'[route.svc].phase = "live" /\ start'[route.svc].key = ServerKey
    BY <1>b DEF IInv, Placed, TypeOK
  <2>3. \A q \in Previews : \A u \in preview'[q].todo : start'[u].phase = "live"
    <3> SUFFICES ASSUME NEW q \in Previews, NEW u \in preview'[q].todo PROVE start'[u].phase = "live"
      OBVIOUS
    <3>1. CASE q = p
      <4>1. PICK k \in Keys : owner[k].svc = u BY <3>1, <1>g, <1>h
      <4> QED BY <4>1, <3>1, <1>g, <1>b DEF IInv, Placed
    <3>2. CASE q # p
      <4>1. u \in preview[q].todo BY <3>2, <1>g
      <4>2. u \in Starts BY <4>1 DEF IInv, TypeOK
      <4> QED BY <4>1, <4>2, <1>b DEF IInv, Placed
    <3> QED BY <3>1, <3>2
  <2> QED BY <2>1, <2>2, <2>3 DEF Placed, IInv
<1>4. Apart'
  <2>1. \A k \in Keys : owner'[k].svc # None => owner'[k].svc # route.svc
    BY <1>g DEF IInv, Apart
  <2>2. \A k \in Keys, q \in Previews : owner'[k].svc \notin preview'[q].todo
    <3> SUFFICES ASSUME NEW k \in Keys, NEW q \in Previews, owner'[k].svc \in preview'[q].todo PROVE FALSE
      OBVIOUS
    <3>0. owner'[k].svc # None /\ owner'[k].svc = owner[k].svc
      BY <1>g, <1>1 DEF TypeOK
    <3>1. CASE q = p
      <4>1. PICK j \in Keys : owner[j].svc = owner'[k].svc /\ owner'[j].svc = None BY <3>1, <1>g, <1>h
      <4>2. j = k BY <4>1, <3>0 DEF IInv, Placed
      <4> QED BY <4>1, <4>2, <3>0
    <3>2. CASE q # p BY <3>0, <3>2, <1>g DEF IInv, Apart
    <3> QED BY <3>1, <3>2
  <2>3. \A q \in Previews : route.svc \notin preview'[q].todo
    <3> SUFFICES ASSUME NEW q \in Previews, route.svc \in preview'[q].todo PROVE FALSE
      OBVIOUS
    <3>1. CASE q = p
      <4>1. PICK j \in Keys : owner[j].svc = route.svc BY <3>1, <1>g, <1>h
      <4>2. route.svc # None BY <1>1 DEF TypeOK
      <4> QED BY <4>1, <4>2 DEF IInv, Apart
    <3>2. CASE q # p BY <3>2, <1>g DEF IInv, Apart
    <3> QED BY <3>1, <3>2
  <2>4. \A q, r \in Previews : \A u \in preview'[q].todo : u \in preview'[r].todo => q = r
    <3> SUFFICES ASSUME NEW q \in Previews, NEW r \in Previews, NEW u, u \in preview'[q].todo, u \in preview'[r].todo
                 PROVE  q = r
      OBVIOUS
    <3>1. CASE q # p /\ r # p BY <3>1, <1>g DEF IInv, Apart
    <3>2. CASE q = p /\ r # p
      <4>1. PICK j \in Keys : owner[j].svc = u BY <3>2, <1>g, <1>h
      <4> QED BY <4>1, <3>2, <1>g DEF IInv, Apart
    <3>3. CASE q # p /\ r = p
      <4>1. PICK j \in Keys : owner[j].svc = u BY <3>3, <1>g, <1>h
      <4> QED BY <4>1, <3>3, <1>g DEF IInv, Apart
    <3> QED BY <3>1, <3>2, <3>3
  <2> QED BY <2>1, <2>2, <2>3, <2>4 DEF Apart
<1>5. Registered'
  <2>1. \A k \in Keys : attempt'[k] # None =>
            /\ start'[attempt'[k]].phase \in Starting /\ start'[attempt'[k]].key = k
            /\ attempt'[k] # startup /\ owner'[k].svc = None
    <3> SUFFICES ASSUME NEW k \in Keys, attempt'[k] # None
                 PROVE  /\ start'[attempt'[k]].phase \in Starting /\ start'[attempt'[k]].key = k
                        /\ attempt'[k] # startup /\ owner'[k].svc = None
      OBVIOUS
    <3>0. owner'[k].svc = None BY <1>g DEF Registers
    <3>1. CASE plan = "spawn" /\ k = preview[p].key
      BY <3>0, <3>1, <1>e DEF Registers, Starting
    <3>2. CASE ~(plan = "spawn" /\ k = preview[p].key)
      <4>1. attempt'[k] = attempt[k] /\ attempt[k] \in Starts BY <3>2 DEF Registers, IInv, TypeOK
      <4> QED BY <3>0, <4>1, <1>b DEF IInv, Registered, Starting
    <3> QED BY <3>1, <3>2
  <2>2. startup # None => /\ start'[startup].phase \in {"connecting", "connected"}
                          /\ start'[startup].key = ServerKey
    BY <1>b DEF IInv, Registered, TypeOK
  <2> QED BY <2>1, <2>2 DEF Registered
<1>6. Planned'
  <2>1. ASSUME NEW q \in Previews
        PROVE  /\ preview'[q].pc # "idle" => preview'[q].key \in Keys /\ preview'[q].print \in Prints
               /\ preview'[q].pc \in {"discard", "wait", "discover"} => preview'[q].at \in Starts
               /\ preview'[q].plan # "none" \/ preview'[q].todo # {} => preview'[q].pc = "discard"
               /\ preview'[q].plan = "spawn" => start'[preview'[q].at].phase = "unspawned"
               /\ "discover" \in {preview'[q].plan, preview'[q].pc} /\ start'[preview'[q].at].phase # "over" =>
                      /\ start'[preview'[q].at].key = preview'[q].key
                      /\ start'[preview'[q].at].print = preview'[q].print
    <3>1. CASE q = p
      <4>1. /\ preview'[p].key \in Keys /\ preview'[p].print \in Prints /\ preview'[p].at \in Starts
            /\ preview'[p].plan # "none" \/ preview'[p].todo # {} => preview'[p].pc = "discard"
            /\ preview'[p].plan = "spawn" => start'[preview'[p].at].phase = "unspawned"
        BY <1>a, <1>e, <1>g
      <4>2. "discover" \in {preview'[p].plan, preview'[p].pc} => plan = "discover"
        BY <1>g
      <4>3. plan = "discover" /\ start'[t].phase # "over" =>
               start'[t].key = preview[p].key /\ start'[t].print = preview[p].print
        BY <1>b, <1>f DEF Registers
      <4> QED BY <3>1, <4>1, <4>2, <4>3, <1>g
    <3>2. CASE q # p
      <4>0. preview'[q] = preview[q] BY <3>2, <1>g
      <4>1. preview[q].at \in Starts \/ preview[q].pc \notin {"discard", "wait", "discover"}
        BY DEF IInv, Planned
      <4>2. /\ preview[q].plan = "spawn" => start'[preview[q].at].phase = "unspawned"
            /\ "discover" \in {preview[q].plan, preview[q].pc} /\ start'[preview[q].at].phase # "over" =>
                   start'[preview[q].at].key = preview[q].key /\ start'[preview[q].at].print = preview[q].print
        BY <4>1, <1>b, <1>e, <1>f DEF IInv, Planned
      <4> QED BY <4>0, <4>2 DEF IInv, Planned
    <3> QED BY <3>1, <3>2
  <2>2. \A q, r \in Previews :
           preview'[q].plan = "spawn" /\ preview'[r].plan = "spawn" /\ preview'[q].at = preview'[r].at => q = r
    <3>1. preview'[p].plan = "spawn" => plan = "spawn" BY <1>g
    <3> QED BY <3>1, <1>e, <1>g DEF IInv, Planned
  <2> QED BY <2>1, <2>2 DEF Planned
<1>7. NothingLeaks'
  <2> SUFFICES ASSUME NEW u \in Starts, start'[u].phase = "live"
               PROVE  \/ route.svc = u
                      \/ \E k \in Keys : owner'[k].svc = u
                      \/ \E q \in Previews : u \in preview'[q].todo
    BY DEF NothingLeaks
  <2>1. start[u].phase = "live" BY <1>d
  <2>2. CASE route.svc = u BY <2>2
  <2>3. CASE \E k \in Keys : owner[k].svc = u
    <3>1. PICK k \in Keys : owner[k].svc = u BY <2>3
    <3>2. CASE owner'[k].svc = u BY <3>2
    <3>3. CASE owner'[k].svc # u
      <4>1. owners[k].svc = None BY <3>1, <3>3, <1>g
      <4>2. u \in todo BY <3>1, <4>1 DEF Sweeps
      <4> QED BY <4>2, <1>g
    <3> QED BY <3>2, <3>3
  <2>4. CASE \E q \in Previews : u \in preview[q].todo
    <3>1. PICK q \in Previews : u \in preview[q].todo BY <2>4
    <3>2. q # p BY <3>1, <1>a
    <3> QED BY <3>1, <3>2, <1>g
  <2> QED BY <2>1, <2>2, <2>3, <2>4 DEF IInv, NothingLeaks
<1>8. AttemptsAreUnderWay'
  <2> SUFFICES ASSUME spent.drops = 0, NEW k \in Keys, attempt'[k] # None
               PROVE  \/ start'[attempt'[k]].phase \in {"connecting", "connected"}
                      \/ \E q \in Previews : /\ preview'[q].pc = "discard" /\ preview'[q].plan = "spawn"
                                             /\ preview'[q].at = attempt'[k]
    BY DEF AttemptsAreUnderWay
  <2>1. CASE plan = "spawn" /\ k = preview[p].key
    <3>1. attempt'[k] = t BY <2>1 DEF Registers
    <3>2. CASE todo = {} BY <2>1, <3>1, <3>2, <1>e
    <3>3. CASE todo # {} BY <2>1, <3>1, <3>3, <1>g
    <3> QED BY <3>2, <3>3
  <2>2. CASE ~(plan = "spawn" /\ k = preview[p].key)
    <3>1. attempt'[k] = attempt[k] /\ attempt[k] \in Starts BY <2>2 DEF Registers, IInv, TypeOK
    <3>2. CASE start[attempt[k]].phase \in {"connecting", "connected"} BY <3>1, <3>2, <1>b
    <3>3. CASE \E q \in Previews : /\ preview[q].pc = "discard" /\ preview[q].plan = "spawn"
                                   /\ preview[q].at = attempt[k]
      <4>1. PICK q \in Previews : /\ preview[q].pc = "discard" /\ preview[q].plan = "spawn"
                                  /\ preview[q].at = attempt[k]
        BY <3>3
      <4>2. q # p BY <4>1
      <4> QED BY <4>1, <4>2, <3>1, <1>g
    <3> QED BY <3>1, <3>2, <3>3 DEF IInv, AttemptsAreUnderWay
  <2> QED BY <2>1, <2>2
<1>9. OwnersAreCollected'
  <2> SUFFICES ASSUME spent.drops = 0, NEW k \in Keys, owner'[k].svc # None
               PROVE  \/ owner'[k].armed
                      \/ \E q \in Previews : preview'[q].plan = "discover" /\ preview'[q].at = owner'[k].svc
    BY DEF OwnersAreCollected
  <2>0. owner'[k].svc = owner[k].svc /\ owners[k].svc = owner[k].svc /\ owner[k].svc # None BY <1>g
  <2>1. CASE plan = "discover" /\ k = preview[p].key /\ t = owners[k].svc
    <3>1. CASE todo = {} BY <2>0, <2>1, <3>1 DEF Carries
    <3>2. CASE todo # {} BY <2>0, <2>1, <3>2, <1>g
    <3> QED BY <3>1, <3>2
  <2>2. CASE ~(plan = "discover" /\ k = preview[p].key /\ t = owners[k].svc)
    <3>1. owners[k].armed = owner[k].armed BY <2>0, <2>2 DEF Sweeps
    <3>2. owner[k].armed => owner'[k].armed BY <3>1 DEF Carries
    <3>3. CASE \E q \in Previews : preview[q].plan = "discover" /\ preview[q].at = owner[k].svc
      <4>1. PICK q \in Previews : preview[q].plan = "discover" /\ preview[q].at = owner[k].svc BY <3>3
      <4>2. q # p BY <4>1, <1>a
      <4> QED BY <4>1, <4>2, <2>0, <1>g
    <3> QED BY <2>0, <3>2, <3>3 DEF IInv, OwnersAreCollected
  <2> QED BY <2>1, <2>2
<1> QED BY <1>1, <1>2, <1>3, <1>4, <1>5, <1>6, <1>7, <1>8, <1>9 DEF IInv

-----------------------------------------------------------------------------
(* What the registry and the launches become. *)
LEMMA SweptOwners ==
    ASSUME TypeOK
    PROVE  /\ Swept \in [Keys -> OwnerRec]
           /\ \A k \in Keys : /\ Swept[k].svc = IF owner[k].expired THEN None ELSE owner[k].svc
                              /\ ~owner[k].expired => Swept[k] = owner[k]
<1>1. owner \in [Keys -> OwnerRec] BY DEF TypeOK, OwnerRec
<1>2. NoOwner \in OwnerRec /\ NoOwner.svc = None BY DEF NoOwner, OwnerRec
<1> QED BY <1>1, <1>2 DEF Swept

LEMMA TakenStarts ==
    ASSUME TypeOK, NEW p \in Previews
    PROVE  Taken(p) \in SUBSET Starts
BY DEF TypeOK, Taken

LEMMA RemainingSweeps ==
    ASSUME IInv, NEW p \in Previews, preview[p].pc = "acquire", ~Reusable(p),
           NEW plan, NEW t
    PROVE  /\ Remaining(p) \in [Keys -> OwnerRec] /\ Remaining(p)[preview[p].key].svc = None
           /\ Sweeps(p, plan, t, Taken(p), Remaining(p))
<1> USE NoneAssumption
<1>1. TypeOK /\ preview[p].key \in Keys BY DEF IInv, Planned
<1>2. NoOwner \in OwnerRec /\ NoOwner.svc = None BY DEF NoOwner, OwnerRec
<1>3. /\ Swept \in [Keys -> OwnerRec]
      /\ \A k \in Keys : /\ Swept[k].svc = IF owner[k].expired THEN None ELSE owner[k].svc
                         /\ ~owner[k].expired => Swept[k] = owner[k]
  BY <1>1, SweptOwners
<1>4. /\ Remaining(p) \in [Keys -> OwnerRec]
      /\ \A k \in Keys : Remaining(p)[k] = IF k = preview[p].key THEN NoOwner ELSE Swept[k]
  BY <1>1, <1>2, <1>3 DEF Remaining
<1>5. \A k \in Keys : owner[k].expired \in BOOLEAN /\ owner[k].svc \in Starts \cup {None}
  BY <1>1 DEF TypeOK
<1>6. \A k \in Keys : Remaining(p)[k].svc = IF k = preview[p].key \/ owner[k].expired THEN None ELSE owner[k].svc
  BY <1>2, <1>3, <1>4
<1>7. \A u \in Starts : u \in Taken(p) <=> \E k \in Keys : owner[k].svc = u /\ Remaining(p)[k].svc = None
  BY <1>5, <1>6 DEF Taken
<1>8. \A k \in Keys : Remaining(p)[k].svc # None => Remaining(p)[k].armed = owner[k].armed
  BY <1>2, <1>3, <1>4, <1>6
<1> QED BY <1>1, <1>2, <1>4, <1>6, <1>7, <1>8 DEF Sweeps

LEMMA ToldStarts ==
    ASSUME NEW starts \in [Starts -> StartRec], NEW t, NEW outcome \in {"none", "published", "failed", "superseded"}
    PROVE  /\ Told(starts, t, outcome) \in [Starts -> StartRec]
           /\ \A u \in Starts :
                 /\ Told(starts, t, outcome)[u].phase = starts[u].phase /\ Told(starts, t, outcome)[u].key = starts[u].key
                 /\ Told(starts, t, outcome)[u].print = starts[u].print /\ Told(starts, t, outcome)[u].open = starts[u].open
<1>1. \A u \in Starts : starts[u] \in StartRec OBVIOUS
<1>2. \A u \in Starts :
         LET r == IF u = t THEN [starts[u] EXCEPT !.outcome = outcome] ELSE starts[u]
         IN  /\ r \in StartRec /\ r.phase = starts[u].phase /\ r.key = starts[u].key
             /\ r.print = starts[u].print /\ r.open = starts[u].open
  BY <1>1, ToldStart
<1> QED BY <1>2 DEF Told

LEMMA DiscardedStarts ==
    ASSUME NEW starts \in [Starts -> StartRec], NEW gone
    PROVE  /\ Discarded(starts, gone) \in [Starts -> StartRec]
           /\ \A u \in Starts : IF u \in gone
                 THEN Discarded(starts, gone)[u].phase = "over" /\ ~Discarded(starts, gone)[u].open
                 ELSE Discarded(starts, gone)[u] = starts[u]
<1>1. \A u \in Starts : starts[u] \in StartRec /\ starts[u].outcome \in {"none", "published", "failed", "superseded"}
  BY DEF StartRec
<1>2. \A u \in Starts : /\ [Over EXCEPT !.outcome = starts[u].outcome] \in StartRec
                        /\ [Over EXCEPT !.outcome = starts[u].outcome].phase = "over"
                        /\ ~[Over EXCEPT !.outcome = starts[u].outcome].open
  BY <1>1, OverStart
<1> QED BY <1>1, <1>2 DEF Discarded

LEMMA SupersededStarts ==
    ASSUME TypeOK, NEW p \in Previews
    PROVE  /\ Superseded(p) \in [Starts -> StartRec]
           /\ \A u \in Starts :
                 /\ Superseded(p)[u].phase = start[u].phase /\ Superseded(p)[u].key = start[u].key
                 /\ Superseded(p)[u].print = start[u].print /\ Superseded(p)[u].open = start[u].open
<1>1. start \in [Starts -> StartRec] BY DEF TypeOK, StartRec
<1> QED BY <1>1, ToldStarts DEF Superseded

-----------------------------------------------------------------------------
(* The acquisitions. *)
LEMMA ReuseKeeps ==
    ASSUME IInv, NEW p \in Previews, Reuse(p)
    PROVE  IInv'
<1> USE NoneAssumption
<1> DEFINE k == preview[p].key
           entry == owner[k]
           owners == [Swept EXCEPT ![k] = [entry EXCEPT !.armed = FALSE, !.early = entry.early \/ entry.armed]]
<1>0. TypeOK /\ k \in Keys /\ preview[p].pc = "acquire" /\ Reusable(p) BY DEF Reuse, IInv, Planned
<1>1. /\ Swept \in [Keys -> OwnerRec]
      /\ \A j \in Keys : /\ Swept[j].svc = IF owner[j].expired THEN None ELSE owner[j].svc
                         /\ ~owner[j].expired => Swept[j] = owner[j]
  BY <1>0, SweptOwners
<1>2. entry \in OwnerRec BY <1>0 DEF TypeOK, OwnerRec
<1>3. [entry EXCEPT !.armed = FALSE, !.early = entry.early \/ entry.armed] \in OwnerRec
      /\ [entry EXCEPT !.armed = FALSE, !.early = entry.early \/ entry.armed].svc = entry.svc
  BY <1>2 DEF OwnerRec
<1>4. entry.svc \in Starts /\ ~entry.expired /\ start[entry.svc].print = preview[p].print
  BY <1>0, <1>1, <1>2 DEF Reusable, Open, Runs, OwnerRec
<1>5. /\ owners \in [Keys -> OwnerRec]
      /\ \A j \in Keys : owners[j].svc = IF owner[j].expired THEN None ELSE owner[j].svc
      /\ \A j \in Keys \ {k} : owners[j] = Swept[j]
  BY <1>0, <1>1, <1>3, <1>4
<1>6. Carry(p, "discover", entry.svc, Taken(p), owners, start) BY DEF Reuse
<1>6a. attempt' = attempt /\ UNCHANGED <<demand, route, startup, config, literal, spent>> BY DEF Reuse
<1> HIDE DEF owners
<1>7. Taken(p) \in SUBSET Starts BY <1>0, TakenStarts
<1>8. start \in [Starts -> StartRec] BY <1>0 DEF TypeOK, StartRec
<1>9. Carries(p, "discover", entry.svc, Taken(p), owners, start)
  BY <1>0, <1>4, <1>5, <1>6, <1>7, <1>8, CarryLeads
<1>10. Sweeps(p, "discover", entry.svc, Taken(p), owners)
  <2>1. \A j \in Keys : owners[j].svc \in {owner[j].svc, None} BY <1>5
  <2>2. \A u \in Starts : u \in Taken(p) <=> \E j \in Keys : owner[j].svc = u /\ owners[j].svc = None
    BY <1>0, <1>5 DEF Taken
  <2>3. \A j \in Keys : owners[j].svc # None => owners[j].armed = owner[j].armed \/ (j = k /\ entry.svc = owners[j].svc)
    BY <1>1, <1>5
  <2> QED BY <2>1, <2>2, <2>3 DEF Sweeps
<1>11. Launches(p, "discover", entry.svc, start) BY DEF Launches
<1>12. Registers(p, "discover", entry.svc, owners)
  <2>1. attempt \in [Keys -> Starts \cup {None}] BY <1>0 DEF TypeOK
  <2>2. \A j \in Keys : attempt[j] # None => owners[j].svc = None BY <1>5 DEF IInv, Registered
  <2>3. start[entry.svc].key = k BY <1>0, <1>4 DEF IInv, Placed
  <2> QED BY <2>1, <2>2, <2>3, <1>4, <1>6a DEF Registers
<1> QED BY <1>0, <1>4, <1>5, <1>6a, <1>7, <1>8, <1>9, <1>10, <1>11, <1>12, AcquireKeeps

LEMMA JoinPreviewKeeps ==
    ASSUME IInv, NEW p \in Previews, JoinPreview(p)
    PROVE  IInv'
<1> USE NoneAssumption
<1> DEFINE t == attempt[preview[p].key]
<1>0. TypeOK /\ preview[p].key \in Keys /\ preview[p].pc = "acquire" /\ ~Reusable(p)
  BY DEF JoinPreview, IInv, Planned
<1>1. t \in Starts BY <1>0 DEF JoinPreview, Joinable, Runs, TypeOK
<1>2. Carry(p, "wait", t, Taken(p), Remaining(p), start) /\ attempt' = attempt
      /\ UNCHANGED <<demand, route, startup, config, literal, spent>>
  BY DEF JoinPreview
<1> HIDE DEF t
<1>3. Taken(p) \in SUBSET Starts BY <1>0, TakenStarts
<1>4. start \in [Starts -> StartRec] BY <1>0 DEF TypeOK, StartRec
<1>5. /\ Remaining(p) \in [Keys -> OwnerRec] /\ Remaining(p)[preview[p].key].svc = None
      /\ Sweeps(p, "wait", t, Taken(p), Remaining(p))
  BY <1>0, RemainingSweeps
<1>6. Carries(p, "wait", t, Taken(p), Remaining(p), start)
  BY <1>0, <1>1, <1>2, <1>3, <1>4, <1>5, CarryLeads
<1>7. Launches(p, "wait", t, start) BY DEF Launches
<1>8. Registers(p, "wait", t, Remaining(p))
  <2>1. attempt \in [Keys -> Starts \cup {None}] BY <1>0 DEF TypeOK
  <2>2. \A j \in Keys : attempt[j] # None => Remaining(p)[j].svc = None BY <1>5 DEF IInv, Registered, Sweeps
  <2> QED BY <2>1, <2>2, <1>2 DEF Registers
<1> QED BY <1>0, <1>1, <1>2, <1>3, <1>4, <1>5, <1>6, <1>7, <1>8, AcquireKeeps

LEMMA UseProductionKeeps ==
    ASSUME IInv, NEW p \in Previews, UseProduction(p)
    PROVE  IInv'
<1> USE NoneAssumption
<1> DEFINE plan == IF AsProduction(p) THEN "discover" ELSE "wait"
           t == IF AsProduction(p) THEN route.svc ELSE startup
<1>0. TypeOK /\ preview[p].key \in Keys /\ preview[p].pc = "acquire" /\ ~Reusable(p)
  BY DEF UseProduction, Acquires, IInv, Planned
<1>1. t \in Starts
  BY <1>0 DEF UseProduction, AsProduction, StartingInProduction, Open, Runs, TypeOK
<1>2. Carry(p, plan, t, Taken(p), Remaining(p), Superseded(p))
      /\ attempt' = [attempt EXCEPT ![preview[p].key] = None]
      /\ UNCHANGED <<demand, route, startup, config, literal, spent>>
  BY DEF UseProduction
<1>3. plan = "discover" => start[t].key = preview[p].key /\ start[t].print = preview[p].print
  BY <1>1 DEF AsProduction, Runs, IInv, Placed
<1>3a. plan \in {"discover", "wait"} OBVIOUS
<1> HIDE DEF t, plan
<1>4. Taken(p) \in SUBSET Starts BY <1>0, TakenStarts
<1>5. /\ Superseded(p) \in [Starts -> StartRec]
      /\ \A u \in Starts :
            /\ Superseded(p)[u].phase = start[u].phase /\ Superseded(p)[u].key = start[u].key
            /\ Superseded(p)[u].print = start[u].print /\ Superseded(p)[u].open = start[u].open
  BY <1>0, SupersededStarts
<1>6. /\ Remaining(p) \in [Keys -> OwnerRec] /\ Remaining(p)[preview[p].key].svc = None
      /\ Sweeps(p, plan, t, Taken(p), Remaining(p))
  BY <1>0, RemainingSweeps
<1>7. Carries(p, plan, t, Taken(p), Remaining(p), Superseded(p))
  BY <1>0, <1>1, <1>2, <1>3a, <1>4, <1>5, <1>6, CarryLeads
<1>8. Launches(p, plan, t, Superseded(p)) BY <1>3a, <1>5 DEF Launches
<1>9. Registers(p, plan, t, Remaining(p))
  <2>1. attempt \in [Keys -> Starts \cup {None}] BY <1>0 DEF TypeOK
  <2>2. \A j \in Keys : attempt[j] # None => Remaining(p)[j].svc = None BY <1>6 DEF IInv, Registered, Sweeps
  <2> QED BY <2>1, <2>2, <1>2, <1>3, <1>3a DEF Registers
<1> QED BY <1>0, <1>1, <1>2, <1>3a, <1>4, <1>5, <1>6, <1>7, <1>8, <1>9, AcquireKeeps

LEMMA OwnKeeps ==
    ASSUME IInv, NEW p \in Previews, NEW t \in Starts, Own(p, t)
    PROVE  IInv'
<1> USE NoneAssumption
<1> DEFINE k == preview[p].key
           starts == [Superseded(p) EXCEPT ![t] = Launch(k, preview[p].print, "unspawned")]
<1>0. TypeOK /\ k \in Keys /\ preview[p].print \in Prints /\ preview[p].pc = "acquire" /\ ~Reusable(p) /\ Fresh(t)
  BY DEF Own, Acquires, IInv, Planned
<1>1. Carry(p, "spawn", t, Taken(p), Remaining(p), starts) /\ attempt' = [attempt EXCEPT ![k] = t]
      /\ UNCHANGED <<demand, route, startup, config, literal, spent>>
  BY DEF Own
<1>2. /\ Superseded(p) \in [Starts -> StartRec]
      /\ \A u \in Starts :
            /\ Superseded(p)[u].phase = start[u].phase /\ Superseded(p)[u].key = start[u].key
            /\ Superseded(p)[u].print = start[u].print /\ Superseded(p)[u].open = start[u].open
  BY <1>0, SupersededStarts
<1>3. /\ Launch(k, preview[p].print, "unspawned") \in StartRec
      /\ Launch(k, preview[p].print, "unspawned").phase = "unspawned"
      /\ Launch(k, preview[p].print, "unspawned").key = k
      /\ Launch(k, preview[p].print, "unspawned").print = preview[p].print
  BY <1>0 DEF Launch, Over, StartRec
<1>4. /\ starts \in [Starts -> StartRec]
      /\ \A u \in Starts : starts[u] = IF u = t THEN Launch(k, preview[p].print, "unspawned") ELSE Superseded(p)[u]
  BY <1>2, <1>3
<1> HIDE DEF starts
<1>5. Launches(p, "spawn", t, starts) BY <1>0, <1>2, <1>3, <1>4 DEF Launches
<1>6. Taken(p) \in SUBSET Starts BY <1>0, TakenStarts
<1>7. /\ Remaining(p) \in [Keys -> OwnerRec] /\ Remaining(p)[preview[p].key].svc = None
      /\ Sweeps(p, "spawn", t, Taken(p), Remaining(p))
  BY <1>0, RemainingSweeps
<1>8. Carries(p, "spawn", t, Taken(p), Remaining(p), starts)
  BY <1>0, <1>1, <1>4, <1>6, <1>7, CarryLeads
<1>9. Registers(p, "spawn", t, Remaining(p))
  <2>1. attempt \in [Keys -> Starts \cup {None}] BY <1>0 DEF TypeOK
  <2>2. \A j \in Keys : attempt[j] # None => Remaining(p)[j].svc = None BY <1>7 DEF IInv, Registered, Sweeps
  <2> QED BY <2>1, <2>2, <1>0, <1>1, <1>7 DEF Registers
<1> QED BY <1>0, <1>1, <1>4, <1>5, <1>6, <1>7, <1>8, <1>9, AcquireKeeps

-----------------------------------------------------------------------------
(* The other steps of a preview. *)
LEMMA NothingMoves ==
    ASSUME IInv, TypeOK', UNCHANGED <<owner, attempt, start, preview, startup>>,
           route'.svc = route.svc, route'.status = "ready" => route.status = "ready",
           spent'.drops = spent.drops
    PROVE  IInv'
<1>1. Whole' /\ Placed' /\ Apart' /\ Registered' /\ Planned'
  BY DEF IInv, Whole, Placed, Apart, Registered, Planned
<1>2. NothingLeaks' /\ AttemptsAreUnderWay' /\ OwnersAreCollected'
  BY DEF IInv, NothingLeaks, AttemptsAreUnderWay, OwnersAreCollected
<1> QED BY <1>1, <1>2 DEF IInv

LEMMA PreviewRests ==
    ASSUME IInv, TypeOK', NEW p \in Previews, preview[p].pc # "discard",
           \A q \in Previews \ {p} : preview'[q] = preview[q],
           preview'[p].plan = "none", preview'[p].todo = {}, preview'[p].pc \in {"idle", "acquire"},
           preview'[p].pc = "acquire" => preview'[p].key \in Keys /\ preview'[p].print \in Prints,
           UNCHANGED <<owner, attempt, start, route, startup>>, spent'.drops = spent.drops
    PROVE  IInv'
<1>0. preview[p].plan = "none" /\ preview[p].todo = {} BY DEF IInv, Planned
<1>1. Whole' /\ Registered' BY DEF IInv, Whole, Registered
<1>2. Placed' BY DEF IInv, Placed
<1>3. Apart' BY DEF IInv, Apart
<1>4. Planned'
  <2>1. \A q \in Previews :
          /\ preview'[q].pc # "idle" => preview'[q].key \in Keys /\ preview'[q].print \in Prints
          /\ preview'[q].pc \in {"discard", "wait", "discover"} => preview'[q].at \in Starts
          /\ preview'[q].plan # "none" \/ preview'[q].todo # {} => preview'[q].pc = "discard"
          /\ preview'[q].plan = "spawn" => start[preview'[q].at].phase = "unspawned"
          /\ "discover" \in {preview'[q].plan, preview'[q].pc} /\ start[preview'[q].at].phase # "over" =>
                 start[preview'[q].at].key = preview'[q].key /\ start[preview'[q].at].print = preview'[q].print
    <3> TAKE q \in Previews
    <3>1. CASE q = p BY <3>1
    <3>2. CASE q # p
      <4>1. preview'[q] = preview[q] BY <3>2
      <4> QED BY <4>1 DEF IInv, Planned
    <3> QED BY <3>1, <3>2
  <2>2. \A q, r \in Previews :
          preview'[q].plan = "spawn" /\ preview'[r].plan = "spawn" /\ preview'[q].at = preview'[r].at => q = r
    BY DEF IInv, Planned
  <2> QED BY <2>1, <2>2 DEF Planned
<1>5. NothingLeaks' BY <1>0 DEF IInv, NothingLeaks
<1>6. AttemptsAreUnderWay' BY <1>0 DEF IInv, AttemptsAreUnderWay
<1>7. OwnersAreCollected' BY <1>0 DEF IInv, OwnersAreCollected
<1> QED BY <1>1, <1>2, <1>3, <1>4, <1>5, <1>6, <1>7 DEF IInv

LEMMA AsleepPreview ==
    /\ Asleep \in PreviewRec /\ Asleep.pc = "idle" /\ Asleep.plan = "none" /\ Asleep.todo = {}
BY DEF Asleep, PreviewRec

LEMMA AskKeeps ==
    ASSUME IInv, NEW p \in Previews, NEW k \in Keys, NEW f \in Prints, Ask(p, k, f)
    PROVE  IInv'
<1> DEFINE asking == [Asleep EXCEPT !.pc = "acquire", !.key = k, !.print = f]
<1>1. /\ asking \in PreviewRec /\ asking.pc = "acquire" /\ asking.key = k /\ asking.print = f
      /\ asking.plan = "none" /\ asking.todo = {}
  BY DEF Asleep, PreviewRec
<1>2. preview \in [Previews -> PreviewRec] BY DEF IInv, TypeOK, PreviewRec
<1>3. preview[p].pc = "idle" /\ preview' = [preview EXCEPT ![p] = asking]
      /\ UNCHANGED <<owner, attempt, start, demand, route, startup, config, literal>>
  BY DEF Ask
<1> HIDE DEF asking
<1>4. preview' \in [Previews -> PreviewRec] /\ preview'[p] = asking
      /\ \A q \in Previews \ {p} : preview'[q] = preview[q]
  BY <1>1, <1>2, <1>3
<1>5. spent' \in [requests : Nat, rotations : Nat, faults : Nat, drops : Nat] /\ spent'.drops = spent.drops
  <2>1. TypeOK /\ Spend("requests", MaxRequests) BY DEF Ask, IInv
  <2>2. spent \in [requests : Nat, rotations : Nat, faults : Nat, drops : Nat]
        /\ spent' = [spent EXCEPT !["requests"] = @ + 1]
    BY <2>1 DEF TypeOK, Spend
  <2> QED BY <2>2
<1>6. TypeOK' BY <1>3, <1>4, <1>5 DEF IInv, TypeOK, PreviewRec
<1> QED BY <1>1, <1>3, <1>4, <1>5, <1>6, PreviewRests

LEMMA HeardKeeps ==
    ASSUME IInv, NEW p \in Previews, Heard(p) \/ Discovered(p)
    PROVE  IInv'
<1>1. preview \in [Previews -> PreviewRec] BY DEF IInv, TypeOK, PreviewRec
<1>2. preview[p].pc \in {"wait", "discover"} BY DEF Heard, Discovered
<1>3. preview[p].key \in Keys /\ preview[p].print \in Prints BY <1>2 DEF IInv, Planned
<1>4. UNCHANGED <<owner, attempt, start, demand, route, startup, config, literal, spent>> BY DEF Heard, Discovered
<1>5. PICK r \in {Asleep, [Asleep EXCEPT !.pc = "acquire", !.key = preview[p].key, !.print = preview[p].print]} :
         preview' = [preview EXCEPT ![p] = r]
  BY DEF Heard, Discovered
<1> DEFINE again == [Asleep EXCEPT !.pc = "acquire", !.key = preview[p].key, !.print = preview[p].print]
<1>a. /\ again \in PreviewRec /\ again.pc = "acquire" /\ again.plan = "none" /\ again.todo = {}
      /\ again.key = preview[p].key /\ again.print = preview[p].print
  BY <1>3 DEF Asleep, PreviewRec
<1>b. r \in {Asleep, again} BY <1>5
<1> HIDE DEF again
<1>6. /\ r \in PreviewRec /\ r.pc \in {"idle", "acquire"} /\ r.plan = "none" /\ r.todo = {}
      /\ r.pc = "acquire" => r.key \in Keys /\ r.print \in Prints
  BY <1>3, <1>a, <1>b, AsleepPreview
<1>7. preview' \in [Previews -> PreviewRec] /\ preview'[p] = r
      /\ \A q \in Previews \ {p} : preview'[q] = preview[q]
  BY <1>1, <1>5, <1>6
<1>8. TypeOK' BY <1>4, <1>7 DEF IInv, TypeOK, PreviewRec
<1> QED BY <1>2, <1>4, <1>6, <1>7, <1>8, PreviewRests

LEMMA DropKeeps ==
    ASSUME IInv, NEW p \in Previews, Drop(p)
    PROVE  IInv'
<1> USE NoneAssumption
<1> DEFINE gone == preview[p].todo
<1>1. preview \in [Previews -> PreviewRec] /\ start \in [Starts -> StartRec]
  BY DEF IInv, TypeOK, PreviewRec, StartRec
<1>2. start' = Discarded(start, gone) /\ preview' = [preview EXCEPT ![p] = Asleep]
      /\ UNCHANGED <<owner, attempt, demand, route, startup, config, literal>>
  BY DEF Drop
<1>3. /\ start' \in [Starts -> StartRec]
      /\ \A u \in Starts : IF u \in gone THEN start'[u].phase = "over" /\ ~start'[u].open
                           ELSE start'[u] = start[u]
  BY <1>1, <1>2, DiscardedStarts
<1>4. /\ preview' \in [Previews -> PreviewRec] /\ preview'[p] = Asleep
      /\ \A q \in Previews \ {p} : preview'[q] = preview[q]
      /\ Asleep.pc = "idle" /\ Asleep.plan = "none" /\ Asleep.todo = {}
  BY <1>1, <1>2, AsleepPreview
<1>5. spent' \in [requests : Nat, rotations : Nat, faults : Nat, drops : Nat] /\ spent'.drops # 0
  <2>1. TypeOK /\ Spend("drops", MaxDrops) BY DEF Drop, IInv
  <2>2. spent \in [requests : Nat, rotations : Nat, faults : Nat, drops : Nat]
        /\ spent' = [spent EXCEPT !["drops"] = @ + 1]
    BY <2>1 DEF TypeOK, Spend
  <2> QED BY <2>2
<1>6. \A u \in gone : u \in Starts /\ start[u].phase = "live" BY <1>1 DEF IInv, Placed, PreviewRec
<1>7. TypeOK' BY <1>2, <1>3, <1>4, <1>5 DEF IInv, TypeOK, PreviewRec, StartRec
<1>8. Whole' BY <1>3 DEF IInv, Whole
<1>9. Placed'
  <2>1. \A k \in Keys : owner[k].svc # None =>
            start'[owner[k].svc].phase = "live" /\ start'[owner[k].svc].key = k
    BY <1>3 DEF IInv, Placed, Apart, TypeOK
  <2>2. route.svc # None => start'[route.svc].phase = "live" /\ start'[route.svc].key = ServerKey
    BY <1>3 DEF IInv, Placed, Apart, TypeOK
  <2>3. \A q \in Previews : \A u \in preview'[q].todo : start'[u].phase = "live"
    BY <1>1, <1>3, <1>4 DEF IInv, Placed, Apart, PreviewRec
  <2> QED BY <1>2, <2>1, <2>2, <2>3 DEF IInv, Placed
<1>10. Apart' BY <1>2, <1>4 DEF IInv, Apart
<1>11. Registered'
  <2>1. startup \in Starts \cup {None} /\ \A k \in Keys : attempt[k] \in Starts \cup {None}
    BY DEF IInv, TypeOK
  <2>2. \A u \in Starts : start[u].phase # "live" => start'[u] = start[u] BY <1>3, <1>6
  <2>3. /\ \A k \in Keys : attempt[k] # None =>
               /\ start[attempt[k]].phase \in Starting /\ start[attempt[k]].key = k
               /\ attempt[k] # startup /\ owner[k].svc = None
        /\ startup # None => start[startup].phase \in {"connecting", "connected"}
                              /\ start[startup].key = ServerKey
    BY DEF IInv, Registered
  <2>4. startup # None => start'[startup] = start[startup] BY <2>1, <2>2, <2>3
  <2>5. \A k \in Keys : attempt[k] # None => start'[attempt[k]] = start[attempt[k]]
    BY <2>1, <2>2, <2>3 DEF Starting
  <2> QED BY <1>2, <2>3, <2>4, <2>5 DEF Registered
<1>12. Planned'
  <2>1. \A q \in Previews :
          /\ preview'[q].pc # "idle" => preview'[q].key \in Keys /\ preview'[q].print \in Prints
          /\ preview'[q].pc \in {"discard", "wait", "discover"} => preview'[q].at \in Starts
          /\ preview'[q].plan # "none" \/ preview'[q].todo # {} => preview'[q].pc = "discard"
          /\ preview'[q].plan = "spawn" => start'[preview'[q].at].phase = "unspawned"
          /\ "discover" \in {preview'[q].plan, preview'[q].pc} /\ start'[preview'[q].at].phase # "over" =>
                 start'[preview'[q].at].key = preview'[q].key /\ start'[preview'[q].at].print = preview'[q].print
    <3> TAKE q \in Previews
    <3>1. CASE q = p BY <3>1, <1>4
    <3>2. CASE q # p
      <4>1. preview'[q] = preview[q] BY <3>2, <1>4
      <4>2. preview[q].pc \in {"discard", "wait", "discover"} => preview[q].at \in Starts BY DEF IInv, Planned
      <4> QED BY <4>1, <4>2, <1>3, <1>6 DEF IInv, Planned
    <3> QED BY <3>1, <3>2
  <2>2. \A q, r \in Previews :
          preview'[q].plan = "spawn" /\ preview'[r].plan = "spawn" /\ preview'[q].at = preview'[r].at => q = r
    BY <1>4 DEF IInv, Planned
  <2> QED BY <2>1, <2>2 DEF Planned
<1>13. NothingLeaks'
  <2> SUFFICES ASSUME NEW u \in Starts, start'[u].phase = "live"
               PROVE  \/ route.svc = u
                      \/ \E k \in Keys : owner[k].svc = u
                      \/ \E q \in Previews : u \in preview'[q].todo
    BY <1>2 DEF NothingLeaks
  <2>1. u \notin gone /\ start[u].phase = "live" BY <1>3
  <2>2. \A q \in Previews : u \in preview[q].todo => u \in preview'[q].todo BY <2>1, <1>4
  <2> QED BY <2>1, <2>2 DEF IInv, NothingLeaks
<1>14. AttemptsAreUnderWay' /\ OwnersAreCollected' BY <1>5 DEF AttemptsAreUnderWay, OwnersAreCollected
<1> QED BY <1>7, <1>8, <1>9, <1>10, <1>11, <1>12, <1>13, <1>14 DEF IInv

LEMMA DiscardKeeps ==
    ASSUME IInv, NEW p \in Previews, Discard(p)
    PROVE  IInv'
<1> USE NoneAssumption
<1> DEFINE gone == preview[p].todo
           plan == preview[p].plan
           t == preview[p].at
           k == preview[p].key
<1>0. TypeOK /\ preview[p].pc = "discard" BY DEF IInv, Discard
<1>1. preview \in [Previews -> PreviewRec] /\ start \in [Starts -> StartRec] /\ owner \in [Keys -> OwnerRec]
  BY <1>0 DEF TypeOK, PreviewRec, StartRec, OwnerRec
<1>2. /\ plan \in {"none", "discover", "wait", "spawn"} /\ t \in Starts /\ gone \in SUBSET Starts
      /\ k \in Keys /\ preview[p].print \in Prints
  BY <1>0, <1>1 DEF IInv, Planned, PreviewRec
<1>3. Carry(p, plan, t, {}, owner, Discarded(start, gone)) /\ UNCHANGED <<attempt, demand, route, startup, config, literal, spent>>
  BY DEF Discard
<1>4. /\ Discarded(start, gone) \in [Starts -> StartRec]
      /\ \A u \in Starts : IF u \in gone THEN Discarded(start, gone)[u].phase = "over" /\ ~Discarded(start, gone)[u].open
                           ELSE Discarded(start, gone)[u] = start[u]
  BY <1>1, DiscardedStarts
<1>5. Carries(p, plan, t, {}, owner, Discarded(start, gone))
  BY <1>0, <1>1, <1>2, <1>3, <1>4, CarryLeads
<1>6. \A u \in gone : start[u].phase = "live" BY DEF IInv, Placed
<1>7. plan = "spawn" => start[t].phase = "unspawned" /\ t \notin gone BY <1>6 DEF IInv, Planned
<1>8. \A u \in Starts :
        IF u \in gone THEN start'[u].phase = "over" /\ ~start'[u].open
        ELSE /\ start'[u].phase = IF plan = "spawn" /\ u = t THEN "connecting" ELSE start[u].phase
             /\ start'[u].key = start[u].key /\ start'[u].print = start[u].print /\ start'[u].open = start[u].open
  BY <1>4, <1>5, <1>7 DEF Carries
<1>9. /\ preview'[p].key = k /\ preview'[p].print = preview[p].print /\ preview'[p].at = t
      /\ preview'[p].todo = {} /\ preview'[p].plan = "none"
      /\ preview'[p].pc = IF plan = "discover" THEN "discover" ELSE "wait"
      /\ \A q \in Previews \ {p} : preview'[q] = preview[q]
      /\ \A j \in Keys : /\ owner'[j].svc = owner[j].svc
                         /\ owner'[j].armed = (owner[j].armed \/ (plan = "discover" /\ j = k /\ owner[j].svc = t))
  BY <1>2, <1>5 DEF Carries
<1>10. TypeOK' BY <1>0, <1>3, <1>5 DEF TypeOK, Carries, OwnerRec, StartRec, PreviewRec
<1> HIDE DEF gone, plan, t, k
<1>11. Whole'
  <2>1. plan = "spawn" => start[t].key \in Keys /\ start[t].print \in Prints BY <1>2, <1>7 DEF IInv, Whole
  <2> QED BY <1>8, <2>1 DEF IInv, Whole
<1>12. Placed'
  <2>1. \A j \in Keys : owner'[j].svc # None =>
            start'[owner'[j].svc].phase = "live" /\ start'[owner'[j].svc].key = j
    BY <1>7, <1>8, <1>9, <1>1 DEF IInv, Placed, Apart, OwnerRec, gone
  <2>2. route.svc # None => start'[route.svc].phase = "live" /\ start'[route.svc].key = ServerKey
    BY <1>0, <1>7, <1>8 DEF IInv, Placed, Apart, TypeOK, gone
  <2>3. \A q \in Previews : \A u \in preview'[q].todo : start'[u].phase = "live"
    <3> SUFFICES ASSUME NEW q \in Previews, NEW u \in preview'[q].todo PROVE start'[u].phase = "live"
      OBVIOUS
    <3>1. q # p /\ u \in preview[q].todo BY <1>9
    <3>2. u \in Starts BY <1>1, <3>1 DEF PreviewRec
    <3>3. start[u].phase = "live" /\ u \notin gone BY <3>1 DEF IInv, Placed, Apart, gone
    <3> QED BY <3>2, <3>3, <1>7, <1>8
  <2> QED BY <1>3, <2>1, <2>2, <2>3 DEF IInv, Placed
<1>13. Apart' BY <1>3, <1>9 DEF IInv, Apart
<1>14. Registered'
  <2>1. \A j \in Keys : attempt[j] # None =>
            /\ start'[attempt[j]].phase \in Starting /\ start'[attempt[j]].key = j
            /\ attempt[j] # startup /\ owner'[j].svc = None
    <3> SUFFICES ASSUME NEW j \in Keys, attempt[j] # None
                 PROVE  /\ start'[attempt[j]].phase \in Starting /\ start'[attempt[j]].key = j
                        /\ attempt[j] # startup /\ owner'[j].svc = None
      OBVIOUS
    <3>1. attempt[j] \in Starts BY <1>0 DEF TypeOK
    <3>2. attempt[j] \notin gone BY <1>6 DEF IInv, Registered, Starting
    <3> QED BY <3>1, <3>2, <1>8, <1>9 DEF IInv, Registered, Starting
  <2>2. startup # None => /\ start'[startup].phase \in {"connecting", "connected"}
                          /\ start'[startup].key = ServerKey
    BY <1>0, <1>6, <1>8 DEF IInv, Registered, TypeOK
  <2> QED BY <1>3, <2>1, <2>2 DEF Registered
<1>15. Planned'
  <2>1. \A q \in Previews :
          /\ preview'[q].pc # "idle" => preview'[q].key \in Keys /\ preview'[q].print \in Prints
          /\ preview'[q].pc \in {"discard", "wait", "discover"} => preview'[q].at \in Starts
          /\ preview'[q].plan # "none" \/ preview'[q].todo # {} => preview'[q].pc = "discard"
          /\ preview'[q].plan = "spawn" => start'[preview'[q].at].phase = "unspawned"
          /\ "discover" \in {preview'[q].plan, preview'[q].pc} /\ start'[preview'[q].at].phase # "over" =>
                 start'[preview'[q].at].key = preview'[q].key /\ start'[preview'[q].at].print = preview'[q].print
    <3> TAKE q \in Previews
    <3>1. CASE q = p
      <4>1. preview'[p].pc = "discover" => plan = "discover" BY <1>9
      <4>2. plan = "discover" /\ start'[t].phase # "over" => start'[t].key = k /\ start'[t].print = preview[p].print
        BY <1>2, <1>8 DEF IInv, Planned, plan, t, k
      <4> QED BY <3>1, <4>1, <4>2, <1>2, <1>9
    <3>2. CASE q # p
      <4>1. preview'[q] = preview[q] BY <3>2, <1>9
      <4>2. preview[q].pc \in {"discard", "wait", "discover"} => preview[q].at \in Starts BY DEF IInv, Planned
      <4>3. preview[q].plan = "spawn" => /\ start[preview[q].at].phase = "unspawned" /\ preview[q].pc = "discard"
                                         /\ ~(plan = "spawn" /\ preview[q].at = t)
        BY <3>2 DEF IInv, Planned, plan, t
      <4>4. preview[q].plan = "spawn" => start'[preview[q].at].phase = "unspawned"
        BY <4>2, <4>3, <1>6, <1>8
      <4>5. "discover" \in {preview[q].plan, preview[q].pc} /\ start'[preview[q].at].phase # "over" =>
                 start'[preview[q].at].key = preview[q].key /\ start'[preview[q].at].print = preview[q].print
        <5> SUFFICES ASSUME "discover" \in {preview[q].plan, preview[q].pc}, start'[preview[q].at].phase # "over"
                     PROVE  start'[preview[q].at].key = preview[q].key /\ start'[preview[q].at].print = preview[q].print
          OBVIOUS
        <5>1. preview[q].at \in Starts BY <4>2 DEF IInv, Planned
        <5>2. start[preview[q].at].phase # "over" BY <5>1, <1>7, <1>8
        <5> QED BY <5>1, <5>2, <1>8 DEF IInv, Planned
      <4> QED BY <4>1, <4>4, <4>5 DEF IInv, Planned
    <3> QED BY <3>1, <3>2
  <2>2. \A q, r \in Previews :
          preview'[q].plan = "spawn" /\ preview'[r].plan = "spawn" /\ preview'[q].at = preview'[r].at => q = r
    BY <1>9 DEF IInv, Planned
  <2> QED BY <2>1, <2>2 DEF Planned
<1>16. NothingLeaks'
  <2> SUFFICES ASSUME NEW u \in Starts, start'[u].phase = "live"
               PROVE  \/ route.svc = u
                      \/ \E j \in Keys : owner'[j].svc = u
                      \/ \E q \in Previews : u \in preview'[q].todo
    BY <1>3 DEF NothingLeaks
  <2>1. u \notin gone /\ start[u].phase = "live" BY <1>8
  <2>2. \A q \in Previews : u \in preview[q].todo => u \in preview'[q].todo BY <2>1, <1>9 DEF gone
  <2> QED BY <2>1, <2>2, <1>9 DEF IInv, NothingLeaks
<1>17. AttemptsAreUnderWay'
  <2> SUFFICES ASSUME spent.drops = 0, NEW j \in Keys, attempt[j] # None
               PROVE  \/ start'[attempt[j]].phase \in {"connecting", "connected"}
                      \/ \E q \in Previews : /\ preview'[q].pc = "discard" /\ preview'[q].plan = "spawn"
                                             /\ preview'[q].at = attempt[j]
    BY <1>3 DEF AttemptsAreUnderWay
  <2>1. attempt[j] \in Starts /\ attempt[j] \notin gone BY <1>0, <1>6 DEF TypeOK, IInv, Registered, Starting
  <2>2. CASE start[attempt[j]].phase \in {"connecting", "connected"} BY <2>1, <2>2, <1>8
  <2>3. CASE \E q \in Previews : /\ preview[q].pc = "discard" /\ preview[q].plan = "spawn"
                                 /\ preview[q].at = attempt[j]
    <3>1. PICK q \in Previews : /\ preview[q].pc = "discard" /\ preview[q].plan = "spawn"
                                /\ preview[q].at = attempt[j]
      BY <2>3
    <3>2. CASE q = p BY <3>1, <3>2, <2>1, <1>8 DEF plan, t
    <3>3. CASE q # p BY <3>1, <3>3, <1>9
    <3> QED BY <3>2, <3>3
  <2> QED BY <2>2, <2>3 DEF IInv, AttemptsAreUnderWay
<1>18. OwnersAreCollected'
  <2> SUFFICES ASSUME spent.drops = 0, NEW j \in Keys, owner'[j].svc # None
               PROVE  \/ owner'[j].armed
                      \/ \E q \in Previews : preview'[q].plan = "discover" /\ preview'[q].at = owner'[j].svc
    BY <1>3 DEF OwnersAreCollected
  <2>0. owner'[j].svc = owner[j].svc /\ owner[j].svc \in Starts BY <1>1, <1>9 DEF OwnerRec
  <2>1. CASE owner[j].armed BY <2>1, <1>9
  <2>2. CASE \E q \in Previews : preview[q].plan = "discover" /\ preview[q].at = owner[j].svc
    <3>1. PICK q \in Previews : preview[q].plan = "discover" /\ preview[q].at = owner[j].svc BY <2>2
    <3>2. CASE q = p
      <4>1. plan = "discover" /\ t = owner[j].svc BY <3>1, <3>2 DEF plan, t
      <4>2. start[t].phase = "live" /\ start[t].key = j BY <4>1, <2>0 DEF IInv, Placed
      <4>3. k = j BY <4>1, <4>2 DEF IInv, Planned, plan, t, k
      <4> QED BY <4>1, <4>3, <1>9
    <3>3. CASE q # p BY <3>1, <3>3, <2>0, <1>9
    <3> QED BY <3>2, <3>3
  <2> QED BY <2>0, <2>1, <2>2 DEF IInv, OwnersAreCollected
<1> QED BY <1>10, <1>11, <1>12, <1>13, <1>14, <1>15, <1>16, <1>17, <1>18 DEF IInv

-----------------------------------------------------------------------------
(* The steps of launches, owners and demands, which leave the previews alone. *)
LEMMA PreviewsStay ==
    ASSUME IInv, preview' = preview, spent'.drops = spent.drops,
           \A u \in Starts : start[u].phase = "unspawned" => start'[u].phase = "unspawned",
           \A p \in Previews : preview[p].at \in Starts /\ start'[preview[p].at].phase # "over" =>
               /\ start[preview[p].at].phase # "over"
               /\ start'[preview[p].at].key = start[preview[p].at].key
               /\ start'[preview[p].at].print = start[preview[p].at].print,
           \A k \in Keys : attempt'[k] # None =>
               /\ attempt'[k] = attempt[k]
               /\ start[attempt[k]].phase \in {"connecting", "connected"} =>
                      start'[attempt[k]].phase \in {"connecting", "connected"},
           \A k \in Keys : owner'[k].svc # None =>
               owner'[k].armed \/ (owner'[k].svc = owner[k].svc /\ ~owner[k].armed)
    PROVE  Planned' /\ AttemptsAreUnderWay' /\ OwnersAreCollected'
<1>1. Planned'
  <2>1. \A p \in Previews :
          /\ preview[p].plan = "spawn" => start'[preview[p].at].phase = "unspawned"
          /\ "discover" \in {preview[p].plan, preview[p].pc} /\ start'[preview[p].at].phase # "over" =>
                 start'[preview[p].at].key = preview[p].key /\ start'[preview[p].at].print = preview[p].print
    <3> TAKE p \in Previews
    <3>1. preview[p].plan # "none" \/ preview[p].pc = "discover" => preview[p].at \in Starts BY DEF IInv, Planned
    <3>2. preview[p].plan = "spawn" => start'[preview[p].at].phase = "unspawned" BY <3>1 DEF IInv, Planned
    <3>3. "discover" \in {preview[p].plan, preview[p].pc} /\ start'[preview[p].at].phase # "over" =>
              start'[preview[p].at].key = preview[p].key /\ start'[preview[p].at].print = preview[p].print
      BY <3>1 DEF IInv, Planned
    <3> QED BY <3>2, <3>3
  <2> QED BY <2>1 DEF IInv, Planned
<1>2. AttemptsAreUnderWay' BY DEF IInv, AttemptsAreUnderWay
<1>3. OwnersAreCollected' BY DEF IInv, OwnersAreCollected
<1> QED BY <1>1, <1>2, <1>3

LEMMA ConnectsKeeps ==
    ASSUME IInv, NEW t \in Starts, Connects(t)
    PROVE  IInv'
<1> USE NoneAssumption
<1>1. start \in [Starts -> StartRec] BY DEF IInv, TypeOK, StartRec
<1>2. /\ start[t].phase = "connecting" /\ start' = [start EXCEPT ![t].phase = "connected", ![t].open = TRUE]
      /\ UNCHANGED <<owner, attempt, preview, demand, route, startup, config, literal, spent>>
  BY DEF Connects
<1>3. /\ start' \in [Starts -> StartRec]
      /\ \A u \in Starts : /\ start'[u].phase = IF u = t THEN "connected" ELSE start[u].phase
                           /\ start'[u].key = start[u].key /\ start'[u].print = start[u].print
                           /\ u # t => start'[u] = start[u]
  <2>1. start'[t] = [start[t] EXCEPT !.phase = "connected", !.open = TRUE] BY <1>1, <1>2
  <2>2. start[t] \in StartRec BY <1>1
  <2>3. /\ start'[t] \in StartRec /\ start'[t].phase = "connected"
        /\ start'[t].key = start[t].key /\ start'[t].print = start[t].print
    BY <2>1, <2>2 DEF StartRec
  <2>4. \A u \in Starts \ {t} : start'[u] = start[u] BY <1>1, <1>2
  <2>5. start' \in [Starts -> StartRec] BY <1>1, <1>2, <2>3, <2>4
  <2> QED BY <2>3, <2>4, <2>5
<1>4. TypeOK' BY <1>2, <1>3 DEF IInv, TypeOK, StartRec
<1>5. Whole' BY <1>2, <1>3 DEF IInv, Whole
<1>6. Placed'
  <2>1. \A k \in Keys : owner[k].svc # None =>
            start'[owner[k].svc].phase = "live" /\ start'[owner[k].svc].key = k
    BY <1>2, <1>3 DEF IInv, Placed, TypeOK
  <2>2. route.svc # None => start'[route.svc].phase = "live" /\ start'[route.svc].key = ServerKey
    BY <1>2, <1>3 DEF IInv, Placed, TypeOK
  <2>3. \A p \in Previews : \A u \in preview[p].todo : start'[u].phase = "live"
    BY <1>2, <1>3 DEF IInv, Placed, TypeOK
  <2>4. route.status = "ready" => route.svc # None BY DEF IInv, Placed
  <2> QED BY <1>2, <2>1, <2>2, <2>3, <2>4 DEF Placed
<1>7. Apart' BY <1>2 DEF IInv, Apart
<1>8. Registered' BY <1>2, <1>3 DEF IInv, Registered, Starting, TypeOK
<1>9. NothingLeaks' BY <1>2, <1>3 DEF IInv, NothingLeaks
<1>10. \A k \in Keys : attempt[k] \in Starts \cup {None} /\ owner[k].armed \in BOOLEAN BY DEF IInv, TypeOK
<1>11. Planned' /\ AttemptsAreUnderWay' /\ OwnersAreCollected' BY <1>2, <1>3, <1>10, PreviewsStay
<1> QED BY <1>4, <1>5, <1>6, <1>7, <1>8, <1>9, <1>11 DEF IInv

LEMMA ClosesKeeps ==
    ASSUME IInv, NEW t \in Starts, Closes(t)
    PROVE  IInv'
<1> USE NoneAssumption
<1>1. start \in [Starts -> StartRec] /\ spent \in [requests : Nat, rotations : Nat, faults : Nat, drops : Nat]
  BY DEF IInv, TypeOK, StartRec
<1>2. /\ start[t].phase = "live" /\ start' = [start EXCEPT ![t].open = FALSE]
      /\ spent' = [spent EXCEPT !["faults"] = @ + 1]
      /\ UNCHANGED <<owner, attempt, preview, demand, route, startup, config, literal>>
  BY DEF Closes, Spend
<1>3. /\ start' \in [Starts -> StartRec]
      /\ \A u \in Starts : /\ start'[u].phase = start[u].phase
                           /\ start'[u].key = start[u].key /\ start'[u].print = start[u].print
                           /\ u # t => start'[u] = start[u]
  <2>1. start'[t] = [start[t] EXCEPT !.open = FALSE] BY <1>1, <1>2
  <2>2. start[t] \in StartRec BY <1>1
  <2>3. /\ start'[t] \in StartRec /\ start'[t].phase = start[t].phase
        /\ start'[t].key = start[t].key /\ start'[t].print = start[t].print
    BY <2>1, <2>2 DEF StartRec
  <2>4. \A u \in Starts \ {t} : start'[u] = start[u] BY <1>1, <1>2
  <2>5. start' \in [Starts -> StartRec] BY <1>1, <1>2, <2>3, <2>4
  <2> QED BY <2>3, <2>4, <2>5
<1>a. spent' \in [requests : Nat, rotations : Nat, faults : Nat, drops : Nat] /\ spent'.drops = spent.drops
  BY <1>1, <1>2
<1>4. TypeOK' BY <1>2, <1>3, <1>a DEF IInv, TypeOK, StartRec
<1>5. Whole' BY <1>2, <1>3 DEF IInv, Whole
<1>6. Placed'
  <2>1. \A k \in Keys : owner[k].svc # None =>
            start'[owner[k].svc].phase = "live" /\ start'[owner[k].svc].key = k
    BY <1>3 DEF IInv, Placed, TypeOK
  <2>2. route.svc # None => start'[route.svc].phase = "live" /\ start'[route.svc].key = ServerKey
    BY <1>3 DEF IInv, Placed, TypeOK
  <2>3. \A p \in Previews : \A u \in preview[p].todo : start'[u].phase = "live"
    BY <1>3 DEF IInv, Placed, TypeOK
  <2> QED BY <1>2, <2>1, <2>2, <2>3 DEF IInv, Placed
<1>7. Apart' BY <1>2 DEF IInv, Apart
<1>8. Registered' BY <1>2, <1>3 DEF IInv, Registered, Starting, TypeOK
<1>9. NothingLeaks' BY <1>2, <1>3 DEF IInv, NothingLeaks
<1>10. \A k \in Keys : attempt[k] \in Starts \cup {None} /\ owner[k].armed \in BOOLEAN BY DEF IInv, TypeOK
<1>11. Planned' /\ AttemptsAreUnderWay' /\ OwnersAreCollected'
  <2>1. \A p \in Previews : preview[p].at \in Starts => start'[preview[p].at].phase = start[preview[p].at].phase
    BY <1>3
  <2> QED BY <1>2, <1>3, <1>a, <1>10, <2>1, PreviewsStay
<1> QED BY <1>4, <1>5, <1>6, <1>7, <1>8, <1>9, <1>11 DEF IInv

(* A launch that is not published yet is in no place, and not to be discarded. *)
LEMMA StartingIsNowhere ==
    ASSUME IInv, NEW t \in Starts, start[t].phase # "live"
    PROVE  /\ \A k \in Keys : owner[k].svc # t
           /\ route.svc # t
           /\ \A p \in Previews : t \notin preview[p].todo
<1> USE NoneAssumption
<1> QED BY DEF IInv, Placed

(* A launch that fails, or comes too late, is over; its attempt may be unregistered with it. *)
LEMMA LaunchIsDiscarded ==
    ASSUME IInv, NEW t \in Starts, start[t].phase \in {"connecting", "connected"}, startup # t,
           NEW outcome \in {"none", "published", "failed", "superseded"},
           \/ start' = Discarded(start, {t})
           \/ start' = Told(Discarded(start, {t}), t, outcome),
           attempt' \in [Keys -> Starts \cup {None}],
           \A k \in Keys : attempt'[k] \in {None, attempt[k]} \ {t},
           UNCHANGED <<owner, preview, demand, route, startup, config, literal, spent>>
    PROVE  IInv'
<1> USE NoneAssumption
<1>0. TypeOK BY DEF IInv
<1>1. /\ start \in [Starts -> StartRec] /\ \A k \in Keys : attempt[k] \in Starts \cup {None}
      /\ \A k \in Keys : owner[k].armed \in BOOLEAN
  BY <1>0 DEF TypeOK, StartRec
<1>2. /\ Discarded(start, {t}) \in [Starts -> StartRec]
      /\ \A u \in Starts : IF u \in {t} THEN Discarded(start, {t})[u].phase = "over" /\ ~Discarded(start, {t})[u].open
                           ELSE Discarded(start, {t})[u] = start[u]
  BY <1>1, DiscardedStarts
<1>3. /\ start' \in [Starts -> StartRec]
      /\ \A u \in Starts : IF u = t THEN start'[u].phase = "over" /\ ~start'[u].open
                           ELSE /\ start'[u].phase = start[u].phase /\ start'[u].key = start[u].key
                                /\ start'[u].print = start[u].print /\ start'[u].open = start[u].open
  <2>1. CASE start' = Discarded(start, {t}) BY <1>2, <2>1
  <2>2. CASE start' = Told(Discarded(start, {t}), t, outcome)
    <3> DEFINE ds == Discarded(start, {t})
    <3>1. ds \in [Starts -> StartRec] BY <1>2
    <3> HIDE DEF ds
    <3>2. /\ Told(ds, t, outcome) \in [Starts -> StartRec]
          /\ \A u \in Starts :
                 /\ Told(ds, t, outcome)[u].phase = ds[u].phase /\ Told(ds, t, outcome)[u].key = ds[u].key
                 /\ Told(ds, t, outcome)[u].print = ds[u].print /\ Told(ds, t, outcome)[u].open = ds[u].open
      BY <3>1, ToldStarts
    <3> QED BY <1>2, <2>2, <3>2 DEF ds
  <2> QED BY <2>1, <2>2
<1>4. /\ \A j \in Keys : owner[j].svc # t
      /\ route.svc # t /\ \A p \in Previews : t \notin preview[p].todo
  <2>1. start[t].phase # "live" OBVIOUS
  <2> QED BY <2>1, StartingIsNowhere
<1>5. TypeOK' BY <1>0, <1>3 DEF TypeOK, StartRec
<1>6. Whole' BY <1>3 DEF IInv, Whole
<1>7. Placed'
  <2>1. \A k \in Keys : owner[k].svc # None =>
            start'[owner[k].svc].phase = "live" /\ start'[owner[k].svc].key = k
    BY <1>0, <1>3, <1>4 DEF IInv, Placed, TypeOK
  <2>2. route.svc # None => start'[route.svc].phase = "live" /\ start'[route.svc].key = ServerKey
    BY <1>0, <1>3, <1>4 DEF IInv, Placed, TypeOK
  <2>3. \A p \in Previews : \A u \in preview[p].todo : start'[u].phase = "live"
    <3> SUFFICES ASSUME NEW p \in Previews, NEW u \in preview[p].todo PROVE start'[u].phase = "live"
      OBVIOUS
    <3>1. u \in Starts /\ u # t BY <1>0, <1>4 DEF TypeOK
    <3>2. start[u].phase = "live" BY DEF IInv, Placed
    <3> QED BY <3>1, <3>2, <1>3
  <2> QED BY <2>1, <2>2, <2>3 DEF IInv, Placed
<1>8. Apart' BY DEF IInv, Apart
<1>9. Registered'
  <2>1. \A k \in Keys : attempt'[k] # None =>
           /\ start'[attempt'[k]].phase \in Starting /\ start'[attempt'[k]].key = k
           /\ attempt'[k] # startup /\ owner[k].svc = None
    <3> SUFFICES ASSUME NEW k \in Keys, attempt'[k] # None
                 PROVE  /\ start'[attempt'[k]].phase \in Starting /\ start'[attempt'[k]].key = k
                        /\ attempt'[k] # startup /\ owner[k].svc = None
      OBVIOUS
    <3>1. attempt'[k] = attempt[k] /\ attempt[k] # t /\ attempt[k] \in Starts BY <1>1
    <3> QED BY <3>1, <1>3 DEF IInv, Registered
  <2>2. startup # None => start'[startup].phase \in {"connecting", "connected"} /\ start'[startup].key = ServerKey
    BY <1>0, <1>3 DEF IInv, Registered, TypeOK
  <2> QED BY <2>1, <2>2 DEF Registered
<1>10. NothingLeaks' BY <1>3 DEF IInv, NothingLeaks
<1>11. Planned' /\ AttemptsAreUnderWay' /\ OwnersAreCollected'
  <2>1. \A k \in Keys : attempt'[k] # None =>
           /\ attempt'[k] = attempt[k]
           /\ start[attempt[k]].phase \in {"connecting", "connected"} =>
                  start'[attempt[k]].phase \in {"connecting", "connected"}
    <3> SUFFICES ASSUME NEW k \in Keys, attempt'[k] # None
                 PROVE  /\ attempt'[k] = attempt[k]
                        /\ start[attempt[k]].phase \in {"connecting", "connected"} =>
                              start'[attempt[k]].phase \in {"connecting", "connected"}
      OBVIOUS
    <3>1. attempt'[k] = attempt[k] /\ attempt[k] # t /\ attempt[k] \in Starts BY <1>1
    <3> QED BY <3>1, <1>3
  <2>2. \A u \in Starts : start[u].phase = "unspawned" => start'[u].phase = "unspawned" BY <1>3
  <2>3. \A p \in Previews : preview[p].at \in Starts /\ start'[preview[p].at].phase # "over" =>
           /\ start[preview[p].at].phase # "over"
           /\ start'[preview[p].at].key = start[preview[p].at].key
           /\ start'[preview[p].at].print = start[preview[p].at].print
    BY <1>3
  <2> QED BY <1>1, <2>1, <2>2, <2>3, PreviewsStay
<1> QED BY <1>5, <1>6, <1>7, <1>8, <1>9, <1>10, <1>11 DEF IInv

LEMMA FailOwnerKeeps ==
    ASSUME IInv, NEW t \in Starts, FailOwner(t)
    PROVE  IInv'
<1> USE NoneAssumption
<1> DEFINE k == start[t].key
<1>1. attempt \in [Keys -> Starts \cup {None}] BY DEF IInv, TypeOK
<1>2. /\ start[t].phase = "connecting" /\ startup # t /\ k \in Keys
      /\ UNCHANGED <<owner, preview, demand, route, startup, config, literal, spent>>
  BY DEF FailOwner, IInv, Whole
<1>3. \A j \in Keys : attempt[j] = t => j = k BY DEF IInv, Registered
<1>4. CASE attempt[k] = t
  <2>1. attempt' = [attempt EXCEPT ![k] = None] /\ start' = Told(Discarded(start, {t}), t, "failed")
    BY <1>4 DEF FailOwner
  <2>2. attempt' \in [Keys -> Starts \cup {None}] /\ \A j \in Keys : attempt'[j] \in {None, attempt[j]} \ {t}
    BY <1>1, <1>2, <1>3, <2>1
  <2> QED BY <1>2, <2>1, <2>2, LaunchIsDiscarded
<1>5. CASE attempt[k] # t
  <2>1. attempt' = attempt /\ start' = Discarded(start, {t}) BY <1>5 DEF FailOwner
  <2>2. attempt' \in [Keys -> Starts \cup {None}] /\ \A j \in Keys : attempt'[j] \in {None, attempt[j]} \ {t}
    BY <1>1, <1>3, <1>5, <2>1
  <2> QED BY <1>2, <2>1, <2>2, LaunchIsDiscarded
<1> QED BY <1>4, <1>5

LEMMA PublishOwnerKeeps ==
    ASSUME IInv, NEW t \in Starts, PublishOwner(t)
    PROVE  IInv'
<1> USE NoneAssumption
<1> DEFINE k == start[t].key
<1>0. TypeOK BY DEF IInv
<1>1. /\ start \in [Starts -> StartRec] /\ owner \in [Keys -> OwnerRec] /\ attempt \in [Keys -> Starts \cup {None}]
      /\ \A j \in Keys : owner[j].armed \in BOOLEAN
  BY <1>0 DEF TypeOK, StartRec, OwnerRec
<1>2. /\ start[t].phase = "connected" /\ startup # t /\ k \in Keys
      /\ UNCHANGED <<preview, demand, route, startup, config, literal, spent>>
  BY DEF PublishOwner, IInv, Whole
<1>3. /\ \A j \in Keys : owner[j].svc # t
      /\ route.svc # t /\ \A p \in Previews : t \notin preview[p].todo
  BY <1>2, StartingIsNowhere
<1>4. \A j \in Keys : attempt[j] = t => j = k BY <1>2 DEF IInv, Registered
<1>5. CASE attempt[k] = t
  <2>1. /\ owner' = [owner EXCEPT ![k] = OwnerOf(t)] /\ attempt' = [attempt EXCEPT ![k] = None]
        /\ start' = [start EXCEPT ![t].phase = "live", ![t].outcome = "published"]
    BY <1>5 DEF PublishOwner
  <2>2. OwnerOf(t) \in OwnerRec /\ OwnerOf(t).svc = t /\ OwnerOf(t).armed BY DEF OwnerOf, OwnerRec
  <2>3. /\ owner' \in [Keys -> OwnerRec] /\ owner'[k] = OwnerOf(t)
        /\ \A j \in Keys \ {k} : owner'[j] = owner[j]
    BY <1>1, <1>2, <2>1, <2>2
  <2>4. /\ attempt' \in [Keys -> Starts \cup {None}] /\ attempt'[k] = None
        /\ \A j \in Keys \ {k} : attempt'[j] = attempt[j]
    BY <1>1, <1>2, <2>1
  <2>5. /\ start' \in [Starts -> StartRec]
        /\ \A u \in Starts : /\ start'[u].phase = IF u = t THEN "live" ELSE start[u].phase
                             /\ start'[u].key = start[u].key /\ start'[u].print = start[u].print
                             /\ u # t => start'[u] = start[u]
    <3>1. start'[t] = [start[t] EXCEPT !.phase = "live", !.outcome = "published"] BY <1>1, <2>1
    <3>2. start[t] \in StartRec BY <1>1
    <3>3. /\ start'[t] \in StartRec /\ start'[t].phase = "live"
          /\ start'[t].key = start[t].key /\ start'[t].print = start[t].print
      BY <3>1, <3>2 DEF StartRec
    <3>4. \A u \in Starts \ {t} : start'[u] = start[u] BY <1>1, <2>1
    <3>5. start' \in [Starts -> StartRec] BY <1>1, <2>1, <3>3, <3>4
    <3> QED BY <3>3, <3>4, <3>5
  <2> HIDE DEF k
  <2>6. TypeOK' BY <1>0, <1>2, <2>3, <2>4, <2>5 DEF TypeOK, StartRec, OwnerRec
  <2>7. Whole' BY <1>2, <2>5 DEF IInv, Whole, k
  <2>8. Placed'
    <3>1. \A j \in Keys : owner'[j].svc # None =>
              start'[owner'[j].svc].phase = "live" /\ start'[owner'[j].svc].key = j
      <4> TAKE j \in Keys
      <4>1. CASE j = k BY <4>1, <2>2, <2>3, <2>5 DEF k
      <4>2. CASE j # k BY <4>2, <1>1, <2>3, <2>5 DEF IInv, Placed, OwnerRec
      <4> QED BY <4>1, <4>2
    <3>2. route.svc # None => start'[route.svc].phase = "live" /\ start'[route.svc].key = ServerKey
      BY <1>0, <2>5 DEF IInv, Placed, TypeOK
    <3>3. \A p \in Previews : \A u \in preview[p].todo : start'[u].phase = "live"
      BY <1>0, <2>5 DEF IInv, Placed, TypeOK
    <3> QED BY <1>2, <3>1, <3>2, <3>3 DEF IInv, Placed
  <2>9. Apart'
    <3>1. \A j \in Keys : owner'[j].svc = IF j = k THEN t ELSE owner[j].svc BY <2>2, <2>3
    <3> QED BY <1>2, <1>3, <3>1 DEF IInv, Apart
  <2>10. Registered'
    <3>1. \A j \in Keys : attempt'[j] # None =>
             /\ start'[attempt'[j]].phase \in Starting /\ start'[attempt'[j]].key = j
             /\ attempt'[j] # startup /\ owner'[j].svc = None
      <4> SUFFICES ASSUME NEW j \in Keys, attempt'[j] # None
                   PROVE  /\ start'[attempt'[j]].phase \in Starting /\ start'[attempt'[j]].key = j
                          /\ attempt'[j] # startup /\ owner'[j].svc = None
        OBVIOUS
      <4>1. j # k /\ attempt'[j] = attempt[j] /\ attempt[j] # t /\ attempt[j] \in Starts
            /\ owner'[j] = owner[j]
        BY <1>1, <1>4, <2>3, <2>4
      <4> QED BY <4>1, <2>5 DEF IInv, Registered
    <3>2. startup # None => start'[startup].phase \in {"connecting", "connected"} /\ start'[startup].key = ServerKey
      BY <1>0, <1>2, <2>5 DEF IInv, Registered, TypeOK
    <3> QED BY <1>2, <3>1, <3>2 DEF Registered
  <2>11. NothingLeaks'
    <3> SUFFICES ASSUME NEW u \in Starts, start'[u].phase = "live"
                 PROVE  \/ route.svc = u
                        \/ \E j \in Keys : owner'[j].svc = u
                        \/ \E p \in Previews : u \in preview[p].todo
      BY <1>2 DEF NothingLeaks
    <3>1. CASE u = t BY <3>1, <2>2, <2>3, <1>2 DEF k
    <3>2. CASE u # t
      <4>1. start[u].phase = "live" BY <3>2, <2>5
      <4>2. owner[k].svc = None BY <1>2, <1>5 DEF IInv, Registered, k
      <4>3. \A j \in Keys : owner[j].svc = u => j # k BY <4>2
      <4> QED BY <4>1, <4>3, <2>3 DEF IInv, NothingLeaks
    <3> QED BY <3>1, <3>2
  <2>12. Planned' /\ AttemptsAreUnderWay' /\ OwnersAreCollected'
    <3>1. \A j \in Keys : attempt'[j] # None =>
               /\ attempt'[j] = attempt[j]
               /\ start[attempt[j]].phase \in {"connecting", "connected"} =>
                      start'[attempt[j]].phase \in {"connecting", "connected"}
      <4> SUFFICES ASSUME NEW j \in Keys, attempt'[j] # None
                   PROVE  /\ attempt'[j] = attempt[j]
                          /\ start[attempt[j]].phase \in {"connecting", "connected"} =>
                                start'[attempt[j]].phase \in {"connecting", "connected"}
        OBVIOUS
      <4>1. j # k /\ attempt'[j] = attempt[j] /\ attempt[j] # t /\ attempt[j] \in Starts BY <1>1, <1>4, <2>4
      <4> QED BY <4>1, <2>5
    <3>2. \A j \in Keys : owner'[j].svc # None =>
               owner'[j].armed \/ (owner'[j].svc = owner[j].svc /\ ~owner[j].armed)
      BY <1>1, <2>2, <2>3
    <3>3. \A u \in Starts : start[u].phase = "unspawned" => start'[u].phase = "unspawned" BY <1>2, <2>5
    <3>4. \A p \in Previews : preview[p].at \in Starts /\ start'[preview[p].at].phase # "over" =>
             /\ start[preview[p].at].phase # "over"
             /\ start'[preview[p].at].key = start[preview[p].at].key
             /\ start'[preview[p].at].print = start[preview[p].at].print
      BY <1>2, <2>5
    <3> QED BY <1>2, <3>1, <3>2, <3>3, <3>4, PreviewsStay
  <2> QED BY <2>6, <2>7, <2>8, <2>9, <2>10, <2>11, <2>12 DEF IInv
<1>6. CASE attempt[k] # t
  <2>1. start' = Discarded(start, {t}) /\ UNCHANGED <<owner, attempt>> BY <1>6 DEF PublishOwner
  <2>2. \A j \in Keys : attempt[j] # t BY <1>4, <1>6
  <2>3. attempt' \in [Keys -> Starts \cup {None}] /\ \A j \in Keys : attempt'[j] \in {None, attempt[j]} \ {t}
    BY <1>1, <2>1, <2>2
  <2> QED BY <1>2, <2>1, <2>3, LaunchIsDiscarded
<1> QED BY <1>5, <1>6

-----------------------------------------------------------------------------
(* What is discarded leaves its place. *)
Leaves(t) ==
    /\ \A u \in Starts :
          IF u = t THEN start'[u].phase = "over" /\ ~start'[u].open
          ELSE /\ start'[u].phase = start[u].phase /\ start'[u].key = start[u].key
               /\ start'[u].print = start[u].print /\ start'[u].open = start[u].open
    /\ t # None => start[t].phase = "live"
    /\ \A p \in Previews : t \notin preview[p].todo /\ route'.svc \notin preview[p].todo
    /\ \A k \in Keys : owner'[k].svc # None =>
          /\ owner'[k].svc = owner[k].svc /\ owner[k].svc # t /\ owner[k].svc # route'.svc
          /\ owner'[k].armed = owner[k].armed
    /\ route'.svc # None => route'.svc # t /\ start[route'.svc].phase = "live" /\ start[route'.svc].key = ServerKey
    /\ route'.status = "ready" => route'.svc # None
    /\ \A u \in Starts : u # t /\ (route.svc = u \/ \E k \in Keys : owner[k].svc = u) =>
          (route'.svc = u \/ \E k \in Keys : owner'[k].svc = u)

LEMMA DiscardedLeaves ==
    ASSUME IInv, NEW t \in Starts \cup {None}, preview' = preview, attempt' = attempt, startup' = startup,
           spent'.drops = spent.drops, TypeOK', Leaves(t)
    PROVE  IInv'
<1> USE NoneAssumption
<1>0. TypeOK BY DEF IInv
<1>1. /\ \A k \in Keys : attempt[k] \in Starts \cup {None} /\ owner[k].svc \in Starts \cup {None}
      /\ \A k \in Keys : owner[k].armed \in BOOLEAN
      /\ route'.svc \in Starts \cup {None} /\ startup \in Starts \cup {None}
      /\ \A p \in Previews : preview[p].todo \in SUBSET Starts
  BY <1>0 DEF TypeOK
<1>2. Whole'
  <2>1. \A u \in Starts : IF u = t THEN start'[u].phase = "over" /\ ~start'[u].open
                          ELSE start'[u].phase = start[u].phase /\ start'[u].key = start[u].key
                               /\ start'[u].print = start[u].print /\ start'[u].open = start[u].open
    BY DEF Leaves
  <2> QED BY <2>1 DEF IInv, Whole
<1>3. Placed'
  <2>1. \A k \in Keys : owner'[k].svc # None =>
            start'[owner'[k].svc].phase = "live" /\ start'[owner'[k].svc].key = k
    <3> SUFFICES ASSUME NEW k \in Keys, owner'[k].svc # None
                 PROVE  start'[owner'[k].svc].phase = "live" /\ start'[owner'[k].svc].key = k
      OBVIOUS
    <3>1. owner'[k].svc = owner[k].svc /\ owner[k].svc # t /\ owner[k].svc \in Starts BY <1>1 DEF Leaves
    <3>2. start[owner[k].svc].phase = "live" /\ start[owner[k].svc].key = k BY <3>1 DEF IInv, Placed
    <3> QED BY <3>1, <3>2 DEF Leaves
  <2>2. route'.svc # None => start'[route'.svc].phase = "live" /\ start'[route'.svc].key = ServerKey
    BY <1>1 DEF Leaves
  <2>3. \A p \in Previews : \A u \in preview[p].todo : start'[u].phase = "live"
    <3> SUFFICES ASSUME NEW p \in Previews, NEW u \in preview[p].todo PROVE start'[u].phase = "live"
      OBVIOUS
    <3>1. u \in Starts /\ u # t BY <1>1 DEF Leaves
    <3>2. start[u].phase = "live" BY DEF IInv, Placed
    <3> QED BY <3>1, <3>2 DEF Leaves
  <2>4. route'.status = "ready" => route'.svc # None BY DEF Leaves
  <2> QED BY <2>1, <2>2, <2>3, <2>4 DEF Placed
<1>4. Apart'
  <2>1. \A k \in Keys : owner'[k].svc # None => owner'[k].svc # route'.svc BY DEF Leaves
  <2>2. \A k \in Keys, p \in Previews : owner'[k].svc \notin preview[p].todo
    <3> TAKE k \in Keys, p \in Previews
    <3>1. owner[k].svc \notin preview[p].todo BY DEF IInv, Apart
    <3>2. None \notin preview[p].todo BY <1>1
    <3>3. owner'[k].svc \in {None, owner[k].svc} BY DEF Leaves
    <3> QED BY <3>1, <3>2, <3>3
  <2>3. \A p \in Previews : route'.svc \notin preview[p].todo BY DEF Leaves
  <2> QED BY <2>1, <2>2, <2>3 DEF IInv, Apart
<1>5. Registered'
  <2>1. \A k \in Keys : attempt[k] # None =>
           /\ start'[attempt[k]].phase \in Starting /\ start'[attempt[k]].key = k
           /\ attempt[k] # startup /\ owner'[k].svc = None
    <3> SUFFICES ASSUME NEW k \in Keys, attempt[k] # None
                 PROVE  /\ start'[attempt[k]].phase \in Starting /\ start'[attempt[k]].key = k
                        /\ attempt[k] # startup /\ owner'[k].svc = None
      OBVIOUS
    <3>1. /\ attempt[k] \in Starts /\ start[attempt[k]].phase \in Starting /\ start[attempt[k]].key = k
          /\ attempt[k] # startup /\ owner[k].svc = None
      BY <1>1 DEF IInv, Registered
    <3>2. attempt[k] # t BY <3>1 DEF Starting, Leaves
    <3> QED BY <3>1, <3>2 DEF Leaves
  <2>2. startup # None => start'[startup].phase \in {"connecting", "connected"} /\ start'[startup].key = ServerKey
    <3> SUFFICES ASSUME startup # None
                 PROVE  start'[startup].phase \in {"connecting", "connected"} /\ start'[startup].key = ServerKey
      OBVIOUS
    <3>1. startup \in Starts /\ start[startup].phase \in {"connecting", "connected"} /\ start[startup].key = ServerKey
      BY <1>1 DEF IInv, Registered
    <3> QED BY <3>1 DEF Leaves
  <2> QED BY <2>1, <2>2 DEF Registered
<1>6. NothingLeaks'
  <2> SUFFICES ASSUME NEW u \in Starts, start'[u].phase = "live"
               PROVE  \/ route'.svc = u
                      \/ \E k \in Keys : owner'[k].svc = u
                      \/ \E p \in Previews : u \in preview[p].todo
    BY DEF NothingLeaks
  <2>1. u # t /\ start[u].phase = "live" BY DEF Leaves
  <2>2. CASE route.svc = u \/ \E k \in Keys : owner[k].svc = u BY <2>1, <2>2 DEF Leaves
  <2>3. CASE \E p \in Previews : u \in preview[p].todo BY <2>3
  <2> QED BY <2>1, <2>2, <2>3 DEF IInv, NothingLeaks
<1>7. Planned' /\ AttemptsAreUnderWay' /\ OwnersAreCollected'
  <2>1. \A u \in Starts : start[u].phase = "unspawned" => start'[u].phase = "unspawned" BY DEF Leaves
  <2>2. \A p \in Previews : preview[p].at \in Starts /\ start'[preview[p].at].phase # "over" =>
           /\ start[preview[p].at].phase # "over"
           /\ start'[preview[p].at].key = start[preview[p].at].key
           /\ start'[preview[p].at].print = start[preview[p].at].print
    BY DEF Leaves
  <2>3. \A k \in Keys : attempt[k] # None /\ start[attempt[k]].phase \in {"connecting", "connected"} =>
           start'[attempt[k]].phase \in {"connecting", "connected"}
    BY <1>1 DEF Leaves
  <2>4. \A k \in Keys : owner'[k].svc # None =>
           owner'[k].armed \/ (owner'[k].svc = owner[k].svc /\ ~owner[k].armed)
    BY <1>1 DEF Leaves
  <2> QED BY <2>1, <2>2, <2>3, <2>4, PreviewsStay
<1> QED BY <1>2, <1>3, <1>4, <1>5, <1>6, <1>7 DEF IInv

LEMMA OneDiscarded ==
    ASSUME IInv, NEW t, start' = Discarded(start, {t})
    PROVE  /\ start' \in [Starts -> StartRec]
           /\ \A u \in Starts :
                IF u = t THEN start'[u].phase = "over" /\ ~start'[u].open
                ELSE /\ start'[u].phase = start[u].phase /\ start'[u].key = start[u].key
                     /\ start'[u].print = start[u].print /\ start'[u].open = start[u].open
<1>1. start \in [Starts -> StartRec] BY DEF IInv, TypeOK, StartRec
<1>2. /\ Discarded(start, {t}) \in [Starts -> StartRec]
      /\ \A u \in Starts : IF u \in {t} THEN Discarded(start, {t})[u].phase = "over" /\ ~Discarded(start, {t})[u].open
                           ELSE Discarded(start, {t})[u] = start[u]
  BY <1>1, DiscardedStarts
<1> QED BY <1>2

LEMMA CollectKeeps ==
    ASSUME IInv, NEW k \in Keys, Collect(k)
    PROVE  IInv'
<1> USE NoneAssumption
<1> DEFINE t == owner[k].svc
<1>0. TypeOK BY DEF IInv
<1>1. owner \in [Keys -> OwnerRec] /\ NoOwner \in OwnerRec /\ NoOwner.svc = None
  BY <1>0 DEF TypeOK, OwnerRec, NoOwner
<1>2. /\ owner' = [owner EXCEPT ![k] = NoOwner] /\ start' = Discarded(start, {t})
      /\ UNCHANGED <<attempt, preview, demand, route, startup, config, literal, spent>>
  BY DEF Collect
<1>3. /\ owner' \in [Keys -> OwnerRec] /\ owner'[k] = NoOwner /\ \A j \in Keys \ {k} : owner'[j] = owner[j]
  BY <1>1, <1>2
<1>4. t \in Starts \cup {None} BY <1>1 DEF OwnerRec
<1>5. t # None => /\ start[t].phase = "live" /\ t # route.svc
                  /\ start[t].key = k /\ \A j \in Keys : owner[j].svc = t => j = k
  BY DEF IInv, Placed, Apart
<1>6. \A p \in Previews : t \notin preview[p].todo BY DEF IInv, Apart
<1> HIDE DEF t
<1>7. /\ start' \in [Starts -> StartRec]
      /\ \A u \in Starts :
           IF u = t THEN start'[u].phase = "over" /\ ~start'[u].open
           ELSE /\ start'[u].phase = start[u].phase /\ start'[u].key = start[u].key
                /\ start'[u].print = start[u].print /\ start'[u].open = start[u].open
  BY <1>2, OneDiscarded
<1>8. TypeOK' BY <1>0, <1>2, <1>3, <1>7 DEF TypeOK, StartRec, OwnerRec
<1>9. \A j \in Keys : owner'[j].svc # None => owner'[j].svc = owner[j].svc /\ owner[j].svc # t
  <2> TAKE j \in Keys
  <2>1. CASE j = k BY <2>1, <1>1, <1>3
  <2>2. CASE j # k BY <2>2, <1>3, <1>5
  <2> QED BY <2>1, <2>2
<1>10. \A j \in Keys : owner'[j].svc # None => owner'[j].armed = owner[j].armed BY <1>1, <1>3
<1>11. /\ route'.svc # None => route'.svc # t /\ start[route'.svc].phase = "live" /\ start[route'.svc].key = ServerKey
       /\ route'.status = "ready" => route'.svc # None
       /\ \A p \in Previews : route'.svc \notin preview[p].todo
  BY <1>2, <1>5 DEF IInv, Placed, Apart
<1>12. \A j \in Keys : route'.svc # None => owner'[j].svc # route'.svc
  <2> TAKE j \in Keys
  <2>1. owner[j].svc # None => owner[j].svc # route.svc BY DEF IInv, Apart
  <2> QED BY <2>1, <1>2, <1>9
<1>13. \A u \in Starts : u # t /\ (route.svc = u \/ \E j \in Keys : owner[j].svc = u) =>
          (route'.svc = u \/ \E j \in Keys : owner'[j].svc = u)
  BY <1>2, <1>3 DEF t
<1>14. Leaves(t) BY <1>5, <1>6, <1>7, <1>9, <1>10, <1>11, <1>12, <1>13 DEF Leaves
<1> QED BY <1>2, <1>4, <1>8, <1>14, DiscardedLeaves

LEMMA DisconnectKeeps ==
    ASSUME IInv, Disconnect
    PROVE  IInv'
<1> USE NoneAssumption
<1> DEFINE t == route.svc
<1>0. TypeOK BY DEF IInv
<1>1. route' = Down /\ start' = Discarded(start, {t})
      /\ UNCHANGED <<owner, attempt, preview, demand, startup, config, literal, spent>>
  BY DEF Disconnect
<1>2. t \in Starts \cup {None} /\ \A p \in Previews : t \notin preview[p].todo
      /\ (t # None => start[t].phase = "live" /\ \A j \in Keys : owner[j].svc # t)
  BY <1>0 DEF IInv, Placed, Apart, TypeOK
<1>3. \A p \in Previews : preview[p].todo \in SUBSET Starts BY <1>0 DEF TypeOK
<1> HIDE DEF t
<1>4. /\ start' \in [Starts -> StartRec]
      /\ \A u \in Starts :
           IF u = t THEN start'[u].phase = "over" /\ ~start'[u].open
           ELSE /\ start'[u].phase = start[u].phase /\ start'[u].key = start[u].key
                /\ start'[u].print = start[u].print /\ start'[u].open = start[u].open
  BY <1>1, OneDiscarded
<1>5. Down.svc = None /\ Down.status = "down" BY DEF Down
<1>6. TypeOK' BY <1>0, <1>1, <1>4 DEF TypeOK, StartRec, Down
<1>7. \A j \in Keys : owner'[j].svc # None => owner'[j].svc = owner[j].svc /\ owner[j].svc # t
  BY <1>1 DEF IInv, Apart, t
<1>8. \A p \in Previews : route'.svc \notin preview[p].todo BY <1>1, <1>3, <1>5
<1>9. \A u \in Starts : u # t /\ (route.svc = u \/ \E j \in Keys : owner[j].svc = u) =>
          (route'.svc = u \/ \E j \in Keys : owner'[j].svc = u)
  BY <1>1 DEF t
<1>10. route'.svc = None /\ route'.status = "down" BY <1>1, <1>5
<1>11. \A j \in Keys : owner'[j].armed = owner[j].armed /\ owner'[j].svc = owner[j].svc BY <1>1
<1>a. \A j \in Keys : owner'[j].svc # None => owner[j].svc # route'.svc BY <1>7, <1>10
<1>b. t # None => start[t].phase = "live" BY DEF IInv, Placed, t
<1>12. Leaves(t) BY <1>2, <1>b, <1>4, <1>7, <1>8, <1>9, <1>10, <1>11, <1>a DEF Leaves
<1> QED BY <1>1, <1>2, <1>6, <1>12, DiscardedLeaves

LEMMA PromoteKeeps ==
    ASSUME IInv, NEW d \in Demands, Promote(d)
    PROVE  IInv'
<1> USE NoneAssumption, ServerKeyAssumption
<1> DEFINE t == route.svc
           s == owner[ServerKey].svc
<1>0. TypeOK BY DEF IInv
<1>1. /\ owner \in [Keys -> OwnerRec] /\ NoOwner \in OwnerRec /\ NoOwner.svc = None
      /\ start \in [Starts -> StartRec]
  BY <1>0 DEF TypeOK, OwnerRec, NoOwner, StartRec
<1>2. /\ owner' = [owner EXCEPT ![ServerKey] = NoOwner] /\ start' = Discarded(start, {t})
      /\ route' = [svc |-> s, status |-> "ready"] /\ demand' = [demand EXCEPT ![d] = Rest]
      /\ UNCHANGED <<attempt, preview, startup, config, literal, spent>>
  BY DEF Promote
<1>3. s # None BY DEF Promote, Promotable, Open
<1>4. /\ owner' \in [Keys -> OwnerRec] /\ owner'[ServerKey] = NoOwner
      /\ \A j \in Keys \ {ServerKey} : owner'[j] = owner[j]
  BY <1>1, <1>2
<1>5. /\ s \in Starts /\ start[s].phase = "live" /\ start[s].key = ServerKey /\ s # t
      /\ \A j \in Keys : owner[j].svc = s => j = ServerKey
      /\ \A p \in Previews : s \notin preview[p].todo
  BY <1>1, <1>3 DEF IInv, Placed, Apart, OwnerRec
<1>6. t \in Starts \cup {None} /\ \A p \in Previews : t \notin preview[p].todo
      /\ (t # None => start[t].phase = "live" /\ \A j \in Keys : owner[j].svc # t)
  BY <1>0 DEF IInv, Placed, Apart, TypeOK
<1>7. route'.svc = s /\ route'.status = "ready" BY <1>2
<1>8. demand' \in [Demands -> [pc : {"idle", "promote", "wait_preview", "prepare", "wait_startup"},
                               print : Prints \cup {None}, at : Starts \cup {None}]]
  BY <1>0, <1>2 DEF TypeOK, Rest
<1> HIDE DEF t
<1>9. /\ start' \in [Starts -> StartRec]
      /\ \A u \in Starts :
           IF u = t THEN start'[u].phase = "over" /\ ~start'[u].open
           ELSE /\ start'[u].phase = start[u].phase /\ start'[u].key = start[u].key
                /\ start'[u].print = start[u].print /\ start'[u].open = start[u].open
  BY <1>2, OneDiscarded
<1> HIDE DEF s
<1>10. TypeOK' BY <1>0, <1>2, <1>4, <1>5, <1>8, <1>9 DEF TypeOK, StartRec, OwnerRec
<1>11. \A j \in Keys : owner'[j].svc # None => owner'[j].svc = owner[j].svc /\ owner[j].svc # t
  <2> TAKE j \in Keys
  <2>1. CASE j = ServerKey BY <2>1, <1>1, <1>4
  <2>2. CASE j # ServerKey
    <3>1. owner'[j] = owner[j] BY <2>2, <1>4
    <3> QED BY <3>1 DEF IInv, Apart, t
  <2> QED BY <2>1, <2>2
<1>12. \A j \in Keys : owner'[j].svc # None => owner'[j].armed = owner[j].armed BY <1>1, <1>4
<1>13. \A j \in Keys : owner'[j].svc # s BY <1>1, <1>3, <1>4, <1>5
<1>14. \A u \in Starts : u # t /\ (route.svc = u \/ \E j \in Keys : owner[j].svc = u) =>
          (route'.svc = u \/ \E j \in Keys : owner'[j].svc = u)
  <2> SUFFICES ASSUME NEW u \in Starts, u # t, NEW j \in Keys, owner[j].svc = u, u # s
               PROVE  \E i \in Keys : owner'[i].svc = u
    BY <1>7 DEF t
  <2>1. j # ServerKey BY DEF s
  <2> QED BY <2>1, <1>4
<1>a. \A p \in Previews : t \notin preview[p].todo /\ route'.svc \notin preview[p].todo BY <1>5, <1>6, <1>7
<1>b. \A j \in Keys : owner'[j].svc # None => owner[j].svc # route'.svc BY <1>7, <1>11, <1>13
<1>c. t # None => start[t].phase = "live" BY DEF IInv, Placed, t
<1>15. Leaves(t) BY <1>3, <1>5, <1>7, <1>9, <1>11, <1>12, <1>14, <1>a, <1>b, <1>c DEF Leaves
<1> QED BY <1>2, <1>6, <1>10, <1>15, DiscardedLeaves

LEMMA OwnersFlagsKeep ==
    ASSUME IInv, NEW k \in Keys, Expire(k) \/ CollectTooEarly(k)
    PROVE  IInv'
<1> USE NoneAssumption
<1>0. TypeOK BY DEF IInv
<1>1. owner \in [Keys -> OwnerRec] /\ \A j \in Keys : owner[j].armed \in BOOLEAN BY <1>0 DEF TypeOK, OwnerRec
<1>2. UNCHANGED <<attempt, start, preview, demand, route, startup, config, literal, spent>> BY DEF Expire, CollectTooEarly
<1>3. owner' = [owner EXCEPT ![k].expired = TRUE] \/ owner' = [owner EXCEPT ![k].early = FALSE]
  BY DEF Expire, CollectTooEarly
<1>4. /\ owner' \in [Keys -> OwnerRec]
      /\ \A j \in Keys : owner'[j].svc = owner[j].svc /\ owner'[j].armed = owner[j].armed
  <2>1. owner'[k] = [owner[k] EXCEPT !.expired = TRUE] \/ owner'[k] = [owner[k] EXCEPT !.early = FALSE]
    BY <1>1, <1>3
  <2>2. owner[k] \in OwnerRec BY <1>1
  <2>3. owner'[k] \in OwnerRec /\ owner'[k].svc = owner[k].svc /\ owner'[k].armed = owner[k].armed
    BY <2>1, <2>2 DEF OwnerRec
  <2>4. \A j \in Keys \ {k} : owner'[j] = owner[j] BY <1>1, <1>3
  <2>5. owner' \in [Keys -> OwnerRec] BY <1>1, <1>3, <2>3, <2>4
  <2> QED BY <2>3, <2>4, <2>5
<1>5. TypeOK' BY <1>0, <1>2, <1>4 DEF TypeOK, OwnerRec
<1>6. Whole' BY <1>2 DEF IInv, Whole
<1>7. Placed' BY <1>2, <1>4 DEF IInv, Placed
<1>8. Apart' BY <1>2, <1>4 DEF IInv, Apart
<1>9. Registered' BY <1>2, <1>4 DEF IInv, Registered
<1>10. NothingLeaks' BY <1>2, <1>4 DEF IInv, NothingLeaks
<1>11. Planned' BY <1>2 DEF IInv, Planned
<1>12. AttemptsAreUnderWay' BY <1>2 DEF IInv, AttemptsAreUnderWay
<1>13. OwnersAreCollected' BY <1>2, <1>4 DEF IInv, OwnersAreCollected
<1> QED BY <1>5, <1>6, <1>7, <1>8, <1>9, <1>10, <1>11, <1>12, <1>13 DEF IInv

-----------------------------------------------------------------------------
(* The startups of the production route. *)
LEMMA OwnStartupKeeps ==
    ASSUME IInv, NEW d \in Demands, NEW t \in Starts, OwnStartup(d, t)
    PROVE  IInv'
<1> USE NoneAssumption, ServerKeyAssumption
<1> DEFINE told == IF startup = None THEN start ELSE Told(start, startup, "superseded")
           new == Launch(ServerKey, config, "connecting")
<1>0. TypeOK BY DEF IInv
<1>1. start \in [Starts -> StartRec] /\ config \in Prints /\ \A k \in Keys : owner[k].armed \in BOOLEAN
  BY <1>0 DEF TypeOK, StartRec
<1>2. /\ start' = [told EXCEPT ![t] = new] /\ startup' = t
      /\ route' = [route EXCEPT !.status = "initializing"]
      /\ demand' = [demand EXCEPT ![d] = [Rest EXCEPT !.pc = "wait_startup", !.at = t]]
      /\ UNCHANGED <<owner, attempt, preview, config, literal, spent>>
  BY DEF OwnStartup
<1>3. /\ start[t].phase = "over" /\ \A k \in Keys : owner[k].svc # t /\ attempt[k] # t
      /\ route.svc # t /\ startup # t /\ \A p \in Previews : preview[p].at # t /\ t \notin preview[p].todo
  BY DEF OwnStartup, Fresh, Held
<1>4. new \in StartRec /\ new.phase = "connecting" /\ new.key = ServerKey /\ new.print = config
  BY <1>1 DEF Launch, Over, StartRec
<1>5. /\ told \in [Starts -> StartRec]
      /\ \A u \in Starts : /\ told[u].phase = start[u].phase /\ told[u].key = start[u].key
                           /\ told[u].print = start[u].print /\ told[u].open = start[u].open
  <2>1. CASE startup = None BY <1>1, <2>1
  <2>2. CASE startup # None
    <3>1. /\ Told(start, startup, "superseded") \in [Starts -> StartRec]
          /\ \A u \in Starts : LET r == Told(start, startup, "superseded")[u]
                               IN  /\ r.phase = start[u].phase /\ r.key = start[u].key
                                   /\ r.print = start[u].print /\ r.open = start[u].open
      BY <1>1, ToldStarts
    <3> QED BY <2>2, <3>1
  <2> QED BY <2>1, <2>2
<1> HIDE DEF told, new
<1>6. /\ start' \in [Starts -> StartRec] /\ start'[t] = new
      /\ \A u \in Starts \ {t} : /\ start'[u].phase = start[u].phase /\ start'[u].key = start[u].key
                                 /\ start'[u].print = start[u].print /\ start'[u].open = start[u].open
  BY <1>2, <1>4, <1>5
<1>7. /\ route' \in [svc : Starts \cup {None}, status : {"down", "initializing", "ready"}]
      /\ route'.svc = route.svc /\ route'.status = "initializing"
  BY <1>0, <1>2 DEF TypeOK
<1>8. demand' \in [Demands -> [pc : {"idle", "promote", "wait_preview", "prepare", "wait_startup"},
                               print : Prints \cup {None}, at : Starts \cup {None}]]
  BY <1>0, <1>2 DEF TypeOK, Rest
<1>9. TypeOK' BY <1>0, <1>2, <1>6, <1>7, <1>8 DEF TypeOK, StartRec
<1>10. Whole' BY <1>1, <1>4, <1>6 DEF IInv, Whole
<1>11. \A k \in Keys : attempt[k] \in Starts \cup {None} /\ owner[k].svc \in Starts \cup {None}
  BY <1>0 DEF TypeOK
<1>12. Placed'
  <2>1. \A k \in Keys : owner[k].svc # None =>
            start'[owner[k].svc].phase = "live" /\ start'[owner[k].svc].key = k
    BY <1>3, <1>6, <1>11 DEF IInv, Placed
  <2>2. route.svc # None => start'[route.svc].phase = "live" /\ start'[route.svc].key = ServerKey
    BY <1>0, <1>3, <1>6 DEF IInv, Placed, TypeOK
  <2>3. \A p \in Previews : \A u \in preview[p].todo : start'[u].phase = "live"
    BY <1>0, <1>3, <1>6 DEF IInv, Placed, TypeOK
  <2> QED BY <1>2, <1>7, <2>1, <2>2, <2>3 DEF Placed
<1>13. Apart' BY <1>2, <1>7 DEF IInv, Apart
<1>14. Registered'
  <2>1. \A k \in Keys : attempt[k] # None =>
           /\ start'[attempt[k]].phase \in Starting /\ start'[attempt[k]].key = k
           /\ attempt[k] # t /\ owner[k].svc = None
    BY <1>3, <1>6, <1>11 DEF IInv, Registered
  <2> QED BY <1>2, <1>4, <1>6, <2>1 DEF Registered
<1>15. NothingLeaks'
  <2> SUFFICES ASSUME NEW u \in Starts, start'[u].phase = "live"
               PROVE  \/ route.svc = u
                      \/ \E k \in Keys : owner[k].svc = u
                      \/ \E p \in Previews : u \in preview[p].todo
    BY <1>2, <1>7 DEF NothingLeaks
  <2>1. start[u].phase = "live" BY <1>4, <1>6
  <2> QED BY <2>1 DEF IInv, NothingLeaks
<1>16. Planned' /\ AttemptsAreUnderWay' /\ OwnersAreCollected'
  <2>1. \A u \in Starts : start[u].phase = "unspawned" => start'[u].phase = "unspawned" BY <1>3, <1>6
  <2>2. \A p \in Previews : preview[p].at \in Starts /\ start'[preview[p].at].phase # "over" =>
           /\ start[preview[p].at].phase # "over"
           /\ start'[preview[p].at].key = start[preview[p].at].key
           /\ start'[preview[p].at].print = start[preview[p].at].print
    BY <1>3, <1>6
  <2>3. \A k \in Keys : attempt[k] # None /\ start[attempt[k]].phase \in {"connecting", "connected"} =>
           start'[attempt[k]].phase \in {"connecting", "connected"}
    BY <1>3, <1>6, <1>11
  <2> QED BY <1>1, <1>2, <2>1, <2>2, <2>3, PreviewsStay
<1> QED BY <1>9, <1>10, <1>12, <1>13, <1>14, <1>15, <1>16 DEF IInv

(* A startup that ends without its service in the route. *)
LEMMA StartupIsDiscarded ==
    ASSUME IInv, NEW t \in Starts, startup = t,
           NEW outcome \in {"none", "published", "failed", "superseded"},
           start' = Told(Discarded(start, {t}), t, outcome), startup' = None,
           route' = [route EXCEPT !.status = "down"],
           UNCHANGED <<owner, attempt, preview, demand, config, literal, spent>>
    PROVE  IInv'
<1> USE NoneAssumption
<1> DEFINE ds == Discarded(start, {t})
<1>0. TypeOK BY DEF IInv
<1>1. /\ start \in [Starts -> StartRec] /\ \A k \in Keys : attempt[k] \in Starts \cup {None}
      /\ \A k \in Keys : owner[k].armed \in BOOLEAN /\ owner[k].svc \in Starts \cup {None}
  BY <1>0 DEF TypeOK, StartRec
<1>2. /\ start[t].phase \in {"connecting", "connected"} /\ \A k \in Keys : attempt[k] # t
  BY DEF IInv, Registered
<1>3. /\ ds \in [Starts -> StartRec]
      /\ \A u \in Starts : IF u \in {t} THEN ds[u].phase = "over" /\ ~ds[u].open ELSE ds[u] = start[u]
  BY <1>1, DiscardedStarts
<1>4. start' = Told(ds, t, outcome) OBVIOUS
<1> HIDE DEF ds
<1>5. /\ Told(ds, t, outcome) \in [Starts -> StartRec]
      /\ \A u \in Starts :
            /\ Told(ds, t, outcome)[u].phase = ds[u].phase /\ Told(ds, t, outcome)[u].key = ds[u].key
            /\ Told(ds, t, outcome)[u].print = ds[u].print /\ Told(ds, t, outcome)[u].open = ds[u].open
  BY <1>3, ToldStarts
<1>6. /\ start' \in [Starts -> StartRec]
      /\ \A u \in Starts : IF u = t THEN start'[u].phase = "over" /\ ~start'[u].open
                           ELSE /\ start'[u].phase = start[u].phase /\ start'[u].key = start[u].key
                                /\ start'[u].print = start[u].print /\ start'[u].open = start[u].open
  BY <1>3, <1>4, <1>5
<1>7. /\ route' \in [svc : Starts \cup {None}, status : {"down", "initializing", "ready"}]
      /\ route'.svc = route.svc /\ route'.status = "down"
  BY <1>0 DEF TypeOK
<1>8. /\ \A j \in Keys : owner[j].svc # t
      /\ route.svc # t /\ \A p \in Previews : t \notin preview[p].todo
  <2>1. start[t].phase # "live" BY <1>2
  <2> QED BY <2>1, StartingIsNowhere
<1>9. TypeOK' BY <1>0, <1>6, <1>7 DEF TypeOK, StartRec
<1>10. Whole' BY <1>6 DEF IInv, Whole
<1>11. Placed'
  <2>1. \A k \in Keys : owner[k].svc # None =>
            start'[owner[k].svc].phase = "live" /\ start'[owner[k].svc].key = k
    <3> SUFFICES ASSUME NEW k \in Keys, owner[k].svc # None
                 PROVE  start'[owner[k].svc].phase = "live" /\ start'[owner[k].svc].key = k
      OBVIOUS
    <3>1. owner[k].svc \in Starts /\ owner[k].svc # t BY <1>1, <1>8
    <3>2. start[owner[k].svc].phase = "live" /\ start[owner[k].svc].key = k BY DEF IInv, Placed
    <3> QED BY <3>1, <3>2, <1>6
  <2>2. route.svc # None => start'[route.svc].phase = "live" /\ start'[route.svc].key = ServerKey
    BY <1>0, <1>6, <1>8 DEF IInv, Placed, TypeOK
  <2>3. \A p \in Previews : \A u \in preview[p].todo : start'[u].phase = "live"
    <3> SUFFICES ASSUME NEW p \in Previews, NEW u \in preview[p].todo PROVE start'[u].phase = "live"
      OBVIOUS
    <3>1. u \in Starts /\ u # t BY <1>0, <1>8 DEF TypeOK
    <3>2. start[u].phase = "live" BY DEF IInv, Placed
    <3> QED BY <3>1, <3>2, <1>6
  <2> QED BY <1>7, <2>1, <2>2, <2>3 DEF Placed
<1>12. Apart' BY <1>7 DEF IInv, Apart
<1>13. Registered'
  <2>1. \A k \in Keys : attempt[k] # None =>
           /\ start'[attempt[k]].phase \in Starting /\ start'[attempt[k]].key = k /\ owner[k].svc = None
    BY <1>1, <1>2, <1>6 DEF IInv, Registered
  <2> QED BY <2>1 DEF Registered
<1>14. NothingLeaks' BY <1>6, <1>7 DEF IInv, NothingLeaks
<1>15. Planned' /\ AttemptsAreUnderWay' /\ OwnersAreCollected'
  <2>1. \A u \in Starts : start[u].phase = "unspawned" => start'[u].phase = "unspawned" BY <1>2, <1>6
  <2>2. \A p \in Previews : preview[p].at \in Starts /\ start'[preview[p].at].phase # "over" =>
           /\ start[preview[p].at].phase # "over"
           /\ start'[preview[p].at].key = start[preview[p].at].key
           /\ start'[preview[p].at].print = start[preview[p].at].print
    BY <1>6
  <2>3. \A k \in Keys : attempt[k] # None /\ start[attempt[k]].phase \in {"connecting", "connected"} =>
           start'[attempt[k]].phase \in {"connecting", "connected"}
    BY <1>1, <1>2, <1>6
  <2> QED BY <1>1, <2>1, <2>2, <2>3, PreviewsStay
<1> QED BY <1>9, <1>10, <1>11, <1>12, <1>13, <1>14, <1>15 DEF IInv

LEMMA FailStartupKeeps ==
    ASSUME IInv, NEW t \in Starts, FailStartup(t)
    PROVE  IInv'
BY StartupIsDiscarded DEF FailStartup

LEMMA PublishStartupKeeps ==
    ASSUME IInv, NEW t \in Starts, PublishStartup(t)
    PROVE  IInv'
<1> USE NoneAssumption, ServerKeyAssumption
<1> DEFINE old == route.svc
           ds == Discarded(start, {old})
<1>0. TypeOK BY DEF IInv
<1>1. /\ start \in [Starts -> StartRec] /\ \A k \in Keys : attempt[k] \in Starts \cup {None}
      /\ \A k \in Keys : owner[k].armed \in BOOLEAN /\ owner[k].svc \in Starts \cup {None}
      /\ \A p \in Previews : preview[p].todo \in SUBSET Starts
  BY <1>0 DEF TypeOK, StartRec
<1>2. /\ startup = t /\ start[t].phase = "connected" /\ startup' = None
      /\ UNCHANGED <<owner, attempt, preview, demand, config, literal, spent>>
  BY DEF PublishStartup
<1>3. CASE config = start[t].print /\ route.status = "initializing"
  <2>1. /\ route' = [svc |-> t, status |-> "ready"]
        /\ start' = [ds EXCEPT ![t].phase = "live", ![t].outcome = "published"]
    BY <1>3 DEF PublishStartup
  <2>2. /\ start[t].key = ServerKey /\ \A k \in Keys : attempt[k] # t
    BY <1>2 DEF IInv, Registered
  <2>3. /\ \A j \in Keys : owner[j].svc # t
        /\ old # t /\ \A p \in Previews : t \notin preview[p].todo
    <3>1. start[t].phase # "live" BY <1>2
    <3> QED BY <3>1, StartingIsNowhere
  <2>4. /\ ds \in [Starts -> StartRec]
        /\ \A u \in Starts : IF u \in {old} THEN ds[u].phase = "over" /\ ~ds[u].open ELSE ds[u] = start[u]
    BY <1>1, DiscardedStarts
  <2>5. /\ old # None => start[old].phase = "live" /\ \A j \in Keys : owner[j].svc # old
        /\ \A p \in Previews : old \notin preview[p].todo
        /\ \A j \in Keys : owner[j].svc # None => owner[j].svc # old
        /\ old \in Starts \cup {None}
    BY <1>0 DEF IInv, Placed, Apart, TypeOK
  <2>a. route'.svc = t /\ route'.status = "ready" BY <2>1
  <2> HIDE DEF ds
  <2>6. /\ start' \in [Starts -> StartRec]
        /\ start'[t].phase = "live" /\ start'[t].key = start[t].key /\ start'[t].print = start[t].print
        /\ \A u \in Starts \ {t} :
              IF u = old THEN start'[u].phase = "over" /\ ~start'[u].open ELSE start'[u] = start[u]
    <3>1. start'[t] = [ds[t] EXCEPT !.phase = "live", !.outcome = "published"] BY <2>1, <2>4
    <3>2. ds[t] \in StartRec /\ ds[t] = start[t] BY <2>3, <2>4
    <3>3. /\ start'[t] \in StartRec /\ start'[t].phase = "live"
          /\ start'[t].key = start[t].key /\ start'[t].print = start[t].print
      BY <3>1, <3>2 DEF StartRec
    <3>4. \A u \in Starts \ {t} : start'[u] = ds[u] BY <2>1, <2>4
    <3>5. start' \in [Starts -> StartRec] BY <2>1, <2>4, <3>3, <3>4
    <3> QED BY <2>4, <3>3, <3>4, <3>5
  <2> HIDE DEF old
  <2>7. TypeOK' BY <1>0, <1>2, <2>1, <2>6 DEF TypeOK, StartRec
  <2>8. Whole' BY <2>2, <1>2, <2>6 DEF IInv, Whole
  <2>9. Placed'
    <3>1. \A k \in Keys : owner[k].svc # None =>
              start'[owner[k].svc].phase = "live" /\ start'[owner[k].svc].key = k
      BY <1>1, <2>3, <2>5, <2>6 DEF IInv, Placed
    <3>2. \A p \in Previews : \A u \in preview[p].todo : start'[u].phase = "live"
      BY <1>1, <2>3, <2>5, <2>6 DEF IInv, Placed
    <3> QED BY <1>2, <2>2, <2>a, <2>6, <3>1, <3>2 DEF Placed
  <2>10. Apart' BY <1>2, <2>3, <2>a DEF IInv, Apart
  <2>11. Registered'
    <3>1. \A k \in Keys : attempt[k] # None =>
             /\ start'[attempt[k]].phase \in Starting /\ start'[attempt[k]].key = k /\ owner[k].svc = None
      <4> SUFFICES ASSUME NEW k \in Keys, attempt[k] # None
                   PROVE  /\ start'[attempt[k]].phase \in Starting /\ start'[attempt[k]].key = k /\ owner[k].svc = None
        OBVIOUS
      <4>1. /\ attempt[k] \in Starts /\ start[attempt[k]].phase \in Starting /\ start[attempt[k]].key = k
            /\ attempt[k] # t /\ owner[k].svc = None
        BY <1>1, <2>2 DEF IInv, Registered
      <4>2. attempt[k] # old BY <2>5, <4>1 DEF Starting
      <4> QED BY <2>6, <4>1, <4>2
    <3> QED BY <1>2, <3>1 DEF Registered
  <2>12. NothingLeaks'
    <3> SUFFICES ASSUME NEW u \in Starts, start'[u].phase = "live", u # t
                 PROVE  \/ \E k \in Keys : owner[k].svc = u
                        \/ \E p \in Previews : u \in preview[p].todo
      BY <1>2, <2>a DEF NothingLeaks
    <3>1. start[u].phase = "live" /\ u # route.svc BY <2>6 DEF old
    <3> QED BY <3>1 DEF IInv, NothingLeaks
  <2>13. Planned' /\ AttemptsAreUnderWay' /\ OwnersAreCollected'
    <3>1. \A u \in Starts : start[u].phase = "unspawned" => start'[u].phase = "unspawned" BY <1>2, <2>5, <2>6
    <3>2. \A p \in Previews : preview[p].at \in Starts /\ start'[preview[p].at].phase # "over" =>
             /\ start[preview[p].at].phase # "over"
             /\ start'[preview[p].at].key = start[preview[p].at].key
             /\ start'[preview[p].at].print = start[preview[p].at].print
      BY <1>2, <2>6
    <3>3. \A k \in Keys : attempt[k] # None /\ start[attempt[k]].phase \in {"connecting", "connected"} =>
             start'[attempt[k]].phase \in {"connecting", "connected"}
      BY <1>1, <2>2, <2>5, <2>6
    <3> QED BY <1>1, <1>2, <3>1, <3>2, <3>3, PreviewsStay
  <2> QED BY <2>7, <2>8, <2>9, <2>10, <2>11, <2>12, <2>13 DEF IInv
<1>4. CASE ~(config = start[t].print /\ route.status = "initializing")
  <2>1. /\ route' = [route EXCEPT !.status = "down"]
        /\ start' = Told(Discarded(start, {t}), t, "superseded")
    BY <1>4 DEF PublishStartup
  <2> QED BY <1>2, <2>1, StartupIsDiscarded
<1> QED BY <1>3, <1>4

-----------------------------------------------------------------------------
(* A demand that only looks, or waits. *)
LEMMA DemandLooksKeeps ==
    ASSUME IInv, NEW d \in Demands,
           \/ Check(d) \/ NoPromotion(d) \/ Ready(d) \/ JoinStartup(d) \/ DemandHears(d)
    PROVE  IInv'
<1> USE NoneAssumption, ServerKeyAssumption
<1> DEFINE Rec == [pc : {"idle", "promote", "wait_preview", "prepare", "wait_startup"},
                   print : Prints \cup {None}, at : Starts \cup {None}]
<1>0. TypeOK BY DEF IInv
<1>1. /\ demand \in [Demands -> Rec] /\ Rest \in Rec /\ config \in Prints /\ startup \in Starts \cup {None}
      /\ attempt[ServerKey] \in Starts \cup {None}
      /\ spent \in [requests : Nat, rotations : Nat, faults : Nat, drops : Nat]
  BY <1>0 DEF TypeOK, Rest
<1>2. UNCHANGED <<owner, attempt, start, preview, route, startup, config, literal>>
  BY DEF Check, NoPromotion, Ready, JoinStartup, DemandHears
<1>3. spent' = spent \/ spent' = [spent EXCEPT !["requests"] = @ + 1]
  BY DEF Check, NoPromotion, Ready, JoinStartup, DemandHears, Spend
<1>4. spent' \in [requests : Nat, rotations : Nat, faults : Nat, drops : Nat] /\ spent'.drops = spent.drops
  BY <1>1, <1>3
<1>5. \E r \in Rec : demand' = [demand EXCEPT ![d] = r]
  <2>1. CASE Check(d)
    <3>1. [Rest EXCEPT !.pc = "prepare"] \in Rec /\ [Rest EXCEPT !.pc = "promote", !.print = config] \in Rec
      BY <1>1 DEF Rest
    <3> QED BY <2>1, <3>1 DEF Check
  <2>2. CASE NoPromotion(d)
    <3>1. demand[d] \in Rec BY <1>1
    <3>2. /\ [Rest EXCEPT !.pc = "prepare"] \in Rec
          /\ [demand[d] EXCEPT !.pc = "wait_preview", !.at = attempt[ServerKey]] \in Rec
      BY <1>1, <3>1 DEF Rest
    <3> QED BY <1>1, <2>2, <3>2 DEF NoPromotion
  <2>3. CASE Ready(d) BY <1>1, <2>3 DEF Ready
  <2>4. CASE JoinStartup(d)
    <3>1. [Rest EXCEPT !.pc = "wait_startup", !.at = startup] \in Rec BY <1>1 DEF Rest
    <3> QED BY <2>4, <3>1 DEF JoinStartup
  <2>5. CASE DemandHears(d)
    <3>1. demand[d] \in Rec BY <1>1
    <3>2. [Rest EXCEPT !.pc = "prepare"] \in Rec /\ [demand[d] EXCEPT !.pc = "promote", !.at = None] \in Rec
      BY <1>1, <3>1 DEF Rest
    <3> QED BY <1>1, <2>5, <3>2 DEF DemandHears
  <2> QED BY <2>1, <2>2, <2>3, <2>4, <2>5
<1>6. demand' \in [Demands -> Rec] BY <1>1, <1>5
<1>7. TypeOK' BY <1>0, <1>2, <1>4, <1>6 DEF TypeOK
<1> QED BY <1>2, <1>4, <1>7, NothingMoves

LEMMA RotateKeeps ==
    ASSUME IInv, Rotate
    PROVE  IInv'
<1>1. spent \in [requests : Nat, rotations : Nat, faults : Nat, drops : Nat] BY DEF IInv, TypeOK
<1>2. /\ spent' = [spent EXCEPT !["rotations"] = @ + 1] /\ config' \in Prints
      /\ UNCHANGED <<owner, attempt, start, preview, demand, route, startup, literal>>
  BY DEF Rotate, Spend
<1>3. spent' \in [requests : Nat, rotations : Nat, faults : Nat, drops : Nat] /\ spent'.drops = spent.drops
  BY <1>1, <1>2
<1>4. TypeOK' BY <1>2, <1>3 DEF IInv, TypeOK
<1> QED BY <1>2, <1>3, <1>4, NothingMoves

LEMMA ReloadKeeps ==
    ASSUME IInv, Reload
    PROVE  IInv'
<1>1. /\ spent \in [requests : Nat, rotations : Nat, faults : Nat, drops : Nat]
      /\ route \in [svc : Starts \cup {None}, status : {"down", "initializing", "ready"}]
  BY DEF IInv, TypeOK
<1>2. /\ spent' = [spent EXCEPT !["rotations"] = @ + 1] /\ config' \in Prints
      /\ route' = route \/ route' = [route EXCEPT !.status = "down"]
      /\ UNCHANGED <<owner, attempt, start, preview, demand, startup, literal>>
  BY DEF Reload, Spend
<1>3. spent' \in [requests : Nat, rotations : Nat, faults : Nat, drops : Nat] /\ spent'.drops = spent.drops
  BY <1>1, <1>2
<1>4. /\ route' \in [svc : Starts \cup {None}, status : {"down", "initializing", "ready"}]
      /\ route'.svc = route.svc /\ (route'.status = "ready" => route.status = "ready")
  BY <1>1, <1>2
<1>5. TypeOK' BY <1>2, <1>3, <1>4 DEF IInv, TypeOK
<1> QED BY <1>2, <1>3, <1>4, <1>5, NothingMoves

-----------------------------------------------------------------------------
LEMMA InitEstablishes == Init => IInv
<1> USE NoneAssumption
<1> SUFFICES ASSUME Init PROVE IInv OBVIOUS
<1>1. /\ \A k \in Keys : owner[k] = NoOwner /\ attempt[k] = None
      /\ \A t \in Starts : start[t] = Over
      /\ \A p \in Previews : preview[p] = Asleep
      /\ route = Down /\ startup = None
  BY DEF Init
<1>2. /\ NoOwner.svc = None /\ Over.phase = "over" /\ Over.open = FALSE
      /\ Asleep.pc = "idle" /\ Asleep.plan = "none" /\ Asleep.todo = {} /\ Asleep.at = None
      /\ Down.svc = None /\ Down.status = "down"
  BY DEF NoOwner, Over, Asleep, Down
<1>3. TypeOK BY DEF Init, TypeOK, NoOwner, Over, Asleep, Rest, Down
<1>4. Whole /\ Placed /\ Apart /\ Registered /\ Planned
  BY <1>1, <1>2 DEF Whole, Placed, Apart, Registered, Planned
<1>5. NothingLeaks /\ AttemptsAreUnderWay /\ OwnersAreCollected
  BY <1>1, <1>2 DEF NothingLeaks, AttemptsAreUnderWay, OwnersAreCollected
<1> QED BY <1>3, <1>4, <1>5 DEF IInv

LEMMA StutterKeeps ==
    ASSUME IInv, UNCHANGED vars
    PROVE  IInv'
<1>1. TypeOK' BY DEF IInv, TypeOK, vars
<1> QED BY <1>1, NothingMoves DEF vars

LEMMA NextKeeps == IInv /\ [Next]_vars => IInv'
<1> SUFFICES ASSUME IInv, [Next]_vars PROVE IInv' OBVIOUS
<1>1. CASE \E p \in Previews, k \in Keys, f \in Prints : Ask(p, k, f) BY <1>1, AskKeeps
<1>2. CASE \E p \in Previews, t \in Starts : Own(p, t) BY <1>2, OwnKeeps
<1>3. CASE \E p \in Previews : \/ Reuse(p) \/ JoinPreview(p) \/ UseProduction(p) \/ Discard(p) \/ Heard(p)
                               \/ Discovered(p) \/ Drop(p)
  BY <1>3, ReuseKeeps, JoinPreviewKeeps, UseProductionKeeps, DiscardKeeps, HeardKeeps, DropKeeps
<1>4. CASE \E t \in Starts : \/ Connects(t) \/ PublishOwner(t) \/ FailOwner(t) \/ Closes(t)
                             \/ PublishStartup(t) \/ FailStartup(t)
  BY <1>4, ConnectsKeeps, PublishOwnerKeeps, FailOwnerKeeps, ClosesKeeps, PublishStartupKeeps, FailStartupKeeps
<1>5. CASE \E k \in Keys : Expire(k) \/ Collect(k) \/ CollectTooEarly(k)
  BY <1>5, OwnersFlagsKeep, CollectKeeps
<1>6. CASE \E d \in Demands : \/ Check(d) \/ Promote(d) \/ NoPromotion(d) \/ Ready(d) \/ JoinStartup(d)
                              \/ DemandHears(d)
  BY <1>6, DemandLooksKeeps, PromoteKeeps
<1>7. CASE \E d \in Demands, t \in Starts : OwnStartup(d, t) BY <1>7, OwnStartupKeeps
<1>8. CASE Disconnect BY <1>8, DisconnectKeeps
<1>9. CASE Rotate BY <1>9, RotateKeeps
<1>10. CASE Reload BY <1>10, ReloadKeeps
<1>11. CASE UNCHANGED vars BY <1>11, StutterKeeps
<1> QED BY <1>1, <1>2, <1>3, <1>4, <1>5, <1>6, <1>7, <1>8, <1>9, <1>10, <1>11 DEF Next

(* The inductive invariant, of every behaviour. *)
THEOREM PreviewInvariant == Spec => []IInv
<1> QED BY InitEstablishes, NextKeeps, PTL DEF Spec

(* Preview, demand and collection keep every value within its type. *)
THEOREM PreviewTypeCorrect == Spec => []TypeOK
<1>1. IInv => TypeOK BY DEF IInv
<1> QED BY <1>1, PreviewInvariant, PTL

(* A service belongs to one owner, or to the production route: promotion moves it. *)
THEOREM OwnersInOnePlace == Spec => []OnePlace
<1> USE NoneAssumption
<1>1. IInv => OnePlace
  <2> SUFFICES ASSUME IInv PROVE OnePlace OBVIOUS
  <2>1. \A k \in Keys : owner[k].svc # None =>
           /\ attempt[k] = None /\ start[owner[k].svc].phase = "live" /\ owner[k].svc # route.svc
           /\ \A j \in Keys \ {k} : owner[j].svc # owner[k].svc
    BY DEF IInv, Placed, Apart, Registered
  <2>2. route.status = "ready" => start[route.svc].phase = "live" BY DEF IInv, Placed
  <2> QED BY <2>1, <2>2 DEF OnePlace
<1> QED BY <1>1, PreviewInvariant, PTL

(* No upstream that was published is forgotten, whatever expires, closes, is rotated or dropped. *)
THEOREM NothingIsLeaked == Spec => []NothingLeaks
<1>1. IInv => NothingLeaks BY DEF IInv
<1> QED BY <1>1, PreviewInvariant, PTL

(* Without dropped requests, what a preview joins is under way. *)
THEOREM AttemptsRun == Spec => []AttemptsAreUnderWay
<1>1. IInv => AttemptsAreUnderWay BY DEF IInv
<1> QED BY <1>1, PreviewInvariant, PTL

(* Without dropped requests, a task will collect every owner that is not renewed. *)
THEOREM OwnersGetCollected == Spec => []OwnersAreCollected
<1>1. IInv => OwnersAreCollected BY DEF IInv
<1> QED BY <1>1, PreviewInvariant, PTL

(* A preview sees the capabilities of what it asked to launch. *)
THEOREM OwnLaunchDiscovered == Spec => []DiscoversOwnLaunch
<1>1. IInv => DiscoversOwnLaunch
  <2> SUFFICES ASSUME IInv, NEW p \in Previews, preview[p].pc = "discover", Open(preview[p].at)
               PROVE  Runs(preview[p].at, preview[p].print)
    BY DEF DiscoversOwnLaunch
  <2>1. preview[p].at \in Starts /\ preview[p].at # None /\ start[preview[p].at].open
    BY DEF IInv, Planned, Open
  <2>2. start[preview[p].at].phase # "over" BY <2>1 DEF IInv, Whole
  <2> QED BY <2>1, <2>2 DEF IInv, Planned, Runs
<1> QED BY <1>1, PreviewInvariant, PTL

(* What production takes runs the configuration of that moment, by startup or by promotion. *)
THEOREM ProductionStaysCurrent == Spec => ProductionIsCurrent
<1> USE NoneAssumption, ServerKeyAssumption
<1> DEFINE Current == route'.svc \notin {route.svc, None} => start'[route'.svc].print = config'
<1>1. IInv /\ [Next]_vars => [Current]_vars
  <2> SUFFICES ASSUME IInv, [Next]_vars, route'.svc # route.svc, route'.svc # None
               PROVE  start'[route'.svc].print = config'
    OBVIOUS
  <2>0. /\ start \in [Starts -> StartRec] /\ owner \in [Keys -> OwnerRec]
        /\ route \in [svc : Starts \cup {None}, status : {"down", "initializing", "ready"}]
    BY DEF IInv, TypeOK, StartRec, OwnerRec
  <2>1. \/ \E t \in Starts : PublishStartup(t)
        \/ \E d \in Demands : Promote(d)
    <3>1. CASE route' = route BY <3>1
    <3>2. CASE route' # route
      <4>1. \/ \E t \in Starts : PublishStartup(t) \/ FailStartup(t)
            \/ \E d \in Demands : Promote(d)
            \/ \E d \in Demands, t \in Starts : OwnStartup(d, t)
            \/ Disconnect \/ Reload
        BY <3>2 DEF Next, vars, Ask, Own, Reuse, JoinPreview, UseProduction, Discard, Heard, Discovered, Drop,
                    Connects, PublishOwner, FailOwner, Closes, Expire, Collect, CollectTooEarly, Check,
                    NoPromotion, Ready, JoinStartup, DemandHears, Rotate
      <4>2. CASE \E t \in Starts : FailStartup(t) BY <2>0, <4>2 DEF FailStartup
      <4>3. CASE \E d \in Demands, t \in Starts : OwnStartup(d, t) BY <2>0, <4>3 DEF OwnStartup
      <4>4. CASE Disconnect BY <4>4 DEF Disconnect, Down
      <4>5. CASE Reload BY <2>0, <4>5 DEF Reload
      <4> QED BY <4>1, <4>2, <4>3, <4>4, <4>5
    <3> QED BY <3>1, <3>2
  <2>2. CASE \E d \in Demands : Promote(d)
    <3> DEFINE s == owner[ServerKey].svc
    <3>1. /\ start' = Discarded(start, {route.svc}) /\ route'.svc = s /\ config' = config
          /\ s # None /\ start[s].print = config /\ s # route.svc
      BY <2>2 DEF Promote, Promotable, Open, Runs
    <3>2. s \in Starts BY <2>0, <3>1 DEF OwnerRec
    <3>3. start'[s] = start[s] BY <2>0, <3>1, <3>2 DEF Discarded
    <3> QED BY <3>1, <3>3
  <2>3. CASE \E t \in Starts : PublishStartup(t)
    <3>1. PICK t \in Starts : PublishStartup(t) BY <2>3
    <3>2. CASE config = start[t].print /\ route.status = "initializing"
      <4> DEFINE ds == Discarded(start, {route.svc})
      <4>1. /\ route' = [svc |-> t, status |-> "ready"] /\ config' = config
            /\ start' = [ds EXCEPT ![t].phase = "live", ![t].outcome = "published"]
        BY <3>1, <3>2 DEF PublishStartup
      <4>2. route'.svc = t /\ t # route.svc BY <4>1
      <4>3. ds \in [Starts -> StartRec] /\ ds[t] = start[t]
        <5>1. /\ ds \in [Starts -> StartRec]
              /\ \A u \in Starts : IF u \in {route.svc} THEN ds[u].phase = "over" /\ ~ds[u].open ELSE ds[u] = start[u]
          BY <2>0, DiscardedStarts
        <5> QED BY <4>2, <5>1
      <4> HIDE DEF ds
      <4>4. start'[t] = [ds[t] EXCEPT !.phase = "live", !.outcome = "published"] BY <4>1, <4>3
      <4>5. start'[t].print = start[t].print BY <4>3, <4>4 DEF StartRec
      <4> QED BY <3>2, <4>1, <4>2, <4>5
    <3>3. CASE ~(config = start[t].print /\ route.status = "initializing")
      <4>1. route' = [route EXCEPT !.status = "down"] BY <3>1, <3>3 DEF PublishStartup
      <4> QED BY <2>0, <4>1
    <3> QED BY <3>2, <3>3
  <2> QED BY <2>1, <2>2, <2>3
<1> QED BY <1>1, PreviewInvariant, PTL DEF Spec, ProductionIsCurrent
=============================================================================
