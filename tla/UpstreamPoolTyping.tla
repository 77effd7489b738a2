------------------------- MODULE UpstreamPoolTyping -------------------------
(***************************************************************************)
(* Type correctness of the connection pool, for any number of requests,    *)
(* keys, instances, attempts and reconnects.                               *)
(*                                                                         *)
(* TypeOK is not inductive by itself.  A request that decides has a key    *)
(* and has not used up its tries; an attempt names its instance, its key   *)
(* and the runtimes it was made for, and so does a health reconnect that   *)
(* connects; and the owner of an attempt waits for that attempt, so that   *)
(* the outcome sent to it puts nobody else back to deciding.  Typed is     *)
(* TypeOK with these four facts.                                           *)
(***************************************************************************)
EXTENDS UpstreamPool, TLAPS

\* What is known of a request beyond its type.
CallerNamed(x) ==
    /\ x.pc = "deciding" => x.tries < MaxTries
    /\ x.pc \in {"deciding", "waiting"} => x.key \in Keys
    /\ x.pc = "waiting" => x.task \in Attempts
CallersNamed == \A c \in Callers : CallerNamed(callers[c])
\* What an attempt was started with is known until its task ends.
AttemptsNamed ==
    \A t \in Attempts : tasks[t].phase # "free" =>
        /\ tasks[t].rt \in Runtime /\ tasks[t].inst \in Instances /\ tasks[t].key \in Keys
        /\ tasks[t].phase = "connecting" => tasks[t].made \in Runtime
\* So is what a health reconnect connects.
ReconnectsNamed ==
    \A h \in Reconnects : recon[h].phase = "connecting" =>
        recon[h].rt \in Runtime /\ recon[h].inst \in Instances

\* The owner of an attempt waits for the outcome of that attempt.
OwnersWait ==
    \A t \in Attempts, c \in Callers : tasks[t].owner = c =>
        callers[c].pc = "waiting" /\ callers[c].task = t

\* The inductive invariant.
Typed == TypeOK /\ CallersNamed /\ AttemptsNamed /\ ReconnectsNamed /\ OwnersWait

\* An instance whose fields are replaced is still an instance.
LEMMA InstanceUpdates ==
    ASSUME NEW x \in Instance, NEW status \in Status
    PROVE  /\ [x EXCEPT !.status = status] \in Instance
           /\ \A s \in Opt(Services) : [x EXCEPT !.status = status, !.svc = s] \in Instance
           /\ \A rt \in Runtime, s \in Opt(Services) :
                  [x EXCEPT !.status = status, !.svc = s, !.rt = rt] \in Instance
           /\ \A k \in Opt(Keys) : [x EXCEPT !.place = k] \in Instance
<1>1. [x EXCEPT !.status = status] \in Instance
  BY DEF Instance
<1>2. ASSUME NEW s \in Opt(Services)
      PROVE  [x EXCEPT !.status = status, !.svc = s] \in Instance
  BY ZenonT(30) DEF Instance
<1>3. ASSUME NEW rt \in Runtime, NEW s \in Opt(Services)
      PROVE  [x EXCEPT !.status = status, !.svc = s, !.rt = rt] \in Instance
  <2>1. rt \in Opt(Runtime)
    BY DEF Opt
  <2> QED BY <2>1, ZenonT(30) DEF Instance
<1>4. ASSUME NEW k \in Opt(Keys)
      PROVE  [x EXCEPT !.place = k] \in Instance
  BY ZenonT(30) DEF Instance
<1> QED BY <1>1, <1>2, <1>3, <1>4

\* The placeholder of any key is an instance.
LEMMA PlaceholderTyped ==
    ASSUME NEW k \in Keys
    PROVE  Absent \in Instance /\ Placeholder(k) \in Instance
<1>1. None \in Opt(Keys) /\ k \in Opt(Keys) /\ None \in Opt(Services) /\ None \in Opt(Runtime)
  BY DEF Opt
<1>2. "Idle" \in Status
  BY DEF Status
<1>3. Absent \in Instance
  BY <1>1, <1>2, ZenonT(30) DEF Absent, Instance
<1> QED BY <1>1, <1>3, InstanceUpdates, <1>2 DEF Placeholder

\* An id that is chosen is one of its kind, when there is one to choose.
LEMMA FreshIds ==
    /\ FreeInstances # {} => FreshInstance \in Instances
    /\ FreeServices # {} => FreshService \in Services
    /\ FreeAttempts # {} => FreshAttempt \in Attempts
BY DEF FreshInstance, FreshService, FreshAttempt, FreeInstances, NotInFlight, FreeServices,
       FreeAttempts

\* An instance that becomes ready is an instance.
LEMMA ServedTyped ==
    ASSUME NEW x \in Instance, NEW rt \in Runtime, FreeServices # {}
    PROVE  Served(x, rt) \in Instance
<1>1. FreshService \in Opt(Services)
  BY FreshIds DEF Opt
<1>2. "Ready" \in Status
  BY DEF Status
<1> QED BY <1>1, <1>2, InstanceUpdates DEF Served

\* A request that is not in flight waits for nothing and has no tries.
LEMMA IdleTyped == Idle \in Caller /\ Idle.pc = "idle" /\ Idle.tries = 0 /\ 0 < MaxTries
<1>1. 0 \in 0..MaxTries /\ 0 \in Nat /\ 0 < MaxTries
  BY BoundsAreNumbers
<1>2. None \in Opt(Keys) /\ None \in Opt(Attempts) /\ None \in Opt(Versions)
  BY DEF Opt
<1>3. Idle \in Caller
  BY <1>1, <1>2, ZenonT(30) DEF Idle, Caller
<1> QED BY <1>1, <1>3 DEF Idle

\* A request whose fields are replaced is still a request.
LEMMA CallerUpdates ==
    ASSUME NEW x \in Caller
    PROVE  /\ \A k \in Keys : [x EXCEPT !.pc = "deciding", !.key = k] \in Caller
           /\ \A n \in Nat : [x EXCEPT !.pc = "captured", !.gen = n] \in Caller
           /\ \A v \in Opt(Versions) : [x EXCEPT !.pc = "loaded", !.load = v] \in Caller
           /\ [x EXCEPT !.pc = "deciding", !.task = None] \in Caller
           /\ [x EXCEPT !.pc = "panicked"] \in Caller
           /\ \A t \in Opt(Attempts), n \in 0..MaxTries :
                 [x EXCEPT !.pc = "waiting", !.tries = n, !.task = t] \in Caller
<1>1. ASSUME NEW k \in Keys
      PROVE  [x EXCEPT !.pc = "deciding", !.key = k] \in Caller
  <2>1. k \in Opt(Keys) BY DEF Opt
  <2> QED BY <2>1, ZenonT(30) DEF Caller
<1>2. ASSUME NEW n \in Nat
      PROVE  [x EXCEPT !.pc = "captured", !.gen = n] \in Caller
  BY ZenonT(30) DEF Caller
<1>3. ASSUME NEW v \in Opt(Versions)
      PROVE  [x EXCEPT !.pc = "loaded", !.load = v] \in Caller
  BY ZenonT(30) DEF Caller
<1>4. [x EXCEPT !.pc = "deciding", !.task = None] \in Caller
  <2>1. None \in Opt(Attempts) BY DEF Opt
  <2> QED BY <2>1, ZenonT(30) DEF Caller
<1>5. [x EXCEPT !.pc = "panicked"] \in Caller
  BY ZenonT(30) DEF Caller
<1>6. ASSUME NEW t \in Opt(Attempts), NEW n \in 0..MaxTries
      PROVE  [x EXCEPT !.pc = "waiting", !.tries = n, !.task = t] \in Caller
  BY ZenonT(30) DEF Caller
<1> QED BY <1>1, <1>2, <1>3, <1>4, <1>5, <1>6

\* Answering requests that wait leaves every request as it should be.
LEMMA AnswerTyped ==
    ASSUME Typed, NEW who, NEW outcome,
           \A c \in who \cap Callers : callers[c].pc = "waiting"
    PROVE  /\ Answer(who, outcome) \in [Callers -> Caller]
           /\ \A c \in Callers : CallerNamed(Answer(who, outcome)[c])
<1>1. ASSUME NEW c \in Callers
      PROVE  Answer(who, outcome)[c] \in Caller /\ CallerNamed(Answer(who, outcome)[c])
  <2>1. callers[c] \in Caller /\ CallerNamed(callers[c])
    BY DEF Typed, TypeOK, CallersNamed
  <2>2. CASE c \in who
    <3>1. CASE outcome = "superseded" /\ callers[c].tries < MaxTries
      <4> DEFINE w == [callers[c] EXCEPT !.pc = "deciding", !.task = None]
      <4>1. Answer(who, outcome)[c] = w
        BY <2>2, <3>1 DEF Answer, After
      <4>2. w \in Caller
        BY <2>1, CallerUpdates
      <4>3. w.pc = "deciding" /\ w.tries = callers[c].tries /\ w.key = callers[c].key
        BY <2>1 DEF Caller
      <4>4. callers[c].key \in Keys
        BY <2>1, <2>2 DEF CallerNamed
      <4> HIDE DEF w
      <4> QED BY <3>1, <4>1, <4>2, <4>3, <4>4 DEF CallerNamed
    <3>2. CASE ~(outcome = "superseded" /\ callers[c].tries < MaxTries)
      BY <2>2, <3>2, IdleTyped DEF Answer, After, CallerNamed
    <3> QED BY <3>1, <3>2
  <2>3. CASE c \notin who
    BY <2>1, <2>3 DEF Answer
  <2> QED BY <2>2, <2>3
<1> QED BY <1>1 DEF Answer

\* Only services are cancelled.
LEMMA CancelTyped == ASSUME NEW S, Cancel(S) PROVE cancelled' \subseteq Services
BY DEF Cancel

\* The pool's configuration and secrets are a runtime.
LEMMA CurrentTyped == ASSUME Typed PROVE Current \in Runtime
BY DEF Typed, TypeOK, Current, Runtime

\* An attempt whose fields are replaced is still an attempt.
LEMMA AttemptUpdates ==
    ASSUME NEW x \in Attempt
    PROVE  /\ \A rt \in Runtime : [x EXCEPT !.phase = "connecting", !.made = rt] \in Attempt
           /\ \A s \in Opt(Services), o \in {"published", "failed", "superseded"} :
                 [x EXCEPT !.phase = "discarding", !.held = s, !.outcome = o] \in Attempt
           /\ [x EXCEPT !.phase = "panicked", !.held = None] \in Attempt
           /\ [x EXCEPT !.owner = None] \in Attempt
<1>1. ASSUME NEW rt \in Runtime
      PROVE  [x EXCEPT !.phase = "connecting", !.made = rt] \in Attempt
  <2>1. rt \in Opt(Runtime) BY DEF Opt
  <2> QED BY <2>1, ZenonT(30) DEF Attempt
<1>2. ASSUME NEW s \in Opt(Services), NEW o \in {"published", "failed", "superseded"}
      PROVE  [x EXCEPT !.phase = "discarding", !.held = s, !.outcome = o] \in Attempt
  <2>1. o \in Opt({"published", "failed", "superseded"}) BY DEF Opt
  <2> QED BY <2>1, ZenonT(30) DEF Attempt
<1>3. [x EXCEPT !.phase = "panicked", !.held = None] \in Attempt
  <2>1. None \in Opt(Services) BY DEF Opt
  <2> QED BY <2>1, ZenonT(30) DEF Attempt
<1>4. [x EXCEPT !.owner = None] \in Attempt
  <2>1. None \in Opt(Callers) BY DEF Opt
  <2> QED BY <2>1, ZenonT(30) DEF Attempt
<1> QED BY <1>1, <1>2, <1>3, <1>4

\* A task that has ended is an attempt that is free.
LEMMA NoAttemptTyped == NoAttempt \in Attempt /\ NoAttempt.phase = "free"
<1>1. /\ None \in Opt(Keys) /\ None \in Opt(Instances) /\ None \in Opt(Runtime)
      /\ None \in Opt(Callers) /\ None \in Opt(Services)
      /\ None \in Opt({"published", "failed", "superseded"})
  BY DEF Opt
<1> QED BY <1>1, ZenonT(30) DEF NoAttempt, Attempt

\* A step of one task that keeps what it was started with.
LEMMA OneTaskChanges ==
    ASSUME Typed, NEW t \in Attempts, NEW w \in Attempt,
           tasks' = [tasks EXCEPT ![t] = w],
           w.phase # "free" => /\ tasks[t].phase # "free"
                               /\ w.rt = tasks[t].rt /\ w.inst = tasks[t].inst /\ w.key = tasks[t].key
                               /\ w.phase = "connecting" => w.made \in Runtime
    PROVE  tasks' \in [Attempts -> Attempt] /\ AttemptsNamed'
BY DEF Typed, TypeOK, AttemptsNamed

\* A step of one request.
LEMMA OneCallerChanges ==
    ASSUME Typed, NEW c \in Callers, NEW w \in Caller,
           callers' = [callers EXCEPT ![c] = w],
           CallerNamed(w)
    PROVE  callers' \in [Callers -> Caller] /\ CallersNamed'
BY DEF Typed, TypeOK, CallersNamed

\* A task that turns to discarding keeps what it was started with.
LEMMA DiscardingTyped ==
    ASSUME Typed, NEW t \in Attempts, tasks[t].phase = "connecting",
           NEW service \in Opt(Services), NEW outcome \in {"published", "failed", "superseded"},
           Discarding(t, service, outcome)
    PROVE  tasks' \in [Attempts -> Attempt] /\ AttemptsNamed'
<1> DEFINE w == [tasks[t] EXCEPT !.phase = "discarding", !.held = service, !.outcome = outcome]
<1>1. tasks[t] \in Attempt
  BY DEF Typed, TypeOK
<1>2. w \in Attempt
  BY <1>1, AttemptUpdates
<1>3. /\ w.rt = tasks[t].rt /\ w.inst = tasks[t].inst /\ w.key = tasks[t].key
      /\ w.phase = "discarding"
  BY <1>1 DEF Attempt
<1>4. tasks' = [tasks EXCEPT ![t] = w]
  BY DEF Discarding, Typed, TypeOK
<1> HIDE DEF w
<1> QED BY <1>2, <1>3, <1>4, OneTaskChanges

\* The states a health reconnect goes through.
LEMMA ReconnectUpdates ==
    ASSUME NEW i \in Instances, NEW rt \in Runtime, NEW s \in Opt(Services)
    PROVE  /\ [phase |-> "connecting", inst |-> i, rt |-> rt, held |-> s] \in Reconnect
           /\ [NoReconnect EXCEPT !.phase = "discarding", !.inst = i, !.held = s] \in Reconnect
           /\ NoReconnect \in Reconnect
           /\ NoReconnect.phase = "free"
<1>1. i \in Opt(Instances) /\ rt \in Opt(Runtime) /\ None \in Opt(Instances)
      /\ None \in Opt(Runtime) /\ None \in Opt(Services)
  BY DEF Opt
<1>2. [phase |-> "connecting", inst |-> i, rt |-> rt, held |-> s] \in Reconnect
  BY <1>1, ZenonT(30) DEF Reconnect
<1>3. NoReconnect \in Reconnect
  BY <1>1, ZenonT(30) DEF Reconnect, NoReconnect
<1>4. [NoReconnect EXCEPT !.phase = "discarding", !.inst = i, !.held = s] \in Reconnect
  BY <1>3, <1>1, ZenonT(30) DEF Reconnect
<1> QED BY <1>2, <1>3, <1>4 DEF NoReconnect

\* A health reconnect that turns to discarding.
LEMMA HealthDiscardingTyped ==
    ASSUME Typed, NEW h \in Reconnects, recon[h].phase = "connecting",
           NEW service \in Opt(Services), HealthDiscarding(h, service)
    PROVE  recon' \in [Reconnects -> Reconnect] /\ ReconnectsNamed'
<1> DEFINE w == [NoReconnect EXCEPT !.phase = "discarding", !.inst = recon[h].inst, !.held = service]
<1>1. recon[h].inst \in Instances /\ recon[h].rt \in Runtime
  BY DEF Typed, ReconnectsNamed
<1>2. w \in Reconnect
  BY <1>1, ReconnectUpdates
<1>3. w.phase = "discarding"
  BY DEF NoReconnect
<1>4. recon' = [recon EXCEPT ![h] = w]
  BY DEF HealthDiscarding
<1> HIDE DEF w
<1> QED BY <1>2, <1>3, <1>4 DEF Typed, TypeOK, ReconnectsNamed

\* The part of TypeOK that is about the failure budget.
BudgetTyped == failure \in [starts : 0..MaxStarts, backoff : BOOLEAN] /\ launches \in Nat

\* Every change of the failure state stays within the budget.
LEMMA BudgetUpdates ==
    ASSUME Typed
    PROVE  /\ UNCHANGED budgetVars => BudgetTyped'
           /\ Cleared => BudgetTyped'
           /\ ConnectFails => BudgetTyped'
           /\ BacksOff => BudgetTyped'
           /\ ClaimStart => BudgetTyped'
           /\ \A r : Fails(r) => BudgetTyped'
<1>1. failure \in [starts : 0..MaxStarts, backoff : BOOLEAN] /\ launches \in Nat /\ MaxStarts \in Nat
  BY BoundsAreNumbers DEF Typed, TypeOK
<1>2. UNCHANGED budgetVars => BudgetTyped'
  BY <1>1 DEF budgetVars, BudgetTyped
<1>3. Cleared => BudgetTyped'
  BY <1>1 DEF Cleared, BudgetTyped
<1>4. ConnectFails => BudgetTyped'
  BY <1>1 DEF ConnectFails, BudgetTyped
<1>5. BacksOff => BudgetTyped'
  BY <1>1 DEF BacksOff, BudgetTyped
<1>6. ClaimStart => BudgetTyped'
  BY <1>1 DEF ClaimStart, BudgetTyped
<1> QED BY <1>2, <1>3, <1>4, <1>5, <1>6 DEF Fails

\* Adding the placeholder of the shared connections.
LEMMA WithPlaceholderTyped ==
    ASSUME Typed PROVE WithPlaceholder \in [Instances -> Instance]
<1>1. Placeholder(Default) \in Instance
  BY PlaceholderTyped DEF Keys
<1> QED BY <1>1 DEF WithPlaceholder, Typed, TypeOK

\* What a failed transport leaves is a status.
LEMMA ErrorsTyped == \A r : ErrorOf(r) \in Status
BY DEF ErrorOf, Status

\* Disconnecting an instance and taking it off its routes.
LEMMA DisconnectedTyped ==
    ASSUME Typed, NEW i \in Instances
    PROVE  /\ Disconnected(i) \in [Instances -> Instance]
           /\ Unrouted(i) \in [Keys -> Opt(Instances)]
<1>1. insts[i] \in Instance /\ "Shutdown" \in Status /\ None \in Opt(Services)
  BY DEF Typed, TypeOK, Status, Opt
<1>2. [insts[i] EXCEPT !.status = "Shutdown", !.svc = None] \in Instance
  BY <1>1, InstanceUpdates
<1>3. Absent \in Instance
  BY PlaceholderTyped, DefaultIsShared DEF Keys
<1>4. Disconnected(i) \in [Instances -> Instance]
  BY <1>2, <1>3 DEF Disconnected, Typed, TypeOK
<1>5. Unrouted(i) \in [Keys -> Opt(Instances)]
  BY DEF Unrouted, Typed, TypeOK, Opt
<1> QED BY <1>4, <1>5

\* Every way the operator's connect may end.
LEMMA ConnectFromTyped ==
    ASSUME Typed, NEW ii \in [Instances -> Instance], NEW i \in Instances, ConnectFrom(ii, i)
    PROVE  /\ insts' \in [Instances -> Instance]
           /\ epochs' \in [Instances -> Opt(Reconnects)]
           /\ BudgetTyped'
           /\ cancelled' \subseteq Services
<1>1. ii[i] \in Instance
  OBVIOUS
<1>2. epochs' \in [Instances -> Opt(Reconnects)]
  BY DEF ConnectFrom, Typed, TypeOK, Opt
<1>3. cancelled' \subseteq Services
  BY CancelTyped DEF ConnectFrom
<1>4. insts' \in [Instances -> Instance] /\ BudgetTyped'
  <2>1. CASE insts' = ii /\ UNCHANGED budgetVars
    BY <2>1, BudgetUpdates
  <2>2. CASE FreeServices # {} /\ insts' = [ii EXCEPT ![i] = Served(@, Current)] /\ Cleared
    <3>1. Served(ii[i], Current) \in Instance
      BY <1>1, <2>2, CurrentTyped, ServedTyped
    <3> QED BY <2>2, <3>1, BudgetUpdates
  <2>3. ASSUME NEW r, Fails(r), insts' = [ii EXCEPT ![i].status = ErrorOf(r)]
        PROVE  insts' \in [Instances -> Instance] /\ BudgetTyped'
    <3>1. [ii[i] EXCEPT !.status = ErrorOf(r)] \in Instance
      BY <1>1, ErrorsTyped, InstanceUpdates
    <3> QED BY <2>3, <3>1, BudgetUpdates
  <2>4. CASE insts' = [ii EXCEPT ![i].status = "Initializing"] /\ UNCHANGED budgetVars
    <3>1. [ii[i] EXCEPT !.status = "Initializing"] \in Instance
      BY <1>1, InstanceUpdates DEF Status
    <3> QED BY <2>4, <3>1, BudgetUpdates
  <2> QED BY <2>1, <2>2, <2>3, <2>4 DEF ConnectFrom
<1> QED BY <1>2, <1>3, <1>4

\* A superseded attempt is announced to its joiners, never to its owner.
LEMMA SupersededWait ==
    \A k : \A c \in Superseded(k) :
        c \in Callers /\ callers[c].pc = "waiting" /\ tasks[callers[c].task].owner # c
BY DEF Superseded, Joiners, Waiters

\* A demand from its beginning to the point where it joins, panics or is dropped.
LEMMA DemandsTyped ==
    ASSUME Typed, NEW c \in Callers,
           \/ \E k \in Keys : Demand(c, k)
           \/ PrepareAnswers(c) \/ PrepareJoins(c) \/ PreparePanics(c) \/ DropCaller(c)
    PROVE  Typed'
<1>0. callers[c] \in Caller /\ CallerNamed(callers[c])
  BY DEF Typed, TypeOK, CallersNamed
<1>1. ASSUME NEW k \in Keys, Demand(c, k) PROVE Typed'
  <2> DEFINE w == [Idle EXCEPT !.pc = "deciding", !.key = k]
  <2>1. w \in Caller /\ CallerNamed(w)
    BY IdleTyped, CallerUpdates DEF Idle, CallerNamed
  <2>2. callers' = [callers EXCEPT ![c] = w] /\ callers[c].pc # "waiting" /\ tasks' = tasks
    BY <1>1 DEF Demand
  <2> HIDE DEF w
  <2>3. callers' \in [Callers -> Caller] /\ CallersNamed'
    BY <2>1, <2>2, OneCallerChanges
  <2>4. OwnersWait'
    BY <2>2 DEF Typed, TypeOK, OwnersWait
  <2> QED BY <1>1, <2>3, <2>4 DEF Demand, Typed, TypeOK, AttemptsNamed, ReconnectsNamed,
             dbVars, healthVars, budgetVars
<1>2. CASE PrepareAnswers(c)
  <2>1. callers' \in [Callers -> Caller] /\ CallersNamed'
    BY <1>2, IdleTyped, OneCallerChanges DEF PrepareAnswers, CallerNamed
  <2>2. OwnersWait'
    BY <1>2 DEF PrepareAnswers, Typed, TypeOK, OwnersWait
  <2> QED BY <1>2, <2>1, <2>2 DEF PrepareAnswers, Typed, TypeOK, AttemptsNamed, ReconnectsNamed,
             dbVars, healthVars, budgetVars
<1>3. CASE PrepareJoins(c)
  <2> DEFINE k == callers[c].key
             w == Waiting(c, registry[k])
  <2>1. callers[c].tries + 1 \in 0..MaxTries
    BY <1>0, <1>3, BoundsAreNumbers DEF PrepareJoins, MustStart, CallerNamed, Caller
  <2>2. k \in Keys /\ registry[k] \in Attempts
    BY <1>0, <1>3 DEF CallerNamed, PrepareJoins, MustStart, SameInFlight, Opt, Typed, TypeOK
  <2>3. w \in Caller
    BY <1>0, <2>1, <2>2, CallerUpdates DEF Waiting, Opt
  <2>4. w.pc = "waiting" /\ w.key = k /\ w.task = registry[k]
    BY <1>0 DEF Waiting, Caller
  <2>5. callers' = [callers EXCEPT ![c] = w] /\ callers[c].pc = "deciding"
    BY <1>3 DEF PrepareJoins, MustStart
  <2> HIDE DEF w
  <2>6. callers' \in [Callers -> Caller] /\ CallersNamed'
    BY <2>2, <2>3, <2>4, <2>5, OneCallerChanges DEF CallerNamed
  <2>7. OwnersWait'
    BY <1>3, <2>5 DEF PrepareJoins, Typed, TypeOK, OwnersWait
  <2> QED BY <1>3, <2>6, <2>7 DEF PrepareJoins, Typed, TypeOK, AttemptsNamed, ReconnectsNamed,
             dbVars, healthVars, budgetVars
<1>4. CASE PreparePanics(c)
  <2> DEFINE k == callers[c].key
             a == Answer(Superseded(k), "superseded")
             w == [Idle EXCEPT !.pc = "panicked"]
  <2>1. w \in Caller /\ CallerNamed(w)
    BY IdleTyped, CallerUpdates DEF Idle, CallerNamed
  <2>2. /\ a \in [Callers -> Caller]
        /\ \A d \in Callers : CallerNamed(a[d])
    BY AnswerTyped, SupersededWait
  <2>3. callers' = [a EXCEPT ![c] = w] /\ callers[c].pc = "deciding"
    BY <1>4 DEF PreparePanics, MustStart
  <2>4. \A d \in Callers : callers[d].pc = "waiting" /\ tasks[callers[d].task].owner = d => a[d] = callers[d]
    BY SupersededWait DEF Answer
  <2> HIDE DEF w, a
  <2>5. callers' \in [Callers -> Caller] /\ CallersNamed'
    BY <2>1, <2>2, <2>3 DEF CallersNamed
  <2>6. OwnersWait'
    BY <1>4, <2>2, <2>3, <2>4 DEF PreparePanics, Typed, OwnersWait
  <2>7. /\ registry' \in [Keys -> Opt(Attempts)]
        /\ epochs' \in [Instances -> Opt(Reconnects)]
    BY <1>4 DEF PreparePanics, Typed, TypeOK, Opt
  <2> QED BY <1>4, <2>5, <2>6, <2>7 DEF PreparePanics, Typed, TypeOK, AttemptsNamed, ReconnectsNamed,
             dbVars, healthVars, budgetVars
<1>5. CASE DropCaller(c)
  <2>1. callers' \in [Callers -> Caller] /\ CallersNamed'
    BY <1>5, IdleTyped, OneCallerChanges DEF DropCaller, CallerNamed
  <2>2. ASSUME NEW t \in Attempts
        PROVE  /\ tasks'[t] \in Attempt
               /\ tasks'[t].phase = tasks[t].phase /\ tasks'[t].rt = tasks[t].rt
               /\ tasks'[t].inst = tasks[t].inst /\ tasks'[t].key = tasks[t].key
               /\ tasks'[t].made = tasks[t].made
               /\ tasks'[t].owner = IF tasks[t].owner = c THEN None ELSE tasks[t].owner
    <3>1. tasks[t] \in Attempt
      BY DEF Typed, TypeOK
    <3>2. CASE tasks[t].owner = c
      <4>1. tasks'[t] = [tasks[t] EXCEPT !.owner = None]
        BY <1>5, <3>2 DEF DropCaller
      <4>2. tasks'[t] \in Attempt
        BY <3>1, <4>1, AttemptUpdates
      <4> QED BY <3>1, <3>2, <4>1, <4>2 DEF Attempt
    <3>3. CASE tasks[t].owner # c
      BY <1>5, <3>1, <3>3 DEF DropCaller
    <3> QED BY <3>2, <3>3
  <2>3. tasks' \in [Attempts -> Attempt] /\ AttemptsNamed'
    BY <1>5, <2>2 DEF DropCaller, Typed, AttemptsNamed
  <2>4. OwnersWait'
    BY <1>5, <2>2, NoneIsNoValue DEF DropCaller, Typed, TypeOK, OwnersWait
  <2> QED BY <1>5, <2>1, <2>3, <2>4 DEF DropCaller, Typed, TypeOK, ReconnectsNamed,
             dbVars, healthVars, budgetVars
<1> QED BY <1>1, <1>2, <1>3, <1>4, <1>5

\* A demand that comes to own an attempt.
LEMMA PrepareOwnsTyped == ASSUME Typed, NEW c \in Callers, PrepareOwns(c) PROVE Typed'
<1> DEFINE k == callers[c].key
           t == FreshAttempt
           i == RoutedOrFresh(k)
           b == IF Exists(i) THEN insts[i] ELSE Placeholder(k)
           n == [NoAttempt EXCEPT !.phase = "spawned", !.key = k, !.inst = i, !.rt = Current,
                                  !.owner = c, !.held = insts[i].svc]
           a == Answer(Superseded(k), "superseded")
           w == Waiting(c, t)
<1>1. callers[c] \in Caller /\ CallerNamed(callers[c]) /\ callers[c].pc = "deciding"
  BY DEF Typed, TypeOK, CallersNamed, PrepareOwns, MustStart
<1>2. t \in Attempts /\ k \in Keys
  BY <1>1, FreshIds DEF PrepareOwns, CallerNamed
<1>3. i \in Instances
  BY <1>2, FreshIds DEF PrepareOwns, RoutedOrFresh, Typed, TypeOK, Opt
<1>4. insts' \in [Instances -> Instance]
  <2>1. b \in Instance
    BY <1>2, <1>3, PlaceholderTyped DEF Typed, TypeOK
  <2>2. [b EXCEPT !.status = "Initializing"] \in Instance
    BY <2>1, InstanceUpdates DEF Status
  <2> QED BY <2>2 DEF PrepareOwns, Typed, TypeOK
<1>5. n \in Attempt
  <2>1. k \in Opt(Keys) /\ i \in Opt(Instances) /\ Current \in Opt(Runtime) /\ c \in Opt(Callers)
        /\ None \in Opt(Runtime) /\ None \in Opt({"published", "failed", "superseded"})
    BY <1>2, <1>3, CurrentTyped DEF Opt
  <2>2. insts[i].svc \in Opt(Services)
    BY <1>3 DEF Typed, TypeOK, Instance
  <2> HIDE DEF k, i
  <2> QED BY <2>1, <2>2, ZenonT(30) DEF NoAttempt, Attempt
<1>6. n.phase = "spawned" /\ n.key = k /\ n.inst = i /\ n.rt = Current /\ n.owner = c
  BY DEF NoAttempt
<1>7. w \in Caller /\ w.pc = "waiting" /\ w.key = k /\ w.task = t
  <2>1. callers[c].tries + 1 \in 0..MaxTries
    BY <1>1, BoundsAreNumbers DEF CallerNamed, Caller
  <2>2. t \in Opt(Attempts)
    BY <1>2 DEF Opt
  <2> HIDE DEF t
  <2> QED BY <1>1, <2>1, <2>2, CallerUpdates DEF Waiting, Caller
<1>8. /\ a \in [Callers -> Caller]
      /\ \A d \in Callers : CallerNamed(a[d])
      /\ \A d \in Callers : callers[d].pc = "waiting" /\ tasks[callers[d].task].owner = d => a[d] = callers[d]
  BY AnswerTyped, SupersededWait DEF Answer
<1>9. /\ tasks' = [tasks EXCEPT ![t] = n]
      /\ callers' = [a EXCEPT ![c] = w]
  BY DEF PrepareOwns
<1>10. /\ routes' \in [Keys -> Opt(Instances)]
       /\ registry' \in [Keys -> Opt(Attempts)]
       /\ epochs' \in [Instances -> Opt(Reconnects)]
  BY <1>2, <1>3 DEF PrepareOwns, Typed, TypeOK, Opt
<1> HIDE DEF n, a, w, i, t, k
<1>11. tasks' \in [Attempts -> Attempt] /\ AttemptsNamed'
  BY <1>2, <1>3, <1>5, <1>6, <1>9, CurrentTyped DEF Typed, TypeOK, AttemptsNamed
<1>12. callers' \in [Callers -> Caller] /\ CallersNamed'
  BY <1>2, <1>7, <1>8, <1>9 DEF CallersNamed, CallerNamed
<1>13. OwnersWait'
  BY <1>1, <1>2, <1>6, <1>7, <1>8, <1>9 DEF Typed, TypeOK, OwnersWait
<1> QED BY <1>4, <1>10, <1>11, <1>12, <1>13 DEF PrepareOwns, Typed, TypeOK, ReconnectsNamed,
           dbVars, healthVars, budgetVars

\* The handler of an enable event.
LEMMA EnablesTyped ==
    ASSUME Typed, NEW c \in Callers,
           EnableCaptures(c) \/ EnableLoads(c) \/ EnableApplies(c) \/ EnableBails(c)
    PROVE  Typed'
<1>0. callers[c] \in Caller
  BY DEF Typed, TypeOK
<1>1. CASE EnableCaptures(c)
  <2> DEFINE w == [Idle EXCEPT !.pc = "captured", !.gen = lifecycle]
  <2>1. w \in Caller /\ CallerNamed(w)
    BY IdleTyped, CallerUpdates DEF Idle, CallerNamed, Typed, TypeOK
  <2>2. callers' = [callers EXCEPT ![c] = w] /\ callers[c].pc # "waiting" /\ tasks' = tasks
    BY <1>1 DEF EnableCaptures
  <2> HIDE DEF w
  <2>3. callers' \in [Callers -> Caller] /\ CallersNamed'
    BY <2>1, <2>2, OneCallerChanges
  <2>4. OwnersWait'
    BY <2>2 DEF Typed, TypeOK, OwnersWait
  <2>5. requests' \in Nat
    BY <1>1 DEF EnableCaptures, Request, Typed, TypeOK
  <2> QED BY <1>1, <2>3, <2>4, <2>5 DEF EnableCaptures, Typed, TypeOK, AttemptsNamed, ReconnectsNamed,
             dbVars, healthVars, budgetVars
<1>2. CASE EnableLoads(c)
  <2> DEFINE w == IF stored.cfg = None \/ stored.mode = "blocked" THEN Idle
                  ELSE [callers[c] EXCEPT !.pc = "loaded", !.load = stored.cfg]
  <2>1. stored.cfg \in Opt(Versions)
    BY DEF Typed, TypeOK
  <2>2. w \in Caller
    BY <1>0, <2>1, IdleTyped, CallerUpdates
  <2>3. CallerNamed(w)
    BY <1>0, IdleTyped DEF Caller, CallerNamed
  <2>4. callers' = [callers EXCEPT ![c] = w] /\ callers[c].pc # "waiting" /\ tasks' = tasks
    BY <1>2 DEF EnableLoads, Typed, TypeOK
  <2> HIDE DEF w
  <2>5. callers' \in [Callers -> Caller] /\ CallersNamed'
    BY <2>2, <2>3, <2>4, OneCallerChanges
  <2>6. OwnersWait'
    BY <2>4 DEF Typed, TypeOK, OwnersWait
  <2> QED BY <1>2, <2>5, <2>6 DEF EnableLoads, Typed, TypeOK, AttemptsNamed, ReconnectsNamed,
             dbVars, healthVars, budgetVars
<1>3. CASE EnableApplies(c)
  <2> DEFINE w == [Idle EXCEPT !.pc = "deciding", !.key = Default]
  <2>1. w \in Caller /\ CallerNamed(w)
    BY IdleTyped, CallerUpdates DEF Idle, CallerNamed, Keys
  <2>2. callers' = [callers EXCEPT ![c] = w] /\ callers[c].pc # "waiting" /\ tasks' = tasks
    BY <1>3 DEF EnableApplies
  <2> HIDE DEF w
  <2>3. callers' \in [Callers -> Caller] /\ CallersNamed'
    BY <2>1, <2>2, OneCallerChanges
  <2>4. OwnersWait'
    BY <2>2 DEF Typed, TypeOK, OwnersWait
  <2>5. insts' \in [Instances -> Instance]
    BY <1>3, WithPlaceholderTyped DEF EnableApplies
  <2>6. config' \in Opt(Versions)
    BY <1>0, <1>3 DEF EnableApplies, Caller
  <2> QED BY <1>3, <2>3, <2>4, <2>5, <2>6 DEF EnableApplies, Typed, TypeOK, AttemptsNamed,
             ReconnectsNamed, dbVars, healthVars, budgetVars
<1>4. CASE EnableBails(c)
  <2>1. callers' = [callers EXCEPT ![c] = Idle] /\ callers[c].pc # "waiting" /\ tasks' = tasks
    BY <1>4 DEF EnableBails
  <2>2. callers' \in [Callers -> Caller] /\ CallersNamed'
    BY <2>1, IdleTyped, OneCallerChanges DEF CallerNamed
  <2>3. OwnersWait'
    BY <2>1 DEF Typed, TypeOK, OwnersWait
  <2> QED BY <1>4, <2>2, <2>3 DEF EnableBails, Typed, TypeOK, AttemptsNamed, ReconnectsNamed,
             dbVars, healthVars, budgetVars
<1> QED BY <1>1, <1>2, <1>3, <1>4

\* A step of one attempt that answers at most its joiners leaves every owner waiting.
LEMMA OwnersUndisturbed ==
    ASSUME Typed, NEW t \in Attempts, NEW who \in SUBSET Joiners(t), NEW outcome,
           NEW w, w.owner = tasks[t].owner,
           tasks' = [tasks EXCEPT ![t] = w],
           callers' = callers \/ callers' = Answer(who, outcome)
    PROVE  OwnersWait'
<1>1. ASSUME NEW u \in Attempts, NEW c \in Callers, tasks'[u].owner = c
      PROVE  callers'[c].pc = "waiting" /\ callers'[c].task = u
  <2>1. tasks[u].owner = c
    BY <1>1 DEF Typed, TypeOK
  <2>2. callers[c].pc = "waiting" /\ callers[c].task = u
    BY <2>1 DEF Typed, OwnersWait
  <2>3. c \notin who
    BY <2>1, <2>2 DEF Joiners, Waiters
  <2> QED BY <2>2, <2>3 DEF Answer
<1> QED BY <1>1 DEF OwnersWait

\* What publishing an outcome does to the attempts and the requests.
LEMMA PublishCallers ==
    ASSUME Typed, NEW t \in Attempts, tasks[t].phase = "connecting",
           NEW service \in Opt(Services), NEW outcome \in {"published", "failed", "superseded"},
           Discarding(t, service, outcome),
           \/ Release(t, outcome)
           \/ registry' = registry /\ callers' = callers
    PROVE  /\ tasks' \in [Attempts -> Attempt] /\ AttemptsNamed'
           /\ registry' \in [Keys -> Opt(Attempts)]
           /\ callers' \in [Callers -> Caller] /\ CallersNamed'
           /\ OwnersWait'
<1>1. tasks' \in [Attempts -> Attempt] /\ AttemptsNamed'
  BY DiscardingTyped
<1>2. registry' \in [Keys -> Opt(Attempts)]
  BY DEF Release, Opt, Typed, TypeOK
<1>3. callers' = Answer(Joiners(t), outcome) \/ callers' = callers
  BY DEF Release
<1>4. callers' \in [Callers -> Caller] /\ CallersNamed'
  <2>1. /\ Answer(Joiners(t), outcome) \in [Callers -> Caller]
        /\ \A c \in Callers : CallerNamed(Answer(Joiners(t), outcome)[c])
    BY AnswerTyped DEF Joiners, Waiters
  <2> QED BY <1>3, <2>1 DEF CallersNamed, Typed, TypeOK
<1>5. OwnersWait'
  <2> DEFINE w == [tasks[t] EXCEPT !.phase = "discarding", !.held = service, !.outcome = outcome]
  <2>1. tasks' = [tasks EXCEPT ![t] = w] /\ w.owner = tasks[t].owner
    BY DEF Discarding, Typed, TypeOK, Attempt
  <2> HIDE DEF w
  <2> QED BY <1>3, <2>1, OwnersUndisturbed
<1> QED BY <1>1, <1>2, <1>4, <1>5

\* Settling the instance of an invalidated result.
LEMMA SettledTyped ==
    ASSUME Typed, NEW i \in Instances PROVE Settled(i) \in [Instances -> Instance]
<1>1. [insts[i] EXCEPT !.status = "Error"] \in Instance
  BY InstanceUpdates DEF Typed, TypeOK, Status
<1> QED BY <1>1 DEF Settled, Typed, TypeOK

\* The four ways the result of a startup is taken.
LEMMA PublishTyped ==
    ASSUME Typed, NEW t \in Attempts,
           \/ PublishReady(t)
           \/ \E r \in Results : PublishFailed(t, r) \/ PublishSuperseded(t, r) \/ PublishUnclaimed(t, r)
    PROVE  Typed'
<1> DEFINE i == tasks[t].inst
<1>0. /\ tasks[t] \in Attempt /\ tasks[t].phase = "connecting"
      /\ i \in Instances /\ tasks[t].key \in Keys
      /\ tasks[t].held \in Opt(Services) /\ insts[i] \in Instance
  BY DEF Typed, TypeOK, AttemptsNamed, PublishReady, PublishFailed, PublishSuperseded,
         PublishUnclaimed, Attempt
<1>1. CASE PublishReady(t)
  <2>1. insts[i].svc \in Opt(Services)
    BY <1>0 DEF Instance
  <2>2. /\ tasks' \in [Attempts -> Attempt] /\ AttemptsNamed'
        /\ registry' \in [Keys -> Opt(Attempts)]
        /\ callers' \in [Callers -> Caller] /\ CallersNamed'
        /\ OwnersWait'
    BY <1>0, <1>1, <2>1, PublishCallers DEF PublishReady
  <2>3. insts' \in [Instances -> Instance]
    <3>1. [insts[i] EXCEPT !.place = tasks[t].key] \in Instance
      BY <1>0, InstanceUpdates DEF Opt, Status
    <3>2. tasks[t].made \in Runtime
      BY <1>1 DEF PublishReady, Typed, AttemptsNamed
    <3>3. Served([insts[i] EXCEPT !.place = tasks[t].key], tasks[t].made) \in Instance
      BY <1>1, <3>1, <3>2, ServedTyped DEF PublishReady
    <3> QED BY <1>1, <3>3 DEF PublishReady, Typed, TypeOK
  <2>4. BudgetTyped' /\ cancelled' \subseteq Services
    BY <1>1, BudgetUpdates, CancelTyped DEF PublishReady
  <2> QED BY <1>1, <2>2, <2>3, <2>4 DEF PublishReady, Typed, TypeOK, ReconnectsNamed,
             BudgetTyped, dbVars, healthVars
<1>2. ASSUME NEW r \in Results, PublishFailed(t, r) PROVE Typed'
  <2>1. /\ tasks' \in [Attempts -> Attempt] /\ AttemptsNamed'
        /\ registry' \in [Keys -> Opt(Attempts)]
        /\ callers' \in [Callers -> Caller] /\ CallersNamed'
        /\ OwnersWait'
    BY <1>0, <1>2, PublishCallers DEF PublishFailed
  <2>2. insts' \in [Instances -> Instance]
    <3>1. [insts[i] EXCEPT !.status = ErrorOf(r)] \in Instance
      BY <1>0, ErrorsTyped, InstanceUpdates
    <3> QED BY <1>2, <3>1 DEF PublishFailed, Typed, TypeOK
  <2>3. BudgetTyped'
    BY <1>2, BudgetUpdates DEF PublishFailed
  <2> QED BY <1>2, <2>1, <2>2, <2>3 DEF PublishFailed, Typed, TypeOK, ReconnectsNamed,
             BudgetTyped, dbVars, healthVars
<1>3. ASSUME NEW r \in Results, PublishSuperseded(t, r) PROVE Typed'
  <2>1. WorkerHolds(t, r) \in Opt(Services)
    BY <1>0 DEF WorkerHolds, Opt
  <2>2. /\ tasks' \in [Attempts -> Attempt] /\ AttemptsNamed'
        /\ registry' \in [Keys -> Opt(Attempts)]
        /\ callers' \in [Callers -> Caller] /\ CallersNamed'
        /\ OwnersWait'
    BY <1>0, <1>3, <2>1, PublishCallers DEF PublishSuperseded
  <2>3. insts' \in [Instances -> Instance]
    BY <1>0, <1>3, SettledTyped DEF PublishSuperseded
  <2> QED BY <1>3, <2>2, <2>3 DEF PublishSuperseded, Typed, TypeOK, ReconnectsNamed,
             dbVars, healthVars, budgetVars
<1>4. ASSUME NEW r \in Results, PublishUnclaimed(t, r) PROVE Typed'
  <2>1. WorkerHolds(t, r) \in Opt(Services)
    BY <1>0 DEF WorkerHolds, Opt
  <2>2. /\ tasks' \in [Attempts -> Attempt] /\ AttemptsNamed'
        /\ registry' \in [Keys -> Opt(Attempts)]
        /\ callers' \in [Callers -> Caller] /\ CallersNamed'
        /\ OwnersWait'
    BY <1>0, <1>4, <2>1, PublishCallers DEF PublishUnclaimed
  <2> QED BY <1>4, <2>2 DEF PublishUnclaimed, Typed, TypeOK, ReconnectsNamed,
             dbVars, healthVars, budgetVars
<1> QED BY <1>1, <1>2, <1>3, <1>4

\* The other steps of a startup task: its transport, its end, its panic.
LEMMA TaskEndsTyped ==
    ASSUME Typed, NEW t \in Attempts,
           TransportBegins(t) \/ Discard(t) \/ CleanUpPanic(t) \/ TaskPanics(t)
    PROVE  Typed'
<1>0. tasks[t] \in Attempt
  BY DEF Typed, TypeOK
<1>1. CASE TransportBegins(t)
  <2> DEFINE rt == [cfg |-> tasks[t].rt.cfg, sec |-> secret]
             w == [tasks[t] EXCEPT !.phase = "connecting", !.made = rt]
  <2>1. rt \in Runtime
    BY <1>1 DEF TransportBegins, Typed, TypeOK, AttemptsNamed, Runtime
  <2>2. w \in Attempt
    BY <1>0, <2>1, AttemptUpdates
  <2>3. /\ w.rt = tasks[t].rt /\ w.inst = tasks[t].inst /\ w.key = tasks[t].key
        /\ w.made = rt /\ w.owner = tasks[t].owner
    BY <1>0 DEF Attempt
  <2>4. /\ tasks' = [tasks EXCEPT ![t] = w] /\ callers' = callers
        /\ tasks[t].phase # "free"
    BY <1>1 DEF TransportBegins, Typed, TypeOK
  <2> HIDE DEF w, rt
  <2>5. tasks' \in [Attempts -> Attempt] /\ AttemptsNamed'
    BY <2>1, <2>2, <2>3, <2>4, OneTaskChanges
  <2>6. OwnersWait'
    BY <2>3, <2>4, OwnersUndisturbed
  <2> QED BY <1>1, <2>5, <2>6 DEF TransportBegins, Typed, TypeOK, CallersNamed, CallerNamed,
             ReconnectsNamed, dbVars, healthVars, budgetVars
<1>2. CASE Discard(t)
  <2> DEFINE who == {tasks[t].owner} \cap Callers
             a == Answer(who, tasks[t].outcome)
  <2>1. \A c \in who : callers[c].pc = "waiting" /\ callers[c].task = t
    BY DEF Typed, OwnersWait
  <2>2. a \in [Callers -> Caller] /\ \A c \in Callers : CallerNamed(a[c])
    BY <2>1, AnswerTyped
  <2>3. \A c \in Callers : callers[c].task # t => a[c] = callers[c]
    BY <2>1 DEF Answer
  <2>4. callers' = a /\ tasks' = [tasks EXCEPT ![t] = NoAttempt]
    BY <1>2 DEF Discard
  <2> HIDE DEF a, who
  <2>5. callers' \in [Callers -> Caller] /\ CallersNamed'
    BY <2>2, <2>4 DEF CallersNamed
  <2>6. tasks' \in [Attempts -> Attempt] /\ AttemptsNamed'
    BY <2>4, NoAttemptTyped, OneTaskChanges
  <2>7. OwnersWait'
    BY <2>3, <2>4, NoneIsNoValue DEF Typed, TypeOK, OwnersWait, NoAttempt
  <2>8. cancelled' \subseteq Services
    BY <1>2, CancelTyped DEF Discard
  <2> QED BY <1>2, <2>5, <2>6, <2>7, <2>8 DEF Discard, Typed, TypeOK, ReconnectsNamed,
             dbVars, healthVars, budgetVars
<1>3. CASE CleanUpPanic(t)
  <2> DEFINE a == Answer(Waiters(t), "failed")
  <2>1. a \in [Callers -> Caller] /\ \A c \in Callers : CallerNamed(a[c])
    BY AnswerTyped DEF Waiters
  <2>2. \A c \in Callers : callers[c].task # t => a[c] = callers[c]
    BY DEF Answer, Waiters
  <2>3. callers' = a /\ tasks' = [tasks EXCEPT ![t] = NoAttempt]
    BY <1>3 DEF CleanUpPanic
  <2> HIDE DEF a
  <2>4. callers' \in [Callers -> Caller] /\ CallersNamed'
    BY <2>1, <2>3 DEF CallersNamed
  <2>5. tasks' \in [Attempts -> Attempt] /\ AttemptsNamed'
    BY <2>3, NoAttemptTyped, OneTaskChanges
  <2>6. OwnersWait'
    BY <2>2, <2>3, NoneIsNoValue DEF Typed, TypeOK, OwnersWait, NoAttempt
  <2>7. registry' \in [Keys -> Opt(Attempts)]
    BY <1>3 DEF CleanUpPanic, Typed, TypeOK, Opt
  <2>8. insts' \in [Instances -> Instance]
    <3>1. [insts[tasks[t].inst] EXCEPT !.status = "Error"] \in Instance
      BY <1>3, InstanceUpdates DEF CleanUpPanic, Typed, TypeOK, AttemptsNamed, Status
    <3> QED BY <1>3, <3>1 DEF CleanUpPanic, Typed, TypeOK
  <2> QED BY <1>3, <2>4, <2>5, <2>6, <2>7, <2>8 DEF CleanUpPanic, Typed, TypeOK,
             ReconnectsNamed, dbVars, healthVars, budgetVars
<1>4. CASE TaskPanics(t)
  <2> DEFINE w == [tasks[t] EXCEPT !.phase = "panicked", !.held = None]
  <2>1. w \in Attempt
    BY <1>0, AttemptUpdates
  <2>2. /\ w.rt = tasks[t].rt /\ w.inst = tasks[t].inst /\ w.key = tasks[t].key
        /\ w.phase = "panicked" /\ w.owner = tasks[t].owner
    BY <1>0 DEF Attempt
  <2>3. tasks' = [tasks EXCEPT ![t] = w] /\ callers' = callers /\ tasks[t].phase # "free"
    BY <1>4 DEF TaskPanics, Typed, TypeOK
  <2> HIDE DEF w
  <2>4. tasks' \in [Attempts -> Attempt] /\ AttemptsNamed'
    BY <2>1, <2>2, <2>3, OneTaskChanges
  <2>5. OwnersWait'
    BY <2>2, <2>3, OwnersUndisturbed
  <2> QED BY <1>4, <2>4, <2>5 DEF TaskPanics, Typed, TypeOK, CallersNamed, CallerNamed,
             ReconnectsNamed, dbVars, healthVars, budgetVars
<1> QED BY <1>1, <1>2, <1>3, <1>4

\* The steps that leave the demands and the attempts alone.
LEMMA StartsUnchanged ==
    ASSUME Typed, UNCHANGED startVars
    PROVE  /\ CallersNamed' /\ AttemptsNamed' /\ OwnersWait'
           /\ registry' \in [Keys -> Opt(Attempts)]
           /\ tasks' \in [Attempts -> Attempt]
           /\ callers' \in [Callers -> Caller]
BY DEF startVars, Typed, TypeOK, CallersNamed, CallerNamed, AttemptsNamed, OwnersWait

\* A health reconnect from its beginning to its end.
LEMMA HealthTyped ==
    ASSUME Typed, NEW h \in Reconnects,
           \/ \E i \in Instances : HealthBegins(h, i)
           \/ ReconnectContinues(h)
    PROVE  Typed'
<1> DEFINE j == recon[h].inst
<1>0. recon[h] \in Reconnect /\ UNCHANGED startVars
  BY DEF Typed, TypeOK, HealthBegins, ReconnectContinues, HealthPublishes, HealthDiscards,
         HealthFails, HealthInvalidated
<1>x. /\ CallersNamed' /\ AttemptsNamed' /\ OwnersWait'
      /\ registry' \in [Keys -> Opt(Attempts)]
      /\ tasks' \in [Attempts -> Attempt]
      /\ callers' \in [Callers -> Caller]
  BY <1>0, StartsUnchanged
<1>1. ASSUME NEW i \in Instances, HealthBegins(h, i) PROVE Typed'
  <2> DEFINE w == [phase |-> "connecting", inst |-> i, rt |-> Current, held |-> insts[i].svc]
  <2>1. insts[i] \in Instance /\ insts[i].svc \in Opt(Services)
    BY DEF Typed, TypeOK, Instance
  <2>2. w \in Reconnect /\ w.inst = i /\ w.rt \in Runtime
    BY <2>1, CurrentTyped, ReconnectUpdates
  <2>3. [insts[i] EXCEPT !.status = "Initializing"] \in Instance
    BY <2>1, InstanceUpdates DEF Status
  <2>4. BudgetTyped'
    BY <1>1, BudgetUpdates DEF HealthBegins
  <2>5. recon' = [recon EXCEPT ![h] = w]
    BY <1>1 DEF HealthBegins
  <2> HIDE DEF w
  <2>6. recon' \in [Reconnects -> Reconnect] /\ ReconnectsNamed'
    BY <2>2, <2>5 DEF Typed, TypeOK, ReconnectsNamed
  <2>7. insts' \in [Instances -> Instance] /\ epochs' \in [Instances -> Opt(Reconnects)]
    BY <1>1, <2>3 DEF HealthBegins, Typed, TypeOK, Opt
  <2> QED BY <1>1, <1>x, <2>4, <2>6, <2>7 DEF HealthBegins, Typed, TypeOK, BudgetTyped, dbVars
<1>2. CASE HealthPublishes(h)
  <2>1. j \in Instances /\ recon[h].rt \in Runtime /\ insts[j] \in Instance
    BY <1>2 DEF HealthPublishes, Typed, TypeOK, ReconnectsNamed
  <2>2. insts[j].svc \in Opt(Services)
    BY <2>1 DEF Instance
  <2>3. insts' \in [Instances -> Instance]
    <3>1. PICK s \in {recon[h].rt.sec, secret} :
              insts' = [insts EXCEPT ![j] = Served(@, [recon[h].rt EXCEPT !.sec = s])]
      BY <1>2 DEF HealthPublishes
    <3>2. [recon[h].rt EXCEPT !.sec = s] \in Runtime
      BY <2>1 DEF Runtime, Typed, TypeOK
    <3>3. Served(insts[j], [recon[h].rt EXCEPT !.sec = s]) \in Instance
      BY <1>2, <2>1, <3>2, ServedTyped DEF HealthPublishes
    <3> QED BY <3>1, <3>3 DEF Typed, TypeOK
  <2>4. recon' \in [Reconnects -> Reconnect] /\ ReconnectsNamed'
    BY <1>2, <2>2, HealthDiscardingTyped DEF HealthPublishes
  <2>5. BudgetTyped' /\ cancelled' \subseteq Services /\ epochs' \in [Instances -> Opt(Reconnects)]
    BY <1>2, BudgetUpdates, CancelTyped DEF HealthPublishes, Typed, TypeOK, Opt
  <2> QED BY <1>2, <1>x, <2>3, <2>4, <2>5 DEF HealthPublishes, Typed, TypeOK, BudgetTyped, dbVars
<1>3. CASE HealthDiscards(h)
  <2>1. recon' = [recon EXCEPT ![h] = NoReconnect] /\ cancelled' \subseteq Services
    BY <1>3, CancelTyped DEF HealthDiscards
  <2>2. NoReconnect \in Reconnect /\ NoReconnect.phase = "free"
    <3>1. None \in Opt(Instances) /\ None \in Opt(Runtime) /\ None \in Opt(Services)
      BY DEF Opt
    <3> QED BY <3>1, ZenonT(30) DEF NoReconnect, Reconnect
  <2>3. recon' \in [Reconnects -> Reconnect] /\ ReconnectsNamed'
    BY <2>1, <2>2 DEF Typed, TypeOK, ReconnectsNamed
  <2> QED BY <1>3, <1>x, <2>1, <2>3 DEF HealthDiscards, Typed, TypeOK, dbVars, budgetVars
<1>4. ASSUME NEW r \in Results, HealthFails(h, r) PROVE Typed'
  <2>1. j \in Instances /\ insts[j] \in Instance /\ recon[h].held \in Opt(Services)
    BY <1>0, <1>4 DEF HealthFails, Typed, TypeOK, ReconnectsNamed, Reconnect
  <2>2. insts[j].svc \in Opt(Services)
    BY <2>1 DEF Instance
  <2>3. insts' \in [Instances -> Instance]
    <3>1. [insts[j] EXCEPT !.status = ErrorOf(r), !.svc = recon[h].held] \in Instance
      BY <2>1, ErrorsTyped, InstanceUpdates
    <3> QED BY <1>4, <3>1 DEF HealthFails, Typed, TypeOK
  <2>4. recon' \in [Reconnects -> Reconnect] /\ ReconnectsNamed'
    BY <1>4, <2>2, HealthDiscardingTyped DEF HealthFails
  <2>5. BudgetTyped' /\ cancelled' \subseteq Services /\ epochs' \in [Instances -> Opt(Reconnects)]
    BY <1>4, BudgetUpdates, CancelTyped DEF HealthFails, Typed, TypeOK, Opt
  <2> QED BY <1>4, <1>x, <2>3, <2>4, <2>5 DEF HealthFails, Typed, TypeOK, BudgetTyped, dbVars
<1>5. ASSUME NEW r \in Results, HealthInvalidated(h, r) PROVE Typed'
  <2>1. j \in Instances /\ (IF r = "ok" THEN None ELSE recon[h].held) \in Opt(Services)
    BY <1>0, <1>5 DEF HealthInvalidated, Typed, ReconnectsNamed, Reconnect, Opt
  <2>2. insts' \in [Instances -> Instance]
    BY <1>5, <2>1, SettledTyped DEF HealthInvalidated, Typed, TypeOK
  <2>3. recon' \in [Reconnects -> Reconnect] /\ ReconnectsNamed'
    BY <1>5, <2>1, HealthDiscardingTyped DEF HealthInvalidated
  <2>4. epochs' \in [Instances -> Opt(Reconnects)]
    BY <1>5 DEF HealthInvalidated, Typed, TypeOK, Opt
  <2> QED BY <1>5, <1>x, <2>2, <2>3, <2>4 DEF HealthInvalidated, Typed, TypeOK, dbVars, budgetVars
<1> QED BY <1>1, <1>2, <1>3, <1>4, <1>5 DEF ReconnectContinues

\* The maps of a pool that knows nothing of the server.
LEMMA PlacesTyped ==
    /\ NoInstances \in [Instances -> Instance]
    /\ NoRoutes \in [Keys -> Opt(Instances)]
    /\ \A i : [NoInstances EXCEPT ![i] = Placeholder(Default)] \in [Instances -> Instance]
<1>1. Absent \in Instance /\ Placeholder(Default) \in Instance
  BY PlaceholderTyped DEF Keys
<1> QED BY <1>1 DEF NoInstances, NoRoutes, Opt

\* The stored row, synchronization, updates and disables.
LEMMA AdministerTyped == ASSUME Typed, Administer PROVE Typed'
<1>0. UNCHANGED startVars /\ UNCHANGED healthVars
  BY DEF Administer, SetMode, StoreUpdate, RotateSecret, Delete, Synchronize, ApplyUpdate,
         AbandonUpdate, DisableRuntime
<1>x. /\ CallersNamed' /\ AttemptsNamed' /\ OwnersWait' /\ ReconnectsNamed'
      /\ registry' \in [Keys -> Opt(Attempts)]
      /\ tasks' \in [Attempts -> Attempt]
      /\ callers' \in [Callers -> Caller]
      /\ epochs' \in [Instances -> Opt(Reconnects)]
      /\ recon' \in [Reconnects -> Reconnect]
  BY <1>0, StartsUnchanged DEF healthVars, Typed, TypeOK, ReconnectsNamed
<1>1. ASSUME NEW m \in Modes, SetMode(m) PROVE Typed'
  BY <1>1, <1>x DEF SetMode, Request, Typed, TypeOK, healthVars, budgetVars
<1>2. ASSUME NEW v \in Versions, StoreUpdate(v) PROVE Typed'
  BY <1>2, <1>x DEF StoreUpdate, Request, Typed, TypeOK, Opt, healthVars, budgetVars
<1>3. ASSUME NEW s \in Secrets, RotateSecret(s) PROVE Typed'
  BY <1>3, <1>x DEF RotateSecret, Request, Typed, TypeOK, healthVars, budgetVars
<1>4. CASE Delete
  BY <1>4, <1>x DEF Delete, Request, Typed, TypeOK, Opt, healthVars, budgetVars
<1>5. CASE Synchronize
  <2>1. insts' \in [Instances -> Instance] /\ routes' \in [Keys -> Opt(Instances)] /\ config' \in Opt(Versions)
    <3>1. CASE SyncBlocked
      BY <3>1, PlacesTyped DEF SyncBlocked, Opt, Typed, TypeOK
    <3>2. CASE SyncRemoves
      <4>1. Absent \in Instance
        BY PlaceholderTyped DEF Keys
      <4> QED BY <3>2, <4>1 DEF SyncRemoves, SharedDropped, Opt, Typed, TypeOK
    <3>3. CASE SyncKeeps
      <4>1. ASSUME NEW i \in Instances
            PROVE  Rested(i) \in [Instances -> Instance]
        <5>1. [insts[i] EXCEPT !.status = "Idle"] \in Instance
          BY InstanceUpdates DEF Typed, TypeOK, Status
        <5> QED BY <5>1 DEF Rested, Typed, TypeOK
      <4>2. insts' = WithPlaceholder \/ insts' = insts \/ \E i \in Instances : insts' = Rested(i)
        BY <3>3 DEF SyncKeeps, In
      <4>3. insts' \in [Instances -> Instance]
        BY <4>1, <4>2, WithPlaceholderTyped DEF Typed, TypeOK
      <4> QED BY <3>3, <4>3 DEF SyncKeeps, Typed, TypeOK
    <3> QED BY <1>5, <3>1, <3>2, <3>3 DEF Synchronize
  <2>2. cancelled' \subseteq Services /\ requests' \in Nat
    BY <1>5, CancelTyped DEF Synchronize, Request, Typed, TypeOK
  <2> QED BY <1>5, <1>x, <2>1, <2>2 DEF Synchronize, Typed, TypeOK, dbVars, budgetVars
<1>6. CASE ApplyUpdate
  <2>1. insts' \in [Instances -> Instance] /\ routes' \in [Keys -> Opt(Instances)] /\ config' \in Opt(Versions)
    <3>1. NoInstances \in [Instances -> Instance] /\ NoRoutes \in [Keys -> Opt(Instances)]
      BY PlacesTyped
    <3>2. CASE stored.cfg # None /\ stored.mode = "enabled"
      <4>1. config' = stored.cfg /\ stored.cfg \in Opt(Versions)
        BY <1>6, <3>2 DEF ApplyUpdate, Typed, TypeOK
      <4>2. insts' = [NoInstances EXCEPT ![CHOOSE i \in NotInFlight : TRUE] = Placeholder(Default)]
        BY <1>6, <3>2 DEF ApplyUpdate
      <4> QED BY <1>6, <3>1, <4>1, <4>2, PlacesTyped DEF ApplyUpdate
    <3>3. CASE ~(stored.cfg # None /\ stored.mode = "enabled")
      BY <1>6, <3>1, <3>3 DEF ApplyUpdate, Opt
    <3> QED BY <3>2, <3>3
  <2>2. cancelled' \subseteq Services
    BY <1>6, CancelTyped DEF ApplyUpdate
  <2> QED BY <1>6, <1>x, <2>1, <2>2 DEF ApplyUpdate, Typed, TypeOK, budgetVars
<1>7. CASE AbandonUpdate
  BY <1>7, <1>x DEF AbandonUpdate, Typed, TypeOK, budgetVars
<1>8. CASE DisableRuntime
  <2>1. insts' \in [Instances -> Instance] /\ routes' \in [Keys -> Opt(Instances)] /\ config' \in Opt(Versions)
    BY <1>8, PlacesTyped DEF DisableRuntime, Opt, Typed, TypeOK
  <2>2. cancelled' \subseteq Services /\ requests' \in Nat /\ lifecycle' \in Nat
    BY <1>8, CancelTyped DEF DisableRuntime, Request, Typed, TypeOK
  <2> QED BY <1>8, <1>x, <2>1, <2>2 DEF DisableRuntime, Typed, TypeOK, dbVars, budgetVars
<1> QED BY <1>1, <1>2, <1>3, <1>4, <1>5, <1>6, <1>7, <1>8 DEF Administer

\* A disconnect, and one whose request is dropped.
LEMMA InterruptedTyped ==
    ASSUME Typed, NEW i \in Instances, Disconnects(i) \/ Interrupted(i)
    PROVE  /\ insts' \in [Instances -> Instance]
           /\ routes' \in [Keys -> Opt(Instances)]
           /\ cancelled' \subseteq Services
<1>1. CASE Disconnects(i)
  BY <1>1, DisconnectedTyped, CancelTyped DEF Disconnects
<1>2. CASE Interrupted(i)
  <2>1. PICK status \in {insts[i].status, "Shutdown"} :
            insts' = [insts EXCEPT ![i] = [@ EXCEPT !.status = status, !.svc = None]]
    BY <1>2 DEF Interrupted
  <2>2. insts[i] \in Instance /\ status \in Status /\ None \in Opt(Services)
    BY DEF Typed, TypeOK, Instance, Status, Opt
  <2>3. [insts[i] EXCEPT !.status = status, !.svc = None] \in Instance
    BY <2>2, InstanceUpdates
  <2> QED BY <1>2, <2>1, <2>3, CancelTyped DEF Interrupted, Typed, TypeOK
<1> QED BY <1>1, <1>2

\* The operator's requests and the failures that calls report.
LEMMA OperateTyped ==
    ASSUME Typed, Operate \/ CallSucceeds \/ BackoffEnds
    PROVE  Typed'
<1>0. UNCHANGED startVars /\ UNCHANGED recon
  BY DEF Operate, Disconnect, Connect, Relaunch, Reap, EvictClosed, CallFails, CallSucceeds,
         BackoffEnds, healthVars
<1>x. /\ CallersNamed' /\ AttemptsNamed' /\ OwnersWait' /\ ReconnectsNamed'
      /\ registry' \in [Keys -> Opt(Attempts)]
      /\ tasks' \in [Attempts -> Attempt]
      /\ callers' \in [Callers -> Caller]
      /\ recon' \in [Reconnects -> Reconnect]
  BY <1>0, StartsUnchanged DEF Typed, TypeOK, ReconnectsNamed
<1>1. ASSUME NEW i \in Instances, Disconnect(i) \/ Reap(i) PROVE Typed'
  <2>1. /\ insts' \in [Instances -> Instance]
        /\ routes' \in [Keys -> Opt(Instances)]
        /\ cancelled' \subseteq Services
    BY <1>1, InterruptedTyped DEF Disconnect, Reap
  <2> QED BY <1>1, <1>x, <2>1 DEF Disconnect, Reap, Request, Typed, TypeOK, dbVars, healthVars, budgetVars
<1>2. ASSUME NEW i \in Instances, Connect(i) PROVE Typed'
  <2>1. insts \in [Instances -> Instance]
    BY DEF Typed, TypeOK
  <2>2. /\ insts' \in [Instances -> Instance]
        /\ epochs' \in [Instances -> Opt(Reconnects)]
        /\ BudgetTyped' /\ cancelled' \subseteq Services
    BY <1>2, <2>1, ConnectFromTyped DEF Connect
  <2> QED BY <1>2, <1>x, <2>2 DEF Connect, Request, Typed, TypeOK, BudgetTyped, dbVars
<1>3. ASSUME NEW i \in Instances, Relaunch(i) PROVE Typed'
  <2>1. Disconnected(i) \in [Instances -> Instance] /\ Unrouted(i) \in [Keys -> Opt(Instances)]
    BY DisconnectedTyped
  <2>2. /\ insts' \in [Instances -> Instance]
        /\ epochs' \in [Instances -> Opt(Reconnects)]
        /\ BudgetTyped' /\ cancelled' \subseteq Services
    BY <1>3, <2>1, ConnectFromTyped DEF Relaunch
  <2> QED BY <1>3, <1>x, <2>1, <2>2 DEF Relaunch, Request, Typed, TypeOK, BudgetTyped, dbVars
<1>4. ASSUME NEW i \in Instances, EvictClosed(i) PROVE Typed'
  <2>1. [insts[i] EXCEPT !.status = "Shutdown", !.svc = None] \in Instance
    BY InstanceUpdates DEF Typed, TypeOK, Status, Opt
  <2>2. insts' \in [Instances -> Instance]
    BY <1>4, <2>1 DEF EvictClosed, Typed, TypeOK
  <2>3. BudgetTyped' /\ cancelled' \subseteq Services
    BY <1>4, BudgetUpdates, CancelTyped DEF EvictClosed
  <2> QED BY <1>4, <1>x, <2>2, <2>3 DEF EvictClosed, Request, Typed, TypeOK, BudgetTyped, dbVars, healthVars
<1>5. ASSUME NEW i \in Instances, NEW gone \in BOOLEAN, CallFails(i, gone) PROVE Typed'
  <2>1. /\ insts' \in [Instances -> Instance]
        /\ routes' \in [Keys -> Opt(Instances)]
        /\ cancelled' \subseteq Services
    BY <1>5, InterruptedTyped DEF CallFails, Typed, TypeOK
  <2>2. BudgetTyped'
    BY <1>5, BudgetUpdates DEF CallFails
  <2> QED BY <1>5, <1>x, <2>1, <2>2 DEF CallFails, Request, Typed, TypeOK, BudgetTyped, dbVars, healthVars
<1>6. CASE CallSucceeds
  <2>1. BudgetTyped'
    BY <1>6, BudgetUpdates DEF CallSucceeds
  <2> QED BY <1>6, <1>x, <2>1 DEF CallSucceeds, Request, Typed, TypeOK, BudgetTyped, dbVars, healthVars
<1>7. CASE BackoffEnds
  BY <1>7, <1>x DEF BackoffEnds, Typed, TypeOK, dbVars, healthVars
<1> QED BY <1>1, <1>2, <1>3, <1>4, <1>5, <1>6, <1>7 DEF Operate

\* The first of the three facts of an inductive invariant.
LEMMA TypedInit == Init => Typed
<1> SUFFICES ASSUME Init PROVE Typed
  OBVIOUS
<1>1. NoAttempt \in Attempt /\ NoAttempt.phase = "free" /\ NoAttempt.owner = None
  BY NoAttemptTyped DEF NoAttempt
<1>2. NoReconnect \in Reconnect /\ NoReconnect.phase = "free"
  <2>1. None \in Opt(Instances) /\ None \in Opt(Runtime) /\ None \in Opt(Services)
    BY DEF Opt
  <2> QED BY <2>1, ZenonT(30) DEF NoReconnect, Reconnect
<1>3. TypeOK
  <2>1. stored \in [cfg : Opt(Versions), mode : Modes] /\ config \in Opt(Versions)
    BY DEF Init, Opt, Modes
  <2>2. insts \in [Instances -> Instance]
    BY PlacesTyped DEF Init
  <2>3. failure \in [starts : 0..MaxStarts, backoff : BOOLEAN]
    BY BoundsAreNumbers DEF Init
  <2> QED BY <1>1, <1>2, <2>1, <2>2, <2>3, IdleTyped, PlacesTyped DEF Init, TypeOK, Opt
<1>4. CallersNamed /\ AttemptsNamed /\ ReconnectsNamed /\ OwnersWait
  BY <1>1, <1>2, IdleTyped, NoneIsNoValue
     DEF Init, CallersNamed, CallerNamed, AttemptsNamed, ReconnectsNamed, OwnersWait
<1> QED BY <1>3, <1>4 DEF Typed

\* The second: every step of the pool, and a step that changes nothing.
LEMMA TypedStep == Typed /\ [Next]_vars => Typed'
<1> SUFFICES ASSUME Typed, [Next]_vars PROVE Typed'
  OBVIOUS
<1>1. CASE UNCHANGED vars
  BY <1>1 DEF vars, dbVars, startVars, healthVars, budgetVars, Typed, TypeOK, CallersNamed,
              CallerNamed, AttemptsNamed, ReconnectsNamed, OwnersWait
<1>2. ASSUME NEW c \in Callers, CallerSteps(c) \/ CallerContinues(c) PROVE Typed'
  BY <1>2, DemandsTyped, PrepareOwnsTyped, EnablesTyped DEF CallerSteps, CallerContinues
<1>3. ASSUME NEW t \in Attempts, TaskContinues(t) \/ TaskPanics(t) PROVE Typed'
  BY <1>3, PublishTyped, TaskEndsTyped DEF TaskContinues
<1>4. ASSUME NEW h \in Reconnects, ReconnectContinues(h) \/ \E i \in Instances : HealthBegins(h, i)
      PROVE  Typed'
  BY <1>4, HealthTyped
<1>5. CASE Administer
  BY <1>5, AdministerTyped
<1>6. CASE Operate \/ CallSucceeds \/ BackoffEnds
  BY <1>6, OperateTyped
<1> QED BY <1>1, <1>2, <1>3, <1>4, <1>5, <1>6 DEF Next

\* Every state the pool reaches has its type: no map leads to a value of the
\* wrong kind, no counter of tries or of automatic starts runs over its limit
\* (prepare_startup_attempt, register_failure, claim_automatic_recovery_attempt).
THEOREM TypeCorrect == Spec => []TypeOK
<1>1. Typed => TypeOK
  BY DEF Typed
<1> QED BY <1>1, TypedInit, TypedStep, PTL DEF Spec

=============================================================================
