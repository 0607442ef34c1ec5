----------------------------- MODULE Bindings -----------------------------
(***************************************************************************)
(* Which worker a queue delivers to (daemon/routes.ts): the queue bindings *)
(* of a manifest are checked before a deploy builds anything, and joined   *)
(* to the store's rows when the deploy has proved that it serves.  Between *)
(* the two the manifest is stored, other deploys run, and workers and      *)
(* queues come and go.  The check, the join, and the creation and removal  *)
(* of a queue each run without a turn of the event loop inside.            *)
(***************************************************************************)
EXTENDS Naturals, FiniteSets

CONSTANTS
    Workers,    \* names of workers
    Queues,     \* names of queues
    Manifests,  \* [produces, consumes, dead: sets of names, dead at most one]
    Deploys,    \* concurrent creates and deploys
    MaxRows,    \* bound: rows of workers ever created
    MaxBegun    \* bound: creates and deploys begun

Nobody == 0
Resources  == Workers \cup Queues
NoRow  == [kind |-> "none"]
NoCode == [produces |-> {}, consumes |-> {}, dead |-> {}]
Idle   == [at |-> "idle"]

VARIABLES
    row,        \* name -> its row in the store
    deploy,     \* slot -> the create or deploy in it
    made,       \* workers' rows created so far; their ids are 1..made
    begun,      \* creates and deploys begun so far
    torn,       \* history: workers left with a manifest that was never joined
    unwound,    \* history: workers whose manifest was rolled back
    late        \* history: the check inside the join has refused

vars == <<row, deploy, made, begun, torn, unwound, late>>

Worker(id, state, m) == [kind |-> "worker", id |-> id, state |-> state, manifest |-> m]
Queue(who, dead)     == [kind |-> "queue", consumer |-> who, dead |-> dead]

IsWorker(n) == row[n].kind = "worker"
IsQueue(n)  == row[n].kind = "queue"
NameOf(id)  == {w \in Resources : IsWorker(w) /\ row[w].id = id}
Living      == {id \in 1..made : NameOf(id) # {}}

Past(r) == [state |-> r.state, manifest |-> r.manifest]

\* The creates and deploys that hold a row of this worker.
At(d, id) == deploy[d].at \in {"building", "proving"} /\ deploy[d].id = id

Referred(m) == m.produces \cup m.consumes \cup
               IF m.consumes = {} THEN {} ELSE m.dead

\* assertQueueBindingsAreLegal.  `id` is Nobody for a worker without a row.
Legal(id, m) ==
    /\ \A n \in Referred(m) : ~IsWorker(n)
    /\ \A q \in m.consumes : IsQueue(q) => row[q].consumer \in {Nobody, id}

-----------------------------------------------------------------------------

Finish(d) == deploy' = [deploy EXCEPT ![d] = Idle]

\* Faulty variant: what the worker no longer consumes is not released.
JoinedKeeping(id, m, n) ==
    CASE n \in m.consumes                               -> Queue(id, m.dead)
      [] n \in Referred(m) \ m.consumes /\ ~IsQueue(n) -> Queue(Nobody, {})
      [] OTHER                                          -> row[n]

\* syncWorkerQueueBindings: every queue the manifest names exists, those it
\* consumes are claimed, and those it has ceased to consume are released.
Joined(id, m, n) ==
    CASE n \in m.consumes                                -> Queue(id, m.dead)
      [] n \in Referred(m) \ m.consumes /\ ~IsQueue(n)  -> Queue(Nobody, {})
      [] IsQueue(n) /\ n \notin m.consumes /\ row[n].consumer = id
                                                         -> Queue(Nobody, row[n].dead)
      [] OTHER                                           -> row[n]

\* Faulty variant: the check before the build is trusted.
JoinUnchecked(d, w, id, m) ==
    /\ row' = [n \in Resources |-> IF n = w THEN [row[w] EXCEPT !.state = "sleeping"]
                               ELSE Joined(id, m, n)]
    /\ torn' = torn
    /\ UNCHANGED late

Join(d, w, id, m) ==
    LET alone  == \A o \in Deploys \ {d} : ~At(o, id)
        served == [row[w] EXCEPT !.state = "sleeping"]
    IN
    IF Legal(id, m)
    THEN /\ row' = [n \in Resources |-> IF n = w THEN served ELSE Joined(id, m, n)]
         /\ torn' = IF alone THEN torn \ {id} ELSE torn \cup {id}
         /\ UNCHANGED late
    ELSE /\ row' = [row EXCEPT ![w] = served]
         /\ torn' = torn \cup {id}
         /\ late' = TRUE

\* POST .../resources with a source: checked, then built, before there is a row.
CreateBegins(d, w, m) ==
    /\ deploy[d] = Idle
    /\ begun < MaxBegun
    /\ begun' = begun + 1
    /\ Legal(Nobody, m)
    /\ deploy' = [deploy EXCEPT ![d] = [at |-> "creating", name |-> w, manifest |-> m]]
    /\ UNCHANGED <<row, made, torn, unwound, late>>

\* The row, with its manifest, or name_taken after all that building.
CreateBuilt(d) ==
    /\ deploy[d].at = "creating"
    /\ LET w == deploy[d].name IN
       \/ /\ row[w].kind # "none"
          /\ Finish(d)
          /\ UNCHANGED <<row, made>>
       \/ /\ row[w].kind = "none"
          /\ made < MaxRows
          /\ made' = made + 1
          /\ row' = [row EXCEPT ![w] = Worker(made + 1, "creating", deploy[d].manifest)]
          /\ deploy' = [deploy EXCEPT ![d] =
               [at |-> "proving", id |-> made + 1, before |-> Past(row'[w])]]
    /\ UNCHANGED <<begun, torn, unwound, late>>

\* The row alone; its code arrives with a deploy.
CreateBare(w) ==
    /\ row[w].kind = "none"
    /\ made < MaxRows
    /\ made' = made + 1
    /\ row' = [row EXCEPT ![w] = Worker(made + 1, "undeployed", NoCode)]
    /\ UNCHANGED <<deploy, begun, torn, unwound, late>>

DeployBegins(d, w, m) ==
    /\ deploy[d] = Idle
    /\ begun < MaxBegun
    /\ begun' = begun + 1
    /\ IsWorker(w)
    /\ Legal(row[w].id, m)
    /\ deploy' = [deploy EXCEPT ![d] =
         [at |-> "building", id |-> row[w].id, manifest |-> m, before |-> Past(row[w])]]
    /\ UNCHANGED <<row, made, torn, unwound, late>>

\* The image is built and the row takes the manifest, if there still is a row.
DeployBuilt(d) ==
    /\ deploy[d].at = "building"
    /\ deploy' = [deploy EXCEPT ![d] =
         [at |-> "proving", id |-> @.id, before |-> @.before]]
    /\ row' = [n \in Resources |->
                 IF n \in NameOf(deploy[d].id)
                 THEN [row[n] EXCEPT !.manifest = deploy[d].manifest] ELSE row[n]]
    /\ UNCHANGED <<made, begun, torn, unwound, late>>

\* A build that fails has changed nothing.
BuildFails(d) ==
    /\ deploy[d].at \in {"creating", "building"}
    /\ Finish(d)
    /\ UNCHANGED <<row, made, begun, torn, unwound, late>>

\* It serves: the row is read again, and joined with what it holds by then.
Proved(d) ==
    /\ deploy[d].at = "proving"
    /\ Finish(d)
    /\ \/ NameOf(deploy[d].id) = {} /\ UNCHANGED <<row, torn, late>>
       \/ \E w \in NameOf(deploy[d].id) : Join(d, w, row[w].id, row[w].manifest)
    /\ UNCHANGED <<made, begun, unwound>>

\* It does not serve.  A row that slept gets its old config back; any other keeps
\* the new manifest and never reaches the join.
Unwound(w, before) ==
    IF before.state = "sleeping" THEN [row[w] EXCEPT !.manifest = before.manifest,
                                                     !.state = "sleeping"]
    ELSE [row[w] EXCEPT !.state = IF before.state = "undeployed"
                                  THEN "undeployed" ELSE "failed"]

ProveFails(d) ==
    /\ deploy[d].at = "proving"
    /\ Finish(d)
    /\ LET id == deploy[d].id  before == deploy[d].before IN
       /\ row' = [n \in Resources |-> IF n \in NameOf(id) THEN Unwound(n, before) ELSE row[n]]
       /\ \/ before.state = "sleeping"
             /\ unwound' = unwound \cup {id}
             /\ torn' = IF \E o \in Deploys \ {d} : At(o, id) THEN torn \cup {id} ELSE torn
          \/ before.state # "sleeping"
             /\ torn' = torn \cup {id}
             /\ UNCHANGED unwound
    /\ UNCHANGED <<made, begun, late>>

\* `hobby rm` of a worker: of its bindings nothing is said.
DestroyWorker(w) ==
    /\ IsWorker(w)
    /\ row' = [row EXCEPT ![w] = NoRow]
    /\ UNCHANGED <<deploy, made, begun, torn, unwound, late>>

CreateQueue(q) ==
    /\ row[q].kind = "none"
    /\ row' = [row EXCEPT ![q] = Queue(Nobody, {})]
    /\ UNCHANGED <<deploy, made, begun, torn, unwound, late>>

\* Faulty variant: the recorded consumer alone is asked.
BoundByConsumer(q) == row[q].consumer \in Living

\* findBindingWorker: by the recorded consumer, by the stored manifests, and by
\* the dead letter queues of the queues that have one.
Bound(q) ==
    \/ row[q].consumer \in Living
    \/ \E w \in Resources : IsWorker(w) /\ q \in Referred(row[w].manifest)
    \/ \E p \in Resources : IsQueue(p) /\ q \in row[p].dead /\ row[p].consumer \in Living

DestroyQueue(q) ==
    /\ IsQueue(q)
    /\ ~Bound(q)
    /\ row' = [row EXCEPT ![q] = NoRow]
    /\ UNCHANGED <<deploy, made, begun, torn, unwound, late>>

-----------------------------------------------------------------------------

Init ==
    /\ row = [n \in Resources |-> NoRow]
    /\ deploy = [d \in Deploys |-> Idle]
    /\ made = 0 /\ begun = 0
    /\ torn = {} /\ unwound = {} /\ late = FALSE

Next ==
    \/ \E d \in Deploys :
         \/ \E w \in Workers, m \in Manifests : CreateBegins(d, w, m) \/ DeployBegins(d, w, m)
         \/ CreateBuilt(d) \/ DeployBuilt(d) \/ BuildFails(d) \/ Proved(d) \/ ProveFails(d)
    \/ \E w \in Workers : CreateBare(w) \/ DestroyWorker(w)
    \/ \E q \in Queues : CreateQueue(q)
    \/ \E q \in Resources : DestroyQueue(q)

Spec == Init /\ [][Next]_vars

-----------------------------------------------------------------------------

TypeOK ==
    /\ \A n \in Resources :
         \/ row[n] = NoRow
         \/ /\ IsWorker(n)
            /\ row[n].id \in 1..made
            /\ row[n].state \in {"creating", "undeployed", "sleeping", "failed"}
            /\ row[n].manifest \in Manifests \cup {NoCode}
         \/ /\ IsQueue(n)
            /\ row[n].consumer \in 0..made
            /\ row[n].dead \subseteq Resources
    /\ \A d \in Deploys : deploy[d].at \in {"idle", "creating", "building", "proving"}
    /\ made \in 0..MaxRows /\ begun \in 0..MaxBegun
    /\ torn \subseteq 1..made /\ unwound \subseteq 1..made
    /\ late \in BOOLEAN

AtRest(w) == IsWorker(w) /\ \A d \in Deploys : ~At(d, row[w].id)

\* Unless a deploy was cut short of its join or overlapped another of the same
\* worker: what a worker's stored manifest says it consumes is what is delivered
\* to it, and nothing else is (the promise of syncWorkerQueueBindings).
ClaimsAreDeclared ==
    \A w \in Resources : AtRest(w) /\ row[w].id \notin torn =>
        row[w].manifest.consumes = {q \in Resources : IsQueue(q) /\ row[q].consumer = row[w].id}

\* A queue never passes from one living worker to another: however deploys overlap,
\* the first to join keeps it until it lets go or goes.
NoClaimIsStolen ==
    [][\A q \in Resources :
         row[q].kind = "queue" /\ row[q].consumer \in Living /\ row'[q].kind = "queue" =>
            \/ row'[q].consumer \in {row[q].consumer, Nobody}
            \/ row[q].consumer \notin Living']_vars

\* A queue a stored manifest names exists, whoever was removing queues during the
\* deploy; only the manifest a roll back brought out again may name one that has gone.
BoundQueuesExist ==
    \A w \in Resources : AtRest(w) /\ row[w].id \notin torn \cup unwound =>
        \A n \in Referred(row[w].manifest) : IsQueue(n)

\* The comment in deployResourceRoute: the check before the build means that its copy
\* inside syncWorkerQueueBindings "can never actually fire here".  Another worker's
\* deploy may have claimed the queue during the build.
LateCheckNeverFires == ~late

\* The hint of a refused `hobby queue rm`: "or delete W first" - a deleted worker
\* holds no queue.
DeletedWorkersHoldNothing ==
    \A q \in Resources : IsQueue(q) => row[q].consumer \in Living \cup {Nobody}

\* The joins of workers and queues stand: as declared, with queues that exist, and
\* never taken from one worker by another.
BindingsStand ==
    /\ [](TypeOK /\ ClaimsAreDeclared /\ BoundQueuesExist)
    /\ NoClaimIsStolen
=============================================================================
