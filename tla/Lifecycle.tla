---------------------------- MODULE Lifecycle ----------------------------
(***************************************************************************)
(* The life of the resources of one project inside one hobby daemon: the   *)
(* state row the store keeps for each, the container behind it, and every  *)
(* actor that starts or stops one - automatic wakes (context.ts),          *)
(* `hobby wake` and `hobby sleep` (routes.ts), the hibernator              *)
(* (hibernator.ts), quiescing snapshots and in-place restores              *)
(* (snapshots.ts) and the reconcile pass of a restarted daemon             *)
(* (reconcile.ts).                                                         *)
(*                                                                         *)
(* The daemon is one JavaScript thread.  A step of an actor is what runs   *)
(* between two awaits that leave the process; an actor whose awaited       *)
(* promise is already settled (pc in Ready) runs before anything else      *)
(* arrives from outside, which is what the guard Settled says.             *)
(***************************************************************************)
EXTENDS Naturals, Sequences, FiniteSets

CONSTANTS
    Created,    \* the project's resources, in creation order
    Postgres,   \* those of kind postgres; the others are apps and workers
    Bound,      \* app or worker -> the database it is bound to, or NoDb
    NoDb,
    Wanted,     \* the resources that traffic reaches, each by itself
    Starters,   \* concurrent POST /start requests
    Stoppers,   \* concurrent POST /stop requests
    Snaps,      \* concurrent snapshots and in-place restores
    Sleepers,   \* {hibernator}, or {} in a run without one
    Reconciler, \* the reconcile pass of a daemon that starts again
    Nobody,
    Clients,    \* sessions through a proxy
    Faults      \* what may go wrong: "docker", "boot", "die", "clone", "daemon"

Resources == {Created[i] : i \in DOMAIN Created}

\* A wake of r is identified by r itself: one promise per key of inFlightWakes.
Wakes == Resources

Actors == Wakes \cup Starters \cup Stoppers \cup Snaps \cup Sleepers \cup {Reconciler}

ASSUME DistinctNames ==
    /\ Created \in Seq(Resources)
    /\ \A i, j \in DOMAIN Created : Created[i] = Created[j] => i = j
    /\ Postgres \subseteq Resources
    /\ Bound \in [Resources -> Postgres \cup {NoDb}]
    /\ \A d \in Postgres : Bound[d] = NoDb
    /\ NoDb \notin Resources
    /\ Wanted \subseteq Resources
    /\ Nobody \notin Actors
    /\ Reconciler \notin Resources \cup Starters \cup Stoppers \cup Snaps \cup Sleepers
    /\ Starters \cap (Resources \cup Stoppers \cup Snaps \cup Sleepers) = {}
    /\ Stoppers \cap (Resources \cup Snaps \cup Sleepers) = {}
    /\ Snaps \cap (Resources \cup Sleepers) = {}
    /\ Sleepers \cap Resources = {}

VARIABLES
    row,        \* resource -> ResourceState in the store
    box,        \* resource -> its container: down, booting or ready
    refused,    \* resources whose wake failed and whose retryAt is ahead
    live,       \* resource -> open connection handles (ActivityTracker.live)
    idle,       \* resource -> its idle clock: none, fresh, or ripe (past the threshold)
    attached,   \* client -> the resource its spliced session reaches, or Nobody
    backend,    \* clients whose session still has its other end in a container
    hold,       \* the snapshot holding the project (projectHolds), or Nobody
    pc,         \* actor -> where it is
    tgt,        \* actor -> the resource its handler call works on
    todo,       \* actor -> resources its loop listed and has still to come to
    done,       \* snapshot -> resources it has asked, then those it has stopped
    serving,    \* FALSE while a restarted daemon reconciles
    orphans,    \* docker commands a dead daemon left running
    quiet,      \* history: nothing was in flight when the hold was taken
    disturbed   \* history: resources on which two handler calls overlapped, or
                \* whose container died or was changed behind the daemon's back

store  == <<row, refused>>
world  == <<box, backend, attached, orphans>>
loops  == <<todo, done>>
ghosts == <<quiet, disturbed>>
vars   == <<store, world, live, idle, hold, pc, tgt, loops, serving, ghosts>>

-----------------------------------------------------------------------------

\* The stages of one call of a kind's start handler, then of its stop handler.
StartStages == {"starting", "probing", "answered", "exited", "giving_up", "reporting"}
StopStages  == {"stopping", "halted"}
Returned    == {"started", "start_failed", "stopped", "stop_failed"}

\* Stages whose awaited promise is settled.
Ready == Returned \cup {"unfenced", "db_up", "db_down", "resuming", "considering"}

Stages == StartStages \cup StopStages \cup Ready \cup
    {"off", "fenced", "await_db", "asking", "guarding", "cloning", "observed_idle",
     "inspecting", "saw_stopped", "saw_booting", "saw_ready"}

Settled == \A p \in Actors : pc[p] \notin Ready

InHandler(p, r) == pc[p] \in StartStages \cup StopStages /\ tgt[p] = r
Busy(r)  == \E p \in Actors : InHandler(p, r)
Up(r)    == box[r] # "down"
Fenced   == hold # Nobody

\* listResources is in creation order.
Before(r, q) == \E i, j \in DOMAIN Created : i < j /\ Created[i] = r /\ Created[j] = q
First(S) == CHOOSE r \in S : \A q \in S \ {r} : Before(r, q)
Last(S)  == CHOOSE r \in S : \A q \in S \ {r} : Before(q, r)

\* A container goes down: its sessions lose their backend, their handles stay
\* in the tracker until the proxy sees the close.
TakeDown(r) ==
    /\ box' = [box EXCEPT ![r] = "down"]
    /\ backend' = {c \in backend : attached[c] # r}

\* hibernator.ts, hasAwakeDependent
HasAwakeDependent(r) ==
    \E a \in Resources : Bound[a] = r /\ row[a] \in {"running", "starting"}

-----------------------------------------------------------------------------
(* The kind handlers (startPostgres, stopPostgres, startApp, stopApp).     *)

\* The synchronous head of a start handler: the row is written, docker called.
CallStart(p, r) ==
    /\ row' = [row EXCEPT ![r] = "starting"]
    /\ tgt' = [tgt EXCEPT ![p] = r]
    /\ disturbed' = IF Busy(r) THEN disturbed \cup {r} ELSE disturbed

CallStop(p, r) ==
    /\ row' = [row EXCEPT ![r] = "stopping"]
    /\ tgt' = [tgt EXCEPT ![p] = r]
    /\ disturbed' = IF Busy(r) THEN disturbed \cup {r} ELSE disturbed

Goto(p, stage) == pc' = [pc EXCEPT ![p] = stage]

\* An actor whose call returned: its locals are gone.
Home(p) == IF p \in Wakes THEN p ELSE Nobody
Leave(p) == Goto(p, "off") /\ tgt' = [tgt EXCEPT ![p] = Home(p)]

\* `docker start` of a container that already runs changes nothing.
DockerStart(p) ==
    /\ pc[p] = "starting"
    /\ \/ /\ Goto(p, "probing")
          /\ box' = [box EXCEPT ![tgt[p]] = IF @ = "down" THEN "booting" ELSE @]
          /\ UNCHANGED <<row, backend>>
       \/ /\ "docker" \in Faults
          /\ Goto(p, "start_failed")
          /\ row' = [row EXCEPT ![tgt[p]] = "failed"]
          /\ UNCHANGED <<box, backend>>

\* The readiness poll: an answer, a container found exited, or no answer in time.
Probe(p) ==
    /\ pc[p] = "probing"
    /\ \/ box[tgt[p]] = "ready" /\ Goto(p, "answered")
       \/ box[tgt[p]] = "down"
          /\ Goto(p, IF tgt[p] \in Postgres THEN "exited" ELSE "giving_up")
       \/ "boot" \in Faults /\ Up(tgt[p]) /\ Goto(p, "giving_up")
    /\ UNCHANGED <<row, box, backend>>

\* stopAfterFailedStart: best effort, an error is swallowed.
StopAfterFailedStart(p) ==
    /\ pc[p] = "giving_up"
    /\ Goto(p, "reporting")
    /\ \/ TakeDown(tgt[p])
       \/ "docker" \in Faults /\ UNCHANGED <<box, backend>>
    /\ UNCHANGED row

ReportFailedStart(p) ==
    /\ pc[p] \in {"exited", "reporting"}
    /\ Goto(p, "start_failed")
    /\ row' = [row EXCEPT ![tgt[p]] = "failed"]
    /\ UNCHANGED <<box, backend>>

\* Faulty variant: the idle clock is cleared, not started (activity.reset for touch).
ReportStartedUnwatched(p) ==
    /\ pc[p] = "answered"
    /\ Goto(p, "started")
    /\ row' = [row EXCEPT ![tgt[p]] = "running"]
    /\ idle' = [idle EXCEPT ![tgt[p]] = "none"]
    /\ UNCHANGED <<box, backend, live>>

\* `running`, and activity.touch: the idle clock starts now.
ReportStarted(p) ==
    /\ pc[p] = "answered"
    /\ Goto(p, "started")
    /\ row' = [row EXCEPT ![tgt[p]] = "running"]
    /\ idle' = [idle EXCEPT ![tgt[p]] = "fresh"]
    /\ UNCHANGED <<box, backend, live>>

\* Faulty variant: an error of docker stop is swallowed and `sleeping` written.
DockerStopSwallowed(p) ==
    /\ pc[p] = "stopping"
    /\ Goto(p, "halted")
    /\ \/ TakeDown(tgt[p])
       \/ "docker" \in Faults /\ UNCHANGED <<box, backend>>
    /\ UNCHANGED row

DockerStop(p) ==
    /\ pc[p] = "stopping"
    /\ \/ /\ Goto(p, "halted")
          /\ TakeDown(tgt[p])
          /\ UNCHANGED row
       \/ /\ "docker" \in Faults
          /\ Goto(p, "stop_failed")
          /\ row' = [row EXCEPT ![tgt[p]] = "failed"]
          /\ UNCHANGED <<box, backend>>

\* Faulty variant: the row takes docker's word for it, which is no ResourceState.
ReportStoppedInDockersWords(p) ==
    /\ pc[p] = "halted"
    /\ Goto(p, "stopped")
    /\ row' = [row EXCEPT ![tgt[p]] = "stopped"]
    /\ live' = [live EXCEPT ![tgt[p]] = {}]
    /\ idle' = [idle EXCEPT ![tgt[p]] = "none"]
    /\ UNCHANGED <<box, backend>>

\* `sleeping`, and activity.reset: handles and clock are forgotten.
ReportStopped(p) ==
    /\ pc[p] = "halted"
    /\ Goto(p, "stopped")
    /\ row' = [row EXCEPT ![tgt[p]] = "sleeping"]
    /\ live' = [live EXCEPT ![tgt[p]] = {}]
    /\ idle' = [idle EXCEPT ![tgt[p]] = "none"]
    /\ UNCHANGED <<box, backend>>

HandlerStep(p) ==
    /\ Settled
    /\ \/ /\ \/ DockerStart(p) \/ Probe(p) \/ StopAfterFailedStart(p)
             \/ ReportFailedStart(p) \/ DockerStop(p)
          /\ UNCHANGED <<live, idle>>
       \/ ReportStarted(p)
       \/ ReportStopped(p)
    /\ UNCHANGED <<refused, attached, orphans, hold, tgt, loops, serving, ghosts>>

-----------------------------------------------------------------------------
(* Automatic wakes and the start route.                                    *)

\* The promise of a wake settles: whoever awaits it goes on.
SettleWake(r, verdict) ==
    pc' = [p \in Actors |->
              IF p = r THEN "off"
              ELSE IF pc[p] = "await_db" /\ Bound[tgt[p]] = r THEN verdict
              ELSE pc[p]]

\* wakeBoundDatabase, then kinds.start.  p is the wake of r, or a start route.
NeedsDb(r) == Bound[r] # NoDb /\ row[Bound[r]] # "running"

StartWithoutDb(p, r) ==
    /\ ~NeedsDb(r)
    /\ Goto(p, "starting")
    /\ CallStart(p, r)

JoinDbWake(p, r) ==
    /\ NeedsDb(r) /\ pc[Bound[r]] # "off"
    /\ Goto(p, "await_db")
    /\ tgt' = [tgt EXCEPT ![p] = r]
    /\ UNCHANGED <<row, disturbed>>

DbIsRefused(p, r) ==
    /\ NeedsDb(r) /\ pc[Bound[r]] = "off" /\ Bound[r] \in refused
    /\ Leave(p)
    /\ UNCHANGED <<row, disturbed>>

StartDbWake(p, r) ==
    LET d == Bound[r] IN
    /\ NeedsDb(r) /\ pc[d] = "off" /\ d \notin refused
    /\ pc' = [pc EXCEPT ![p] = "await_db", ![d] = IF Fenced THEN "fenced" ELSE "starting"]
    /\ tgt' = [tgt EXCEPT ![p] = r, ![d] = d]
    /\ IF Fenced
       THEN UNCHANGED <<row, disturbed>>
       ELSE /\ row' = [row EXCEPT ![d] = "starting"]
            /\ disturbed' = IF Busy(d) THEN disturbed \cup {d} ELSE disturbed

Proceed(p, r) ==
    \/ StartWithoutDb(p, r) \/ JoinDbWake(p, r) \/ DbIsRefused(p, r) \/ StartDbWake(p, r)

WaitForFence(p, r) ==
    /\ Fenced
    /\ Goto(p, "fenced")
    /\ tgt' = [tgt EXCEPT ![p] = r]
    /\ UNCHANGED <<row, disturbed>>

\* Whoever finds it asleep asks for a wake: a connection, a request, a query, a
\* cron, a delivery; a connection also when its dial of a running database fails,
\* an alarm of a worker always.
WakeIsAsked(r) ==
    r \in Wanted /\ (row[r] # "running" \/ box[r] # "ready" \/ r \notin Postgres)

\* Faulty variant: the refusal is not looked at.
RequestWakeUnrefused(r) ==
    /\ serving /\ Settled
    /\ pc[r] = "off" /\ WakeIsAsked(r)
    /\ WaitForFence(r, r) \/ (~Fenced /\ Proceed(r, r))
    /\ UNCHANGED <<refused, world, live, idle, hold, loops, serving, quiet>>

\* Faulty variant: a wake does not wait for the hold.
RequestWakeUnfenced(r) ==
    /\ serving /\ Settled
    /\ pc[r] = "off" /\ WakeIsAsked(r)
    /\ r \notin refused
    /\ Proceed(r, r)
    /\ UNCHANGED <<refused, world, live, idle, hold, loops, serving, quiet>>

\* The head of wake(): an existing promise is shared, a refusal is thrown, a hold
\* is waited for; otherwise it goes on at once.
RequestWake(r) ==
    /\ serving /\ Settled
    /\ pc[r] = "off" /\ WakeIsAsked(r)
    /\ r \notin refused
    /\ WaitForFence(r, r) \/ (~Fenced /\ Proceed(r, r))
    /\ UNCHANGED <<refused, world, live, idle, hold, loops, serving, quiet>>

\* The row is read again after the fence; running is as good as a wake.
PassFence(r) ==
    /\ pc[r] = "unfenced"
    /\ \/ /\ row[r] = "running"
          /\ refused' = refused \ {r}
          /\ SettleWake(r, "db_up")
          /\ UNCHANGED <<row, tgt, disturbed>>
       \/ /\ row[r] # "running"
          /\ Proceed(r, r)
          /\ UNCHANGED refused
    /\ UNCHANGED <<world, live, idle, hold, loops, serving, quiet>>

\* The wake of the bound database settled.  Its failure is not charged to r.
AfterDb(p) ==
    /\ \/ /\ pc[p] = "db_up"
          /\ Goto(p, "starting")
          /\ CallStart(p, tgt[p])
       \/ /\ pc[p] = "db_down"
          /\ Leave(p)
          /\ UNCHANGED <<row, disturbed>>
    /\ UNCHANGED <<refused, world, live, idle, hold, loops, serving, quiet>>

FinishWake(r) ==
    /\ \/ /\ pc[r] = "started"
          /\ refused' = refused \ {r}
          /\ SettleWake(r, "db_up")
       \/ /\ pc[r] = "start_failed"
          /\ refused' = refused \cup {r}
          /\ SettleWake(r, "db_down")
    /\ UNCHANGED <<row, world, live, idle, hold, tgt, loops, serving, ghosts>>

\* The retry time passes.
RefusalLapses(r) ==
    /\ Settled
    /\ r \in refused
    /\ refused' = refused \ {r}
    /\ UNCHANGED <<row, world, live, idle, hold, pc, tgt, loops, serving, ghosts>>

\* startResourceRoute calls the handler itself: not through the wake, never refused.
RequestStart(p, r) ==
    /\ serving /\ Settled
    /\ pc[p] = "off"
    /\ \/ /\ WaitForFence(p, r)
          /\ UNCHANGED refused
       \/ /\ ~Fenced
          /\ refused' = refused \ {r}
          /\ Proceed(p, r)
    /\ UNCHANGED <<world, live, idle, hold, loops, serving, quiet>>

StartPastFence(p) ==
    /\ pc[p] = "unfenced"
    /\ refused' = refused \ {tgt[p]}
    /\ Proceed(p, tgt[p])
    /\ UNCHANGED <<world, live, idle, hold, loops, serving, quiet>>

FinishStart(p) ==
    /\ pc[p] \in {"started", "start_failed"}
    /\ Leave(p)
    /\ UNCHANGED <<store, world, live, idle, hold, loops, serving, ghosts>>

-----------------------------------------------------------------------------
(* The stop route.  With force it stops whatever the guard says, so a      *)
(* request that asked the guard may stop or be refused either way.         *)

RequestStop(p, r) ==
    /\ serving /\ Settled
    /\ pc[p] = "off"
    /\ \/ /\ row[r] = "running"
          /\ Goto(p, "asking")
          /\ tgt' = [tgt EXCEPT ![p] = r]
          /\ UNCHANGED <<row, disturbed>>
       \/ /\ row[r] # "running"
          /\ Goto(p, "stopping")
          /\ CallStop(p, r)
    /\ UNCHANGED <<refused, world, live, idle, hold, loops, serving, quiet>>

StopGuardAnswers(p) ==
    /\ Settled
    /\ pc[p] = "asking"
    /\ \/ /\ Goto(p, "stopping")
          /\ CallStop(p, tgt[p])
       \/ /\ Leave(p)
          /\ UNCHANGED <<row, disturbed>>
    /\ UNCHANGED <<refused, world, live, idle, hold, loops, serving, quiet>>

FinishStop(p) ==
    /\ pc[p] \in {"stopped", "stop_failed"}
    /\ refused' = IF pc[p] = "stopped" THEN refused \ {tgt[p]} ELSE refused
    /\ Leave(p)
    /\ UNCHANGED <<row, world, live, idle, hold, loops, serving, ghosts>>

-----------------------------------------------------------------------------
(* The activity guard, and the hibernator.                                 *)

\* A postgres says idle only when it answers and counts no client backend.  Any
\* guard may say active (a direct session, a worker's batch) or unreachable.
GuardSaysIdle(r) ==
    r \in Postgres => box[r] = "ready" /\ \A c \in backend : attached[c] # r

Running == {r \in Resources : row[r] = "running"}

HibernatorTick(h) ==
    /\ serving /\ Settled
    /\ pc[h] = "off"
    /\ todo' = [todo EXCEPT ![h] = Running]
    /\ Goto(h, "considering")
    /\ UNCHANGED <<store, world, live, idle, hold, tgt, done, serving, ghosts>>

NextTurn(h) ==
    /\ Goto(h, "considering")
    /\ todo' = [todo EXCEPT ![h] = @ \ {First(@)}]

\* One turn of tick's loop up to the guard's round trip.
Consider(h) ==
    /\ pc[h] = "considering"
    /\ \/ /\ todo[h] = {}
          /\ Leave(h)
          /\ UNCHANGED todo
       \/ /\ todo[h] # {}
          /\ LET r == First(todo[h]) IN
             IF live[r] = {} /\ idle[r] = "ripe" /\ ~HasAwakeDependent(r)
             THEN Goto(h, "asking") /\ UNCHANGED todo
             ELSE NextTurn(h)
          /\ UNCHANGED tgt
    /\ UNCHANGED <<store, world, live, idle, hold, done, serving, ghosts>>

\* The guard reads the database now; the tick hears of it later.
HibernatorGuard(h) ==
    /\ Settled
    /\ pc[h] = "asking"
    /\ \/ /\ GuardSaysIdle(First(todo[h]))
          /\ Goto(h, "observed_idle")
          /\ UNCHANGED todo
       \/ NextTurn(h)
    /\ UNCHANGED <<store, world, live, idle, hold, tgt, done, serving, ghosts>>

\* Faulty variant: the dependents are not read again.
StillIdleAlone(r) == live[r] = {} /\ row[r] = "running"

StillIdle(r) == live[r] = {} /\ row[r] = "running" /\ ~HasAwakeDependent(r)

\* Everything read before the guard is read again, then the handler is called.
Hibernate(h) ==
    /\ Settled
    /\ pc[h] = "observed_idle"
    /\ LET r == First(todo[h]) IN
       \/ /\ StillIdle(r)
          /\ Goto(h, "stopping")
          /\ CallStop(h, r)
          /\ UNCHANGED todo
       \/ /\ ~StillIdle(r)
          /\ NextTurn(h)
          /\ UNCHANGED <<row, tgt, disturbed>>
    /\ UNCHANGED <<refused, world, live, idle, hold, done, serving, quiet>>

HibernateNext(h) ==
    /\ pc[h] \in {"stopped", "stop_failed"}
    /\ NextTurn(h)
    /\ UNCHANGED <<store, world, live, idle, hold, tgt, done, serving, ghosts>>

-----------------------------------------------------------------------------
(* Quiescing snapshots and in-place restores: hold, guards, stops, copy,   *)
(* resume in reverse, release.                                             *)

\* History only: what a snapshot would have to find for its stops to be enough.
NothingInFlight ==
    /\ \A r \in Resources : ~Busy(r) /\ (row[r] = "running" \/ ~Up(r))
    /\ \A p \in Wakes \cup Starters : pc[p] = "off"

\* Faulty variant: no conflict with a hold that is taken.
TakeHoldUnchecked(s) ==
    /\ serving /\ Settled
    /\ pc[s] = "off"
    /\ hold' = s
    /\ quiet' = NothingInFlight
    /\ todo' = [todo EXCEPT ![s] = Running]
    /\ Goto(s, IF Running = {} THEN "cloning" ELSE "guarding")
    /\ UNCHANGED <<store, world, live, idle, tgt, done, serving, disturbed>>

\* A second hold is a conflict.  quiesce lists what is running, at once.
TakeHold(s) ==
    /\ serving /\ Settled
    /\ pc[s] = "off"
    /\ hold = Nobody
    /\ hold' = s
    /\ quiet' = NothingInFlight
    /\ todo' = [todo EXCEPT ![s] = Running]
    /\ Goto(s, IF Running = {} THEN "cloning" ELSE "guarding")
    /\ UNCHANGED <<store, world, live, idle, tgt, done, serving, disturbed>>

StopNext(s, rest) ==
    /\ Goto(s, "stopping")
    /\ CallStop(s, First(rest))

\* Every guard is asked before the first stop; active or unreachable throws.
QuiesceGuard(s) ==
    /\ Settled
    /\ pc[s] = "guarding"
    /\ LET r     == First(todo[s])
           asked == done[s] \cup {r}
       IN \/ /\ GuardSaysIdle(r)
             /\ IF todo[s] # {r}
                THEN /\ todo' = [todo EXCEPT ![s] = @ \ {r}]
                     /\ done' = [done EXCEPT ![s] = asked]
                     /\ UNCHANGED <<pc, row, tgt, disturbed>>
                ELSE /\ todo' = [todo EXCEPT ![s] = asked]
                     /\ done' = [done EXCEPT ![s] = {}]
                     /\ StopNext(s, asked)
          \/ /\ done' = [done EXCEPT ![s] = {}]
             /\ Goto(s, "resuming")
             /\ UNCHANGED <<todo, row, tgt, disturbed>>
    /\ UNCHANGED <<refused, world, live, idle, hold, serving, quiet>>

\* One stop succeeded: onStopped, and the next one or the copy.
QuiesceStopped(s) ==
    /\ pc[s] = "stopped"
    /\ LET rest == todo[s] \ {First(todo[s])} IN
       /\ todo' = [todo EXCEPT ![s] = rest]
       /\ done' = [done EXCEPT ![s] = @ \cup {First(todo[s])}]
       /\ IF rest = {}
          THEN Goto(s, "cloning") /\ UNCHANGED <<row, tgt, disturbed>>
          ELSE StopNext(s, rest)
    /\ UNCHANGED <<refused, world, live, idle, hold, serving, quiet>>

\* Faulty variant: what was stopped is known only if the whole quiesce returns.
QuiesceFailsForgetting(s) ==
    /\ pc[s] = "stop_failed"
    /\ Goto(s, "resuming")
    /\ done' = [done EXCEPT ![s] = {}]
    /\ UNCHANGED <<store, world, live, idle, hold, tgt, todo, serving, ghosts>>

\* Faulty variant: quiesce runs outside the try, so its error skips the finally.
QuiesceFailsOutsideTry(s) ==
    /\ pc[s] = "stop_failed"
    /\ Leave(s)
    /\ UNCHANGED <<store, world, live, idle, hold, loops, serving, ghosts>>

\* A stop that fails ends the quiesce; what was stopped before it is resumed.
QuiesceFails(s) ==
    /\ pc[s] = "stop_failed"
    /\ Goto(s, "resuming")
    /\ UNCHANGED <<store, world, live, idle, hold, tgt, loops, serving, ghosts>>

\* The copy ends, well or not: both ways lead to the finally block.
FinishCopy(s) ==
    /\ Settled
    /\ pc[s] = "cloning"
    /\ Goto(s, "resuming")
    /\ UNCHANGED <<store, world, live, idle, hold, tgt, loops, serving, ghosts>>

Resuming(s) == pc[s] \in {"resuming", "started", "start_failed"}

\* Faulty variant: resume asks for a wake, which waits for the hold resume keeps.
ResumeThroughWake(s) ==
    /\ Resuming(s)
    /\ done[s] # {}
    /\ done' = [done EXCEPT ![s] = @ \ {Last(@)}]
    /\ Goto(s, "fenced")
    /\ tgt' = [tgt EXCEPT ![s] = Last(done[s])]
    /\ UNCHANGED <<store, world, live, idle, hold, todo, serving, ghosts>>

\* resume: the handlers are called directly, the last stopped first.
Resume(s) ==
    /\ Resuming(s)
    /\ done[s] # {}
    /\ done' = [done EXCEPT ![s] = @ \ {Last(@)}]
    /\ Goto(s, "starting")
    /\ CallStart(s, Last(done[s]))
    /\ UNCHANGED <<refused, world, live, idle, hold, todo, serving, quiet>>

\* The fence opens: everything that waited on it becomes ready.
Release(s) ==
    /\ Resuming(s)
    /\ done[s] = {}
    /\ hold' = IF hold = s THEN Nobody ELSE hold
    /\ pc' = [p \in Actors |-> IF p = s THEN "off"
                               ELSE IF pc[p] = "fenced" THEN "unfenced" ELSE pc[p]]
    /\ tgt' = [tgt EXCEPT ![s] = Nobody]
    /\ todo' = [todo EXCEPT ![s] = {}]
    /\ UNCHANGED <<store, world, live, idle, done, serving, ghosts>>

-----------------------------------------------------------------------------
(* The world outside the daemon.                                           *)

Boots(r) ==
    /\ box[r] = "booting"
    /\ box' = [box EXCEPT ![r] = "ready"]
    /\ UNCHANGED <<store, backend, attached, orphans, live, idle, hold, pc, tgt, loops, serving, ghosts>>

ContainerDies(r) ==
    /\ Settled
    /\ "die" \in Faults /\ Up(r)
    /\ TakeDown(r)
    /\ disturbed' = disturbed \cup {r}      \* its label is no handler's any more
    /\ UNCHANGED <<store, attached, orphans, live, idle, hold, pc, tgt, loops, serving, quiet>>

TimePasses(r) ==
    /\ idle[r] = "fresh"
    /\ Sleepers # {}      \* only the hibernator reads the clock
    /\ idle' = [idle EXCEPT ![r] = "ripe"]
    /\ UNCHANGED <<store, world, live, hold, pc, tgt, loops, serving, ghosts>>

\* A proxy that read `running` some time ago reaches a container that answers.
OpenSession(c, r) ==
    /\ serving /\ Settled
    /\ attached[c] = Nobody
    /\ box[r] = "ready"
    /\ attached' = [attached EXCEPT ![c] = r]
    /\ backend' = backend \cup {c}
    /\ live' = [live EXCEPT ![r] = @ \cup {c}]
    /\ idle' = [idle EXCEPT ![r] = "none"]
    /\ UNCHANGED <<store, box, orphans, hold, pc, tgt, loops, serving, ghosts>>

\* Faulty variant: the tracker counts, so a close takes whichever handle is there.
CloseSessionByCount(c) ==
    /\ Settled
    /\ attached[c] # Nobody
    /\ LET r == attached[c]
           gone == IF live[r] = {} THEN {} ELSE {CHOOSE x \in live[r] : TRUE}
       IN /\ live' = [live EXCEPT ![r] = @ \ gone]
          /\ idle' = [idle EXCEPT ![r] = IF live[r] = gone /\ gone # {} THEN "fresh" ELSE @]
    /\ attached' = [attached EXCEPT ![c] = Nobody]
    /\ backend' = backend \ {c}
    /\ UNCHANGED <<store, box, orphans, hold, pc, tgt, loops, serving, ghosts>>

\* Closing a handle that reset() already dropped changes nothing.
CloseSession(c) ==
    /\ Settled
    /\ attached[c] # Nobody
    /\ LET r == attached[c] IN
       /\ live' = [live EXCEPT ![r] = @ \ {c}]
       /\ idle' = [idle EXCEPT ![r] = IF live[r] = {c} THEN "fresh" ELSE @]
    /\ attached' = [attached EXCEPT ![c] = Nobody]
    /\ backend' = backend \ {c}
    /\ UNCHANGED <<store, box, orphans, hold, pc, tgt, loops, serving, ghosts>>

-----------------------------------------------------------------------------
(* A daemon dies at any await and another starts: it reconciles every row, *)
(* then serves.  A docker command the dead one issued may still take effect. *)

Crash ==
    /\ "daemon" \in Faults
    /\ serving /\ Settled
    /\ orphans' = orphans \cup
          {<<"stop", tgt[p]>> : p \in {q \in Actors : pc[q] \in {"stopping", "giving_up"}}} \cup
          {<<"start", tgt[p]>> : p \in {q \in Actors : pc[q] = "starting"}}
    /\ disturbed' = disturbed \cup {o[2] : o \in orphans'}
    /\ pc' = [p \in Actors |-> IF p = Reconciler THEN "inspecting" ELSE "off"]
    /\ tgt' = [p \in Actors |-> Home(p)]
    /\ todo' = [p \in Actors |-> IF p = Reconciler THEN Resources ELSE {}]
    /\ done' = [p \in Actors |-> {}]
    /\ hold' = Nobody
    /\ refused' = {}
    /\ live' = [r \in Resources |-> {}]
    /\ idle' = [r \in Resources |-> "none"]
    /\ attached' = [c \in Clients |-> Nobody]
    /\ backend' = {}
    /\ serving' = FALSE
    /\ UNCHANGED <<row, box, quiet>>

OrphanTakesEffect(o) ==
    /\ Settled
    /\ orphans' = orphans \ {o}
    /\ \/ /\ o[1] = "stop"
          /\ TakeDown(o[2])
       \/ /\ o[1] = "start"
          /\ box' = [box EXCEPT ![o[2]] = IF @ = "down" THEN "booting" ELSE @]
          /\ UNCHANGED backend
    /\ UNCHANGED <<store, attached, live, idle, hold, pc, tgt, loops, serving, ghosts>>

\* docker inspect, and the probe of a container that is up.
Inspect(p) ==
    /\ pc[p] = "inspecting"
    /\ LET r == First(todo[p]) IN
       \/ box[r] = "down" /\ Goto(p, "saw_stopped")
       \/ Up(r) /\ Goto(p, "saw_booting")      \* not up yet, or the budget is spent
       \/ box[r] = "ready" /\ Goto(p, "saw_ready")
    /\ UNCHANGED <<store, world, live, idle, hold, tgt, loops, serving, ghosts>>

CorrectedState(recorded, bucket) ==
    CASE bucket = "saw_ready" -> "running"
      [] bucket = "saw_booting" -> "starting"
      [] bucket = "saw_stopped" /\ recorded \in {"sleeping", "stopping"} -> "sleeping"
      [] OTHER -> "failed"

\* Faulty variant: a resource found running gets no idle clock.
CorrectRowOnly(r, corrected) ==
    /\ row' = [row EXCEPT ![r] = corrected]
    /\ UNCHANGED idle

CorrectRow(r, corrected) ==
    /\ row' = [row EXCEPT ![r] = corrected]
    /\ idle' = IF corrected = "running" THEN [idle EXCEPT ![r] = "fresh"] ELSE idle

\* The daemon serves when the last row has been looked at.
Correct(p) ==
    /\ pc[p] \in {"saw_stopped", "saw_booting", "saw_ready"}
    /\ LET r == First(todo[p]) IN
       /\ CorrectRow(r, CorrectedState(row[r], pc[p]))
       /\ todo' = [todo EXCEPT ![p] = @ \ {r}]
       /\ IF todo[p] = {r}
          THEN Goto(p, "off") /\ serving' = TRUE
          ELSE Goto(p, "inspecting") /\ UNCHANGED serving
    /\ UNCHANGED <<refused, world, live, hold, tgt, done, ghosts>>

-----------------------------------------------------------------------------

Init ==
    /\ row \in [Resources -> {"running", "sleeping", "failed"}]
    /\ \A a \in Resources : row[a] = "running" /\ Bound[a] # NoDb => row[Bound[a]] = "running"
    /\ box = [r \in Resources |-> IF row[r] = "running" THEN "ready" ELSE "down"]
    /\ refused = {}
    /\ live = [r \in Resources |-> {}]
    /\ idle = [r \in Resources |-> IF row[r] = "running" THEN "fresh" ELSE "none"]
    /\ attached = [c \in Clients |-> Nobody]
    /\ backend = {}
    /\ hold = Nobody
    /\ pc = [p \in Actors |-> "off"]
    /\ tgt = [p \in Actors |-> Home(p)]
    /\ todo = [p \in Actors |-> {}]
    /\ done = [p \in Actors |-> {}]
    /\ serving = TRUE
    /\ orphans = {}
    /\ quiet = FALSE
    /\ disturbed = {}

WakeStep(r)  == PassFence(r) \/ AfterDb(r) \/ FinishWake(r)
StartStep(p) == StartPastFence(p) \/ AfterDb(p) \/ FinishStart(p)
StopStep(p)  == StopGuardAnswers(p) \/ FinishStop(p)
SleepStep(h) == Consider(h) \/ HibernatorGuard(h) \/ Hibernate(h) \/ HibernateNext(h)
SnapStep(s)  ==
    QuiesceGuard(s) \/ QuiesceStopped(s) \/ QuiesceFails(s) \/ FinishCopy(s) \/ Resume(s)
    \/ Release(s)

ActorStep(p) ==
    \/ HandlerStep(p)
    \/ p \in Resources /\ WakeStep(p)
    \/ p \in Starters /\ StartStep(p)
    \/ p \in Stoppers /\ StopStep(p)
    \/ p \in Sleepers /\ (HibernatorTick(p) \/ SleepStep(p))
    \/ p \in Snaps /\ SnapStep(p)

Request ==
    \/ \E r \in Resources : RequestWake(r)
    \/ \E p \in Starters, r \in Resources : RequestStart(p, r)
    \/ \E p \in Stoppers, r \in Resources : RequestStop(p, r)
    \/ \E s \in Snaps : TakeHold(s)
    \/ \E c \in Clients, r \in Resources : OpenSession(c, r)

World ==
    \/ \E r \in Resources : Boots(r) \/ ContainerDies(r) \/ TimePasses(r) \/ RefusalLapses(r)
    \/ \E c \in Clients : CloseSession(c)

Restart ==
    \/ Crash \/ Inspect(Reconciler) \/ Correct(Reconciler)
    \/ \E o \in orphans : OrphanTakesEffect(o)

Next == (\E p \in Actors : ActorStep(p)) \/ Request \/ World \/ Restart

Spec == Init /\ [][Next]_vars

\* What an actor has begun, its awaited calls answering and timing out, it goes
\* on with, and the hibernator's timer fires.  Strong, because an actor gets the
\* thread only between the steps of the others.  Nothing makes a request arrive.
FairSpec ==
    /\ Spec
    /\ \A p \in Actors : SF_vars(ActorStep(p))
    /\ \A r \in Resources : WF_vars(Boots(r)) /\ WF_vars(TimePasses(r))

\* A database with no client backend is found idle by a guard sooner or later.
QuietGuardSpec ==
    /\ FairSpec
    /\ \A h \in Sleepers : SF_vars(HibernatorGuard(h) /\ pc'[h] = "observed_idle")

-----------------------------------------------------------------------------
(* Properties.                                                             *)

States == {"running", "starting", "sleeping", "stopping", "failed"}

\* Every variable has its type; a row only ever holds a ResourceState.
TypeOK ==
    /\ row \in [Resources -> States]
    /\ box \in [Resources -> {"down", "booting", "ready"}]
    /\ refused \subseteq Resources
    /\ live \in [Resources -> SUBSET Clients]
    /\ idle \in [Resources -> {"none", "fresh", "ripe"}]
    /\ backend \subseteq Clients
    /\ attached \in [Clients -> Resources \cup {Nobody}]
    /\ hold \in Snaps \cup {Nobody}
    /\ pc \in [Actors -> Stages]
    /\ tgt \in [Actors -> Resources \cup {Nobody}]
    /\ todo \in [Actors -> SUBSET Resources]
    /\ done \in [Actors -> SUBSET Resources]
    /\ serving \in BOOLEAN
    /\ orphans \subseteq {"stop", "start"} \X Resources
    /\ quiet \in BOOLEAN
    /\ disturbed \subseteq Resources

\* Two snapshots or restores never work on the project at once, from the hold to
\* the release (context.ts, holdProject).
HoldIsExclusive ==
    \A s, t \in Snaps : pc[s] # "off" /\ pc[t] # "off" => s = t

\* No container of the project is up while its files are copied or swapped
\* (snapshots.ts, the comment on holdProjectAsleep in takeSnapshot).
CopyIsCold ==
    \A s \in Snaps : pc[s] = "cloning" => \A r \in Resources : ~Up(r)

\* The same of a snapshot that found nothing in flight when it took the hold:
\* the fence and the quiesce are enough, whatever is asked for meanwhile.
QuietCopyIsCold == quiet => CopyIsCold

\* A row that says sleeping has its container down, one that says running has it
\* answering (reconcile.ts, the table).
LabelIsTrue(r) ==
    /\ row[r] = "sleeping" => ~Up(r)
    /\ row[r] = "running" => box[r] = "ready"

\* So it is (reconcile.ts: `stopped` is exactly what `sleeping` already asserts)
\* wherever two handler calls never overlapped and the container did not change
\* by itself: every handler, on every path, leaves a true label.
UndisturbedLabelsAreTrue == \A r \in Resources \ disturbed : LabelIsTrue(r)

\* A running resource has a session open or an idle clock: the hibernator can
\* always reach a verdict on it, also after a restart (reconcile.ts, touch).
Watched(r) == row[r] = "running" => live[r] # {} \/ idle[r] # "none"
RunningIsWatched == serving => \A r \in Resources : Watched(r)

\* A session whose container still serves it is one the tracker counts, so the
\* hibernator sees it, whatever older handles are closed late (activity.ts).
SessionsAreCounted ==
    \A c \in backend : attached[c] \notin disturbed => c \in live[attached[c]]

\* An app that is up has its database up (hibernator.ts, hasAwakeDependent).
HasItsDatabase(a) ==
    row[a] \in {"starting", "running"} /\ Bound[a] # NoDb => row[Bound[a]] = "running"

\* So it is under traffic and the hibernator - snapshots, `hobby wake` and `hobby sleep`
\* act on a database whoever uses it - unless handler calls overlapped on one of the
\* two: the order of the wakes and the hibernator's second look are enough.
UndisturbedAppKeepsItsDatabase ==
    \A a \in Resources : {a, Bound[a]} \cap disturbed = {} => HasItsDatabase(a)

\* A wake never calls a start handler of a resource it is refused for, whoever
\* cleared or set the refusal meanwhile (context.ts, buildWake).
RefusedIsNotWoken ==
    [][\A r \in Resources : pc[r] # "starting" /\ pc'[r] = "starting" => r \notin refused']_vars

\* Every wake settles, one way or the other: nobody waits on it for ever.
WakesSettle == \A r \in Resources : []<>(pc[r] = "off")

\* Every hold is released, whatever fails under it.
HoldIsReleased == []<>(hold = Nobody)

\* What a snapshot stops is started again, also when the snapshot fails half way.
QuiescedComesBack ==
    \A s \in Snaps, r \in Resources :
        pc[s] \in StopStages /\ tgt[s] = r ~> row[r] \in {"starting", "running", "failed"}

\* A running resource that answers and that nothing uses is put to sleep.  (One
\* whose container is gone under the label `running` is not: its guard never
\* answers, and only a connection or a restart finds out.)
InUse(r) == (\E c \in Clients : attached[c] = r) \/ HasAwakeDependent(r)
UnusedSleeps ==
    \A r \in Resources :
        row[r] = "running" ~> row[r] # "running" \/ InUse(r) \/ box[r] # "ready"

\* What the daemon believes is so: its count of sessions, and its labels on rows that
\* two handler calls never reached at once.
BeliefsAreTrue ==
    /\ SessionsAreCounted
    /\ UndisturbedLabelsAreTrue

\* Whatever fails on the way, nothing stays as a snapshot or a wake has left it: each
\* wake settles, each hold is released, and what was quiesced comes back.
SnapshotsLetGo ==
    /\ WakesSettle
    /\ HoldIsReleased
    /\ QuiescedComesBack
=============================================================================
