------------------------------- MODULE Timers -------------------------------
\* The daemon's own clocks over the workers of a box: the hibernator that stops
\* what is idle, the alarm mirror that wakes a worker whose Durable Object alarm
\* has come due, the cron scheduler that wakes it and posts the firing, and the
\* shutdown that drains the three, closes the doors and stops what may sleep.
\*
\* now counts ticks of the wall clock, and every loop may be late by any of them.
\* A wake is one per worker whoever asks, and a stop is one step here (Lifecycle
\* takes both apart).  workerd is external: it keeps one row per alarm, fires it
\* when it is awake and due, and drops the row when the handler is done.
EXTENDS Naturals, FiniteSets

CONSTANTS
    Workers,        \* deployed workers, each in a project of its own
    Pinned,         \* those whose project never sleeps
    CronAt,         \* CronAt[w]: the ticks at which w's schedule matches
    AlarmTimes,     \* the deadlines an object may choose
    SleepAfter,     \* sleepAfterSeconds
    Grace,          \* DEFAULT_WAKE_GRACE_SECONDS
    MaxTime,        \* bound on now
    MaxAlarms,      \* bound on alarms set
    MaxFaults       \* bound on failed wakes, crashes, shutdowns and ejects together

None  == MaxTime + 1
Times == 0..MaxTime
Idle  == [pc |-> "wait", todo |-> {}, at |-> 0, on |-> {}]

\* The loops in the order performShutdown drains them, then the rest of it.
Stages == <<"serving", "hibernator", "mirror", "crons", "doors", "stops", "gone">>
Loops  == {"mirror", "crons"}

VARIABLES
    now,
    row,        \* row[w]: the state the store holds
    waking,     \* the workers with a wake in flight (inFlightWakes)
    clients,    \* the workers with a request open
    idleAt,     \* idleAt[w]: since when the tracker calls w idle
    released,   \* the workers whose project was ejected
    alarm,      \* alarm[w]: w's earliest alarm on disk, None for none
    firing,     \* the workers running an alarm handler
    loop,       \* loop[l]: where the loop is, what its tick still holds, on whom it waits
    lastFired,  \* CronState.lastFiredAtMs, None for no entry
    startedAt,  \* CronState.startedAtMs
    stage,      \* how far performShutdown has come; "down" after a crash
    toStop,     \* what is left of resourcesToStopOnShutdown
    stopped,    \* history: what this shutdown has stopped
    fired,      \* history: the firings, with the match each is for
    budget      \* what is left of each bound

vars  == <<now, row, waking, clients, idleAt, released, alarm, firing, loop,
           lastFired, startedAt, stage, toStop, stopped, fired, budget>>

TypeOK ==
    /\ now \in Times
    /\ row \in [Workers -> {"sleeping", "starting", "running", "failed"}]
    /\ waking \subseteq Workers /\ clients \subseteq Workers
    /\ released \subseteq Workers /\ firing \subseteq Workers
    /\ idleAt \in [Workers -> Times]
    /\ alarm \in [Workers -> Times \cup {None}]
    /\ loop \in [Loops -> [pc : {"wait", "tick", "wake", "post"}, todo : SUBSET Workers,
                           at : Times, on : SUBSET Workers]]
    /\ lastFired \in [Workers -> Times \cup {None}]
    /\ startedAt \in Times
    /\ stage \in {Stages[i] : i \in 1..7} \cup {"down"}
    /\ toStop \subseteq Workers /\ stopped \subseteq Workers
    /\ fired \subseteq [worker : Workers, due : Times, at : Times]
    /\ budget \in [alarms : 0..MaxAlarms, faults : 0..MaxFaults]

Init ==
    /\ now = 0
    /\ row = [w \in Workers |-> "sleeping"]
    /\ waking = {} /\ clients = {} /\ released = {} /\ firing = {}
    /\ idleAt = [w \in Workers |-> 0]
    /\ alarm = [w \in Workers |-> None]
    /\ loop = [l \in Loops |-> Idle]
    /\ lastFired = [w \in Workers |-> None]
    /\ startedAt = 0
    /\ stage = "serving"
    /\ toStop = {} /\ stopped = {}
    /\ fired = {}
    /\ budget = [alarms |-> MaxAlarms, faults |-> MaxFaults]

Spend(k) == budget[k] > 0 /\ budget' = [budget EXCEPT ![k] = @ - 1]

\* The daemon runs, and shutdown has not passed the stage s.
Running == stage \notin {"down", "gone"}
StageNo == CHOOSE i \in 1..7 : Stages[i] = stage
Before(s) == Running /\ \E i \in 1..7 : Stages[i] = s /\ StageNo < i

\* isAlarmDue, and isAlarmWithin: due or imminent.
Due(w, t)    == alarm[w] # None /\ alarm[w] <= t
Within(w, t) == alarm[w] # None /\ alarm[w] <= t + Grace

\* The first match strictly after t, None when the calendar here ends first.
NextCronTime(w, t) ==
    LET later == {m \in CronAt[w] : m > t}
    IN  IF later = {} THEN None ELSE CHOOSE m \in later : \A n \in later : m <= n

----------------------------------------------------------------------------
\* The world: time, requests, the alarms of workerd.

Tick ==
    /\ now < MaxTime
    /\ now' = now + 1
    /\ UNCHANGED <<row, waking, clients, idleAt, released, alarm, firing, loop,
                   lastFired, startedAt, stage, toStop, stopped, fired, budget>>

\* wake(): joined if one is in flight, nothing to do if it runs already.
Ask(w) ==
    IF row[w] = "running" THEN UNCHANGED <<row, waking>>
    ELSE /\ waking' = waking \cup {w}
         /\ row' = [row EXCEPT ![w] = "starting"]

ClientArrives(w) ==
    /\ Before("doors")
    /\ w \notin clients
    /\ clients' = clients \cup {w}
    /\ Ask(w)
    /\ UNCHANGED <<now, idleAt, released, alarm, firing, loop, lastFired, startedAt,
                   stage, toStop, stopped, fired, budget>>

\* It was answered, it hung up, or its wake timed out: the wake goes on.
ClientLeaves(w) ==
    /\ w \in clients
    /\ clients' = clients \ {w}
    /\ idleAt' = [idleAt EXCEPT ![w] = IF row[w] = "running" THEN now ELSE @]
    /\ UNCHANGED <<now, row, waking, released, alarm, firing, loop, lastFired, startedAt,
                   stage, toStop, stopped, fired, budget>>

\* The worker's code sets its object's alarm: a request's handler, a scheduled one, or
\* what either has left running.
Sets(w, t) ==
    /\ w \notin firing
    /\ t >= now
    /\ alarm' = [alarm EXCEPT ![w] = t]
    /\ Spend("alarms")

SetAlarm(w, t) ==
    /\ row[w] = "running"
    /\ Sets(w, t)
    /\ UNCHANGED <<now, row, waking, clients, idleAt, released, firing, loop, lastFired,
                   startedAt, stage, toStop, stopped, fired>>

AlarmFires(w) ==
    /\ row[w] = "running" /\ Due(w, now) /\ w \notin firing
    /\ firing' = firing \cup {w}
    /\ UNCHANGED <<now, row, waking, clients, idleAt, released, alarm, loop, lastFired,
                   startedAt, stage, toStop, stopped, fired, budget>>

AlarmEnds(w) ==
    /\ w \in firing
    /\ firing' = firing \ {w}
    /\ alarm' = [alarm EXCEPT ![w] = None]
    /\ UNCHANGED <<now, row, waking, clients, idleAt, released, loop, lastFired,
                   startedAt, stage, toStop, stopped, fired, budget>>

\* The rest of a tick's list, and the wait for the next tick when it is through.
Resume(l, rest) ==
    IF rest = {} THEN Idle ELSE [loop[l] EXCEPT !.pc = "tick", !.todo = rest, !.on = {}]


\* What a loop does when the wake it waits for has settled.
CarriesOn(l, woke) ==
    IF l = "crons" /\ woke THEN [loop[l] EXCEPT !.pc = "post"] ELSE Resume(l, loop[l].todo)

\* A wake settles, for everyone who waits for it; a start touches the tracker.
WakeEnds(w, woke) ==
    /\ Running
    /\ w \in waking
    /\ IF woke THEN UNCHANGED budget ELSE Spend("faults")
    /\ waking' = waking \ {w}
    /\ row' = [row EXCEPT ![w] = IF woke THEN "running" ELSE "failed"]
    /\ idleAt' = IF woke THEN [idleAt EXCEPT ![w] = now] ELSE idleAt
    /\ loop' = [l \in Loops |-> IF loop[l].pc = "wake" /\ w \in loop[l].on
                                THEN CarriesOn(l, woke) ELSE loop[l]]
    /\ UNCHANGED <<now, clients, released, alarm, firing, lastFired, startedAt, stage,
                   toStop, stopped, fired>>

\* stop of a kind handler: the container is gone with what it ran.
StopNow(ws) ==
    /\ row' = [w \in Workers |-> IF w \in ws THEN "sleeping" ELSE row[w]]
    /\ firing' = firing \ ws
    /\ idleAt' = [w \in Workers |-> IF w \in ws THEN 0 ELSE idleAt[w]]

\* eject --release stops what runs and leaves the rest to its owner.
Release(w) ==
    /\ stage = "serving"
    /\ w \notin released
    /\ released' = released \cup {w}
    /\ StopNow({w} \cap {v \in Workers : row[v] = "running"})
    /\ Spend("faults")
    /\ UNCHANGED <<now, waking, clients, alarm, loop, lastFired, startedAt,
                   stage, toStop, stopped, fired>>

----------------------------------------------------------------------------
\* The loops.  Each captures its list when its tick begins and takes the entries
\* one at a time; a stopped loop begins no tick but finishes the one it is in.

Begin(l, ws) ==
    /\ Before(l) /\ loop[l].pc = "wait"
    /\ ws # {}
    /\ loop' = [loop EXCEPT ![l] = [pc |-> "tick", todo |-> ws, at |-> now, on |-> {}]]
    /\ UNCHANGED <<now, row, waking, clients, idleAt, released, alarm, firing, lastFired,
                   startedAt, stage, toStop, stopped, fired, budget>>

MirrorBegins ==
    Begin("mirror", {w \in Workers : row[w] \in {"sleeping", "failed"} /\ w \notin released})
CronsBegin ==
    Begin("crons", {w \in Workers : row[w] # "failed" /\ CronAt[w] # {}})

Take(l, w) == loop[l].pc = "tick" /\ w \in loop[l].todo
Done(l, w) == Resume(l, loop[l].todo \ {w})
Waits(l, w, pc) == [loop[l] EXCEPT !.pc = pc, !.todo = @ \ {w}, !.on = {w}]

\* Faulty variant: shouldSleepNamespace's question, which lets the overdue pass.
GuardsImminent(w) == alarm[w] # None /\ alarm[w] >= now /\ alarm[w] <= now + Grace
\* durableObjectAlarmGuard, read at once before the stop.
Guards(w) == Within(w, now)

MaySleep(w) ==
    /\ row[w] = "running"
    /\ w \notin released \cup Pinned \cup clients
    /\ now - idleAt[w] >= SleepAfter
    /\ ~Guards(w)

\* One entry of a hibernator's tick: what it decides by is read at once.  The worker
\* runs until it is stopped: an alarm it sets after the guard has read its table stops
\* nothing any more, but is on disk.
Hibernate(w) ==
    /\ stage = "serving" \/ stage = "hibernator"
    /\ MaySleep(w)
    /\ StopNow({w})
    /\ UNCHANGED <<alarm, budget>> \/ \E t \in AlarmTimes : Sets(w, t)
    /\ UNCHANGED <<now, waking, clients, released, loop, lastFired, startedAt,
                   stage, toStop, stopped, fired>>

\* Faulty variant: a deadline that passed between two ticks is not seen.
MirrorsLate(w) == alarm[w] = loop["mirror"].at
\* The deadline against the moment the tick began.
Mirrors(w) == Due(w, loop["mirror"].at)

MirrorWakes(w) ==
    /\ Take("mirror", w)
    /\ Mirrors(w)
    /\ Ask(w)
    /\ loop' = [loop EXCEPT !["mirror"] =
                  IF row[w] = "running" THEN Done("mirror", w) ELSE Waits("mirror", w, "wake")]
    /\ idleAt' = IF row[w] = "running" THEN [idleAt EXCEPT ![w] = now] ELSE idleAt
    /\ UNCHANGED <<now, clients, released, alarm, firing, lastFired, startedAt, stage,
                   toStop, stopped, fired, budget>>

MirrorPasses(w) ==
    /\ Take("mirror", w)
    /\ ~Mirrors(w)
    /\ loop' = [loop EXCEPT !["mirror"] = Done("mirror", w)]
    /\ UNCHANGED <<now, row, waking, clients, idleAt, released, alarm, firing, lastFired,
                   startedAt, stage, toStop, stopped, fired, budget>>

Since(w) == IF lastFired[w] = None THEN startedAt ELSE lastFired[w]
DueMatch(w) == NextCronTime(w, Since(w))

\* Faulty variant: what is recorded is the match, so each missed one is run.
RecordMatch(w) == DueMatch(w)
\* Recorded before the wake, as the moment the tick began.
Record(w) == loop["crons"].at

CronFires(w) ==
    /\ Take("crons", w)
    /\ DueMatch(w) <= loop["crons"].at
    /\ lastFired' = [lastFired EXCEPT ![w] = Record(w)]
    /\ fired' = fired \cup {[worker |-> w, due |-> DueMatch(w), at |-> loop["crons"].at]}
    /\ CASE row[w] = "sleeping" ->
                /\ Ask(w)
                /\ loop' = [loop EXCEPT !["crons"] = Waits("crons", w, "wake")]
         [] row[w] = "running" ->
                /\ loop' = [loop EXCEPT !["crons"] = Waits("crons", w, "post")]
                /\ UNCHANGED <<row, waking>>
         [] OTHER ->                                    \* "unreachable"
                /\ loop' = [loop EXCEPT !["crons"] = Done("crons", w)]
                /\ UNCHANGED <<row, waking>>
    /\ UNCHANGED <<now, clients, idleAt, released, alarm, firing, startedAt, stage,
                   toStop, stopped, budget>>

CronPasses(w) ==
    /\ Take("crons", w)
    /\ DueMatch(w) > loop["crons"].at
    /\ loop' = [loop EXCEPT !["crons"] = Done("crons", w)]
    /\ UNCHANGED <<now, row, waking, clients, idleAt, released, alarm, firing, lastFired,
                   startedAt, stage, toStop, stopped, fired, budget>>

\* scheduled() returns, its container is gone, or fifteen minutes have passed;
\* whichever it was, the firing touches the tracker.
CronAnswers ==
    /\ loop["crons"].pc = "post"
    /\ loop' = [loop EXCEPT !["crons"] = Resume("crons", @.todo)]
    /\ idleAt' = [w \in Workers |-> IF w \in loop["crons"].on THEN now ELSE idleAt[w]]
    /\ UNCHANGED <<now, row, waking, clients, released, alarm, firing, lastFired,
                   startedAt, stage, toStop, stopped, fired, budget>>

----------------------------------------------------------------------------
\* The daemon's end and its next start.

\* performShutdown begins; the control API has finished its requests.
Shutdown ==
    /\ stage = "serving"
    /\ Spend("faults")
    /\ stage' = "hibernator"
    /\ UNCHANGED <<now, row, waking, clients, idleAt, released, alarm, firing, loop,
                   lastFired, startedAt, toStop, stopped, fired>>

\* Faulty variant: the loops are told to stop, and not waited for.
DrainedAtOnce(l) == TRUE
\* stop() waits for the tick in flight.
Drained(l) == loop[l].pc = "wait"

Drain ==
    /\ stage \in {"hibernator"} \cup Loops
    /\ stage \in Loops => Drained(stage)
    /\ stage' = Stages[StageNo + 1]
    /\ UNCHANGED <<now, row, waking, clients, idleAt, released, alarm, firing, loop,
                   lastFired, startedAt, toStop, stopped, fired, budget>>

\* The proxies and the router are closed when their last request has gone; then
\* resourcesToStopOnShutdown lists what runs.
CloseDoors ==
    /\ stage = "doors"
    /\ clients = {}
    /\ stage' = "stops"
    /\ toStop' = {w \in Workers \ Pinned : row[w] = "running"}
    /\ UNCHANGED <<now, row, waking, clients, idleAt, released, alarm, firing, loop,
                   lastFired, startedAt, stopped, fired, budget>>

\* One entry of the list.
StopListed(w) ==
    /\ stage = "stops" /\ w \in toStop
    /\ toStop' = toStop \ {w}
    /\ stopped' = stopped \cup {w}
    /\ StopNow({w})
    /\ UNCHANGED <<now, waking, clients, released, alarm, loop, lastFired,
                   startedAt, stage, fired, budget>>

\* The lock is released and the process exits.
Exit ==
    /\ stage = "stops" /\ toStop = {}
    /\ stage' = "gone"
    /\ UNCHANGED <<now, row, waking, clients, idleAt, released, alarm, firing, loop,
                   lastFired, startedAt, toStop, stopped, fired, budget>>

\* The process dies: the loops and the wakes in flight go with it.
Crash ==
    /\ Running
    /\ Spend("faults")
    /\ stage' = "down"
    /\ clients' = {} /\ waking' = {}
    /\ loop' = [l \in Loops |-> Idle]
    /\ UNCHANGED <<now, row, idleAt, released, alarm, firing, lastFired, startedAt,
                   toStop, stopped, fired>>

\* The next daemon: reconcile settles the rows by their containers (Lifecycle),
\* the schedules begin with this start.
Settles(w) ==
    IF w \in released \/ row[w] \in {"sleeping", "running"} THEN {row[w]}
    ELSE IF row[w] = "failed" THEN {"sleeping", "failed"} ELSE {"sleeping", "failed", "running"}
Start ==
    /\ ~Running
    /\ stage' = "serving"
    /\ \E settled \in [Workers -> {"sleeping", "starting", "running", "failed"}] :
        /\ \A w \in Workers : settled[w] \in Settles(w)
        /\ row' = settled
        /\ firing' = {w \in firing : settled[w] = "running"}
    /\ waking' = {}
    /\ loop' = [l \in Loops |-> Idle]
    /\ lastFired' = [w \in Workers |-> None]
    /\ startedAt' = now
    /\ idleAt' = [w \in Workers |-> now]
    /\ toStop' = {} /\ stopped' = {}
    /\ UNCHANGED <<now, clients, released, alarm, fired, budget>>

Next ==
    \/ Tick \/ Shutdown \/ Drain \/ CloseDoors \/ Exit \/ Crash \/ Start
    \/ MirrorBegins \/ CronsBegin \/ CronAnswers
    \/ \E w \in Workers :
        \/ ClientArrives(w) \/ ClientLeaves(w) \/ AlarmFires(w) \/ AlarmEnds(w)
        \/ \E t \in AlarmTimes : SetAlarm(w, t)
        \/ \E woke \in BOOLEAN : WakeEnds(w, woke)
        \/ Release(w) \/ Hibernate(w) \/ StopListed(w)
        \/ MirrorWakes(w) \/ MirrorPasses(w) \/ CronFires(w) \/ CronPasses(w)

\* Time passes; the loops run, a wake settles, a handler returns, and the service
\* manager starts the daemon again.  Nobody has to leave, and nobody to arrive.
LoopSteps(l) ==
    \/ l = "mirror" /\ \/ MirrorBegins
                       \/ \E w \in Workers : MirrorWakes(w) \/ MirrorPasses(w)
    \/ l = "crons" /\ \/ CronsBegin \/ CronAnswers
                      \/ \E w \in Workers : CronFires(w) \/ CronPasses(w)

Spec == Init /\ [][Next]_vars
FairSpec ==
    /\ Spec
    /\ WF_vars(Tick) /\ WF_vars(Drain \/ CloseDoors \/ Exit) /\ WF_vars(Start)
    /\ \A l \in Loops : WF_vars(LoopSteps(l))
    /\ \A w \in Workers :
        /\ WF_vars(\E woke \in BOOLEAN : WakeEnds(w, woke))
        /\ WF_vars(AlarmFires(w)) /\ WF_vars(AlarmEnds(w)) /\ WF_vars(StopListed(w))

----------------------------------------------------------------------------

\* A schedule that was late runs once: no match is fired twice, and none that had
\* passed when an earlier one was fired is ever fired after it, not even by the
\* next daemon (crons.ts: "missed firings are not replayed").
CronsAreNotReplayed ==
    \A f, g \in fired : f.worker = g.worker /\ f # g => f.at < g.due \/ g.at < f.due

\* The hibernator stops no worker in the middle of an alarm handler, however idle
\* the tracker calls it: the handler is nobody's request (do/src/sleep.ts).  Only an
\* eject, the shutdown's own stops and a death of the box may.
HandlersAreSpared ==
    [][\A w \in firing : row'[w] = "running" \/ released' # released
                        \/ stage' # stage \/ stage = "stops"]_vars

\* What a shutdown has stopped stays stopped until the process has gone: no tick
\* under way, no request and no door left open wakes it again (server.ts,
\* performShutdown: "a proxy still accepting connections would wake a resource
\* right back up the instant this loop stopped it").
ExitIsQuiet ==
    stage \in {"stops", "gone"} => \A w \in stopped : row[w] = "sleeping"

\* A due alarm is fired, whatever failed, died or slept meanwhile, unless its
\* worker was ejected or a request keeps the shutdown from ending.
AlarmsFire ==
    [](\A w \in Workers : Due(w, now) =>
                          <>(w \in firing \cup released \/ ~Due(w, now) \/ stage = "doors"))

\* A match that comes while the daemon serves is fired, or with a later one, unless
\* the worker is broken or the daemon goes.
CronsKeepTime ==
    [](\A w \in Workers : \A m \in CronAt[w] :
         now >= m /\ startedAt < m /\ stage = "serving"
           => <>(row[w] = "failed" \/ stage # "serving" \/ lastFired[w] \in m..MaxTime))

\* A shutdown comes to its end as soon as the last request has left.
ShutdownEnds ==
    stage \in Loops \cup {"hibernator", "doors", "stops"} ~> stage \in {"gone", "down"} \/ clients # {}

=============================================================================
