------------------------------ MODULE MCDaemon -------------------------------
(***************************************************************************)
(* Instances for TLC of the components that only share the daemon they run *)
(* in: a behaviour is of one of them, `part`, and the others keep their    *)
(* initial state.  Each component's properties and fairness are its module's. *)
(***************************************************************************)
EXTENDS SingleInstance, Sequences

CONSTANTS daemon1, daemon2, userA, userR

TwoUsers == [d \in {daemon1, daemon2} |-> IF d = daemon1 THEN userA ELSE userR]

\* The fields of the cron expressions: *, values, ranges and steps, also those that no
\* date has and those that are refused.
Any        == [kind |-> "any", from |-> 0, to |-> 0, step |-> 0]
Value(n)   == [kind |-> "value", from |-> n, to |-> 0, step |-> 0]
Span(a, b) == [kind |-> "range", from |-> a, to |-> b, step |-> 0]
Written ==
    [minute |-> {{Any}, {Value(1)}},
     hour   |-> {{[Any EXCEPT !.step = 2]}, {Value(1)}},
     dom    |-> {{Any}, {Value(3)}, {Span(2, 3)}, {Span(2, 1)}},
     month  |-> {{Any}, {Value(2)}, {Value(1), Value(3)}},
     dow    |-> {{Any}, {Value(2)}, {[Value(1) EXCEPT !.step = 1]}}]

VARIABLES
    part,  \* the component this behaviour is of
    http_app, http_up, http_wakeOn, http_refusing, http_handles, http_at,
    http_left, http_reply, http_sends, http_asks, http_restarted, http_upgraded,
    http_closed, http_unheard,
    timers_now, timers_row, timers_waking, timers_clients, timers_idleAt,
    timers_released, timers_alarm, timers_firing, timers_loop, timers_lastFired,
    timers_startedAt, timers_stage, timers_toStop, timers_stopped, timers_fired,
    timers_budget,
    cron_text, cron_after, cron_t, cron_pc, cron_invalid

\* The HTTP router, with a request of each kind.
Http == INSTANCE HttpRouter WITH
    Gets <- {"get"}, Posts <- {"post"}, Upgrades <- {"upgrade"}, app <- http_app,
    up <- http_up, wakeOn <- http_wakeOn, refusing <- http_refusing,
    handles <- http_handles, at <- http_at, left <- http_left, reply <- http_reply,
    sends <- http_sends, asks <- http_asks, restarted <- http_restarted,
    upgraded <- http_upgraded, closed <- http_closed, unheard <- http_unheard

\* The timers, with one worker whose schedule matches at every tick.
Timer == INSTANCE Timers WITH
    Workers <- {"w"}, Pinned <- {}, CronAt <- [w \in {"w"} |-> {1, 2}],
    AlarmTimes <- {1, 2}, SleepAfter <- 1, Grace <- 1, MaxTime <- 2,
    MaxAlarms <- 1, MaxFaults <- 2, now <- timers_now, row <- timers_row,
    waking <- timers_waking, clients <- timers_clients, idleAt <- timers_idleAt,
    released <- timers_released, alarm <- timers_alarm, firing <- timers_firing,
    loop <- timers_loop, lastFired <- timers_lastFired,
    startedAt <- timers_startedAt, stage <- timers_stage, toStop <- timers_toStop,
    stopped <- timers_stopped, fired <- timers_fired, budget <- timers_budget

\* The walk over a calendar of two short years, the second a leap year, from four
\* instants.
Cron == INSTANCE CronTime WITH
    DaysIn <- <<3, 1, 3, 3, 2, 3>>, Months <- 3, Items <- Written, Week <- 2, Hours <- 2, Minutes <- 2,
    Limit <- 16, Starts <- {0, 1, 7, 18}, text <- cron_text, after <- cron_after,
    t <- cron_t, pc <- cron_pc, invalid <- cron_invalid

httpVars ==
    <<http_app, http_up, http_wakeOn, http_refusing, http_handles, http_at,
      http_left, http_reply, http_sends, http_asks, http_restarted, http_upgraded,
      http_closed, http_unheard>>
timersVars ==
    <<timers_now, timers_row, timers_waking, timers_clients, timers_idleAt,
      timers_released, timers_alarm, timers_firing, timers_loop, timers_lastFired,
      timers_startedAt, timers_stage, timers_toStop, timers_stopped, timers_fired,
      timers_budget>>
cronVars ==
    <<cron_text, cron_after, cron_t, cron_pc, cron_invalid>>
everything == <<part, vars, httpVars, timersVars, cronVars>>

Parts == {"lock", "http", "timers", "cron"}

EveryInit ==
    /\ part \in Parts
    /\ Init
    /\ Http!Init
    /\ Timer!Init
    /\ Cron!Init

EveryNext ==
    \/ part = "lock" /\ Next
       /\ UNCHANGED <<part, httpVars, timersVars, cronVars>>
    \/ part = "http" /\ Http!Next
       /\ UNCHANGED <<part, vars, timersVars, cronVars>>
    \/ part = "timers" /\ Timer!Next
       /\ UNCHANGED <<part, vars, httpVars, cronVars>>
    \/ part = "cron" /\ Cron!Next
       /\ UNCHANGED <<part, vars, httpVars, timersVars>>

SpecDaemon ==
    /\ EveryInit /\ [][EveryNext]_everything
    /\ \A p \in Procs :
        /\ WF_vars(part = "lock" /\ Acquire(p)) /\ WF_vars(part = "lock" /\ (Serve(p) \/ Release(p)))
        /\ WF_vars(part = "lock" /\ Reread(p)) /\ WF_vars(part = "lock" /\ Remove(p))
    /\ <>[](others = {})
    /\ <>[][\A p \in Procs : Start(p) => ~OnRecord(pid'[p])]_vars
    /\ <>[][~\E p \in Procs : Crash(p) /\ ~(Judge(p) \/ Reread(p) \/ Remove(p))]_vars
    /\ \A q \in Http!Requests : WF_httpVars(part = "http" /\ Http!Serve(q))
    /\ WF_timersVars(part = "timers" /\ Timer!Tick) /\ WF_timersVars(part = "timers" /\ Timer!Start)
    /\ WF_timersVars(part = "timers" /\ (Timer!Drain \/ Timer!CloseDoors \/ Timer!Exit))
    /\ \A l \in Timer!Loops : WF_timersVars(part = "timers" /\ Timer!LoopSteps(l))
    /\ WF_timersVars(part = "timers" /\ \E woke \in BOOLEAN : Timer!WakeEnds("w", woke))
    /\ WF_timersVars(part = "timers" /\ Timer!AlarmFires("w")) /\ WF_timersVars(part = "timers" /\ Timer!AlarmEnds("w"))
    /\ WF_timersVars(part = "timers" /\ Timer!StopListed("w"))
    /\ WF_cronVars(part = "cron" /\ Cron!Walk)

-----------------------------------------------------------------------------
\* What the HTTP router promises,
RequestsAreServed == Http!RequestsAreServed
\* the calendar,
CalendarIsWalked == Cron!CalendarIsWalked
\* and the lock: what a dead daemon left behind keeps nobody from starting.
LockIsServed == part = "lock" => SomebodyServes
=============================================================================
