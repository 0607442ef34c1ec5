------------------------------ MODULE Queue ------------------------------
(***************************************************************************)
(* One queue with its consumer: the broker's table of messages             *)
(* (broker.ts), the tick that drains it (tick.ts, deliver.ts, queues.ts),  *)
(* its dead letter queue, the guard that keeps the consumer awake          *)
(* (guard.ts), and producers.                                              *)
(*                                                                         *)
(* Every instant in the tables is kept as its distance from now, so time   *)
(* needs no bound: what lies further back than any comparison looks is     *)
(* all the same (Floor, Old).  The tick reads the clock once, when it      *)
(* starts; `lag` is how long ago that was.                                 *)
(***************************************************************************)
EXTENDS Integers, FiniteSets

CONSTANTS
    Count,          \* messages ever sent; a message is its place in the order of ids
    MaxBatchSize,
    BatchTimeout,
    MaxRetries,
    RetryDelay,     \* the consumer's default
    Delays,         \* what a producer or a handler may ask for
    HasDeadLetters, \* whether the consumer names a dead letter queue
    Retentions,     \* how long a row may be kept, one of these for good; or Never, when it
                    \* is longer than anything the run looks at
    Never,
    LeaseTime,
    DeliveryTimeout,
    OthersMax,      \* the longest the queues before this one keep a tick
    WakeMax,        \* the longest a wake takes to resolve or to reject
    SleepAfter,     \* the project's idle threshold
    Faults          \* what may go wrong: "crash", "dead letters"

Messages == 1 .. Count
MaxLag == OthersMax + WakeMax + DeliveryTimeout
Floor == -(MaxLag + BatchTimeout)
MaxDelay == CHOOSE d \in Delays \cup {RetryDelay} : \A e \in Delays \cup {RetryDelay} : e <= d

ASSUME Bounds ==
    /\ Count \in Nat /\ MaxBatchSize \in Nat \ {0} /\ BatchTimeout \in Nat /\ MaxRetries \in Nat
    /\ RetryDelay \in Nat /\ Delays \subseteq Nat /\ IsFiniteSet(Delays)
    /\ HasDeadLetters \in BOOLEAN
    /\ Retentions \subseteq Nat \cup {Never} /\ Never \notin Nat
    /\ LeaseTime \in Nat \ {0} /\ DeliveryTimeout \in Nat \ {0} /\ OthersMax \in Nat
    /\ WakeMax \in Nat /\ SleepAfter \in Nat

VARIABLES
    retention,  \* the queues' retention
    src,        \* rows of the queue's table
    attempts,   \* message -> deliveries begun since it entered the table
    due,        \* message -> visible_at
    leased,     \* rows under a lease
    left,       \* message -> lease_expires_at
    age,        \* message -> time since enqueued_at
    dlq,        \* rows of the dead letter queue's table
    dlqAge,     \* message -> time since dead_lettered_at
    phase,      \* where the tick is
    spent,      \* time spent in that phase
    lag,        \* time since the tick read the clock
    batch,      \* the batch that is out with the consumer
    back,       \* those of it the result sends back
    delay,      \* the delay they are sent back with
    dead,       \* those to dead letter, and how many of them are still to write
    toWrite,
    consumer,   \* running or sleeping
    calm,       \* time since the consumer's idle clock was touched
    inserted,   \* history: rows ever inserted; they are the messages 1 .. inserted
    sent,       \* history: deliveries of a message begun
    handled,    \* history: messages a consumer's result acknowledged
    purged,     \* history: messages somebody purged
    swept,      \* history: messages whose row, here or there, outlived the retention
    pause,      \* history: time that must pass before a message goes out again
    stay        \* history: time since a message landed in the dead letter queue

table   == <<src, attempts, due, leased, left, age>>
letters == <<dlq, dlqAge, retention>>
result  == <<back, delay>>
tick    == <<phase, spent, lag, batch, result, dead, toWrite>>
worker  == <<consumer, calm>>
ghosts  == <<inserted, sent, handled, purged, swept, pause, stay>>
vars    == <<table, letters, tick, worker, ghosts>>

Old == IF retention = Never THEN 0 ELSE retention + MaxLag

-----------------------------------------------------------------------------

\* Everything between two awaits happens at once: in these phases nothing comes
\* but the next step of the thread, or its death.
Sync  == {"expiring", "checking", "leasing", "applying", "sweeping"}
Async == phase \notin Sync /\ phase # "down"

\* The k oldest of a set of messages: ids sort by creation.
Oldest(S, k) == {m \in S : Cardinality({n \in S : n < m}) < k}

\* (mutant) The lists of one queue are still there for the next.
DropBatchOnly == spent' = 0 /\ delay' = 0 /\ batch' = {} /\ back' = {} /\ UNCHANGED <<dead, toWrite>>

\* The tick lets go of the queue, or of everything when the daemon dies.
Drop ==
    /\ spent' = 0 /\ delay' = 0
    /\ batch' = {} /\ back' = {} /\ dead' = {} /\ toWrite' = {}

LeaveQueue == phase' = "sweeping" /\ Drop /\ UNCHANGED lag

EndTick(where) == phase' = where /\ Drop /\ lag' = 0

Goto(where) == phase' = where /\ spent' = 0

Within(x, most) == IF x < most THEN x ELSE most

-----------------------------------------------------------------------------
(* Producers (queue-endpoint.ts, enqueueRoute), and purge.                 *)

InsertRows(M, d) ==
    /\ src' = src \cup M
    /\ due' = [m \in Messages |-> IF m \in M THEN d ELSE due[m]]
    /\ inserted' = inserted + Cardinality(M)
    /\ pause' = [m \in Messages |-> IF m \in M THEN d ELSE pause[m]]
    /\ UNCHANGED <<attempts, leased, left, age>>

\* enqueue, its checks passed: one insert after another, each committed by itself.
Send(n, d) ==
    /\ Async
    /\ inserted + n <= Count
    /\ InsertRows(inserted + 1 .. inserted + n, d)
    /\ UNCHANGED <<letters, tick, worker, sent, handled, purged, swept, stay>>

\* The daemon dies after some of them.
SendCutShort(n, k, d) ==
    /\ "crash" \in Faults
    /\ Async
    /\ inserted + n <= Count /\ k < n
    /\ InsertRows(inserted + 1 .. inserted + k, d)
    /\ EndTick("down")
    /\ UNCHANGED <<letters, worker, sent, handled, purged, swept, stay>>

Purge ==
    /\ Async
    /\ src' = {} /\ leased' = {}
    /\ purged' = purged \cup src
    /\ UNCHANGED <<attempts, due, left, age, letters, tick, worker, inserted, sent, handled, swept, pause, stay>>

-----------------------------------------------------------------------------
(* The tick, one pass over this queue.                                     *)

\* The clock is read; the queues listed before this one come first.
StartTick ==
    /\ phase = "idle"
    /\ Goto("others")
    /\ UNCHANGED <<table, letters, lag, batch, result, dead, toWrite, worker, ghosts>>

\* (mutant) One retry too many.
ExhaustedOneLater(m) == attempts[m] > MaxRetries + 1

\* attempts counts the delivery that just failed.
Exhausted(m) == attempts[m] > MaxRetries

\* (mutant) Only what may be tried again is looked for.
LateAndRetriable == {m \in leased : left[m] <= -lag /\ ~Exhausted(m)}

Late == {m \in leased : left[m] <= -lag}

\* expireLeases: what is exhausted is dead lettered first.
Expire ==
    /\ phase = "others"
    /\ Goto("expiring")
    /\ dead' = {m \in Late : Exhausted(m)}
    /\ toWrite' = IF HasDeadLetters THEN dead' ELSE {}
    /\ UNCHANGED <<table, letters, lag, batch, result, worker, ghosts>>

\* (mutant) A dead letter keeps the time at which it was enqueued for its retention.
WriteDeadLetterAsOldAsItIs ==
    /\ phase \in {"expiring", "applying"}
    /\ \E m \in Oldest(toWrite, 1) :
          /\ dlq' = dlq \cup {m}
          /\ dlqAge' = IF m \in dlq THEN dlqAge ELSE [dlqAge EXCEPT ![m] = age[m]]
          /\ stay' = IF m \in dlq THEN stay ELSE [stay EXCEPT ![m] = 0]
          /\ toWrite' = toWrite \ {m}
    /\ UNCHANGED <<table, retention, phase, spent, lag, batch, result, dead, worker,
                   inserted, sent, handled, purged, swept, pause>>

\* insertDeadLetter: the row of a message that is there already is left alone.
WriteDeadLetter ==
    /\ phase \in {"expiring", "applying"}
    /\ \E m \in Oldest(toWrite, 1) :
          /\ dlq' = dlq \cup {m}
          /\ dlqAge' = IF m \in dlq THEN dlqAge
                       ELSE [dlqAge EXCEPT ![m] = IF phase = "expiring" THEN Within(lag, Old) ELSE 0]
          /\ stay' = IF m \in dlq THEN stay ELSE [stay EXCEPT ![m] = 0]
          /\ toWrite' = toWrite \ {m}
    /\ UNCHANGED <<table, retention, phase, spent, lag, batch, result, dead, worker,
                   inserted, sent, handled, purged, swept, pause>>

\* (mutant) The failure is swallowed and the transaction goes on.
DeadLetterForgotten ==
    /\ "dead letters" \in Faults
    /\ phase \in {"expiring", "applying"}
    /\ toWrite # {}
    /\ toWrite' = {}
    /\ UNCHANGED <<table, letters, phase, spent, lag, batch, result, dead, worker, ghosts>>

\* The other database cannot be written: this one rolls back, the tick goes on to
\* the next queue.
DeadLetterFails ==
    /\ "dead letters" \in Faults
    /\ phase \in {"expiring", "applying"}
    /\ toWrite # {}
    /\ LeaveQueue
    /\ UNCHANGED <<table, letters, worker, ghosts>>

\* sweepRetention, by the tick's clock.
Outlived(a) == retention # Never /\ a - lag >= retention

\* The transaction of expireLeases commits, then sweepRetention.
CommitExpiry ==
    /\ phase = "expiring"
    /\ toWrite = {}
    /\ Goto("checking")
    /\ LET expired == {m \in src \ dead : Outlived(age[m])} IN
       /\ src' = src \ (dead \cup expired)
       /\ leased' = leased \ (Late \cup expired)
       /\ swept' = swept \cup expired
    /\ due' = [m \in Messages |-> IF m \in Late \ dead THEN -lag ELSE due[m]]
    /\ dead' = {}
    /\ UNCHANGED <<attempts, left, age, letters, lag, batch, result, toWrite, worker,
                   inserted, sent, handled, purged, pause, stay>>

Visible == {m \in src \ leased : due[m] <= -lag}

IsBatchReady ==
    /\ Visible # {}
    /\ \/ Cardinality(Visible) >= MaxBatchSize
       \/ \E m \in Visible : due[m] <= -(lag + BatchTimeout)

\* A consumer that is neither asleep nor running, or has no code, is left alone.
Check ==
    /\ phase = "checking"
    /\ \/ ~IsBatchReady /\ LeaveQueue
       \/ /\ IsBatchReady
          /\ Goto(IF consumer = "running" THEN "leasing" ELSE "waking")
          /\ UNCHANGED <<lag, batch, result, dead, toWrite>>
    /\ UNCHANGED <<table, letters, worker, ghosts>>

WakeResolves ==
    /\ phase = "waking"
    /\ Goto("leasing")
    /\ consumer' = "running"
    /\ calm' = 0
    /\ UNCHANGED <<table, letters, lag, batch, result, dead, toWrite, ghosts>>

WakeRejects ==
    /\ phase = "waking"
    /\ LeaveQueue
    /\ UNCHANGED <<table, letters, worker, ghosts>>

\* A claim, committed by itself, counts the delivery it is for.
Claim(B) ==
    /\ leased' = leased \cup B
    /\ left' = [m \in Messages |-> IF m \in B THEN LeaseTime - lag ELSE left[m]]
    /\ attempts' = [m \in Messages |-> IF m \in B THEN attempts[m] + 1 ELSE attempts[m]]
    /\ sent' = [m \in Messages |-> IF m \in B THEN sent[m] + 1 ELSE sent[m]]

\* leaseBatch, and the POST.
Lease ==
    /\ phase = "leasing"
    /\ LET B == Oldest(Visible, MaxBatchSize) IN
       \/ B = {} /\ LeaveQueue /\ UNCHANGED <<attempts, leased, left, sent>>
       \/ /\ B # {}
          /\ Goto("delivering")
          /\ batch' = B
          /\ Claim(B)
          /\ UNCHANGED <<lag, result, dead, toWrite>>
    /\ UNCHANGED <<src, due, age, letters, worker, inserted, handled, purged, swept, pause, stay>>

\* The daemon dies after some of the claims: they are leased, and nobody has them.
LeaseCutShort(k) ==
    /\ "crash" \in Faults
    /\ phase = "leasing"
    /\ Claim(Oldest(Visible, k))
    /\ EndTick("down")
    /\ UNCHANGED <<src, due, age, letters, worker, inserted, handled, purged, swept, pause, stay>>

\* The rows this lease still has: what was purged meanwhile is gone.
Held == batch \cap src

\* A result: the messages to send back, and a delay.  The clock is read again.
Apply(B, d) ==
    /\ Goto("applying")
    /\ back' = B /\ delay' = d
    /\ dead' = {m \in Held \cap B : Exhausted(m)}
    /\ toWrite' = IF HasDeadLetters THEN dead' ELSE {}
    /\ calm' = 0
    /\ UNCHANGED <<table, letters, lag, batch, consumer, inserted, sent, purged, swept, pause, stay>>

\* The consumer answers: it acknowledges some, wants others again.
Answer ==
    /\ phase = "delivering"
    /\ consumer = "running"
    /\ \E B \in SUBSET batch, d \in Delays :
          /\ handled' = handled \cup (batch \ B)
          /\ Apply(B, d)

\* No answer in time, no connection, a handler that threw, an answer that is no
\* result: the whole batch is sent back.
Fail ==
    /\ phase = "delivering"
    /\ Apply(batch, RetryDelay)
    /\ UNCHANGED handled

\* (mutant) The delay is counted from the start of the tick.
CommitResultAtTickStart ==
    /\ phase = "applying"
    /\ toWrite = {}
    /\ LET again == (Held \cap back) \ dead IN
       /\ src' = src \ ((Held \ back) \cup dead)
       /\ due' = [m \in Messages |-> IF m \in again THEN delay - lag ELSE due[m]]
       /\ pause' = [m \in Messages |-> IF m \in again THEN delay ELSE pause[m]]
    /\ leased' = leased \ Held
    /\ LeaveQueue
    /\ UNCHANGED <<attempts, left, age, letters, worker, inserted, sent, handled, purged, swept, stay>>

\* The transaction of applyResult commits.
CommitResult ==
    /\ phase = "applying"
    /\ toWrite = {}
    /\ LET again == (Held \cap back) \ dead IN
       /\ src' = src \ ((Held \ back) \cup dead)
       /\ due' = [m \in Messages |-> IF m \in again THEN delay ELSE due[m]]
       /\ pause' = [m \in Messages |-> IF m \in again THEN delay ELSE pause[m]]
    /\ leased' = leased \ Held
    /\ LeaveQueue
    /\ UNCHANGED <<attempts, left, age, letters, worker, inserted, sent, handled, purged, swept, stay>>

\* The dead letter queue has no consumer here: the tick ends by sweeping it.
SweepDeadLetters ==
    /\ phase = "sweeping"
    /\ dlq' = {m \in dlq : ~Outlived(dlqAge[m])}
    /\ swept' = swept \cup (dlq \ dlq')
    /\ EndTick("idle")
    /\ UNCHANGED <<table, dlqAge, retention, worker, inserted, sent, handled, purged, pause, stay>>

-----------------------------------------------------------------------------
(* The hibernator, time, and the daemon's death.                           *)

\* queueDeliveryGuard
HasOutstandingLease == \E m \in leased : left[m] > 0

\* (mutant) Nobody asks the guard.
ConsumerSleepsUnasked ==
    /\ Async
    /\ consumer = "running"
    /\ calm >= SleepAfter
    /\ consumer' = "sleeping"
    /\ UNCHANGED <<table, letters, tick, calm, ghosts>>

\* The guard is read and the stop begun without an await that leaves the daemon.
ConsumerSleeps ==
    /\ Async
    /\ consumer = "running"
    /\ calm >= SleepAfter
    /\ ~HasOutstandingLease
    /\ consumer' = "sleeping"
    /\ UNCHANGED <<table, letters, tick, calm, ghosts>>

Down(x, least) == IF x > least THEN x - 1 ELSE x
Up(x, most) == IF x < most THEN x + 1 ELSE x

\* Timers of the thread fire on time: no phase outlasts its bound.
Patience == CASE phase = "others"     -> OthersMax
              [] phase = "waking"     -> WakeMax
              [] phase = "delivering" -> DeliveryTimeout
              [] OTHER                -> 1

TimePasses ==
    /\ phase \notin Sync
    /\ spent < Patience
    /\ due'    = [m \in Messages |-> IF m \in src THEN Down(due[m], Floor) ELSE due[m]]
    /\ left'   = [m \in Messages |-> IF m \in leased THEN Down(left[m], Floor) ELSE left[m]]
    /\ age'    = [m \in Messages |-> IF m \in src THEN Up(age[m], Old) ELSE age[m]]
    /\ dlqAge' = [m \in Messages |-> IF m \in dlq THEN Up(dlqAge[m], Old) ELSE dlqAge[m]]
    /\ stay'   = [m \in Messages |-> IF m \in dlq THEN Up(stay[m], Old) ELSE stay[m]]
    /\ pause'  = [m \in Messages |-> Down(pause[m], 0)]
    /\ calm'   = Up(calm, SleepAfter)
    /\ IF phase \in {"others", "waking", "delivering"}
       THEN spent' = spent + 1 /\ lag' = lag + 1
       ELSE UNCHANGED <<spent, lag>>
    /\ UNCHANGED <<src, attempts, leased, dlq, retention, phase, batch, result, dead, toWrite, consumer,
                   inserted, sent, handled, purged, swept>>

\* The tables are on disk; a transaction that has not committed never was.
Crash ==
    /\ "crash" \in Faults
    /\ phase # "down"
    /\ EndTick("down")
    /\ UNCHANGED <<table, letters, worker, ghosts>>

Restart ==
    /\ phase = "down"
    /\ EndTick("idle")
    /\ calm' = 0
    /\ UNCHANGED <<table, letters, consumer, ghosts>>

-----------------------------------------------------------------------------

Init ==
    /\ retention \in Retentions
    /\ src = {} /\ leased = {} /\ dlq = {}
    /\ attempts = [m \in Messages |-> 0] /\ due = [m \in Messages |-> 0]
    /\ left = [m \in Messages |-> 0] /\ age = [m \in Messages |-> 0]
    /\ dlqAge = [m \in Messages |-> 0]
    /\ phase = "idle" /\ spent = 0 /\ lag = 0
    /\ batch = {} /\ back = {} /\ delay = 0 /\ dead = {} /\ toWrite = {}
    /\ consumer \in {"running", "sleeping"} /\ calm = 0
    /\ inserted = 0
    /\ sent = [m \in Messages |-> 0] /\ handled = {} /\ purged = {} /\ swept = {}
    /\ pause = [m \in Messages |-> 0] /\ stay = [m \in Messages |-> 0]

\* What the tick does when nothing fails.
Advance ==
    \/ StartTick \/ Expire \/ WriteDeadLetter \/ CommitExpiry \/ Check \/ WakeResolves
    \/ Lease \/ Answer \/ Fail \/ CommitResult \/ SweepDeadLetters

Outside ==
    \/ DeadLetterFails \/ WakeRejects
    \/ \E n \in 1 .. Count, d \in Delays : Send(n, d)
    \/ \E n \in 1 .. Count, k \in 0 .. Count, d \in Delays : SendCutShort(n, k, d)
    \/ \E k \in 1 .. MaxBatchSize : LeaseCutShort(k)
    \/ Purge \/ ConsumerSleeps \/ TimePasses \/ Crash \/ Restart

Next == Advance \/ Outside

Spec == Init /\ [][Next]_vars

\* The loop keeps ticking.  A daemon that died is started again, and in the end one
\* stays up; a wake is not rejected for ever.
FairSpec ==
    /\ Spec
    /\ SF_vars(TimePasses) /\ WF_vars(Advance) /\ SF_vars(WakeResolves) /\ WF_vars(Restart)
    /\ <>[](phase # "down")

-----------------------------------------------------------------------------
(* Properties.                                                             *)

TypeOK ==
    /\ retention \in Retentions
    /\ src \subseteq Messages /\ leased \subseteq src /\ dlq \subseteq Messages
    /\ attempts \in [Messages -> Nat]
    /\ due \in [Messages -> Floor .. MaxDelay] /\ left \in [Messages -> Floor .. LeaseTime]
    /\ age \in [Messages -> 0 .. Old] /\ dlqAge \in [Messages -> 0 .. Old]
    /\ phase \in Sync \cup {"idle", "others", "waking", "delivering", "down"}
    /\ spent \in 0 .. MaxLag /\ lag \in 0 .. MaxLag
    /\ batch \subseteq Messages /\ back \subseteq batch /\ delay \in 0 .. MaxDelay
    /\ dead \subseteq leased /\ toWrite \subseteq dead
    /\ consumer \in {"running", "sleeping"} /\ calm \in 0 .. SleepAfter
    /\ inserted \in 0 .. Count
    /\ sent \in [Messages -> Nat] /\ handled \subseteq Messages /\ purged \subseteq Messages
    /\ swept \subseteq Messages
    /\ pause \in [Messages -> 0 .. MaxDelay] /\ stay \in [Messages -> 0 .. Old]

\* A message is handed to a consumer at most MaxRetries + 1 times, also when the
\* daemon dies with the batch out, over and over (broker.ts, expireLeases).
DeliveriesAreBounded == \A m \in Messages : sent[m] <= MaxRetries + 1

\* A message is not handed out again before the delay asked for it is over, counted
\* from when its result came back (tick.ts, step 7).
DelaysAreKept == [][\A m \in Messages : sent'[m] # sent[m] => pause[m] = 0]_vars

\* A dead letter stays its whole retention, but for the time the tick that wrote it
\* had already taken, whatever it went through before (broker.ts, sweepRetention).
DeadLettersAreKept ==
    [][\A m \in dlq \ dlq' : stay[m] >= retention - OthersMax]_vars

\* The hibernator stops a consumer that has a batch in hand only once a lease's time is
\* over, counted from when the tick read its clock, in which the queues before this one
\* and the wake count as well (guard.ts, tick.ts).
NotSleptMidBatch ==
    [][consumer = "running" /\ consumer' = "sleeping" /\ phase = "delivering" /\ Held # {}
       => lag >= LeaseTime]_vars

\* Every message leaves the queue in the end, though nothing is swept.
MessagesSettle == \A m \in Messages : m \in src ~> m \notin src

\* The queue keeps its promise (Delivery): nothing is lost, resurrected, or handed
\* out once it was settled.
Fate(m) ==
    IF m > inserted THEN "unsent"
    ELSE IF m \in src THEN "held"
    ELSE IF m \in purged THEN "purged"
    ELSE IF m \in dlq THEN "dead"
    ELSE IF m \in swept THEN "expired"
    ELSE IF m \in handled THEN "acked" ELSE "lost"

Promise == INSTANCE Delivery WITH
    fate <- [m \in Messages |-> Fate(m)], tries <- sent, MaxDeliveries <- MaxRetries + 1

PromiseKept == Promise!Spec

\* What is promised for a time is kept for that time: a delay, a retention, and, for a
\* lease and no longer, the consumer of a batch that is out.
TimesAreKept ==
    /\ DelaysAreKept
    /\ DeadLettersAreKept
    /\ NotSleptMidBatch
=============================================================================
