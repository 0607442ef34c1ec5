------------------------- MODULE LifecycleProofs -------------------------
(* Theorems about Lifecycle, for every project and every set of actors.    *)
EXTENDS Lifecycle, FiniteSetTheorems, TLAPS

-----------------------------------------------------------------------------
(* The order the loops of the daemon go through a project's resources.     *)

\* Every set of creation positions has a least one.
LEMMA LeastPosition ==
    ASSUME NEW I, I \subseteq Nat, I # {}
    PROVE  \E i \in I : \A j \in I : i <= j
<1> DEFINE R == StrictSubsetOrdering(Nat)
           T == {1 .. i : i \in I}
<1>1. \A i \in Nat : IsFiniteSet(1 .. i) /\ 1 .. i \subseteq Nat
  BY FS_Interval
<1>2. T \subseteq FiniteSubsetsOf(Nat) /\ T # {}
  BY <1>1 DEF FiniteSubsetsOf
<1>3. PICK t \in T : \A u \in T : <<u, t>> \notin R
  <2> HIDE DEF R, T
  <2>1. IsWellFoundedOn(R, FiniteSubsetsOf(Nat))
    BY FS_StrictSubsetOrderingWellFounded DEF R
  <2>2. QED
    BY <1>2, <2>1, WFMin
<1>4. PICK i \in I : t = 1 .. i
  BY <1>3
<1>5. ASSUME NEW j \in I, j < i
      PROVE  FALSE
  <2>1. 1 .. j \in T
    OBVIOUS
  <2>2. <<1 .. j, 1 .. i>> \notin R
    BY <1>3, <1>4, <2>1
  <2>3. 1 .. j \subseteq 1 .. i /\ i \in 1 .. i /\ i \notin 1 .. j
    BY <1>5
  <2>4. QED
    BY <1>1, <2>2, <2>3 DEF StrictSubsetOrdering
<1>6. \A j \in I : i <= j
  BY <1>5
<1>7. QED
  BY <1>6

\* A loop over listResources starts with one of the resources it lists.
LEMMA FirstIsListed ==
    ASSUME NEW S, S \subseteq Resources, S # {}
    PROVE  First(S) \in S
<1> DEFINE I == {i \in DOMAIN Created : Created[i] \in S}
<1>1. DOMAIN Created \subseteq Nat
  BY DistinctNames
<1>2. I # {}
  BY DEF Resources
<1>3. PICK i \in I : \A j \in I : i <= j
  BY <1>1, <1>2, LeastPosition
<1>4. ASSUME NEW q \in S \ {Created[i]}
      PROVE  Before(Created[i], q)
  <2>1. PICK j \in DOMAIN Created : Created[j] = q
    BY DEF Resources
  <2>2. j \in I /\ j # i
    BY <2>1
  <2>3. i < j
    BY <1>1, <1>3, <2>2
  <2>4. QED
    BY <2>1, <2>3 DEF Before
<1>5. QED
  BY <1>4 DEF First

\* So does a loop over the reversed list.
LEMMA LastIsListed ==
    ASSUME NEW S, S \subseteq Resources, S # {}
    PROVE  Last(S) \in S
<1> DEFINE I == {i \in DOMAIN Created : Created[i] \in S}
           J == {Len(Created) - i : i \in I}
<1>1. DOMAIN Created = 1 .. Len(Created) /\ Len(Created) \in Nat
  BY DistinctNames
<1>2. J # {} /\ J \subseteq Nat
  BY <1>1 DEF Resources
<1>3. PICK k \in J : \A j \in J : k <= j
  BY <1>2, LeastPosition
<1>4. PICK i \in I : k = Len(Created) - i
  OBVIOUS
<1>5. ASSUME NEW q \in S \ {Created[i]}
      PROVE  Before(q, Created[i])
  <2>1. PICK j \in DOMAIN Created : Created[j] = q
    BY DEF Resources
  <2>2. j \in I /\ j # i
    BY <2>1
  <2>3. Len(Created) - i <= Len(Created) - j
    BY <1>3, <1>4, <2>2
  <2>4. j < i
    BY <1>1, <2>2, <2>3
  <2>5. QED
    BY <2>1, <2>4 DEF Before
<1>6. QED
  BY <1>5 DEF Last

-----------------------------------------------------------------------------
(* Type correctness.                                                       *)

\* The stages at which an actor works on a resource it has named.
Working == StartStages \cup StopStages \cup {"fenced", "unfenced", "await_db", "db_up", "db_down"}

\* An actor at work has a resource to work on; so has a stop request that asked.
Targeted ==
    /\ \A p \in Actors : pc[p] \in Working => tgt[p] \in Resources
    /\ \A p \in Stoppers : pc[p] = "asking" => tgt[p] \in Resources

\* A loop that is in the middle of a turn has the resource of that turn listed.
LoopsNonempty ==
    /\ \A h \in Sleepers : pc[h] \in {"asking", "observed_idle"} => todo[h] # {}
    /\ \A s \in Snaps :
          pc[s] \in StopStages \cup {"guarding", "stopped"} => todo[s] # {}

TypeInv == TypeOK /\ Targeted /\ LoopsNonempty

USE DEF TypeInv, TypeOK, Targeted, LoopsNonempty, Working, StartStages, StopStages, Stages,
        Ready, Returned, States, Goto, store, world, loops, ghosts

LEMMA InitTypeInv ==
    ASSUME Init
    PROVE  TypeInv
<1>1. row \in [Resources -> States] /\ box \in [Resources -> {"down", "booting", "ready"}]
  BY DEF Init
<1>2. pc \in [Actors -> Stages] /\ tgt \in [Actors -> Resources \cup {Nobody}]
  BY DEF Init, Home, Wakes
<1>3. /\ live \in [Resources -> SUBSET Clients]
      /\ idle \in [Resources -> {"none", "fresh", "ripe"}]
      /\ todo \in [Actors -> SUBSET Resources] /\ done \in [Actors -> SUBSET Resources]
      /\ attached \in [Clients -> Resources \cup {Nobody}]
  BY DEF Init
<1>4. Targeted /\ LoopsNonempty
  BY DEF Init, Actors
<1>5. QED
  BY <1>1, <1>2, <1>3, <1>4 DEF Init

LEMMA HandlerTypeInv ==
    ASSUME TypeInv, NEW p \in Actors, HandlerStep(p)
    PROVE  TypeInv'
<1> DEFINE Frame == UNCHANGED <<refused, attached, orphans, hold, tgt, loops, serving, ghosts>>
           Quiet == UNCHANGED <<live, idle>>
<1>1. /\ Frame
      /\ \/ DockerStart(p) /\ Quiet
         \/ Probe(p) /\ Quiet
         \/ StopAfterFailedStart(p) /\ Quiet
         \/ ReportFailedStart(p) /\ Quiet
         \/ DockerStop(p) /\ Quiet
         \/ ReportStarted(p)
         \/ ReportStopped(p)
  BY DEF HandlerStep
<1>2. CASE DockerStart(p) /\ Quiet
  BY <1>1, <1>2 DEF DockerStart, Actors
<1>3. CASE Probe(p) /\ Quiet
  BY <1>1, <1>3 DEF Probe, Actors
<1>4. CASE StopAfterFailedStart(p) /\ Quiet
  BY <1>1, <1>4 DEF StopAfterFailedStart, TakeDown, Actors
<1>5. CASE ReportFailedStart(p) /\ Quiet
  BY <1>1, <1>5 DEF ReportFailedStart, Actors
<1>6. CASE DockerStop(p) /\ Quiet
  BY <1>1, <1>6 DEF DockerStop, TakeDown, Actors
<1>7. CASE ReportStarted(p)
  BY <1>1, <1>7 DEF ReportStarted, Actors
<1>8. CASE ReportStopped(p)
  BY <1>1, <1>8 DEF ReportStopped, Actors
<1>9. QED
  BY <1>1, <1>2, <1>3, <1>4, <1>5, <1>6, <1>7, <1>8

\* A start handler call, after a look at the bound database, keeps the types.
LEMMA ProceedTypes ==
    ASSUME TypeInv, NEW p \in Actors \ (Sleepers \cup Snaps \cup Stoppers), NEW r \in Resources,
           Proceed(p, r), loops' = loops
    PROVE  /\ row' \in [Resources -> States]
           /\ pc' \in [Actors -> Stages]
           /\ tgt' \in [Actors -> Resources \cup {Nobody}]
           /\ disturbed' \subseteq Resources
           /\ Targeted' /\ LoopsNonempty'
<1>1. NeedsDb(r) => Bound[r] \in Resources
  BY DistinctNames DEF NeedsDb
<1>2. CASE StartWithoutDb(p, r)
  BY <1>2, DistinctNames DEF StartWithoutDb, CallStart, Actors
<1>3. CASE JoinDbWake(p, r)
  BY <1>3, DistinctNames DEF JoinDbWake, Actors
<1>4. CASE DbIsRefused(p, r)
  BY <1>4, DistinctNames DEF DbIsRefused, Leave, Home, Actors, Wakes
<1>5. CASE StartDbWake(p, r)
  <2> DEFINE d == Bound[r]
  <2>1. d \in Resources /\ d \in Actors /\ tgt' = [tgt EXCEPT ![p] = r, ![d] = d]
    BY <1>1, <1>5 DEF StartDbWake, Actors, Wakes
  <2>2. PICK stage \in {"fenced", "starting"} :
            pc' = [pc EXCEPT ![p] = "await_db", ![d] = stage]
    BY <1>5 DEF StartDbWake
  <2>3. row' \in [Resources -> States] /\ disturbed' \subseteq Resources
    BY <1>5, <2>1 DEF StartDbWake
  <2>4. pc' \in [Actors -> Stages] /\ tgt' \in [Actors -> Resources \cup {Nobody}]
    BY <2>1, <2>2
  <2>5. Targeted'
    BY <2>1, <2>2, DistinctNames DEF Actors
  <2>6. LoopsNonempty'
    BY <2>1, <2>2, DistinctNames DEF Actors
  <2>7. QED
    BY <2>3, <2>4, <2>5, <2>6
<1>6. QED
  BY <1>2, <1>3, <1>4, <1>5 DEF Proceed

LEMMA AfterDbTypes ==
    ASSUME TypeInv, NEW p \in Actors \ (Sleepers \cup Snaps \cup Stoppers), AfterDb(p)
    PROVE  TypeInv'
<1>1. CASE pc[p] = "db_up"
  <2>1. tgt[p] \in Resources
    BY <1>1
  <2>2. Goto(p, "starting") /\ CallStart(p, tgt[p])
    BY <1>1 DEF AfterDb
  <2>3. QED
    BY <2>1, <2>2, DistinctNames DEF AfterDb, CallStart, Actors
<1>2. CASE pc[p] = "db_down"
  <2>1. Leave(p) /\ UNCHANGED <<row, disturbed>>
    BY <1>2 DEF AfterDb
  <2>2. tgt' \in [Actors -> Resources \cup {Nobody}]
    BY <2>1 DEF Leave, Home, Wakes
  <2>3. pc' = [pc EXCEPT ![p] = "off"] /\ \A q \in Actors \ {p} : tgt'[q] = tgt[q]
    BY <2>1 DEF Leave
  <2>4. Targeted' /\ LoopsNonempty'
    BY <1>2, <2>3, DistinctNames DEF AfterDb, Actors
  <2>5. QED
    BY <1>2, <2>1, <2>2, <2>3, <2>4 DEF AfterDb
<1>3. QED
  BY <1>1, <1>2 DEF AfterDb

\* The wakes and the start routes.
LEMMA WakeTypeInv ==
    ASSUME TypeInv, NEW r \in Resources, RequestWake(r) \/ WakeStep(r) \/ RefusalLapses(r)
    PROVE  TypeInv'
<1> r \in Actors \ (Sleepers \cup Snaps \cup Stoppers)
  BY DistinctNames DEF Actors, Wakes
<1>1. CASE RequestWake(r)
  <2>1. CASE WaitForFence(r, r)
    BY <1>1, <2>1, DistinctNames DEF RequestWake, WaitForFence, Actors
  <2>2. CASE Proceed(r, r)
    BY <1>1, <2>2, ProceedTypes DEF RequestWake
  <2>3. QED
    BY <1>1, <2>1, <2>2 DEF RequestWake
<1>2. CASE PassFence(r)
  <2>1. CASE SettleWake(r, "db_up") /\ UNCHANGED <<row, tgt, disturbed>>
    BY <1>2, <2>1 DEF PassFence, SettleWake, Actors
  <2>2. CASE Proceed(r, r)
    BY <1>2, <2>2, ProceedTypes DEF PassFence
  <2>3. QED
    BY <1>2, <2>1, <2>2 DEF PassFence
<1>3. CASE AfterDb(r)
  BY <1>3, AfterDbTypes
<1>4. CASE FinishWake(r)
  BY <1>4 DEF FinishWake, SettleWake, Actors
<1>5. CASE RefusalLapses(r)
  BY <1>5 DEF RefusalLapses
<1>6. QED
  BY <1>1, <1>2, <1>3, <1>4, <1>5 DEF WakeStep

LEMMA StartRouteTypeInv ==
    ASSUME TypeInv, NEW p \in Starters,
           StartStep(p) \/ \E r \in Resources : RequestStart(p, r)
    PROVE  TypeInv'
<1> p \in Actors \ (Sleepers \cup Snaps \cup Stoppers)
  BY DistinctNames DEF Actors
<1>1. ASSUME NEW r \in Resources, RequestStart(p, r)
      PROVE  TypeInv'
  <2>1. CASE WaitForFence(p, r) /\ UNCHANGED refused
    BY <1>1, <2>1, DistinctNames DEF RequestStart, WaitForFence, Actors
  <2>2. CASE refused' = refused \ {r} /\ Proceed(p, r)
    BY <1>1, <2>2, ProceedTypes DEF RequestStart
  <2>3. QED
    BY <1>1, <2>1, <2>2 DEF RequestStart
<1>2. CASE StartPastFence(p)
  <2>1. tgt[p] \in Resources
    BY <1>2 DEF StartPastFence
  <2>2. QED
    BY <1>2, <2>1, ProceedTypes DEF StartPastFence
<1>3. CASE AfterDb(p)
  BY <1>3, AfterDbTypes
<1>4. CASE FinishStart(p)
  BY <1>4, DistinctNames DEF FinishStart, Leave, Home, Wakes, Actors
<1>5. QED
  BY <1>1, <1>2, <1>3, <1>4 DEF StartStep

LEMMA StopRouteTypeInv ==
    ASSUME TypeInv, NEW p \in Stoppers,
           StopStep(p) \/ \E r \in Resources : RequestStop(p, r)
    PROVE  TypeInv'
<1> p \in Actors \ (Sleepers \cup Snaps)
  BY DistinctNames DEF Actors
<1>1. ASSUME NEW r \in Resources, RequestStop(p, r)
      PROVE  TypeInv'
  <2>1. CASE Goto(p, "asking") /\ tgt' = [tgt EXCEPT ![p] = r] /\ UNCHANGED <<row, disturbed>>
    BY <1>1, <2>1, DistinctNames DEF RequestStop, Actors
  <2>2. CASE Goto(p, "stopping") /\ CallStop(p, r)
    BY <1>1, <2>2, DistinctNames DEF RequestStop, CallStop, Actors
  <2>3. QED
    BY <1>1, <2>1, <2>2 DEF RequestStop
<1>2. CASE StopGuardAnswers(p)
  <2>1. CASE Goto(p, "stopping") /\ CallStop(p, tgt[p])
    <3>1. tgt[p] \in Resources
      BY <1>2 DEF StopGuardAnswers
    <3>2. QED
      BY <1>2, <2>1, <3>1, DistinctNames DEF StopGuardAnswers, CallStop, Actors
  <2>2. CASE Leave(p) /\ UNCHANGED <<row, disturbed>>
    BY <1>2, <2>2, DistinctNames DEF StopGuardAnswers, Leave, Home, Wakes, Actors
  <2>3. QED
    BY <1>2, <2>1, <2>2 DEF StopGuardAnswers
<1>3. CASE FinishStop(p)
  BY <1>3, DistinctNames DEF FinishStop, Leave, Home, Wakes, Actors
<1>4. QED
  BY <1>1, <1>2, <1>3 DEF StopStep

LEMMA HibernatorTypeInv ==
    ASSUME TypeInv, NEW h \in Sleepers, HibernatorTick(h) \/ SleepStep(h)
    PROVE  TypeInv'
<1> h \in Actors \ (Snaps \cup Stoppers \cup Resources)
  BY DistinctNames DEF Actors
<1>1. CASE HibernatorTick(h)
  BY <1>1, DistinctNames DEF HibernatorTick, Running, Actors
<1>2. CASE Consider(h)
  <2>1. CASE Leave(h) /\ UNCHANGED todo
    BY <1>2, <2>1, DistinctNames DEF Consider, Leave, Home, Wakes, Actors
  <2>2. CASE todo[h] # {} /\ Goto(h, "asking") /\ UNCHANGED <<todo, tgt>>
    BY <1>2, <2>2, DistinctNames DEF Consider, Actors
  <2>3. CASE NextTurn(h) /\ UNCHANGED tgt
    BY <1>2, <2>3, DistinctNames DEF Consider, NextTurn, Actors
  <2>4. QED
    BY <1>2, <2>1, <2>2, <2>3 DEF Consider
<1>3. CASE HibernatorGuard(h)
  <2>1. /\ todo[h] # {} /\ pc[h] = "asking" /\ h \in Sleepers
        /\ UNCHANGED <<store, world, live, idle, hold, tgt, done, serving, ghosts>>
    BY <1>3, DistinctNames DEF HibernatorGuard
  <2>2. CASE Goto(h, "observed_idle") /\ UNCHANGED todo
    BY <2>1, <2>2, DistinctNames DEF Actors
  <2>3. CASE NextTurn(h)
    BY <2>1, <2>3, DistinctNames DEF NextTurn, Actors
  <2>4. QED
    BY <1>3, <2>2, <2>3 DEF HibernatorGuard
<1>4. CASE Hibernate(h)
  <2>1. First(todo[h]) \in Resources
    BY <1>4, FirstIsListed DEF Hibernate
  <2>2. QED
    <3> DEFINE r == First(todo[h])
    <3>1. CASE Goto(h, "stopping") /\ CallStop(h, r) /\ UNCHANGED todo
      BY <1>4, <2>1, <3>1, DistinctNames DEF Hibernate, CallStop, Actors
    <3>2. CASE NextTurn(h) /\ UNCHANGED <<row, tgt, disturbed>>
      BY <1>4, <3>2, DistinctNames DEF Hibernate, NextTurn, Actors
    <3>3. QED
      BY <1>4, <3>1, <3>2 DEF Hibernate
<1>5. CASE HibernateNext(h)
  BY <1>5, DistinctNames DEF HibernateNext, NextTurn, Actors
<1>6. QED
  BY <1>1, <1>2, <1>3, <1>4, <1>5 DEF SleepStep

LEMMA SnapshotTypeInv ==
    ASSUME TypeInv, NEW s \in Snaps, TakeHold(s) \/ SnapStep(s)
    PROVE  TypeInv'
<1> s \in Actors \ (Sleepers \cup Stoppers \cup Resources)
  BY DistinctNames DEF Actors
<1>1. CASE TakeHold(s)
  BY <1>1, DistinctNames DEF TakeHold, NothingInFlight, Running, Actors
<1>2. CASE QuiesceGuard(s)
  <2>1. First(todo[s]) \in Resources
    BY <1>2, FirstIsListed DEF QuiesceGuard
  <2> DEFINE r == First(todo[s])
             asked == done[s] \cup {r}
  <2>2. asked \subseteq Resources /\ asked # {}
    BY <2>1
  <2>3. First(asked) \in Resources
    BY <2>2, FirstIsListed
  <2> HIDE DEF asked
  <2>4. CASE /\ todo[s] # {r} /\ todo' = [todo EXCEPT ![s] = @ \ {r}]
             /\ done' = [done EXCEPT ![s] = asked]
             /\ UNCHANGED <<pc, row, tgt, disturbed>>
    BY <1>2, <2>1, <2>2, <2>4, DistinctNames DEF QuiesceGuard, Actors
  <2>5. CASE /\ todo' = [todo EXCEPT ![s] = asked]
             /\ done' = [done EXCEPT ![s] = {}]
             /\ StopNext(s, asked)
    BY <1>2, <2>2, <2>3, <2>5, DistinctNames DEF QuiesceGuard, StopNext, CallStop, Actors
  <2>6. CASE /\ done' = [done EXCEPT ![s] = {}]
             /\ Goto(s, "resuming")
             /\ UNCHANGED <<todo, row, tgt, disturbed>>
    BY <1>2, <2>6, DistinctNames DEF QuiesceGuard, Actors
  <2>7. QED
    BY <1>2, <2>4, <2>5, <2>6 DEF QuiesceGuard, asked
<1>3. CASE QuiesceStopped(s)
  <2> DEFINE rest == todo[s] \ {First(todo[s])}
  <2>1. First(todo[s]) \in Resources
    BY <1>3, FirstIsListed DEF QuiesceStopped
  <2>2. rest # {} => First(rest) \in Resources
    BY FirstIsListed
  <2>3. QED
    <3>1. CASE rest = {}
      BY <1>3, <2>1, <3>1, DistinctNames DEF QuiesceStopped, Actors
    <3>2. CASE rest # {}
      <4>1. StopNext(s, rest) /\ todo' = [todo EXCEPT ![s] = rest]
        BY <1>3, <3>2 DEF QuiesceStopped
      <4>2. done' = [done EXCEPT ![s] = @ \cup {First(todo[s])}]
        BY <1>3 DEF QuiesceStopped
      <4> HIDE DEF rest
      <4>3. rest \subseteq Resources
        BY DEF rest
      <4>4. QED
        BY <1>3, <2>1, <2>2, <3>2, <4>1, <4>2, <4>3, DistinctNames
           DEF QuiesceStopped, StopNext, CallStop, Actors
    <3>3. QED
      BY <3>1, <3>2
<1>4. CASE QuiesceFails(s)
  BY <1>4, DistinctNames DEF QuiesceFails, Actors
<1>5. CASE FinishCopy(s)
  BY <1>5, DistinctNames DEF FinishCopy, Actors
<1>6. CASE Resume(s)
  <2>1. Last(done[s]) \in Resources
    BY <1>6, LastIsListed DEF Resume
  <2>2. QED
    BY <1>6, <2>1, DistinctNames DEF Resume, CallStart, Actors
<1>7. CASE Release(s)
  BY <1>7, DistinctNames DEF Release, Actors
<1>8. QED
  BY <1>1, <1>2, <1>3, <1>4, <1>5, <1>6, <1>7 DEF SnapStep

LEMMA OutsideTypeInv ==
    ASSUME TypeInv, World \/ \E c \in Clients, r \in Resources : OpenSession(c, r)
    PROVE  TypeInv'
<1>1. ASSUME NEW r \in Resources, Boots(r) \/ ContainerDies(r) \/ TimePasses(r)
      PROVE  TypeInv'
  BY <1>1 DEF Boots, ContainerDies, TakeDown, TimePasses
<1>2. ASSUME NEW r \in Resources, RefusalLapses(r)
      PROVE  TypeInv'
  BY <1>2, WakeTypeInv
<1>3. ASSUME NEW c \in Clients, NEW r \in Resources, OpenSession(c, r)
      PROVE  TypeInv'
  BY <1>3 DEF OpenSession
<1>4. ASSUME NEW c \in Clients, CloseSession(c)
      PROVE  TypeInv'
  BY <1>4 DEF CloseSession
<1>5. QED
  BY <1>1, <1>2, <1>3, <1>4 DEF World

LEMMA RestartTypeInv ==
    ASSUME TypeInv, Restart
    PROVE  TypeInv'
<1> Reconciler \in Actors /\ Reconciler \notin Resources \cup Stoppers \cup Snaps \cup Sleepers
  BY DistinctNames DEF Actors
<1>1. CASE Crash
  <2>1. orphans' \subseteq {"stop", "start"} \X Resources
    BY <1>1 DEF Crash
  <2>2. disturbed' \subseteq Resources
    BY <1>1, <2>1 DEF Crash
  <2>3. pc' \in [Actors -> Stages] /\ tgt' \in [Actors -> Resources \cup {Nobody}]
    BY <1>1 DEF Crash, Home, Wakes
  <2>4. todo' \in [Actors -> SUBSET Resources] /\ done' \in [Actors -> SUBSET Resources]
    BY <1>1 DEF Crash
  <2>5. /\ live' \in [Resources -> SUBSET Clients]
        /\ idle' \in [Resources -> {"none", "fresh", "ripe"}]
        /\ attached' \in [Clients -> Resources \cup {Nobody}]
    BY <1>1 DEF Crash
  <2>6. Targeted' /\ LoopsNonempty'
    BY <1>1, DistinctNames DEF Crash, Actors
  <2>7. QED
    BY <1>1, <2>1, <2>2, <2>3, <2>4, <2>5, <2>6 DEF Crash
<1>2. CASE Inspect(Reconciler)
  BY <1>2, DistinctNames DEF Inspect, Actors
<1>3. CASE Correct(Reconciler)
  <2> DEFINE r == First(todo[Reconciler])
             corrected == CorrectedState(row[r], pc[Reconciler])
  <2>1. corrected \in States
    BY DEF CorrectedState
  <2> HIDE DEF corrected
  <2>2. row' = [row EXCEPT ![r] = corrected] /\ idle' \in {idle, [idle EXCEPT ![r] = "fresh"]}
    BY <1>3 DEF Correct, CorrectRow, corrected
  <2>3. row' \in [Resources -> States] /\ idle' \in [Resources -> {"none", "fresh", "ripe"}]
    BY <2>1, <2>2
  <2>4. todo' = [todo EXCEPT ![Reconciler] = @ \ {r}]
    BY <1>3 DEF Correct
  <2>5. PICK stage \in {"off", "inspecting"} : pc' = [pc EXCEPT ![Reconciler] = stage]
    BY <1>3 DEF Correct
  <2>6. pc' \in [Actors -> Stages] /\ todo' \in [Actors -> SUBSET Resources] /\ serving' \in BOOLEAN
    BY <1>3, <2>4, <2>5 DEF Correct
  <2>7. Targeted' /\ LoopsNonempty'
    BY <1>3, <2>4, <2>5, DistinctNames DEF Correct, Actors
  <2>8. QED
    BY <1>3, <2>3, <2>6, <2>7 DEF Correct
<1>4. ASSUME NEW o \in orphans, OrphanTakesEffect(o)
      PROVE  TypeInv'
  BY <1>4 DEF OrphanTakesEffect, TakeDown
<1>5. QED
  BY <1>1, <1>2, <1>3, <1>4 DEF Restart

LEMMA TypeInvariant == Spec => []TypeInv
<1>1. Init => TypeInv
  BY InitTypeInv
<1>2. TypeInv /\ [Next]_vars => TypeInv'
  <2> SUFFICES ASSUME TypeInv, [Next]_vars PROVE TypeInv'
    OBVIOUS
  <2>1. UNCHANGED vars => TypeInv'
    BY DEF vars
  <2>2. \A p \in Actors : ActorStep(p) => TypeInv'
    BY HandlerTypeInv, WakeTypeInv, StartRouteTypeInv, StopRouteTypeInv, HibernatorTypeInv,
       SnapshotTypeInv DEF ActorStep
  <2>3. Request => TypeInv'
    BY WakeTypeInv, StartRouteTypeInv, StopRouteTypeInv, SnapshotTypeInv, OutsideTypeInv
       DEF Request
  <2>4. World \/ Restart => TypeInv'
    BY OutsideTypeInv, RestartTypeInv
  <2> QED
    BY <2>1, <2>2, <2>3, <2>4 DEF Next
<1>3. QED
  BY <1>1, <1>2, PTL DEF Spec

\* Every variable has its type in every state of every behaviour: a row only ever
\* holds one of the five states of a resource, whatever fails and wherever the
\* daemon dies.
THEOREM TypeCorrect == Spec => []TypeOK
<1>1. TypeInv => TypeOK
  BY DEF TypeInv
<1>2. QED
  BY <1>1, TypeInvariant, PTL

-----------------------------------------------------------------------------
(* The hold.                                                               *)

\* A snapshot or restore that is anywhere between its hold and its release is the
\* one the hold names.
Held == \A s \in Snaps : pc[s] # "off" => hold = s

\* The wakes and the routes touch neither the hold nor a snapshot that is at work.
LEMMA ProceedLeavesSnaps ==
    ASSUME TypeInv, NEW p \in Actors \ Snaps, NEW r \in Resources, Proceed(p, r)
    PROVE  \A s \in Snaps : pc'[s] = pc[s]
<1>1. NeedsDb(r) => Bound[r] \notin Snaps
  BY DistinctNames DEF NeedsDb
<1>2. CASE StartDbWake(p, r)
  BY <1>1, <1>2 DEF StartDbWake, Actors
<1>3. CASE StartWithoutDb(p, r) \/ JoinDbWake(p, r) \/ DbIsRefused(p, r)
  BY <1>3 DEF StartWithoutDb, JoinDbWake, DbIsRefused, Leave, Actors
<1>4. QED
  BY <1>2, <1>3 DEF Proceed

LEMMA HandlerKeepsHeld ==
    ASSUME TypeInv, Held, NEW p \in Actors, HandlerStep(p)
    PROVE  Held'
<1>1. /\ hold' = hold /\ pc[p] # "off"
      /\ \E stage \in Stages : Goto(p, stage)
  BY DEF HandlerStep, DockerStart, Probe, StopAfterFailedStart, ReportFailedStart,
         DockerStop, ReportStarted, ReportStopped
<1>2. QED
  BY <1>1 DEF Held

LEMMA WakeKeepsHeld ==
    ASSUME TypeInv, Held, NEW r \in Resources, RequestWake(r) \/ WakeStep(r)
    PROVE  Held'
<1> r \in Actors \ Snaps
  BY DistinctNames DEF Actors, Wakes
<1>1. hold' = hold
  BY DEF RequestWake, WakeStep, PassFence, AfterDb, FinishWake
<1>2. ASSUME NEW s \in Snaps, pc[s] = "off" PROVE pc'[s] = "off"
  <2> s \in Actors \ {r}
    BY DistinctNames DEF Actors
  <2>1. CASE WaitForFence(r, r)
    BY <1>2, <2>1 DEF WaitForFence
  <2>2. CASE Proceed(r, r)
    BY <1>2, <2>2, ProceedLeavesSnaps
  <2>3. CASE \E verdict \in Stages : SettleWake(r, verdict)
    BY <1>2, <2>3 DEF SettleWake
  <2>4. CASE AfterDb(r)
    BY <1>2, <2>4 DEF AfterDb, Leave
  <2>5. QED
    BY <2>1, <2>2, <2>3, <2>4 DEF RequestWake, WakeStep, PassFence, FinishWake
<1>3. QED
  BY <1>1, <1>2 DEF Held

LEMMA RoutesKeepHeld ==
    ASSUME TypeInv, Held, NEW p \in Starters \cup Stoppers,
           \/ p \in Starters /\ (StartStep(p) \/ \E r \in Resources : RequestStart(p, r))
           \/ p \in Stoppers /\ (StopStep(p) \/ \E r \in Resources : RequestStop(p, r))
    PROVE  Held'
<1> p \in Actors \ Snaps
  BY DistinctNames DEF Actors
<1>1. hold' = hold
  BY DEF RequestStart, StartStep, StartPastFence, AfterDb, FinishStart,
         RequestStop, StopStep, StopGuardAnswers, FinishStop
<1>2. ASSUME NEW s \in Snaps PROVE pc'[s] = pc[s]
  <2> s \in Actors \ {p}
    BY DistinctNames DEF Actors
  <2>1. ASSUME NEW r \in Resources, Proceed(p, r) PROVE pc'[s] = pc[s]
    BY <2>1, ProceedLeavesSnaps
  <2>2. CASE StartPastFence(p)
    BY <2>1, <2>2 DEF StartPastFence
  <2>3. ASSUME NEW r \in Resources, RequestStart(p, r) PROVE pc'[s] = pc[s]
    BY <2>1, <2>3 DEF RequestStart, WaitForFence
  <2>4. CASE AfterDb(p) \/ FinishStart(p)
    BY <2>4 DEF AfterDb, FinishStart, Leave
  <2>5. CASE StopStep(p) \/ \E r \in Resources : RequestStop(p, r)
    BY <2>5 DEF StopStep, StopGuardAnswers, FinishStop, RequestStop, Leave
  <2>6. QED
    BY <2>2, <2>3, <2>4, <2>5 DEF StartStep
<1>3. QED
  BY <1>1, <1>2 DEF Held

LEMMA HibernatorKeepsHeld ==
    ASSUME TypeInv, Held, NEW h \in Sleepers, HibernatorTick(h) \/ SleepStep(h)
    PROVE  Held'
<1>1. hold' = hold /\ h \in Actors \ Snaps
  BY DistinctNames DEF HibernatorTick, SleepStep, Consider, HibernatorGuard, Hibernate,
                       HibernateNext, Actors
<1>2. \E stage \in Stages : Goto(h, stage)
  BY DEF HibernatorTick, SleepStep, Consider, HibernatorGuard, Hibernate, HibernateNext,
         NextTurn, Leave
<1>3. QED
  BY <1>1, <1>2 DEF Held

LEMMA SnapshotKeepsHeld ==
    ASSUME TypeInv, Held, NEW s \in Snaps, TakeHold(s) \/ SnapStep(s)
    PROVE  Held'
<1>0. s \in Actors /\ Nobody \notin Snaps /\ Snaps \subseteq Actors
  BY DistinctNames DEF Actors
<1>1. CASE TakeHold(s)
  BY <1>0, <1>1 DEF TakeHold, Held
<1>2. CASE Release(s)
  BY <1>0, <1>2 DEF Release, Resuming, Held
<1>3. CASE QuiesceGuard(s) \/ QuiesceStopped(s) \/ QuiesceFails(s) \/ FinishCopy(s) \/ Resume(s)
  <2>1. hold' = hold /\ pc[s] # "off"
    BY <1>3 DEF QuiesceGuard, QuiesceStopped, QuiesceFails, FinishCopy, Resume, Resuming
  <2>2. UNCHANGED pc \/ \E stage \in Stages : Goto(s, stage)
    BY <1>3 DEF QuiesceGuard, QuiesceStopped, QuiesceFails, FinishCopy, Resume, StopNext
  <2>3. QED
    BY <1>0, <2>1, <2>2 DEF Held
<1>4. QED
  BY <1>1, <1>2, <1>3 DEF SnapStep

LEMMA RestartKeepsHeld ==
    ASSUME TypeInv, Held, Restart
    PROVE  Held'
<1>0. Reconciler \in Actors \ Snaps /\ Snaps \subseteq Actors
  BY DistinctNames DEF Actors
<1>1. CASE Crash
  BY <1>0, <1>1 DEF Crash, Held
<1>2. CASE Inspect(Reconciler) \/ Correct(Reconciler)
  BY <1>0, <1>2 DEF Inspect, Correct, Held
<1>3. CASE \E o \in orphans : OrphanTakesEffect(o)
  BY <1>3 DEF OrphanTakesEffect, Held
<1>4. QED
  BY <1>1, <1>2, <1>3 DEF Restart

LEMMA HeldStays ==
    ASSUME TypeInv, Held, [Next]_vars
    PROVE  Held'
<1>1. ASSUME NEW p \in Actors, ActorStep(p) PROVE Held'
  BY <1>1, HandlerKeepsHeld, WakeKeepsHeld, RoutesKeepHeld, HibernatorKeepsHeld,
     SnapshotKeepsHeld DEF ActorStep
<1>2. ASSUME NEW c \in Clients, NEW r \in Resources, OpenSession(c, r) PROVE Held'
  BY <1>2 DEF OpenSession, Held
<1>3. CASE Request
  BY <1>2, <1>3, WakeKeepsHeld, RoutesKeepHeld, SnapshotKeepsHeld DEF Request
<1>4. CASE World
  BY <1>4 DEF World, Boots, ContainerDies, TimePasses, RefusalLapses, CloseSession, Held
<1>5. CASE Restart
  BY <1>5, RestartKeepsHeld
<1>6. CASE UNCHANGED vars
  BY <1>6 DEF vars, Held
<1>7. QED
  BY <1>1, <1>3, <1>4, <1>5, <1>6 DEF Next

\* At most one snapshot or restore works on the project, from its hold to its
\* release, for any number of them and wherever the daemon dies.
THEOREM HoldExclusive == Spec => []HoldIsExclusive
<1>1. Init => Held
  BY DistinctNames DEF Init, Held, Actors
<1>2. TypeInv /\ Held /\ [Next]_vars => Held'
  BY HeldStays
<1>3. Held => HoldIsExclusive
  BY DEF Held, HoldIsExclusive
<1>4. QED
  BY <1>1, <1>2, <1>3, TypeInvariant, PTL DEF Spec

-----------------------------------------------------------------------------
(* The idle clock.                                                         *)

\* While a restarted daemon reconciles, the rows it has looked at are watched.
WatchedSoFar ==
    \A r \in Resources : serving \/ r \notin todo[Reconciler] => Watched(r)

LEMMA HandlerKeepsWatched ==
    ASSUME TypeInv, WatchedSoFar, NEW p \in Actors, HandlerStep(p)
    PROVE  WatchedSoFar'
<1>1. UNCHANGED <<todo, serving>>
  BY DEF HandlerStep
<1>2. CASE ReportStarted(p)
  BY <1>1, <1>2 DEF ReportStarted, WatchedSoFar, Watched
<1>3. CASE ReportStopped(p)
  BY <1>1, <1>3 DEF ReportStopped, WatchedSoFar, Watched
<1>4. CASE UNCHANGED <<live, idle>> /\ (UNCHANGED row \/ row' = [row EXCEPT ![tgt[p]] = "failed"])
  BY <1>1, <1>4 DEF WatchedSoFar, Watched
<1>5. QED
  BY <1>2, <1>3, <1>4 DEF HandlerStep, DockerStart, Probe, StopAfterFailedStart,
     ReportFailedStart, DockerStop

\* No request and no loop of the daemon writes `running` or touches a clock; they
\* only call handlers.
NothingNewRuns ==
    /\ UNCHANGED <<live, idle, serving>>
    /\ todo'[Reconciler] = todo[Reconciler]
    /\ \A q \in Resources : row'[q] = "running" => row[q] = "running"

LEMMA CallsKeepWatched ==
    ASSUME WatchedSoFar, NothingNewRuns
    PROVE  WatchedSoFar'
  BY DEF WatchedSoFar, Watched, NothingNewRuns

LEMMA ProceedStartsNothingNew ==
    ASSUME TypeInv, NEW p, NEW r, Proceed(p, r)
    PROVE  \A q \in Resources : row'[q] = "running" => row[q] = "running"
  BY DEF Proceed, StartWithoutDb, JoinDbWake, DbIsRefused, StartDbWake, CallStart

LEMMA RequestsStartNothingNew ==
    ASSUME TypeInv,
           \/ \E r \in Resources : RequestWake(r) \/ WakeStep(r)
           \/ \E p \in Starters : StartStep(p) \/ \E r \in Resources : RequestStart(p, r)
           \/ \E p \in Stoppers : StopStep(p) \/ \E r \in Resources : RequestStop(p, r)
    PROVE  NothingNewRuns
<1>1. ASSUME NEW r \in Resources, RequestWake(r) \/ PassFence(r) \/ FinishWake(r)
      PROVE  NothingNewRuns
  BY <1>1, ProceedStartsNothingNew
     DEF RequestWake, PassFence, FinishWake, WaitForFence, NothingNewRuns
<1>2. ASSUME NEW p, AfterDb(p)
      PROVE  NothingNewRuns
  BY <1>2 DEF AfterDb, CallStart, NothingNewRuns
<1>3. ASSUME NEW p, StartPastFence(p) \/ FinishStart(p) \/ \E r \in Resources : RequestStart(p, r)
      PROVE  NothingNewRuns
  BY <1>3, ProceedStartsNothingNew
     DEF StartPastFence, FinishStart, RequestStart, WaitForFence, NothingNewRuns
<1>4. ASSUME NEW p, StopStep(p) \/ \E r \in Resources : RequestStop(p, r)
      PROVE  NothingNewRuns
  BY <1>4 DEF StopStep, StopGuardAnswers, FinishStop, RequestStop, CallStop, NothingNewRuns
<1>5. QED
  BY <1>1, <1>2, <1>3, <1>4 DEF WakeStep, StartStep

LEMMA LoopsStartNothingNew ==
    ASSUME TypeInv,
           \/ \E h \in Sleepers : HibernatorTick(h) \/ SleepStep(h)
           \/ \E s \in Snaps : TakeHold(s) \/ SnapStep(s)
    PROVE  NothingNewRuns
<1> Reconciler \notin Sleepers \cup Snaps /\ Reconciler \in Actors
  BY DistinctNames DEF Actors
<1>1. ASSUME NEW h \in Sleepers, HibernatorTick(h) \/ SleepStep(h)
      PROVE  NothingNewRuns
  <2>1. UNCHANGED <<live, idle, serving>>
    BY <1>1 DEF HibernatorTick, SleepStep, Consider, HibernatorGuard, Hibernate, HibernateNext
  <2>2. todo'[Reconciler] = todo[Reconciler]
    BY <1>1 DEF HibernatorTick, SleepStep, Consider, HibernatorGuard, Hibernate, HibernateNext,
                NextTurn
  <2>3. UNCHANGED row \/ \E r : row' = [row EXCEPT ![r] = "stopping"]
    BY <1>1 DEF HibernatorTick, SleepStep, Consider, HibernatorGuard, Hibernate, HibernateNext,
                CallStop
  <2>4. QED
    BY <2>1, <2>2, <2>3 DEF NothingNewRuns
<1>2. ASSUME NEW s \in Snaps, TakeHold(s) \/ SnapStep(s)
      PROVE  NothingNewRuns
  <2>1. UNCHANGED <<live, idle, serving>>
    BY <1>2 DEF TakeHold, SnapStep, QuiesceGuard, QuiesceStopped, QuiesceFails, FinishCopy,
                Resume, Release
  <2>2. todo'[Reconciler] = todo[Reconciler]
    BY <1>2 DEF TakeHold, SnapStep, QuiesceGuard, QuiesceStopped, QuiesceFails, FinishCopy,
                Resume, Release
  <2>3. \/ UNCHANGED row
        \/ \E r : \E state \in {"starting", "stopping"} : row' = [row EXCEPT ![r] = state]
    BY <1>2 DEF TakeHold, SnapStep, QuiesceGuard, QuiesceStopped, QuiesceFails, FinishCopy,
                Resume, Release, StopNext, CallStart, CallStop
  <2>4. QED
    BY <2>1, <2>2, <2>3 DEF NothingNewRuns
<1>3. QED
  BY <1>1, <1>2

LEMMA RestartKeepsWatched ==
    ASSUME TypeInv, WatchedSoFar, Restart
    PROVE  WatchedSoFar'
<1> Reconciler \in Actors
  BY DEF Actors
<1>1. CASE Crash
  BY <1>1 DEF Crash, WatchedSoFar
<1>2. CASE Inspect(Reconciler)
  BY <1>2 DEF Inspect, WatchedSoFar, Watched
<1>3. CASE Correct(Reconciler)
  <2>0. PICK r, corrected :
            r = First(todo[Reconciler]) /\ corrected = CorrectedState(row[r], pc[Reconciler])
    OBVIOUS
  <2> USE <2>0
  <2>1. row' = [row EXCEPT ![r] = corrected] /\ live' = live
    BY <1>3 DEF Correct, CorrectRow
  <2>2. idle' = IF corrected = "running" THEN [idle EXCEPT ![r] = "fresh"] ELSE idle
    BY <1>3 DEF Correct, CorrectRow
  <2>3. todo'[Reconciler] = todo[Reconciler] \ {r}
    BY <1>3 DEF Correct
  <2>4. serving' => serving \/ todo[Reconciler] = {r}
    BY <1>3 DEF Correct
  <2>5. \A q \in Resources \ {r} : Watched(q) => Watched(q)'
    BY <2>1, <2>2 DEF Watched
  <2>6. r \in Resources => Watched(r)'
    BY <2>1, <2>2 DEF Watched
  <2>7. QED
    BY <2>3, <2>4, <2>5, <2>6 DEF WatchedSoFar
<1>4. CASE \E o \in orphans : OrphanTakesEffect(o)
  BY <1>4 DEF OrphanTakesEffect, WatchedSoFar, Watched
<1>5. QED
  BY <1>1, <1>2, <1>3, <1>4 DEF Restart

\* What is labelled running has an open session or an idle clock, so that the
\* hibernator can reach a verdict on it: through every start and stop, whenever
\* sessions close, and after every restart of the daemon.
THEOREM RunningWatched == Spec => []RunningIsWatched
<1>1. Init => WatchedSoFar
  BY DEF Init, WatchedSoFar, Watched
<1>2. TypeInv /\ WatchedSoFar /\ [Next]_vars => WatchedSoFar'
  <2> SUFFICES ASSUME TypeInv, WatchedSoFar, [Next]_vars PROVE WatchedSoFar'
    OBVIOUS
  <2>1. ASSUME NEW p \in Actors, ActorStep(p) PROVE WatchedSoFar'
    BY <2>1, HandlerKeepsWatched, RequestsStartNothingNew, LoopsStartNothingNew,
       CallsKeepWatched DEF ActorStep
  <2>2. ASSUME NEW c \in Clients, NEW r \in Resources, OpenSession(c, r) PROVE WatchedSoFar'
    BY <2>2 DEF OpenSession, WatchedSoFar, Watched
  <2>3. ASSUME NEW c \in Clients, CloseSession(c) PROVE WatchedSoFar'
    BY <2>3 DEF CloseSession, WatchedSoFar, Watched
  <2>4. CASE Request
    BY <2>2, <2>4, RequestsStartNothingNew, LoopsStartNothingNew, CallsKeepWatched DEF Request
  <2>5. ASSUME NEW r \in Resources, Boots(r) \/ ContainerDies(r) \/ TimePasses(r) \/ RefusalLapses(r)
        PROVE  WatchedSoFar'
    BY <2>5 DEF Boots, ContainerDies, TimePasses, RefusalLapses, WatchedSoFar, Watched
  <2>6. CASE Restart
    BY <2>6, RestartKeepsWatched
  <2>7. CASE UNCHANGED vars
    BY <2>7 DEF vars, WatchedSoFar, Watched
  <2>8. QED
    BY <2>1, <2>3, <2>4, <2>5, <2>6, <2>7 DEF Next, World
<1>3. WatchedSoFar => RunningIsWatched
  BY DEF WatchedSoFar, RunningIsWatched
<1>4. QED
  BY <1>1, <1>2, <1>3, TypeInvariant, PTL DEF Spec

-----------------------------------------------------------------------------
(* Refusals.                                                               *)

\* While a wake of r is in flight nothing refuses r: only the wake itself may.
NotRefused == \A r \in Resources : pc[r] # "off" => r \notin refused

LEMMA ProceedKeepsNotRefused ==
    ASSUME TypeInv, NEW p \in Resources \cup Starters, NEW r \in Resources,
           p \in Resources => p = r /\ r \notin refused,
           NotRefused, refused' \subseteq refused, Proceed(p, r)
    PROVE  NotRefused'
<1>1. NeedsDb(r) => Bound[r] \in Resources
  BY DistinctNames DEF NeedsDb
<1>2. Resources \subseteq Actors /\ Starters \subseteq Actors /\ Starters \cap Resources = {}
  BY DistinctNames DEF Actors, Wakes
<1>3. CASE StartDbWake(p, r)
  BY <1>1, <1>2, <1>3 DEF StartDbWake, NotRefused
<1>4. CASE StartWithoutDb(p, r) \/ JoinDbWake(p, r) \/ DbIsRefused(p, r)
  BY <1>2, <1>4 DEF StartWithoutDb, JoinDbWake, DbIsRefused, Leave, NotRefused
<1>5. QED
  BY <1>3, <1>4 DEF Proceed

LEMMA WakeKeepsNotRefused ==
    ASSUME TypeInv, NotRefused, NEW r \in Resources, RequestWake(r) \/ WakeStep(r)
    PROVE  NotRefused'
<1> r \in Actors /\ Resources \subseteq Actors
  BY DEF Actors, Wakes
<1>1. CASE RequestWake(r)
  <2>1. CASE WaitForFence(r, r)
    BY <1>1, <2>1 DEF RequestWake, WaitForFence, NotRefused
  <2>2. CASE Proceed(r, r)
    BY <1>1, <2>2, ProceedKeepsNotRefused DEF RequestWake
  <2>3. QED
    BY <1>1, <2>1, <2>2 DEF RequestWake
<1>2. CASE PassFence(r)
  <2>1. CASE refused' = refused \ {r} /\ SettleWake(r, "db_up")
    BY <2>1 DEF SettleWake, NotRefused
  <2>2. CASE Proceed(r, r) /\ UNCHANGED refused
    BY <1>2, <2>2, ProceedKeepsNotRefused DEF PassFence, NotRefused
  <2>3. QED
    BY <1>2, <2>1, <2>2 DEF PassFence
<1>3. CASE AfterDb(r)
  BY <1>3 DEF AfterDb, Leave, NotRefused
<1>4. CASE FinishWake(r)
  BY <1>4 DEF FinishWake, SettleWake, NotRefused
<1>5. QED
  BY <1>1, <1>2, <1>3, <1>4 DEF WakeStep

LEMMA StartRouteKeepsNotRefused ==
    ASSUME TypeInv, NotRefused, NEW p \in Starters,
           StartStep(p) \/ \E r \in Resources : RequestStart(p, r)
    PROVE  NotRefused'
<1> p \notin Resources /\ p \in Actors /\ Resources \subseteq Actors
  BY DistinctNames DEF Actors, Wakes
<1>1. ASSUME NEW r \in Resources, RequestStart(p, r) PROVE NotRefused'
  <2>1. CASE WaitForFence(p, r) /\ UNCHANGED refused
    BY <2>1 DEF WaitForFence, NotRefused
  <2>2. CASE refused' = refused \ {r} /\ Proceed(p, r)
    BY <2>2, ProceedKeepsNotRefused
  <2>3. QED
    BY <1>1, <2>1, <2>2 DEF RequestStart
<1>2. CASE StartPastFence(p)
  BY <1>2, ProceedKeepsNotRefused DEF StartPastFence
<1>3. CASE AfterDb(p) \/ FinishStart(p)
  BY <1>3 DEF AfterDb, FinishStart, Leave, NotRefused
<1>4. QED
  BY <1>1, <1>2, <1>3 DEF StartStep

\* Every other actor works under a name that is no wake's, or lets refusals go.
LEMMA OthersKeepNotRefused ==
    ASSUME TypeInv, NotRefused,
           \/ \E p \in Actors : HandlerStep(p)
           \/ \E p \in Stoppers : StopStep(p) \/ \E r \in Resources : RequestStop(p, r)
           \/ \E h \in Sleepers : HibernatorTick(h) \/ SleepStep(h)
           \/ \E s \in Snaps : TakeHold(s) \/ SnapStep(s)
    PROVE  NotRefused'
<1> Resources \subseteq Actors
  BY DEF Actors, Wakes
<1>1. ASSUME NEW p \in Actors, HandlerStep(p) PROVE NotRefused'
  <2>1. refused' = refused /\ pc[p] # "off" /\ \E stage \in Stages : Goto(p, stage)
    BY <1>1 DEF HandlerStep, DockerStart, Probe, StopAfterFailedStart, ReportFailedStart,
                DockerStop, ReportStarted, ReportStopped
  <2>2. QED
    BY <2>1 DEF NotRefused
<1>2. ASSUME NEW p \in Stoppers, StopStep(p) \/ \E r \in Resources : RequestStop(p, r)
      PROVE  NotRefused'
  <2>1. p \notin Resources /\ refused' \subseteq refused
    BY <1>2, DistinctNames DEF StopStep, StopGuardAnswers, FinishStop, RequestStop
  <2>2. \E stage : Goto(p, stage)
    BY <1>2 DEF StopStep, StopGuardAnswers, FinishStop, RequestStop, Leave
  <2>3. QED
    BY <2>1, <2>2 DEF NotRefused
<1>3. ASSUME NEW h \in Sleepers, HibernatorTick(h) \/ SleepStep(h) PROVE NotRefused'
  <2>1. h \notin Resources /\ refused' = refused
    BY <1>3, DistinctNames DEF HibernatorTick, SleepStep, Consider, HibernatorGuard,
                               Hibernate, HibernateNext
  <2>2. \E stage : Goto(h, stage)
    BY <1>3 DEF HibernatorTick, SleepStep, Consider, HibernatorGuard, Hibernate,
                HibernateNext, NextTurn, Leave
  <2>3. QED
    BY <2>1, <2>2 DEF NotRefused
<1>4. ASSUME NEW s \in Snaps, TakeHold(s) \/ SnapStep(s) PROVE NotRefused'
  <2>1. s \notin Resources /\ refused' = refused
    BY <1>4, DistinctNames DEF TakeHold, SnapStep, QuiesceGuard, QuiesceStopped, QuiesceFails,
                               FinishCopy, Resume, Release
  <2>2. CASE Release(s)
    BY <2>1, <2>2 DEF Release, NotRefused
  <2>3. CASE UNCHANGED pc \/ \E stage : Goto(s, stage)
    BY <2>1, <2>3 DEF NotRefused
  <2>4. QED
    BY <1>4, <2>2, <2>3 DEF TakeHold, SnapStep, QuiesceGuard, QuiesceStopped, QuiesceFails,
                            FinishCopy, Resume, StopNext
<1>5. QED
  BY <1>1, <1>2, <1>3, <1>4

LEMMA RestartKeepsNotRefused ==
    ASSUME TypeInv, NotRefused, Restart
    PROVE  NotRefused'
<1>0. Reconciler \notin Resources /\ Resources \subseteq Actors
  BY DistinctNames DEF Actors, Wakes
<1>1. CASE Crash
  BY <1>1 DEF Crash, NotRefused
<1>2. CASE Inspect(Reconciler) \/ Correct(Reconciler)
  BY <1>0, <1>2 DEF Inspect, Correct, NotRefused
<1>3. CASE \E o \in orphans : OrphanTakesEffect(o)
  BY <1>3 DEF OrphanTakesEffect, NotRefused
<1>4. QED
  BY <1>1, <1>2, <1>3 DEF Restart

\* A wake never calls the start handler of a resource that is refused, however many
\* other starts, stops, snapshots and restarts set or cleared the refusal meanwhile.
THEOREM RefusedNotWoken == Spec => RefusedIsNotWoken
<1>1. Init => NotRefused
  BY DEF Init, NotRefused
<1>2. TypeInv /\ NotRefused /\ [Next]_vars => NotRefused'
  <2> SUFFICES ASSUME TypeInv, NotRefused, [Next]_vars PROVE NotRefused'
    OBVIOUS
  <2>1. ASSUME NEW p \in Actors, ActorStep(p) PROVE NotRefused'
    BY <2>1, WakeKeepsNotRefused, StartRouteKeepsNotRefused, OthersKeepNotRefused DEF ActorStep
  <2>2. ASSUME NEW c \in Clients, NEW r \in Resources, OpenSession(c, r) PROVE NotRefused'
    BY <2>2 DEF OpenSession, NotRefused
  <2>3. CASE Request
    BY <2>2, <2>3, WakeKeepsNotRefused, StartRouteKeepsNotRefused, OthersKeepNotRefused
       DEF Request
  <2>4. CASE World
    BY <2>4 DEF World, Boots, ContainerDies, TimePasses, RefusalLapses, CloseSession, NotRefused
  <2>5. CASE Restart
    BY <2>5, RestartKeepsNotRefused
  <2>6. CASE UNCHANGED vars
    BY <2>6 DEF vars, NotRefused
  <2>7. QED
    BY <2>1, <2>3, <2>4, <2>5, <2>6 DEF Next
<1>3. NotRefused' => \A r \in Resources :
          pc[r] # "starting" /\ pc'[r] = "starting" => r \notin refused'
  BY DEF NotRefused
<1>4. QED
  BY <1>1, <1>2, <1>3, TypeInvariant, PTL DEF Spec, RefusedIsNotWoken
-----------------------------------------------------------------------------
(* Calls of handlers.                                                      *)

Handling == StartStages \cup StopStages

\* Nobody calls a handler: whoever is in one was there before, at the same resource.
NoCall ==
    /\ UNCHANGED <<row, disturbed>>
    /\ \A p \in Actors : pc'[p] \in Handling => pc[p] = pc'[p] /\ tgt[p] = tgt'[p]

\* An actor that was in none calls one, the others do not.
Call(q, r, stage) ==
    /\ pc[q] \notin Handling /\ pc'[q] = stage /\ tgt'[q] = r
    /\ row' = [row EXCEPT ![r] = stage]
    /\ disturbed' = IF Busy(r) THEN disturbed \cup {r} ELSE disturbed
    /\ \A p \in Actors \ {q} : pc'[p] \in Handling => pc[p] = pc'[p] /\ tgt[p] = tgt'[p]

Callers == Wakes \cup Starters \cup Snaps

OneCall ==
    \/ \E q \in Callers, r \in Resources : Call(q, r, "starting")
    \/ \E q \in Actors \ {Reconciler}, r \in Resources : Call(q, r, "stopping")

\* What only handlers, containers, sessions and a restart change.
Outside == <<box, backend, attached, live, idle, orphans, serving>>

\* What the daemon's actors do besides being in a handler.
Acts ==
    \/ \E r \in Resources : RequestWake(r) \/ WakeStep(r)
    \/ \E p \in Starters : StartStep(p) \/ \E r \in Resources : RequestStart(p, r)
    \/ \E p \in Stoppers : StopStep(p) \/ \E r \in Resources : RequestStop(p, r)
    \/ \E h \in Sleepers : HibernatorTick(h) \/ SleepStep(h)
    \/ \E s \in Snaps : TakeHold(s) \/ SnapStep(s)

\* Only an actor inside a handler takes a step of one.
LEMMA HandlerSteps ==
    ASSUME TypeInv, NEW p \in Actors, HandlerStep(p)
    PROVE  pc[p] \in Handling
  BY DEF HandlerStep, DockerStart, Probe, StopAfterFailedStart, ReportFailedStart, DockerStop,
         ReportStarted, ReportStopped, Handling

\* A start that looks at its database first calls one handler or none.
LEMMA ProceedCalls ==
    ASSUME TypeInv, NEW p \in Wakes \cup Starters, NEW r \in Resources, Proceed(p, r),
           pc[p] \notin Handling
    PROVE  NoCall \/ OneCall
<1>0. /\ p \in Actors /\ p \in Callers
      /\ NeedsDb(r) => Bound[r] \in Resources /\ Bound[r] \in Actors /\ Bound[r] \in Callers
  BY DistinctNames DEF NeedsDb, Actors, Wakes, Callers
<1>1. CASE StartWithoutDb(p, r)
  <2>1. Call(p, r, "starting")
    BY <1>0, <1>1 DEF StartWithoutDb, CallStart, Call
  <2>2. QED
    BY <1>0, <2>1 DEF OneCall
<1>2. CASE JoinDbWake(p, r)
  BY <1>0, <1>2 DEF JoinDbWake, NoCall, Handling
<1>3. CASE DbIsRefused(p, r)
  BY <1>0, <1>3 DEF DbIsRefused, Leave, NoCall, Handling
<1>4. CASE StartDbWake(p, r)
  <2> DEFINE d == Bound[r]
  <2>1. d \in Resources /\ d \in Actors /\ d \in Callers /\ pc[d] = "off"
    BY <1>0, <1>4 DEF StartDbWake
  <2>2. CASE Fenced
    BY <1>0, <1>4, <2>1, <2>2 DEF StartDbWake, NoCall, Handling
  <2>3. CASE ~Fenced
    <3>1. /\ pc' = [pc EXCEPT ![p] = "await_db", ![d] = "starting"]
          /\ tgt' = [tgt EXCEPT ![p] = r, ![d] = d]
          /\ row' = [row EXCEPT ![d] = "starting"]
          /\ disturbed' = IF Busy(d) THEN disturbed \cup {d} ELSE disturbed
      BY <1>4, <2>3 DEF StartDbWake
    <3>2. Call(d, d, "starting")
      BY <1>0, <2>1, <3>1 DEF Call, Handling
    <3>3. QED
      BY <2>1, <3>2 DEF OneCall
  <2>4. QED
    BY <2>2, <2>3
<1>5. QED
  BY <1>1, <1>2, <1>3, <1>4 DEF Proceed

\* The wakes call one start handler or none, and so do the start routes.
LEMMA WakesCall ==
    ASSUME TypeInv,
           \/ \E r \in Resources : RequestWake(r) \/ WakeStep(r)
           \/ \E p \in Starters : StartStep(p) \/ \E r \in Resources : RequestStart(p, r)
    PROVE  NoCall \/ OneCall
<1>0. Wakes \cup Starters \subseteq Actors /\ Wakes \cup Starters \subseteq Callers /\ Wakes = Resources
  BY DEF Actors, Callers, Wakes
<1>1. ASSUME NEW p \in Wakes \cup Starters, NEW r \in Resources, WaitForFence(p, r)
      PROVE  NoCall
  BY <1>0, <1>1 DEF WaitForFence, NoCall, Handling
<1>2. ASSUME NEW p \in Wakes \cup Starters, AfterDb(p)
      PROVE  NoCall \/ OneCall
  <2>1. CASE pc[p] = "db_up"
    <3>1. tgt[p] \in Resources /\ Call(p, tgt[p], "starting")
      BY <1>0, <1>2, <2>1 DEF AfterDb, CallStart, Call, Handling
    <3>2. QED
      BY <1>0, <3>1 DEF OneCall
  <2>2. CASE pc[p] = "db_down"
    BY <1>0, <1>2, <2>2 DEF AfterDb, Leave, NoCall, Handling
  <2>3. QED
    BY <1>2, <2>1, <2>2 DEF AfterDb
<1>3. ASSUME NEW r \in Resources, NEW verdict \in {"db_up", "db_down"}, SettleWake(r, verdict),
             UNCHANGED <<row, tgt, disturbed>>
      PROVE  NoCall
  BY <1>3 DEF SettleWake, NoCall, Handling
<1>4. ASSUME NEW r \in Resources, RequestWake(r)
      PROVE  NoCall \/ OneCall
  BY <1>0, <1>1, <1>4, ProceedCalls DEF RequestWake, Handling
<1>5. ASSUME NEW r \in Resources, PassFence(r)
      PROVE  NoCall \/ OneCall
  BY <1>0, <1>3, <1>5, ProceedCalls DEF PassFence, Handling
<1>6. ASSUME NEW r \in Resources, FinishWake(r)
      PROVE  NoCall
  BY <1>3, <1>6 DEF FinishWake
<1>7. ASSUME NEW p \in Starters, NEW r \in Resources, RequestStart(p, r)
      PROVE  NoCall \/ OneCall
  BY <1>0, <1>1, <1>7, ProceedCalls DEF RequestStart, Handling
<1>8. ASSUME NEW p \in Starters, StartPastFence(p)
      PROVE  NoCall \/ OneCall
  BY <1>0, <1>8, ProceedCalls DEF StartPastFence, Handling
<1>9. ASSUME NEW p \in Starters, FinishStart(p)
      PROVE  NoCall
  BY <1>0, <1>9 DEF FinishStart, Leave, NoCall, Handling
<1>10. QED
  BY <1>0, <1>2, <1>4, <1>5, <1>6, <1>7, <1>8, <1>9 DEF WakeStep, StartStep

\* The hibernator, the stop routes and the snapshots call one handler or none.
LEMMA LoopsCall ==
    ASSUME TypeInv,
           \/ \E p \in Stoppers : StopStep(p) \/ \E r \in Resources : RequestStop(p, r)
           \/ \E h \in Sleepers : HibernatorTick(h) \/ SleepStep(h)
           \/ \E s \in Snaps : TakeHold(s) \/ SnapStep(s)
    PROVE  NoCall \/ OneCall
<1>0. /\ Stoppers \cup Sleepers \cup Snaps \subseteq Actors \ {Reconciler}
      /\ Snaps \subseteq Callers
  BY DistinctNames DEF Actors, Callers
<1>1. ASSUME NEW q \in Actors \ {Reconciler}, NEW r \in Resources, pc[q] \notin Handling,
             Goto(q, "stopping"), CallStop(q, r)
      PROVE  OneCall
  <2>1. Call(q, r, "stopping")
    BY <1>1 DEF CallStop, Call
  <2>2. QED
    BY <1>1, <2>1 DEF OneCall
<1>2. ASSUME NEW q \in Actors, NEW stage \in Stages \ Handling, Goto(q, stage),
             UNCHANGED <<row, disturbed>>,
             UNCHANGED tgt \/ \E r : tgt' = [tgt EXCEPT ![q] = r]
      PROVE  NoCall
  BY <1>2 DEF NoCall, Handling
<1>3. ASSUME NEW p \in Stoppers, NEW r \in Resources, RequestStop(p, r)
      PROVE  NoCall \/ OneCall
  <2>1. CASE Goto(p, "stopping") /\ CallStop(p, r)
    BY <1>0, <1>1, <1>3, <2>1 DEF RequestStop, Handling
  <2>2. CASE /\ Goto(p, "asking") /\ tgt' = [tgt EXCEPT ![p] = r]
             /\ UNCHANGED <<row, disturbed>>
    BY <1>0, <1>2, <2>2 DEF Handling
  <2>3. QED
    BY <1>3, <2>1, <2>2 DEF RequestStop
<1>4. ASSUME NEW p \in Stoppers, StopGuardAnswers(p)
      PROVE  NoCall \/ OneCall
  <2>1. pc[p] \notin Handling /\ tgt[p] \in Resources
    BY <1>4 DEF StopGuardAnswers, Handling
  <2>2. CASE Goto(p, "stopping") /\ CallStop(p, tgt[p])
    BY <1>0, <1>1, <2>1, <2>2
  <2>3. CASE Leave(p) /\ UNCHANGED <<row, disturbed>>
    BY <1>0, <1>2, <2>3 DEF Leave, Handling
  <2>4. QED
    BY <1>4, <2>2, <2>3 DEF StopGuardAnswers
<1>5. ASSUME NEW p \in Stoppers, FinishStop(p)
      PROVE  NoCall
  BY <1>0, <1>2, <1>5 DEF FinishStop, Leave, Handling
<1>6. ASSUME NEW h \in Sleepers, HibernatorTick(h) \/ Consider(h) \/ HibernatorGuard(h) \/ HibernateNext(h)
      PROVE  NoCall
  <2>1. \E stage \in {"considering", "off", "asking", "observed_idle"} : Goto(h, stage)
    BY <1>6 DEF HibernatorTick, Consider, HibernatorGuard, HibernateNext, NextTurn, Leave
  <2>2. /\ UNCHANGED <<row, disturbed>>
        /\ UNCHANGED tgt \/ \E r : tgt' = [tgt EXCEPT ![h] = r]
    BY <1>6 DEF HibernatorTick, Consider, HibernatorGuard, HibernateNext, Leave
  <2>3. QED
    BY <1>0, <1>2, <2>1, <2>2 DEF Handling
<1>7. ASSUME NEW h \in Sleepers, Hibernate(h)
      PROVE  NoCall \/ OneCall
  <2> DEFINE r == First(todo[h])
  <2>1. pc[h] \notin Handling /\ r \in Resources
    BY <1>0, <1>7, FirstIsListed DEF Hibernate, Handling
  <2>2. CASE Goto(h, "stopping") /\ CallStop(h, r)
    BY <1>0, <1>1, <2>1, <2>2
  <2>3. CASE NextTurn(h) /\ UNCHANGED <<row, tgt, disturbed>>
    BY <1>0, <1>2, <2>3 DEF NextTurn, Handling
  <2>4. QED
    BY <1>7, <2>2, <2>3 DEF Hibernate
<1>8. ASSUME NEW s \in Snaps, TakeHold(s) \/ QuiesceFails(s) \/ FinishCopy(s)
      PROVE  NoCall
  <2>1. \E stage \in {"cloning", "guarding", "resuming"} : Goto(s, stage)
    BY <1>8 DEF TakeHold, QuiesceFails, FinishCopy
  <2>2. UNCHANGED <<row, disturbed, tgt>>
    BY <1>8 DEF TakeHold, QuiesceFails, FinishCopy
  <2>3. QED
    BY <1>0, <1>2, <2>1, <2>2 DEF Handling
<1>9. ASSUME NEW s \in Snaps, QuiesceGuard(s)
      PROVE  NoCall \/ OneCall
  <2> DEFINE asked == done[s] \cup {First(todo[s])}
  <2>1. pc[s] \notin Handling /\ asked \subseteq Resources /\ asked # {}
    BY <1>0, <1>9, FirstIsListed DEF QuiesceGuard, Handling
  <2> HIDE DEF asked
  <2>2. First(asked) \in Resources
    BY <2>1, FirstIsListed
  <2>3. CASE StopNext(s, asked)
    BY <1>0, <1>1, <2>1, <2>2, <2>3 DEF StopNext
  <2>4. CASE UNCHANGED <<row, tgt, disturbed>> /\ (UNCHANGED pc \/ Goto(s, "resuming"))
    BY <1>0, <1>2, <2>4 DEF NoCall, Handling
  <2>5. QED
    BY <1>9, <2>3, <2>4 DEF QuiesceGuard, asked
<1>10. ASSUME NEW s \in Snaps, QuiesceStopped(s)
       PROVE  NoCall \/ OneCall
  <2> DEFINE rest == todo[s] \ {First(todo[s])}
  <2>1. pc[s] \notin Handling /\ rest \subseteq Resources
    BY <1>0, <1>10 DEF QuiesceStopped, Handling
  <2>2. CASE rest # {} /\ StopNext(s, rest)
    <3>1. First(rest) \in Resources
      BY <2>1, <2>2, FirstIsListed
    <3>2. QED
      BY <1>0, <1>1, <2>1, <2>2, <3>1 DEF StopNext
  <2>3. CASE Goto(s, "cloning") /\ UNCHANGED <<row, tgt, disturbed>>
    BY <1>0, <1>2, <2>3 DEF Handling
  <2>4. QED
    BY <1>10, <2>2, <2>3 DEF QuiesceStopped
<1>11. ASSUME NEW s \in Snaps, Resume(s)
       PROVE  OneCall
  <2>1. pc[s] \notin Handling /\ s \in Actors /\ Last(done[s]) \in Resources
    BY <1>0, <1>11, LastIsListed DEF Resume, Resuming, Handling
  <2>2. Call(s, Last(done[s]), "starting")
    BY <1>11, <2>1 DEF Resume, CallStart, Call
  <2>3. QED
    BY <1>0, <2>1, <2>2 DEF OneCall
<1>12. ASSUME NEW s \in Snaps, Release(s)
       PROVE  NoCall
  BY <1>0, <1>12 DEF Release, NoCall, Handling
<1>13. QED
  BY <1>3, <1>4, <1>5, <1>6, <1>7, <1>8, <1>9, <1>10, <1>11, <1>12
     DEF StopStep, SleepStep, SnapStep

LEMMA ActsCall ==
    ASSUME TypeInv, Acts
    PROVE  NoCall \/ OneCall
  BY WakesCall, LoopsCall DEF Acts

-----------------------------------------------------------------------------
(* What the daemon believes.                                               *)

\* While a restarted daemon reconciles nobody else works, and what it has just
\* observed of a resource is so unless the resource was disturbed; so is every
\* resource that a docker command of the dead daemon may still reach.
Reconciling ==
    /\ pc[Reconciler] \in {"off", "inspecting", "saw_stopped", "saw_booting", "saw_ready"}
    /\ pc[Reconciler] # "off" => ~serving
    /\ ~serving => \A p \in Actors \ {Reconciler} : pc[p] = "off"
    /\ \A o \in orphans : o[2] \in disturbed
    /\ First(todo[Reconciler]) \in Resources \ disturbed =>
          /\ pc[Reconciler] = "saw_stopped" => ~Up(First(todo[Reconciler]))
          /\ pc[Reconciler] = "saw_ready" => box[First(todo[Reconciler])] = "ready"

\* A handler is alone at a resource that is not disturbed, finds the label it wrote
\* when it was called, and has seen what it is about to report.
AloneAtWork(p) ==
    pc[p] \in Handling /\ tgt[p] \notin disturbed =>
        /\ row[tgt[p]] = IF pc[p] \in StartStages THEN "starting" ELSE "stopping"
        /\ pc[p] = "answered" => box[tgt[p]] = "ready"
        /\ pc[p] = "halted" => ~Up(tgt[p])
        /\ \A q \in Actors \ {p} : ~InHandler(q, tgt[p])

AtWork == \A p \in Actors : AloneAtWork(p)

\* A session that is served is served by a container that is up, and counted.
Sessions ==
    \A c \in backend :
        /\ attached[c] \in Resources /\ Up(attached[c])
        /\ attached[c] \notin disturbed => c \in live[attached[c]]

Beliefs == Reconciling /\ AtWork /\ UndisturbedLabelsAreTrue /\ Sessions

\* Nobody acts but on a daemon that serves, and acting is not handling.
LEMMA ActsServe ==
    ASSUME TypeInv, Reconciling, Acts
    PROVE  serving /\ pc'[Reconciler] = "off" /\ UNCHANGED Outside
<1>0. /\ Reconciler \in Actors
      /\ Resources \cup Starters \cup Stoppers \cup Sleepers \cup Snaps \subseteq Actors \ {Reconciler}
      /\ \A r \in Resources : NeedsDb(r) => Bound[r] # Reconciler
  BY DistinctNames DEF Actors, Wakes, NeedsDb
<1>1. ASSUME NEW p \in Actors \ {Reconciler}, pc[p] # "off"
      PROVE  serving
  BY <1>1 DEF Reconciling
<1>2. ASSUME NEW p \in Resources \cup Starters, NEW r \in Resources, Proceed(p, r)
      PROVE  pc'[Reconciler] = pc[Reconciler]
  BY <1>0, <1>2 DEF Proceed, StartWithoutDb, JoinDbWake, DbIsRefused, StartDbWake, Leave
<1>3. ASSUME NEW r \in Resources, RequestWake(r) \/ WakeStep(r)
      PROVE  serving /\ pc'[Reconciler] = "off" /\ UNCHANGED Outside
  <2>1. serving
    BY <1>0, <1>1, <1>3 DEF RequestWake, WakeStep, PassFence, AfterDb, FinishWake
  <2>2. pc[Reconciler] = "off"
    BY <2>1 DEF Reconciling
  <2>3. UNCHANGED Outside
    BY <1>3 DEF RequestWake, WakeStep, PassFence, AfterDb, FinishWake, Outside
  <2>4. CASE RequestWake(r) \/ PassFence(r)
    BY <1>0, <1>2, <2>1, <2>2, <2>3, <2>4 DEF RequestWake, PassFence, WaitForFence, SettleWake
  <2>5. CASE AfterDb(r) \/ FinishWake(r)
    BY <1>0, <2>1, <2>2, <2>3, <2>5 DEF AfterDb, FinishWake, Leave, SettleWake
  <2>6. QED
    BY <1>3, <2>1, <2>3, <2>4, <2>5 DEF WakeStep
<1>4. ASSUME NEW p \in Starters, StartStep(p) \/ \E r \in Resources : RequestStart(p, r)
      PROVE  serving /\ pc'[Reconciler] = "off" /\ UNCHANGED Outside
  <2>1. serving
    BY <1>0, <1>1, <1>4 DEF RequestStart, StartStep, StartPastFence, AfterDb, FinishStart
  <2>2. pc[Reconciler] = "off"
    BY <2>1 DEF Reconciling
  <2>3. UNCHANGED Outside
    BY <1>4 DEF RequestStart, StartStep, StartPastFence, AfterDb, FinishStart, Outside
  <2>4. CASE StartPastFence(p)
    BY <1>0, <1>2, <2>1, <2>2, <2>3, <2>4 DEF StartPastFence
  <2>5. ASSUME NEW r \in Resources, RequestStart(p, r) PROVE pc'[Reconciler] = "off"
    BY <1>0, <1>2, <2>2, <2>5 DEF RequestStart, WaitForFence
  <2>6. CASE AfterDb(p) \/ FinishStart(p)
    BY <1>0, <2>1, <2>2, <2>3, <2>6 DEF AfterDb, FinishStart, Leave
  <2>7. QED
    BY <1>4, <2>1, <2>3, <2>4, <2>5, <2>6 DEF StartStep
<1>5. ASSUME NEW p \in Stoppers \cup Sleepers \cup Snaps,
             \/ p \in Stoppers /\ (StopStep(p) \/ \E r \in Resources : RequestStop(p, r))
             \/ p \in Sleepers /\ (HibernatorTick(p) \/ SleepStep(p))
             \/ p \in Snaps /\ (TakeHold(p) \/ SnapStep(p))
      PROVE  serving /\ pc'[Reconciler] = "off" /\ UNCHANGED Outside
  <2>1. serving
    BY <1>0, <1>1, <1>5
       DEF RequestStop, StopStep, StopGuardAnswers, FinishStop, HibernatorTick, SleepStep,
           Consider, HibernatorGuard, Hibernate, HibernateNext, TakeHold, SnapStep,
           QuiesceGuard, QuiesceStopped, QuiesceFails, FinishCopy, Resume, Resuming, Release
  <2>2. pc[Reconciler] = "off"
    BY <2>1 DEF Reconciling
  <2>3. UNCHANGED Outside
    BY <1>5
       DEF RequestStop, StopStep, StopGuardAnswers, FinishStop, HibernatorTick, SleepStep,
           Consider, HibernatorGuard, Hibernate, HibernateNext, TakeHold, SnapStep,
           QuiesceGuard, QuiesceStopped, QuiesceFails, FinishCopy, Resume, Release, Outside
  <2>4. CASE p \in Snaps /\ Release(p)
    BY <1>0, <2>1, <2>2, <2>3, <2>4 DEF Release
  <2>5. UNCHANGED pc \/ (\E stage : Goto(p, stage)) \/ (p \in Snaps /\ Release(p))
    BY <1>5
       DEF RequestStop, StopStep, StopGuardAnswers, FinishStop, HibernatorTick, SleepStep,
           Consider, HibernatorGuard, Hibernate, HibernateNext, TakeHold, SnapStep,
           QuiesceGuard, QuiesceStopped, QuiesceFails, FinishCopy, Resume, NextTurn, Leave,
           StopNext
  <2>6. QED
    BY <1>0, <2>1, <2>2, <2>3, <2>4, <2>5
<1>6. QED
  BY <1>3, <1>4, <1>5 DEF Acts

\* Calling a handler writes a label that says nothing yet; a second call at the same
\* resource disturbs it.
LEMMA CallsKeepBeliefs ==
    ASSUME TypeInv, Beliefs, serving, pc'[Reconciler] = "off", UNCHANGED Outside, NoCall \/ OneCall
    PROVE  Beliefs'
<1>0. disturbed \subseteq disturbed'
  BY DEF NoCall, OneCall, Call
<1>1. Reconciling'
  BY <1>0 DEF Beliefs, Reconciling, Outside
<1>2. Sessions'
  BY <1>0 DEF Beliefs, Sessions, Outside, Up
<1>3. CASE NoCall
  <2>1. AtWork'
    BY <1>3 DEF Beliefs, AtWork, AloneAtWork, NoCall, Handling, InHandler, Outside, Up
  <2>2. UndisturbedLabelsAreTrue'
    BY <1>3 DEF Beliefs, UndisturbedLabelsAreTrue, LabelIsTrue, NoCall, Outside, Up
  <2>3. QED
    BY <1>1, <1>2, <2>1, <2>2 DEF Beliefs
<1>4. ASSUME NEW q \in Actors, NEW r \in Resources, NEW stage \in {"starting", "stopping"},
             Call(q, r, stage)
      PROVE  Beliefs'
  <2>1. UndisturbedLabelsAreTrue'
    BY <1>0, <1>4 DEF Beliefs, UndisturbedLabelsAreTrue, LabelIsTrue, Call, Outside, Up
  <2>2. ASSUME NEW p \in Actors, pc'[p] \in Handling, tgt'[p] \notin disturbed'
        PROVE  /\ row'[tgt'[p]] = IF pc'[p] \in StartStages THEN "starting" ELSE "stopping"
               /\ pc'[p] = "answered" => box'[tgt'[p]] = "ready"
               /\ pc'[p] = "halted" => box'[tgt'[p]] = "down"
               /\ \A o \in Actors \ {p} : pc'[o] \in Handling => tgt'[o] # tgt'[p]
    <3>1. CASE p = q
      <4>1. tgt'[p] = r /\ ~Busy(r) /\ pc'[p] = stage
        BY <1>4, <2>2, <3>1 DEF Call
      <4>2. \A o \in Actors \ {p} : pc'[o] \in Handling => tgt'[o] # tgt'[p]
        BY <1>4, <3>1, <4>1 DEF Call, Busy, InHandler, Handling
      <4>3. row'[r] = stage
        BY <1>4 DEF Call
      <4>4. QED
        BY <4>1, <4>2, <4>3 DEF Handling
    <3>2. CASE p # q
      <4>1. pc[p] = pc'[p] /\ tgt[p] = tgt'[p]
        BY <1>4, <2>2, <3>2 DEF Call
      <4>2. InHandler(p, tgt[p]) /\ tgt[p] \in Resources
        BY <2>2, <4>1 DEF InHandler, Handling
      <4>3. r # tgt[p]
        BY <1>4, <2>2, <4>1, <4>2 DEF Call, Busy
      <4>4. \A o \in Actors \ {p} : ~InHandler(o, tgt[p])
        BY <1>0, <2>2, <4>1 DEF Beliefs, AtWork, AloneAtWork
      <4>5. \A o \in Actors \ {p} : pc'[o] \in Handling => tgt'[o] # tgt'[p]
        BY <1>4, <4>1, <4>3, <4>4 DEF Call, InHandler, Handling
      <4>6. row'[tgt[p]] = row[tgt[p]]
        BY <1>4, <4>3 DEF Call
      <4>7. QED
        BY <1>0, <2>2, <4>1, <4>5, <4>6 DEF Beliefs, AtWork, AloneAtWork, Outside, Up, Handling
    <3>3. QED
      BY <3>1, <3>2
  <2>3. AtWork'
    BY <2>2 DEF AtWork, AloneAtWork, InHandler, Handling, Up
  <2>4. QED
    BY <1>1, <1>2, <2>1, <2>3 DEF Beliefs
<1>5. QED
  BY <1>3, <1>4 DEF OneCall, Callers, Actors, Wakes

\* What a handler changes is at the resource it works on.
LEMMA HandlerFrame ==
    ASSUME TypeInv, Beliefs, NEW p \in Actors, HandlerStep(p)
    PROVE  /\ pc[p] \in Handling /\ tgt[p] \in Resources
           /\ Reconciling'
           /\ \A r \in Resources \ {tgt[p]} :
                 row'[r] = row[r] /\ box'[r] = box[r] /\ live'[r] = live[r]
           /\ UNCHANGED <<attached, tgt, disturbed>>
           /\ \A q \in Actors \ {p} : pc'[q] = pc[q]
<1>1. pc[p] \in Handling
  BY DEF HandlerStep, DockerStart, Probe, StopAfterFailedStart, ReportFailedStart, DockerStop,
         ReportStarted, ReportStopped, Handling
<1>2. tgt[p] \in Resources
  BY <1>1 DEF Handling
<1>3. UNCHANGED <<attached, tgt, disturbed, orphans, serving, todo>>
  BY DEF HandlerStep
<1>4. \E stage \in Stages : Goto(p, stage)
  BY DEF HandlerStep, DockerStart, Probe, StopAfterFailedStart, ReportFailedStart, DockerStop,
         ReportStarted, ReportStopped
<1>5. Reconciler \in Actors /\ Reconciler # p
  BY <1>1 DEF Beliefs, Reconciling, Handling, Actors
<1>6. serving /\ pc[Reconciler] = "off"
  BY <1>1, <1>5 DEF Beliefs, Reconciling, Handling
<1>7. Reconciling'
  BY <1>3, <1>4, <1>5, <1>6 DEF Beliefs, Reconciling
<1>8. \A r \in Resources \ {tgt[p]} : row'[r] = row[r]
  BY <1>2 DEF HandlerStep, DockerStart, Probe, StopAfterFailedStart, ReportFailedStart, DockerStop,
         ReportStarted, ReportStopped
<1>9. \A r \in Resources \ {tgt[p]} : box'[r] = box[r]
  BY <1>2 DEF HandlerStep, DockerStart, Probe, StopAfterFailedStart, ReportFailedStart, DockerStop,
         ReportStarted, ReportStopped, TakeDown
<1>10. \A r \in Resources \ {tgt[p]} : live'[r] = live[r]
  BY <1>2 DEF HandlerStep, ReportStarted, ReportStopped
<1>11. QED
  BY <1>1, <1>2, <1>3, <1>4, <1>7, <1>8, <1>9, <1>10

\* So the others find their resources as they were: what is left to look at is p's.
LEMMA HandlerKeepsOthers ==
    ASSUME TypeInv, Beliefs, NEW p \in Actors, HandlerStep(p),
           AloneAtWork(p)',
           tgt[p] \notin disturbed => LabelIsTrue(tgt[p])',
           Sessions'
    PROVE  Beliefs'
<1> DEFINE r == tgt[p]
<1>0. /\ pc[p] \in Handling /\ r \in Resources
      /\ Reconciling'
      /\ \A q \in Resources \ {r} : row'[q] = row[q] /\ box'[q] = box[q]
      /\ UNCHANGED <<tgt, disturbed>>
      /\ \A q \in Actors \ {p} : pc'[q] = pc[q]
  BY HandlerFrame
<1>1. ASSUME NEW q \in Actors, q # p, pc'[q] \in Handling, tgt'[q] \notin disturbed'
      PROVE  AloneAtWork(q)'
  <2>1. pc[q] \in Handling /\ pc'[q] = pc[q] /\ tgt'[q] = tgt[q] /\ tgt[q] \notin disturbed
    BY <1>0, <1>1
  <2>2. ~InHandler(p, tgt[q]) /\ AloneAtWork(q)
    BY <2>1, <1>1 DEF Beliefs, AtWork, AloneAtWork
  <2>3. tgt[q] # r /\ tgt[q] \in Resources
    BY <1>0, <2>1, <2>2 DEF InHandler, Handling
  <2>4. \A o \in Actors \ {q} : ~InHandler(o, tgt[q])'
    BY <1>0, <2>1, <2>2, <2>3 DEF AloneAtWork, InHandler
  <2>5. QED
    BY <1>0, <2>1, <2>2, <2>3, <2>4 DEF AloneAtWork, Up
<1>2. AtWork'
  BY <1>1 DEF AtWork, AloneAtWork
<1>3. UndisturbedLabelsAreTrue'
  BY <1>0 DEF Beliefs, UndisturbedLabelsAreTrue, LabelIsTrue, Up
<1>4. QED
  BY <1>0, <1>2, <1>3 DEF Beliefs

\* Sessions outlive every step that takes no container down without them.
LEMMA SessionsLast ==
    ASSUME TypeInv, Sessions, UNCHANGED <<attached, live, disturbed>>,
           \/ UNCHANGED backend /\ \A r \in Resources : Up(r) => box'[r] # "down"
           \/ \E r \in Resources : TakeDown(r)
    PROVE  Sessions'
<1>1. CASE UNCHANGED backend /\ \A r \in Resources : Up(r) => box'[r] # "down"
  BY <1>1 DEF Sessions, Up
<1>2. ASSUME NEW r \in Resources, TakeDown(r)
      PROVE  Sessions'
  BY <1>2 DEF TakeDown, Sessions, Up
<1>3. QED
  BY <1>1, <1>2

\* A handler reports what it has seen.
LEMMA HandlerKeepsBeliefs ==
    ASSUME TypeInv, Beliefs, NEW p \in Actors, HandlerStep(p)
    PROVE  Beliefs'
<1> DEFINE r == tgt[p]
<1>0. /\ pc[p] \in Handling /\ r \in Resources
      /\ UNCHANGED <<attached, tgt, disturbed>>
      /\ \A q \in Actors \ {p} : pc'[q] = pc[q]
  BY HandlerFrame
<1>1. AloneAtWork(p) /\ Sessions
  BY DEF Beliefs, AtWork
<1>2. r \notin disturbed => \A q \in Actors \ {p} : ~InHandler(q, r)'
  BY <1>0, <1>1 DEF AloneAtWork, InHandler
<1>3. CASE DockerStart(p) /\ UNCHANGED <<live, idle>>
  <2>1. Sessions'
    BY <1>0, <1>1, <1>3, SessionsLast DEF DockerStart, Up
  <2>2. AloneAtWork(p)'
    BY <1>0, <1>1, <1>2, <1>3 DEF DockerStart, AloneAtWork, Up, Handling
  <2>3. r \notin disturbed => LabelIsTrue(r)'
    BY <1>0, <1>1, <1>3 DEF DockerStart, AloneAtWork, LabelIsTrue, Handling
  <2>4. QED
    BY <1>0, <2>1, <2>2, <2>3, HandlerKeepsOthers
<1>4. CASE Probe(p) /\ UNCHANGED <<live, idle>>
  <2>1. Sessions'
    BY <1>0, <1>1, <1>4, SessionsLast DEF Probe, Up
  <2>2. AloneAtWork(p)'
    BY <1>0, <1>1, <1>2, <1>4 DEF Probe, AloneAtWork, Up, Handling
  <2>3. r \notin disturbed => LabelIsTrue(r)'
    BY <1>0, <1>1, <1>4 DEF Probe, AloneAtWork, LabelIsTrue, Handling
  <2>4. QED
    BY <1>0, <2>1, <2>2, <2>3, HandlerKeepsOthers
<1>5. CASE StopAfterFailedStart(p) /\ UNCHANGED <<live, idle>>
  <2>1. Sessions'
    BY <1>0, <1>1, <1>5, SessionsLast DEF StopAfterFailedStart, Up
  <2>2. AloneAtWork(p)'
    BY <1>0, <1>1, <1>2, <1>5 DEF StopAfterFailedStart, AloneAtWork, Up, Handling
  <2>3. r \notin disturbed => LabelIsTrue(r)'
    BY <1>0, <1>1, <1>5 DEF StopAfterFailedStart, AloneAtWork, LabelIsTrue, Handling
  <2>4. QED
    BY <1>0, <2>1, <2>2, <2>3, HandlerKeepsOthers
<1>6. CASE ReportFailedStart(p) /\ UNCHANGED <<live, idle>>
  <2>1. Sessions'
    BY <1>0, <1>1, <1>6, SessionsLast DEF ReportFailedStart, Up
  <2>2. AloneAtWork(p)'
    BY <1>0, <1>6 DEF ReportFailedStart, AloneAtWork, Handling
  <2>3. r \notin disturbed => LabelIsTrue(r)'
    BY <1>0, <1>6 DEF ReportFailedStart, LabelIsTrue
  <2>4. QED
    BY <1>0, <2>1, <2>2, <2>3, HandlerKeepsOthers
<1>7. CASE DockerStop(p) /\ UNCHANGED <<live, idle>>
  <2>1. Sessions'
    BY <1>0, <1>1, <1>7, SessionsLast DEF DockerStop, Up
  <2>2. AloneAtWork(p)'
    BY <1>0, <1>1, <1>2, <1>7 DEF DockerStop, TakeDown, AloneAtWork, Up, Handling
  <2>3. r \notin disturbed => LabelIsTrue(r)'
    BY <1>0, <1>1, <1>7 DEF DockerStop, AloneAtWork, LabelIsTrue, Handling
  <2>4. QED
    BY <1>0, <2>1, <2>2, <2>3, HandlerKeepsOthers
<1>8. CASE ReportStarted(p)
  <2>1. Sessions'
    BY <1>0, <1>1, <1>8, SessionsLast DEF ReportStarted, Up
  <2>2. AloneAtWork(p)'
    BY <1>0, <1>8 DEF ReportStarted, AloneAtWork, Handling
  <2>3. r \notin disturbed => LabelIsTrue(r)'
    BY <1>0, <1>1, <1>8 DEF ReportStarted, AloneAtWork, LabelIsTrue, Handling
  <2>4. QED
    BY <1>0, <2>1, <2>2, <2>3, HandlerKeepsOthers
<1>9. CASE ReportStopped(p)
  <2>1. r \notin disturbed => ~Up(r)
    BY <1>0, <1>1, <1>9 DEF ReportStopped, AloneAtWork
  <2>2. Sessions'
    BY <1>0, <1>1, <1>9, <2>1 DEF ReportStopped, Sessions, Up
  <2>3. AloneAtWork(p)'
    BY <1>0, <1>9 DEF ReportStopped, AloneAtWork, Handling
  <2>4. r \notin disturbed => LabelIsTrue(r)'
    BY <1>0, <1>9, <2>1 DEF ReportStopped, LabelIsTrue, Up
  <2>5. QED
    BY <1>0, <2>2, <2>3, <2>4, HandlerKeepsOthers
<1>10. QED
  BY <1>3, <1>4, <1>5, <1>6, <1>7, <1>8, <1>9 DEF HandlerStep

\* Containers boot, die and are reached through sessions; nobody's label turns false by
\* it, where the container was not changed behind the daemon's back.
LEMMA OutsideKeepsBeliefs ==
    ASSUME TypeInv, Beliefs, World \/ \E c \in Clients, r \in Resources : OpenSession(c, r)
    PROVE  Beliefs'
<1>0. Reconciling /\ AtWork /\ UndisturbedLabelsAreTrue /\ Sessions
  BY DEF Beliefs
<1>1. ASSUME NEW r \in Resources, Boots(r)
      PROVE  Beliefs'
  <2>1. /\ box' = [box EXCEPT ![r] = "ready"] /\ box[r] = "booting"
        /\ UNCHANGED <<row, backend, attached, orphans, live, pc, tgt, todo, serving, disturbed>>
    BY <1>1 DEF Boots
  <2>2. Sessions'
    BY <1>0, <2>1, SessionsLast DEF Up
  <2>3. Reconciling'
    BY <1>0, <2>1 DEF Reconciling, Up
  <2>4. AtWork'
    BY <1>0, <2>1 DEF AtWork, AloneAtWork, InHandler, Up, Handling
  <2>5. UndisturbedLabelsAreTrue'
    BY <1>0, <2>1 DEF UndisturbedLabelsAreTrue, LabelIsTrue, Up
  <2>6. QED
    BY <2>2, <2>3, <2>4, <2>5 DEF Beliefs
<1>2. ASSUME NEW r \in Resources, ContainerDies(r)
      PROVE  Beliefs'
  <2>1. /\ TakeDown(r) /\ disturbed' = disturbed \cup {r}
        /\ UNCHANGED <<row, attached, orphans, live, pc, tgt, todo, serving>>
    BY <1>2 DEF ContainerDies
  <2>2. Sessions'
    BY <1>0, <2>1 DEF TakeDown, Sessions, Up
  <2>3. Reconciling'
    BY <1>0, <2>1 DEF TakeDown, Reconciling, Up
  <2>4. AtWork'
    BY <1>0, <2>1 DEF TakeDown, AtWork, AloneAtWork, InHandler, Up, Handling
  <2>5. UndisturbedLabelsAreTrue'
    BY <1>0, <2>1 DEF TakeDown, UndisturbedLabelsAreTrue, LabelIsTrue, Up
  <2>6. QED
    BY <2>2, <2>3, <2>4, <2>5 DEF Beliefs
<1>3. ASSUME NEW r \in Resources, TimePasses(r) \/ RefusalLapses(r)
      PROVE  Beliefs'
  <2>1. UNCHANGED <<row, box, backend, attached, orphans, live, pc, tgt, todo, serving, disturbed>>
    BY <1>3 DEF TimePasses, RefusalLapses, world
  <2>2. QED
    BY <1>0, <2>1 DEF Beliefs, Reconciling, AtWork, AloneAtWork, InHandler, Handling,
                      UndisturbedLabelsAreTrue, LabelIsTrue, Sessions, Up
<1>4. ASSUME NEW c \in Clients, UNCHANGED <<row, box, orphans, pc, tgt, todo, serving, disturbed>>,
             Sessions'
      PROVE  Beliefs'
  BY <1>0, <1>4 DEF Beliefs, Reconciling, AtWork, AloneAtWork, InHandler, Handling,
                    UndisturbedLabelsAreTrue, LabelIsTrue, Up
<1>5. ASSUME NEW c \in Clients, NEW r \in Resources, OpenSession(c, r)
      PROVE  Beliefs'
  <2>1. Sessions'
    BY <1>0, <1>5 DEF OpenSession, Sessions, Up
  <2>2. QED
    BY <1>4, <1>5, <2>1 DEF OpenSession
<1>6. ASSUME NEW c \in Clients, CloseSession(c)
      PROVE  Beliefs'
  <2>1. Sessions'
    BY <1>0, <1>6 DEF CloseSession, Sessions, Up
  <2>2. QED
    BY <1>4, <1>6, <2>1 DEF CloseSession
<1>7. QED
  BY <1>1, <1>2, <1>3, <1>5, <1>6 DEF World

\* A daemon that dies forgets its sessions, and the one after it corrects every label
\* to what it observes.
LEMMA RestartKeepsBeliefs ==
    ASSUME TypeInv, Beliefs, Restart
    PROVE  Beliefs'
<1>0. Reconciling /\ AtWork /\ UndisturbedLabelsAreTrue /\ Sessions
  BY DEF Beliefs
<1>00. Reconciler \in Actors
  BY DEF Actors
<1>1. CASE Crash
  <2>1. /\ pc' = [p \in Actors |-> IF p = Reconciler THEN "inspecting" ELSE "off"]
        /\ disturbed' = disturbed \cup {o[2] : o \in orphans'}
        /\ serving' = FALSE /\ backend' = {} /\ UNCHANGED <<row, box>>
    BY <1>1 DEF Crash
  <2>2. Reconciling'
    BY <1>00, <2>1 DEF Reconciling
  <2>3. AtWork'
    BY <1>00, <2>1 DEF AtWork, AloneAtWork, Handling
  <2>4. UndisturbedLabelsAreTrue'
    BY <1>0, <2>1 DEF UndisturbedLabelsAreTrue, LabelIsTrue, Up
  <2>5. Sessions'
    BY <2>1 DEF Sessions
  <2>6. QED
    BY <2>2, <2>3, <2>4, <2>5 DEF Beliefs
<1>2. CASE Inspect(Reconciler)
  <2>1. /\ \E stage \in {"saw_stopped", "saw_booting", "saw_ready"} : Goto(Reconciler, stage)
        /\ pc[Reconciler] = "inspecting"
        /\ UNCHANGED <<row, box, backend, attached, orphans, live, tgt, todo, serving, disturbed>>
    BY <1>2 DEF Inspect
  <2>2. Reconciling'
    BY <1>0, <1>00, <1>2, <2>1 DEF Inspect, Reconciling, Up
  <2>3. AtWork'
    BY <1>0, <1>00, <2>1 DEF AtWork, AloneAtWork, InHandler, Handling, Up
  <2>4. UndisturbedLabelsAreTrue' /\ Sessions'
    BY <1>0, <2>1 DEF UndisturbedLabelsAreTrue, LabelIsTrue, Up, Sessions
  <2>5. QED
    BY <2>2, <2>3, <2>4 DEF Beliefs
<1>3. CASE Correct(Reconciler)
  <2> DEFINE r == First(todo[Reconciler])
             corrected == CorrectedState(row[r], pc[Reconciler])
  <2>1. /\ row' = [row EXCEPT ![r] = corrected]
        /\ pc[Reconciler] \in {"saw_stopped", "saw_booting", "saw_ready"}
        /\ \E stage \in {"off", "inspecting"} : Goto(Reconciler, stage)
        /\ UNCHANGED <<box, backend, attached, orphans, live, tgt, disturbed>>
    BY <1>3 DEF Correct, CorrectRow
  <2>2. \A p \in Actors : pc[p] \notin Handling /\ pc'[p] \notin Handling
    BY <1>0, <1>00, <2>1 DEF Reconciling, Handling
  <2>3. AtWork'
    BY <2>2 DEF AtWork, AloneAtWork
  <2>4. Reconciling'
    <3>1. ~serving
      BY <1>0, <2>1 DEF Reconciling
    <3>2. \/ Goto(Reconciler, "off") /\ serving' = TRUE
          \/ Goto(Reconciler, "inspecting") /\ serving' = serving
      BY <1>3 DEF Correct
    <3>3. \A p \in Actors \ {Reconciler} : pc'[p] = pc[p]
      BY <2>1
    <3>4. QED
      BY <1>0, <1>00, <2>1, <3>1, <3>2, <3>3 DEF Reconciling
  <2>5. r \in Resources \ disturbed =>
            /\ corrected = "sleeping" => ~Up(r)
            /\ corrected = "running" => box[r] = "ready"
    BY <1>0, <2>1 DEF Reconciling, CorrectedState
  <2> HIDE DEF r, corrected
  <2>6. UndisturbedLabelsAreTrue'
    BY <1>0, <2>1, <2>5 DEF UndisturbedLabelsAreTrue, LabelIsTrue, Up
  <2>7. Sessions'
    BY <1>0, <2>1 DEF Sessions, Up
  <2>8. QED
    BY <2>3, <2>4, <2>6, <2>7 DEF Beliefs
<1>4. ASSUME NEW o \in orphans, OrphanTakesEffect(o)
      PROVE  Beliefs'
  <2>1. o[2] \in Resources /\ o[2] \in disturbed
    BY <1>0 DEF Reconciling
  <2>2. /\ UNCHANGED <<row, attached, live, pc, tgt, todo, serving, disturbed>>
        /\ orphans' \subseteq orphans
        /\ \A r \in Resources \ {o[2]} : box'[r] = box[r]
    BY <1>4, <2>1 DEF OrphanTakesEffect, TakeDown
  <2>3. Sessions'
    BY <1>0, <1>4, <2>1, <2>2, SessionsLast DEF OrphanTakesEffect, Up
  <2>4. Reconciling'
    BY <1>0, <2>1, <2>2 DEF Reconciling, Up
  <2>5. AtWork'
    BY <1>0, <2>1, <2>2 DEF AtWork, AloneAtWork, InHandler, Handling, Up
  <2>6. UndisturbedLabelsAreTrue'
    BY <1>0, <2>1, <2>2 DEF UndisturbedLabelsAreTrue, LabelIsTrue, Up
  <2>7. QED
    BY <2>3, <2>4, <2>5, <2>6 DEF Beliefs
<1>5. QED
  BY <1>1, <1>2, <1>3, <1>4 DEF Restart

LEMMA InitBeliefs ==
    ASSUME Init
    PROVE  Beliefs
  BY DistinctNames DEF Init, Beliefs, Reconciling, AtWork, AloneAtWork, UndisturbedLabelsAreTrue,
     LabelIsTrue, Sessions, Handling, Up, Actors

LEMMA BeliefsStay ==
    ASSUME TypeInv, Beliefs, [Next]_vars
    PROVE  Beliefs'
<1>1. CASE Acts
  <2>1. serving /\ pc'[Reconciler] = "off" /\ UNCHANGED Outside
    BY <1>1, ActsServe DEF Beliefs
  <2>2. QED
    BY <1>1, <2>1, ActsCall, CallsKeepBeliefs
<1>2. ASSUME NEW p \in Actors, ActorStep(p) PROVE Beliefs'
  BY <1>1, <1>2, HandlerKeepsBeliefs DEF ActorStep, Acts
<1>3. CASE Request
  BY <1>1, <1>3, OutsideKeepsBeliefs DEF Request, Acts
<1>4. CASE World
  BY <1>4, OutsideKeepsBeliefs
<1>5. CASE Restart
  BY <1>5, RestartKeepsBeliefs
<1>6. CASE UNCHANGED vars
  BY <1>6 DEF vars, Beliefs, Reconciling, AtWork, AloneAtWork, UndisturbedLabelsAreTrue,
     LabelIsTrue, Sessions, InHandler, Up
<1>7. QED
  BY <1>2, <1>3, <1>4, <1>5, <1>6 DEF Next

\* Where two handler calls never overlapped and the container never changed by itself,
\* a row that says sleeping has its container down and one that says running has it
\* answering, and every served session is counted: through every wake, stop, snapshot
\* and restore, every failure of docker, and every death and restart of the daemon.
THEOREM BeliefsTrue == Spec => []BeliefsAreTrue
<1>1. Init => Beliefs
  BY InitBeliefs
<1>2. TypeInv /\ Beliefs /\ [Next]_vars => Beliefs'
  BY BeliefsStay
<1>3. Beliefs => BeliefsAreTrue
  BY DEF Beliefs, Sessions, BeliefsAreTrue, SessionsAreCounted
<1>4. QED
  BY <1>1, <1>2, <1>3, TypeInvariant, PTL DEF Spec

-----------------------------------------------------------------------------
(* The copy of a snapshot.                                                 *)

\* A daemon that never died: nothing of another one is left, and only those who may
\* call a start handler are in one.
Calm ==
    /\ serving /\ orphans = {} /\ pc[Reconciler] = "off"
    /\ \A p \in Stoppers \cup Sleepers : pc[p] \notin StartStages

Quiescing == {"guarding", "stopping", "halted", "stopped"}

Parked == \A p \in Wakes \cup Starters : pc[p] \in {"off", "fenced"}

\* From the hold to the end of the copy no start is under way but those that wait for
\* the fence, and what is still up is what the snapshot has still to stop.
GrowsCold(s) ==
    /\ Parked
    /\ pc[s] = "guarding" => \A r \in Resources : Up(r) => r \in todo[s] \cup done[s]
    /\ pc[s] \in {"stopping", "halted", "stopped"} =>
          /\ tgt[s] = First(todo[s])
          /\ \A r \in Resources : Up(r) => r \in todo[s]
    /\ pc[s] \in {"halted", "stopped"} => ~Up(tgt[s])
    /\ pc[s] = "cloning" => \A r \in Resources : ~Up(r)

QuietInv ==
    quiet => \A s \in Snaps : pc[s] \in Quiescing \cup {"cloning"} => GrowsCold(s)

LEMMA CalmStays ==
    ASSUME "daemon" \notin Faults, TypeInv, Calm, [Next]_vars
    PROVE  Calm'
<1>0. /\ Reconciler \in Actors /\ Stoppers \cup Sleepers \subseteq Actors
      /\ (Stoppers \cup Sleepers) \cap Callers = {}
      /\ Reconciler \notin Resources \cup Starters \cup Stoppers \cup Sleepers \cup Snaps
  BY DistinctNames DEF Actors, Callers, Wakes
<1>1. Reconciling
  BY DEF Calm, Reconciling
<1>2. CASE Acts
  <2>1. serving /\ pc'[Reconciler] = "off" /\ UNCHANGED Outside
    BY <1>1, <1>2, ActsServe
  <2>2. ASSUME NEW p \in Stoppers \cup Sleepers PROVE pc'[p] \notin StartStages
    <3>1. pc[p] \notin StartStages /\ p \in Actors /\ p \notin Callers
      BY <1>0 DEF Calm
    <3>2. CASE NoCall
      BY <3>1, <3>2 DEF NoCall, Handling
    <3>3. ASSUME NEW q \in Callers, NEW r \in Resources, Call(q, r, "starting")
          PROVE  pc'[p] \notin StartStages
      BY <3>1, <3>3 DEF Call, Handling
    <3>4. ASSUME NEW q \in Actors, NEW r \in Resources, Call(q, r, "stopping")
          PROVE  pc'[p] \notin StartStages
      BY <3>1, <3>4 DEF Call, Handling
    <3>5. QED
      BY <1>2, <3>2, <3>3, <3>4, ActsCall DEF OneCall
  <2>3. QED
    BY <2>1, <2>2 DEF Calm, Outside
<1>3. ASSUME NEW p \in Actors, HandlerStep(p) PROVE Calm'
  <2>1. /\ p # Reconciler /\ UNCHANGED <<orphans, serving>>
        /\ \E stage \in Stages :
              Goto(p, stage) /\ (stage \in StartStages => pc[p] \in StartStages)
    BY <1>3 DEF Calm, HandlerStep, DockerStart, Probe, StopAfterFailedStart, ReportFailedStart,
                DockerStop, ReportStarted, ReportStopped
  <2>2. QED
    BY <1>0, <2>1 DEF Calm
<1>4. ASSUME NEW p \in Actors, ActorStep(p) PROVE Calm'
  BY <1>2, <1>3, <1>4 DEF ActorStep, Acts
<1>5. ASSUME NEW c \in Clients, NEW r \in Resources, OpenSession(c, r) PROVE Calm'
  BY <1>5 DEF OpenSession, Calm
<1>6. CASE Request
  BY <1>2, <1>5, <1>6 DEF Request, Acts
<1>7. CASE World
  BY <1>7 DEF World, Boots, ContainerDies, TimePasses, RefusalLapses, CloseSession, Calm, world
<1>8. CASE Restart
  BY <1>8 DEF Restart, Crash, Inspect, Correct, Calm
<1>9. CASE UNCHANGED vars
  BY <1>9 DEF vars, Calm, world
<1>10. QED
  BY <1>4, <1>6, <1>7, <1>8, <1>9 DEF Next

\* What leaves a snapshot alone and takes nothing up.
LeavesCold(s) ==
    /\ pc'[s] = pc[s] /\ tgt'[s] = tgt[s] /\ todo'[s] = todo[s] /\ done'[s] = done[s]
    /\ \A r \in Resources : box'[r] # "down" => Up(r)
    /\ Parked'

LEMMA LeftCold ==
    ASSUME NEW s \in Snaps, GrowsCold(s), LeavesCold(s),
           pc[s] \in {"halted", "stopped"} => tgt[s] \in Resources
    PROVE  GrowsCold(s)'
  BY DEF GrowsCold, LeavesCold, Up

\* A snapshot at work is the one the hold names: no other is.
LEMMA OthersAreOff ==
    ASSUME Held, NEW s \in Snaps, pc[s] # "off"
    PROVE  hold = s /\ Fenced /\ \A t \in Snaps \ {s} : pc[t] = "off"
<1>1. Nobody \notin Snaps
  BY DistinctNames DEF Actors
<1>2. QED
  BY <1>1 DEF Held, Fenced

\* Handlers of others only stop what they work on.
LEMMA HandlerLeavesCold ==
    ASSUME TypeInv, Held, Calm, NEW s \in Snaps, pc[s] \in Quiescing \cup {"cloning"},
           GrowsCold(s), NEW p \in Actors \ {s}, HandlerStep(p)
    PROVE  LeavesCold(s)
<1>0. s \in Actors /\ Wakes \cup Starters \subseteq Actors
  BY DEF Actors
<1>1. pc[p] \in Handling
  BY HandlerSteps DEF Handling
<1>2. p \notin Snaps
  BY <1>1, OthersAreOff DEF Quiescing, Handling
<1>3. p \notin Wakes \cup Starters
  BY <1>1 DEF GrowsCold, Parked, Handling
<1>4. pc[p] \notin StartStages
  BY <1>1, <1>2, <1>3 DEF Calm, Actors, Handling
<1>5. DockerStop(p) \/ ReportStopped(p)
  BY <1>4 DEF HandlerStep, DockerStart, Probe, StopAfterFailedStart, ReportFailedStart,
              ReportStarted
<1>6. \E stage \in Stages : Goto(p, stage)
  BY <1>5 DEF DockerStop, ReportStopped
<1>7. \A r \in Resources : box'[r] # "down" => Up(r)
  BY <1>1, <1>5 DEF DockerStop, ReportStopped, TakeDown, Up, Handling
<1>8. UNCHANGED <<tgt, todo, done>>
  BY DEF HandlerStep
<1>9. Parked'
  BY <1>0, <1>3, <1>6 DEF GrowsCold, Parked
<1>10. QED
  BY <1>0, <1>6, <1>7, <1>8, <1>9 DEF LeavesCold

\* Wakes and start requests wait for the fence; stops, the hibernator and the world
\* outside take nothing up.
LEMMA OthersLeaveCold ==
    ASSUME TypeInv, Held, Calm, NEW s \in Snaps, pc[s] \in Quiescing \cup {"cloning"},
           GrowsCold(s),
           \/ \E r \in Resources : RequestWake(r) \/ WakeStep(r)
           \/ \E p \in Starters : StartStep(p) \/ \E r \in Resources : RequestStart(p, r)
           \/ \E p \in Stoppers : StopStep(p) \/ \E r \in Resources : RequestStop(p, r)
           \/ \E h \in Sleepers : HibernatorTick(h) \/ SleepStep(h)
    PROVE  LeavesCold(s)
<1>0. /\ s \in Actors /\ Wakes \cup Starters \subseteq Actors /\ Wakes = Resources
      /\ s \notin Wakes \cup Starters \cup Stoppers \cup Sleepers
      /\ (Wakes \cup Starters) \cap (Stoppers \cup Sleepers) = {}
  BY DistinctNames DEF Actors, Wakes
<1>1. Fenced /\ Parked
  BY OthersAreOff DEF GrowsCold, Quiescing
<1>2. ASSUME NEW p \in Wakes \cup Starters, NEW r \in Resources, WaitForFence(p, r),
             UNCHANGED <<box, loops>>
      PROVE  LeavesCold(s)
  BY <1>0, <1>1, <1>2 DEF WaitForFence, LeavesCold, Parked, Up
<1>3. ASSUME NEW r \in Resources, RequestWake(r)
      PROVE  LeavesCold(s)
  <2>1. WaitForFence(r, r) /\ UNCHANGED <<box, loops>>
    BY <1>1, <1>3 DEF RequestWake, world
  <2>2. QED
    BY <1>0, <1>2, <2>1
<1>4. ASSUME NEW p \in Starters, NEW r \in Resources, RequestStart(p, r)
      PROVE  LeavesCold(s)
  <2>1. WaitForFence(p, r) /\ UNCHANGED <<box, loops>>
    BY <1>1, <1>4 DEF RequestStart, world
  <2>2. QED
    BY <1>2, <2>1
<1>5. ASSUME NEW p \in Wakes \cup Starters
      PROVE  ~WakeStep(p) /\ ~StartStep(p)
  BY <1>1 DEF Parked, WakeStep, StartStep, PassFence, AfterDb, FinishWake, StartPastFence,
              FinishStart
<1>6. ASSUME NEW p \in Stoppers \cup Sleepers,
             \/ p \in Stoppers /\ (StopStep(p) \/ \E r \in Resources : RequestStop(p, r))
             \/ p \in Sleepers /\ (HibernatorTick(p) \/ SleepStep(p))
      PROVE  LeavesCold(s)
  <2>1. (\E stage : Goto(p, stage)) /\ (UNCHANGED tgt \/ \E r : tgt' = [tgt EXCEPT ![p] = r])
    BY <1>6
       DEF RequestStop, StopStep, StopGuardAnswers, FinishStop, HibernatorTick, SleepStep,
           Consider, HibernatorGuard, Hibernate, HibernateNext, NextTurn, Leave, CallStop
  <2>2. UNCHANGED <<box, done>> /\ (UNCHANGED todo \/ \E S : todo' = [todo EXCEPT ![p] = S])
    BY <1>6
       DEF RequestStop, StopStep, StopGuardAnswers, FinishStop, HibernatorTick, SleepStep,
           Consider, HibernatorGuard, Hibernate, HibernateNext, NextTurn, world
  <2>3. p # s /\ p \notin Wakes \cup Starters
    BY <1>0
  <2>4. Parked'
    BY <1>0, <1>1, <2>1, <2>3 DEF Parked
  <2>5. QED
    BY <1>0, <2>1, <2>2, <2>3, <2>4 DEF LeavesCold, Up
<1>7. QED
  BY <1>0, <1>3, <1>4, <1>5, <1>6

\* None of them takes a snapshot into its quiesce.
LEMMA OthersLeaveSnaps ==
    ASSUME TypeInv, NEW s \in Snaps, pc'[s] \in Quiescing \cup {"cloning"},
           \/ \E r \in Resources : RequestWake(r) \/ WakeStep(r)
           \/ \E p \in Starters : StartStep(p) \/ \E r \in Resources : RequestStart(p, r)
           \/ \E p \in Stoppers : StopStep(p) \/ \E r \in Resources : RequestStop(p, r)
           \/ \E h \in Sleepers : HibernatorTick(h) \/ SleepStep(h)
    PROVE  pc'[s] = pc[s] /\ quiet' = quiet
<1>0. /\ s \in Actors /\ s \notin Resources \cup Starters \cup Stoppers \cup Sleepers
      /\ Resources \cup Starters \subseteq Actors \ Snaps
  BY DistinctNames DEF Actors, Wakes
<1>1. ASSUME NEW p \in Resources \cup Starters, NEW r \in Resources, Proceed(p, r)
      PROVE  pc'[s] = pc[s]
  BY <1>0, <1>1, ProceedLeavesSnaps
<1>2. ASSUME NEW r \in Resources, RequestWake(r) \/ WakeStep(r)
      PROVE  pc'[s] = pc[s] /\ quiet' = quiet
  <2>1. quiet' = quiet
    BY <1>2 DEF RequestWake, WakeStep, PassFence, AfterDb, FinishWake
  <2>2. CASE RequestWake(r) \/ PassFence(r)
    BY <1>0, <1>1, <2>1, <2>2 DEF RequestWake, PassFence, WaitForFence, SettleWake, Quiescing
  <2>3. CASE AfterDb(r) \/ FinishWake(r)
    BY <1>0, <2>1, <2>3 DEF AfterDb, FinishWake, Leave, SettleWake, Quiescing
  <2>4. QED
    BY <1>2, <2>2, <2>3 DEF WakeStep
<1>3. ASSUME NEW p \in Starters, StartStep(p) \/ \E r \in Resources : RequestStart(p, r)
      PROVE  pc'[s] = pc[s] /\ quiet' = quiet
  <2>1. quiet' = quiet
    BY <1>3 DEF RequestStart, StartStep, StartPastFence, AfterDb, FinishStart
  <2>2. CASE StartPastFence(p)
    BY <1>0, <1>1, <2>1, <2>2 DEF StartPastFence
  <2>3. ASSUME NEW r \in Resources, RequestStart(p, r) PROVE pc'[s] = pc[s]
    BY <1>0, <1>1, <2>3 DEF RequestStart, WaitForFence
  <2>4. CASE AfterDb(p) \/ FinishStart(p)
    BY <1>0, <2>1, <2>4 DEF AfterDb, FinishStart, Leave
  <2>5. QED
    BY <1>3, <2>1, <2>2, <2>3, <2>4 DEF StartStep
<1>4. ASSUME NEW p \in Stoppers \cup Sleepers,
             \/ p \in Stoppers /\ (StopStep(p) \/ \E r \in Resources : RequestStop(p, r))
             \/ p \in Sleepers /\ (HibernatorTick(p) \/ SleepStep(p))
      PROVE  pc'[s] = pc[s] /\ quiet' = quiet
  <2>1. quiet' = quiet /\ \E stage : Goto(p, stage)
    BY <1>4
       DEF RequestStop, StopStep, StopGuardAnswers, FinishStop, HibernatorTick, SleepStep,
           Consider, HibernatorGuard, Hibernate, HibernateNext, NextTurn, Leave
  <2>2. QED
    BY <1>0, <2>1
<1>5. QED
  BY <1>2, <1>3, <1>4

\* A snapshot asks every guard, stops one resource after the other, and copies when the
\* last one is down.
LEMMA SnapshotGrowsCold ==
    ASSUME TypeInv, Held, QuietInv, NEW s \in Snaps, quiet',
           TakeHold(s) \/ SnapStep(s) \/ HandlerStep(s),
           pc'[s] \in Quiescing \cup {"cloning"}
    PROVE  GrowsCold(s)'
<1>0. s \in Actors /\ Wakes \cup Starters \subseteq Actors \ {s}
  BY DistinctNames DEF Actors, Wakes
<1>1. CASE TakeHold(s)
  <2>1. /\ todo'[s] = Running /\ NothingInFlight /\ UNCHANGED box
        /\ pc' = [pc EXCEPT ![s] = IF Running = {} THEN "cloning" ELSE "guarding"]
    BY <1>0, <1>1 DEF TakeHold, world
  <2>2. Parked'
    BY <1>0, <2>1 DEF NothingInFlight, Parked
  <2>3. \A r \in Resources : Up(r)' => r \in Running
    BY <2>1 DEF NothingInFlight, Running, Up
  <2>4. QED
    BY <1>0, <2>1, <2>2, <2>3 DEF GrowsCold
<1>2. CASE QuiesceGuard(s)
  <2> DEFINE r == First(todo[s])
             asked == done[s] \cup {r}
  <2>1. GrowsCold(s) /\ pc[s] = "guarding" /\ UNCHANGED box
    BY <1>2 DEF QuiesceGuard, QuietInv, Quiescing, world
  <2>2. asked \subseteq Resources /\ r \in todo[s]
    BY <1>0, <2>1, FirstIsListed
  <2> HIDE DEF asked
  <2>3. CASE /\ todo' = [todo EXCEPT ![s] = @ \ {r}]
             /\ done' = [done EXCEPT ![s] = asked]
             /\ UNCHANGED <<pc, row, tgt, disturbed>>
    BY <1>0, <2>1, <2>3 DEF GrowsCold, Parked, Up, asked
  <2>4. CASE /\ todo[s] = {r}
             /\ todo' = [todo EXCEPT ![s] = asked]
             /\ done' = [done EXCEPT ![s] = {}]
             /\ StopNext(s, asked)
    <3>1. pc' = [pc EXCEPT ![s] = "stopping"] /\ tgt'[s] = First(asked) /\ todo'[s] = asked
      BY <1>0, <2>4 DEF StopNext, CallStop
    <3>2. \A q \in Resources : Up(q)' => q \in asked
      BY <2>1, <2>4 DEF GrowsCold, Up, asked
    <3>3. Parked'
      BY <1>0, <2>1, <3>1 DEF GrowsCold, Parked
    <3>4. QED
      BY <1>0, <3>1, <3>2, <3>3 DEF GrowsCold
  <2>5. CASE Goto(s, "resuming")
    BY <1>0, <2>5 DEF Quiescing
  <2>6. QED
    BY <1>2, <2>3, <2>4, <2>5 DEF QuiesceGuard, asked
<1>3. CASE QuiesceStopped(s)
  <2> DEFINE r == First(todo[s])
             rest == todo[s] \ {r}
  <2>1. GrowsCold(s) /\ pc[s] = "stopped" /\ UNCHANGED box /\ todo'[s] = rest
    BY <1>0, <1>3 DEF QuiesceStopped, QuietInv, Quiescing, world
  <2>2. \A q \in Resources : Up(q)' => q \in rest
    BY <2>1 DEF GrowsCold, Up
  <2> HIDE DEF rest
  <2>3. CASE rest = {} /\ Goto(s, "cloning")
    <3>1. Parked'
      BY <1>0, <2>1, <2>3 DEF GrowsCold, Parked
    <3>2. QED
      BY <1>0, <2>2, <2>3, <3>1 DEF GrowsCold
  <2>4. CASE StopNext(s, rest)
    <3>1. pc' = [pc EXCEPT ![s] = "stopping"] /\ tgt'[s] = First(rest)
      BY <1>0, <2>4 DEF StopNext, CallStop
    <3>2. Parked'
      BY <1>0, <2>1, <3>1 DEF GrowsCold, Parked
    <3>3. QED
      BY <1>0, <2>1, <2>2, <3>1, <3>2 DEF GrowsCold
  <2>5. QED
    BY <1>3, <2>3, <2>4 DEF QuiesceStopped, rest
<1>4. CASE QuiesceFails(s) \/ FinishCopy(s) \/ Resume(s) \/ Release(s)
  <2>1. ~QuiesceFails(s) /\ ~FinishCopy(s)
    BY <1>0 DEF QuiesceFails, FinishCopy, Quiescing
  <2>2. ~Resume(s) /\ ~Release(s)
    BY <1>0 DEF Resume, Release, Quiescing
  <2>3. QED
    BY <1>4, <2>1, <2>2
<1>5. CASE HandlerStep(s)
  <2>1. /\ (DockerStop(s) /\ pc'[s] = "halted") \/ ReportStopped(s)
        /\ UNCHANGED <<tgt, todo, done, quiet>>
    <3>1. UNCHANGED <<tgt, todo, done, quiet>>
      BY <1>5 DEF HandlerStep
    <3>2. ~DockerStart(s) /\ ~Probe(s) /\ ~StopAfterFailedStart(s)
      BY <1>0 DEF DockerStart, Probe, StopAfterFailedStart, Quiescing
    <3>3. ~ReportFailedStart(s) /\ ~ReportStarted(s)
      BY <1>0 DEF ReportFailedStart, ReportStarted, Quiescing
    <3>4. DockerStop(s) => pc'[s] = "halted"
      BY <1>0 DEF DockerStop, Quiescing
    <3>5. QED
      BY <1>5, <3>1, <3>2, <3>3, <3>4 DEF HandlerStep
  <2>2. GrowsCold(s) /\ pc[s] \in {"stopping", "halted"} /\ tgt[s] \in Resources
    BY <1>0, <2>1 DEF DockerStop, ReportStopped, QuietInv, Quiescing
  <2>3. Parked'
    <3>1. \E stage : Goto(s, stage)
      BY <2>1 DEF DockerStop, ReportStopped
    <3>2. QED
      BY <1>0, <2>2, <3>1 DEF GrowsCold, Parked
  <2>4. CASE DockerStop(s) /\ pc'[s] = "halted"
    <3>1. TakeDown(tgt[s])
      BY <1>0, <2>4 DEF DockerStop
    <3>2. QED
      BY <2>1, <2>2, <2>3, <2>4, <3>1 DEF TakeDown, GrowsCold, Up
  <2>5. CASE ReportStopped(s)
    <3>1. pc[s] = "halted" /\ pc'[s] = "stopped" /\ UNCHANGED box
      BY <1>0, <2>5 DEF ReportStopped
    <3>2. QED
      BY <2>1, <2>2, <2>3, <3>1 DEF GrowsCold, Up
  <2>6. QED
    BY <2>1, <2>4, <2>5
<1>6. QED
  BY <1>1, <1>2, <1>3, <1>4, <1>5 DEF SnapStep

\* A snapshot that found nothing in flight when it took the hold copies files that no
\* container uses, in a daemon that does not die: whatever wakes, starts, stops and
\* hibernations are asked for while it quiesces, and however docker fails.
THEOREM QuietCopyCold ==
    ASSUME "daemon" \notin Faults
    PROVE  Spec => []QuietCopyIsCold
<1>1. Init => Calm /\ Held /\ QuietInv
  BY DistinctNames DEF Init, Calm, Held, QuietInv, Actors
<1>2. TypeInv /\ Calm /\ Held /\ QuietInv /\ [Next]_vars => QuietInv'
  <2> SUFFICES ASSUME TypeInv, Calm, Held, QuietInv, [Next]_vars, quiet',
                      NEW s \in Snaps, pc'[s] \in Quiescing \cup {"cloning"}
               PROVE  GrowsCold(s)'
    BY DEF QuietInv
  <2>0. s \in Actors
    BY DEF Actors
  <2>1. ASSUME pc'[s] = pc[s], quiet
        PROVE  GrowsCold(s) /\ (LeavesCold(s) => GrowsCold(s)')
    <3>1. GrowsCold(s)
      BY <2>1 DEF QuietInv
    <3>2. pc[s] \in {"halted", "stopped"} => tgt[s] \in Resources
      BY <2>0, <2>1, <3>1, FirstIsListed DEF GrowsCold
    <3>3. QED
      BY <3>1, <3>2, LeftCold
  <2>2. CASE TakeHold(s) \/ SnapStep(s) \/ HandlerStep(s)
    BY <2>2, SnapshotGrowsCold
  <2>3. ASSUME NEW p \in Actors \ {s}, HandlerStep(p)
        PROVE  GrowsCold(s)'
    <3>1. quiet' = quiet /\ \E stage : Goto(p, stage)
      BY <2>3 DEF HandlerStep, DockerStart, Probe, StopAfterFailedStart, ReportFailedStart,
                  DockerStop, ReportStarted, ReportStopped
    <3>2. QED
      BY <2>0, <2>1, <2>3, <3>1, HandlerLeavesCold
  <2>4. ASSUME \/ \E r \in Resources : RequestWake(r) \/ WakeStep(r)
               \/ \E p \in Starters : StartStep(p) \/ \E r \in Resources : RequestStart(p, r)
               \/ \E p \in Stoppers : StopStep(p) \/ \E r \in Resources : RequestStop(p, r)
               \/ \E h \in Sleepers : HibernatorTick(h) \/ SleepStep(h)
        PROVE  GrowsCold(s)'
    <3>1. pc'[s] = pc[s] /\ quiet' = quiet
      BY <2>4, OthersLeaveSnaps
    <3>2. QED
      BY <2>1, <2>4, <3>1, OthersLeaveCold
  <2>5. ASSUME NEW t \in Snaps \ {s}, TakeHold(t) \/ SnapStep(t)
        PROVE  GrowsCold(s)'
    <3>1. pc[s] # "off"
      <4>1. Release(t) \/ UNCHANGED pc \/ \E stage : Goto(t, stage)
        BY <2>5
           DEF TakeHold, SnapStep, QuiesceGuard, QuiesceStopped, QuiesceFails, FinishCopy, Resume,
               StopNext
      <4>2. CASE Release(t)
        BY <2>0, <4>2 DEF Release, Quiescing
      <4>3. CASE UNCHANGED pc \/ \E stage : Goto(t, stage)
        BY <2>0, <4>3 DEF Quiescing
      <4>4. QED
        BY <4>1, <4>2, <4>3
    <3>2. hold = s /\ s # Nobody /\ pc[t] = "off"
      BY <3>1, OthersAreOff DEF Quiescing, Fenced
    <3>3. QED
      BY <2>5, <3>2
         DEF TakeHold, SnapStep, QuiesceGuard, QuiesceStopped, QuiesceFails, FinishCopy, Resume,
             Resuming, Release
  <2>6. ASSUME UNCHANGED <<pc, tgt, todo, done, quiet>>, \A r \in Resources : box'[r] # "down" => Up(r)
        PROVE  GrowsCold(s)'
    <3>1. GrowsCold(s)
      BY <2>1, <2>6
    <3>2. LeavesCold(s)
      BY <2>6, <3>1 DEF LeavesCold, GrowsCold, Parked
    <3>3. QED
      BY <2>1, <2>6, <3>2
  <2>7. ASSUME NEW p \in Actors, ActorStep(p) PROVE GrowsCold(s)'
    BY <2>2, <2>3, <2>4, <2>5, <2>7 DEF ActorStep
  <2>8. ASSUME NEW c \in Clients, CloseSession(c) \/ \E r \in Resources : OpenSession(c, r)
        PROVE  GrowsCold(s)'
    BY <2>6, <2>8 DEF OpenSession, CloseSession, Up
  <2>9. CASE Request
    BY <2>2, <2>4, <2>5, <2>8, <2>9 DEF Request
  <2>10. ASSUME NEW r \in Resources, Boots(r) \/ ContainerDies(r) \/ TimePasses(r) \/ RefusalLapses(r)
         PROVE  GrowsCold(s)'
    <3>1. \A q \in Resources : box'[q] # "down" => Up(q)
      BY <2>10 DEF Boots, ContainerDies, TimePasses, RefusalLapses, TakeDown, Up, world
    <3>2. UNCHANGED <<pc, tgt, todo, done, quiet>>
      BY <2>10 DEF Boots, ContainerDies, TimePasses, RefusalLapses
    <3>3. QED
      BY <2>6, <3>1, <3>2
  <2>11. CASE Restart
    BY <2>11 DEF Restart, Crash, Inspect, Correct, Calm
  <2>12. CASE UNCHANGED vars
    BY <2>6, <2>12 DEF vars, world, Up
  <2>13. QED
    BY <2>7, <2>8, <2>9, <2>10, <2>11, <2>12 DEF Next, World
<1>3. "daemon" \notin Faults /\ TypeInv /\ Calm /\ [Next]_vars => Calm'
  BY CalmStays
<1>4. TypeInv /\ Held /\ [Next]_vars => Held'
  BY HeldStays
<1>5. QuietInv => QuietCopyIsCold
  BY DEF QuietInv, GrowsCold, QuietCopyIsCold, CopyIsCold
<1>6. QED
  BY <1>1, <1>2, <1>3, <1>4, <1>5, TypeInvariant, PTL DEF Spec

-----------------------------------------------------------------------------
(* An app and its database.                                                *)

\* Traffic and the hibernator have the project to themselves: nobody runs hobby wake,
\* sleep, snapshot or restore, and the daemon does not die.
OnlyTraffic ==
    Starters = {} /\ Stoppers = {} /\ Snaps = {} /\ "daemon" \notin Faults

\* No wake meets a hold, and each is at its own resource.
Unheld ==
    /\ hold = Nobody
    /\ \A r \in Resources : tgt[r] = r /\ pc[r] \notin {"fenced", "unfenced"}
    /\ \A a \in Resources : pc[a] \in {"await_db", "db_up", "db_down"} => Bound[a] # NoDb

\* A wake that has just ended well, and one that hears of it, finds it so.
Pending ==
    /\ \A r \in Resources \ disturbed : pc[r] = "started" => row[r] = "running"
    /\ \A a \in Resources :
          pc[a] = "db_up" /\ Bound[a] \notin disturbed => row[Bound[a]] = "running"

TrafficInv == Unheld /\ Pending /\ UndisturbedAppKeepsItsDatabase

\* A database is bound to none, so an app is not its own database.
LEMMA DatabasesAreUnbound ==
    ASSUME NEW a \in Resources, Bound[a] # NoDb
    PROVE  /\ Bound[a] \in Resources /\ Bound[a] \in Postgres /\ Bound[a] # a
           /\ Bound[Bound[a]] = NoDb
  BY DistinctNames

LEMMA HandlerKeepsTraffic ==
    ASSUME TypeInv, Calm, Beliefs, TrafficInv, NEW p \in Actors, HandlerStep(p),
           OnlyTraffic
    PROVE  TrafficInv'
<1> DEFINE r == tgt[p]
<1>0. /\ pc[p] \in Handling /\ r \in Resources /\ UNCHANGED <<tgt, disturbed, hold>>
      /\ \A q \in Resources \ {r} : row'[q] = row[q]
      /\ \A q \in Actors \ {p} : pc'[q] = pc[q]
      /\ Resources \subseteq Actors
  BY HandlerFrame DEF HandlerStep, Actors, Wakes
<1>1. /\ pc'[p] \notin {"fenced", "unfenced", "await_db", "db_up", "db_down"}
      /\ pc'[p] = "started" => row'[r] = "running"
  BY <1>0 DEF HandlerStep, DockerStart, Probe, StopAfterFailedStart, ReportFailedStart, DockerStop,
              ReportStarted, ReportStopped
<1>2. Unheld'
  BY <1>0, <1>1 DEF TrafficInv, Unheld
<1>3. \A q \in Actors : pc[q] \notin {"started", "db_up"}
  BY DEF HandlerStep, Settled
<1>4. Pending'
  BY <1>0, <1>1, <1>3 DEF Pending, TrafficInv, Unheld
<1>5. r \notin disturbed => row[r] \in {"starting", "stopping"}
  BY <1>0 DEF Beliefs, AtWork, AloneAtWork, Handling
<1>6. row'[r] \in {"running", "starting"} => row[r] = "starting" \/ r \in disturbed
  BY <1>0, <1>5 DEF HandlerStep, DockerStart, Probe, StopAfterFailedStart, ReportFailedStart,
                    DockerStop, ReportStarted, ReportStopped, Beliefs, AtWork, AloneAtWork
<1>7. ASSUME NEW a \in Resources, {a, Bound[a]} \cap disturbed = {}, Bound[a] # NoDb,
             row'[a] \in {"starting", "running"}
      PROVE  row'[Bound[a]] = "running"
  <2>1. row[a] \in {"starting", "running"}
    BY <1>0, <1>6, <1>7
  <2>2. row[Bound[a]] = "running"
    BY <1>7, <2>1 DEF TrafficInv, UndisturbedAppKeepsItsDatabase, HasItsDatabase
  <2>3. Bound[a] # r
    BY <1>5, <1>7, <2>2
  <2>4. QED
    BY <1>0, <1>7, <2>2, <2>3, DatabasesAreUnbound
<1>8. UndisturbedAppKeepsItsDatabase'
  BY <1>0, <1>7 DEF UndisturbedAppKeepsItsDatabase, HasItsDatabase
<1>9. QED
  BY <1>2, <1>4, <1>8 DEF TrafficInv

\* A start handler is called of a resource whose database runs, and that runs for nobody.
LEMMA StartKeepsTraffic ==
    ASSUME TypeInv, TrafficInv, NEW r \in Resources,
           row' = [row EXCEPT ![r] = "starting"],
           disturbed \subseteq disturbed',
           r \notin disturbed => row[r] # "running" \/ Bound[r] # NoDb,
           Bound[r] # NoDb /\ Bound[r] \notin disturbed => row[Bound[r]] = "running"
    PROVE  UndisturbedAppKeepsItsDatabase'
<1>1. ASSUME NEW a \in Resources, {a, Bound[a]} \cap disturbed' = {}, Bound[a] # NoDb,
             row'[a] \in {"starting", "running"}
      PROVE  row'[Bound[a]] = "running"
  <2>0. Bound[a] \in Resources /\ Bound[a] # a /\ Bound[Bound[a]] = NoDb
    BY <1>1, DatabasesAreUnbound
  <2>1. CASE a = r
    BY <1>1, <2>0, <2>1
  <2>2. CASE a # r
    <3>1. row[Bound[a]] = "running"
      BY <1>1, <2>2 DEF TrafficInv, UndisturbedAppKeepsItsDatabase, HasItsDatabase
    <3>2. Bound[a] # r
      BY <1>1, <2>0, <3>1
    <3>3. QED
      BY <2>0, <3>1, <3>2
  <2>3. QED
    BY <2>1, <2>2
<1>2. QED
  BY <1>1 DEF UndisturbedAppKeepsItsDatabase, HasItsDatabase

LEMMA WakeKeepsTraffic ==
    ASSUME TypeInv, Beliefs, TrafficInv, OnlyTraffic, NEW r \in Resources,
           RequestWake(r) \/ WakeStep(r)
    PROVE  TrafficInv'
<1>0. r \in Actors /\ Resources \subseteq Actors /\ Wakes = Resources /\ Home(r) = r
  BY DEF Actors, Wakes, Home
<1>1. ~Fenced /\ ~PassFence(r) /\ Unheld /\ Pending
  BY DEF TrafficInv, Unheld, Fenced, PassFence
<1>2. CASE RequestWake(r)
  <2>1. Proceed(r, r) /\ UNCHANGED hold /\ Settled
    BY <1>1, <1>2 DEF RequestWake, WaitForFence
  <2>2. \A q \in Actors : pc[q] \notin {"started", "db_up", "db_down"}
    BY <2>1 DEF Settled
  <2>3. CASE StartWithoutDb(r, r)
    <3>1. /\ pc' = [pc EXCEPT ![r] = "starting"] /\ tgt' = [tgt EXCEPT ![r] = r]
          /\ row' = [row EXCEPT ![r] = "starting"] /\ disturbed \subseteq disturbed'
      BY <2>3 DEF StartWithoutDb, CallStart
    <3>2. Unheld' /\ Pending'
      BY <1>0, <1>1, <2>1, <2>2, <3>1 DEF Unheld, Pending
    <3>3. r \notin disturbed => row[r] # "running" \/ r \notin Postgres
      BY <1>2 DEF RequestWake, WakeIsAsked, Beliefs, UndisturbedLabelsAreTrue, LabelIsTrue
    <3>4. Bound[r] # NoDb => row[Bound[r]] = "running"
      BY <2>3 DEF StartWithoutDb, NeedsDb
    <3>5. ASSUME NEW a \in Resources, {a, Bound[a]} \cap disturbed' = {}, Bound[a] # NoDb,
                 row'[a] \in {"starting", "running"}
          PROVE  row'[Bound[a]] = "running"
      <4>0. Bound[a] \in Resources /\ Bound[a] \in Postgres /\ Bound[a] # a
        BY <3>5, DatabasesAreUnbound
      <4>1. row[Bound[a]] = "running"
        BY <3>1, <3>4, <3>5 DEF TrafficInv, UndisturbedAppKeepsItsDatabase, HasItsDatabase
      <4>2. Bound[a] # r
        BY <3>1, <3>3, <3>5, <4>0, <4>1
      <4>3. QED
        BY <3>1, <4>0, <4>1, <4>2
    <3>6. UndisturbedAppKeepsItsDatabase'
      BY <3>5 DEF UndisturbedAppKeepsItsDatabase, HasItsDatabase
    <3>7. QED
      BY <3>2, <3>6 DEF TrafficInv
  <2>4. CASE JoinDbWake(r, r) \/ DbIsRefused(r, r)
    <3>1. /\ \E stage \in {"await_db", "off"} : pc' = [pc EXCEPT ![r] = stage]
          /\ tgt' = [tgt EXCEPT ![r] = r] /\ UNCHANGED <<row, disturbed>>
          /\ Bound[r] # NoDb
      BY <1>0, <2>4 DEF JoinDbWake, DbIsRefused, Leave, NeedsDb
    <3>2. QED
      BY <1>0, <1>1, <2>1, <3>1
         DEF TrafficInv, Unheld, Pending, UndisturbedAppKeepsItsDatabase, HasItsDatabase
  <2>5. CASE StartDbWake(r, r)
    <3> DEFINE d == Bound[r]
    <3>0. d \in Resources /\ Bound[d] = NoDb /\ d # r /\ row[d] # "running" /\ Bound[r] # NoDb
      BY <2>5, DatabasesAreUnbound DEF StartDbWake, NeedsDb
    <3>1. /\ pc' = [pc EXCEPT ![r] = "await_db", ![d] = "starting"]
          /\ tgt' = [tgt EXCEPT ![r] = r, ![d] = d]
          /\ row' = [row EXCEPT ![d] = "starting"] /\ disturbed \subseteq disturbed'
      BY <1>1, <2>5 DEF StartDbWake
    <3> HIDE DEF d
    <3>2. Unheld'
      BY <1>0, <1>1, <2>1, <3>0, <3>1 DEF Unheld
    <3>3. Pending'
      BY <1>0, <2>2, <3>0, <3>1 DEF Pending
    <3>4. UndisturbedAppKeepsItsDatabase'
      BY <3>0, <3>1, StartKeepsTraffic
    <3>5. QED
      BY <3>2, <3>3, <3>4 DEF TrafficInv
  <2>6. QED
    BY <2>1, <2>3, <2>4, <2>5 DEF Proceed
<1>3. CASE AfterDb(r)
  <2>1. CASE pc[r] = "db_up"
    <3>0. Bound[r] # NoDb /\ Bound[r] \in Resources /\ Bound[r] # r
      BY <1>1, <2>1, DatabasesAreUnbound DEF Unheld
    <3>1. /\ pc' = [pc EXCEPT ![r] = "starting"] /\ tgt' = [tgt EXCEPT ![r] = r]
          /\ row' = [row EXCEPT ![r] = "starting"] /\ disturbed \subseteq disturbed'
          /\ UNCHANGED hold
      BY <1>1, <1>3, <2>1 DEF AfterDb, CallStart, Unheld
    <3>2. Unheld'
      BY <1>0, <1>1, <3>1 DEF Unheld
    <3>3. \A a \in Resources : Bound[a] # NoDb => Bound[a] # r
      BY <3>0, DatabasesAreUnbound
    <3>4. Pending'
      BY <1>0, <1>1, <3>1, <3>3 DEF Pending, Unheld
    <3>5. Bound[r] \notin disturbed => row[Bound[r]] = "running"
      BY <1>1, <2>1 DEF Pending
    <3>6. UndisturbedAppKeepsItsDatabase'
      BY <3>0, <3>1, <3>5, StartKeepsTraffic
    <3>7. QED
      BY <3>2, <3>4, <3>6 DEF TrafficInv
  <2>2. CASE pc[r] = "db_down"
    <3>1. /\ pc' = [pc EXCEPT ![r] = "off"] /\ tgt' = [tgt EXCEPT ![r] = r]
          /\ UNCHANGED <<row, disturbed, hold>>
      BY <1>0, <1>3, <2>2 DEF AfterDb, Leave
    <3>2. QED
      BY <1>0, <1>1, <3>1
         DEF TrafficInv, Unheld, Pending, UndisturbedAppKeepsItsDatabase, HasItsDatabase
  <2>3. QED
    BY <1>3, <2>1, <2>2 DEF AfterDb
<1>4. CASE FinishWake(r)
  <2>1. UNCHANGED <<row, tgt, disturbed, hold>>
    BY <1>4 DEF FinishWake
  <2>2. PICK verdict \in {"db_up", "db_down"} :
            /\ SettleWake(r, verdict)
            /\ verdict = "db_up" => pc[r] = "started"
    BY <1>4 DEF FinishWake
  <2>3. Unheld'
    BY <1>0, <1>1, <2>1, <2>2 DEF Unheld, SettleWake
  <2>4. Pending'
    BY <1>0, <1>1, <2>1, <2>2 DEF Unheld, Pending, SettleWake
  <2>5. QED
    BY <2>1, <2>3, <2>4 DEF TrafficInv, UndisturbedAppKeepsItsDatabase, HasItsDatabase
<1>5. QED
  BY <1>1, <1>2, <1>3, <1>4 DEF WakeStep

\* The hibernator looks at the dependents again before it calls the stop handler, and
\* nothing that was promised a running database is still on its way then.
LEMMA HibernatorKeepsTraffic ==
    ASSUME TypeInv, TrafficInv, NEW h \in Sleepers, HibernatorTick(h) \/ SleepStep(h)
    PROVE  TrafficInv'
<1>0. h \in Actors /\ h \notin Resources /\ Resources \subseteq Actors
  BY DistinctNames DEF Actors, Wakes
<1>1. /\ UNCHANGED hold /\ \E stage : Goto(h, stage)
      /\ UNCHANGED tgt \/ \E r : tgt' = [tgt EXCEPT ![h] = r]
  BY DEF HibernatorTick, SleepStep, Consider, HibernatorGuard, Hibernate, HibernateNext, NextTurn,
         Leave, CallStop
<1>2. Unheld'
  BY <1>0, <1>1 DEF TrafficInv, Unheld
<1>3. CASE UNCHANGED <<row, disturbed>>
  <2>1. Pending'
    BY <1>0, <1>1, <1>3 DEF TrafficInv, Pending
  <2>2. QED
    BY <1>2, <1>3, <2>1 DEF TrafficInv, UndisturbedAppKeepsItsDatabase, HasItsDatabase
<1>4. CASE Hibernate(h) /\ ~UNCHANGED <<row, disturbed>>
  <2> DEFINE r == First(todo[h])
  <2>1. r \in Resources /\ StillIdle(r) /\ Settled
    BY <1>0, <1>4, FirstIsListed DEF Hibernate
  <2>2. row' = [row EXCEPT ![r] = "stopping"] /\ disturbed \subseteq disturbed'
    BY <1>4 DEF Hibernate, CallStop
  <2> HIDE DEF r
  <2>3. Pending'
    BY <1>0, <1>1, <2>1 DEF Settled, Pending
  <2>4. ASSUME NEW a \in Resources, {a, Bound[a]} \cap disturbed' = {}, Bound[a] # NoDb,
               row'[a] \in {"starting", "running"}
        PROVE  row'[Bound[a]] = "running"
    <3>1. row[a] \in {"starting", "running"} /\ Bound[a] \in Resources
      BY <2>2, <2>4, DatabasesAreUnbound
    <3>2. row[Bound[a]] = "running"
      BY <2>2, <2>4, <3>1 DEF TrafficInv, UndisturbedAppKeepsItsDatabase, HasItsDatabase
    <3>3. Bound[a] # r
      BY <2>1, <3>1 DEF StillIdle, HasAwakeDependent
    <3>4. QED
      BY <2>2, <3>1, <3>2, <3>3
  <2>5. UndisturbedAppKeepsItsDatabase'
    BY <2>4 DEF UndisturbedAppKeepsItsDatabase, HasItsDatabase
  <2>6. QED
    BY <1>2, <2>3, <2>5 DEF TrafficInv
<1>5. QED
  BY <1>3, <1>4 DEF HibernatorTick, SleepStep, Consider, HibernatorGuard, HibernateNext

\* While traffic and the hibernator have the project to themselves, an app that is up
\* has its database up: the order of the wakes and the hibernator's second look at the
\* dependents are enough, for any number of apps on a database, unless two handler
\* calls overlapped on one of the two or its container died by itself.
THEOREM AppKeepsDatabase ==
    ASSUME OnlyTraffic
    PROVE  Spec => []UndisturbedAppKeepsItsDatabase
<1>1. Init => Calm /\ Beliefs /\ TrafficInv
  <2> SUFFICES ASSUME Init PROVE Calm /\ Beliefs /\ TrafficInv
    OBVIOUS
  <2>1. Calm
    BY DistinctNames DEF Init, Calm, Actors
  <2>2. Beliefs
    BY InitBeliefs
  <2>3. TrafficInv
    BY DatabasesAreUnbound DEF Init, TrafficInv, Unheld, Pending, Home, Wakes, Actors,
       UndisturbedAppKeepsItsDatabase, HasItsDatabase
  <2>4. QED
    BY <2>1, <2>2, <2>3
<1>2. TypeInv /\ Calm /\ Beliefs /\ TrafficInv /\ [Next]_vars => TrafficInv'
  <2> SUFFICES ASSUME TypeInv, Calm, Beliefs, TrafficInv, [Next]_vars PROVE TrafficInv'
    OBVIOUS
  <2>1. ASSUME UNCHANGED <<row, hold, pc, tgt>>, disturbed \subseteq disturbed'
        PROVE  TrafficInv'
    BY <2>1 DEF TrafficInv, Unheld, Pending, UndisturbedAppKeepsItsDatabase, HasItsDatabase
  <2>2. ASSUME NEW p \in Actors, ActorStep(p) PROVE TrafficInv'
    BY <2>2, HandlerKeepsTraffic, WakeKeepsTraffic, HibernatorKeepsTraffic
       DEF ActorStep, OnlyTraffic
  <2>3. ASSUME NEW c \in Clients, CloseSession(c) \/ \E r \in Resources : OpenSession(c, r)
        PROVE  TrafficInv'
    BY <2>1, <2>3 DEF OpenSession, CloseSession
  <2>4. CASE Request
    BY <2>3, <2>4, WakeKeepsTraffic DEF Request, OnlyTraffic
  <2>5. ASSUME NEW r \in Resources, Boots(r) \/ ContainerDies(r) \/ TimePasses(r) \/ RefusalLapses(r)
        PROVE  TrafficInv'
    BY <2>1, <2>5 DEF Boots, ContainerDies, TimePasses, RefusalLapses
  <2>6. CASE Restart
    BY <2>6 DEF Restart, Crash, Inspect, Correct, Calm, OnlyTraffic
  <2>7. CASE UNCHANGED vars
    BY <2>1, <2>7 DEF vars
  <2>8. QED
    BY <2>2, <2>3, <2>4, <2>5, <2>6, <2>7 DEF Next, World
<1>3. TypeInv /\ Calm /\ [Next]_vars => Calm'
  BY CalmStays DEF OnlyTraffic
<1>4. TypeInv /\ Beliefs /\ [Next]_vars => Beliefs'
  BY BeliefsStay
<1>5. TrafficInv => UndisturbedAppKeepsItsDatabase
  BY DEF TrafficInv
<1>6. QED
  BY <1>1, <1>2, <1>3, <1>4, <1>5, TypeInvariant, PTL DEF Spec
=============================================================================
