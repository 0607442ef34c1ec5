--------------------------- MODULE DeployProofs ---------------------------
(***************************************************************************)
(* What holds of deploys for any number of them, of any kind, with every   *)
(* failure: the first part with every overlap, the second of deploys that  *)
(* come one after the other.                                               *)
(***************************************************************************)
EXTENDS Deploy, FiniteSetTheorems, TLAPS

Outcomes == {"none", "deployed", "failed", "stranded"}

\* A step of p moves p and nobody else, never into the build chain, and a deploy
\* that ends has an outcome.
Passes(p) ==
    /\ pc' \in [Actors -> Stages] /\ outcome' \in [Deployers -> Outcomes]
    /\ pc'[p] \notin {"queued", "building"}
    /\ \A q \in Actors \ {p} : pc'[q] = pc[q]
    /\ \A d \in Deployers :
        pc'[d] = "off" /\ outcome'[d] = "none" => pc[d] = "off" /\ outcome[d] = "none"

\* What it writes besides docker's state keeps its type.
Writes(p) ==
    /\ row' \in Rows /\ cfg' \in Config
    /\ conf' \in [Actors -> Config] /\ rolling' \subseteq Deployers
    /\ Passes(p)

-----------------------------------------------------------------------------
(* The ways a deploy or a wake ends, as the actions use them.              *)

LEMMA EndWrites ==
    ASSUME NEW d \in Deployers, NEW said \in Outcomes \ {"none"}, TypeOK, End(d, said)
    PROVE  Passes(d)
BY DEF TypeOK, Passes, End, Goto, Actors, Stages, Outcomes

LEMMA GoWrites ==
    ASSUME NEW p \in Actors, NEW stage \in Stages \ {"off", "queued", "building"}, TypeOK,
           Goto(p, stage), UNCHANGED outcome
    PROVE  Passes(p)
BY DEF TypeOK, Passes, Goto, Outcomes

LEMMA AbandonWrites ==
    ASSUME NEW d \in Deployers, NEW left \in Rows, TypeOK, Abandon(d, left)
    PROVE  Writes(d)
<1>1. CASE d \in rolling \/ (prev[d].row # "undeployed" /\ ~Restorable(d))
  <2>1. SetRow("failed") /\ End(d, "stranded") /\ UNCHANGED <<cfg, conf, rolling>>
    BY <1>1 DEF Abandon, Restorable
  <2>2. Passes(d)
    BY <2>1, EndWrites DEF Outcomes
  <2>3. QED
    BY <2>1, <2>2 DEF Writes, TypeOK, SetRow, Rows
<1>2. CASE d \notin rolling /\ prev[d].row = "undeployed"
  <2>1. SetRow(left) /\ Goto(d, "clearing") /\ UNCHANGED <<cfg, conf, rolling, outcome>>
    BY <1>2 DEF Abandon
  <2>2. Passes(d)
    BY <2>1, GoWrites DEF Actors, Stages
  <2>3. QED
    BY <2>1, <2>2 DEF Writes, TypeOK, SetRow, Rows
<1>3. CASE d \notin rolling /\ prev[d].row # "undeployed" /\ Restorable(d)
  <2>1. /\ SetRow(left) /\ SetCfg(prev[d].cfg)
        /\ conf' = [conf EXCEPT ![d] = prev[d].cfg]
        /\ rolling' = rolling \cup {d}
        /\ Goto(d, "unloading") /\ UNCHANGED outcome
    BY <1>3 DEF Abandon
  <2>2. Passes(d)
    BY <2>1, GoWrites DEF Actors, Stages
  <2>3. prev[d].cfg \in Config
    BY DEF TypeOK
  <2>4. row' \in Rows /\ cfg' \in Config /\ rolling' \subseteq Deployers
    BY <2>1, <2>3 DEF TypeOK, SetRow, SetCfg, Rows
  <2>5. conf' \in [Actors -> Config]
    BY <2>1, <2>3 DEF TypeOK
  <2>6. QED
    BY <2>2, <2>4, <2>5 DEF Writes
<1>4. QED
  BY <1>1, <1>2, <1>3

LEMMA ThrowWrites ==
    ASSUME NEW p \in Deployers \cup Wakers, NEW left \in Rows, TypeOK, Throw(p, left)
    PROVE  Writes(p)
<1>1. CASE p \in Deployers
  BY <1>1, AbandonWrites DEF Throw
<1>2. CASE p \notin Deployers
  <2>1. SetRow("failed") /\ Goto(p, "off") /\ UNCHANGED <<cfg, conf, rolling, outcome>>
    BY <1>2 DEF Throw
  <2>2. Passes(p)
    BY <1>2, <2>1 DEF TypeOK, Passes, Goto, Actors, Stages, Outcomes
  <2>3. QED
    BY <2>1, <2>2 DEF Writes, TypeOK, SetRow, Rows
<1>3. QED
  BY <1>1, <1>2

LEMMA CreatedWrites ==
    ASSUME NEW p \in Deployers \cup Wakers, TypeOK, Created(p), UNCHANGED <<cfg, conf, rolling>>
    PROVE  Writes(p)
<1>1. CASE p \in rolling
  <2>1. p \in Deployers /\ SetRow("sleeping") /\ End(p, "failed")
    BY <1>1 DEF Created, TypeOK
  <2>2. Passes(p)
    BY <2>1, EndWrites DEF Outcomes
  <2>3. QED
    BY <2>1, <2>2 DEF Writes, TypeOK, SetRow, Rows
<1>2. CASE p \notin rolling
  <2>1. Goto(p, "booting") /\ UNCHANGED <<row, outcome>>
    BY <1>2 DEF Created
  <2>2. Passes(p)
    BY <2>1, GoWrites DEF Actors, Stages
  <2>3. QED
    BY <2>1, <2>2 DEF Writes, TypeOK
<1>3. QED
  BY <1>1, <1>2

\* A step that only goes on to its next stage.
LEMMA StageWrites ==
    ASSUME NEW p \in Actors, NEW stage \in Stages \ {"off", "queued", "building"}, TypeOK,
           Goto(p, stage), UNCHANGED <<row, cfg, conf, rolling, outcome>>
    PROVE  Writes(p)
BY GoWrites DEF Writes, TypeOK

-----------------------------------------------------------------------------
(* Containers and the steps on them.                                       *)

Box == [build : Builds \cup {None}, env : Builds, up : Ups]

LEMMA NoBoxTyped == NoBox \in Box
BY DEF NoBox, Box, Ups, Builds

LEMMA HaltedTyped == TypeOK => Halted \in Box
BY DEF TypeOK, Halted, Box, Ups

LEMMA MadeTyped ==
    ASSUME NEW c \in Config, TypeOK, CanMake(c)
    PROVE  Made(c) \in Box
BY DEF TypeOK, CanMake, Made, Box, Ups, Config

LEMMA LeftTyped == \A p : TypeOK => LeftBy(p) \in Rows
BY DEF TypeOK, LeftBy, Rows

\* A wake goes through the steps it shares with a deploy, and no other.
WakeStages == {"off", "ensuring", "creating", "booting", "probing", "giving_up"}
WakersWake == \A w \in Wakers : pc[w] \in WakeStages

\* The steps only a deploy takes.
LEMMA ReplaceWrites ==
    ASSUME NEW d \in Deployers, TypeOK, Unload(d) \/ Remove(d) \/ StopProven(d) \/ RestProven(d)
    PROVE  Writes(d) /\ box' \in Box
<1> d \in Actors
  BY DEF Actors
<1> row \in Rows /\ box \in Box /\ LeftBy(d) \in Rows
  BY LeftTyped DEF TypeOK, Box
<1>1. CASE Unload(d)
  <2>1. CASE box' = Halted /\ Goto(d, "removing") /\ UNCHANGED <<row, cfg, conf, rolling, outcome>>
    BY <2>1, HaltedTyped, StageWrites DEF Stages
  <2>2. CASE Abandon(d, row) /\ UNCHANGED box
    BY <2>2, AbandonWrites
  <2>3. QED
    BY <1>1, <2>1, <2>2 DEF Unload
<1>2. CASE Remove(d)
  <2>1. CASE /\ box' = NoBox /\ Goto(d, "ensuring")
             /\ UNCHANGED <<row, cfg, conf, rolling, outcome>>
    BY <2>1, NoBoxTyped, StageWrites DEF Stages
  <2>2. CASE box' = NoBox /\ Abandon(d, row)
    BY <2>2, NoBoxTyped, AbandonWrites
  <2>3. CASE /\ box' = NoBox /\ row' = "starting" /\ conf' = [conf EXCEPT ![d] = cfg]
             /\ Goto(d, "ensuring") /\ UNCHANGED <<cfg, rolling, outcome>>
    <3>1. Passes(d)
      BY <2>3, GoWrites DEF Stages
    <3>2. QED
      BY <2>3, <3>1, NoBoxTyped DEF Writes, TypeOK, Rows
  <2>4. CASE Abandon(d, row) /\ UNCHANGED box
    BY <2>4, AbandonWrites
  <2>5. QED
    BY <1>2, <2>1, <2>2, <2>3, <2>4 DEF Remove
<1>3. CASE StopProven(d)
  <2>1. CASE box' = Halted /\ Goto(d, "halted") /\ UNCHANGED <<row, cfg, conf, rolling, outcome>>
    BY <2>1, HaltedTyped, StageWrites DEF Stages
  <2>2. CASE Abandon(d, LeftBy(d)) /\ UNCHANGED box
    BY <2>2, AbandonWrites
  <2>3. QED
    BY <1>3, <2>1, <2>2 DEF StopProven
<1>4. CASE RestProven(d)
  <2>1. SetRow("sleeping") /\ Goto(d, "pruning") /\ UNCHANGED <<cfg, conf, rolling, outcome, box>>
    BY <1>4 DEF RestProven
  <2>2. Passes(d)
    BY <2>1, GoWrites DEF Stages
  <2>3. QED
    BY <2>1, <2>2 DEF Writes, TypeOK, SetRow, Rows
<1>5. QED
  BY <1>1, <1>2, <1>3, <1>4

\* The steps a deploy and a wake share.
LEMMA StartWrites ==
    ASSUME NEW p \in Deployers \cup Wakers, TypeOK,
           Ensure(p) \/ Create(p) \/ Boot(p) \/ Probe(p) \/ GiveUp(p)
    PROVE  Writes(p) /\ box' \in Box
<1> p \in Actors
  BY DEF Actors
<1> row \in Rows /\ box \in Box /\ LeftBy(p) \in Rows /\ conf[p] \in Config /\ "failed" \in Rows
  BY LeftTyped DEF TypeOK, Box, Rows
<1>1. CASE Ensure(p)
  <2>0. box' \in Box
    BY <1>1 DEF Ensure
  <2>1. CASE Goto(p, "creating") /\ UNCHANGED <<row, cfg, conf, rolling, outcome>>
    BY <2>0, <2>1, StageWrites DEF Stages
  <2>2. CASE Created(p) /\ UNCHANGED <<cfg, conf, rolling>>
    BY <2>0, <2>2, CreatedWrites
  <2>3. CASE Throw(p, LeftBy(p))
    BY <2>0, <2>3, ThrowWrites
  <2>4. QED
    BY <1>1, <2>1, <2>2, <2>3 DEF Ensure
<1>2. CASE Create(p)
  <2>1. CASE /\ CanMake(conf[p]) /\ box' = Made(conf[p])
             /\ Created(p) /\ UNCHANGED <<cfg, conf, rolling>>
    BY <2>1, CreatedWrites, MadeTyped
  <2>2. CASE Throw(p, LeftBy(p)) /\ UNCHANGED box
    BY <2>2, ThrowWrites
  <2>3. QED
    BY <1>2, <2>1, <2>2 DEF Create
<1>3. CASE Boot(p)
  <2>1. CASE /\ box' = [box EXCEPT !.up = IF @ = "down" THEN "booting" ELSE @]
             /\ Goto(p, "probing") /\ UNCHANGED <<row, cfg, conf, rolling, outcome>>
    BY <2>1, StageWrites DEF Stages, Box, Ups
  <2>2. CASE Throw(p, LeftBy(p)) /\ UNCHANGED box
    BY <2>2, ThrowWrites
  <2>3. QED
    BY <1>3, <2>1, <2>2 DEF Boot
<1>4. CASE Probe(p)
  <2>1. CASE Answered(p) /\ UNCHANGED box
    <3>1. CASE p \in Deployers
      <4>1. Passes(p)
        BY <2>1, <3>1, GoWrites DEF Answered, Stages
      <4>2. QED
        BY <2>1, <3>1, <4>1 DEF Answered, Writes, TypeOK, SetRow, Rows
    <3>2. CASE p \notin Deployers
      <4>1. Passes(p)
        BY <2>1, <3>2 DEF Answered, TypeOK, Passes, Goto, Actors, Stages, Outcomes
      <4>2. QED
        BY <2>1, <3>2, <4>1 DEF Answered, Writes, TypeOK, SetRow, Rows
    <3>3. QED
      BY <3>1, <3>2
  <2>2. CASE NotReady(p) /\ UNCHANGED box
    <3>1. CASE p \in Deployers /\ ~IsWorker
      BY <2>2, <3>1, AbandonWrites DEF NotReady
    <3>2. CASE ~(p \in Deployers /\ ~IsWorker)
      BY <2>2, <3>2, StageWrites DEF NotReady, Stages
    <3>3. QED
      BY <3>1, <3>2
  <2>3. QED
    BY <1>4, <2>1, <2>2 DEF Probe
<1>5. CASE GiveUp(p)
  BY <1>5, ThrowWrites, HaltedTyped DEF GiveUp
<1>6. QED
  BY <1>1, <1>2, <1>3, <1>4, <1>5

LEMMA WakerStays ==
    ASSUME NEW w \in Wakers, TypeOK, WakersWake, ContainerStep(w)
    PROVE  /\ Ensure(w) \/ Create(w) \/ Boot(w) \/ Probe(w) \/ GiveUp(w)
           /\ pc'[w] \in WakeStages
<1>1. w \in Actors /\ w \notin Deployers /\ w \notin rolling
  BY DeployAssumption DEF TypeOK, Actors
<1>2. Ensure(w) \/ Create(w) \/ Boot(w) \/ Probe(w) \/ GiveUp(w)
  BY DEF ContainerStep, WakersWake, WakeStages, Unload, Remove, StopProven, RestProven
<1>3. ASSUME NEW stage, Goto(w, stage)
      PROVE  pc'[w] = stage
  BY <1>1, <1>3 DEF Goto, TypeOK
<1>4. ASSUME NEW left, Throw(w, left)
      PROVE  pc'[w] = "off"
  BY <1>1, <1>3, <1>4 DEF Throw
<1>5. Created(w) => pc'[w] = "booting"
  BY <1>1, <1>3 DEF Created
<1>6. pc'[w] \in WakeStages
  <2>1. CASE Ensure(w)
    BY <2>1, <1>3, <1>4, <1>5 DEF Ensure, WakeStages
  <2>2. CASE Create(w)
    BY <2>2, <1>4, <1>5 DEF Create, WakeStages
  <2>3. CASE Boot(w)
    BY <2>3, <1>3, <1>4 DEF Boot, WakeStages
  <2>4. CASE Probe(w)
    BY <2>4, <1>1, <1>3 DEF Probe, Answered, NotReady, WakeStages
  <2>5. CASE GiveUp(w)
    BY <2>5, <1>4 DEF GiveUp, WakeStages
  <2>6. QED
    BY <1>2, <2>1, <2>2, <2>3, <2>4, <2>5
<1>7. QED
  BY <1>2, <1>6

\* Any step on the container, as one fact about the whole state.
LEMMA ContainerWrites ==
    ASSUME NEW p \in Deployers \cup Wakers, TypeOK, WakersWake, ContainerStep(p)
    PROVE  /\ TypeOK' /\ WakersWake' /\ Passes(p)
           /\ UNCHANGED <<chain, turn>>
<1>1. Writes(p) /\ box' \in Box
  <2>1. CASE p \in Deployers
    BY <2>1, ReplaceWrites, StartWrites DEF ContainerStep
  <2>2. CASE p \in Wakers
    BY <2>2, WakerStays, StartWrites
  <2>3. QED
    BY <2>1, <2>2
<1>2. UNCHANGED <<kind, images, broken, clock, chain, turn, prev, stamp, serving, history>>
  BY DEF ContainerStep
<1>3. TypeOK'
  BY <1>1, <1>2 DEF TypeOK, Writes, Passes, Box, history, Outcomes
<1>4. WakersWake'
  <2>1. ASSUME NEW w \in Wakers
        PROVE  pc'[w] \in WakeStages
    <3>1. CASE w = p
      BY <3>1, WakerStays
    <3>2. CASE w # p
      BY <1>1, <3>2 DEF Writes, Passes, WakersWake, Actors
    <3>3. QED
      BY <3>1, <3>2
  <2>2. QED
    BY <2>1 DEF WakersWake
<1>5. QED
  BY <1>1, <1>2, <1>3, <1>4 DEF Writes

-----------------------------------------------------------------------------
(* The build chain.  A deploy that has left its place in the queue has seen *)
(* everybody before it leave the build.                                    *)

ChainInv ==
    /\ \A d \in Deployers : turn[d] <= chain
    /\ \A k \in 1 .. chain : \E d \in Deployers : turn[d] = k
    /\ \A d, e \in Deployers : turn[d] = turn[e] /\ turn[d] # 0 => d = e
    /\ \A d \in Deployers : pc[d] \in {"queued", "building"} => turn[d] # 0
    /\ \A d \in Deployers : pc[d] = "off" /\ outcome[d] = "none" => turn[d] = 0
    /\ \A d, e \in Deployers :
        turn[e] # 0 /\ turn[e] < turn[d] /\ pc[d] # "queued" => HasBuilt(e)

DeployInv == TypeOK /\ WakersWake /\ ChainInv

\* A step outside the queue and the build does not disturb it.
LEMMA PassesKeepsChain ==
    ASSUME NEW p \in Actors, TypeOK, ChainInv, Passes(p), UNCHANGED <<chain, turn>>,
           pc[p] # "queued"
    PROVE  ChainInv'
BY DEF TypeOK, ChainInv, Passes, HasBuilt, Actors

LEMMA DeployInit == Init => DeployInv
<1> SUFFICES ASSUME Init PROVE DeployInv
  OBVIOUS
<1>1. cfg \in Config
  BY DeployAssumption DEF Init, Config, Tags, Builds
<1>2. row \in Rows /\ kind \in Kinds
  BY DeployAssumption DEF Init, Rows
<1>3. images \in [Tags -> Builds \cup {None}]
  BY DEF Init, Builds
<1>4. box \in Box
  BY NoBoxTyped DEF Init, Box, Builds, Ups
<1>5. clock \in Tags /\ stamp \in [Deployers -> Tags]
  BY DeployAssumption DEF Init, Tags
<1>6. prev \in [Deployers -> [row : Rows, cfg : Config]] /\ conf \in [Actors -> Config]
  BY <1>1, <1>2 DEF Init
<1>7. /\ chain \in Nat /\ turn \in [Deployers -> Nat] /\ pc \in [Actors -> Stages]
      /\ broken \subseteq Deployers /\ rolling \subseteq Deployers
      /\ outcome \in [Deployers -> {"none", "deployed", "failed", "stranded"}]
      /\ serving \in BOOLEAN /\ overlapped \in BOOLEAN /\ crashed \in BOOLEAN
  BY DEF Init, Stages
<1>8. TypeOK
  BY <1>1, <1>2, <1>3, <1>4, <1>5, <1>6, <1>7 DEF TypeOK, Box
<1>9. WakersWake
  BY DEF Init, WakersWake, WakeStages, Actors
<1>10. ChainInv
  BY DEF Init, ChainInv, Actors
<1>11. QED
  BY <1>8, <1>9, <1>10 DEF DeployInv

\* The other wakers when a deploy, or somebody else, moves.
LEMMA OthersWake ==
    ASSUME NEW p \in Actors \ Wakers, WakersWake, \A q \in Actors \ {p} : pc'[q] = pc[q]
    PROVE  WakersWake'
BY DEF WakersWake, Actors

\* The steps of a build.
LEMMA BuildKeeps ==
    ASSUME NEW d \in Deployers, DeployInv, StartBuild(d) \/ BuildSucceeds(d) \/ BuildFails(d)
    PROVE  DeployInv'
<1> USE DEF DeployInv
<1>0. d \in Actors \ Wakers
  BY DeployAssumption DEF Actors
<1>1. CASE StartBuild(d)
  <2> USE <1>1 DEF StartBuild, locals, docker, history
  <2>1. TypeOK'
    BY <1>0 DEF TypeOK, Goto, Stages
  <2>2. WakersWake'
    BY <1>0, OthersWake DEF Goto, TypeOK
  <2>3. \A e \in Deployers : turn[e] # 0 /\ turn[e] < turn[d] => HasBuilt(e)
    <3>1. SUFFICES ASSUME NEW e \in Deployers, turn[e] # 0, turn[e] < turn[d]
                   PROVE  HasBuilt(e)
      OBVIOUS
    <3>2. turn[d] - 1 \in 1 .. chain
      BY <3>1 DEF TypeOK, ChainInv
    <3>3. PICK f \in Deployers : turn[f] = turn[d] - 1
      BY <3>2 DEF ChainInv
    <3>4. HasBuilt(f) /\ turn[f] # 0
      BY <3>1, <3>2, <3>3 DEF AheadOf, TypeOK
    <3>5. turn[e] < turn[f] \/ turn[e] = turn[f]
      <4>1. turn[d] \in Nat /\ turn[e] \in Nat /\ turn[f] \in Nat
        BY DEF TypeOK
      <4>2. QED
        BY <3>1, <3>3, <4>1
    <3>6. QED
      BY <3>1, <3>4, <3>5 DEF ChainInv, HasBuilt
  <2>4. ChainInv'
    <3>1. pc' = [pc EXCEPT ![d] = "building"] /\ pc \in [Actors -> Stages] /\ Deployers \subseteq Actors
      BY DEF Goto, TypeOK, Actors
    <3>2. UNCHANGED <<chain, turn, outcome>>
      OBVIOUS
    <3>3. \A e, f \in Deployers :
            turn[e] # 0 /\ turn[e] < turn[f] /\ pc'[f] # "queued" => HasBuilt(e)'
      BY <2>3, <3>1, <3>2 DEF ChainInv, HasBuilt
    <3>4. \A e \in Deployers : pc'[e] \in {"queued", "building"} => turn[e] # 0
      BY <3>1, <3>2 DEF ChainInv
    <3>5. \A e \in Deployers : pc'[e] = "off" /\ outcome[e] = "none" => turn[e] = 0
      BY <3>1, <3>2 DEF ChainInv
    <3>6. QED
      BY <3>2, <3>3, <3>4, <3>5 DEF ChainInv
  <2>5. QED
    BY <2>1, <2>2, <2>4
<1>2. CASE BuildSucceeds(d)
  <2> USE <1>2 DEF BuildSucceeds
  <2>1. Passes(d)
    BY <1>0, GoWrites DEF Stages
  <2>2. NewConfig(d) \in Config
    BY DEF TypeOK, NewConfig, Config, Builds
  <2>3. TypeOK'
    <3>1. row' \in Rows /\ cfg' \in Config /\ conf' \in [Actors -> Config]
      BY <1>0, <2>2 DEF TypeOK, SetRow, SetCfg, Rows
    <3>2. images' \in [Tags -> Builds \cup {None}] /\ broken' \subseteq Deployers
      BY DEF TypeOK, Builds
    <3>3. QED
      BY <2>1, <3>1, <3>2 DEF TypeOK, Passes, Outcomes, history
  <2>4. QED
    BY <1>0, <2>1, <2>3, OthersWake, PassesKeepsChain DEF Passes
<1>3. CASE BuildFails(d)
  <2> USE <1>3 DEF BuildFails, Withdraw, docker, history
  <2>1. Passes(d)
    BY <1>0, GoWrites, EndWrites DEF Stages, Outcomes
  <2>2. TypeOK'
    BY <2>1 DEF TypeOK, Passes, Outcomes, SetRow, Rows
  <2>3. QED
    BY <1>0, <2>1, <2>2, OthersWake, PassesKeepsChain DEF Passes
<1>4. QED
  BY <1>1, <1>2, <1>3

\* The steps after the container's.
LEMMA TailKeeps ==
    ASSUME NEW d \in Deployers, DeployInv, Prune(d) \/ Clear(d) \/ Wipe(d)
    PROVE  DeployInv'
<1> USE DEF DeployInv
<1>0. d \in Actors \ Wakers
  BY DeployAssumption DEF Actors
<1>1. CASE Prune(d)
  <2>1. PICK gone : images' = PrunedTo(gone)
    BY <1>1 DEF Prune
  <2>2. images' \in [Tags -> Builds \cup {None}]
    BY <2>1 DEF PrunedTo, TypeOK
  <2>3. Writes(d)
    <3>1. CASE Abandon(d, row)
      BY <3>1, AbandonWrites DEF TypeOK
    <3>2. CASE End(d, "deployed") /\ UNCHANGED <<row, cfg, conf, rolling>>
      BY <3>2, EndWrites DEF Outcomes, Writes, TypeOK
    <3>3. QED
      BY <1>1, <3>1, <3>2 DEF Prune
  <2>4. TypeOK'
    BY <1>1, <2>2, <2>3 DEF Prune, TypeOK, Writes, Passes, Outcomes, history
  <2>5. QED
    BY <1>0, <1>1, <2>3, <2>4, OthersWake, PassesKeepsChain DEF Prune, Writes, Passes
<1>2. CASE Clear(d) \/ Wipe(d)
  <2>1. Passes(d)
    BY <1>0, <1>2, GoWrites, EndWrites DEF Clear, Wipe, Stages, Outcomes
  <2>2. row' \in Rows /\ box' \in Box
    BY <1>2, NoBoxTyped, HaltedTyped DEF Clear, Wipe, TypeOK, SetRow, Rows, Box
  <2>3. /\ UNCHANGED <<kind, cfg, images, broken, clock, chain, turn, prev, conf, stamp,
                      rolling, serving, history>>
        /\ pc[d] # "queued"
    BY <1>2 DEF Clear, Wipe
  <2>4. TypeOK'
    BY <2>1, <2>2, <2>3 DEF TypeOK, Passes, Outcomes, Box, history
  <2>5. QED
    BY <1>0, <2>1, <2>3, <2>4, OthersWake, PassesKeepsChain DEF Passes
<1>3. QED
  BY <1>1, <1>2

\* A deploy that begins takes the last place.
LEMMA BeginKeeps ==
    ASSUME NEW d \in Deployers, DeployInv, BeginDeploy(d)
    PROVE  DeployInv'
<1> USE DEF DeployInv, BeginDeploy, MayBegin, Goto
<1>0. d \in Actors \ Wakers /\ Deployers \subseteq Actors
  BY DeployAssumption DEF Actors
<1>1. clock' \in Tags
  BY DeployAssumption DEF Now, Tags, TypeOK
<1>2. TypeOK'
  <2>1. prev' \in [Deployers -> [row : Rows, cfg : Config]] /\ stamp' \in [Deployers -> Tags]
    BY <1>1 DEF TypeOK
  <2>2. turn' \in [Deployers -> Nat] /\ chain' \in Nat
    BY DEF TypeOK
  <2>3. pc' \in [Actors -> Stages] /\ overlapped' \in BOOLEAN
    BY DEF TypeOK, Stages
  <2>4. QED
    BY <1>1, <2>1, <2>2, <2>3 DEF TypeOK, docker
<1>3. WakersWake'
  BY <1>0, OthersWake DEF TypeOK
<1>4. ChainInv'
  <2>1. /\ pc' = [pc EXCEPT ![d] = "queued"] /\ pc \in [Actors -> Stages]
        /\ turn' = [turn EXCEPT ![d] = chain + 1] /\ turn \in [Deployers -> Nat]
        /\ chain' = chain + 1 /\ chain \in Nat
        /\ pc[d] = "off" /\ outcome[d] = "none" /\ UNCHANGED outcome
    BY DEF TypeOK
  <2>2. turn[d] = 0
    BY <2>1 DEF ChainInv
  <2>3. \A e \in Deployers : turn'[e] <= chain'
    BY <2>1 DEF ChainInv
  <2>4. \A k \in 1 .. chain' : \E e \in Deployers : turn'[e] = k
    <3>1. SUFFICES ASSUME NEW k \in 1 .. chain' PROVE \E e \in Deployers : turn'[e] = k
      OBVIOUS
    <3>2. CASE k = chain + 1
      BY <2>1, <3>2
    <3>3. CASE k \in 1 .. chain
      <4>1. PICK e \in Deployers : turn[e] = k
        BY <3>3 DEF ChainInv
      <4>2. e # d
        BY <2>2, <3>3, <4>1
      <4>3. QED
        BY <2>1, <4>1, <4>2
    <3>4. QED
      BY <2>1, <3>2, <3>3
  <2>5. \A e, f \in Deployers : turn'[e] = turn'[f] /\ turn'[e] # 0 => e = f
    BY <2>1 DEF ChainInv
  <2>6. /\ \A e \in Deployers : pc'[e] \in {"queued", "building"} => turn'[e] # 0
        /\ \A e \in Deployers : pc'[e] = "off" /\ outcome'[e] = "none" => turn'[e] = 0
    BY <1>0, <2>1 DEF ChainInv
  <2>7. \A e, f \in Deployers :
          turn'[e] # 0 /\ turn'[e] < turn'[f] /\ pc'[f] # "queued" => HasBuilt(e)'
    <3>1. SUFFICES ASSUME NEW e \in Deployers, NEW f \in Deployers,
                          turn'[e] # 0, turn'[e] < turn'[f], pc'[f] # "queued"
                   PROVE  HasBuilt(e)'
      OBVIOUS
    <3>2. f # d
      BY <1>0, <2>1, <3>1
    <3>3. e # d
      <4>1. turn'[f] <= chain /\ turn'[f] \in Nat
        BY <2>1, <3>2 DEF ChainInv
      <4>2. QED
        BY <2>1, <3>1, <4>1
    <3>4. QED
      BY <1>0, <2>1, <3>1, <3>2, <3>3 DEF ChainInv, HasBuilt
  <2>8. QED
    BY <2>3, <2>4, <2>5, <2>6, <2>7 DEF ChainInv
<1>5. QED
  BY <1>2, <1>3, <1>4

\* Whoever else works on the resource leaves the deploys where they are.
LEMMA OtherKeeps ==
    ASSUME NEW p \in Actors \ Deployers, DeployInv, TypeOK', \A q \in Actors \ {p} : pc'[q] = pc[q],
           p \in Wakers => pc'[p] \in WakeStages,
           UNCHANGED <<chain, turn, outcome>>
    PROVE  DeployInv'
<1> USE DEF DeployInv
<1>1. \A d \in Deployers : d \in Actors \ {p} /\ pc'[d] = pc[d]
  BY DEF Actors
<1>2. WakersWake'
  BY DEF WakersWake, Actors
<1>3. ChainInv'
  BY <1>1 DEF ChainInv, HasBuilt
<1>4. QED
  BY <1>2, <1>3

\* A wake, the hibernator and a destroy.
LEMMA OthersKeep ==
    ASSUME DeployInv,
           \/ \E w \in Wakers : BeginWake(w) \/ ContainerStep(w)
           \/ \E h \in Sleepers : BeginSleep(h) \/ Sleep(h)
           \/ \E x \in Destroyers : BeginDestroy(x) \/ Destroy(x)
    PROVE  DeployInv'
<1> USE DEF DeployInv, MayBegin, Goto, locals, docker, history
<1>0. /\ \A w \in Wakers : w \in Actors \ Deployers
      /\ \A p \in Sleepers \cup Destroyers : p \in Actors \ (Deployers \cup Wakers)
  BY DeployAssumption DEF Actors
<1>1. ASSUME NEW w \in Wakers, BeginWake(w)
      PROVE  DeployInv'
  <2> USE <1>1 DEF BeginWake
  <2>1. TypeOK'
    BY <1>0 DEF TypeOK, SetRow, Rows, Stages
  <2>2. pc'[w] \in WakeStages
    BY <1>0 DEF TypeOK, WakeStages
  <2>3. QED
    BY <1>0, <2>1, <2>2, OtherKeeps DEF TypeOK
<1>2. ASSUME NEW w \in Wakers, ContainerStep(w)
      PROVE  DeployInv'
  <2>1. TypeOK' /\ WakersWake' /\ Passes(w) /\ UNCHANGED <<chain, turn>>
    BY <1>2, ContainerWrites
  <2>2. pc[w] # "queued"
    BY DEF WakersWake, WakeStages
  <2>3. QED
    BY <1>0, <2>1, <2>2, PassesKeepsChain
<1>3. ASSUME NEW h \in Sleepers, BeginSleep(h) \/ Sleep(h)
      PROVE  DeployInv'
  <2> USE <1>3 DEF BeginSleep, Sleep
  <2>1. row' \in Rows /\ box' \in Box
    BY HaltedTyped DEF TypeOK, SetRow, Rows, Box
  <2>2. pc' \in [Actors -> Stages] /\ overlapped' \in BOOLEAN
    BY <1>0 DEF TypeOK, Stages
  <2>3. TypeOK'
    BY <2>1, <2>2 DEF TypeOK, Box
  <2>4. QED
    BY <1>0, <2>3, OtherKeeps DEF TypeOK
<1>4. ASSUME NEW x \in Destroyers, BeginDestroy(x) \/ Destroy(x)
      PROVE  DeployInv'
  <2> USE <1>4 DEF BeginDestroy, Destroy
  <2>1. row' \in Rows /\ box' \in Box
    BY HaltedTyped, NoBoxTyped DEF TypeOK, Rows, Box
  <2>2. pc' \in [Actors -> Stages] /\ overlapped' \in BOOLEAN
    BY <1>0 DEF TypeOK, Stages
  <2>3. images' \in [Tags -> Builds \cup {None}]
    <3>1. UNCHANGED images \/ \E gone : images' = PrunedTo(gone)
      OBVIOUS
    <3>2. QED
      BY <3>1 DEF PrunedTo, TypeOK
  <2>4. TypeOK'
    BY <2>1, <2>2, <2>3 DEF TypeOK, Box
  <2>5. QED
    BY <1>0, <2>4, OtherKeeps DEF TypeOK
<1>5. QED
  BY <1>1, <1>2, <1>3, <1>4

\* The process in the container, and the daemon that dies and comes back.
LEMMA WorldKeeps ==
    ASSUME DeployInv, BoxBoots \/ Crash \/ Reconcile
    PROVE  DeployInv'
<1> USE DEF DeployInv, locals, docker, history
<1>1. CASE BoxBoots
  <2>1. TypeOK'
    BY <1>1, HaltedTyped DEF BoxBoots, TypeOK, Ups
  <2>2. QED
    BY <1>1, <2>1 DEF BoxBoots, WakersWake, ChainInv, HasBuilt
<1>2. CASE Crash
  <2> USE <1>2 DEF Crash
  <2>1. TypeOK'
    BY DEF TypeOK, Stages
  <2>2. WakersWake' /\ ChainInv'
    BY DEF WakersWake, WakeStages, ChainInv, HasBuilt, Actors
  <2>3. QED
    BY <2>1, <2>2
<1>3. CASE Reconcile
  <2> USE <1>3 DEF Reconcile
  <2>1. row' \in Rows
    BY DEF TypeOK, Rows
  <2>2. box' \in Box /\ images' \in [Tags -> Builds \cup {None}]
    BY NoBoxTyped DEF TypeOK, PrunedTo, Box
  <2>3. TypeOK'
    BY <2>1, <2>2 DEF TypeOK, Box
  <2>4. QED
    BY <2>3 DEF WakersWake, ChainInv, HasBuilt
<1>4. QED
  BY <1>1, <1>2, <1>3

LEMMA DeployNext == DeployInv /\ [Next]_vars => DeployInv'
<1> SUFFICES ASSUME DeployInv, [Next]_vars PROVE DeployInv'
  OBVIOUS
<1>1. CASE UNCHANGED vars
  BY <1>1 DEF vars, locals, docker, history, DeployInv, TypeOK, WakersWake, ChainInv, HasBuilt
<1>2. ASSUME NEW d \in Deployers, BeginDeploy(d) \/ DeployStep(d)
      PROVE  DeployInv'
  <2>1. CASE ContainerStep(d)
    <3>1. TypeOK' /\ WakersWake' /\ Passes(d) /\ UNCHANGED <<chain, turn>>
      BY <2>1, ContainerWrites DEF DeployInv
    <3>2. pc[d] # "queued"
      BY <2>1 DEF ContainerStep, Unload, Remove, Ensure, Create, Boot, Probe, GiveUp, StopProven,
                  RestProven
    <3>3. QED
      BY <3>1, <3>2, PassesKeepsChain DEF DeployInv, Actors
  <2>2. CASE ~ContainerStep(d)
    BY <1>2, <2>2, BeginKeeps, BuildKeeps, TailKeeps DEF DeployStep
  <2>3. QED
    BY <2>1, <2>2
<1>3. QED
  BY <1>1, <1>2, OthersKeep, WorldKeeps DEF Next

-----------------------------------------------------------------------------

\* Every variable of Deploy keeps its type, whatever fails and overlaps.
THEOREM DeployTypeCorrect == Spec => []TypeOK
<1>1. DeployInv => TypeOK
  BY DEF DeployInv
<1>2. QED
  BY <1>1, DeployInit, DeployNext, PTL DEF Spec

\* withBuildLock: of any number of deploys, one image builds at a time.
THEOREM OneBuildAtATime == Spec => []BuildsAreSerial
<1>1. DeployInv => BuildsAreSerial
  <2>1. SUFFICES ASSUME DeployInv, NEW d \in Deployers, NEW e \in Deployers,
                        pc[d] = "building", pc[e] = "building", d # e
                 PROVE  FALSE
    BY DEF BuildsAreSerial
  <2>2. turn[d] \in Nat \ {0} /\ turn[e] \in Nat \ {0} /\ turn[d] # turn[e]
    BY <2>1 DEF DeployInv, TypeOK, ChainInv
  <2>3. turn[d] < turn[e] \/ turn[e] < turn[d]
    BY <2>2
  <2>4. HasBuilt(d) \/ HasBuilt(e)
    BY <2>1, <2>2, <2>3 DEF DeployInv, ChainInv
  <2>5. QED
    BY <2>1, <2>4 DEF HasBuilt
<1>2. QED
  BY <1>1, DeployInit, DeployNext, PTL DEF Spec

-----------------------------------------------------------------------------
(* Deploys that come one after the other.                                  *)

LoadStages == {"ensuring", "creating", "booting", "probing", "giving_up", "proven", "halted",
               "pruning"}
UpStages   == LoadStages \ {"ensuring", "creating"}

Alone == \A p, q \in Actors : pc[p] # "off" /\ pc[q] # "off" => p = q

\* Nothing is known of a build that has not been.
Unbuilt(d) == pc[d] \in {"queued", "building"} \/ (pc[d] = "off" /\ outcome[d] = "none")

Own(d) ==
    /\ pc[d] # "off" => outcome[d] = "none"
    /\ pc[d] = "off" /\ outcome[d] = "none" => d \notin rolling
    /\ Unbuilt(d) => d \notin broken /\ box.build # d /\ \A t \in Tags : images[t] # d

\* Whoever is at work, and when nobody is: the config's image is there, what answers is
\* not broken, and a record with no code has no container unless a clean-up failed.
Ground ==
    /\ row = "gone" \/ ~serving => \A p \in Actors : pc[p] = "off"
    /\ row # "gone" /\ cfg.image # None => images[cfg.image] # None
    /\ box.up = "ready" => box.build \notin broken
    /\ row = "undeployed" => CleanUpFails \/ box.up = "absent"
    /\ \A p \in Actors \ Deployers : pc[p] # "off" => row # "undeployed"

\* What a deploy relies on from one await to the next.
Phase(d) ==
    /\ prev[d].row # "undeployed" => row # "undeployed"
    /\ Restorable(d) => images[prev[d].cfg.image] # None
    /\ ~HasBuilt(d) => cfg = prev[d].cfg /\ row = prev[d].row /\ d \notin rolling
    /\ d \in rolling => Restorable(d) /\ cfg = prev[d].cfg /\ conf[d] = prev[d].cfg
    /\ pc[d] \in {"clearing", "wiping"} => prev[d].row = "undeployed"
    /\ d \notin rolling /\ pc[d] \in {"unloading", "removing"} \cup LoadStages =>
          cfg = NewConfig(d) /\ conf[d] = NewConfig(d) /\ images[stamp[d]] = d
    /\ pc[d] \in {"unloading", "removing"} /\ ~IsWorker => row # "undeployed"
    /\ pc[d] \in {"removing", "wiping"} => ~IsUp
    /\ pc[d] \in LoadStages => row # "undeployed"
    /\ pc[d] \in {"ensuring", "creating"} => box.up = "absent"
    /\ pc[d] \in UpStages =>
          d \notin rolling /\ box.up # "absent" /\ box.build = d /\ box.env = conf[d].env
    /\ pc[d] \in {"proven", "halted", "pruning"} => d \notin broken

LoneInv ==
    ~overlapped =>
        /\ Alone /\ Ground
        /\ \A d \in Deployers : Own(d) /\ (pc[d] # "off" => Phase(d))

LEMMA LoneInit == Init => LoneInv
<1> SUFFICES ASSUME Init PROVE LoneInv
  OBVIOUS
<1>1. \A p \in Actors : pc[p] = "off"
  BY DEF Init
<1>2. \A d \in Deployers : d \in Actors /\ outcome[d] = "none"
  BY DEF Init, Actors
<1>3. Alone
  BY <1>1 DEF Alone
<1>4. Ground
  <2>1. row # "gone" /\ serving /\ broken = {}
    BY DeployAssumption DEF Init
  <2>2. 0 \in Tags /\ First # None
    BY DeployAssumption DEF Tags, Builds
  <2>3. cfg.image # None => images[cfg.image] # None
    BY <2>2 DEF Init
  <2>4. row = "undeployed" => box.up = "absent"
    BY DEF Init, NoBox
  <2>5. QED
    BY <1>1, <2>1, <2>3, <2>4 DEF Ground
<1>5. ASSUME NEW d \in Deployers
      PROVE  Own(d)
  <2>1. d # First /\ d # None
    BY DeployAssumption DEF Actors, Builds
  <2>2. d \notin broken /\ d \notin rolling /\ box.build # d /\ \A t \in Tags : images[t] # d
    BY <2>1 DEF Init, NoBox
  <2>3. QED
    BY <1>1, <1>2, <2>2 DEF Own
<1>6. QED
  BY <1>1, <1>2, <1>3, <1>4, <1>5 DEF LoneInv

\* What a step of a deploy owes, if nobody else is at work.
LEMMA LoneDeploy ==
    ASSUME DeployInv, LoneInv, ~overlapped, NEW d \in Deployers, pc[d] # "off", Passes(d),
           UNCHANGED <<serving>>,
           \A e \in Deployers \ {d} :
              /\ outcome'[e] = outcome[e]
              /\ e \in rolling' <=> e \in rolling
              /\ e \in broken' <=> e \in broken
              /\ box'.build = e => box.build = e \/ \E t \in Tags : images[t] = e
              /\ \A t \in Tags : images'[t] = e => images[t] = e,
           pc'[d] # "off" => outcome'[d] = "none" /\ Phase(d)',
           row' = "gone" => row = "gone",
           row' # "gone" /\ cfg'.image # None => images'[cfg'.image] # None,
           box'.up = "ready" => box'.build \notin broken',
           row' = "undeployed" => CleanUpFails \/ box'.up = "absent"
    PROVE  LoneInv'
<1>0. d \in Actors /\ Deployers \subseteq Actors
  BY DEF Actors
<1>1. \A q \in Actors \ {d} : pc[q] = "off" /\ pc'[q] = "off"
  BY <1>0 DEF LoneInv, Alone, Passes
<1>2. Alone'
  BY <1>1 DEF Alone
<1>3. row # "gone" /\ serving
  BY <1>0 DEF LoneInv, Ground
<1>4. Ground'
  BY <1>0, <1>1, <1>3 DEF Ground, CleanUpFails
<1>5. ASSUME NEW e \in Deployers, e # d
      PROVE  Own(e)'
  BY <1>0, <1>1, <1>5 DEF LoneInv, Own, Unbuilt
<1>6. Own(d)'
  BY <1>0 DEF Own, Unbuilt, Passes
<1>7. QED
  BY <1>0, <1>1, <1>2, <1>4, <1>5, <1>6 DEF LoneInv

-----------------------------------------------------------------------------
(* The steps of a deploy, with nobody else at work.                        *)

\* What is known of a deploy at work while there is nobody else.
LEMMA LoneFacts ==
    ASSUME DeployInv, LoneInv, ~overlapped, NEW d \in Deployers, pc[d] # "off"
    PROVE  /\ d \in Actors /\ TypeOK /\ Ground /\ Own(d) /\ Phase(d)
           /\ row # "gone" /\ serving
           /\ \A q \in Actors \ {d} : pc[q] = "off"
<1>1. d \in Actors
  BY DEF Actors
<1>2. QED
  BY <1>1 DEF LoneInv, Alone, Ground, DeployInv

LEMMA LoneAbandons ==
    ASSUME DeployInv, LoneInv, ~overlapped, NEW d \in Deployers, pc[d] # "off", HasBuilt(d),
           NEW left \in {row, "failed"}, Abandon(d, left), box' \in {box, Halted, NoBox},
           UNCHANGED <<kind, images, broken, prev, stamp, serving>>
    PROVE  LoneInv'
<1> USE LoneFacts
<1>0. left \in Rows /\ left # "gone"
  BY DEF TypeOK, Rows
<1>1. Passes(d)
  BY <1>0, AbandonWrites DEF Writes
<1>2. box'.build \in {box.build, None} /\ (box'.up = "ready" => box' = box)
      /\ (box.up = "absent" => box'.up = "absent")
  BY DEF Halted, NoBox, IsUp, TypeOK
<1>3. \A e \in Deployers : e # None
  BY DeployAssumption DEF Actors
<1>4. CASE d \in rolling \/ (prev[d].row # "undeployed" /\ ~Restorable(d))
  <2>1. row' = "failed" /\ pc'[d] = "off" /\ UNCHANGED <<cfg, conf, rolling>>
        /\ outcome' = [outcome EXCEPT ![d] = "stranded"]
    BY <1>4 DEF Abandon, SetRow, End, Goto, TypeOK
  <2>2. \A e \in Deployers \ {d} : outcome'[e] = outcome[e]
    BY <2>1 DEF TypeOK
  <2>3. QED
    BY <1>1, <1>2, <1>3, <2>1, <2>2, LoneDeploy DEF Ground
<1>5. CASE d \notin rolling /\ prev[d].row = "undeployed"
  <2>1. row' = left /\ pc'[d] = "clearing" /\ UNCHANGED <<cfg, conf, rolling, outcome>>
    BY <1>5 DEF Abandon, SetRow, Goto, TypeOK
  <2>2. Phase(d)' /\ outcome'[d] = "none"
    BY <1>5, <2>1 DEF Phase, HasBuilt, Restorable, LoadStages, UpStages, Own
  <2>3. row' = "undeployed" => CleanUpFails \/ box'.up = "absent"
    BY <1>2, <2>1 DEF Ground
  <2>4. QED
    BY <1>0, <1>1, <1>2, <1>3, <2>1, <2>2, <2>3, LoneDeploy DEF Ground
<1>6. CASE d \notin rolling /\ prev[d].row # "undeployed" /\ Restorable(d)
  <2>1. /\ row' = left /\ cfg' = prev[d].cfg /\ conf'[d] = prev[d].cfg
        /\ rolling' = rolling \cup {d} /\ pc'[d] = "unloading" /\ UNCHANGED outcome
    BY <1>6 DEF Abandon, SetRow, SetCfg, Goto, TypeOK
  <2>2. row' # "undeployed"
    BY <1>6, <2>1 DEF Phase
  <2>3. Phase(d)' /\ outcome'[d] = "none"
    BY <1>6, <2>1, <2>2 DEF Phase, HasBuilt, Restorable, LoadStages, UpStages, Own
  <2>4. cfg'.image # None => images'[cfg'.image] # None
    BY <1>6, <2>1 DEF Phase
  <2>5. QED
    BY <1>0, <1>1, <1>2, <1>3, <2>1, <2>2, <2>3, <2>4, LoneDeploy DEF Ground
<1>7. QED
  BY <1>4, <1>5, <1>6

LEMMA LoneReplaces ==
    ASSUME DeployInv, LoneInv, ~overlapped, NEW d \in Deployers, ContainerStep(d),
           Unload(d) \/ Remove(d) \/ StopProven(d) \/ RestProven(d)
    PROVE  LoneInv'
<1>0. UNCHANGED <<kind, images, broken, prev, stamp, serving>>
  BY DEF ContainerStep
<1>1. pc[d] # "off" /\ HasBuilt(d)
  BY DEF Unload, Remove, StopProven, RestProven, HasBuilt
<1> /\ d \in Actors /\ TypeOK /\ Ground /\ Own(d) /\ Phase(d) /\ row # "gone" /\ serving
    /\ \A q \in Actors \ {d} : pc[q] = "off"
  BY <1>1, LoneFacts
<1>2. Passes(d)
  BY ReplaceWrites DEF Writes
<1>4. /\ LeftBy(d) \in {row, "failed"}
      /\ Halted.build = box.build /\ Halted.env = box.env /\ Halted.up \notin {"booting", "ready"}
      /\ (Halted.up = "absent" <=> box.up = "absent")
      /\ NoBox.build = None /\ NoBox.up = "absent"
  BY <1>1 DEF LeftBy, Halted, NoBox, IsUp, TypeOK
<1>5. d # None /\ \A e \in Deployers : e # None
  BY DeployAssumption DEF Actors
<1>6. ASSUME Abandon(d, row) \/ Abandon(d, LeftBy(d)), box' \in {box, NoBox}
      PROVE  LoneInv'
  BY <1>0, <1>1, <1>4, <1>6, LoneAbandons
<1>7. ASSUME NEW stage \in Stages \ {"off", "queued", "building"}, Goto(d, stage),
             UNCHANGED <<cfg, rolling, outcome>>, row' # "gone", box' \in {box, Halted, NoBox},
             row' = "undeployed" => row = "undeployed", Phase(d)'
      PROVE  LoneInv'
  <2>1. pc'[d] # "off" /\ outcome'[d] = "none"
    BY <1>1, <1>7 DEF Goto, TypeOK, Own
  <2>2. row' = "undeployed" => CleanUpFails \/ box'.up = "absent"
    BY <1>1, <1>4, <1>7 DEF Ground
  <2>3. cfg'.image # None => images'[cfg'.image] # None
    BY <1>0, <1>1, <1>7 DEF Ground
  <2>4. box'.up = "ready" => box'.build \notin broken'
    BY <1>0, <1>1, <1>4, <1>7 DEF Ground
  <2>5. QED
    BY <1>0, <1>1, <1>2, <1>4, <1>5, <1>7, <2>1, <2>2, <2>3, <2>4, LoneDeploy
<1>8. CASE Unload(d)
  <2>1. CASE box' = Halted /\ Goto(d, "removing") /\ UNCHANGED <<row, cfg, conf, rolling, outcome>>
    <3>1. pc'[d] = "removing" /\ pc[d] = "unloading"
      BY <1>1, <1>8, <2>1 DEF Unload, Goto, TypeOK
    <3>2. Phase(d)'
      BY <1>0, <1>1, <1>4, <2>1, <3>1 DEF Phase, HasBuilt, Restorable, LoadStages, UpStages, NewConfig,
         IsWorker, IsUp
    <3>3. QED
      BY <1>1, <1>7, <2>1, <3>2 DEF Stages
  <2>2. CASE Abandon(d, row) /\ UNCHANGED box
    BY <1>6, <2>2
  <2>3. QED
    BY <1>8, <2>1, <2>2 DEF Unload
<1>9. CASE Remove(d)
  <2>0. pc[d] = "removing"
    BY <1>9 DEF Remove
  <2>1. CASE ~InStartWorker(d) /\ box' = NoBox /\ Goto(d, "ensuring")
             /\ UNCHANGED <<row, cfg, conf, rolling, outcome>>
    <3>1. pc'[d] = "ensuring"
      BY <1>1, <2>1 DEF Goto, TypeOK
    <3>2. row # "undeployed"
      BY <1>1, <2>0, <2>1 DEF InStartWorker, Phase, Restorable
    <3>3. Phase(d)'
      BY <1>0, <1>1, <1>4, <2>0, <2>1, <3>1, <3>2 DEF Phase, HasBuilt, Restorable, LoadStages, UpStages,
         NewConfig
    <3>4. QED
      BY <1>1, <1>7, <2>1, <3>3 DEF Stages
  <2>2. CASE InStartWorker(d) /\ box' = NoBox /\ row' = "starting" /\ conf' = [conf EXCEPT ![d] = cfg]
             /\ Goto(d, "ensuring") /\ UNCHANGED <<cfg, rolling, outcome>>
    <3>1. pc'[d] = "ensuring" /\ conf'[d] = cfg /\ d \notin rolling
      BY <1>1, <2>2 DEF Goto, TypeOK, InStartWorker
    <3>3. Phase(d)'
      BY <1>0, <1>1, <1>4, <2>0, <2>2, <3>1 DEF Phase, HasBuilt, Restorable, LoadStages, UpStages,
         NewConfig
    <3>4. QED
      BY <1>1, <1>7, <2>2, <3>3 DEF Stages
  <2>3. CASE Abandon(d, row) /\ box' \in {box, NoBox}
    BY <1>6, <2>3
  <2>4. QED
    BY <1>9, <2>1, <2>2, <2>3 DEF Remove
<1>10. CASE StopProven(d)
  <2>1. CASE box' = Halted /\ Goto(d, "halted") /\ UNCHANGED <<row, cfg, conf, rolling, outcome>>
    <3>1. pc'[d] = "halted" /\ pc[d] = "proven"
      BY <1>1, <1>10, <2>1 DEF StopProven, Goto, TypeOK
    <3>2. Phase(d)'
      BY <1>0, <1>1, <1>4, <2>1, <3>1 DEF Phase, HasBuilt, Restorable, LoadStages, UpStages, NewConfig
    <3>3. QED
      BY <1>1, <1>7, <2>1, <3>2 DEF Stages
  <2>2. CASE Abandon(d, LeftBy(d)) /\ UNCHANGED box
    BY <1>6, <2>2
  <2>3. QED
    BY <1>10, <2>1, <2>2 DEF StopProven
<1>11. CASE RestProven(d)
  <2>1. /\ pc[d] = "halted" /\ pc'[d] = "pruning" /\ row' = "sleeping" /\ Goto(d, "pruning")
        /\ UNCHANGED <<cfg, conf, rolling, outcome, box>>
    BY <1>1, <1>11 DEF RestProven, Goto, SetRow, TypeOK
  <2>2. Phase(d)'
    BY <1>0, <1>1, <2>1 DEF Phase, HasBuilt, Restorable, LoadStages, UpStages, NewConfig
  <2>3. QED
    BY <1>7, <2>1, <2>2 DEF Stages
<1>12. QED
  BY <1>8, <1>9, <1>10, <1>11

LEMMA LoneStarts ==
    ASSUME DeployInv, LoneInv, ~overlapped, NEW d \in Deployers, ContainerStep(d),
           Ensure(d) \/ Create(d) \/ Boot(d) \/ Probe(d) \/ GiveUp(d)
    PROVE  LoneInv'
<1>0. UNCHANGED <<kind, images, broken, prev, stamp, serving>>
  BY DEF ContainerStep
<1>1. pc[d] # "off" /\ HasBuilt(d) /\ pc[d] \in LoadStages
  BY DEF Ensure, Create, Boot, Probe, GiveUp, HasBuilt, LoadStages
<1> /\ d \in Actors /\ TypeOK /\ Ground /\ Own(d) /\ Phase(d) /\ row # "gone" /\ serving
    /\ \A q \in Actors \ {d} : pc[q] = "off"
  BY <1>1, LoneFacts
<1>2. Passes(d)
  BY StartWrites DEF Writes
<1>3. d # None /\ \A e \in Deployers : e # None
  BY DeployAssumption DEF Actors
<1>4. row # "undeployed"
  BY <1>1 DEF Phase
<1>5. ASSUME Throw(d, LeftBy(d)) \/ Throw(d, "failed") \/ Abandon(d, row), box' \in {box, Halted}
      PROVE  LoneInv'
  BY <1>0, <1>1, <1>5, LoneAbandons DEF Throw, LeftBy
<1>6. ASSUME NEW stage \in Stages \ {"off", "queued", "building"}, Goto(d, stage),
             UNCHANGED <<cfg, conf, rolling, outcome>>, row' \in {row, "stopping"},
             box'.build \in {box.build, d}, box'.up = "ready" => box' = box, Phase(d)'
      PROVE  LoneInv'
  <2>1. pc'[d] # "off" /\ outcome'[d] = "none"
    BY <1>1, <1>6 DEF Goto, TypeOK, Own
  <2>2. row' # "undeployed" /\ row' # "gone"
    BY <1>4, <1>6
  <2>3. cfg'.image # None => images'[cfg'.image] # None
    BY <1>0, <1>1, <1>6 DEF Ground
  <2>4. box'.up = "ready" => box'.build \notin broken'
    BY <1>0, <1>1, <1>6 DEF Ground
  <2>5. QED
    BY <1>0, <1>1, <1>2, <1>3, <1>6, <2>1, <2>2, <2>3, <2>4, LoneDeploy
<1>7. CASE Ensure(d)
  <2>0. pc[d] = "ensuring" /\ box.up = "absent" /\ UNCHANGED box
    BY <1>7 DEF Ensure, Phase
  <2>1. CASE Goto(d, "creating") /\ UNCHANGED <<row, cfg, conf, rolling, outcome>>
    <3>1. pc'[d] = "creating"
      BY <2>1 DEF Goto, TypeOK
    <3>2. Phase(d)'
      BY <1>0, <2>0, <2>1, <3>1 DEF Phase, HasBuilt, Restorable, LoadStages, UpStages, NewConfig
    <3>3. QED
      BY <1>6, <2>0, <2>1, <3>2 DEF Stages
  <2>2. CASE Throw(d, LeftBy(d))
    BY <1>5, <2>0, <2>2
  <2>3. QED
    BY <1>7, <2>0, <2>1, <2>2 DEF Ensure
<1>8. CASE Create(d)
  <2>0. pc[d] = "creating"
    BY <1>8 DEF Create
  <2>1. CASE /\ CanMake(conf[d]) /\ box' = Made(conf[d])
             /\ Created(d) /\ UNCHANGED <<cfg, conf, rolling>>
    <3>1. /\ box'.build = images[conf[d].image] /\ box'.env = conf[d].env /\ box'.up = "down"
          /\ conf[d].image \in Tags
      BY <2>1 DEF CanMake, Made, TypeOK, Config
    <3>2. CASE d \in rolling
      <4>1. row' = "sleeping" /\ pc'[d] = "off" /\ outcome' = [outcome EXCEPT ![d] = "failed"]
        BY <2>1, <3>2 DEF Created, SetRow, End, Goto, TypeOK
      <4>2. \A e \in Deployers \ {d} : outcome'[e] = outcome[e]
        BY <4>1 DEF TypeOK
      <4>3. cfg'.image # None => images'[cfg'.image] # None
        BY <1>0, <2>1 DEF Ground
      <4>4. \A e \in Deployers : box'.build = e => \E t \in Tags : images[t] = e
        BY <3>1
      <4>5. QED
        BY <1>0, <1>1, <1>2, <1>3, <2>1, <3>1, <4>1, <4>2, <4>3, <4>4, LoneDeploy
    <3>3. CASE d \notin rolling
      <4>1. Goto(d, "booting") /\ pc'[d] = "booting" /\ UNCHANGED <<row, outcome>>
        BY <2>1, <3>3 DEF Created, Goto, TypeOK
      <4>2. conf[d] = NewConfig(d) /\ images[stamp[d]] = d
        BY <2>0, <3>3 DEF Phase, LoadStages
      <4>3. box'.build = d
        BY <3>1, <4>2 DEF NewConfig
      <4>4. Phase(d)'
        BY <1>0, <1>1, <2>0, <2>1, <3>1, <3>3, <4>1, <4>3
           DEF Phase, HasBuilt, Restorable, LoadStages, UpStages, NewConfig
      <4>5. QED
        BY <1>6, <2>1, <3>1, <4>1, <4>3, <4>4 DEF Stages
    <3>4. QED
      BY <3>2, <3>3
  <2>2. CASE Throw(d, LeftBy(d)) /\ UNCHANGED box
    BY <1>5, <2>2
  <2>3. QED
    BY <1>8, <2>1, <2>2 DEF Create
<1>9. CASE Boot(d)
  <2>0. pc[d] = "booting" /\ d \notin rolling /\ box.build = d /\ box.up # "absent"
    BY <1>9 DEF Boot, Phase, UpStages, LoadStages
  <2>1. CASE /\ box' = [box EXCEPT !.up = IF @ = "down" THEN "booting" ELSE @]
             /\ Goto(d, "probing") /\ UNCHANGED <<row, cfg, conf, rolling, outcome>>
    <3>1. /\ pc'[d] = "probing" /\ box'.build = box.build /\ box'.env = box.env /\ box'.up # "absent"
          /\ (box'.up = "ready" => box' = box)
      BY <2>0, <2>1 DEF Goto, TypeOK
    <3>2. Phase(d)'
      BY <1>0, <2>0, <2>1, <3>1 DEF Phase, HasBuilt, Restorable, LoadStages, UpStages, NewConfig
    <3>3. QED
      BY <1>6, <2>1, <3>1, <3>2 DEF Stages
  <2>2. CASE Throw(d, LeftBy(d)) /\ UNCHANGED box
    BY <1>5, <2>2
  <2>3. QED
    BY <1>9, <2>1, <2>2 DEF Boot
<1>10. CASE Probe(d)
  <2>0. pc[d] = "probing" /\ d \notin rolling /\ box.build = d /\ UNCHANGED box
    BY <1>10 DEF Probe, Phase, UpStages, LoadStages
  <2>1. CASE box.up = "ready" /\ Answered(d)
    <3>1. /\ row' \in {row, "stopping"} /\ Goto(d, "proven") /\ pc'[d] = "proven"
          /\ UNCHANGED <<cfg, conf, rolling, outcome>> /\ d \notin broken
      BY <2>0, <2>1 DEF Answered, SetRow, Goto, TypeOK, Ground
    <3>2. Phase(d)'
      BY <1>0, <1>4, <2>0, <3>1 DEF Phase, HasBuilt, Restorable, LoadStages, UpStages, NewConfig
    <3>3. QED
      BY <1>6, <2>0, <3>1, <3>2 DEF Stages
  <2>2. CASE NotReady(d)
    <3>1. CASE Abandon(d, row)
      BY <1>5, <2>0, <3>1
    <3>2. CASE Goto(d, "giving_up") /\ UNCHANGED <<row, cfg, conf, rolling, outcome>>
      <4>1. pc'[d] = "giving_up"
        BY <3>2 DEF Goto, TypeOK
      <4>2. Phase(d)'
        BY <1>0, <2>0, <3>2, <4>1 DEF Phase, HasBuilt, Restorable, LoadStages, UpStages, NewConfig
      <4>3. QED
        BY <1>6, <2>0, <3>2, <4>2 DEF Stages
    <3>3. QED
      BY <2>2, <3>1, <3>2 DEF NotReady
  <2>3. QED
    BY <1>10, <2>1, <2>2 DEF Probe
<1>11. CASE GiveUp(d)
  BY <1>5, <1>11 DEF GiveUp
<1>12. QED
  BY <1>7, <1>8, <1>9, <1>10, <1>11

LEMMA LoneBuilds ==
    ASSUME DeployInv, LoneInv, ~overlapped, NEW d \in Deployers,
           StartBuild(d) \/ BuildSucceeds(d) \/ BuildFails(d)
    PROVE  LoneInv'
<1>0. pc[d] \in {"queued", "building"} /\ pc[d] # "off" /\ ~HasBuilt(d)
  BY DEF StartBuild, BuildSucceeds, BuildFails, HasBuilt
<1> /\ d \in Actors /\ TypeOK /\ Ground /\ Own(d) /\ Phase(d) /\ row # "gone" /\ serving
    /\ \A q \in Actors \ {d} : pc[q] = "off"
  BY <1>0, LoneFacts
<1>1. d # None /\ \A e \in Deployers : e # None
  BY DeployAssumption DEF Actors
<1>2. /\ cfg = prev[d].cfg /\ row = prev[d].row /\ d \notin rolling /\ outcome[d] = "none"
      /\ box.build # d /\ d \notin broken
  BY <1>0 DEF Phase, Own, Unbuilt
<1>3. CASE StartBuild(d)
  <2>1. /\ UNCHANGED <<row, cfg, images, broken, box, prev, conf, stamp, rolling, outcome, serving, kind>>
        /\ pc' = [pc EXCEPT ![d] = "building"]
    BY <1>3 DEF StartBuild, Goto, locals, docker
  <2>2. pc'[d] = "building" /\ \A q \in Actors \ {d} : pc'[q] = "off"
    BY <2>1 DEF TypeOK
  <2>3. Alone'
    BY <2>2 DEF Alone
  <2>4. Ground'
    <3>1. d \notin Actors \ Deployers
      OBVIOUS
    <3>2. QED
      BY <2>1, <2>2, <3>1 DEF Ground, CleanUpFails
  <2>5. Own(d)' /\ Phase(d)'
    BY <1>0, <1>2, <2>1, <2>2 DEF Own, Unbuilt, Phase, HasBuilt, Restorable, LoadStages, UpStages
  <2>6. ASSUME NEW e \in Deployers, e # d
        PROVE  Own(e)' /\ pc'[e] = "off"
    <3>1. pc'[e] = "off" /\ pc[e] = "off" /\ Own(e)
      BY <2>2, <2>6 DEF Actors, LoneInv
    <3>2. QED
      BY <2>1, <3>1 DEF Own, Unbuilt
  <2>7. QED
    BY <2>3, <2>4, <2>5, <2>6 DEF LoneInv
<1>4. CASE BuildSucceeds(d)
  <2> USE <1>4 DEF BuildSucceeds
  <2>1. Passes(d)
    BY GoWrites DEF Stages
  <2>2. /\ cfg' = NewConfig(d) /\ conf'[d] = NewConfig(d) /\ pc'[d] = "unloading"
        /\ images'[stamp[d]] = d /\ stamp[d] \in Tags
        /\ row' = (IF IsWorker THEN row ELSE "starting")
    BY DEF SetCfg, SetRow, Goto, TypeOK
  <2>3. \A t \in Tags : images'[t] = images[t] \/ images'[t] = d
    BY DEF TypeOK
  <2>4. \A e \in Deployers \ {d} : e \in broken' <=> e \in broken
    OBVIOUS
  <2>5. Phase(d)'
    <3>1. prev'[d] = prev[d] /\ stamp'[d] = stamp[d] /\ rolling' = rolling
      OBVIOUS
    <3>2. prev[d].row # "undeployed" => row' # "undeployed"
      BY <1>2, <2>2
    <3>3. Restorable(d) => images'[prev[d].cfg.image] # None
      BY <1>1, <2>3 DEF Phase, Restorable, TypeOK, Config
    <3>4. NewConfig(d)' = NewConfig(d) /\ Restorable(d)' = Restorable(d)
      BY DEF NewConfig, Restorable
    <3>5. ~IsWorker' => row' # "undeployed"
      BY <2>2 DEF IsWorker
    <3>6. QED
      BY <1>2, <2>2, <3>1, <3>2, <3>3, <3>4, <3>5 DEF Phase, HasBuilt, LoadStages, UpStages
  <2>6. row' # "gone" /\ (row' = "undeployed" => CleanUpFails \/ box'.up = "absent")
    BY <2>2 DEF Ground
  <2>7. box'.up = "ready" => box'.build \notin broken'
    BY <1>2 DEF Ground
  <2>8. cfg'.image # None => images'[cfg'.image] # None
    BY <1>1, <2>2 DEF NewConfig
  <2>9. QED
    BY <1>0, <1>1, <1>2, <2>1, <2>3, <2>4, <2>5, <2>6, <2>7, <2>8, LoneDeploy
<1>5. CASE BuildFails(d)
  <2> USE <1>5 DEF BuildFails, Withdraw, docker
  <2>1. Passes(d)
    BY GoWrites, EndWrites DEF Stages, Outcomes
  <2>2. row' = row \/ row' = "failed"
    BY <1>2 DEF SetRow
  <2>3. \A e \in Deployers \ {d} : outcome'[e] = outcome[e]
    BY DEF End, TypeOK
  <2>4. pc'[d] # "off" => outcome'[d] = "none" /\ Phase(d)'
    <3>1. CASE prev[d].row = "undeployed"
      <4>1. pc'[d] = "clearing" /\ UNCHANGED <<row, outcome>>
        BY <3>1 DEF Goto, TypeOK
      <4>2. QED
        BY <1>2, <3>1, <4>1 DEF Phase, HasBuilt, Restorable, LoadStages, UpStages
    <3>2. CASE prev[d].row # "undeployed"
      BY <3>2 DEF End, Goto, TypeOK
    <3>3. QED
      BY <3>1, <3>2
  <2>5. QED
    BY <1>0, <1>1, <1>2, <2>1, <2>2, <2>3, <2>4, LoneDeploy DEF Ground
<1>6. QED
  BY <1>3, <1>4, <1>5

LEMMA LoneTail ==
    ASSUME DeployInv, LoneInv, ~overlapped, NEW d \in Deployers, Prune(d) \/ Clear(d) \/ Wipe(d)
    PROVE  LoneInv'
<1>0. pc[d] \in {"pruning", "clearing", "wiping"} /\ pc[d] # "off" /\ HasBuilt(d)
  BY DEF Prune, Clear, Wipe, HasBuilt
<1> /\ d \in Actors /\ TypeOK /\ Ground /\ Own(d) /\ Phase(d) /\ row # "gone" /\ serving
    /\ \A q \in Actors \ {d} : pc[q] = "off"
  BY <1>0, LoneFacts
<1>1. d # None /\ \A e \in Deployers : e # None
  BY DeployAssumption DEF Actors
<1>2. CASE Prune(d)
  <2>1. /\ End(d, "deployed") /\ pc'[d] = "off" /\ pc[d] = "pruning"
        /\ UNCHANGED <<kind, row, cfg, conf, rolling, broken, box, prev, stamp, serving>>
    BY <1>2 DEF Prune, End, Goto, TypeOK
  <2>2. Passes(d) /\ \A e \in Deployers \ {d} : outcome'[e] = outcome[e]
    BY <2>1, EndWrites DEF Outcomes, End, TypeOK
  <2>3. \A t \in Tags : images'[t] \in {images[t], None} /\ (t = stamp[d] => images'[t] = images[t])
    BY <1>2 DEF Prune, PrunedTo, Stale
  <2>4. cfg'.image # None => images'[cfg'.image] # None
    BY <2>1, <2>3 DEF Phase, UpStages, LoadStages, NewConfig, Ground, TypeOK
  <2>5. QED
    BY <1>0, <1>1, <2>1, <2>2, <2>3, <2>4, LoneDeploy DEF Ground
<1>3. CASE Clear(d)
  <2> USE <1>3 DEF Clear
  <2>0. pc[d] = "clearing" /\ prev[d].row = "undeployed" /\ d \notin rolling
    BY DEF Phase, Restorable
  <2>1. CASE box' = Halted /\ Goto(d, "wiping") /\ UNCHANGED <<row, outcome>>
    <3>1. pc'[d] = "wiping" /\ Passes(d) /\ outcome'[d] = "none"
      BY <1>0, <2>1, GoWrites DEF Goto, TypeOK, Stages, Own
    <3>2. /\ box'.up \notin {"booting", "ready"} /\ box'.build = box.build
          /\ (box.up = "absent" => box'.up = "absent")
      BY <2>1 DEF Halted, IsUp, TypeOK
    <3>3. Phase(d)'
      BY <2>0, <2>1, <3>1, <3>2 DEF Phase, HasBuilt, Restorable, LoadStages, UpStages, IsUp
    <3>4. QED
      BY <1>0, <2>1, <3>1, <3>2, <3>3, LoneDeploy DEF Ground
  <2>2. CASE CleanUpFails /\ SetRow("undeployed") /\ End(d, "failed") /\ UNCHANGED box
    <3>1. pc'[d] = "off" /\ row' = "undeployed" /\ \A e \in Deployers \ {d} : outcome'[e] = outcome[e]
      BY <2>2 DEF End, SetRow, Goto, TypeOK
    <3>2. Passes(d)
      BY <2>2, EndWrites DEF Outcomes
    <3>3. QED
      BY <1>0, <2>2, <3>1, <3>2, LoneDeploy DEF Ground
  <2>3. QED
    BY <2>1, <2>2
<1>4. CASE Wipe(d)
  <2> USE <1>4 DEF Wipe
  <2>1. pc'[d] = "off" /\ row' = "undeployed" /\ \A e \in Deployers \ {d} : outcome'[e] = outcome[e]
    BY DEF End, SetRow, Goto, TypeOK
  <2>2. Passes(d)
    BY EndWrites DEF Outcomes
  <2>3. ~IsUp
    BY DEF Phase
  <2>4. /\ box'.build \in {box.build, None} /\ box'.up # "ready"
        /\ (CleanUpFails \/ box'.up = "absent")
    BY <2>3 DEF NoBox, IsUp
  <2>5. QED
    BY <1>0, <1>1, <2>1, <2>2, <2>4, LoneDeploy DEF Ground
<1>5. QED
  BY <1>2, <1>3, <1>4

LEMMA LoneBegins ==
    ASSUME DeployInv, LoneInv, NEW d \in Deployers, BeginDeploy(d), ~overlapped'
    PROVE  LoneInv'
<1> USE DEF DeployInv
<1>1. ~overlapped /\ \A q \in Actors : pc[q] = "off"
  BY DEF BeginDeploy, MayBegin, Active
<1>2. /\ UNCHANGED <<kind, row, cfg, images, broken, box, conf, rolling, outcome, serving>>
      /\ pc' = [pc EXCEPT ![d] = "queued"] /\ outcome[d] = "none" /\ row # "gone" /\ serving
      /\ prev'[d] = [row |-> row, cfg |-> cfg] /\ d \in Actors
  BY DEF BeginDeploy, MayBegin, Goto, docker, TypeOK, Actors
<1>3. pc'[d] = "queued" /\ \A q \in Actors \ {d} : pc'[q] = "off"
  BY <1>1, <1>2 DEF TypeOK
<1>4. Ground /\ Own(d) /\ TypeOK
  BY <1>1 DEF LoneInv
<1>5. Alone'
  BY <1>3 DEF Alone
<1>6. Ground'
  BY <1>2, <1>3, <1>4 DEF Ground, CleanUpFails
<1>7. Own(d)'
  BY <1>1, <1>2, <1>3, <1>4 DEF Own, Unbuilt
<1>8. Phase(d)'
  <2>1. d \notin rolling
    BY <1>1, <1>2, <1>4 DEF Own
  <2>2. Restorable(d)' => images[cfg.image] # None
    BY <1>2, <1>4 DEF Restorable, Ground
  <2>3. QED
    BY <1>2, <1>3, <2>1, <2>2 DEF Phase, HasBuilt, LoadStages, UpStages
<1>9. ASSUME NEW e \in Deployers, e # d
      PROVE  Own(e)' /\ pc'[e] = "off"
  <2>1. pc'[e] = "off" /\ pc[e] = "off" /\ Own(e)
    BY <1>1, <1>3, <1>9 DEF Actors, LoneInv
  <2>2. QED
    BY <1>2, <2>1 DEF Own, Unbuilt
<1>10. QED
  BY <1>5, <1>6, <1>7, <1>8, <1>9 DEF LoneInv

-----------------------------------------------------------------------------
(* The others, and the world.                                              *)

\* What a step of somebody else owes, while no deploy is at work.
LEMMA LoneOther ==
    ASSUME DeployInv, LoneInv, ~overlapped, NEW p \in Actors \ Deployers,
           \A q \in Actors \ {p} : pc[q] = "off" /\ pc'[q] = "off",
           serving, row # "gone", UNCHANGED <<serving, outcome, rolling, broken, cfg>>,
           \A t \in Tags : images'[t] \in {images[t], None},
           box'.build \in {box.build, None} \/ \E t \in Tags : images[t] = box'.build,
           row' = "gone" => pc'[p] = "off",
           row' # "gone" /\ cfg.image # None => images'[cfg.image] # None,
           box'.up = "ready" => box'.build \notin broken,
           row' = "undeployed" => (CleanUpFails \/ box'.up = "absent") /\ pc'[p] = "off"
    PROVE  LoneInv'
<1>1. \A d \in Deployers : d # None /\ d # p /\ d \in Actors
  BY DeployAssumption DEF Actors
<1>2. Alone'
  BY DEF Alone
<1>3. Ground'
  BY DEF Ground, CleanUpFails
<1>4. ASSUME NEW d \in Deployers
      PROVE  Own(d)' /\ pc'[d] = "off"
  BY <1>1 DEF LoneInv, Own, Unbuilt
<1>5. QED
  BY <1>2, <1>3, <1>4 DEF LoneInv

LEMMA LoneWakes ==
    ASSUME DeployInv, LoneInv, ~overlapped, NEW w \in Wakers, ContainerStep(w)
    PROVE  LoneInv'
<1> USE DEF DeployInv
<1>1. w \in Actors \ Deployers /\ w \notin rolling
  BY DeployAssumption DEF Actors, TypeOK
<1>2. /\ Ensure(w) \/ Create(w) \/ Boot(w) \/ Probe(w) \/ GiveUp(w)
      /\ UNCHANGED <<kind, images, broken, prev, stamp, serving>>
  BY WakerStays DEF ContainerStep
<1>3. pc[w] # "off"
  BY <1>2 DEF Ensure, Create, Boot, Probe, GiveUp
<1>4. /\ Ground /\ row # "gone" /\ serving /\ row # "undeployed"
      /\ \A q \in Actors \ {w} : pc[q] = "off"
  BY <1>1, <1>3 DEF LoneInv, Alone, Ground
<1>5. \A q \in Actors \ {w} : pc'[q] = "off"
  BY <1>1, <1>4, ContainerWrites DEF Passes
<1>6. ASSUME UNCHANGED <<cfg, rolling, outcome>>, row' \notin {"gone", "undeployed"},
             box'.build = box.build \/ \E t \in Tags : images[t] = box'.build,
             box'.up = "ready" => box' = box
      PROVE  LoneInv'
  BY <1>1, <1>2, <1>4, <1>5, <1>6, LoneOther DEF Ground
<1>7. Halted.build = box.build /\ Halted.up # "ready"
  BY DEF Halted, IsUp, TypeOK
<1>8. \A left : Throw(w, left) => UNCHANGED <<cfg, rolling, outcome>> /\ row' \notin {"gone", "undeployed"}
  BY <1>1, <1>4 DEF Throw, SetRow
<1>9. Created(w) => UNCHANGED <<outcome, row>>
  BY <1>1 DEF Created
<1>10. CASE Ensure(w)
  BY <1>4, <1>6, <1>8, <1>9, <1>10 DEF Ensure
<1>11. CASE Create(w)
  <2>1. CASE CanMake(conf[w]) /\ box' = Made(conf[w]) /\ Created(w) /\ UNCHANGED <<cfg, conf, rolling>>
    <3>1. conf[w].image \in Tags /\ box'.build = images[conf[w].image] /\ box'.up = "down"
      BY <1>1, <2>1 DEF CanMake, Made, TypeOK, Config
    <3>2. QED
      BY <1>4, <1>6, <1>9, <2>1, <3>1
  <2>2. CASE Throw(w, LeftBy(w)) /\ UNCHANGED box
    BY <1>6, <1>8, <2>2
  <2>3. QED
    BY <1>11, <2>1, <2>2 DEF Create
<1>12. CASE Boot(w)
  <2>1. CASE /\ box' = [box EXCEPT !.up = IF @ = "down" THEN "booting" ELSE @]
             /\ UNCHANGED <<row, cfg, conf, rolling, outcome>>
    BY <1>4, <1>6, <2>1 DEF TypeOK
  <2>2. CASE Throw(w, LeftBy(w)) /\ UNCHANGED box
    BY <1>6, <1>8, <2>2
  <2>3. QED
    BY <1>12, <2>1, <2>2 DEF Boot
<1>13. CASE Probe(w)
  BY <1>1, <1>4, <1>6, <1>13 DEF Probe, Answered, NotReady, SetRow
<1>14. CASE GiveUp(w)
  BY <1>6, <1>7, <1>8, <1>14 DEF GiveUp
<1>15. QED
  BY <1>2, <1>10, <1>11, <1>12, <1>13, <1>14

\* A beginning wake, the hibernator, a destroy.
LEMMA LoneOthers ==
    ASSUME DeployInv, LoneInv, ~overlapped',
           \/ \E w \in Wakers : BeginWake(w)
           \/ \E h \in Sleepers : BeginSleep(h) \/ Sleep(h)
           \/ \E x \in Destroyers : BeginDestroy(x) \/ Destroy(x)
    PROVE  LoneInv'
<1> USE DEF DeployInv, MayBegin, Goto, locals, docker, history
<1>0. /\ \A w \in Wakers : w \in Actors \ Deployers
      /\ \A p \in Sleepers \cup Destroyers : p \in Actors \ Deployers
  BY DeployAssumption DEF Actors
<1>1. ~overlapped /\ Ground
  <2>1. CASE \E w \in Wakers : BeginWake(w)
    BY <2>1 DEF BeginWake, LoneInv
  <2>2. CASE \E h \in Sleepers : BeginSleep(h)
    BY <2>2 DEF BeginSleep, LoneInv
  <2>3. CASE \E h \in Sleepers : Sleep(h)
    BY <2>3 DEF Sleep, LoneInv
  <2>4. CASE \E x \in Destroyers : BeginDestroy(x)
    BY <2>4 DEF BeginDestroy, LoneInv
  <2>5. CASE \E x \in Destroyers : Destroy(x)
    BY <2>5 DEF Destroy, LoneInv
  <2>6. QED
    BY <2>1, <2>2, <2>3, <2>4, <2>5
<1>2. Halted.build = box.build /\ Halted.up # "ready" /\ NoBox.build = None /\ NoBox.up # "ready"
  BY DEF Halted, NoBox, IsUp, TypeOK
<1>3. ASSUME NEW p \in Actors, pc[p] # "off"
      PROVE  /\ serving /\ row # "gone" /\ (p \notin Deployers => row # "undeployed")
             /\ \A q \in Actors \ {p} : pc[q] = "off"
  BY <1>1, <1>3 DEF LoneInv, Alone, Ground
<1>4. ASSUME NEW w \in Wakers, BeginWake(w)
      PROVE  LoneInv'
  <2> USE <1>4 DEF BeginWake
  <2>1. \A q \in Actors : pc[q] = "off"
    BY DEF Active
  <2>2. \A q \in Actors \ {w} : pc'[q] = "off"
    BY <1>0, <2>1 DEF TypeOK
  <2>3. row' = "starting"
    BY DEF SetRow
  <2>4. QED
    BY <1>0, <1>1, <2>1, <2>2, <2>3, LoneOther DEF Ground
<1>5. ASSUME NEW h \in Sleepers, BeginSleep(h)
      PROVE  LoneInv'
  <2> USE <1>5 DEF BeginSleep
  <2>1. \A q \in Actors : pc[q] = "off"
    BY DEF Active
  <2>2. \A q \in Actors \ {h} : pc'[q] = "off"
    BY <1>0, <2>1 DEF TypeOK
  <2>4. QED
    BY <1>0, <1>1, <2>1, <2>2, LoneOther DEF Ground
<1>6. ASSUME NEW h \in Sleepers, Sleep(h)
      PROVE  LoneInv'
  <2> USE <1>6 DEF Sleep
  <2>1. serving /\ row # "gone" /\ \A q \in Actors \ {h} : pc[q] = "off"
    BY <1>0, <1>3
  <2>2. \A q \in Actors \ {h} : pc'[q] = "off"
    BY <1>0, <2>1 DEF TypeOK
  <2>3. row' \in {"sleeping", "failed"} /\ box' \in {box, Halted}
    BY <2>1 DEF SetRow
  <2>4. QED
    BY <1>0, <1>1, <1>2, <2>1, <2>2, <2>3, LoneOther DEF Ground
<1>7. ASSUME NEW x \in Destroyers, BeginDestroy(x)
      PROVE  LoneInv'
  <2> USE <1>7 DEF BeginDestroy
  <2>1. \A q \in Actors : pc[q] = "off"
    BY DEF Active
  <2>2. \A q \in Actors \ {x} : pc'[q] = "off"
    BY <1>0, <2>1 DEF TypeOK
  <2>3. QED
    BY <1>0, <1>1, <2>1, <2>2, LoneOther DEF Ground
<1>8. ASSUME NEW x \in Destroyers, Destroy(x)
      PROVE  LoneInv'
  <2> USE <1>8 DEF Destroy
  <2>0. pc[x] \in {"d_stop", "d_rm", "d_rmi"}
    OBVIOUS
  <2>1. serving /\ row # "gone" /\ row # "undeployed" /\ \A q \in Actors \ {x} : pc[q] = "off"
    BY <1>0, <1>3, <2>0
  <2>2. \A q \in Actors \ {x} : pc'[q] = "off"
    BY <1>0, <2>1 DEF TypeOK
  <2>3. box' \in {box, Halted, NoBox}
    OBVIOUS
  <2>4. \/ UNCHANGED <<row, images>>
        \/ row' = "gone" /\ pc'[x] = "off" /\ \E gone : images' = PrunedTo(gone)
    BY <1>0 DEF TypeOK
  <2>5. \A t \in Tags : images'[t] \in {images[t], None}
    BY <2>4 DEF PrunedTo
  <2>6. UNCHANGED <<serving, outcome, rolling, broken, cfg>>
    OBVIOUS
  <2>7. QED
    BY <1>0, <1>1, <1>2, <2>1, <2>2, <2>3, <2>4, <2>5, <2>6, LoneOther DEF Ground
<1>9. QED
  BY <1>4, <1>5, <1>6, <1>7, <1>8

LEMMA LoneWorld ==
    ASSUME DeployInv, LoneInv, ~overlapped, BoxBoots \/ Crash \/ Reconcile
    PROVE  LoneInv'
<1> USE DEF DeployInv, locals, docker, history
<1>0. Alone /\ Ground /\ \A d \in Deployers : d \in Actors /\ d # None
  BY DeployAssumption DEF LoneInv, Actors
<1>1. CASE BoxBoots
  <2> USE <1>1 DEF BoxBoots
  <2>1. /\ box'.build = box.build /\ box'.env = box.env /\ box.up = "booting" /\ box'.up # "absent"
        /\ (box'.up = "ready" => box.build \notin broken)
    BY DEF TypeOK
  <2>2. Alone'
    BY <1>0 DEF Alone
  <2>3. Ground'
    <3>1. UNCHANGED <<row, cfg, images, broken, pc>> /\ (serving' <=> serving)
      OBVIOUS
    <3> HIDE <1>1
    <3>2. QED
      BY <1>0, <2>1, <3>1 DEF Ground, CleanUpFails
  <2>4. ASSUME NEW d \in Deployers
        PROVE  Own(d)'
    BY <2>1 DEF LoneInv, Own, Unbuilt
  <2>5. ASSUME NEW d \in Deployers, pc[d] # "off"
        PROVE  Phase(d)'
    <3>1. Phase(d)
      BY <2>5 DEF LoneInv
    <3>2. QED
      BY <2>1, <3>1 DEF Phase, HasBuilt, Restorable, NewConfig, IsWorker, IsUp
  <2>6. QED
    BY <2>2, <2>3, <2>4, <2>5 DEF LoneInv
<1>2. CASE Crash
  <2>1. \A p \in Actors : pc'[p] = "off"
    BY <1>2 DEF Crash
  <2>2. UNCHANGED <<row, cfg, images, broken, box>> /\ rolling' = {}
    BY <1>2 DEF Crash
  <2>3. Alone'
    BY <2>1 DEF Alone
  <2>4. Ground'
    BY <1>0, <2>1, <2>2 DEF Ground, CleanUpFails
  <2>5. ASSUME NEW d \in Deployers
        PROVE  Own(d)'
    <3>1. outcome'[d] = (IF pc[d] = "off" THEN outcome[d] ELSE "failed") /\ pc'[d] = "off"
      BY <1>0, <1>2, <2>1 DEF Crash
    <3>2. QED
      BY <2>2, <3>1 DEF LoneInv, Own, Unbuilt
  <2>6. QED
    BY <1>0, <2>1, <2>3, <2>4, <2>5 DEF LoneInv
<1>3. CASE Reconcile
  <2> USE <1>3 DEF Reconcile
  <2>1. \A p \in Actors : pc[p] = "off" /\ pc'[p] = "off"
    BY <1>0 DEF Ground
  <2>2. Alone'
    BY <2>1 DEF Alone
  <2>3. /\ UNCHANGED <<box, images>> \/ (row' = "gone" /\ box' = NoBox)
        /\ row' = "undeployed" => row = "undeployed"
        /\ row = "gone" => row' = "gone"
        /\ \A t \in Tags : images'[t] \in {images[t], None}
    <3>1. CASE row = "destroying"
      BY <3>1 DEF PrunedTo
    <3>2. CASE row \in {"undeployed", "gone"}
      <4>1. UNCHANGED <<row, box, images>>
        BY <3>2
      <4>2. QED
        BY <4>1, <3>2
    <3>3. CASE row \notin {"undeployed", "gone", "destroying"}
      <4>1. row' \in {"running", "starting", "sleeping", "failed"} /\ UNCHANGED <<box, images>>
        BY <3>3
      <4> HIDE <1>3
      <4>2. QED
        BY <3>3, <4>1
    <3>4. QED
      BY <3>1, <3>2, <3>3
  <2>4. NoBox.build = None /\ NoBox.up = "absent"
    BY DEF NoBox
  <2>5. Ground'
    BY <1>0, <2>1, <2>3, <2>4 DEF Ground, CleanUpFails
  <2>6. ASSUME NEW d \in Deployers
        PROVE  Own(d)'
    BY <1>0, <2>1, <2>3, <2>4 DEF LoneInv, Own, Unbuilt
  <2>7. QED
    BY <1>0, <2>1, <2>2, <2>5, <2>6 DEF LoneInv
<1>4. QED
  BY <1>1, <1>2, <1>3

LEMMA LoneNext == DeployInv /\ LoneInv /\ [Next]_vars => LoneInv'
<1> SUFFICES ASSUME DeployInv, LoneInv, [Next]_vars, ~overlapped' PROVE LoneInv'
  BY DEF LoneInv
<1>1. CASE UNCHANGED vars
  <2>1. /\ UNCHANGED <<kind, row, cfg, images, broken, box, pc, prev, conf, stamp, rolling, outcome, serving>>
        /\ UNCHANGED overlapped
    BY <1>1 DEF vars, locals, docker, history
  <2>2. Alone' = Alone /\ Ground' = Ground
    BY <2>1 DEF Alone, Ground
  <2>3. \A d \in Deployers : Own(d)' = Own(d) /\ Phase(d)' = Phase(d)
    BY <2>1 DEF Own, Unbuilt, Phase, HasBuilt, Restorable, NewConfig, IsWorker, IsUp
  <2>4. QED
    BY <2>1, <2>2, <2>3 DEF LoneInv
<1>2. ASSUME NEW d \in Deployers, BeginDeploy(d) \/ DeployStep(d)
      PROVE  LoneInv'
  <2>1. CASE BeginDeploy(d)
    BY <2>1, LoneBegins
  <2>2. CASE DeployStep(d)
    <3>1. ~overlapped
      BY <2>2 DEF DeployStep, StartBuild, BuildSucceeds, BuildFails, ContainerStep, Prune, Clear, Wipe, history
    <3>2. QED
      BY <2>2, <3>1, LoneBuilds, LoneReplaces, LoneStarts, LoneTail DEF DeployStep, ContainerStep
  <2>3. QED
    BY <1>2, <2>1, <2>2
<1>3. ASSUME NEW w \in Wakers, ContainerStep(w)
      PROVE  LoneInv'
  BY <1>3, LoneWakes DEF ContainerStep, history
<1>4. CASE BoxBoots \/ Crash \/ Reconcile
  <2>1. CASE BoxBoots
    BY <2>1, LoneWorld DEF BoxBoots, history
  <2>2. CASE Crash
    BY <2>2, LoneWorld DEF Crash
  <2>3. CASE Reconcile
    BY <2>3, LoneWorld DEF Reconcile, history
  <2>4. QED
    BY <1>4, <2>1, <2>2, <2>3
<1>5. QED
  BY <1>1, <1>2, <1>3, <1>4, LoneOthers DEF Next

-----------------------------------------------------------------------------

\* The tag a rollback would go back to names an image until the deploy is over.
THEOREM RollbackImageKept == Spec => []RollbackImageIsKept
<1>1. DeployInv /\ LoneInv => RollbackImageIsKept
  BY DEF RollbackImageIsKept, LoneInv, Active, Phase
<1>2. QED
  BY <1>1, DeployInit, DeployNext, LoneInit, LoneNext, PTL DEF Spec

\* Where every clean-up command succeeds, whatever else fails and whenever the daemon
\* dies, a record with no code has no container.
THEOREM UndeployedBare ==
    ASSUME "clean up" \notin Faults
    PROVE  Spec => []UndeployedIsBare
<1>1. DeployInv /\ LoneInv => UndeployedIsBare
  BY DEF UndeployedIsBare, LoneInv, Ground, CleanUpFails
<1>2. QED
  BY <1>1, DeployInit, DeployNext, LoneInit, LoneNext, PTL DEF Spec

\* With one actor at work at once, none overlaps another.
LEMMA OneAtATime ==
    ASSUME Concurrency = 1, LoneInv, ~overlapped, NEW p \in Actors, MayBegin(p)
    PROVE  ~overlapped'
<1>1. CASE Active = {}
  BY <1>1 DEF MayBegin
<1>2. CASE Active # {}
  <2>1. PICK q : q \in Active
    BY <1>2
  <2>2. Active = {q}
    BY <2>1 DEF Active, LoneInv, Alone
  <2>3. Cardinality(Active) = 1
    BY <2>2, FS_Singleton
  <2>4. QED
    BY <2>3 DEF MayBegin
<1>3. QED
  BY <1>1, <1>2

\* overlapped changes where an actor begins its work, and nowhere else.
LEMMA OverlapStep ==
    ASSUME [Next]_vars
    PROVE  (\E p \in Actors : MayBegin(p)) \/ UNCHANGED overlapped
<1> DEFINE Either == (\E p \in Actors : MayBegin(p)) \/ UNCHANGED overlapped
<1>1. ASSUME NEW p \in Actors, MayBegin(p)
      PROVE  Either
  BY <1>1
<1>2. Deployers \cup Wakers \cup Sleepers \cup Destroyers \subseteq Actors
  BY DEF Actors
<1>3. ASSUME NEW d \in Deployers, BeginDeploy(d) \/ DeployStep(d)
      PROVE  Either
  <2>1. CASE BeginDeploy(d)
    BY <1>1, <1>2, <2>1 DEF BeginDeploy
  <2>2. CASE StartBuild(d) \/ BuildSucceeds(d) \/ BuildFails(d)
    BY <2>2 DEF StartBuild, BuildSucceeds, BuildFails, history
  <2>3. CASE ContainerStep(d)
    BY <2>3 DEF ContainerStep, history
  <2>4. CASE Prune(d) \/ Clear(d) \/ Wipe(d)
    BY <2>4 DEF Prune, Clear, Wipe, history
  <2>5. QED
    BY <1>3, <2>1, <2>2, <2>3, <2>4 DEF DeployStep
<1>4. ASSUME NEW w \in Wakers, BeginWake(w) \/ ContainerStep(w)
      PROVE  Either
  <2>1. CASE BeginWake(w)
    BY <1>1, <1>2, <2>1 DEF BeginWake
  <2>2. CASE ContainerStep(w)
    BY <2>2 DEF ContainerStep, history
  <2>3. QED
    BY <1>4, <2>1, <2>2
<1>5. ASSUME NEW h \in Sleepers, BeginSleep(h) \/ Sleep(h)
      PROVE  Either
  <2>1. CASE BeginSleep(h)
    BY <1>1, <1>2, <2>1 DEF BeginSleep
  <2>2. CASE Sleep(h)
    BY <2>2 DEF Sleep, history
  <2>3. QED
    BY <1>5, <2>1, <2>2
<1>6. ASSUME NEW x \in Destroyers, BeginDestroy(x) \/ Destroy(x)
      PROVE  Either
  <2>1. CASE BeginDestroy(x)
    BY <1>1, <1>2, <2>1 DEF BeginDestroy
  <2>2. CASE Destroy(x)
    BY <2>2 DEF Destroy, history
  <2>3. QED
    BY <1>6, <2>1, <2>2
<1>7. CASE BoxBoots
  BY <1>7 DEF BoxBoots, history
<1>8. CASE Crash
  BY <1>8 DEF Crash
<1>9. CASE Reconcile
  BY <1>9 DEF Reconcile, history
<1>10. CASE UNCHANGED vars
  BY <1>10 DEF vars, history
<1>11. QED
  BY <1>3, <1>4, <1>5, <1>6, <1>7, <1>8, <1>9, <1>10 DEF Next

LEMMA Overlaps == [Next]_vars /\ ~overlapped' => ~overlapped
BY OverlapStep DEF MayBegin

LEMMA NeverOverlapped ==
    ASSUME Concurrency = 1, LoneInv, ~overlapped, [Next]_vars
    PROVE  ~overlapped'
<1>1. CASE \E p \in Actors : MayBegin(p)
  BY <1>1, OneAtATime
<1>2. CASE UNCHANGED overlapped
  BY <1>2
<1>3. QED
  BY <1>1, <1>2, OverlapStep

\* The answer that proves a deploy comes from the container of its own build, when
\* one actor works after the other.
THEOREM OwnBuildProved ==
    ASSUME Concurrency = 1
    PROVE  Spec => ProvesItsOwnBuild
<1>1. Init => ~overlapped
  BY DEF Init
<1>2. LoneInv /\ ~overlapped /\ [Next]_vars => ~overlapped'
  BY NeverOverlapped
<1>3. LoneInv /\ ~overlapped =>
        [\A d \in Deployers : pc[d] = "probing" /\ pc'[d] = "proven" => box.build = d]_vars
  BY DEF LoneInv, Phase, UpStages, LoadStages
<1>4. QED
  BY <1>1, <1>2, <1>3, DeployInit, DeployNext, LoneInit, LoneNext, PTL DEF Spec, ProvesItsOwnBuild

-----------------------------------------------------------------------------
(* What can be fallen back on.                                             *)

\* A deploy's tag is newer than every image and every deploy that has ended.
Times ==
    /\ ~serving => crashed
    /\ \A t \in Tags : images[t] # None => t <= clock
    /\ \A d \in Deployers :
        /\ stamp[d] <= clock
        /\ pc[d] \in {"queued", "building"} => images[stamp[d]] = None
        /\ pc[d] # "off" => \A e \in Deployers \ {d} : outcome[e] # "none" => stamp[e] < stamp[d]

Keeping ==
    /\ row \notin {"undeployed", "gone"}
    /\ \A d \in Deployers : pc[d] \in {"off", "queued", "building"}
    /\ \A x \in Destroyers : pc[x] = "off"

Fallback ==
    ~crashed /\ ~Stranded =>
        /\ Keeping => ServesItsConfig
        /\ \A d \in Deployers :
            pc[d] # "off" /\ HasBuilt(d) /\ Restorable(d) => images[prev[d].cfg.image] \notin broken

RecoverInv == ~overlapped => Times /\ Fallback

LEMMA RecoverInit == Init => RecoverInv
<1> SUFFICES ASSUME Init PROVE RecoverInv
  OBVIOUS
<1>1. /\ \A p \in Actors : pc[p] = "off"
      /\ \A d \in Deployers : d \in Actors /\ outcome[d] = "none" /\ stamp[d] = 0
      /\ clock = 0 /\ serving = TRUE /\ broken = {}
  BY DEF Init, Actors
<1>2. 0 \in Tags /\ First # None
  BY DeployAssumption DEF Tags, Builds
<1>3. \A t \in Tags : images[t] # None => t = 0
  BY DEF Init
<1>4. Times
  BY <1>1, <1>3 DEF Times
<1>5. row # "undeployed" => ServesItsConfig
  BY <1>1, <1>2, DeployAssumption DEF Init, ServesItsConfig
<1>6. Fallback
  BY <1>1, <1>5 DEF Fallback, Keeping
<1>7. QED
  BY <1>4, <1>6 DEF RecoverInv

\* Nothing gets older while the clock stands.
LEMMA TimesKept ==
    ASSUME TypeOK, Times, UNCHANGED <<clock, stamp>>, ~serving' => crashed',
           \A t \in Tags : images'[t] # None => images[t] # None \/ \E d \in Deployers : t = stamp[d],
           \A d \in Deployers :
              /\ pc'[d] # "off" =>
                    pc[d] # "off" /\ \A e \in Deployers \ {d} : outcome'[e] = outcome[e]
              /\ pc'[d] \in {"queued", "building"} =>
                    pc[d] \in {"queued", "building"} /\ UNCHANGED images
    PROVE  Times'
  BY DEF Times

\* A deploy asked for in a new second has a tag nobody has.
LEMMA TimesBegin ==
    ASSUME SameSecond = FALSE, DeployInv, LoneInv, Times, NEW d \in Deployers, BeginDeploy(d), ~overlapped'
    PROVE  Times'
<1>1. \A q \in Actors : pc[q] = "off"
  BY DEF BeginDeploy, MayBegin, Active
<1>2. /\ clock' \in Nat /\ clock \in Nat /\ clock' > clock /\ clock' \in Tags
      /\ \A e \in Deployers : stamp[e] \in Nat
  BY DEF BeginDeploy, Now, DeployInv, TypeOK, Tags
<1>3. /\ stamp' = [stamp EXCEPT ![d] = clock'] /\ UNCHANGED <<images, outcome, serving, crashed>>
      /\ pc' = [pc EXCEPT ![d] = "queued"] /\ pc \in [Actors -> Stages] /\ d \in Actors
      /\ stamp \in [Deployers -> Tags]
  BY DEF BeginDeploy, docker, Goto, DeployInv, TypeOK, Actors
<1>4. \A e \in Deployers \ {d} : pc'[e] = "off" /\ stamp'[e] = stamp[e] /\ stamp[e] <= clock
  BY <1>1, <1>3 DEF Actors, Times
<1>5. stamp'[d] = clock' /\ pc'[d] = "queued"
  BY <1>3
<1>6. \A t \in Tags : images'[t] # None => t <= clock /\ t \in Nat
  BY <1>3 DEF Times, Tags
<1>7. images'[stamp'[d]] = None
  BY <1>2, <1>5, <1>6
<1>8. ~serving' => crashed'
  BY <1>3 DEF Times
<1>9. \A e \in Deployers \ {d} : stamp'[e] < stamp'[d]
  BY <1>2, <1>4, <1>5
<1>10. \A t \in Tags : images'[t] # None => t <= clock'
  BY <1>2, <1>6
<1>11. \A e \in Deployers : stamp'[e] <= clock'
  BY <1>2, <1>4, <1>5
<1>12. QED
  BY <1>4, <1>5, <1>7, <1>8, <1>9, <1>10, <1>11 DEF Times

LEMMA ServesOn ==
    ASSUME ServesItsConfig, UNCHANGED <<cfg, images, broken>>,
           box'.build = box.build, box'.env = box.env, box'.up # "absent"
    PROVE  ServesItsConfig'
  BY DEF ServesItsConfig

\* A deploy that ends has been undone, stranded, or left something that serves.
LEMMA FallbackAtEnd ==
    ASSUME \A d \in Deployers : pc'[d] = "off",
           row' = "undeployed" \/ Stranded' \/ ServesItsConfig'
    PROVE  Fallback'
  BY DEF Fallback, Keeping

\* A deploy that goes on with what it has replaced.
LEMMA FallbackOn ==
    ASSUME NEW d \in Deployers, Fallback, \A e \in Deployers \ {d} : pc'[e] = "off",
           pc'[d] \notin {"off", "queued", "building"}, pc[d] # "off",
           HasBuilt(d) \/ ~Restorable(d),
           UNCHANGED <<images, broken, prev, outcome, stamp, crashed>>
    PROVE  Fallback'
<1>1. ~Keeping'
  BY DEF Keeping
<1>2. Stranded' = Stranded /\ Restorable(d)' = Restorable(d)
  BY DEF Stranded, Restorable
<1>3. ~crashed' /\ ~Stranded' => ~crashed /\ ~Stranded
  BY <1>2
<1>4. \A e \in Deployers \ {d} : pc'[e] = "off"
  OBVIOUS
<1>5. ~crashed' /\ ~Stranded' /\ Restorable(d)' => images'[prev'[d].cfg.image] \notin broken'
  BY <1>2, <1>3 DEF Fallback
<1>6. QED
  BY <1>1, <1>4, <1>5 DEF Fallback

\* One that fails without a way back, after everything that had succeeded.
LEMMA StrandsNow ==
    ASSUME TypeOK, Times, NEW d \in Deployers, pc[d] # "off", UNCHANGED stamp,
           outcome' = [outcome EXCEPT ![d] = "stranded"]
    PROVE  Stranded'
<1>1. outcome'[d] = "stranded" /\ \A e \in Deployers \ {d} : outcome'[e] = outcome[e]
  BY DEF TypeOK
<1>2. \A e \in Deployers : outcome'[e] = "deployed" => stamp'[e] < stamp'[d]
  BY <1>1 DEF Times
<1>3. QED
  BY <1>1, <1>2 DEF Stranded

GoesOn(d) == UNCHANGED outcome /\ pc'[d] # "off"
Strands(d) == outcome' = [outcome EXCEPT ![d] = "stranded"] /\ pc'[d] = "off"
RollsBack(d) ==
    /\ d \in rolling /\ pc[d] = "creating" /\ CanMake(conf[d])
    /\ box' = Made(conf[d]) /\ UNCHANGED cfg
    /\ outcome' = [outcome EXCEPT ![d] = "failed"] /\ pc'[d] = "off"

LEMMA AbandonEnds ==
    ASSUME TypeOK, NEW d \in Deployers, NEW left, Abandon(d, left)
    PROVE  GoesOn(d) \/ Strands(d)
<1>1. d \in Actors
  BY DEF Actors
<1>2. QED
  BY <1>1 DEF Abandon, GoesOn, Strands, End, Goto, TypeOK

LEMMA ContainerEnds ==
    ASSUME DeployInv, LoneInv, ~overlapped, NEW d \in Deployers, ContainerStep(d)
    PROVE  GoesOn(d) \/ Strands(d) \/ RollsBack(d)
<1>1. d \in Actors /\ TypeOK
  BY DEF Actors, DeployInv
<1>2. ASSUME NEW stage \in Stages \ {"off"}, Goto(d, stage), UNCHANGED outcome
      PROVE  GoesOn(d)
  BY <1>1, <1>2 DEF GoesOn, Goto, TypeOK
<1>3. \A left : Abandon(d, left) \/ Throw(d, left) => GoesOn(d) \/ Strands(d)
  BY <1>1, AbandonEnds DEF Throw
<1>4. CASE Unload(d)
  BY <1>2, <1>3, <1>4 DEF Unload, Stages
<1>5. CASE Remove(d)
  BY <1>2, <1>3, <1>5 DEF Remove, Stages
<1>6. CASE Ensure(d)
  <2>1. box.up = "absent"
    <3>1. Phase(d)
      BY <1>6 DEF Ensure, LoneInv
    <3>2. QED
      BY <1>6, <3>1 DEF Ensure, Phase
  <2>2. QED
    BY <1>2, <1>3, <1>6, <2>1 DEF Ensure, Stages
<1>7. CASE Create(d)
  <2>1. CASE CanMake(conf[d]) /\ box' = Made(conf[d]) /\ Created(d) /\ UNCHANGED <<cfg, conf, rolling>>
    <3>1. CASE d \in rolling
      BY <1>1, <1>7, <2>1, <3>1 DEF Create, Created, End, Goto, RollsBack, TypeOK
    <3>2. CASE d \notin rolling
      BY <1>2, <2>1, <3>2 DEF Created, Stages
    <3>3. QED
      BY <3>1, <3>2
  <2>2. CASE Throw(d, LeftBy(d))
    BY <1>3, <2>2
  <2>3. QED
    BY <1>7, <2>1, <2>2 DEF Create
<1>8. CASE Boot(d)
  BY <1>2, <1>3, <1>8 DEF Boot, Stages
<1>9. CASE Probe(d)
  BY <1>2, <1>3, <1>9 DEF Probe, Answered, NotReady, Stages
<1>10. CASE GiveUp(d)
  BY <1>3, <1>10 DEF GiveUp
<1>11. CASE StopProven(d)
  BY <1>2, <1>3, <1>11 DEF StopProven, Stages
<1>12. CASE RestProven(d)
  BY <1>2, <1>12 DEF RestProven, Stages
<1>13. QED
  BY <1>4, <1>5, <1>6, <1>7, <1>8, <1>9, <1>10, <1>11, <1>12 DEF ContainerStep

LEMMA RecoverContainer ==
    ASSUME DeployInv, LoneInv, RecoverInv, ~overlapped, NEW d \in Deployers, ContainerStep(d)
    PROVE  RecoverInv'
<1>1. pc[d] # "off" /\ HasBuilt(d)
  BY DEF ContainerStep, Unload, Remove, Ensure, Create, Boot, Probe, GiveUp, StopProven, RestProven, HasBuilt
<1>2. /\ d \in Actors /\ TypeOK /\ Phase(d) /\ \A q \in Actors \ {d} : pc[q] = "off"
      /\ Times /\ Fallback
  BY <1>1, LoneFacts DEF RecoverInv
<1>3. UNCHANGED <<images, broken, prev, stamp, clock, serving, crashed>>
  BY DEF ContainerStep, history
<1>4. Passes(d)
  BY <1>2, ReplaceWrites, StartWrites DEF ContainerStep, Writes
<1>5. \A e \in Deployers \ {d} : pc'[e] = "off" /\ e \in Actors
  BY <1>2, <1>4 DEF Passes, Actors
<1>6. pc'[d] \notin {"queued", "building"}
  BY <1>4 DEF Passes
<1>7. ~serving' => crashed'
  BY <1>2, <1>3 DEF Times
<1>8. CASE GoesOn(d)
  <2>1. Times'
    BY <1>2, <1>3, <1>5, <1>6, <1>7, <1>1, <1>8, TimesKept DEF GoesOn
  <2>2. Fallback'
    BY <1>1, <1>2, <1>3, <1>5, <1>6, <1>8, FallbackOn DEF GoesOn
  <2>3. QED
    BY <2>1, <2>2 DEF RecoverInv
<1>9. ASSUME pc'[d] = "off", Stranded' \/ ServesItsConfig'
      PROVE  RecoverInv'
  <2>1. Times'
    BY <1>2, <1>3, <1>5, <1>7, <1>9, TimesKept
  <2>2. Fallback'
    BY <1>5, <1>9, FallbackAtEnd
  <2>3. QED
    BY <2>1, <2>2 DEF RecoverInv
<1>10. CASE Strands(d)
  BY <1>1, <1>2, <1>3, <1>9, <1>10, StrandsNow DEF Strands
<1>11. CASE RollsBack(d)
  <2>1. /\ cfg' = prev[d].cfg /\ conf[d] = prev[d].cfg /\ Restorable(d)
        /\ box' = [build |-> images[conf[d].image], env |-> conf[d].env, up |-> "down"]
    BY <1>2, <1>11 DEF RollsBack, Phase, Made
  <2>2. crashed \/ Stranded \/ images[prev[d].cfg.image] \notin broken
    BY <1>1, <1>2, <2>1 DEF Fallback
  <2>3. CASE images[prev[d].cfg.image] \notin broken
    <3>1. ServesItsConfig'
      BY <1>3, <2>1, <2>3 DEF ServesItsConfig, Restorable
    <3>2. QED
      BY <1>9, <1>11, <3>1 DEF RollsBack
  <2>4. CASE crashed \/ Stranded
    <3>1. Times'
      BY <1>2, <1>3, <1>5, <1>7, <1>11, TimesKept DEF RollsBack
    <3>2. crashed' \/ Stranded'
      <4>1. CASE crashed
        BY <1>3, <4>1
      <4>2. CASE Stranded
        <5>1. PICK e \in Deployers : /\ outcome[e] = "stranded"
                                     /\ \A f \in Deployers : outcome[f] = "deployed" => stamp[f] < stamp[e]
          BY <4>2 DEF Stranded
        <5>2. e # d
          <6>1. Own(d)
            BY <1>1, LoneFacts
          <6>2. QED
            BY <1>1, <5>1, <6>1 DEF Own
        <5>3. \A f \in Deployers : outcome'[f] = outcome[f] \/ (f = d /\ outcome'[f] = "failed")
          BY <1>2, <1>11 DEF RollsBack, TypeOK
        <5>4. outcome'[e] = "stranded"
          BY <5>1, <5>2, <5>3
        <5>5. \A f \in Deployers : outcome'[f] = "deployed" => stamp'[f] < stamp'[e]
          BY <1>3, <5>1, <5>3
        <5>6. QED
          BY <5>4, <5>5 DEF Stranded
      <4>3. QED
        BY <2>4, <4>1, <4>2
    <3>3. Fallback'
      BY <3>2 DEF Fallback
    <3>4. QED
      BY <3>1, <3>3 DEF RecoverInv
  <2>5. QED
    BY <2>2, <2>3, <2>4
<1>12. QED
  BY <1>8, <1>10, <1>11, ContainerEnds

\* A deploy that failed changes nothing about the ones that were stranded before.
LEMMA StrandedStays ==
    ASSUME TypeOK, Stranded, NEW d \in Deployers, outcome[d] = "none", UNCHANGED stamp,
           outcome' = [outcome EXCEPT ![d] = "failed"]
    PROVE  Stranded'
<1>1. PICK e \in Deployers : /\ outcome[e] = "stranded"
                             /\ \A f \in Deployers : outcome[f] = "deployed" => stamp[f] < stamp[e]
  BY DEF Stranded
<1>2. \A f \in Deployers : outcome'[f] = outcome[f] \/ (f = d /\ outcome'[f] = "failed")
  BY DEF TypeOK
<1>3. outcome'[e] = "stranded"
  BY <1>1, <1>2
<1>4. \A f \in Deployers : outcome'[f] = "deployed" => stamp'[f] < stamp'[e]
  BY <1>1, <1>2
<1>5. QED
  BY <1>3, <1>4 DEF Stranded

LEMMA RecoverBuilds ==
    ASSUME DeployInv, LoneInv, RecoverInv, ~overlapped, NEW d \in Deployers,
           StartBuild(d) \/ BuildSucceeds(d) \/ BuildFails(d)
    PROVE  RecoverInv'
<1>1. pc[d] \in {"queued", "building"} /\ pc[d] # "off" /\ ~HasBuilt(d)
  BY DEF StartBuild, BuildSucceeds, BuildFails, HasBuilt
<1>2. /\ d \in Actors /\ TypeOK /\ Phase(d) /\ Own(d) /\ \A q \in Actors \ {d} : pc[q] = "off"
      /\ Times /\ Fallback /\ row # "gone"
  BY <1>1, LoneFacts DEF RecoverInv
<1>3. /\ row = prev[d].row /\ cfg = prev[d].cfg /\ outcome[d] = "none"
      /\ images[stamp[d]] = None /\ \A t \in Tags : images[t] # d
  BY <1>1, <1>2 DEF Phase, Own, Unbuilt, Times
<1>4. UNCHANGED <<prev, stamp, clock, serving, crashed, box>> /\ (~serving' => crashed')
  BY <1>2 DEF StartBuild, BuildSucceeds, BuildFails, history, locals, docker, Times
<1>5. \A x \in Destroyers : pc[x] = "off"
  BY <1>2, DeployAssumption DEF Actors
<1>6. \A e \in Deployers \ {d} : pc[e] = "off" /\ e \in Actors
  BY <1>2 DEF Actors
<1>7. row # "undeployed" /\ ~crashed /\ ~Stranded => ServesItsConfig
  BY <1>1, <1>2, <1>5, <1>6 DEF Fallback, Keeping
<1>8. CASE StartBuild(d)
  <2>1. UNCHANGED <<row, cfg, images, broken, outcome>> /\ pc' = [pc EXCEPT ![d] = "building"]
    BY <1>8 DEF StartBuild, locals, docker, Goto
  <2>2. pc'[d] = "building" /\ \A e \in Actors \ {d} : pc'[e] = "off"
    BY <1>2, <2>1 DEF TypeOK
  <2>3. \A e \in Deployers \ {d} : pc'[e] = "off"
    BY <1>6, <2>2
  <2>4. Times'
    BY <1>1, <1>2, <1>4, <2>1, <2>2, <2>3, TimesKept
  <2>5. Stranded' = Stranded /\ ServesItsConfig' = ServesItsConfig
    BY <1>4, <2>1 DEF Stranded, ServesItsConfig
  <2>6. ~crashed' /\ ~Stranded' /\ Keeping' => ServesItsConfig'
    BY <1>4, <1>7, <2>1, <2>5 DEF Keeping
  <2>7. Fallback'
    BY <2>2, <2>3, <2>6 DEF Fallback, HasBuilt
  <2>8. QED
    BY <2>4, <2>7 DEF RecoverInv
<1>9. CASE BuildSucceeds(d)
  <2>1. /\ pc' = [pc EXCEPT ![d] = "unloading"] /\ UNCHANGED outcome
        /\ images' = [images EXCEPT ![stamp[d]] = d] /\ broken' \in {broken, broken \cup {d}}
    BY <1>9 DEF BuildSucceeds, Goto
  <2>2. pc'[d] = "unloading" /\ \A e \in Actors \ {d} : pc'[e] = "off"
    BY <1>2, <2>1 DEF TypeOK
  <2>3. \A e \in Deployers \ {d} : pc'[e] = "off"
    BY <1>6, <2>2
  <2>4. Times'
    BY <1>1, <1>2, <1>4, <2>1, <2>2, <2>3, TimesKept DEF TypeOK
  <2>5. Stranded' = Stranded /\ Restorable(d)' = Restorable(d)
    BY <1>4, <2>1 DEF Stranded, Restorable
  <2>6. ASSUME ~crashed, ~Stranded, Restorable(d)
        PROVE  images'[prev[d].cfg.image] \notin broken'
    <3>1. /\ box.build = images[cfg.image] /\ box.build \notin broken /\ cfg.image # None
          /\ images[cfg.image] # None
      BY <1>2, <1>3, <1>7, <2>6 DEF ServesItsConfig, Restorable, Phase
    <3>2. cfg.image \in Tags /\ images[cfg.image] # d
      BY <1>2, <1>3, <3>1 DEF TypeOK, Config
    <3>3. images'[cfg.image] = images[cfg.image]
      BY <1>2, <1>3, <2>1, <3>1, <3>2 DEF TypeOK
    <3>4. QED
      BY <1>3, <2>1, <3>1, <3>2, <3>3
  <2>7. Fallback'
    BY <1>4, <2>2, <2>3, <2>5, <2>6 DEF Fallback, Keeping
  <2>8. QED
    BY <2>4, <2>7 DEF RecoverInv
<1>10. CASE BuildFails(d)
  <2>1. /\ UNCHANGED <<images, broken, cfg>>
        /\ \/ prev[d].row = "undeployed" /\ pc' = [pc EXCEPT ![d] = "clearing"] /\ UNCHANGED <<row, outcome>>
           \/ /\ prev[d].row # "undeployed" /\ pc' = [pc EXCEPT ![d] = "off"]
              /\ outcome' = [outcome EXCEPT ![d] = "failed"]
    BY <1>10 DEF BuildFails, Withdraw, Goto, End, docker
  <2>2. \A e \in Deployers \ {d} : pc'[e] = "off" /\ outcome'[e] = outcome[e]
    BY <1>2, <1>6, <2>1 DEF TypeOK
  <2>3. pc'[d] \in {"clearing", "off"}
    BY <1>2, <2>1 DEF TypeOK
  <2>4. Times'
    BY <1>1, <1>2, <1>4, <2>1, <2>2, <2>3, TimesKept
  <2>5. CASE prev[d].row = "undeployed"
    <3>1. pc'[d] = "clearing" /\ UNCHANGED outcome /\ ~Restorable(d)
      BY <1>2, <2>1, <2>5 DEF TypeOK, Restorable
    <3>2. Fallback'
      BY <1>1, <1>2, <1>4, <2>1, <2>2, <3>1, FallbackOn
    <3>3. QED
      BY <2>4, <3>2 DEF RecoverInv
  <2>6. CASE prev[d].row # "undeployed"
    <3>1. pc'[d] = "off" /\ outcome' = [outcome EXCEPT ![d] = "failed"]
      BY <1>2, <2>1, <2>6 DEF TypeOK
    <3>2. \A e \in Deployers : pc'[e] = "off"
      BY <2>2, <3>1
    <3>3. CASE crashed
      BY <1>4, <2>4, <3>3 DEF RecoverInv, Fallback
    <3>4. CASE Stranded
      <4>1. Stranded'
        BY <1>2, <1>3, <1>4, <3>1, <3>4, StrandedStays
      <4>2. QED
        BY <2>4, <3>2, <4>1, FallbackAtEnd DEF RecoverInv
    <3>5. CASE ~crashed /\ ~Stranded
      <4>1. ServesItsConfig'
        BY <1>3, <1>4, <1>7, <2>1, <2>6, <3>5 DEF ServesItsConfig
      <4>2. QED
        BY <2>4, <3>2, <4>1, FallbackAtEnd DEF RecoverInv
    <3>6. QED
      BY <3>3, <3>4, <3>5
  <2>7. QED
    BY <2>5, <2>6
<1>11. QED
  BY <1>8, <1>9, <1>10

LEMMA RecoverTail ==
    ASSUME DeployInv, LoneInv, RecoverInv, ~overlapped, NEW d \in Deployers, Prune(d) \/ Clear(d) \/ Wipe(d)
    PROVE  RecoverInv'
<1>1. pc[d] # "off" /\ HasBuilt(d)
  BY DEF Prune, Clear, Wipe, HasBuilt
<1>2. /\ d \in Actors /\ TypeOK /\ Phase(d) /\ Own(d) /\ \A q \in Actors \ {d} : pc[q] = "off"
      /\ Times /\ Fallback /\ row # "gone"
  BY <1>1, LoneFacts DEF RecoverInv
<1>3. UNCHANGED <<prev, stamp, clock, serving, crashed, cfg, broken>> /\ (~serving' => crashed')
  <2>1. UNCHANGED <<prev, stamp, clock, serving, crashed, broken>>
    BY DEF Prune, Clear, Wipe, history
  <2>2. UNCHANGED cfg
    BY <1>2 DEF Prune, Clear, Wipe
  <2>3. QED
    BY <1>2, <2>1, <2>2 DEF Times
<1>4. /\ pc'[d] \in {"off", "wiping"} /\ \A e \in Deployers \ {d} : pc'[e] = "off" /\ outcome'[e] = outcome[e]
      /\ \A t \in Tags : images'[t] # None => images[t] # None
  <2>1. CASE Prune(d)
    <3>1. End(d, "deployed")
      BY <1>2, <2>1 DEF Prune
    <3>2. \A t \in Tags : images'[t] # None => images[t] # None
      BY <2>1 DEF Prune, PrunedTo
    <3>3. QED
      BY <1>2, <3>1, <3>2 DEF End, Goto, TypeOK, Actors
  <2>2. CASE Clear(d) \/ Wipe(d)
    BY <1>2, <2>2 DEF Clear, Wipe, End, Goto, TypeOK, Actors
  <2>3. QED
    BY <2>1, <2>2
<1>5. Times'
  BY <1>1, <1>2, <1>3, <1>4, TimesKept
<1>6. CASE Prune(d)
  <2>1. /\ pc[d] = "pruning" /\ pc'[d] = "off" /\ UNCHANGED box
        /\ images'[stamp[d]] = images[stamp[d]]
    BY <1>2, <1>6 DEF Prune, PrunedTo, Stale, End, Goto, TypeOK
  <2>2. /\ box.up # "absent" /\ box.build = d /\ box.env = conf[d].env /\ d \notin broken
        /\ cfg = NewConfig(d) /\ conf[d] = NewConfig(d) /\ images[stamp[d]] = d
    BY <1>2, <2>1 DEF Phase, UpStages, LoadStages
  <2>3. cfg.image = stamp[d] /\ stamp[d] # None
    BY <1>2, <2>2, DeployAssumption DEF NewConfig, TypeOK, Tags
  <2>4. ServesItsConfig'
    BY <1>3, <2>1, <2>2, <2>3 DEF ServesItsConfig
  <2>5. QED
    BY <1>4, <1>5, <2>1, <2>4, FallbackAtEnd DEF RecoverInv
<1>7. CASE Clear(d) \/ Wipe(d)
  <2>1. CASE pc'[d] = "off"
    <3>1. row' = "undeployed"
      BY <1>2, <1>7, <2>1 DEF Clear, Wipe, SetRow, Goto, TypeOK
    <3>2. QED
      BY <1>4, <1>5, <2>1, <3>1, FallbackAtEnd DEF RecoverInv
  <2>2. CASE pc'[d] # "off"
    <3>1. UNCHANGED <<outcome, images>>
      BY <1>2, <1>7, <2>2 DEF Clear, Wipe, End, Goto, TypeOK
    <3>2. Fallback'
      BY <1>1, <1>2, <1>3, <1>4, <2>2, <3>1, FallbackOn
    <3>3. QED
      BY <1>5, <3>2 DEF RecoverInv
  <2>3. QED
    BY <2>1, <2>2
<1>8. QED
  BY <1>6, <1>7

\* What a step of somebody else owes, while no deploy has built.
LEMMA FallbackOther ==
    ASSUME Fallback, \A d \in Deployers : pc'[d] \in {"off", "queued", "building"},
           UNCHANGED <<outcome, stamp, crashed>>,
           Keeping' /\ ~crashed /\ ~Stranded => ServesItsConfig'
    PROVE  Fallback'
<1>1. Stranded' = Stranded
  BY DEF Stranded
<1>2. \A d \in Deployers : pc'[d] = "off" \/ ~HasBuilt(d)'
  BY DEF HasBuilt
<1>3. ~crashed' /\ ~Stranded' => ~crashed /\ ~Stranded
  BY <1>1
<1>4. QED
  BY <1>2, <1>3 DEF Fallback

LEMMA RecoverBegins ==
    ASSUME SameSecond = FALSE, DeployInv, LoneInv, RecoverInv, NEW d \in Deployers, BeginDeploy(d), ~overlapped'
    PROVE  RecoverInv'
<1>1. ~overlapped /\ \A q \in Actors : pc[q] = "off"
  BY DEF BeginDeploy, MayBegin, Active
<1>2. /\ UNCHANGED <<row, cfg, images, broken, box, outcome, crashed>>
      /\ pc' = [pc EXCEPT ![d] = "queued"] /\ pc \in [Actors -> Stages] /\ d \in Actors
  BY DEF BeginDeploy, docker, Goto, DeployInv, TypeOK, Actors
<1>3. Times /\ Fallback
  BY <1>1 DEF RecoverInv
<1>4. Times'
  BY <1>3, TimesBegin
<1>5. \A e \in Deployers : pc[e] = "off" /\ pc'[e] \in {"off", "queued"}
  BY <1>1, <1>2 DEF Actors
<1>6. Keeping' => Keeping
  BY <1>1, <1>2, <1>5 DEF Keeping, Actors
<1>7. ServesItsConfig' = ServesItsConfig
  BY <1>2 DEF ServesItsConfig
<1>8. \A e \in Deployers : outcome[e] \in {"stranded", "deployed"} => e # d
  BY DEF BeginDeploy
<1>9. Stranded' = Stranded
  <2>1. \A e \in Deployers \ {d} : stamp'[e] = stamp[e]
    BY DEF BeginDeploy, DeployInv, TypeOK
  <2>2. QED
    BY <1>2, <1>8, <2>1 DEF Stranded
<1>10. \A e \in Deployers : pc'[e] = "off" \/ ~HasBuilt(e)'
  BY <1>5 DEF HasBuilt
<1>11. Fallback'
  BY <1>2, <1>3, <1>6, <1>7, <1>9, <1>10 DEF Fallback
<1>12. QED
  BY <1>4, <1>11 DEF RecoverInv

\* A container step of a wake: with something to serve, nothing is created.
LEMMA RecoverWakes ==
    ASSUME DeployInv, LoneInv, RecoverInv, ~overlapped, NEW w \in Wakers, ContainerStep(w)
    PROVE  RecoverInv'
<1> USE DEF DeployInv
<1>1. w \in Actors \ Deployers /\ w \notin rolling
  BY DeployAssumption DEF Actors, TypeOK
<1>2. /\ Ensure(w) \/ Create(w) \/ Boot(w) \/ Probe(w) \/ GiveUp(w)
      /\ UNCHANGED <<images, broken, prev, stamp, clock, serving, crashed>>
  BY WakerStays DEF ContainerStep, history
<1>3. pc[w] # "off"
  BY <1>2 DEF Ensure, Create, Boot, Probe, GiveUp
<1>4. /\ row # "gone" /\ row # "undeployed" /\ Times /\ Fallback
      /\ \A q \in Actors \ {w} : pc[q] = "off" /\ pc'[q] = "off"
  BY <1>1, <1>3, ContainerWrites DEF LoneInv, Alone, Ground, RecoverInv, Passes
<1>5. \A d \in Deployers : pc[d] = "off" /\ pc'[d] = "off"
  BY <1>1, <1>4 DEF Actors
<1>6. \A x \in Destroyers : pc[x] = "off"
  BY <1>4, DeployAssumption DEF Actors
<1>7. UNCHANGED <<cfg, outcome>>
  <2>1. \A left : Throw(w, left) => UNCHANGED <<cfg, outcome>>
    BY <1>1 DEF Throw
  <2>2. Created(w) => UNCHANGED outcome
    BY <1>1 DEF Created
  <2>3. CASE Ensure(w)
    BY <2>1, <2>2, <2>3 DEF Ensure
  <2>4. CASE Create(w)
    BY <2>1, <2>2, <2>4 DEF Create
  <2>5. CASE Boot(w)
    BY <2>1, <2>5 DEF Boot
  <2>6. CASE Probe(w)
    BY <1>1, <2>6 DEF Probe, Answered, NotReady
  <2>7. CASE GiveUp(w)
    BY <2>1, <2>7 DEF GiveUp
  <2>8. QED
    BY <1>2, <2>3, <2>4, <2>5, <2>6, <2>7
<1>8. ASSUME ServesItsConfig
      PROVE  ServesItsConfig'
  <2>1. box.up # "absent" /\ ~CanMake(conf[w])
    BY <1>8 DEF ServesItsConfig, CanMake
  <2>2. Halted.build = box.build /\ Halted.env = box.env /\ Halted.up # "absent"
    BY <2>1 DEF Halted, IsUp, TypeOK
  <2>3. box'.build = box.build /\ box'.env = box.env /\ box'.up # "absent"
    <3>1. CASE Ensure(w)
      BY <2>1, <3>1 DEF Ensure
    <3>2. CASE Create(w)
      BY <2>1, <3>2 DEF Create
    <3>3. CASE Boot(w)
      BY <2>1, <3>3 DEF Boot, TypeOK
    <3>4. CASE Probe(w)
      BY <2>1, <3>4 DEF Probe
    <3>5. CASE GiveUp(w)
      BY <2>1, <2>2, <3>5 DEF GiveUp
    <3>6. QED
      BY <1>2, <3>1, <3>2, <3>3, <3>4, <3>5
  <2>4. QED
    BY <1>2, <1>7, <1>8, <2>3, ServesOn
<1>9. ~crashed /\ ~Stranded => ServesItsConfig
  BY <1>4, <1>5, <1>6 DEF Fallback, Keeping
<1>10. Fallback'
  BY <1>2, <1>4, <1>5, <1>7, <1>8, <1>9, FallbackOther
<1>11. Times'
  BY <1>2, <1>4, <1>5, <1>7, TimesKept DEF Times
<1>12. QED
  BY <1>10, <1>11 DEF RecoverInv

\* A beginning wake, the hibernator, a destroy.
LEMMA RecoverOthers ==
    ASSUME DeployInv, LoneInv, RecoverInv, ~overlapped, NEW p \in Actors \ Deployers,
           \/ p \in Wakers /\ BeginWake(p)
           \/ p \in Sleepers /\ (BeginSleep(p) \/ Sleep(p))
           \/ p \in Destroyers /\ (BeginDestroy(p) \/ Destroy(p)),
           ~overlapped'
    PROVE  RecoverInv'
<1>0. TypeOK /\ Times /\ Fallback
  BY DEF DeployInv, RecoverInv
<1>1. /\ UNCHANGED <<cfg, broken, clock, prev, stamp, outcome, serving, crashed>>
      /\ \E stage : pc' = [pc EXCEPT ![p] = stage]
  BY DEF BeginWake, BeginSleep, Sleep, BeginDestroy, Destroy, docker, history, locals, Goto
<1>2. \A q \in Actors \ {p} : pc'[q] = pc[q]
  BY <1>0, <1>1 DEF TypeOK
<1>3. \A q \in Actors \ {p} : pc[q] = "off"
  <2>1. CASE Active = {}
    BY <2>1 DEF Active
  <2>2. CASE pc[p] # "off"
    BY <2>2 DEF LoneInv, Alone
  <2>3. Active = {} \/ pc[p] # "off"
    <3>1. CASE Sleep(p) \/ Destroy(p)
      BY <3>1 DEF Sleep, Destroy
    <3>2. CASE BeginWake(p) \/ BeginSleep(p) \/ BeginDestroy(p)
      <4>1. MayBegin(p)
        BY <3>2 DEF BeginWake, BeginSleep, BeginDestroy
      <4>2. QED
        BY <4>1 DEF MayBegin
    <3>3. QED
      BY <3>1, <3>2
  <2>4. QED
    BY <2>1, <2>2, <2>3
<1>4. \A d \in Deployers : pc[d] = "off" /\ pc'[d] = "off"
  BY <1>2, <1>3 DEF Actors
<1>5. \A t \in Tags : images'[t] # None => images[t] # None
  BY DEF BeginWake, BeginSleep, Sleep, BeginDestroy, Destroy, docker, PrunedTo
<1>6. Times'
  BY <1>0, <1>1, <1>4, <1>5, TimesKept DEF Times
<1>7. ASSUME p \notin Destroyers, ServesItsConfig
      PROVE  ServesItsConfig'
  <2>1. box' \in {box, Halted} /\ UNCHANGED images
    BY <1>7 DEF BeginWake, BeginSleep, Sleep, docker
  <2>2. box.up # "absent"
    BY <1>7 DEF ServesItsConfig
  <2>3. Halted.build = box.build /\ Halted.env = box.env /\ Halted.up # "absent"
    BY <1>0, <2>2 DEF Halted, IsUp, TypeOK
  <2>4. QED
    BY <1>1, <1>7, <2>1, <2>2, <2>3, ServesOn
<1>8. ASSUME p \notin Destroyers, Keeping'
      PROVE  Keeping
  <2>1. row # "undeployed" /\ row # "gone"
    <3>1. CASE BeginWake(p) \/ BeginSleep(p)
      BY <3>1 DEF BeginWake, BeginSleep
    <3>2. CASE Sleep(p)
      BY <3>2 DEF Sleep, LoneInv, Ground
    <3>3. QED
      BY <1>8, <3>1, <3>2
  <2>2. \A x \in Destroyers : pc[x] = "off"
    BY <1>3, <1>8 DEF Actors
  <2>3. QED
    BY <1>4, <2>1, <2>2 DEF Keeping
<1>9. ASSUME p \in Destroyers
      PROVE  ~Keeping'
  <2>1. p \notin Wakers \cup Sleepers
    BY <1>9, DeployAssumption
  <2>2. CASE BeginDestroy(p)
    BY <1>0, <1>9, <2>2 DEF BeginDestroy, Goto, Keeping, TypeOK
  <2>3. CASE Destroy(p)
    BY <1>0, <1>9, <2>3 DEF Destroy, Goto, Keeping, TypeOK
  <2>4. QED
    BY <2>1, <2>2, <2>3
<1>10. Keeping' /\ ~crashed /\ ~Stranded => ServesItsConfig'
  BY <1>0, <1>7, <1>8, <1>9 DEF Fallback
<1>11. Fallback'
  BY <1>0, <1>1, <1>4, <1>10, FallbackOther
<1>12. QED
  BY <1>6, <1>11 DEF RecoverInv

LEMMA RecoverWorld ==
    ASSUME DeployInv, LoneInv, RecoverInv, ~overlapped, BoxBoots \/ Crash \/ Reconcile
    PROVE  RecoverInv'
<1>0. TypeOK /\ Times /\ Fallback
  BY DEF DeployInv, RecoverInv
<1>1. CASE BoxBoots
  <2>1. /\ UNCHANGED <<row, cfg, images, broken, clock, pc, prev, stamp, outcome, serving, crashed>>
        /\ box'.build = box.build /\ box'.env = box.env /\ box'.up # "absent"
    BY <1>0, <1>1 DEF BoxBoots, locals, history, TypeOK
  <2>2. Times'
    BY <1>0, <2>1 DEF Times
  <2>3. ServesItsConfig => ServesItsConfig'
    BY <2>1, ServesOn
  <2>4. Keeping' = Keeping /\ Stranded' = Stranded
    BY <2>1 DEF Keeping, Stranded
  <2>5. \A d \in Deployers : HasBuilt(d)' = HasBuilt(d) /\ Restorable(d)' = Restorable(d)
    BY <2>1 DEF HasBuilt, Restorable
  <2>6. ~crashed' /\ ~Stranded' => ~crashed /\ ~Stranded
    BY <2>1, <2>4
  <2>7. Fallback'
    BY <1>0, <2>1, <2>3, <2>4, <2>5, <2>6 DEF Fallback
  <2>8. QED
    BY <2>2, <2>7 DEF RecoverInv
<1>2. CASE Crash
  <2>1. /\ UNCHANGED <<images, clock, stamp>> /\ crashed' = TRUE
        /\ \A p \in Actors : pc'[p] = "off"
    BY <1>2 DEF Crash, docker
  <2>2. \A d \in Deployers : pc'[d] = "off"
    BY <2>1 DEF Actors
  <2>3. Times'
    BY <1>0, <2>1, <2>2 DEF Times
  <2>4. QED
    BY <2>1, <2>3 DEF RecoverInv, Fallback
<1>3. CASE Reconcile
  <2>1. crashed /\ \A p \in Actors : pc[p] = "off"
    BY <1>0, <1>3 DEF Reconcile, Times, LoneInv, Ground
  <2>2. UNCHANGED <<clock, stamp, pc, outcome, crashed>> /\ serving' = TRUE
    BY <1>3 DEF Reconcile, locals, history
  <2>3. \A t \in Tags : images'[t] # None => images[t] # None
    BY <1>3 DEF Reconcile, PrunedTo
  <2>4. \A d \in Deployers : pc'[d] = "off"
    BY <2>1, <2>2 DEF Actors
  <2>5. Times'
    BY <1>0, <2>2, <2>3, <2>4, TimesKept
  <2>6. QED
    BY <2>1, <2>2, <2>5 DEF RecoverInv, Fallback
<1>4. QED
  BY <1>1, <1>2, <1>3

LEMMA RecoverNext ==
    ASSUME SameSecond = FALSE, DeployInv, LoneInv, RecoverInv, [Next]_vars
    PROVE  RecoverInv'
<1> SUFFICES ASSUME ~overlapped' PROVE RecoverInv'
  BY DEF RecoverInv
<1>0. ~overlapped
  BY Overlaps
<1>1. CASE UNCHANGED vars
  <2>1. UNCHANGED <<row, cfg, images, broken, box, clock, pc, prev, stamp, outcome, serving, crashed>>
    BY <1>1 DEF vars, locals, docker, history
  <2>2. Times' = Times /\ Stranded' = Stranded /\ Keeping' = Keeping /\ ServesItsConfig' = ServesItsConfig
    BY <2>1 DEF Times, Stranded, Keeping, ServesItsConfig
  <2>3. \A d \in Deployers : HasBuilt(d)' = HasBuilt(d) /\ Restorable(d)' = Restorable(d)
    BY <2>1 DEF HasBuilt, Restorable
  <2>4. QED
    BY <1>0, <2>1, <2>2, <2>3 DEF RecoverInv, Fallback
<1>2. ASSUME NEW d \in Deployers, BeginDeploy(d) \/ DeployStep(d)
      PROVE  RecoverInv'
  BY <1>0, <1>2, RecoverBegins, RecoverBuilds, RecoverContainer, RecoverTail DEF DeployStep
<1>3. Wakers \cup Sleepers \cup Destroyers \subseteq Actors \ Deployers
  BY DeployAssumption DEF Actors
<1>4. CASE \/ \E w \in Wakers : BeginWake(w) \/ ContainerStep(w)
           \/ \E h \in Sleepers : BeginSleep(h) \/ Sleep(h)
           \/ \E x \in Destroyers : BeginDestroy(x) \/ Destroy(x)
  BY <1>0, <1>3, <1>4, RecoverWakes, RecoverOthers
<1>5. CASE BoxBoots \/ Crash \/ Reconcile
  BY <1>0, <1>5, RecoverWorld
<1>6. QED
  BY <1>1, <1>2, <1>4, <1>5 DEF Next

\* Where no two deploys of a resource are asked for within one second, deploys that
\* come one after the other fall back on something that serves, for any number of
\* them and whatever fails: the image is there, and the container is the config's.
THEOREM DeployRecovers ==
    ASSUME SameSecond = FALSE
    PROVE  Spec => []DeploysRecover
<1>1. DeployInv /\ LoneInv /\ RecoverInv => DeploysRecover
  <2>1. SUFFICES ASSUME DeployInv, LoneInv, RecoverInv
                 PROVE  LoneDeploysServe /\ RollbackImageIsKept
    BY DEF DeploysRecover
  <2>2. RollbackImageIsKept
    BY <2>1 DEF RollbackImageIsKept, LoneInv, Active, Phase
  <2>3. Rest /\ row \in {"sleeping", "running"} => Keeping
    BY DEF Rest, Active, Keeping, Actors
  <2>4. LoneDeploysServe
    BY <2>1, <2>3 DEF LoneDeploysServe, RecoverInv, Fallback
  <2>5. QED
    BY <2>2, <2>4
<1>2. DeployInv /\ LoneInv /\ RecoverInv /\ [Next]_vars => RecoverInv'
  BY RecoverNext
<1>3. QED
  BY <1>1, <1>2, DeployInit, DeployNext, LoneInit, LoneNext, RecoverInit, PTL DEF Spec
=============================================================================
