------------------------------ MODULE Deploy ------------------------------
(***************************************************************************)
(* Deploys of one app or worker (app.ts, worker.ts): build an image, commit *)
(* the new config, replace the container, prove that it serves, put it to  *)
(* sleep - or put the previous version back.  Around it everything else    *)
(* that touches the same row and container: other deploys, a wake, the     *)
(* hibernator, a destroy, and a daemon that dies half way.                 *)
(*                                                                         *)
(* deployApp works from the resource its route read before the build, which *)
(* takes minutes.  Nothing but the builds themselves is serialised.        *)
(***************************************************************************)
EXTENDS Integers, FiniteSets

CONSTANTS
    Deployers,   \* POST /deploy requests, one deploy each
    EnvGivers,   \* those of them that give a new environment
    Wakers,      \* {wake}: automatic wakes share one promise
    Sleepers,    \* {hibernator}
    Destroyers,  \* DELETE /resources/:id
    Kinds,       \* what the resource may be: app, worker
    First,       \* the version deployed at the beginning
    None,
    StartsAs,    \* the states it may be in at the beginning
    Faults,      \* "docker", "clean up", "build", "bad", "boot", "daemon"
    Concurrency, \* bound: how many of the actors are at work at once
    LastSecond,  \* bound: the clock ends here
    SameSecond   \* bound: two deploys may be asked for within one second

Keep == 3        \* IMAGE_TAGS_TO_KEEP

Builds == Deployers \cup {First}
Tags   == 0 .. LastSecond
Actors == Deployers \cup Wakers \cup Sleepers \cup Destroyers
Config == [image : Tags \cup {None}, env : Builds]

ASSUME DeployAssumption ==
    /\ EnvGivers \subseteq Deployers
    /\ LastSecond \in Nat /\ Concurrency \in Nat
    /\ Kinds \subseteq {"app", "worker"}
    /\ StartsAs \subseteq {"undeployed", "sleeping", "running"} /\ SameSecond \in BOOLEAN
    /\ None \notin Nat \cup Builds \cup Actors
    /\ First \notin Actors
    /\ Deployers \cap (Wakers \cup Sleepers \cup Destroyers) = {}
    /\ Wakers \cap (Sleepers \cup Destroyers) = {}
    /\ Sleepers \cap Destroyers = {}

VARIABLES
    kind,       \* the resource's, for good
    row,        \* ResourceState, or gone
    cfg,        \* the row's config
    images,     \* tag -> the build it names, or None
    broken,     \* builds whose process never listens
    box,        \* the container: the build and environment it was created from
    clock,      \* the second in which a deploy was last asked for
    chain,      \* buildChain: how many promises it has been chained through
    turn,       \* deployer -> the number of its own, 0 before it has one
    pc,
    prev,       \* deployer -> the row and config it captured
    conf,       \* actor -> the config its container is made from
    stamp,      \* deployer -> its tag
    rolling,    \* deployers that are rolling back
    outcome,    \* deployer -> deployed; failed and undone; or failed and stranded
    serving,    \* FALSE between a crash and the end of reconcile
    overlapped, \* history: two actors were at work at once
    crashed     \* history: the daemon died

locals  == <<turn, prev, conf, stamp, rolling, outcome>>
docker  == <<images, broken, box>>
history == <<overlapped, crashed>>
vars    == <<kind, row, cfg, docker, clock, chain, pc, locals, serving, history>>

NoBox == [build |-> None, env |-> First, up |-> "absent"]

Rows == {"undeployed", "starting", "running", "stopping", "sleeping", "failed",
         "destroying", "gone"}
Ups  == {"absent", "down", "booting", "ready"}

Active == {p \in Actors : pc[p] # "off"}
Rest   == Active = {}
IsWorker == kind = "worker"
IsUp   == box.up \in {"booting", "ready"}
Fails  == "docker" \in Faults
CleanUpFails == "clean up" \in Faults

Goto(p, stage) == pc' = [pc EXCEPT ![p] = stage]

\* A write to a row that was deleted meanwhile updates nothing.
SetRow(s) == row' = IF row = "gone" THEN row ELSE s
SetCfg(c) == cfg' = IF row = "gone" THEN cfg ELSE c

End(d, said) == Goto(d, "off") /\ outcome' = [outcome EXCEPT ![d] = said]

Restorable(d) == prev[d].cfg.image # None /\ prev[d].row \in {"sleeping", "running"}

-----------------------------------------------------------------------------
(* Docker commands on the one container.  Halted is `docker stop`, which   *)
(* is a no-op when there is none.                                          *)

\* Faulty variant: the state is kept in docker's word for it.
HaltedInDockersWords == [box EXCEPT !.up = IF IsUp THEN "exited" ELSE @]

Halted   == [box EXCEPT !.up = IF IsUp THEN "down" ELSE @]
Made(c)  == [build |-> images[c.image], env |-> c.env, up |-> "down"]
CanMake(c) == box.up = "absent" /\ c.image # None /\ images[c.image] # None

-----------------------------------------------------------------------------
(* The failure of a deploy.                                                *)

\* Faulty variant: the container of the previous version under the new config.
AbandonKeepingConfig(d, left) ==
    IF d \in rolling
    THEN SetRow("failed") /\ End(d, "stranded") /\ UNCHANGED <<cfg, conf, rolling>>
    ELSE IF prev[d].row = "undeployed"
    THEN SetRow(left) /\ Goto(d, "clearing") /\ UNCHANGED <<cfg, conf, rolling, outcome>>
    ELSE IF Restorable(d)
    THEN /\ SetRow(left)
         /\ conf' = [conf EXCEPT ![d] = prev[d].cfg]
         /\ rolling' = rolling \cup {d}
         /\ Goto(d, "unloading")
         /\ UNCHANGED <<cfg, outcome>>
    ELSE SetRow("failed") /\ End(d, "stranded") /\ UNCHANGED <<cfg, conf, rolling>>

\* rollBackDeploy or the catch of a first deploy, after `replaced`: left is the
\* row as the code before the throw leaves it.
Abandon(d, left) ==
    IF d \in rolling
    THEN SetRow("failed") /\ End(d, "stranded") /\ UNCHANGED <<cfg, conf, rolling>>
    ELSE IF prev[d].row = "undeployed"
    THEN SetRow(left) /\ Goto(d, "clearing") /\ UNCHANGED <<cfg, conf, rolling, outcome>>
    ELSE IF Restorable(d)
    THEN /\ SetRow(left)
         /\ SetCfg(prev[d].cfg)
         /\ conf' = [conf EXCEPT ![d] = prev[d].cfg]
         /\ rolling' = rolling \cup {d}
         /\ Goto(d, "unloading")
         /\ UNCHANGED outcome
    ELSE SetRow("failed") /\ End(d, "stranded") /\ UNCHANGED <<cfg, conf, rolling>>

\* The same before anything was replaced: the captured state is written back.
Withdraw(d) ==
    /\ IF prev[d].row = "undeployed"
       THEN Goto(d, "clearing") /\ UNCHANGED <<row, outcome>>
       ELSE /\ SetRow(IF Restorable(d) THEN prev[d].row ELSE "failed")
            /\ End(d, "failed")
    /\ UNCHANGED <<cfg, conf, rolling>>

\* An error in a container step: a wake's handler writes failed and throws, a
\* worker's deploy goes through that same handler.
Throw(p, left) ==
    IF p \in Deployers
    THEN Abandon(p, left)
    ELSE SetRow("failed") /\ Goto(p, "off") /\ UNCHANGED <<cfg, conf, rolling, outcome>>

InStartWorker(p) == IsWorker /\ p \in Deployers \ rolling
LeftBy(p) == IF InStartWorker(p) THEN "failed" ELSE row

-----------------------------------------------------------------------------
(* A deploy up to the commit.                                              *)

MayBegin(p) ==
    /\ serving /\ pc[p] = "off"
    /\ Cardinality(Active) < Concurrency
    /\ overlapped' = (overlapped \/ Active # {})

\* Bound: unless a run is about it, no two deploys fall into one second.
Now == {t \in {clock, clock + 1} : t <= LastSecond /\ (SameSecond \/ t > clock)}

\* The route reads the resource; deployApp stamps its tag and takes its place
\* in the build chain.
BeginDeploy(d) ==
    /\ MayBegin(d) /\ outcome[d] = "none" /\ row # "gone"
    /\ clock' \in Now
    /\ prev' = [prev EXCEPT ![d] = [row |-> row, cfg |-> cfg]]
    /\ stamp' = [stamp EXCEPT ![d] = clock']
    /\ turn' = [turn EXCEPT ![d] = chain + 1]
    /\ chain' = chain + 1
    /\ Goto(d, "queued")
    /\ UNCHANGED <<kind, row, cfg, docker, conf, rolling, outcome, serving, crashed>>

HasBuilt(d) == pc[d] \notin {"queued", "building"}

\* The deploys whose promise d's is chained to.
AheadOf(d) == {e \in Deployers : turn[e] # 0 /\ turn[e] = turn[d] - 1}

\* Faulty variant: only a build that runs already is waited for.
StartBuildAtOnce(d) ==
    /\ pc[d] = "queued"
    /\ \A e \in AheadOf(d) : pc[e] # "building"
    /\ Goto(d, "building")
    /\ UNCHANGED <<kind, row, cfg, docker, clock, chain, locals, serving, history>>

\* Faulty variant: a build that fails is never followed by another.
StartBuildAfterSuccess(d) ==
    /\ pc[d] = "queued"
    /\ \A e \in AheadOf(d) : HasBuilt(e) /\ images[stamp[e]] = e
    /\ Goto(d, "building")
    /\ UNCHANGED <<kind, row, cfg, docker, clock, chain, locals, serving, history>>

\* withBuildLock: chained to the build before it, however that one ended.
StartBuild(d) ==
    /\ pc[d] = "queued"
    /\ \A e \in AheadOf(d) : HasBuilt(e)
    /\ Goto(d, "building")
    /\ UNCHANGED <<kind, row, cfg, docker, clock, chain, locals, serving, history>>

NewConfig(d) ==
    [image |-> stamp[d], env |-> IF d \in EnvGivers THEN d ELSE prev[d].cfg.env]

\* Faulty variant: the tags of earlier builds are forced off the disk at once.
BuildReplacesImages(d) ==
    /\ pc[d] = "building"
    /\ images' = [t \in Tags |-> IF t = stamp[d] THEN d ELSE None]
    /\ broken' \in {broken} \cup (IF "bad" \in Faults THEN {broken \cup {d}} ELSE {})
    /\ SetCfg(NewConfig(d))
    /\ conf' = [conf EXCEPT ![d] = NewConfig(d)]
    /\ SetRow(IF IsWorker THEN row ELSE "starting")
    /\ Goto(d, "unloading")
    /\ UNCHANGED <<kind, box, clock, chain, turn, prev, stamp, rolling, outcome, serving, history>>

\* The build ends well: config and state are written in one go, the app's state
\* at once, a worker's only when its start handler is reached.
BuildSucceeds(d) ==
    /\ pc[d] = "building"
    /\ images' = [images EXCEPT ![stamp[d]] = d]
    /\ broken' \in {broken} \cup (IF "bad" \in Faults THEN {broken \cup {d}} ELSE {})
    /\ SetCfg(NewConfig(d))
    /\ conf' = [conf EXCEPT ![d] = NewConfig(d)]
    /\ SetRow(IF IsWorker THEN row ELSE "starting")
    /\ Goto(d, "unloading")
    /\ UNCHANGED <<kind, box, clock, chain, turn, prev, stamp, rolling, outcome, serving, history>>

BuildFails(d) ==
    /\ pc[d] = "building" /\ "build" \in Faults
    /\ Withdraw(d)
    /\ UNCHANGED <<kind, docker, clock, chain, turn, prev, stamp, serving, history>>

-----------------------------------------------------------------------------
(* The container is replaced: stop, remove, create, start, wait.  The wake *)
(* shares the last three.                                                  *)

\* Faulty variant: the container is restarted, not replaced.
UnloadOnly(d) ==
    /\ pc[d] = "unloading"
    /\ \/ box' = Halted /\ Goto(d, "ensuring")
          /\ UNCHANGED <<row, cfg, conf, rolling, outcome>>
       \/ Fails /\ Abandon(d, row) /\ UNCHANGED box

Unload(d) ==
    /\ pc[d] = "unloading"
    /\ \/ box' = Halted /\ Goto(d, "removing")
          /\ UNCHANGED <<row, cfg, conf, rolling, outcome>>
       \/ Fails /\ Abandon(d, row) /\ UNCHANGED box

\* `docker rm` refuses a container that runs.
Remove(d) ==
    /\ pc[d] = "removing"
    /\ \/ /\ ~IsUp
          /\ box' = NoBox
          /\ IF ~InStartWorker(d)
             THEN Goto(d, "ensuring") /\ UNCHANGED <<row, cfg, conf, rolling, outcome>>
             ELSE IF row = "gone"
             THEN Abandon(d, row)
             ELSE /\ row' = "starting"          \* startWorker, on a row read again
                  /\ conf' = [conf EXCEPT ![d] = cfg]
                  /\ Goto(d, "ensuring")
                  /\ UNCHANGED <<cfg, rolling, outcome>>
       \/ (IsUp \/ Fails) /\ Abandon(d, row) /\ UNCHANGED box

\* What follows a container that is there: a rollback rests, others start it.
Created(p) ==
    IF p \in rolling
    THEN SetRow("sleeping") /\ End(p, "failed")
    ELSE Goto(p, "booting") /\ UNCHANGED <<row, outcome>>

\* ensureContainer, ensureCreated: one that exists is taken as it is.
Ensure(p) ==
    /\ pc[p] = "ensuring"
    /\ \/ box.up = "absent" /\ Goto(p, "creating")
          /\ UNCHANGED <<row, cfg, conf, rolling, outcome>>
       \/ box.up # "absent" /\ Created(p) /\ UNCHANGED <<cfg, conf, rolling>>
       \/ Fails /\ Throw(p, LeftBy(p))
    /\ UNCHANGED box

\* `docker create`: the name must be free and the image there to be had.
Create(p) ==
    /\ pc[p] = "creating"
    /\ \/ CanMake(conf[p])
          /\ box' = Made(conf[p])
          /\ Created(p) /\ UNCHANGED <<cfg, conf, rolling>>
       \/ (~CanMake(conf[p]) \/ Fails) /\ Throw(p, LeftBy(p)) /\ UNCHANGED box

Boot(p) ==
    /\ pc[p] = "booting"
    /\ \/ /\ box.up # "absent"
          /\ box' = [box EXCEPT !.up = IF @ = "down" THEN "booting" ELSE @]
          /\ Goto(p, "probing")
          /\ UNCHANGED <<row, cfg, conf, rolling, outcome>>
       \/ (box.up = "absent" \/ Fails) /\ Throw(p, LeftBy(p)) /\ UNCHANGED box

\* The probe answers: a wake is done, a worker's deploy passes through running
\* to stopping, an app's goes straight to the stop.
Answered(p) ==
    /\ IF p \in Deployers
       THEN SetRow(IF IsWorker THEN "stopping" ELSE row) /\ Goto(p, "proven")
       ELSE SetRow("running") /\ Goto(p, "off")
    /\ UNCHANGED <<cfg, conf, rolling, outcome>>

\* Exited, or no answer in time.
NotReady(p) ==
    IF p \in Deployers /\ ~IsWorker
    THEN Abandon(p, row)
    ELSE Goto(p, "giving_up") /\ UNCHANGED <<row, cfg, conf, rolling, outcome>>

TimesOut == box.up = "absent" \/ box.build \in broken \/ "boot" \in Faults

Probe(p) ==
    /\ pc[p] = "probing"
    /\ \/ box.up = "ready" /\ Answered(p)
       \/ (box.up = "down" \/ (box.up # "ready" /\ TimesOut)) /\ NotReady(p)
    /\ UNCHANGED box

GiveUp(p) ==
    /\ pc[p] = "giving_up"
    /\ box' = Halted \/ (Fails /\ UNCHANGED box)
    /\ Throw(p, "failed")

\* It serves: back to sleep with it.
StopProven(d) ==
    /\ pc[d] = "proven"
    /\ \/ box' = Halted /\ Goto(d, "halted")
          /\ UNCHANGED <<row, cfg, conf, rolling, outcome>>
       \/ Fails /\ Abandon(d, LeftBy(d)) /\ UNCHANGED box

RestProven(d) ==
    /\ pc[d] = "halted"
    /\ SetRow("sleeping")
    /\ Goto(d, "pruning")
    /\ UNCHANGED <<cfg, conf, rolling, outcome, box>>

ContainerStep(p) ==
    /\ \/ Unload(p) \/ Remove(p)
       \/ Ensure(p) \/ Create(p) \/ Boot(p) \/ Probe(p) \/ GiveUp(p)
       \/ StopProven(p) \/ RestProven(p)
    /\ UNCHANGED <<kind, images, broken, clock, chain, turn, prev, stamp, serving, history>>

\* pruneImageTags: all but the newest Keep, the image in use excepted.
OnDisk == {t \in Tags : images[t] # None}
Newer(t) == {u \in OnDisk : u > t}
Stale(d) ==
    {t \in OnDisk : Cardinality(Newer(t)) >= Keep /\ t # stamp[d] /\ images[t] # box.build}

\* `docker images` may fail, and then none of the tags is removed.
Spared(tags) == IF Fails THEN {{}, tags} ELSE {{}}

\* removeImageTags: every tag, but for an image its container still holds.
Removable == {t \in OnDisk : images[t] # box.build}

PrunedTo(gone) == [t \in Tags |-> IF t \in gone THEN None ELSE images[t]]

\* The row is read a last time: a deploy of what was destroyed has failed.
Prune(d) ==
    /\ pc[d] = "pruning"
    /\ \E kept \in Spared(Stale(d)) : images' = PrunedTo(Stale(d) \ kept)
    /\ IF row = "gone"
       THEN Abandon(d, row)
       ELSE End(d, "deployed") /\ UNCHANGED <<row, cfg, conf, rolling>>
    /\ UNCHANGED <<kind, broken, box, clock, chain, turn, prev, stamp, serving, history>>

\* Faulty variant: a failed first deploy stops its container and leaves it there.
ClearByStopping(d) ==
    /\ pc[d] = "clearing"
    /\ box' = Halted /\ SetRow("undeployed") /\ End(d, "failed")
    /\ UNCHANGED <<kind, cfg, images, broken, clock, chain, turn, prev, conf, stamp, rolling, serving,
                   history>>

\* A first deploy that failed: stop and remove, an error of either swallowed.
Clear(d) ==
    /\ pc[d] = "clearing"
    /\ \/ box' = Halted /\ Goto(d, "wiping") /\ UNCHANGED <<row, outcome>>
       \/ CleanUpFails /\ SetRow("undeployed") /\ End(d, "failed") /\ UNCHANGED box
    /\ UNCHANGED <<kind, cfg, images, broken, clock, chain, turn, prev, conf, stamp, rolling, serving,
                   history>>

Wipe(d) ==
    /\ pc[d] = "wiping"
    /\ \/ ~IsUp /\ box' = NoBox
       \/ (IsUp \/ CleanUpFails) /\ UNCHANGED box
    /\ SetRow("undeployed") /\ End(d, "failed")
    /\ UNCHANGED <<kind, cfg, images, broken, clock, chain, turn, prev, conf, stamp, rolling, serving,
                   history>>

-----------------------------------------------------------------------------
(* The others.                                                             *)

\* A request reaches a row that is not running.
BeginWake(w) ==
    /\ MayBegin(w) /\ row \notin {"running", "undeployed", "gone"}
    /\ SetRow("starting")
    /\ conf' = [conf EXCEPT ![w] = cfg]
    /\ Goto(w, "ensuring")
    /\ UNCHANGED <<kind, cfg, docker, clock, chain, turn, prev, stamp, rolling, outcome, serving, crashed>>

BeginSleep(h) ==
    /\ MayBegin(h) /\ row = "running"
    /\ row' = "stopping"
    /\ Goto(h, "stopping")
    /\ UNCHANGED <<kind, cfg, docker, clock, chain, locals, serving, crashed>>

Sleep(h) ==
    /\ pc[h] = "stopping"
    /\ \/ box' = Halted /\ SetRow("sleeping")
       \/ Fails /\ SetRow("failed") /\ UNCHANGED box
    /\ Goto(h, "off")
    /\ UNCHANGED <<kind, cfg, images, broken, clock, chain, locals, serving, history>>

BeginDestroy(x) ==
    /\ MayBegin(x) /\ row # "gone"
    /\ row' = "destroying"
    /\ Goto(x, "d_stop")
    /\ UNCHANGED <<kind, cfg, docker, clock, chain, locals, serving, crashed>>

\* Every step is attempted whatever the one before it said; the row goes last.
Destroy(x) ==
    /\ \/ /\ pc[x] = "d_stop" /\ Goto(x, "d_rm")
          /\ box' = Halted \/ (Fails /\ UNCHANGED box)
          /\ UNCHANGED <<row, images>>
       \/ /\ pc[x] = "d_rm" /\ Goto(x, "d_rmi")
          /\ (~IsUp /\ box' = NoBox) \/ ((IsUp \/ Fails) /\ UNCHANGED box)
          /\ UNCHANGED <<row, images>>
       \/ /\ pc[x] = "d_rmi" /\ Goto(x, "off")
          /\ \E kept \in Spared(Removable) : images' = PrunedTo(Removable \ kept)
          /\ row' = "gone"
          /\ UNCHANGED box
    /\ UNCHANGED <<kind, cfg, broken, clock, chain, locals, serving, history>>

\* The process in the container comes to listen, or exits.
BoxBoots ==
    /\ box.up = "booting"
    /\ box' = [box EXCEPT !.up = IF box.build \in broken THEN "down" ELSE "ready"]
    /\ UNCHANGED <<kind, row, cfg, images, broken, clock, chain, pc, locals, serving, history>>

Crash ==
    /\ "daemon" \in Faults /\ serving /\ ~crashed
    /\ pc' = [p \in Actors |-> "off"]
    /\ outcome' = [d \in Deployers |-> IF pc[d] = "off" THEN outcome[d] ELSE "failed"]
    /\ chain' = 0
    /\ turn' = [d \in Deployers |-> 0]
    /\ rolling' = {}
    /\ serving' = FALSE
    /\ crashed' = TRUE
    /\ UNCHANGED <<kind, row, cfg, docker, clock, prev, conf, stamp, overlapped>>

\* reconcile: correctedState, and a destroy that is taken up again.
Reconcile ==
    /\ ~serving /\ serving' = TRUE
    /\ IF row = "destroying"
       THEN row' = "gone" /\ box' = NoBox /\ images' = PrunedTo(OnDisk)
       ELSE /\ UNCHANGED <<box, images>>
            /\ row' = IF row \in {"undeployed", "gone"} THEN row
                      ELSE CASE box.up = "ready" -> "running"
                             [] box.up = "booting" -> "starting"
                             [] box.up = "down" /\ row \in {"sleeping", "stopping"} -> "sleeping"
                             [] OTHER -> "failed"
    /\ UNCHANGED <<kind, cfg, broken, clock, chain, pc, locals, history>>

-----------------------------------------------------------------------------

Init ==
    /\ kind \in Kinds
    /\ row \in StartsAs
    /\ cfg = [image |-> IF row = "undeployed" THEN None ELSE 0, env |-> First]
    /\ images = [t \in Tags |-> IF t = 0 /\ row # "undeployed" THEN First ELSE None]
    /\ broken = {}
    /\ box = IF row = "undeployed" THEN NoBox
             ELSE [build |-> First, env |-> First, up |-> IF row = "running" THEN "ready" ELSE "down"]
    /\ clock = 0
    /\ chain = 0
    /\ turn = [d \in Deployers |-> 0]
    /\ pc = [p \in Actors |-> "off"]
    /\ prev = [d \in Deployers |-> [row |-> row, cfg |-> cfg]]
    /\ conf = [p \in Actors |-> cfg]
    /\ stamp = [d \in Deployers |-> 0]
    /\ rolling = {}
    /\ outcome = [d \in Deployers |-> "none"]
    /\ serving = TRUE
    /\ overlapped = FALSE /\ crashed = FALSE

DeployStep(d) ==
    \/ StartBuild(d) \/ BuildSucceeds(d) \/ BuildFails(d)
    \/ ContainerStep(d) \/ Prune(d) \/ Clear(d) \/ Wipe(d)

Next ==
    \/ \E d \in Deployers : BeginDeploy(d) \/ DeployStep(d)
    \/ \E w \in Wakers : BeginWake(w) \/ ContainerStep(w)
    \/ \E h \in Sleepers : BeginSleep(h) \/ Sleep(h)
    \/ \E x \in Destroyers : BeginDestroy(x) \/ Destroy(x)
    \/ BoxBoots \/ Crash \/ Reconcile

Spec == Init /\ [][Next]_vars

\* The daemon goes on with what it has begun: docker answers, the readiness wait
\* ends, a restarted daemon reconciles.
FairSpec ==
    /\ Spec
    /\ \A d \in Deployers : WF_vars(DeployStep(d))
    /\ WF_vars(BoxBoots) /\ WF_vars(Reconcile)

-----------------------------------------------------------------------------
(* Properties.                                                             *)

Stages == {"off", "queued", "building", "unloading", "removing", "ensuring", "creating",
           "booting", "probing", "giving_up", "proven", "halted", "pruning", "clearing",
           "wiping", "stopping", "d_stop", "d_rm", "d_rmi"}

TypeOK ==
    /\ kind \in Kinds
    /\ row \in Rows
    /\ cfg \in Config
    /\ images \in [Tags -> Builds \cup {None}]
    /\ broken \subseteq Deployers
    /\ box \in [build : Builds \cup {None}, env : Builds, up : Ups]
    /\ clock \in Tags
    /\ chain \in Nat
    /\ turn \in [Deployers -> Nat]
    /\ pc \in [Actors -> Stages]
    /\ prev \in [Deployers -> [row : Rows, cfg : Config]]
    /\ conf \in [Actors -> Config]
    /\ stamp \in [Deployers -> Tags]
    /\ rolling \subseteq Deployers
    /\ outcome \in [Deployers -> {"none", "deployed", "failed", "stranded"}]
    /\ serving \in BOOLEAN /\ overlapped \in BOOLEAN /\ crashed \in BOOLEAN

\* One image builds at a time on this box, however many deploys were asked for
\* and however each build ended (build-lock.ts).
BuildsAreSerial ==
    \A d, e \in Deployers : pc[d] = "building" /\ pc[e] = "building" => d = e

\* The container is the one the config describes, and it has been seen serving.
ServesItsConfig ==
    /\ box.up # "absent" /\ cfg.image # None
    /\ box.build = images[cfg.image] /\ box.env = cfg.env
    /\ box.build \notin broken

\* A deploy failed without a way back, and none has succeeded since.
Stranded ==
    \E d \in Deployers :
        /\ outcome[d] = "stranded"
        /\ \A e \in Deployers : outcome[e] = "deployed" => stamp[e] < stamp[d]

\* Whatever one deploy after the other comes to, with wakes and sleeps between
\* them: a resource at rest that says it can serve has the container its config
\* describes, and that build has served (app.ts, deployApp and rollBackDeploy).
LoneDeploysServe ==
    Rest /\ ~overlapped /\ ~crashed /\ ~Stranded /\ row \in {"sleeping", "running"}
        => ServesItsConfig

\* The image a rollback would go back to is on disk until the deploy is over,
\* although every success prunes tags and every failure leaves one behind.
RollbackImageIsKept ==
    ~overlapped =>
        \A d \in Active \cap Deployers :
            Restorable(d) => images[prev[d].cfg.image] # None

\* A record with no code has no container, also when its first deploy fails at
\* any command but those of the clean-up, or the daemon dies in it (app.ts, the
\* catch of deployApp; skipReconcile).
UndeployedIsBare ==
    row = "undeployed" /\ ~overlapped /\ serving /\ Active \cap Deployers = {}
        => box.up = "absent"

\* The container whose answer proves a deploy is the one of its own build.
ProvesItsOwnBuild ==
    [][\A d \in Deployers :
        pc[d] = "probing" /\ pc'[d] = "proven" => box.build = d]_vars

\* A build that fails changes nothing (app.ts, the comment on rollBackDeploy).
FailedBuildChangesNothing ==
    [][\A d \in Deployers :
        pc[d] = "building" /\ pc'[d] = "off" /\ serving' => row' = row]_vars

\* Every deploy ends, whatever happened to the builds before it in the chain.
DeploysSettle == \A d \in Deployers : pc[d] # "off" ~> pc[d] = "off"

\* One deploy after the other, a failure falls back on something that has served: the
\* image it needs is on disk, and the container is the one the config describes.
DeploysRecover ==
    /\ LoneDeploysServe
    /\ RollbackImageIsKept
=============================================================================
