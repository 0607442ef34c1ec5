----------------------------- MODULE Projects -----------------------------
(***************************************************************************)
(* How projects and their resources come and go (daemon/routes.ts, the     *)
(* create and destroy of each kind, branch.ts, the `--as` half of          *)
(* snapshots.ts): rows in the store, containers and networks in docker,    *)
(* directories and ports on the box, and a daemon that may die between any *)
(* two of them.  A project may hold a database `db` and a service `web`    *)
(* (an app or a worker).  A step is what runs between two awaits.          *)
(***************************************************************************)
EXTENDS Integers, FiniteSets

CONSTANTS
    Names,       \* names of projects
    Ports,       \* host ports
    Slots,       \* operations under way at once
    MaxBegun,    \* bound: operations begun
    MaxMishaps   \* bound: steps of docker, of a build or of the disk that fail, and
                 \* deaths of the daemon

\* A port is a number, and no project is without a name.
ASSUME ProjectsAssumption ==
    /\ Ports \subseteq Nat \ {0}
    /\ "" \notin Names
    /\ MaxBegun \in Nat /\ MaxMishaps \in Nat

Kinds == {"db", "web"}
None  == 0
Copied == -1       \* what a copied pgdata holds, whosever row it is under

VARIABLES
    project,    \* name -> the id of its project's row, or None
    released,   \* names whose project has been handed over
    rows,       \* the resources' rows
    box,        \* name -> kind -> its container: whose, on which port, and up
    net,        \* names whose network exists
    dir,        \* name -> kinds with a directory under the project's
    data,       \* name -> whose cluster its pgdata holds
    op,         \* slot -> the operation in it
    begun, made, mishaps,
    spoiled,    \* history: names a removal was raced, cut short or failed on
    raced,      \* history: rows whose port was chosen beside another creation
    frozen      \* history: names that were handed over when the daemon died

store == <<project, released, rows>>
world == <<box, net, dir, data>>
count == <<begun, made, mishaps>>
hist  == <<spoiled, raced, frozen>>
vars  == <<store, world, op, count, hist>>

Gone == [whose |-> None, port |-> None, up |-> FALSE]
Idle == [kind |-> "idle", at |-> "idle", name |-> "", res |-> "", project |-> None,
         id |-> None, port |-> None, todo |-> {}, bad |-> FALSE, beside |-> FALSE]

RowsOf(p)  == {r \in rows : r.project = p}
Mark(S, s) == {IF r.id \in S THEN [r EXCEPT !.state = s] ELSE r : r \in rows}
Least(S)   == CHOOSE i \in S : \A j \in S : i <= j
Published  == {b.port : b \in {c \in {box[n][k] : n \in Names, k \in Kinds} : c.up}}

\* Faulty variant: only what answers is taken, not what the store has given away.
FreeIfSilent == Ports \ Published

Free       == Ports \ ({r.port : r \in rows} \cup Published)

Busy(n)    == {o \in Slots : op[o].name = n}
Removers   == {"rm", "rmProject", "forget", "undo", "discard"}
Copiers    == {"branch", "restore"}
Clash(j, k) == {j, k} \cap Removers # {} \/ (j = "create" /\ k \in Copiers)

Has(o, kinds, at) == op[o].kind \in kinds /\ op[o].at = at
Go(o, at)    == op' = [op EXCEPT ![o].at = at]
Done(o)      == op' = [op EXCEPT ![o] = Idle]
Fault        == mishaps < MaxMishaps /\ mishaps' = mishaps + 1
SetBox(n, k, b) == box' = [box EXCEPT ![n][k] = b]
Down(n, k)      == SetBox(n, k, [box[n][k] EXCEPT !.up = FALSE])
Spoil(n, when)  == spoiled' = IF when THEN spoiled \cup {n} ELSE spoiled

\* A removal beside anything else on its name spoils the name, and so does a database
\* created under a copy that is still being made.
Begin(o, r) ==
    /\ op[o] = Idle
    /\ begun < MaxBegun
    /\ begun' = begun + 1
    /\ op' = [op EXCEPT ![o] = r]
    /\ Spoil(r.name, \E s \in Busy(r.name) : Clash(r.kind, op[s].kind))

-----------------------------------------------------------------------------
(* Creation.                                                               *)

\* POST /v1/projects: one turn.
NewProject(n) ==
    /\ project[n] = None
    /\ begun < MaxBegun
    /\ made' = made + 1
    /\ project' = [project EXCEPT ![n] = made + 1]
    /\ Spoil(n, Busy(n) # {})
    /\ UNCHANGED <<released, rows, world, op, begun, mishaps, raced, frozen>>

\* allocateHostPort: the least port neither in the store nor answering.  The row that
\* takes it is written after the probe - and, for a service, after its build.
CreateBegins(o, n, k) ==
    /\ project[n] # None
    /\ Free # {}
    /\ Begin(o, [Idle EXCEPT !.kind = "create", !.at = IF k = "db" THEN "probe" ELSE "build",
                             !.name = n, !.res = k, !.project = project[n],
                             !.port = Least(Free)])
    /\ UNCHANGED <<store, world, made, mishaps, raced, frozen>>

\* A worker's generated Dockerfile goes under the project's directory first.
Build(o) ==
    /\ Has(o, {"create"}, "build")
    /\ \/ Go(o, "probe") /\ UNCHANGED mishaps
       \/ Done(o) /\ Fault
    /\ dir' = [dir EXCEPT ![op[o].name] = @ \cup {"web"}]
    /\ UNCHANGED <<store, box, net, data, begun, made, hist>>

\* createResource, or name_taken.  Whether the project is still there is not asked.
Inserts(o) ==
    LET c == op[o] IN
    /\ Has(o, {"create", "branch", "restore"}, "probe")
    /\ \/ /\ \E r \in RowsOf(c.project) : r.kind = c.res
          /\ Done(o)
          /\ UNCHANGED <<rows, made, dir, raced>>
       \/ /\ \A r \in RowsOf(c.project) : r.kind # c.res
          /\ made' = made + 1
          /\ rows' = rows \cup
               {[id |-> made + 1, project |-> c.project, name |-> c.name, kind |-> c.res,
                 state |-> "creating", port |-> c.port,
                 seed |-> IF c.kind = "create" THEN made + 1 ELSE Copied]}
          /\ dir' = [dir EXCEPT ![c.name] = @ \cup {c.res}]
          /\ raced' = IF c.beside THEN raced \cup {made + 1} ELSE raced
          /\ op' = [s \in Slots |->
               IF s = o THEN [op[s] EXCEPT !.at = "network", !.id = made + 1]
               ELSE [op[s] EXCEPT !.beside = @ \/ op[s].at \in {"build", "probe"}]]
    /\ UNCHANGED <<project, released, box, net, data, begun, mishaps, spoiled, frozen>>

\* Faulty variant: the row is left as it is.
FailsUnmarked(o) ==
    /\ rows' = rows
    /\ op' = [op EXCEPT ![o] = Idle]
    /\ Spoil(op[o].name, FALSE)

\* The catch of each kind's create.  A service takes its container down again, a
\* branch everything; a database leaves what it has got to.
Fails(o) ==
    LET then == CASE op[o].kind = "create" /\ op[o].res = "web" -> "undo"
                  [] op[o].kind = "branch" -> "discard"
                  [] OTHER -> "idle"
    IN
    /\ rows' = Mark({op[o].id}, "failed")
    /\ op' = [op EXCEPT ![o] = IF then = "idle" THEN Idle
                               ELSE [@ EXCEPT !.kind = then, !.at = "remove"]]
    /\ Spoil(op[o].name, then # "idle" /\ Busy(op[o].name) # {o})

Network(o) ==
    /\ Has(o, {"create", "branch", "restore"}, "network")
    /\ \/ /\ net' = net \cup {op[o].name}
          /\ Go(o, "container")
          /\ UNCHANGED <<rows, mishaps, spoiled>>
       \/ Fault /\ Fails(o) /\ UNCHANGED net
    /\ UNCHANGED <<project, released, box, dir, data, begun, made, raced, frozen>>

\* ensureCreated keeps a container that has the name, whoever made it.
Container(o) ==
    LET n == op[o].name  k == op[o].res IN
    /\ Has(o, {"create", "branch", "restore"}, "container")
    /\ \/ /\ SetBox(n, k, IF box[n][k] # Gone THEN box[n][k]
                          ELSE [whose |-> op[o].id, port |-> op[o].port, up |-> FALSE])
          /\ \/ op[o].kind = "create" /\ Go(o, "start") /\ UNCHANGED rows
             \/ /\ op[o].kind # "create"
                /\ Done(o)
                /\ rows' = Mark({op[o].id}, "sleeping")
          /\ UNCHANGED <<mishaps, spoiled>>
       \/ Fault /\ Fails(o) /\ UNCHANGED box
    /\ UNCHANGED <<project, released, net, dir, data, begun, made, raced, frozen>>

\* docker start.  An empty pgdata becomes the cluster of whoever starts on it.
CanStart(n, k) == box[n][k] # Gone /\ n \in net /\ box[n][k].port \notin Published
Started(n, k) ==
    /\ SetBox(n, k, [box[n][k] EXCEPT !.up = TRUE])
    /\ data' = IF k = "db" /\ data[n] = None
               THEN [data EXCEPT ![n] = box[n][k].whose] ELSE data

Starts(o) ==
    LET n == op[o].name  k == op[o].res IN
    /\ Has(o, {"create"}, "start")
    /\ \/ CanStart(n, k) /\ Started(n, k) /\ Go(o, "ready") /\ UNCHANGED <<rows, mishaps, spoiled>>
       \/ /\ ~CanStart(n, k)
          /\ Fails(o)
          /\ UNCHANGED <<box, data, mishaps>>
    /\ UNCHANGED <<project, released, net, dir, begun, made, raced, frozen>>

\* The readiness probe: this row's port, and for a database this row's password.
Answers(r) ==
    LET b == box[r.name][r.kind] IN
    b.up /\ b.port = r.port /\ (r.kind = "db" => data[r.name] = r.seed)

Ready(o) ==
    LET R == {r \in rows : r.id = op[o].id} IN
    /\ Has(o, {"create"}, "ready")
    /\ \/ R # {} /\ (\A r \in R : Answers(r)) /\ Go(o, "stop")
          /\ UNCHANGED <<rows, mishaps, spoiled>>
       \/ ~(R # {} /\ \A r \in R : Answers(r)) /\ Fails(o) /\ UNCHANGED mishaps
       \/ Fault /\ Fails(o)
    /\ UNCHANGED <<project, released, world, begun, made, raced, frozen>>

\* Faulty variant: the state in docker's words.
RestsInDockersWords(o) ==
    /\ Has(o, {"create"}, "stop")
    /\ Down(op[o].name, op[o].res)
    /\ rows' = Mark({op[o].id}, "exited")
    /\ Done(o)
    /\ UNCHANGED <<project, released, net, dir, data, count, hist>>

\* Booted once, then put to sleep.
Rests(o) ==
    /\ Has(o, {"create"}, "stop")
    /\ \/ /\ Down(op[o].name, op[o].res)
          /\ rows' = Mark({op[o].id}, "sleeping")
          /\ Done(o)
          /\ UNCHANGED <<mishaps, spoiled>>
       \/ Fault /\ Fails(o) /\ UNCHANGED box
    /\ UNCHANGED <<project, released, net, dir, data, begun, made, raced, frozen>>

\* removeContainerQuietly.
Undo(o) ==
    /\ Has(o, {"undo"}, "remove")
    /\ Done(o)
    /\ \/ SetBox(op[o].name, op[o].res, Gone) /\ UNCHANGED <<mishaps, spoiled>>
       \/ Fault /\ Spoil(op[o].name, TRUE) /\ UNCHANGED box
    /\ UNCHANGED <<store, net, dir, data, begun, made, raced, frozen>>

-----------------------------------------------------------------------------
(* Copies: a branch reserves its name and then copies; a restore copies    *)
(* first.                                                                  *)

BranchBegins(o, a, b) ==
    /\ project[a] # None /\ a \notin released
    /\ project[b] = None /\ dir[b] = {}
    /\ RowsOf(project[a]) # {}
    /\ \A r \in RowsOf(project[a]) : r.kind = "db" /\ r.state \in {"running", "sleeping"}
    /\ made' = made + 1
    /\ project' = [project EXCEPT ![b] = made + 1]
    /\ Begin(o, [Idle EXCEPT !.kind = "branch", !.at = "clone", !.name = b, !.res = "db",
                             !.project = made + 1])
    /\ UNCHANGED <<released, rows, world, mishaps, raced, frozen>>

RestoreBegins(o, b) ==
    /\ project[b] = None /\ dir[b] = {}
    /\ Begin(o, [Idle EXCEPT !.kind = "restore", !.at = "clone", !.name = b, !.res = "db"])
    /\ UNCHANGED <<store, world, made, mishaps, raced, frozen>>

\* cloneTree, and what follows it in the same turn: a restore's project, and the port.
Cloned(o) ==
    LET n == op[o].name
        copied == /\ dir' = [dir EXCEPT ![n] = @ \cup {"db"}]
                  /\ data' = [data EXCEPT ![n] = Copied]
        onward(p) == op' = [op EXCEPT ![o].at = "probe", ![o].project = p,
                                      ![o].port = Least(Free)]
    IN
    /\ Has(o, {"branch", "restore"}, "clone")
    /\ Free # {}
    /\ \/ /\ op[o].kind = "branch"
          /\ copied /\ onward(op[o].project)
          /\ UNCHANGED <<project, made, mishaps, spoiled>>
       \/ /\ op[o].kind = "restore" /\ project[n] = None
          /\ copied /\ onward(made + 1)
          /\ project' = [project EXCEPT ![n] = made + 1]
          /\ made' = made + 1
          /\ UNCHANGED <<mishaps, spoiled>>
       \/ /\ op[o].kind = "restore" /\ project[n] # None
          /\ copied /\ Done(o)
          /\ Spoil(n, TRUE)
          /\ UNCHANGED <<project, made, mishaps>>
       \/ /\ Fault
          /\ dir' = [dir EXCEPT ![n] = @ \cup {"db"}]
          /\ Spoil(n, op[o].kind = "restore" \/ Busy(n) # {o})
          /\ op' = [op EXCEPT ![o] = IF op[o].kind = "restore" THEN Idle
                                     ELSE [@ EXCEPT !.kind = "discard", !.at = "remove"]]
          /\ UNCHANGED <<project, data, made>>
    /\ UNCHANGED <<released, rows, box, net, begun, raced, frozen>>

-----------------------------------------------------------------------------
(* Removal.                                                                *)

\* store.deleteProject: by id, the resources' rows with it.
DeleteProject(n, p) ==
    /\ rows' = rows \ RowsOf(p)
    /\ project' = [project EXCEPT ![n] = IF @ = p THEN None ELSE @]
    /\ released' = IF project[n] = p THEN released \ {n} ELSE released

RmBegins(o, n, r) ==
    /\ project[n] # None /\ n \notin released
    /\ r \in RowsOf(project[n])
    /\ Begin(o, [Idle EXCEPT !.kind = "rm", !.at = "stop", !.name = n, !.res = r.kind,
                             !.id = r.id])
    /\ rows' = Mark({r.id}, "destroying")
    /\ UNCHANGED <<project, released, world, made, mishaps, raced, frozen>>

\* The resources are listed once.  The first, and in the turn that ends one the next,
\* is marked destroying.
Take(c, todo) ==
    IF todo = {} THEN [c EXCEPT !.at = "network", !.todo = {}, !.id = None]
    ELSE LET r == CHOOSE x \in todo : \A y \in todo : x[1] <= y[1]
         IN [c EXCEPT !.at = "stop", !.todo = todo \ {r}, !.id = r[1], !.res = r[2]]

RmProjectBegins(o, n) ==
    /\ project[n] # None
    /\ LET c == Take([Idle EXCEPT !.kind = IF n \in released THEN "forget" ELSE "rmProject",
                                  !.name = n, !.project = project[n]],
                     {<<r.id, r.kind>> : r \in RowsOf(project[n])})
       IN Begin(o, c) /\ rows' = Mark({c.id}, "destroying")
    /\ UNCHANGED <<project, released, world, made, mishaps, raced, frozen>>

\* A resource is done with: its row goes, whatever failed.
RowGoes(o, bad) ==
    LET c == Take([op[o] EXCEPT !.bad = bad], op[o].todo)
        one == op[o].kind = "rm"
    IN
    /\ rows' = {r \in (IF one THEN rows ELSE Mark({c.id}, "destroying")) : r.id # op[o].id}
    /\ op' = [op EXCEPT ![o] = IF one THEN Idle ELSE c]
    /\ Spoil(op[o].name, one /\ bad)

Hit(o, at, fails) == op' = [op EXCEPT ![o].at = at, ![o].bad = @ \/ fails]

StopBox(o) ==
    /\ Has(o, Removers, "stop")
    /\ \/ /\ Down(op[o].name, op[o].res)
          /\ Hit(o, "remove", FALSE)
          /\ UNCHANGED <<rows, mishaps, spoiled>>
       \/ /\ Fault /\ UNCHANGED box
          /\ \/ op[o].kind # "forget" /\ Hit(o, "remove", TRUE) /\ UNCHANGED <<rows, spoiled>>
             \/ op[o].kind = "forget" /\ RowGoes(o, TRUE)
    /\ UNCHANGED <<project, released, net, dir, data, begun, made, raced, frozen>>

\* Faulty variant: a container that could not be removed is not counted.
RemoveBoxUncounted(o) ==
    LET n == op[o].name  k == op[o].res IN
    /\ Has(o, {"rm", "rmProject", "forget"}, "remove")
    /\ \/ ~box[n][k].up /\ SetBox(n, k, Gone) /\ UNCHANGED mishaps
       \/ box[n][k].up /\ UNCHANGED <<box, mishaps>>
       \/ Fault /\ UNCHANGED box
    /\ \/ op[o].kind = "forget" /\ RowGoes(o, op[o].bad)
       \/ op[o].kind # "forget" /\ Hit(o, "wipe", FALSE) /\ UNCHANGED <<rows, spoiled>>
    /\ UNCHANGED <<project, released, net, dir, data, begun, made, raced, frozen>>

\* docker rm, which refuses a container that is up; forgetting stops here.
RemoveBox(o) ==
    LET n == op[o].name  k == op[o].res IN
    /\ Has(o, {"rm", "rmProject", "forget"}, "remove")
    /\ \E fails \in BOOLEAN :
         /\ \/ ~box[n][k].up /\ ~fails /\ SetBox(n, k, Gone) /\ UNCHANGED mishaps
            \/ box[n][k].up /\ fails /\ UNCHANGED <<box, mishaps>>
            \/ fails /\ Fault /\ UNCHANGED box
         /\ \/ op[o].kind = "forget" /\ RowGoes(o, op[o].bad \/ fails)
            \/ op[o].kind # "forget" /\ Hit(o, "wipe", fails) /\ UNCHANGED <<rows, spoiled>>
    /\ UNCHANGED <<project, released, net, dir, data, begun, made, raced, frozen>>

\* What the kind owns beside its container: the pgdata of a database, the images of
\* a service.  A directory that is empty by then goes with a single `rm`.
Wipe(o) ==
    LET n == op[o].name IN
    /\ Has(o, {"rm", "rmProject"}, "wipe")
    /\ \/ /\ data' = IF op[o].res = "db" THEN [data EXCEPT ![n] = None] ELSE data
          /\ dir' = IF op[o].kind = "rm" /\ op[o].res = "db"
                    THEN [dir EXCEPT ![n] = @ \ {"db"}] ELSE dir
          /\ RowGoes(o, op[o].bad)
          /\ UNCHANGED mishaps
       \/ Fault /\ RowGoes(o, TRUE) /\ UNCHANGED <<data, dir>>
    /\ UNCHANGED <<project, released, box, net, begun, made, raced, frozen>>

\* docker network rm, which refuses one with a running container on it.  A forgotten
\* project ends here, its directories where they are.
RemoveNetwork(o) ==
    LET n == op[o].name  held == \E k \in Kinds : box[n][k].up IN
    /\ Has(o, {"rmProject", "forget"}, "network")
    /\ \E fails \in BOOLEAN :
         /\ \/ ~held /\ ~fails /\ net' = net \ {n} /\ UNCHANGED mishaps
            \/ held /\ fails /\ UNCHANGED <<net, mishaps>>
            \/ fails /\ Fault /\ UNCHANGED net
         /\ \/ /\ op[o].kind = "forget"
               /\ DeleteProject(n, op[o].project)
               /\ Spoil(n, TRUE)
               /\ Done(o)
            \/ /\ op[o].kind = "rmProject"
               /\ Hit(o, "directory", fails)
               /\ UNCHANGED <<store, spoiled>>
    /\ UNCHANGED <<box, dir, data, begun, made, raced, frozen>>

\* rm -r of the project's directory, unless a step failed; then its row.
RemoveDirectory(o) ==
    LET n == op[o].name IN
    /\ Has(o, {"rmProject"}, "directory")
    /\ \E fails \in BOOLEAN :
         /\ \/ /\ ~fails /\ ~op[o].bad
               /\ dir' = [dir EXCEPT ![n] = {}]
               /\ data' = [data EXCEPT ![n] = None]
               /\ UNCHANGED mishaps
            \/ fails /\ Fault /\ UNCHANGED <<dir, data>>
            \/ fails /\ op[o].bad /\ UNCHANGED <<dir, data, mishaps>>
         /\ Spoil(n, fails)
    /\ DeleteProject(n, op[o].project)
    /\ Done(o)
    /\ UNCHANGED <<box, net, begun, made, raced, frozen>>

\* discardBranch: the container of the row there may be and the network, then the
\* rows, and the directory when the name is already free again.
DiscardBox(o) ==
    LET n == op[o].name
        R == {r \in RowsOf(op[o].project) : r.kind = "db"}
    IN
    /\ Has(o, {"discard"}, "remove")
    /\ \/ /\ R # {} /\ ~box[n]["db"].up
          /\ SetBox(n, "db", Gone)
          /\ UNCHANGED <<mishaps, spoiled>>
       \/ R # {} /\ box[n]["db"].up /\ Spoil(n, TRUE) /\ UNCHANGED <<box, mishaps>>
       \/ R = {} /\ UNCHANGED <<box, mishaps, spoiled>>
       \/ R # {} /\ Fault /\ Spoil(n, TRUE) /\ UNCHANGED box
    /\ Go(o, "network")
    /\ UNCHANGED <<store, net, dir, data, begun, made, raced, frozen>>

\* Faulty variant: the network of a branch that failed stays.
DiscardNoNetwork(o) ==
    /\ Has(o, {"discard"}, "network")
    /\ DeleteProject(op[o].name, op[o].project)
    /\ Go(o, "directory")
    /\ UNCHANGED <<world, begun, made, mishaps, hist>>

DiscardNetwork(o) ==
    LET n == op[o].name IN
    /\ Has(o, {"discard"}, "network")
    /\ \/ (\A k \in Kinds : ~box[n][k].up) /\ net' = net \ {n} /\ UNCHANGED <<mishaps, spoiled>>
       \/ (\E k \in Kinds : box[n][k].up) /\ Spoil(n, TRUE) /\ UNCHANGED <<net, mishaps>>
       \/ Fault /\ Spoil(n, TRUE) /\ UNCHANGED net
    /\ DeleteProject(n, op[o].project)
    /\ Go(o, "directory")
    /\ UNCHANGED <<box, dir, data, begun, made, raced, frozen>>

DiscardDirectory(o) ==
    LET n == op[o].name IN
    /\ Has(o, {"discard"}, "directory")
    /\ \/ /\ dir' = [dir EXCEPT ![n] = {}]
          /\ data' = [data EXCEPT ![n] = None]
          /\ UNCHANGED <<mishaps, spoiled>>
       \/ Fault /\ Spoil(n, TRUE) /\ UNCHANGED <<dir, data>>
    /\ Done(o)
    /\ UNCHANGED <<store, box, net, begun, made, raced, frozen>>

-----------------------------------------------------------------------------
(* The rest of a project's life, as far as it matters here.                *)

\* ejectRoute with release: what was running when it was listed is stopped in turn,
\* and the project is handed over whatever came of that.
EjectBegins(o, n) ==
    LET awake == {<<r.id, r.kind>> : r \in {x \in RowsOf(project[n]) : x.state = "running"}}
    IN
    /\ project[n] # None
    /\ RowsOf(project[n]) # {}
    /\ \/ /\ awake # {}
          /\ Begin(o, [Take([Idle EXCEPT !.kind = "eject", !.name = n,
                                         !.project = project[n]], awake) EXCEPT !.at = "stop"])
          /\ rows' = Mark({op'[o].id}, "stopping")
          /\ UNCHANGED released
       \/ /\ awake = {}
          /\ op[o] = Idle /\ begun < MaxBegun /\ begun' = begun + 1
          /\ released' = released \cup {n}
          /\ UNCHANGED <<rows, op, spoiled>>
    /\ UNCHANGED <<project, world, made, mishaps, raced, frozen>>

EjectStops(o) ==
    LET n == op[o].name  c == Take(op[o], op[o].todo) IN
    /\ Has(o, {"eject"}, "stop")
    /\ \E end \in {"sleeping", "failed"} :
         /\ \/ end = "sleeping" /\ Down(n, op[o].res) /\ UNCHANGED mishaps
            \/ end = "failed" /\ Fault /\ UNCHANGED box
         /\ rows' = {IF r.id = op[o].id THEN [r EXCEPT !.state = end]
                     ELSE IF r.id = c.id THEN [r EXCEPT !.state = "stopping"] ELSE r : r \in rows}
    /\ op' = [op EXCEPT ![o] = IF c.id = None THEN Idle ELSE c]
    /\ released' = IF c.id = None /\ project[n] = op[o].project
                   THEN released \cup {n} ELSE released
    /\ UNCHANGED <<project, net, dir, data, begun, made, hist>>

Adopt(n) ==
    /\ n \in released
    /\ released' = released \ {n}
    /\ UNCHANGED <<project, rows, world, op, count, hist>>

\* A wake, which the lifecycle modules model in full: a service's container is made
\* again when it has gone.
WakeBegins(o, n, r) ==
    /\ project[n] # None /\ n \notin released
    /\ r \in RowsOf(project[n]) /\ r.state \in {"sleeping", "failed"}
    /\ Begin(o, [Idle EXCEPT !.kind = "wake", !.at = "start", !.name = n, !.res = r.kind,
                             !.id = r.id, !.port = r.port])
    /\ rows' = Mark({r.id}, "starting")
    /\ UNCHANGED <<project, released, world, made, mishaps, raced, frozen>>

WakeMakes(o) ==
    LET n == op[o].name  k == op[o].res IN
    /\ Has(o, {"wake"}, "start")
    /\ k = "web" /\ box[n][k] = Gone
    /\ SetBox(n, k, [whose |-> op[o].id, port |-> op[o].port, up |-> FALSE])
    /\ net' = net \cup {n}
    /\ UNCHANGED <<store, dir, data, op, count, hist>>

WakeStarts(o) ==
    LET n == op[o].name  k == op[o].res IN
    /\ Has(o, {"wake"}, "start")
    /\ k = "db" \/ box[n][k] # Gone
    /\ \/ CanStart(n, k) /\ Started(n, k) /\ Go(o, "ready") /\ UNCHANGED rows
       \/ /\ ~CanStart(n, k)
          /\ Done(o)
          /\ rows' = Mark({op[o].id}, "failed")
          /\ UNCHANGED <<box, data>>
    /\ UNCHANGED <<project, released, net, dir, count, hist>>

WakeEnds(o) ==
    LET n == op[o].name  R == {r \in rows : r.id = op[o].id} IN
    /\ Has(o, {"wake"}, "ready")
    /\ \/ /\ \A r \in R : Answers(r)
          /\ rows' = Mark({op[o].id}, "running")
          /\ UNCHANGED <<box, mishaps>>
       \/ /\ \/ (\E r \in R : ~Answers(r)) /\ UNCHANGED mishaps
             \/ Fault
          /\ Down(n, op[o].res)
          /\ rows' = Mark({op[o].id}, "failed")
    /\ Done(o)
    /\ UNCHANGED <<project, released, net, dir, data, begun, made, hist>>

\* The daemon dies, comes up, and reconciles before it listens: what was marked
\* destroying is destroyed - the check for a released project comes after - and
\* the other rows are told what their containers are.
Relabel(r) ==
    LET b == box[r.name][r.kind] IN
    IF project[r.name] = r.project /\ r.name \in released THEN r
    ELSE [r EXCEPT !.state =
            CASE b = Gone            -> "failed"
              [] b.up /\ Answers(r)  -> "running"
              [] b.up /\ ~Answers(r) -> "starting"
              [] OTHER -> IF r.state \in {"sleeping", "stopping"} THEN "sleeping" ELSE "failed"]

DaemonDies ==
    LET doomed == {r \in rows : r.state = "destroying"}
        Doomed(n, k) == \E r \in doomed : r.name = n /\ r.kind = k
    IN
    /\ Fault
    /\ \E o \in Slots : op[o] # Idle
    /\ op' = [o \in Slots |-> Idle]
    /\ rows' = {Relabel(r) : r \in rows \ doomed}
    /\ box' = [n \in Names |-> [k \in Kinds |-> IF Doomed(n, k) THEN Gone ELSE box[n][k]]]
    /\ data' = [n \in Names |-> IF Doomed(n, "db") THEN None ELSE data[n]]
    /\ spoiled' = spoiled \cup {op[o].name : o \in {s \in Slots :
                     op[s].bad \/ op[s].kind \in {"restore", "discard"}}}
    /\ frozen' = frozen \cup released
    /\ UNCHANGED <<project, released, net, dir, begun, made, raced>>

-----------------------------------------------------------------------------

Init ==
    /\ project = [n \in Names |-> None]
    /\ released = {} /\ rows = {} /\ net = {} /\ spoiled = {} /\ raced = {} /\ frozen = {}
    /\ box = [n \in Names |-> [k \in Kinds |-> Gone]]
    /\ dir = [n \in Names |-> {}]
    /\ data = [n \in Names |-> None]
    /\ op = [o \in Slots |-> Idle]
    /\ begun = 0 /\ made = 0 /\ mishaps = 0

Begins(o) ==
    \/ \E n \in Names : RmProjectBegins(o, n) \/ EjectBegins(o, n) \/ RestoreBegins(o, n)
    \/ \E n \in Names, k \in Kinds : CreateBegins(o, n, k)
    \/ \E n \in Names, r \in rows : RmBegins(o, n, r) \/ WakeBegins(o, n, r)
    \/ \E a, b \in Names : BranchBegins(o, a, b)

Goes(o) ==
    \/ Build(o) \/ Inserts(o) \/ Network(o) \/ Container(o) \/ Starts(o) \/ Ready(o)
    \/ Rests(o) \/ Undo(o) \/ Cloned(o)
    \/ StopBox(o) \/ RemoveBox(o) \/ Wipe(o) \/ RemoveNetwork(o) \/ RemoveDirectory(o)
    \/ DiscardBox(o) \/ DiscardNetwork(o) \/ DiscardDirectory(o)
    \/ EjectStops(o) \/ WakeMakes(o) \/ WakeStarts(o) \/ WakeEnds(o)

Next ==
    \/ \E o \in Slots : Begins(o) \/ Goes(o)
    \/ \E n \in Names : NewProject(n) \/ Adopt(n)
    \/ DaemonDies

Spec == Init /\ [][Next]_vars

-----------------------------------------------------------------------------

States == {"creating", "sleeping", "starting", "running", "stopping", "failed", "destroying"}

TypeOK ==
    /\ project \in [Names -> 0..made] /\ released \subseteq Names
    /\ \A r \in rows : /\ r.id \in 1..made /\ r.project \in 1..made
                       /\ r.name \in Names /\ r.kind \in Kinds
                       /\ r.state \in States /\ r.port \in Ports
    /\ \A n \in Names, k \in Kinds : box[n][k].whose \in 0..made
    /\ net \subseteq Names /\ dir \in [Names -> SUBSET Kinds]
    /\ data \in [Names -> (0..made) \cup {Copied}]
    /\ \A o \in Slots : op[o].name \in Names \cup {""}
    /\ begun \in 0..MaxBegun /\ mishaps \in 0..MaxMishaps
    /\ spoiled \subseteq Names /\ frozen \subseteq Names
    /\ raced \subseteq 1..made

Quiet == \A o \in Slots : op[o] = Idle

\* When nothing is under way, and however creates, branches and removals have failed,
\* been retried or been cut off by a restart on the way: everything on the box belongs
\* to a row, and a name that is free has left nothing behind.
NothingIsLost ==
    Quiet => \A n \in Names \ spoiled :
        /\ \A k \in Kinds : box[n][k] # Gone =>
               \E r \in rows : /\ r.project = project[n] /\ r.kind = k
                               /\ r.id = box[n][k].whose
        /\ \A r \in rows : r.name = n => r.project = project[n]
        /\ project[n] = None => n \notin net /\ dir[n] = {} /\ data[n] = None

\* A resource that says it can be used has its own container, on its own port, and a
\* database the cluster its password belongs to.
RestingIsUsable ==
    Quiet => \A r \in rows :
        r.name \notin spoiled /\ r.state \in {"sleeping", "running"} =>
            LET b == box[r.name][r.kind] IN
            /\ b.whose = r.id /\ b.port = r.port
            /\ r.kind = "db" => data[r.name] = r.seed

\* Nothing reads as under way for ever, whoever raced it and wherever the daemon died,
\* unless the project was handed over by then: reconcile passes those by.
NothingStaysBetween ==
    Quiet => \A r \in rows : r.name \notin frozen => r.state \notin {"creating", "destroying", "stopping"}

\* Two rows share a port only when one was written between the other's choice of the
\* port and its own row (for a service that lasts as long as its build).
PortsAreShared ==
    \A r, s \in rows : r # s /\ r.port = s.port => {r.id, s.id} \cap raced # {}

\* The comment of forgetReleasedProject's caller: a released project is forgotten
\* "never by touching anything on disk".
ReleasedDataIsKept ==
    [][\A n \in released : data[n] # None => data'[n] = data[n]]_vars

\* What operations leave behind, whoever raced or cut them off: nothing that belongs to
\* no row, nothing that only looks usable, nothing between, no port given twice.
ResourcesAreAccountedFor ==
    /\ TypeOK
    /\ NothingIsLost
    /\ RestingIsUsable
    /\ NothingStaysBetween
    /\ PortsAreShared
=============================================================================
