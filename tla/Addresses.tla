------------------------------ MODULE Addresses ------------------------------
(***************************************************************************)
(* Every way to a resource that is written down somewhere: the key in a    *)
(* connection string, an app's hostname, the ports and the name of a       *)
(* container, the DATABASE_URL in an app's environment, the entries of the *)
(* files that `hobby eject` hands over, and the configs that a snapshot    *)
(* keeps and a copy of it rewrites (core/src/names.ts, daemon/context.ts,  *)
(* daemon/routes.ts, daemon/snapshots.ts and the kinds).                   *)
(*                                                                         *)
(* Each call is one step, but for a copy, which makes its rows one by one. *)
(* A name is a sequence of words, which Docker's names join.               *)
(***************************************************************************)
EXTENDS Integers, FiniteSets, FiniteSetsExt, Sequences

CONSTANTS
    ProjectNames, DatabaseNames, ComputeNames,
    Computes,  \* bound: project name -> the kind of compute created in it, "app" or "worker"
    Ports,     \* those of the box
    MaxIds     \* bound: ids of projects and rows, but for a copy's last rows

VARIABLES
    projects,  \* [id, name, released]
    rows,      \* [id, of, kind, name, ports, box, host, bound, db, token, state]
    boxes,     \* containers: [name, of, net, ports, url]
    snapshot,  \* the rows that a snapshot keeps
    copy,      \* a branch or a restore on its way: [verb, of, todo, map, pending]
    ids,
    shared     \* ghost: containers that two rows have had at once, or one on its way

vars == <<projects, rows, boxes, snapshot, copy, ids, shared>>

None == 0
Default == <<"primary">> \* DEFAULT_POSTGRES_NAME
NoName == <<>>
NoCopy == [verb |-> "none", of |-> None, todo |-> {}, map |-> {}, pending |-> {}]

RowsOf(p) == {r \in rows : r.of = p}
Databases(p) == {r \in RowsOf(p) : r.kind = "postgres"}
Named(p, n) == {r \in RowsOf(p) : r.name = n}
Row(id) == CHOOSE r \in rows : r.id = id
Exists(id) == \E r \in rows : r.id = id
Project(id) == CHOOSE p \in projects : p.id = id
First(S) == CHOOSE r \in S : \A s \in S : r.id <= s.id

-----------------------------------------------------------------------------
\* What is written down.

\* Faulty variant: every database of a project has the project's name as its key.
KeyForProject(p, n) == [project |-> p, segment |-> NoName]

\* routingKeyFor.
KeyFor(p, n) == [project |-> p, segment |-> IF n = Default THEN NoName ELSE n]

\* appHostname, workerHostname: labels, above the domain.
Hostname(p, n) == <<n, p>>
\* The name of a container, without its prefix.
BoxName(p, n) == p \o n

\* databaseUrlFor, hyperdriveUrl: of the project that the database is in.
UrlOf(bound) ==
    IF Exists(bound) /\ Row(bound).kind = "postgres"
    THEN KeyFor(Project(Row(bound).of).name, Row(bound).name)
    ELSE KeyFor(NoName, Default)

\* connectionString through the proxy.
ConnectionString(r) == KeyFor(Project(r.of).name, r.name)

-----------------------------------------------------------------------------
\* Where it leads.

Nowhere == [row |-> None, database |-> NoName]
Refused == [row |-> -1, database |-> NoName]

To(r, segment) == [row |-> r.id, database |-> IF segment = NoName THEN r.db ELSE segment]

\* Faulty variant: the only database is taken before the one that is named.
ResolveOnly(key) ==
    LET ps == {p \in projects : p.name = key.project}
        dbs == UNION {Databases(p.id) : p \in ps}
    IN  IF dbs = {} THEN Nowhere
        ELSE IF Cardinality(dbs) = 1 THEN To(First(dbs), key.segment)
        ELSE IF \E r \in dbs : r.name = key.segment
             THEN To(First({r \in dbs : r.name = key.segment}), NoName)
        ELSE Refused

\* resolve of createProxyDeps, and the database that handleStartup asks for.
Resolve(key) ==
    LET ps == {p \in projects : p.name = key.project}
        dbs == UNION {Databases(p.id) : p \in ps}
        by(n) == {r \in dbs : r.name = n}
    IN  CASE \E p \in ps : p.released              -> Refused
          [] ~(\E p \in ps : p.released) /\ dbs = {} -> Nowhere
          [] OTHER ->
             IF by(key.segment) # {} THEN To(First(by(key.segment)), NoName)
             ELSE IF Cardinality(dbs) = 1 THEN To(First(dbs), key.segment)
             ELSE IF by(Default) # {} THEN To(First(by(Default)), key.segment)
             ELSE Refused

\* parseAppHostname, and resolve of createHttpProxyDeps.
ResolveHost(host) ==
    LET ps == {p \in projects : Len(host) = 2 /\ p.name = host[2]}
        found == {r \in rows : \E p \in ps : r.of = p.id /\ r.name = host[1]}
    IN  IF \E p \in ps : p.released THEN Refused
        ELSE IF \A r \in found : r.kind = "postgres" THEN Nowhere
        ELSE IF \E r \in found : r.state = "undeployed" THEN Refused
        ELSE To(First(found), NoName)

-----------------------------------------------------------------------------

\* allocatePort, and the port that the kind has besides.
Taken == UNION {{r.ports[i] : i \in DOMAIN r.ports} : r \in rows}
FreePorts(kind) ==
    LET free == Ports \ Taken
        one == Min(free)
    IN  IF kind = "worker" THEN <<one, Min(free \ {one})>> ELSE <<one>>
Enough(kind) == Cardinality(Ports \ Taken) >= IF kind = "worker" THEN 2 ELSE 1

\* Docker has one container of a name; ensureCreated leaves one that is there.
BoxFor(r) == [name |-> r.box, of |-> r.id, net |-> r.of, ports |-> r.ports, url |-> UrlOf(r.bound)]
WithBox(r) == IF \E b \in boxes : b.name = r.box THEN boxes ELSE boxes \cup {BoxFor(r)}
Without(rs) == {b \in boxes : \A r \in rs : b.name # r.box}

Note == shared' = shared \cup
    {r.box : r \in {r \in rows' : r.state = "making" \/ \E s \in rows' : s # r /\ s.box = r.box}}

\* A row of a kind, as it is created.
NewRow(kind, p, n, bound, db, state) ==
    [id |-> ids + 1, of |-> p.id, kind |-> kind, name |-> n, ports |-> FreePorts(kind),
     box |-> BoxName(p.name, n), host |-> IF kind = "postgres" THEN NoName ELSE Hostname(p.name, n),
     bound |-> bound, db |-> db, token |-> ids + 1, state |-> state]

NewProject(n) ==
    /\ ids < MaxIds /\ \A p \in projects : p.name # n
    /\ ids' = ids + 1 /\ projects' = projects \cup {[id |-> ids', name |-> n, released |-> FALSE]}
    /\ UNCHANGED <<rows, boxes, snapshot, copy, shared>>

\* createPostgres.
CreateDatabase(p, n) ==
    /\ ids < MaxIds /\ Named(p.id, n) = {} /\ Enough("postgres") /\ ids' = ids + 1
    /\ LET r == NewRow("postgres", p, n, None, p.name, "resting") IN
       rows' = rows \cup {r} /\ boxes' = WithBox(r)
    /\ Note /\ UNCHANGED <<projects, snapshot, copy>>

\* createAppResource and createWorkerResource without code.  The id of a database to
\* bind is taken as it comes, of whatever project.
CreateCompute(p, kind, n, bound) ==
    /\ ids < MaxIds /\ Named(p.id, n) = {} /\ Enough(kind) /\ ids' = ids + 1
    /\ rows' = rows \cup {NewRow(kind, p, n, bound, NoName, "undeployed")}
    /\ Note /\ UNCHANGED <<projects, boxes, snapshot, copy>>

\* readDatabaseBinding, deployApp and deployWorker: the container is replaced.
Deploy(r, bound) ==
    /\ r.kind # "postgres" /\ bound \in {r.bound, None} \cup {d.id : d \in Databases(r.of)}
    /\ LET to == [r EXCEPT !.bound = bound, !.state = IF r.state = "making" THEN @ ELSE "resting"] IN
       rows' = (rows \ {r}) \cup {to} /\ boxes' = Without({r}) \cup {BoxFor(to)}
    /\ Note /\ UNCHANGED <<projects, snapshot, copy, ids>>

\* ensureContainer of startApp and startWorker; a database's container has to be there.
Start(r) ==
    /\ r.kind # "postgres" /\ r.state # "undeployed" /\ boxes' = WithBox(r)
    /\ UNCHANGED <<projects, rows, snapshot, copy, ids, shared>>

\* destroyResourceRoute.
Remove(r) ==
    /\ ~Project(r.of).released
    /\ rows' = rows \ {r} /\ boxes' = Without({r})
    /\ Note /\ UNCHANGED <<projects, snapshot, copy, ids>>

\* deleteProjectRoute, and of a released one too: its containers go.
RemoveProject(p) ==
    /\ projects' = projects \ {p} /\ rows' = rows \ RowsOf(p.id)
    /\ boxes' = Without(RowsOf(p.id))
    /\ Note /\ UNCHANGED <<snapshot, copy, ids>>

-----------------------------------------------------------------------------
\* Handing over.

\* Faulty variant: a site for everything that has a hostname.
SitesOfAll(rs) == {[host |-> r.host, port |-> r.ports[1]] : r \in {r \in rs : r.kind # "postgres"}}

Deployed(rs) == {r \in rs : r.state # "undeployed"}

\* renderCaddyfile.
Sites(rs) == {[host |-> r.host, port |-> r.ports[1]] : r \in {r \in Deployed(rs) : r.kind # "postgres"}}

\* renderCompose: a bound database is named as the service that it is in the file.
BoundService(id, rs) ==
    LET ds == {d \in rs : d.id = id /\ d.kind = "postgres"} IN
    IF ds = {} THEN NoName ELSE (CHOOSE d \in ds : TRUE).name

DatabaseServices(rs) ==
    {[name |-> r.name, port |-> r.ports[1], database |-> NoName] : r \in {r \in rs : r.kind = "postgres"}}
AppServices(rs) ==
    {[name |-> r.name, port |-> r.ports[1], database |-> BoundService(r.bound, rs)] :
        r \in {r \in Deployed(rs) : r.kind = "app"}}
\* A worker's manifest names its database, and no queue endpoint any more.
WorkerServices(rs) ==
    {[name |-> r.name, port |-> r.ports[1], database |-> BoundService(r.bound, rs)] :
        r \in {r \in Deployed(rs) : r.kind = "worker"}}
Services(rs) == DatabaseServices(rs) \cup AppServices(rs) \cup WorkerServices(rs)

\* ejectRoute with a release; the files are of the rows that it reads first.
Eject(p) ==
    /\ Deployed(RowsOf(p.id)) # {}
    /\ projects' = (projects \ {p}) \cup {[p EXCEPT !.released = TRUE]}
    /\ UNCHANGED <<rows, boxes, snapshot, copy, ids, shared>>

Adopt(p) ==
    /\ p.released /\ projects' = (projects \ {p}) \cup {[p EXCEPT !.released = FALSE]}
    /\ UNCHANGED <<rows, boxes, snapshot, copy, ids, shared>>

-----------------------------------------------------------------------------
\* Copies.

TakeSnapshot(p) ==
    /\ ids < MaxIds \* bound: a restore may follow
    /\ ~p.released /\ RowsOf(p.id) # {} /\ snapshot' = RowsOf(p.id)
    /\ UNCHANGED <<projects, rows, boxes, copy, ids, shared>>

Begin(verb, entries, n) ==
    /\ copy = NoCopy /\ entries # {} /\ ids < MaxIds /\ \A p \in projects : p.name # n
    /\ ids' = ids + 1 /\ projects' = projects \cup {[id |-> ids', name |-> n, released |-> FALSE]}
    /\ copy' = [verb |-> verb, of |-> ids', todo |-> entries, map |-> {}, pending |-> {}]
    /\ UNCHANGED <<rows, boxes, snapshot, shared>>

\* branchProject, of databases only; restoreSnapshot into a project of its own.
Branch(p, n) == ~p.released /\ RowsOf(p.id) = Databases(p.id) /\ Begin("branch", RowsOf(p.id), n)
Restore(n)   == Begin("restore", snapshot, n)

InCopy == \E p \in projects : p.id = copy.of
Target == Project(copy.of)

\* Faulty variant: the copy is published where the original is.
ClonedAsIs(e) == [e EXCEPT !.id = ids + 1, !.of = copy.of, !.box = BoxName(Target.name, e.name)]

\* createPostgresFromClone: the box's own properties are new, the cluster's are kept.
Cloned(e) == NewRow("postgres", Target, e.name, None, e.db, "resting")

\* The next row: a database's with its container, another's as the snapshot has it.
CopyNext ==
    /\ copy.todo # {} /\ InCopy
    /\ LET e == First(copy.todo)
           db == e.kind = "postgres"
           r == IF db THEN Cloned(e) ELSE [e EXCEPT !.id = ids + 1, !.of = copy.of, !.state = "making"]
       IN  /\ Named(copy.of, e.name) = {} /\ Enough("postgres")
           /\ ids' = ids + 1 /\ rows' = rows \cup {r}
           /\ boxes' = IF db THEN WithBox(r) ELSE boxes
           /\ copy' = [copy EXCEPT !.todo = @ \ {e}, !.map = @ \cup {<<e.id, ids'>>},
                         !.pending = IF db THEN @ ELSE @ \cup {[id |-> ids', entry |-> e]}]
    /\ Note /\ UNCHANGED <<projects, snapshot>>

Mapped(id) == {m[2] : m \in {m \in copy.map : m[1] = id}}

\* Faulty variant: the binding is not looked up among the copies.
RewrittenUnmapped(e, r) ==
    [e EXCEPT !.id = r.id, !.of = copy.of, !.box = BoxName(Target.name, e.name), !.ports = FreePorts(e.kind),
              !.host = Hostname(Target.name, e.name), !.token = r.id,
              !.state = IF e.state = "undeployed" THEN @ ELSE "resting"]

\* rewriteConfig, of what the snapshot says, and remapDatabase.
Rewritten(e, r) ==
    [e EXCEPT !.id = r.id, !.of = copy.of, !.box = BoxName(Target.name, e.name), !.ports = FreePorts(e.kind),
              !.host = Hostname(Target.name, e.name), !.token = r.id,
              !.bound = IF @ = None THEN None ELSE CHOOSE m \in Mapped(@) : TRUE,
              !.state = IF e.state = "undeployed" THEN @ ELSE "resting"]

\* The second pass; a row that is gone is not written again.
CopyRewrite ==
    /\ copy.todo = {} /\ copy.pending # {} /\ InCopy
    /\ LET x == First(copy.pending) IN
       /\ x.entry.bound = None \/ Mapped(x.entry.bound) # {}
       /\ Enough(x.entry.kind)
       /\ copy' = [copy EXCEPT !.pending = @ \ {x}]
       /\ rows' = {IF r.id = x.id THEN Rewritten(x.entry, r) ELSE r : r \in rows}
    /\ Note /\ UNCHANGED <<projects, boxes, snapshot, ids>>

\* It is done; or it throws, or the daemon dies, and what is made stays as it is.
CopyEnds ==
    /\ copy # NoCopy /\ copy' = NoCopy
    /\ UNCHANGED <<projects, rows, boxes, snapshot, ids, shared>>

\* discardBranch, of a branch that failed.
Discard ==
    /\ copy.verb = "branch" /\ InCopy /\ copy' = NoCopy
    /\ projects' = projects \ {Target} /\ rows' = rows \ RowsOf(copy.of)
    /\ boxes' = Without(RowsOf(copy.of))
    /\ Note /\ UNCHANGED <<snapshot, ids>>

Init ==
    /\ projects = {} /\ rows = {} /\ boxes = {} /\ snapshot = {} /\ copy = NoCopy
    /\ ids = 0 /\ shared = {}

Next ==
    \/ \E n \in ProjectNames : NewProject(n) \/ Restore(n)
    \/ \E p \in projects :
         \/ \E n \in DatabaseNames : CreateDatabase(p, n)
         \/ \E n \in ComputeNames, b \in {None} \cup {r.id : r \in {r \in rows : r.kind = "postgres"}} :
              CreateCompute(p, Computes[p.name], n, b)
         \/ RemoveProject(p) \/ Eject(p) \/ Adopt(p) \/ TakeSnapshot(p)
         \/ \E n \in ProjectNames : Branch(p, n)
    \/ \E r \in rows :
         \/ Start(r) \/ Remove(r)
         \/ \E b \in {r.bound, None} \cup {d.id : d \in Databases(r.of)} : Deploy(r, b)
    \/ CopyNext \/ CopyRewrite \/ CopyEnds \/ Discard

Spec == Init /\ [][Next]_vars

-----------------------------------------------------------------------------

Settled == {r \in rows : r.state # "making"}
Undisturbed(r) == r.box \notin shared

TypeOK ==
    /\ ids \in Nat /\ \A r \in rows : r.id \in 1..ids /\ \E p \in projects : p.id = r.of
    /\ \A r, s \in rows : (r.id = s.id \/ (r.of = s.of /\ r.name = s.name)) => r = s
    /\ \A b, c \in boxes : b.name = c.name => b = c

\* A connection string leads to its database, and the database inside that it has, for
\* as long as both are there: also when the project gets another, or it is a copy.
KeysLead ==
    \A r \in rows : r.kind = "postgres" =>
        Resolve(ConnectionString(r)) =
            IF Project(r.of).released THEN Refused ELSE [row |-> r.id, database |-> r.db]

\* A hostname leads to its app or worker; and the one its config publishes is that one.
HostsLead ==
    \A r \in Settled : r.kind # "postgres" =>
        /\ r.host = Hostname(Project(r.of).name, r.name)
        /\ ResolveHost(r.host) = IF Project(r.of).released \/ r.state = "undeployed" THEN Refused
                                 ELSE [row |-> r.id, database |-> NoName]

\* No two rows share a port, a token or a container, but for names that Docker cannot
\* tell apart; and what listens at a row's port is its own container, on its network.
PortsLead ==
    /\ \A r, s \in Settled : r # s =>
         /\ r.token # s.token
         /\ {r.ports[i] : i \in DOMAIN r.ports} \cap {s.ports[i] : i \in DOMAIN s.ports} = {}
         /\ r.box = s.box => /\ Project(r.of).name # Project(s.of).name
                             /\ Project(r.of).name \o r.name = Project(s.of).name \o s.name
    /\ \A r \in Settled, b \in boxes : b.name = r.box /\ Undisturbed(r) =>
         b.of = r.id /\ b.net = r.of /\ b.ports = r.ports

\* The DATABASE_URL of a container leads to the database that its row is bound to, while
\* that is there; and what a copy has made is never bound to a database of the original.
UrlsLead ==
    /\ \A r \in Settled, b \in boxes :
         b.name = r.box /\ Undisturbed(r) /\ Exists(r.bound) =>
            Resolve(b.url) = IF Project(Row(r.bound).of).released THEN Refused
                             ELSE [row |-> r.bound, database |-> Row(r.bound).db]
    /\ \A m, n \in copy.map :
         Exists(m[2]) /\ m[2] \notin {x.id : x \in copy.pending} => Row(m[2]).bound # n[1]

\* What is handed over stands on its own: a site leads to a service, the one with the
\* site's name; and a service that was bound to a database of the project finds it.
HandoversLead ==
    \A p \in projects : LET rs == RowsOf(p.id) IN
        (\A r \in rs : r.state # "making") =>
            /\ \A site \in Sites(rs) :
                 \E s \in Services(rs) : s.port = site.port /\ s.name = site.host[1]
            /\ \A r \in Deployed(rs) : r.kind # "postgres" =>
                 \A d \in rs : d.id = r.bound =>
                    \E s, t \in Services(rs) :
                        s.name = r.name /\ s.database = t.name /\ t.port = d.ports[1]

\* Whatever is done to names, copies and bindings, an address that was given out leads
\* to the resource that it was given out for, or nowhere.
AddressesLead == TypeOK /\ KeysLead /\ HostsLead /\ PortsLead /\ UrlsLead /\ HandoversLead
=============================================================================
