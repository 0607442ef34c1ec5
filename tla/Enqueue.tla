------------------------------ MODULE Enqueue ------------------------------
(***************************************************************************)
(* The enqueue listener (daemon/queue-endpoint.ts): a producer presents    *)
(* its worker's token, its body is awaited, and the queue it names is      *)
(* looked up in the worker's own project and opened by a path made of      *)
(* names.  Opening a queue's file creates it.  While the body is awaited   *)
(* projects, workers and queues go, and others come under the same names.  *)
(***************************************************************************)
EXTENDS Naturals, FiniteSets

CONSTANTS
    Names,          \* project names; each project has one worker and one queue
    Requests,
    MaxProjects,    \* bound: projects ever created
    MaxQueues,      \* bound: queues ever created
    MaxBegun        \* bound: requests begun

None == 0

VARIABLES
    project,    \* name -> the id of the project that has it, or None
    worker,     \* project id -> the token of its worker, or None
    queue,      \* project id -> the id of its queue's row, or None
    file,       \* name -> [there, from]: the queue's file under that name, and the
                \* projects whose messages are in it
    removal,    \* name -> how far `hobby rm` of the project is
    req,
    projects, queues, begun,
    raced       \* history: names a queue was created under during a removal

vars == <<project, worker, queue, file, removal, req, projects, queues, begun, raced>>

NoFile == [there |-> FALSE, from |-> {}]
Ids    == 1..MaxProjects
NameOf(id) == {n \in Names : project[n] = id}

----------------------------------------------------------------------------
\* Projects, as far as a queue sees them.

\* openQueueDb
Opened(n) == [file EXCEPT ![n].there = TRUE]

Created(n, token) ==
    LET id == projects + 1
    IN  /\ id <= MaxProjects /\ queues < MaxQueues /\ project[n] = None
        /\ projects' = id /\ queues' = queues + 1
        /\ project' = [project EXCEPT ![n] = id]
        /\ worker' = [worker EXCEPT ![id] = token]
        /\ queue' = [queue EXCEPT ![id] = queues + 1]
        /\ file' = Opened(n)
        /\ UNCHANGED <<removal, req, begun, raced>>

\* A worker's token is new with its row.
CreateProject(n) == Created(n, projects + 1)

\* Faulty variant: the copy keeps the token.
TokenKept(source) == worker[project[source]]
TokenMinted(source) == projects + 1

\* Branch and restore --as: the source's messages are copied, a token is minted.
CopyProject(source, n) ==
    /\ project[source] # None /\ worker[project[source]] # None
    /\ Created(n, TokenMinted(source))

CreateQueue(n) ==
    /\ project[n] # None /\ queue[project[n]] = None /\ queues < MaxQueues
    /\ queues' = queues + 1
    /\ queue' = [queue EXCEPT ![project[n]] = queues + 1]
    /\ file' = Opened(n)
    /\ raced' = IF removal[n] = "none" THEN raced ELSE raced \cup {n}
    /\ UNCHANGED <<project, worker, removal, req, projects, begun>>

\* The queue's kind removes its directory and its row, in one turn.
Gone(n) ==
    /\ queue' = [queue EXCEPT ![project[n]] = None]
    /\ file' = [file EXCEPT ![n] = NoFile]

DestroyQueue(n) ==
    /\ removal[n] = "none" /\ project[n] # None /\ queue[project[n]] # None
    /\ worker[project[n]] = None      \* findBindingWorker: nobody produces to it
    /\ Gone(n)
    /\ UNCHANGED <<project, worker, removal, req, projects, queues, begun, raced>>

DestroyWorker(n) ==
    /\ removal[n] = "none" /\ project[n] # None /\ worker[project[n]] # None
    /\ worker' = [worker EXCEPT ![project[n]] = None]
    /\ UNCHANGED <<project, queue, file, removal, req, projects, queues, begun, raced>>

\* deleteProjectRoute: its resources in turn, its directory, its row.
RmBegins(n) ==
    /\ project[n] # None /\ removal[n] = "none"
    /\ removal' = [removal EXCEPT ![n] = "resources"]
    /\ UNCHANGED <<project, worker, queue, file, req, projects, queues, begun, raced>>

RmWorker(n) ==
    /\ removal[n] = "resources" /\ worker[project[n]] # None
    /\ worker' = [worker EXCEPT ![project[n]] = None]
    /\ UNCHANGED <<project, queue, file, removal, req, projects, queues, begun, raced>>

RmQueue(n) ==
    /\ removal[n] = "resources" /\ worker[project[n]] = None
    /\ Gone(n)
    /\ removal' = [removal EXCEPT ![n] = "directory"]
    /\ UNCHANGED <<project, worker, req, projects, queues, begun, raced>>

RmDirectory(n) ==
    /\ removal[n] = "directory"
    /\ file' = [file EXCEPT ![n] = NoFile]
    /\ removal' = [removal EXCEPT ![n] = "row"]
    /\ UNCHANGED <<project, worker, queue, req, projects, queues, begun, raced>>

RmRow(n) ==
    /\ removal[n] = "row"
    /\ queue' = [queue EXCEPT ![project[n]] = None]
    /\ project' = [project EXCEPT ![n] = None]
    /\ removal' = [removal EXCEPT ![n] = "none"]
    /\ UNCHANGED <<worker, file, req, projects, queues, begun, raced>>

----------------------------------------------------------------------------
\* The listener.

\* queueTokenFor finds the first worker of the store with this token.
TokenFor(token) ==
    LET mine == {id \in Ids : worker[id] = token /\ token # None}
    IN  IF mine = {} THEN None ELSE CHOOSE id \in mine : \A o \in mine : id <= o

\* authenticate, for a request of project id's worker; then the body is awaited.
Authenticate(r, id) ==
    /\ req[r].at = "idle" /\ begun < MaxBegun
    /\ worker[id] # None /\ TokenFor(worker[id]) # None
    /\ begun' = begun + 1
    /\ req' = [req EXCEPT ![r] = [at |-> "body", of |-> id, project |-> TokenFor(worker[id]),
                                  was |-> queue[TokenFor(worker[id])]]]
    /\ UNCHANGED <<project, worker, queue, file, removal, projects, queues, raced>>

\* Faulty variant: the queue that was there when the request came.
QueueThen(r) == req[r].was
\* getResourceByName in the worker's own project, after the body.
QueueNow(r) == queue[req[r].project]

\* The rest of handleEnqueue: a queue or 404, a project or 500, the message or 400.
BodyCame(r) ==
    /\ req[r].at = "body"
    /\ req' = [req EXCEPT ![r] = [at |-> "idle"]]
    /\ \/ /\ QueueNow(r) # None
          /\ \E n \in NameOf(req[r].project) :
                file' = [Opened(n) EXCEPT ![n].from = @ \cup {req[r].of}]
       \/ UNCHANGED file
    /\ UNCHANGED <<project, worker, queue, removal, projects, queues, begun, raced>>

Init ==
    /\ project = [n \in Names |-> None]
    /\ worker = [id \in Ids |-> None] /\ queue = [id \in Ids |-> None]
    /\ file = [n \in Names |-> NoFile] /\ removal = [n \in Names |-> "none"]
    /\ req = [r \in Requests |-> [at |-> "idle"]]
    /\ projects = 0 /\ queues = 0 /\ begun = 0 /\ raced = {}

Next ==
    \/ \E n \in Names :
        \/ CreateProject(n) \/ CreateQueue(n) \/ DestroyQueue(n) \/ DestroyWorker(n)
        \/ RmBegins(n) \/ RmWorker(n) \/ RmQueue(n) \/ RmDirectory(n) \/ RmRow(n)
        \/ \E s \in Names : CopyProject(s, n)
    \/ \E r \in Requests : BodyCame(r) \/ \E id \in Ids : Authenticate(r, id)

Spec == Init /\ [][Next]_vars

----------------------------------------------------------------------------

TypeOK ==
    /\ \A n \in Names : project[n] \in 0..projects /\ file[n].from \subseteq Ids
    /\ \A id \in Ids : worker[id] \in 0..projects /\ queue[id] \in 0..queues
    /\ \A n \in Names : removal[n] \in {"none", "resources", "directory", "row"}
    /\ \A r \in Requests : req[r].at \in {"idle", "body"}

\* A message is in a queue of the project whose worker sent it, also after the worker
\* is gone, and after the project's name has gone to another project or its worker has
\* been copied with it.
MessagesStayHome ==
    \A n \in Names \ raced : file[n].from \subseteq {project[n]}

\* There is a file only where there is a queue: a late message does not bring back the
\* file of a queue that is gone, for the next queue of that name to find.
FilesAreOfQueues ==
    \A n \in Names \ raced : file[n].there => project[n] # None /\ queue[project[n]] # None

\* A message reaches the sender's own project and a queue that exists, whatever became
\* of worker, queue and project while its body was awaited.
SendsAreSound ==
    /\ TypeOK
    /\ MessagesStayHome
    /\ FilesAreOfQueues
=============================================================================
