------------------------------ MODULE Commands ------------------------------
(***************************************************************************)
(* The verbs of the command line (cli/src/cli/commands.ts) as what they    *)
(* are: programs of several calls to the daemon's API, between which other *)
(* users' commands run, each call tried once (client.ts), any of which may *)
(* be refused, or be done and its answer lost.                             *)
(*                                                                         *)
(* The daemon's side is its store: a project per name, and the resources   *)
(* in it.  How the daemon gets there is Projects and Deploy.               *)
(***************************************************************************)
EXTENDS Integers, FiniteSets

CONSTANTS
    Users,
    Asks,      \* what they may ask: [verb, res, kind], on one project name
    MaxBegun, MaxIds, MaxLost \* bounds: commands, ids, answers lost

VARIABLES
    project,   \* the id of the project that has the name, or 0
    rows,      \* resources: [id, of, name, kind, by]
    ids,       \* ids given out
    cmd,       \* per user, the command: [verb, res, kind, at] and what it knows
    last,      \* ghost: how each user's last command ended
    begun, lost,
    spilt      \* ghost: what roll backs and answers have removed: [verb, mark, row]

vars == <<project, rows, ids, cmd, last, begun, lost, spilt>>

None == 0
Ended == [verb |-> "none", code |-> 0, made |-> None, told |-> FALSE, late |-> FALSE, kept |-> FALSE]
Off == [verb |-> "none", at |-> "off"]

At(u, where) == cmd[u].at = where
Go(u, where) == cmd' = [cmd EXCEPT ![u].at = where]

Here == {r \in rows : r.of = project}
Named(n) == {r \in Here : r.name = n}

\* A process ends, with a code: `told` when the user reads of what may be left to do.
Exit(u, code, told) ==
    /\ cmd' = [cmd EXCEPT ![u] = Off]
    /\ last' = [last EXCEPT ![u] =
         [verb |-> cmd[u].verb, code |-> code, made |-> cmd[u].made,
          told |-> told, late |-> cmd[u].at = "connect",
          kept |-> cmd[u].at = "look again" /\ Here # {}]]

\* call(): the daemon's answer, an error of it, or nothing heard of what was done.
Heard == UNCHANGED lost
Unheard == lost < MaxLost /\ lost' = lost + 1

Store == <<project, rows, ids>>

-----------------------------------------------------------------------------

\* Faulty variant: every question comes before the look.
AsksFirstAlways == {"rm", "rm resource", "queue rm"}

\* cmdRm asks before it looks anything up; cmdQueueRm, cmdQueuePurge, cmdSnapshotRm
\* and an in-place restore look first, and act on what they found.
AsksFirst == {"rm", "rm resource"}

Begin(u, a) ==
    /\ At(u, "off") /\ begun < MaxBegun /\ begun' = begun + 1
    /\ cmd' = [cmd EXCEPT ![u] =
         [verb |-> a.verb, res |-> a.res, kind |-> a.kind, id |-> None, made |-> None, mark |-> ids,
          at |-> CASE a.verb = "new" -> "make" [] a.verb = "deploy" -> "look"
                   [] a.verb \in AsksFirst -> "asked" [] a.verb = "create" -> "fill"
                   [] a.verb = "snapshot" -> "call" [] OTHER -> "resolve"]]
    /\ UNCHANGED <<Store, last, lost, spilt>>

\* cmdDeploy's read, and everything it can refuse before it changes anything.
Look(u) ==
    /\ At(u, "look")
    /\ \/ Exit(u, 1, FALSE)
       \/ /\ \A r \in Named(cmd[u].res) : r.kind = cmd[u].kind
          /\ cmd' = [cmd EXCEPT
               ![u].at = IF project = None THEN "make"
                         ELSE IF Named(cmd[u].res) # {} THEN "redeploy" ELSE "fill",
               ![u].id = IF Named(cmd[u].res) = {} THEN None
                         ELSE (CHOOSE r \in Named(cmd[u].res) : TRUE).id]
          /\ UNCHANGED last
    /\ UNCHANGED <<Store, begun, lost, spilt>>

\* api.createProject.
MakeProject(u) ==
    /\ At(u, "make")
    /\ \/ UNCHANGED <<Store, lost>> /\ Exit(u, 1, FALSE)
       \/ /\ project = None /\ ids < MaxIds
          /\ ids' = ids + 1 /\ project' = ids' /\ UNCHANGED rows
          /\ \/ /\ Heard /\ UNCHANGED last
                /\ cmd' = [cmd EXCEPT ![u].at = "fill", ![u].made = ids', ![u].mark = ids']
             \/ Unheard /\ Exit(u, 1, TRUE)
    /\ UNCHANGED <<begun, spilt>>

\* Faulty variant: a refusal of the first resource is no failure.
FailsQuietly(u) == Exit(u, 1, FALSE)

\* The catch of cmdNew, and of cmdDeploy, which cleans up only after itself.
Fails(u) ==
    CASE cmd[u].verb = "new" -> Go(u, "roll back") /\ UNCHANGED last
      [] cmd[u].verb = "deploy" /\ cmd[u].made # None -> Go(u, "look again") /\ UNCHANGED last
      [] OTHER -> Exit(u, 1, FALSE)

\* api.createResource until the row is written, or the daemon refuses.
StartCreate(u) ==
    /\ At(u, "fill")
    /\ \/ Fails(u) /\ UNCHANGED Store
       \/ /\ project # None /\ Named(cmd[u].res) = {} /\ ids < MaxIds
          /\ ids' = ids + 1 /\ UNCHANGED <<project, last>>
          /\ rows' = rows \cup {[id |-> ids', of |-> project, name |-> cmd[u].res,
                                 kind |-> cmd[u].kind, by |-> u]}
          /\ cmd' = [cmd EXCEPT ![u].at = "building", ![u].id = ids']
    /\ UNCHANGED <<begun, lost, spilt>>

Exists(id) == \E r \in rows : r.id = id

\* ... and its answer.  What failed stays as a row, to be looked into.
EndCreate(u) ==
    /\ At(u, "building")
    /\ \/ Heard /\ Fails(u)
       \/ Exists(cmd[u].id) /\ Unheard /\ Fails(u)
       \/ /\ Exists(cmd[u].id) /\ Heard
          /\ IF cmd[u].verb = "new" THEN Go(u, "connect") /\ UNCHANGED last
             ELSE Exit(u, 0, FALSE)
    /\ UNCHANGED <<Store, begun, spilt>>

\* What acts on an id that was found before.
ById(u) ==
    /\ \/ Heard /\ Exit(u, 1, FALSE)
       \/ Exists(cmd[u].id) /\ Unheard /\ Exit(u, 1, TRUE)
       \/ Exists(cmd[u].id) /\ Heard /\ Exit(u, 0, FALSE)
    /\ UNCHANGED <<Store, begun, spilt>>

\* cmdDeploy of what is there; cmdNew's reading of the connection string; cmdSleepWake,
\* cmdLogs, cmdConnect; cmdEnvSet and cmdEnvUnset.
Redeploy(u)   == At(u, "redeploy") /\ ById(u)
Connection(u) == At(u, "connect") /\ ById(u)
Use(u)        == At(u, "use") /\ ById(u)
SetEnv(u)     == At(u, "env") /\ ById(u)

\* cmdSnapshotTake, cmdBranch, cmdPin: the project's name, for the daemon to find.
ByName(u) ==
    /\ At(u, "call")
    /\ \/ Heard /\ Exit(u, 1, FALSE)
       \/ project # None /\ Unheard /\ Exit(u, 1, TRUE)
       \/ project # None /\ Heard /\ Exit(u, 0, FALSE)
    /\ UNCHANGED <<Store, begun, spilt>>

-----------------------------------------------------------------------------

\* Faulty variant: does not look whether it is still empty.
LookAgainBlind(u) ==
    /\ At(u, "look again")
    /\ cmd' = [cmd EXCEPT ![u].at = "roll back", ![u].mark = ids]
    /\ UNCHANGED <<Store, last, begun, lost, spilt>>

\* removeProjectIfEmpty's read.
LookAgain(u) ==
    /\ At(u, "look again")
    /\ \/ Exit(u, 1, TRUE)
       \/ project # None /\ Here # {} /\ Exit(u, 1, FALSE)
       \/ /\ project # None /\ Here = {} /\ UNCHANGED last
          /\ cmd' = [cmd EXCEPT ![u].at = "roll back", ![u].mark = ids]
    /\ UNCHANGED <<Store, begun, lost, spilt>>

\* DELETE of a project by its name, with everything in it.
RemoveProject ==
    /\ project # None
    /\ project' = None /\ rows' = rows \ Here /\ UNCHANGED ids

Log(u, gone) == spilt' = spilt \cup {[verb |-> cmd[u].verb, mark |-> cmd[u].mark, row |-> r] : r \in gone}

\* api.deleteProject of cmdNew and removeProjectIfEmpty: by name, and what it says of a
\* failure goes to stderr.
RollBack(u) ==
    /\ At(u, "roll back")
    /\ \/ UNCHANGED <<Store, lost, spilt>> /\ Exit(u, 1, TRUE)
       \/ /\ RemoveProject /\ Log(u, Here)
          /\ \/ Heard /\ Exit(u, 1, FALSE)
             \/ Unheard /\ Exit(u, 1, TRUE)
    /\ UNCHANGED begun

-----------------------------------------------------------------------------

\* resolveTarget and resolveQueueTarget: one read, of a name, and an id that is kept.
Resolve(u) ==
    /\ At(u, "resolve")
    /\ \/ Exit(u, 1, FALSE)
       \/ \E r \in Named(cmd[u].res) :
            /\ cmd[u].verb = "queue rm" => r.kind = "queue"
            /\ cmd[u].verb = "env" => r.kind = "app"
            /\ cmd' = [cmd EXCEPT ![u].id = r.id,
                 ![u].mark = IF cmd[u].verb \in AsksFirst THEN @ ELSE ids,
                 ![u].at = CASE cmd[u].verb \in {"use", "env"} -> cmd[u].verb
                             [] cmd[u].verb \in AsksFirst -> "rm" [] OTHER -> "asked"]
            /\ UNCHANGED last
    /\ UNCHANGED <<Store, begun, lost, spilt>>

\* The name is typed back.
Confirm(u) == Go(u, IF cmd[u].verb \in AsksFirst \ {"rm"} THEN "resolve" ELSE "rm")

Answer(u) ==
    /\ At(u, "asked")
    /\ \/ Confirm(u) /\ UNCHANGED last
       \/ Exit(u, 1, FALSE)
    /\ UNCHANGED <<Store, begun, lost, spilt>>

Remove(u) ==
    /\ At(u, "rm")
    /\ \/ UNCHANGED <<Store, lost, spilt>> /\ Exit(u, 1, FALSE)
       \/ /\ IF cmd[u].verb = "rm" THEN RemoveProject /\ UNCHANGED spilt
             ELSE /\ Exists(cmd[u].id) /\ UNCHANGED <<project, ids>>
                  /\ rows' = {r \in rows : r.id # cmd[u].id}
                  /\ IF cmd[u].verb = "queue rm" THEN Log(u, {r \in rows : r.id = cmd[u].id})
                     ELSE UNCHANGED spilt
          /\ \/ Heard /\ Exit(u, 0, FALSE)
             \/ Unheard /\ Exit(u, 1, TRUE)
    /\ UNCHANGED begun

Init ==
    /\ project = None /\ rows = {} /\ ids = 0
    /\ cmd = [u \in Users |-> Off] /\ last = [u \in Users |-> Ended]
    /\ begun = 0 /\ lost = 0 /\ spilt = {}

Next == \E u \in Users :
    \/ \E a \in Asks : Begin(u, a)
    \/ Look(u) \/ MakeProject(u) \/ StartCreate(u) \/ EndCreate(u)
    \/ Redeploy(u) \/ Connection(u) \/ Use(u) \/ SetEnv(u) \/ ByName(u)
    \/ LookAgain(u) \/ RollBack(u) \/ Resolve(u) \/ Answer(u) \/ Remove(u)

Spec == Init /\ [][Next]_vars

-----------------------------------------------------------------------------

TypeOK ==
    /\ project \in 0..ids /\ ids \in 0..MaxIds /\ lost \in 0..MaxLost
    /\ \A r, s \in rows : (r.of = s.of /\ r.name = s.name) => r = s
    /\ \A r \in rows : r.of = project /\ project # None

\* A `new` or `deploy` that has failed leaves no project of its own behind, unless it
\* says so: but for one with something in it, which a deploy keeps, and for a `new`
\* that fails only when it reads the connection string.
FailedLeavesNothing ==
    \A u \in Users :
        last[u].code = 1 /\ last[u].made # None /\ last[u].made = project =>
            last[u].told \/ last[u].late \/ last[u].kept

\* What a command takes back or asks about is what it knew: a deploy's roll back
\* removes nothing that was there when it looked whether the project was empty, and the
\* answer to a question removes no queue that was made after it was asked.
OnlyTheKnownIsRemoved ==
    \A s \in spilt :
        /\ s.verb = "queue rm" => s.row.id <= s.mark
        /\ s.verb = "deploy" => s.row.id > s.mark

\* Both: no rubbish after a failure, and no more removed than was meant.
CommandsKeepTheirWord == TypeOK /\ FailedLeavesNothing /\ OnlyTheKnownIsRemoved
=============================================================================
