------------------------------ MODULE Storage ------------------------------
(***************************************************************************)
(* What happens to the directories of one project that holds one database  *)
(* while snapshots (online and quiescing), in-place restores, branches and *)
(* deletions of snapshots run beside wakes, sleeps and a dying daemon      *)
(* (cli/src/daemon/snapshots.ts, branch.ts, basebackup.ts; core/src/       *)
(* copy.ts).  A step is what an operation does between two awaits.         *)
(*                                                                         *)
(* A directory holds somebody's data, whole or not: a copy of a directory  *)
(* that a server wrote to, that was moved or removed while it was read, is *)
(* not whole.                                                              *)
(***************************************************************************)
EXTENDS Naturals, FiniteSets

CONSTANTS
    Onlines, Offlines,  \* snapshots to take: takeOnlineSnapshot, takeSnapshot
    Restores,           \* in-place restores
    Branches,           \* branches of the project
    Deletes,            \* deletions of snapshots
    Sleeps,             \* explicit sleeps
    Snapshots,          \* those that are there already
    Of,                 \* restore or deletion -> its snapshot
    Casts,              \* which operations are asked for together
    Faults,             \* cast -> "daemon", "disk", "docker", "boot"
    Wakes,              \* starts that succeed, at most
    Absent, Nobody

Copiers == Onlines \cup Offlines \cup Restores \cup Branches
Ops     == Copiers \cup Deletes \cup Sleeps

\* Whose data a directory holds: the users', a snapshot's, or the image's own.
Directories == [data : Snapshots \cup {"written", "empty"}, whole : BOOLEAN]

ASSUME StorageNumbers ==
    /\ Casts \subseteq SUBSET Ops
    /\ Of \in [Restores \cup Deletes -> Snapshots]
    /\ Nobody \notin Ops
    /\ Onlines \cap Offlines = {} /\ Restores \cap (Onlines \cup Offlines) = {}
    /\ Branches \cap (Onlines \cup Offlines \cup Restores) = {}
    /\ Deletes \cap Copiers = {} /\ Sleeps \cap (Copiers \cup Deletes) = {}
    /\ {"written", "empty"} \cap Snapshots = {}
    /\ Absent \notin Directories
    /\ Faults \in [Casts -> SUBSET {"daemon", "disk", "docker", "boot"}]
    /\ Wakes \in Nat

VARIABLES
    cast,       \* the operations of this behaviour
    row,        \* the database's row
    box,        \* whether its container runs
    mount,      \* the directory its server has open
    finished,   \* lastActiveAt: it moves with every start that succeeds
    waking,     \* the wake in flight: none, asked of docker, or booting
    stopping,   \* the hibernator's stop is in flight
    hold,       \* projectHolds: who has it
    handles,    \* online snapshots whose activity handle the tracker knows
    disk,       \* place -> what is there
    step,       \* operation -> where it is
    broken,     \* operations on their way out with an error
    before,     \* online snapshot or branch -> the state and mark it remembers
    stopped,    \* operations that stopped the database and owe it a start
    existed,    \* restores that found a live directory
    lost,       \* restores whose database did not come back
    crashes,    \* how often the daemon died
    spoiled,    \* copies whose source or destination was touched under them
    excuses     \* history: operations, and what happened that nothing guards against

database == <<row, box, mount, finished, waking, stopping>>
promises == <<before, stopped, existed, lost>>
vars == <<cast, database, hold, handles, disk, step, broken, promises, crashes, spoiled, excuses>>

Live       == <<"live", Nobody>>
Snap(s)    == <<"snapshot", s>>
Staging(s) == <<"restoring", s>>
Aside(s)   == <<"pre-restore", s>>
Made(p)    == <<"made", p>>         \* a .partial, then the snapshot; a branch's directory

From(p) == IF p \in Restores THEN Snap(Of[p]) ELSE Live
To(p)   == IF p \in Restores THEN Staging(Of[p]) ELSE Made(p)

Places == {Live} \cup {Snap(s) : s \in Snapshots} \cup {Staging(s) : s \in Snapshots}
          \cup {Aside(s) : s \in Snapshots} \cup {Made(p) : p \in Copiers}

Cloning          == {p \in Copiers : step[p] = "cloning"}
ReadersOf(place) == {p \in Cloning : From(p) = place}
WritersTo(place) == {p \in Cloning : To(p) = place}
Over             == {"idle", "done", "failed", "dead"}
Rivals(p)        == {q \in Restores \ {p} : p \in Restores /\ Of[q] = Of[p] /\ step[q] \notin Over}
InFlight         == waking # "none" \/ stopping
                    \/ \E p \in Ops : step[p] \in {"starting", "booting", "stopping"}

\* What a hold or a copy takes as it finds it: starts and stops under way, and a
\* container that a failed stop left running.
Unsettled        == row \notin {"running", "sleeping"} \/ InFlight
                    \/ box # (row = "running")
Half(place)      == [data |-> disk[place].data, whole |-> FALSE]
Go(p, to)        == step' = [step EXCEPT ![p] = to]
Excuse(S, why)   == excuses' = excuses \cup (S \X {why})

-----------------------------------------------------------------------------
(* The database                                                            *)

\* docker start.  The server has its directory open until it stops, wherever that
\* is moved; docker makes an empty one where a bind's source is missing, and the
\* image fills it.
Boot ==
    /\ box' = TRUE
    /\ IF box THEN UNCHANGED <<mount, disk, spoiled>>
       ELSE /\ mount' = Live
            /\ disk' = IF disk[Live] # Absent THEN disk
                       ELSE [disk EXCEPT ![Live] = [data |-> "empty", whole |-> TRUE]]
            /\ spoiled' = spoiled \cup ReadersOf(Live)

\* The rest of startPostgres: running and touched, or stopped and failed.
Started ==
    /\ \/ /\ box
          /\ row' = "running" /\ finished' = finished + 1
          /\ UNCHANGED box
       \/ /\ ~box \/ "boot" \in Faults[cast]
          /\ row' = "failed"
          /\ box' \in IF "docker" \in Faults[cast] THEN {FALSE, box} ELSE {FALSE}
          /\ UNCHANGED finished
    /\ UNCHANGED mount

\* Faulty variant: the row is given docker's word.
StoppedInDockersWords ==
    /\ box' = FALSE /\ row' = "exited" /\ handles' = {}
    /\ UNCHANGED mount

\* stopPostgres, once docker has answered.  The tracker forgets its handles.
Stopped ==
    /\ \/ /\ box' = FALSE /\ row' = "sleeping"
          /\ handles' = {}
       \/ /\ "docker" \in Faults[cast]
          /\ row' = "failed"
          /\ UNCHANGED <<box, handles>>
    /\ UNCHANGED mount

\* Faulty variant: wakes do not look.
FencedByNobody == FALSE

\* Only a hold that stopped something keeps wakes out.
Fenced == hold # Nobody /\ hold \notin Onlines

WakeBegins ==
    /\ waking = "none" /\ ~Fenced
    /\ row # "running"
    /\ finished < Wakes
    /\ row' = "starting" /\ waking' = "asked"
    /\ UNCHANGED <<cast, box, mount, finished, stopping, hold, handles, disk, step, broken,
                   promises, crashes, spoiled, excuses>>

WakeBoots ==
    /\ waking = "asked"
    /\ waking' = "booting"
    /\ Boot
    /\ UNCHANGED <<cast, row, finished, stopping, hold, handles, step, broken, promises,
                   crashes, excuses>>

WakeEnds ==
    /\ waking = "booting"
    /\ waking' = "none"
    /\ Started
    /\ UNCHANGED <<cast, stopping, hold, handles, disk, step, broken, promises, crashes,
                   spoiled, excuses>>

\* The hibernator skips what has an open handle.
HibernatorStops ==
    /\ row = "running" /\ ~stopping
    /\ handles = {}
    /\ stopping' = TRUE /\ row' = "stopping"
    /\ UNCHANGED <<cast, box, mount, finished, waking, hold, handles, disk, step, broken,
                   promises, crashes, spoiled, excuses>>

HibernatorStopped ==
    /\ stopping
    /\ stopping' = FALSE
    /\ Stopped
    /\ UNCHANGED <<cast, finished, waking, hold, disk, step, broken, promises, crashes,
                   spoiled, excuses>>

Looking == {"opened", "looking", "cloning", "copied", "checking", "inspecting"}

\* stopResourceRoute with --force, or asked before anything was open.
SleepBegins(p) ==
    /\ p \in Sleeps \cap cast /\ step[p] = "idle"
    /\ row' = "stopping"
    /\ Go(p, "stopping")
    /\ Excuse({q \in Onlines \cup Branches : step[q] \in Looking}, "a stop")
    /\ UNCHANGED <<cast, box, mount, finished, waking, stopping, hold, handles, disk, broken,
                   promises, crashes, spoiled>>

Slept(p) ==
    /\ p \in Sleeps /\ step[p] = "stopping"
    /\ Stopped
    /\ Go(p, "done")
    /\ Excuse({q \in Onlines \cup Branches : step[q] \in Looking}, "a stop")
    /\ UNCHANGED <<cast, finished, waking, stopping, hold, disk, broken, promises, crashes, spoiled>>

-----------------------------------------------------------------------------
(* quiesce and resume, which three operations share                        *)

Pausing == Offlines \cup Restores \cup Branches

AfterQuiesce(p) == CASE p \in Offlines -> "copying"
                     [] p \in Restores -> "swapping"
                     [] p \in Branches -> "resting"

\* What is running is asked whether it is idle; the rest is taken to be at rest.
Quiesce(p) == Go(p, IF row = "running" THEN "guarding" ELSE AfterQuiesce(p))

\* An error: what was made is removed - a branch does that last - and then the
\* finally block.
Removed(p) == [disk EXCEPT ![To(p)] = Absent]

\* Faulty variant: what was copied so far stays.
AbandonAsItIs(p) ==
    /\ broken' = broken \cup {p}
    /\ Go(p, "finally")
    /\ UNCHANGED <<disk, spoiled, excuses>>

Abandon(p) ==
    /\ IF p \in Branches THEN UNCHANGED <<disk, spoiled>>
       ELSE /\ disk' = Removed(p)
            /\ spoiled' = spoiled \cup (WritersTo(To(p)) \ {p})
    /\ Excuse(Rivals(p), "crossed")
    /\ broken' = broken \cup {p}
    /\ Go(p, "finally")

GuardSaysIdle(p) ==
    /\ p \in Pausing /\ step[p] = "guarding"
    /\ row' = "stopping"
    /\ Go(p, "stopping")
    /\ Excuse({q \in Onlines \cup Branches : step[q] \in Looking}, "a stop")
    /\ UNCHANGED <<cast, box, mount, finished, waking, stopping, hold, handles, disk, broken,
                   promises, crashes, spoiled>>

GuardRefuses(p) ==
    /\ p \in Pausing /\ step[p] = "guarding"
    /\ Abandon(p)
    /\ UNCHANGED <<cast, database, hold, handles, promises, crashes>>

\* Faulty variant: a stop that failed counts as one.
QuiescedAnyhow(p) ==
    /\ p \in Pausing /\ step[p] = "stopping"
    /\ Stopped
    /\ stopped' = stopped \cup {p}
    /\ Go(p, AfterQuiesce(p))
    /\ UNCHANGED <<cast, finished, waking, stopping, hold, disk, broken, before, existed, lost,
                   crashes, spoiled, excuses>>

Quiesced(p) ==
    /\ p \in Pausing /\ step[p] = "stopping"
    /\ Stopped
    /\ IF row' = "sleeping"
       THEN /\ stopped' = stopped \cup {p}
            /\ Go(p, AfterQuiesce(p))
            /\ Excuse({q \in Onlines \cup Branches : step[q] \in Looking}, "a stop")
            /\ UNCHANGED <<disk, spoiled, broken>>
       ELSE Abandon(p) /\ UNCHANGED stopped
    /\ UNCHANGED <<cast, finished, waking, stopping, hold, before, existed, lost, crashes>>

\* resume: a start of its own, which no fence stops.
Resume(p) ==
    /\ p \in Pausing \cap stopped /\ step[p] = "finally"
    /\ row' = "starting"
    /\ Go(p, "starting")
    /\ Excuse(IF p \in Branches /\ Fenced THEN {hold} ELSE {}, "a start")
    /\ UNCHANGED <<cast, box, mount, finished, waking, stopping, hold, handles, disk, broken,
                   promises, crashes, spoiled>>

ResumeBoots(p) ==
    /\ p \in Pausing /\ step[p] = "starting"
    /\ Boot
    /\ Go(p, "booting")
    /\ UNCHANGED <<cast, row, finished, waking, stopping, hold, handles, broken, promises,
                   crashes, excuses>>

\* Faulty variant: not on the way out of an error.
ReleaseIfDone(p) == hold' = IF hold = p /\ p \notin broken THEN Nobody ELSE hold

Release(p) == hold' = IF hold = p THEN Nobody ELSE hold
Ended(p)   == IF p \in Branches THEN "creating"
              ELSE IF p \in broken THEN "failed"
              ELSE IF p \in Restores THEN "cleaning" ELSE "done"

Resumed(p) ==
    /\ p \in Pausing
    /\ \/ /\ step[p] = "booting"
          /\ Started
          /\ lost' = IF row' = "failed" THEN lost \cup {p} ELSE lost
       \/ /\ step[p] = "finally" /\ p \notin stopped
          /\ UNCHANGED <<row, box, mount, finished, lost>>
    /\ stopped' = stopped \ {p}
    /\ Release(p)
    /\ Go(p, Ended(p))
    /\ UNCHANGED <<cast, waking, stopping, handles, disk, broken, before, existed, crashes,
                   spoiled, excuses>>

-----------------------------------------------------------------------------
(* cloneTree                                                               *)

\* assertDestinationAbsent, and the first of the files.
CanClone(p) == disk[To(p)] = Absent /\ disk[From(p)] # Absent
CloneBegins(p) ==
    /\ disk' = [disk EXCEPT ![To(p)] = Half(From(p))]
    /\ spoiled' = IF box /\ mount = From(p) THEN spoiled \cup {p} ELSE spoiled \ {p}
    /\ Go(p, "cloning")

Copied(p) == IF p \in Restores THEN "cloned"
             ELSE IF p \in Branches THEN "checking" ELSE "copied"

\* pg_basebackup rather than cloneTree.
Streams(p) == p \in Onlines /\ before[p].state = "running"

\* A copy that nothing disturbed is whole.  A disturbed one fails, begins again, or
\* ends without having noticed.
CloneEnds(p) ==
    /\ p \in Cloning /\ ~Streams(p)
    /\ disk' = IF p \in spoiled THEN disk ELSE [disk EXCEPT ![To(p)] = disk[From(p)]]
    /\ Go(p, Copied(p))
    /\ UNCHANGED <<cast, database, hold, handles, broken, promises, crashes, spoiled, excuses>>

\* The error of the first attempt is swallowed: what landed is removed and copied again.
CloneBeginsAgain(p) ==
    /\ p \in Cloning \cap spoiled /\ ~Streams(p)
    /\ disk[From(p)] # Absent /\ ~(box /\ mount = From(p))
    /\ disk' = [disk EXCEPT ![To(p)] = Half(From(p))]
    /\ spoiled' = (spoiled \ {p}) \cup (WritersTo(To(p)) \ {p})
    /\ UNCHANGED <<cast, database, hold, handles, step, broken, promises, crashes, excuses>>

\* Faulty variant: the error of the second attempt is swallowed, too.
CloneFailsUnseen(p) ==
    /\ p \in Cloning
    /\ Go(p, Copied(p))
    /\ UNCHANGED <<cast, database, hold, handles, disk, broken, promises, crashes, spoiled, excuses>>

CloneFails(p) ==
    /\ p \in Cloning
    /\ p \in spoiled \/ "disk" \in Faults[cast]
    /\ Abandon(p)
    /\ UNCHANGED <<cast, database, hold, handles, promises, crashes>>

-----------------------------------------------------------------------------
(* takeOnlineSnapshot                                                      *)

OnlineBegins(p) ==
    /\ p \in Onlines \cap cast /\ step[p] = "idle"
    /\ IF hold = Nobody /\ row \in {"running", "sleeping"}
       THEN /\ hold' = p
            /\ handles' = handles \cup {p}
            /\ Go(p, "opened")
            /\ Excuse(IF Unsettled THEN {p} ELSE {}, "unsettled")
       ELSE Go(p, "failed") /\ UNCHANGED <<hold, handles, excuses>>
    /\ UNCHANGED <<cast, database, disk, broken, promises, crashes, spoiled>>

\* The state is read again at its turn: pg_basebackup of what runs, a clone of what
\* sleeps.
OnlineCopies(p) ==
    /\ p \in Onlines /\ step[p] = "opened"
    /\ IF row \in {"running", "sleeping"} /\ CanClone(p)
       THEN /\ before' = [before EXCEPT ![p].state = row]
            /\ CloneBegins(p)
            /\ Excuse(IF Unsettled THEN {p} ELSE {}, "unsettled")
            /\ UNCHANGED broken
       ELSE Abandon(p) /\ UNCHANGED before
    /\ UNCHANGED <<cast, database, hold, handles, stopped, existed, lost, crashes>>

\* basebackupPostgres: the producer, the extractor and the archive's last file all say
\* it is complete - which a server that stops before its end cannot make them say.
OnlineStreamed(p) ==
    /\ p \in Cloning /\ Streams(p)
    /\ IF box /\ disk[mount] # Absent
       THEN /\ disk' = [disk EXCEPT ![To(p)] = disk[mount]]
            /\ Go(p, "copied")
            /\ UNCHANGED <<spoiled, broken, excuses>>
       ELSE Abandon(p)
    /\ UNCHANGED <<cast, database, hold, handles, promises, crashes>>

\* Faulty variant: what is read before the copy is trusted after it.
UnchangedForSure(p) == TRUE

\* The same state as before, or nothing is kept.
Unchanged(p) == row = before[p].state

OnlineFiles(p) ==
    /\ p \in Onlines /\ step[p] = "copied"
    /\ IF Unchanged(p)
       THEN Go(p, "finally") /\ UNCHANGED <<disk, spoiled, broken, excuses>>
       ELSE Abandon(p)
    /\ UNCHANGED <<cast, database, hold, handles, promises, crashes>>

\* finally: the handle and the hold.
OnlineCloses(p) ==
    /\ p \in Onlines /\ step[p] = "finally"
    /\ handles' = handles \ {p}
    /\ Release(p)
    /\ Go(p, IF p \in broken THEN "failed" ELSE "done")
    /\ UNCHANGED <<cast, database, disk, broken, promises, crashes, spoiled, excuses>>

-----------------------------------------------------------------------------
(* takeSnapshot                                                            *)

SnapshotBegins(p) ==
    /\ p \in Offlines \cap cast /\ step[p] = "idle"
    /\ IF hold = Nobody
       THEN /\ hold' = p
            /\ Quiesce(p)
            /\ Excuse(IF Unsettled THEN {p} ELSE {}, "unsettled")
       ELSE Go(p, "failed") /\ UNCHANGED <<hold, excuses>>
    /\ UNCHANGED <<cast, database, handles, disk, broken, promises, crashes, spoiled>>

SnapshotCopies(p) ==
    /\ p \in Offlines /\ step[p] = "copying"
    /\ IF CanClone(p) THEN CloneBegins(p) /\ UNCHANGED <<broken, excuses>> ELSE Abandon(p)
    /\ UNCHANGED <<cast, database, hold, handles, promises, crashes>>

\* The manifest, and the rename from .partial.
SnapshotFiles(p) ==
    /\ p \in Offlines /\ step[p] = "copied"
    /\ Go(p, "finally")
    /\ UNCHANGED <<cast, database, hold, handles, disk, broken, promises, crashes, spoiled, excuses>>

-----------------------------------------------------------------------------
(* restoreInPlace                                                          *)

\* findSnapshot wants the manifest; pre-restore data of an earlier one is nobody's to
\* touch.
RestoreBegins(p) ==
    /\ p \in Restores \cap cast /\ step[p] = "idle"
    /\ Go(p, IF disk[From(p)] # Absent /\ disk[Aside(Of[p])] = Absent THEN "clearing" ELSE "failed")
    /\ Excuse(IF Rivals(p) = {} THEN {} ELSE {p} \cup Rivals(p), "crossed")
    /\ UNCHANGED <<cast, database, hold, handles, disk, broken, promises, crashes, spoiled>>

RestoreClears(p) ==
    /\ p \in Restores /\ step[p] = "clearing"
    /\ disk' = Removed(p)
    /\ spoiled' = spoiled \cup WritersTo(To(p))
    /\ Go(p, "copying")
    /\ UNCHANGED <<cast, database, hold, handles, broken, promises, crashes, excuses>>

RestoreCopies(p) ==
    /\ p \in Restores /\ step[p] = "copying"
    /\ IF CanClone(p) THEN CloneBegins(p) /\ UNCHANGED <<broken, excuses>> ELSE Abandon(p)
    /\ UNCHANGED <<cast, database, hold, handles, promises, crashes>>

\* Only now is the project held.
RestoreHolds(p) ==
    /\ p \in Restores /\ step[p] = "cloned"
    /\ existed' = IF disk[Live] # Absent THEN existed \cup {p} ELSE existed \ {p}
    /\ IF hold = Nobody
       THEN /\ hold' = p
            /\ Quiesce(p)
            /\ Excuse(IF Unsettled THEN {p} ELSE {}, "unsettled")
            /\ UNCHANGED <<disk, spoiled, broken>>
       ELSE Abandon(p) /\ UNCHANGED hold
    /\ UNCHANGED <<cast, database, handles, before, stopped, lost, crashes>>

\* The live directory goes aside, with the server that may have it open,
SetAside(p) ==
    /\ p \in Restores /\ step[p] = "swapping"
    /\ IF p \in existed /\ (disk[Live] = Absent \/ disk[Aside(Of[p])] # Absent)
       THEN Abandon(p) /\ UNCHANGED mount
       ELSE /\ IF p \in existed
               THEN /\ disk' = [disk EXCEPT ![Aside(Of[p])] = disk[Live], ![Live] = Absent]
                    /\ mount' = IF mount = Live THEN Aside(Of[p]) ELSE mount
               ELSE UNCHANGED <<disk, mount>>
            /\ spoiled' = spoiled \cup ReadersOf(Live)
            /\ Excuse({b \in Branches : step[b] \in Looking}, "a swap")
            /\ Go(p, "placing")
            /\ UNCHANGED broken
    /\ UNCHANGED <<cast, row, box, finished, waking, stopping, hold, handles, promises, crashes>>

\* and the staged one takes its place;
Place(p) ==
    /\ p \in Restores /\ step[p] = "placing"
    /\ disk[To(p)] # Absent /\ disk[Live] = Absent
    /\ disk' = [disk EXCEPT ![Live] = disk[To(p)], ![To(p)] = Absent]
    /\ spoiled' = spoiled \cup WritersTo(To(p))
    /\ Go(p, "finally")
    /\ UNCHANGED <<cast, database, hold, handles, broken, promises, crashes, excuses>>

\* if it cannot, the live one comes back.
Undone(p) == [disk EXCEPT ![Live] = disk[Aside(Of[p])], ![Aside(Of[p])] = Absent, ![To(p)] = Absent]

PlaceFails(p) ==
    /\ p \in Restores /\ step[p] = "placing"
    /\ disk[To(p)] = Absent \/ disk[Live] # Absent \/ "disk" \in Faults[cast]
    /\ IF p \in existed /\ disk[Live] = Absent
       THEN /\ disk' = Undone(p)
            /\ mount' = IF mount = Aside(Of[p]) THEN Live ELSE mount
       ELSE disk' = Removed(p) /\ UNCHANGED mount
    /\ spoiled' = spoiled \cup WritersTo(To(p))
    /\ Excuse(Rivals(p), "crossed")
    /\ broken' = broken \cup {p}
    /\ Go(p, "finally")
    /\ UNCHANGED <<cast, row, box, finished, waking, stopping, hold, handles, promises, crashes>>

\* Faulty variant: it goes whatever came of the restart.
MayCleanAtOnce(p) == p \in existed

\* What was set aside is removed once all that ran before runs again, if it can be.
MayClean(p) == p \in existed /\ p \notin lost

Clean(p) ==
    /\ p \in Restores /\ step[p] = "cleaning"
    /\ \/ /\ MayClean(p)
          /\ disk' = [disk EXCEPT ![Aside(Of[p])] = Absent]
       \/ /\ ~MayClean(p) \/ "disk" \in Faults[cast]
          /\ UNCHANGED disk
    /\ Go(p, "done")
    /\ UNCHANGED <<cast, database, hold, handles, broken, promises, crashes, spoiled, excuses>>

-----------------------------------------------------------------------------
(* branchProject, which takes no hold                                      *)

BranchBegins(p) ==
    /\ p \in Branches \cap cast /\ step[p] = "idle"
    /\ IF row \in {"running", "sleeping"} THEN Quiesce(p) ELSE Go(p, "failed")
    /\ UNCHANGED <<cast, database, hold, handles, disk, broken, promises, crashes, spoiled, excuses>>

\* assertAtRest: the row first,
ReadsRow(p, from, to, mark) ==
    /\ p \in Branches /\ step[p] = from
    /\ IF row = "sleeping" /\ finished = mark
       THEN /\ before' = [before EXCEPT ![p].mark = finished]
            /\ Go(p, to)
            /\ UNCHANGED <<disk, spoiled, broken, excuses>>
       ELSE Abandon(p) /\ UNCHANGED before
    /\ UNCHANGED <<cast, database, hold, handles, stopped, existed, lost, crashes>>

RestsBefore(p) == ReadsRow(p, "resting", "looking", finished)

\* Faulty variant: the row alone, and not whether it has been up since.
RestsAgain(p) == ReadsRow(p, "checking", "inspecting", finished)

RestsAfter(p)  == ReadsRow(p, "checking", "inspecting", before[p].mark)

\* then the container.
BranchCopies(p) ==
    /\ p \in Branches /\ step[p] = "looking"
    /\ IF ~box /\ CanClone(p)
       THEN /\ CloneBegins(p)
            /\ Excuse(IF Unsettled THEN {p} ELSE {}, "unsettled")
            /\ UNCHANGED broken
       ELSE Abandon(p)
    /\ UNCHANGED <<cast, database, hold, handles, promises, crashes>>

BranchCopied(p) ==
    /\ p \in Branches /\ step[p] = "inspecting"
    /\ IF ~box THEN Go(p, "finally") /\ UNCHANGED <<disk, spoiled, broken, excuses>> ELSE Abandon(p)
    /\ UNCHANGED <<cast, database, hold, handles, promises, crashes>>

\* createPostgresFromClone, or discardBranch.
BranchEnds(p) ==
    /\ p \in Branches /\ step[p] = "creating"
    /\ \/ p \notin broken /\ Go(p, "done") /\ UNCHANGED disk
       \/ (p \in broken \/ "docker" \in Faults[cast]) /\ Go(p, "failed") /\ disk' = Removed(p)
    /\ UNCHANGED <<cast, database, hold, handles, broken, promises, crashes, spoiled, excuses>>

-----------------------------------------------------------------------------
(* deleteSnapshot, and the daemon's end                                    *)

DeleteBegins(p) ==
    /\ p \in Deletes \cap cast /\ step[p] = "idle"
    /\ disk[Snap(Of[p])] # Absent
    /\ disk' = [disk EXCEPT ![Snap(Of[p])] = Half(Snap(Of[p]))]
    /\ spoiled' = spoiled \cup ReadersOf(Snap(Of[p]))
    /\ Excuse({r \in Restores : Of[r] = Of[p]}, "crossed")
    /\ Go(p, "deleting")
    /\ UNCHANGED <<cast, database, hold, handles, broken, promises, crashes>>

DeleteEnds(p) ==
    /\ p \in Deletes /\ step[p] = "deleting"
    /\ disk' = [disk EXCEPT ![Snap(Of[p])] = Absent]
    /\ Go(p, "done")
    /\ UNCHANGED <<cast, database, hold, handles, broken, promises, crashes, spoiled, excuses>>

\* A new daemon reconciles the row with the container; nothing else outlives the old one.
DaemonDies ==
    /\ "daemon" \in Faults[cast] /\ crashes = 0
    /\ \E p \in Copiers : step[p] \notin Over
    /\ crashes' = 1
    /\ step' = [p \in Ops |-> IF step[p] \in Over THEN step[p] ELSE "dead"]
    /\ hold' = Nobody /\ handles' = {} /\ waking' = "none" /\ stopping' = FALSE
    /\ stopped' = {} /\ spoiled' = {}
    /\ row' = IF box THEN "running"
              ELSE IF row \in {"sleeping", "stopping"} THEN "sleeping" ELSE "failed"
    /\ UNCHANGED <<cast, box, mount, finished, disk, broken, before, existed, lost, excuses>>

-----------------------------------------------------------------------------

Init ==
    /\ cast \in Casts
    /\ row \in {"running", "sleeping"} /\ box = (row = "running")
    /\ mount = Live
    /\ finished = 0 /\ waking = "none" /\ stopping = FALSE
    /\ hold = Nobody /\ handles = {} /\ crashes = 0
    /\ disk = [place \in Places |->
                 IF place = Live THEN [data |-> "written", whole |-> TRUE]
                 ELSE IF place[1] = "snapshot" THEN [data |-> place[2], whole |-> TRUE] ELSE Absent]
    /\ step = [p \in Ops |-> "idle"]
    /\ before = [p \in Onlines \cup Branches |-> [state |-> "none", mark |-> 0]]
    /\ broken = {} /\ stopped = {} /\ existed = {} /\ lost = {} /\ spoiled = {} /\ excuses = {}

\* What an operation under way does next.
Proceed(p) ==
    \/ GuardSaysIdle(p) \/ GuardRefuses(p) \/ Quiesced(p)
    \/ Resume(p) \/ ResumeBoots(p) \/ Resumed(p)
    \/ CloneEnds(p) \/ CloneFails(p)
    \/ OnlineCopies(p) \/ OnlineStreamed(p) \/ OnlineFiles(p) \/ OnlineCloses(p)
    \/ SnapshotCopies(p) \/ SnapshotFiles(p)
    \/ RestoreClears(p) \/ RestoreCopies(p) \/ RestoreHolds(p)
    \/ SetAside(p) \/ Place(p) \/ PlaceFails(p) \/ Clean(p)
    \/ RestsBefore(p) \/ BranchCopies(p) \/ RestsAfter(p) \/ BranchCopied(p) \/ BranchEnds(p)
    \/ DeleteEnds(p) \/ Slept(p)

Begin(p) ==
    \/ OnlineBegins(p) \/ SnapshotBegins(p) \/ RestoreBegins(p) \/ BranchBegins(p)
    \/ DeleteBegins(p) \/ SleepBegins(p)

Surroundings ==
    \/ WakeBegins \/ WakeBoots \/ WakeEnds
    \/ HibernatorStops \/ HibernatorStopped \/ DaemonDies

Next == (\E p \in Ops : Begin(p) \/ Proceed(p) \/ CloneBeginsAgain(p)) \/ Surroundings

Spec == Init /\ [][Next]_vars

-----------------------------------------------------------------------------

Kept(p) == step[p] = "done"
Clear(p, whys) == \A why \in whys : <<p, why>> \notin excuses

\* No two restores of one snapshot met, nor a restore and the snapshot's deletion: what is
\* restored then may be torn, and so is a copy of it.
Uncrossed == \A r \in Restores : Clear(r, {"crossed"})

TypeOK ==
    /\ cast \in Casts
    /\ row \in {"running", "sleeping", "starting", "stopping", "failed"}
    /\ box \in BOOLEAN /\ stopping \in BOOLEAN /\ mount \in Places
    /\ finished \in Nat /\ waking \in {"none", "asked", "booting"}
    /\ hold \in Onlines \cup Offlines \cup Restores \cup {Nobody} /\ handles \subseteq Onlines
    /\ disk \in [Places -> Directories \cup {Absent}]
    /\ DOMAIN step = Ops
    /\ broken \cup stopped \cup existed \cup lost \cup spoiled \subseteq Copiers

\* A snapshot taken online is whole, whatever woke or fell asleep meanwhile: the
\* handle keeps the hibernator out and the second look at the state finds the rest.
\* A stop that was forced between the two, after a wake, is not found.
OnlineSnapshotIsWhole ==
    \A p \in Onlines : Kept(p) /\ Uncrossed /\ Clear(p, {"a stop", "unsettled"}) => disk[Made(p)].whole

\* A quiescing snapshot is whole when the hold found the database settled and no
\* branch started it again.
QuietSnapshotIsWhole ==
    \A p \in Offlines : Kept(p) /\ Uncrossed /\ Clear(p, {"a start", "unsettled"}) => disk[Made(p)].whole

\* A branch is whole: it takes no hold and fences nothing, but every wake, failed or
\* not, leaves a trace its second look finds.
BranchIsWhole ==
    \A p \in Branches :
        Kept(p) /\ Uncrossed /\ Clear(p, {"a stop", "a swap", "unsettled"}) => disk[Made(p)].whole

\* What the users have written is somewhere, whole, until a restore of something else
\* has been seen to work: no daemon dying between two renames, no rename that fails and
\* no database that does not come back loses it.
WrittenIsKept ==
    \/ \E place \in {Live} \cup {Aside(s) : s \in Snapshots} :
         disk[place] # Absent /\ disk[place].data = "written" /\ disk[place].whole
    \/ \E p \in Restores : Kept(p) /\ p \in existed \ lost

\* The database never starts on half a directory, nor on an empty one: unless a daemon
\* died between the two renames of a restore, or a start came between them.
LiveIsWhole ==
    LET disturbed(whys) == \E p \in Restores : ~Clear(p, whys) IN
    disk[Live] # Absent =>
        /\ disk[Live].whole \/ disturbed({"crossed"})
        /\ disk[Live].data = "empty" => crashes > 0 \/ disturbed({"a start", "unsettled"})

\* A server has the live directory open, never the one a restore put aside and is going
\* to remove.
ServesWhatIsLive ==
    box => \/ mount = Live
           \/ \E p \in Restores : ~Clear(p, {"a start", "unsettled"})

\* What fails leaves nothing half made behind.
FailureLeavesNothing ==
    \A p \in Copiers : step[p] = "failed" /\ p \in broken =>
        \/ disk[To(p)] = Absent
        \/ \E q \in Copiers \ {p} : To(q) = To(p) /\ step[q] # "idle"

\* Whoever holds the project is still at work: the hold is let go of on every way
\* out, or nothing in the project could be copied, restored or woken again.
HoldIsOwned == hold # Nobody => step[hold] \notin Over

\* The data of a database under snapshots, restores, branches, sleeps and wakes: every
\* copy is whole, what is written is kept, what runs is live, what fails cleans up.
DataIsSafe ==
    /\ TypeOK
    /\ OnlineSnapshotIsWhole
    /\ QuietSnapshotIsWhole
    /\ BranchIsWhole
    /\ WrittenIsKept
    /\ LiveIsWhole
    /\ ServesWhatIsLive
    /\ FailureLeavesNothing
    /\ HoldIsOwned
=============================================================================
