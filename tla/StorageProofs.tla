--------------------------- MODULE StorageProofs ---------------------------
(***************************************************************************)
(* Theorems about Storage: for any snapshots, restores, branches,          *)
(* deletions and sleeps asked for together, whatever fails.                *)
(*                                                                         *)
(* Every operation is at one place in its code, and what the others may do *)
(* meanwhile depends on where: who holds the project is at work on it, its *)
(* database then sleeps unless something unguarded is on record, a copy is *)
(* touched only by who is on record too, and what online snapshots and     *)
(* branches remember tells them of the rest.  IInv, at the end, says all   *)
(* of that; the lemmas named ...Does say once what each action does.       *)
(***************************************************************************)
EXTENDS Storage, TLAPS

-----------------------------------------------------------------------------
(* Who has nothing to blame: what nothing in the program guards against    *)
(* has not happened to it.                                                 *)

\* An online snapshot, of a forced stop; a branch, of that and of a swap; a snapshot or a
\* restore with the database stopped, of a start.
Unstopped(p) == Clear(p, {"a stop", "unsettled"})
Unmoved(p)   == Clear(p, {"a stop", "a swap", "unsettled"})
Settled(p)   == Clear(p, {"a start", "unsettled"})

-----------------------------------------------------------------------------
(* Types, places and stages.                                               *)

\* Where what the users wrote can be.
Asides == {Live} \cup {Aside(s) : s \in Snapshots}

\* Where an operation of each kind can be, besides idle and over.
OnlineStages  == {"opened", "cloning", "copied", "finally"}
OfflineStages == {"guarding", "stopping", "copying", "cloning", "copied", "finally", "starting",
                  "booting"}
HeldStages    == {"guarding", "stopping", "swapping", "placing", "finally", "starting", "booting"}
RestoreStages == HeldStages \cup {"clearing", "copying", "cloning", "cloned", "cleaning"}
BranchStages  == {"guarding", "stopping", "resting", "looking", "cloning", "checking",
                  "inspecting", "finally", "starting", "booting", "creating"}
Ats == Over \cup OnlineStages \cup OfflineStages \cup RestoreStages \cup BranchStages
       \cup {"deleting"}

Stages ==
    /\ step \in [Ops -> Ats]
    /\ \A p \in Onlines  : step[p] \in Over \cup OnlineStages
    /\ \A p \in Offlines : step[p] \in Over \cup OfflineStages
    /\ \A p \in Restores : step[p] \in Over \cup RestoreStages
    /\ \A p \in Branches : step[p] \in Over \cup BranchStages
    /\ \A p \in Deletes  : step[p] \in Over \cup {"deleting"}
    /\ \A p \in Sleeps   : step[p] \in Over \cup {"stopping"}

\* A snapshot, and what is staged of it, is labelled as its own.
Labels ==
    \A s \in Snapshots : \A place \in {Snap(s), Staging(s)} :
        disk[place] # Absent => disk[place].data = s

Disks == disk \in [Places -> Directories \cup {Absent}] /\ Labels /\ mount \in Asides

\* The mark that a branch remembers is not later than now.
Remembers ==
    /\ before \in [Onlines \cup Branches -> [state : {"none", "running", "sleeping"}, mark : Nat]]
    /\ \A p \in Branches : before[p].mark <= finished
    /\ \A p \in Onlines : step[p] \in {"cloning", "copied"} => before[p].state # "none"

Plain ==
    /\ cast \in Casts /\ crashes \in Nat
    /\ row \in {"running", "sleeping", "starting", "stopping", "failed"}
    /\ box \in BOOLEAN /\ stopping \in BOOLEAN /\ finished \in Nat
    /\ waking \in {"none", "asked", "booting"}
    /\ hold \in Onlines \cup Offlines \cup Restores \cup {Nobody} /\ handles \subseteq Onlines
    /\ broken \subseteq Copiers /\ stopped \subseteq Copiers /\ existed \subseteq Copiers
    /\ lost \subseteq Copiers /\ spoiled \subseteq Copiers

\* An operation on its way out with an error has got to its finally block.
OnWayOut == {"finally", "starting", "booting", "creating", "failed", "dead"}
Breaks   == \A p \in broken : step[p] \in OnWayOut

TypeInv == Plain /\ Stages /\ Disks /\ Remembers /\ Breaks

-----------------------------------------------------------------------------
(* The hold.                                                               *)

\* Who has the hold is where it is had, and a snapshot that is under way, or a restore in
\* the part that wants it, has it.
Holders ==
    /\ hold \in Onlines \cup Offlines => step[hold] \notin Over
    /\ hold \in Restores => step[hold] \in HeldStages
    /\ \A p \in Onlines \cup Offlines : step[p] \notin Over => hold = p
    /\ \A p \in Restores : step[p] \in HeldStages => hold = p \/ (step[p] = "finally" /\ p \in broken)
    /\ \A p \in Restores \cap stopped : hold = p

-----------------------------------------------------------------------------
(* What fails cleans up: a branch as the last thing it does.               *)

\* What came of its destination, and when that is due.
Cleaned(p) ==
    \/ disk[To(p)] = Absent
    \/ \E q \in Copiers \ {p} : To(q) = To(p) /\ step[q] # "idle"

Swept(p) == p \in broken /\ (IF p \in Branches THEN step[p] = "failed" ELSE step[p] # "dead")
Cleans   == \A p \in Copiers : Swept(p) => Cleaned(p)

-----------------------------------------------------------------------------
(* What is restored is whole, while no two restores or deletions of one    *)
(* snapshot met.                                                           *)

Whole(place) == disk[place] # Absent /\ disk[place].whole

\* There is one restore of a snapshot at a time.
Lone ==
    \A p, q \in Restores :
        Of[p] = Of[q] /\ step[p] \notin Over /\ step[q] \notin Over => p = q

\* From the copy's end until it is in place, what is staged is whole.
Staged == {"cloned", "guarding", "stopping", "swapping", "placing"}

WholeInv ==
    Uncrossed =>
        /\ Lone
        /\ \A r \in Restores : r \notin spoiled /\ Whole(Snap(Of[r]))
        /\ \A r \in Restores, d \in Deletes : step[d] = "deleting" => Of[d] # Of[r]
        /\ \A r \in Restores : step[r] \in Staged => Whole(Staging(Of[r]))
        /\ \A place \in Asides : disk[place] # Absent => Whole(place)

-----------------------------------------------------------------------------
(* The database sleeps while a snapshot or a restore works on it.          *)

\* The holder's container is down, and nobody is about to start it.
ColdStages == {"copying", "cloning", "copied", "swapping", "placing"}

ColdBy(h) ==
    /\ waking = "none"
    /\ \A q \in Ops \ {h} : step[q] \notin {"starting", "booting"}
    /\ step[h] \in ColdStages => ~box

Cold == \A h \in Offlines \cup Restores : hold = h /\ Settled(h) => ColdBy(h)

\* Then a server that runs has the live directory open.
Undisturbed == \A r \in Restores : Settled(r)

Moored == Undisturbed => (box => mount = Live)

-----------------------------------------------------------------------------
(* What a restore puts aside, and what is live.                            *)

\* A restore has data set aside from its first rename to the end, unless it failed.
Owns(p) == \/ step[p] \in {"placing", "cleaning"}
           \/ step[p] \in {"finally", "starting", "booting"} /\ p \notin broken

\* The live directory is missing only between the two renames, every restore found one,
\* what one set aside is there and is nobody else's, and no start found nothing to start on.
Standing   == disk[Live] # Absent \/ \E p \in Restores : step[p] = "placing"
Existing   == \A p \in Restores : hold = p => p \in existed
AsideKept  == \A p \in Restores : Owns(p) => p \in existed /\ disk[Aside(Of[p])] # Absent
OneOwner   == \A p, q \in Restores : Owns(p) /\ Owns(q) /\ Of[p] = Of[q] => p = q
NeverEmpty == \A place \in Asides : disk[place] # Absent => disk[place].data # "empty"

Full   == Standing /\ Existing /\ AsideKept /\ OneOwner /\ NeverEmpty
Filled == crashes = 0 /\ Undisturbed => Full

-----------------------------------------------------------------------------
(* Copies.                                                                 *)

\* What is copied undisturbed is there.
Readers == \A p \in Cloning \ (spoiled \cup Restores) : disk[Live] # Absent

\* Past the work; and a database that is down and that nobody starts.
Finishing == {"finally", "starting", "booting", "creating", "done"}
Resting ==
    /\ row = "sleeping" /\ ~box /\ waking = "none"
    /\ \A q \in Ops : step[q] \notin {"starting", "booting"}

\* A quiescing snapshot is undisturbed while it is copied and whole from then on.
OfflineInv ==
    \A p \in Offlines : Settled(p) =>
        /\ step[p] = "cloning" => p \notin spoiled
        /\ Uncrossed /\ (step[p] = "copied" \/ (step[p] \in Finishing /\ p \notin broken)) => Whole(Made(p))

\* An online snapshot is open and no idle stop is under way.  While the row still says what
\* it said when a sleeping directory was copied, the database rests and the copy is good;
\* a stream of a running one is good as it is.
OnlineOf(p) ==
    /\ step[p] \in {"opened", "cloning", "copied"} => p \in handles /\ ~stopping
    /\ step[p] \in {"cloning", "copied"} /\ before[p].state = "sleeping" /\ row = "sleeping" =>
          /\ Resting
          /\ step[p] = "cloning" => p \notin spoiled
          /\ step[p] = "copied" /\ Uncrossed => Whole(Made(p))
    /\ step[p] = "copied" /\ before[p].state = "running" /\ Uncrossed => Whole(Made(p))
    /\ step[p] \in Finishing /\ p \notin broken /\ Uncrossed => Whole(Made(p))

OnlineInv == \A p \in Onlines : Unstopped(p) => OnlineOf(p)

\* While a branch's mark still holds, nothing was up since; and while the row, too, still
\* says so the database rests, and the copy is good.
BranchOf(p) ==
    /\ step[p] \in {"cloning", "checking"} /\ before[p].mark = finished =>
          /\ ~stopping /\ row \notin {"running", "stopping"}
          /\ row = "sleeping" =>
                /\ Resting
                /\ step[p] = "cloning" => p \notin spoiled
                /\ step[p] = "checking" /\ Uncrossed => Whole(Made(p))
    /\ (step[p] = "inspecting" \/ (step[p] \in Finishing /\ p \notin broken)) /\ Uncrossed
          => Whole(Made(p))

BranchInv == \A p \in Branches : Unmoved(p) => BranchOf(p)

-----------------------------------------------------------------------------
(* Facts about the operators.                                              *)

\* No two places are the same.
LEMMA Apart ==
    /\ \A s : Live # Snap(s) /\ Live # Staging(s) /\ Live # Aside(s) /\ Live # Made(s)
    /\ \A s, t : /\ Snap(s) # Staging(t) /\ Snap(s) # Aside(t) /\ Snap(s) # Made(t)
                 /\ Staging(s) # Aside(t) /\ Staging(s) # Made(t) /\ Aside(s) # Made(t)
    /\ \A s, t : /\ Snap(s) = Snap(t) => s = t
                 /\ Staging(s) = Staging(t) => s = t
                 /\ Aside(s) = Aside(t) => s = t
                 /\ Made(s) = Made(t) => s = t
BY DEF Live, Snap, Staging, Aside, Made

\* Where a copy goes from and to.
LEMMA Ways ==
    /\ \A p \in Restores : From(p) = Snap(Of[p]) /\ To(p) = Staging(Of[p]) /\ Of[p] \in Snapshots
    /\ \A p \in Copiers \ Restores : From(p) = Live /\ To(p) = Made(p)
    /\ \A p \in Copiers : From(p) \in Places /\ To(p) \in Places
    /\ Live \in Places /\ Asides \subseteq Places
    /\ \A s \in Snapshots : Snap(s) \in Places /\ Staging(s) \in Places /\ Aside(s) \in Asides
BY StorageNumbers DEF From, To, Places, Copiers, Asides

\* An operation is of one kind.
LEMMA Kinds ==
    /\ \A p \in Onlines : p \notin Offlines /\ p \notin Restores /\ p \notin Branches
                          /\ p \notin Deletes /\ p \notin Sleeps /\ p \notin Pausing
    /\ \A p \in Offlines : p \notin Restores /\ p \notin Branches /\ p \notin Deletes /\ p \notin Sleeps
    /\ \A p \in Restores : p \notin Branches /\ p \notin Deletes /\ p \notin Sleeps
    /\ \A p \in Branches : p \notin Deletes /\ p \notin Sleeps
    /\ \A p \in Deletes : p \notin Sleeps /\ p \notin Pausing
    /\ \A p \in Sleeps : p \notin Pausing
    /\ Nobody \notin Ops
BY StorageNumbers DEF Copiers, Ops, Pausing

\* Two copies go to one place only if they are restores of one snapshot.
LEMMA Destinations ==
    ASSUME NEW p \in Copiers, NEW q \in Copiers, To(p) = To(q), p # q
    PROVE  p \in Restores /\ q \in Restores /\ Of[p] = Of[q]
BY Ways, Apart

\* Who has an excuse is not clear of it.
LEMMA Excused ==
    ASSUME NEW S, NEW why, Excuse(S, why), NEW p, p \in S, NEW W, why \in W
    PROVE  ~Clear(p, W)'
<1>1. <<p, why>> \in S \X {why}
  OBVIOUS
<1>2. <<p, why>> \in excuses'
  BY <1>1 DEF Excuse
<1>3. QED
  BY <1>2 DEF Clear

\* Half a copy is of what it is a copy of.
LEMMA Halves ==
    ASSUME Disks, NEW place \in Places, disk[place] # Absent
    PROVE  /\ Half(place) \in Directories /\ Half(place) # Absent
           /\ Half(place).data = disk[place].data /\ ~Half(place).whole
<1>1. disk[place] \in Directories
  BY DEF Disks
<1>2. disk[place].data \in Snapshots \cup {"written", "empty"}
  BY <1>1 DEF Directories
<1>3. Half(place) \in Directories
  BY <1>2 DEF Half, Directories
<1>4. QED
  BY <1>3, StorageNumbers DEF Half

\* What is put down at a place, or taken away.
LEMMA PutDown ==
    ASSUME Disks, NEW place \in Places, NEW v \in Directories \cup {Absent},
           disk' = [disk EXCEPT ![place] = v], mount' \in Asides,
           v # Absent => \A s \in Snapshots : place \in {Snap(s), Staging(s)} => v.data = s
    PROVE  Disks'
BY DEF Disks, Labels

\* Likewise of the destination of a copy, which is a copy of the source or nothing.
LEMMA Copies ==
    ASSUME Disks, NEW p \in Copiers, mount' \in Asides,
           \/ disk' = disk
           \/ disk' = Removed(p)
           \/ disk[From(p)] # Absent /\ disk' = [disk EXCEPT ![To(p)] = Half(From(p))]
           \/ disk' = [disk EXCEPT ![To(p)] = disk[From(p)]]
    PROVE  Disks'
<1>1. CASE disk' = disk
  BY <1>1 DEF Disks, Labels
<1>2. CASE disk' = Removed(p)
  BY <1>2, Ways, PutDown DEF Removed
<1>3. ASSUME disk[From(p)] # Absent PROVE Half(From(p)).data = disk[From(p)].data /\ Half(From(p)) \in Directories
  BY <1>3, Ways, Halves
<1>4. \A s \in Snapshots : To(p) \in {Snap(s), Staging(s)} /\ disk[From(p)] # Absent => disk[From(p)].data = s
  BY Ways, Apart DEF Disks, Labels
<1>5. CASE disk[From(p)] # Absent /\ disk' = [disk EXCEPT ![To(p)] = Half(From(p))]
  BY <1>3, <1>4, <1>5, Ways, PutDown
<1>6. CASE disk' = [disk EXCEPT ![To(p)] = disk[From(p)]]
  BY <1>4, <1>6, Ways, PutDown DEF Disks
<1>7. QED
  BY <1>1, <1>2, <1>5, <1>6

\* What has happened has happened.
LEMMA ExcusesGrow ==
    ASSUME NEW q, NEW W, Clear(q, W)', [Next]_vars
    PROVE  Clear(q, W)
<1>1. ASSUME NEW p \in Ops, GuardSaysIdle(p) PROVE Clear(q, W)
  BY <1>1 DEF GuardSaysIdle, Go, Excuse, Clear
<1>2. ASSUME NEW p \in Ops, GuardRefuses(p) PROVE Clear(q, W)
  BY <1>2 DEF GuardRefuses, Go, Abandon, Removed, Excuse, Clear
<1>3. ASSUME NEW p \in Ops, Quiesced(p) PROVE Clear(q, W)
  BY <1>3 DEF Quiesced, Go, AfterQuiesce, Abandon, Removed, Excuse, Stopped, Clear
<1>4. ASSUME NEW p \in Ops, Resume(p) PROVE Clear(q, W)
  BY <1>4 DEF Resume, Go, Excuse, Clear
<1>5. ASSUME NEW p \in Ops, ResumeBoots(p) PROVE Clear(q, W)
  BY <1>5 DEF ResumeBoots, Go, Boot, Clear
<1>6. ASSUME NEW p \in Ops, Resumed(p) PROVE Clear(q, W)
  BY <1>6 DEF Resumed, Go, Ended, Started, Release, Clear
<1>7. ASSUME NEW p \in Ops, CloneEnds(p) PROVE Clear(q, W)
  BY <1>7 DEF CloneEnds, Go, Copied, Cloning, Clear
<1>8. ASSUME NEW p \in Ops, CloneFails(p) PROVE Clear(q, W)
  BY <1>8 DEF CloneFails, Go, Cloning, Abandon, Removed, Excuse, Clear
<1>9. ASSUME NEW p \in Ops, OnlineCopies(p) PROVE Clear(q, W)
  BY <1>9 DEF OnlineCopies, Go, CloneBegins, CanClone, Excuse, Abandon, Removed, Clear
<1>10. ASSUME NEW p \in Ops, OnlineStreamed(p) PROVE Clear(q, W)
  BY <1>10 DEF OnlineStreamed, Go, Cloning, Streams, Abandon, Removed, Excuse, Clear
<1>11. ASSUME NEW p \in Ops, OnlineFiles(p) PROVE Clear(q, W)
  BY <1>11 DEF OnlineFiles, Go, Abandon, Removed, Excuse, Clear
<1>12. ASSUME NEW p \in Ops, OnlineCloses(p) PROVE Clear(q, W)
  BY <1>12 DEF OnlineCloses, Go, Release, Clear
<1>13. ASSUME NEW p \in Ops, SnapshotCopies(p) PROVE Clear(q, W)
  BY <1>13 DEF SnapshotCopies, Go, CloneBegins, CanClone, Abandon, Removed, Excuse, Clear
<1>14. ASSUME NEW p \in Ops, SnapshotFiles(p) PROVE Clear(q, W)
  BY <1>14 DEF SnapshotFiles, Go, Clear
<1>15. ASSUME NEW p \in Ops, RestoreClears(p) PROVE Clear(q, W)
  BY <1>15 DEF RestoreClears, Go, Removed, Clear
<1>16. ASSUME NEW p \in Ops, RestoreCopies(p) PROVE Clear(q, W)
  BY <1>16 DEF RestoreCopies, Go, CloneBegins, CanClone, Abandon, Removed, Excuse, Clear
<1>17. ASSUME NEW p \in Ops, RestoreHolds(p) PROVE Clear(q, W)
  BY <1>17 DEF RestoreHolds, Go, Quiesce, AfterQuiesce, Excuse, Abandon, Removed, Clear
<1>18. ASSUME NEW p \in Ops, SetAside(p) PROVE Clear(q, W)
  BY <1>18 DEF SetAside, Go, Abandon, Removed, Excuse, Clear
<1>19. ASSUME NEW p \in Ops, Place(p) PROVE Clear(q, W)
  BY <1>19 DEF Place, Go, Clear
<1>20. ASSUME NEW p \in Ops, PlaceFails(p) PROVE Clear(q, W)
  BY <1>20 DEF PlaceFails, Go, Undone, Removed, Excuse, Clear
<1>21. ASSUME NEW p \in Ops, Clean(p) PROVE Clear(q, W)
  BY <1>21 DEF Clean, Go, MayClean, Clear
<1>22. ASSUME NEW p \in Ops, RestsBefore(p) PROVE Clear(q, W)
  BY <1>22 DEF RestsBefore, Go, ReadsRow, Abandon, Removed, Excuse, Clear
<1>23. ASSUME NEW p \in Ops, BranchCopies(p) PROVE Clear(q, W)
  BY <1>23 DEF BranchCopies, Go, CloneBegins, CanClone, Excuse, Abandon, Removed, Clear
<1>24. ASSUME NEW p \in Ops, RestsAfter(p) PROVE Clear(q, W)
  BY <1>24 DEF RestsAfter, Go, ReadsRow, Abandon, Removed, Excuse, Clear
<1>25. ASSUME NEW p \in Ops, BranchCopied(p) PROVE Clear(q, W)
  BY <1>25 DEF BranchCopied, Go, Abandon, Removed, Excuse, Clear
<1>26. ASSUME NEW p \in Ops, BranchEnds(p) PROVE Clear(q, W)
  BY <1>26 DEF BranchEnds, Go, Removed, Clear
<1>27. ASSUME NEW p \in Ops, DeleteEnds(p) PROVE Clear(q, W)
  BY <1>27 DEF DeleteEnds, Go, Clear
<1>28. ASSUME NEW p \in Ops, Slept(p) PROVE Clear(q, W)
  BY <1>28 DEF Slept, Go, Stopped, Excuse, Clear
<1>29. ASSUME NEW p \in Ops, OnlineBegins(p) PROVE Clear(q, W)
  BY <1>29 DEF OnlineBegins, Go, Excuse, Clear
<1>30. ASSUME NEW p \in Ops, SnapshotBegins(p) PROVE Clear(q, W)
  BY <1>30 DEF SnapshotBegins, Go, Quiesce, AfterQuiesce, Excuse, Clear
<1>31. ASSUME NEW p \in Ops, RestoreBegins(p) PROVE Clear(q, W)
  BY <1>31 DEF RestoreBegins, Go, Excuse, Clear
<1>32. ASSUME NEW p \in Ops, BranchBegins(p) PROVE Clear(q, W)
  BY <1>32 DEF BranchBegins, Go, Quiesce, AfterQuiesce, Clear
<1>33. ASSUME NEW p \in Ops, DeleteBegins(p) PROVE Clear(q, W)
  BY <1>33 DEF DeleteBegins, Go, Excuse, Clear
<1>34. ASSUME NEW p \in Ops, SleepBegins(p) PROVE Clear(q, W)
  BY <1>34 DEF SleepBegins, Go, Excuse, Clear
<1>35. ASSUME NEW p \in Ops, CloneBeginsAgain(p) PROVE Clear(q, W)
  BY <1>35 DEF CloneBeginsAgain, Cloning, Clear
<1>36. CASE WakeBegins
  BY <1>36 DEF WakeBegins, Clear
<1>37. CASE WakeBoots
  BY <1>37 DEF WakeBoots, Boot, Clear
<1>38. CASE WakeEnds
  BY <1>38 DEF WakeEnds, Started, Clear
<1>39. CASE HibernatorStops
  BY <1>39 DEF HibernatorStops, Clear
<1>40. CASE HibernatorStopped
  BY <1>40 DEF HibernatorStopped, Stopped, Clear
<1>41. CASE DaemonDies
  BY <1>41 DEF DaemonDies, Clear
<1>42. CASE UNCHANGED vars
  BY <1>42 DEF vars, database, promises, Clear
<1>43. QED
  BY <1>1, <1>2, <1>3, <1>4, <1>5, <1>6, <1>7, <1>8, <1>9, <1>10, <1>11, <1>12, <1>13,
     <1>14, <1>15, <1>16, <1>17, <1>18, <1>19, <1>20, <1>21, <1>22, <1>23, <1>24, <1>25,
     <1>26, <1>27, <1>28, <1>29, <1>30, <1>31, <1>32, <1>33, <1>34, <1>35, <1>36, <1>37,
     <1>38, <1>39, <1>40, <1>41, <1>42 DEF Next, Begin, Proceed, Surroundings

\* An operation goes from one stage of its kind to another.
LEMMA StagesStep ==
    ASSUME Stages, [Next]_vars
    PROVE  Stages'
<1>1. ASSUME NEW p \in Ops, GuardSaysIdle(p) PROVE Stages'
  BY <1>1, Kinds DEF GuardSaysIdle, Go, Stages, Ats, Over, OnlineStages, OfflineStages,
     HeldStages, RestoreStages, BranchStages, Ops, Copiers, Pausing
<1>2. ASSUME NEW p \in Ops, GuardRefuses(p) PROVE Stages'
  BY <1>2, Kinds DEF GuardRefuses, Go, Abandon, Stages, Ats, Over, OnlineStages,
     OfflineStages, HeldStages, RestoreStages, BranchStages, Ops, Copiers, Pausing
<1>3. ASSUME NEW p \in Ops, Quiesced(p) PROVE Stages'
  <2>1. p \in Pausing /\ \E to \in {"finally", AfterQuiesce(p)} : step' = [step EXCEPT ![p] = to]
    BY <1>3 DEF Quiesced, Abandon, Go
  <2>2. QED
    BY <2>1, Kinds DEF Stages, Ats, Over, OnlineStages, OfflineStages, HeldStages,
       RestoreStages, BranchStages, Ops, Copiers, Pausing, AfterQuiesce
<1>4. ASSUME NEW p \in Ops, Resume(p) PROVE Stages'
  <2>1. p \in Pausing /\ step' = [step EXCEPT ![p] = "starting"] /\ step[p] = "finally"
    BY <1>4 DEF Resume, Go
  <2>2. QED
    BY <2>1, Kinds DEF Stages, Ats, Over, OnlineStages, OfflineStages, HeldStages,
       RestoreStages, BranchStages, Ops, Copiers, Pausing
<1>5. ASSUME NEW p \in Ops, ResumeBoots(p) PROVE Stages'
  BY <1>5, Kinds DEF ResumeBoots, Go, Boot, Stages, Ats, Over, OnlineStages, OfflineStages,
     HeldStages, RestoreStages, BranchStages, Ops, Copiers, Pausing
<1>6. ASSUME NEW p \in Ops, Resumed(p) PROVE Stages'
  BY <1>6, Kinds DEF Resumed, Go, Ended, Started, Release, Stages, Ats, Over, OnlineStages,
     OfflineStages, HeldStages, RestoreStages, BranchStages, Ops, Copiers, Pausing
<1>7. ASSUME NEW p \in Ops, CloneEnds(p) PROVE Stages'
  BY <1>7, Kinds DEF CloneEnds, Go, Copied, Cloning, Stages, Ats, Over, OnlineStages,
     OfflineStages, HeldStages, RestoreStages, BranchStages, Ops, Copiers, Pausing
<1>8. ASSUME NEW p \in Ops, CloneFails(p) PROVE Stages'
  BY <1>8, Kinds DEF CloneFails, Go, Cloning, Abandon, Stages, Ats, Over, OnlineStages,
     OfflineStages, HeldStages, RestoreStages, BranchStages, Ops, Copiers, Pausing
<1>9. ASSUME NEW p \in Ops, OnlineCopies(p) PROVE Stages'
  BY <1>9, Kinds DEF OnlineCopies, Go, CloneBegins, Abandon, Stages, Ats, Over,
     OnlineStages, OfflineStages, HeldStages, RestoreStages, BranchStages, Ops, Copiers,
     Pausing
<1>10. ASSUME NEW p \in Ops, OnlineStreamed(p) PROVE Stages'
  BY <1>10, Kinds DEF OnlineStreamed, Go, Cloning, Streams, Abandon, Stages, Ats, Over,
     OnlineStages, OfflineStages, HeldStages, RestoreStages, BranchStages, Ops, Copiers,
     Pausing
<1>11. ASSUME NEW p \in Ops, OnlineFiles(p) PROVE Stages'
  BY <1>11, Kinds DEF OnlineFiles, Go, Abandon, Stages, Ats, Over, OnlineStages,
     OfflineStages, HeldStages, RestoreStages, BranchStages, Ops, Copiers, Pausing
<1>12. ASSUME NEW p \in Ops, OnlineCloses(p) PROVE Stages'
  BY <1>12, Kinds DEF OnlineCloses, Go, Release, Stages, Ats, Over, OnlineStages,
     OfflineStages, HeldStages, RestoreStages, BranchStages, Ops, Copiers, Pausing
<1>13. ASSUME NEW p \in Ops, SnapshotCopies(p) PROVE Stages'
  BY <1>13, Kinds DEF SnapshotCopies, Go, CloneBegins, Abandon, Stages, Ats, Over,
     OnlineStages, OfflineStages, HeldStages, RestoreStages, BranchStages, Ops, Copiers,
     Pausing
<1>14. ASSUME NEW p \in Ops, SnapshotFiles(p) PROVE Stages'
  BY <1>14, Kinds DEF SnapshotFiles, Go, Stages, Ats, Over, OnlineStages, OfflineStages,
     HeldStages, RestoreStages, BranchStages, Ops, Copiers, Pausing
<1>15. ASSUME NEW p \in Ops, RestoreClears(p) PROVE Stages'
  BY <1>15, Kinds DEF RestoreClears, Go, Stages, Ats, Over, OnlineStages, OfflineStages,
     HeldStages, RestoreStages, BranchStages, Ops, Copiers, Pausing
<1>16. ASSUME NEW p \in Ops, RestoreCopies(p) PROVE Stages'
  BY <1>16, Kinds DEF RestoreCopies, Go, CloneBegins, Abandon, Stages, Ats, Over,
     OnlineStages, OfflineStages, HeldStages, RestoreStages, BranchStages, Ops, Copiers,
     Pausing
<1>17. ASSUME NEW p \in Ops, RestoreHolds(p) PROVE Stages'
  BY <1>17, Kinds DEF RestoreHolds, Go, Quiesce, AfterQuiesce, Abandon, Stages, Ats, Over,
     OnlineStages, OfflineStages, HeldStages, RestoreStages, BranchStages, Ops, Copiers,
     Pausing
<1>18. ASSUME NEW p \in Ops, SetAside(p) PROVE Stages'
  <2>1. p \in Restores /\ \E to \in {"finally", "placing"} : step' = [step EXCEPT ![p] = to]
    BY <1>18 DEF SetAside, Abandon, Go
  <2>2. QED
    BY <2>1, Kinds DEF Stages, Ats, Over, OnlineStages, OfflineStages, HeldStages,
       RestoreStages, BranchStages, Ops, Copiers, Pausing
<1>19. ASSUME NEW p \in Ops, Place(p) PROVE Stages'
  BY <1>19, Kinds DEF Place, Go, Stages, Ats, Over, OnlineStages, OfflineStages, HeldStages,
     RestoreStages, BranchStages, Ops, Copiers, Pausing
<1>20. ASSUME NEW p \in Ops, PlaceFails(p) PROVE Stages'
  BY <1>20, Kinds DEF PlaceFails, Go, Undone, Stages, Ats, Over, OnlineStages,
     OfflineStages, HeldStages, RestoreStages, BranchStages, Ops, Copiers, Pausing
<1>21. ASSUME NEW p \in Ops, Clean(p) PROVE Stages'
  BY <1>21, Kinds DEF Clean, Go, MayClean, Stages, Ats, Over, OnlineStages, OfflineStages,
     HeldStages, RestoreStages, BranchStages, Ops, Copiers, Pausing
<1>22. ASSUME NEW p \in Ops, RestsBefore(p) PROVE Stages'
  BY <1>22, Kinds DEF RestsBefore, Go, ReadsRow, Abandon, Stages, Ats, Over, OnlineStages,
     OfflineStages, HeldStages, RestoreStages, BranchStages, Ops, Copiers, Pausing
<1>23. ASSUME NEW p \in Ops, BranchCopies(p) PROVE Stages'
  BY <1>23, Kinds DEF BranchCopies, Go, CloneBegins, Abandon, Stages, Ats, Over,
     OnlineStages, OfflineStages, HeldStages, RestoreStages, BranchStages, Ops, Copiers,
     Pausing
<1>24. ASSUME NEW p \in Ops, RestsAfter(p) PROVE Stages'
  BY <1>24, Kinds DEF RestsAfter, Go, ReadsRow, Abandon, Stages, Ats, Over, OnlineStages,
     OfflineStages, HeldStages, RestoreStages, BranchStages, Ops, Copiers, Pausing
<1>25. ASSUME NEW p \in Ops, BranchCopied(p) PROVE Stages'
  BY <1>25, Kinds DEF BranchCopied, Go, Abandon, Stages, Ats, Over, OnlineStages,
     OfflineStages, HeldStages, RestoreStages, BranchStages, Ops, Copiers, Pausing
<1>26. ASSUME NEW p \in Ops, BranchEnds(p) PROVE Stages'
  BY <1>26, Kinds DEF BranchEnds, Go, Stages, Ats, Over, OnlineStages, OfflineStages,
     HeldStages, RestoreStages, BranchStages, Ops, Copiers, Pausing
<1>27. ASSUME NEW p \in Ops, DeleteEnds(p) PROVE Stages'
  BY <1>27, Kinds DEF DeleteEnds, Go, Stages, Ats, Over, OnlineStages, OfflineStages,
     HeldStages, RestoreStages, BranchStages, Ops, Copiers, Pausing
<1>28. ASSUME NEW p \in Ops, Slept(p) PROVE Stages'
  BY <1>28, Kinds DEF Slept, Go, Stages, Ats, Over, OnlineStages, OfflineStages, HeldStages,
     RestoreStages, BranchStages, Ops, Copiers, Pausing
<1>29. ASSUME NEW p \in Ops, OnlineBegins(p) PROVE Stages'
  BY <1>29, Kinds DEF OnlineBegins, Go, Stages, Ats, Over, OnlineStages, OfflineStages,
     HeldStages, RestoreStages, BranchStages, Ops, Copiers, Pausing
<1>30. ASSUME NEW p \in Ops, SnapshotBegins(p) PROVE Stages'
  BY <1>30, Kinds DEF SnapshotBegins, Go, Quiesce, AfterQuiesce, Stages, Ats, Over,
     OnlineStages, OfflineStages, HeldStages, RestoreStages, BranchStages, Ops, Copiers,
     Pausing
<1>31. ASSUME NEW p \in Ops, RestoreBegins(p) PROVE Stages'
  BY <1>31, Kinds DEF RestoreBegins, Go, Stages, Ats, Over, OnlineStages, OfflineStages,
     HeldStages, RestoreStages, BranchStages, Ops, Copiers, Pausing
<1>32. ASSUME NEW p \in Ops, BranchBegins(p) PROVE Stages'
  BY <1>32, Kinds DEF BranchBegins, Go, Quiesce, AfterQuiesce, Stages, Ats, Over,
     OnlineStages, OfflineStages, HeldStages, RestoreStages, BranchStages, Ops, Copiers,
     Pausing
<1>33. ASSUME NEW p \in Ops, DeleteBegins(p) PROVE Stages'
  BY <1>33, Kinds DEF DeleteBegins, Go, Stages, Ats, Over, OnlineStages, OfflineStages,
     HeldStages, RestoreStages, BranchStages, Ops, Copiers, Pausing
<1>34. ASSUME NEW p \in Ops, SleepBegins(p) PROVE Stages'
  <2>1. p \in Sleeps /\ step' = [step EXCEPT ![p] = "stopping"]
    BY <1>34 DEF SleepBegins, Go
  <2>2. QED
    BY <2>1, Kinds DEF Stages, Ats, Over, OnlineStages, OfflineStages, HeldStages,
       RestoreStages, BranchStages, Ops, Copiers, Pausing
<1>35. ASSUME NEW p \in Ops, CloneBeginsAgain(p) PROVE Stages'
  BY <1>35, Kinds DEF CloneBeginsAgain, Cloning, Stages, Ats, Over, OnlineStages,
     OfflineStages, HeldStages, RestoreStages, BranchStages, Ops, Copiers, Pausing
<1>36. CASE WakeBegins
  BY <1>36, Kinds DEF WakeBegins, Stages, Ats, Over, OnlineStages, OfflineStages,
     HeldStages, RestoreStages, BranchStages, Ops, Copiers, Pausing
<1>37. CASE WakeBoots
  BY <1>37, Kinds DEF WakeBoots, Boot, Stages, Ats, Over, OnlineStages, OfflineStages,
     HeldStages, RestoreStages, BranchStages, Ops, Copiers, Pausing
<1>38. CASE WakeEnds
  BY <1>38, Kinds DEF WakeEnds, Started, Stages, Ats, Over, OnlineStages, OfflineStages,
     HeldStages, RestoreStages, BranchStages, Ops, Copiers, Pausing
<1>39. CASE HibernatorStops
  BY <1>39, Kinds DEF HibernatorStops, Stages, Ats, Over, OnlineStages, OfflineStages,
     HeldStages, RestoreStages, BranchStages, Ops, Copiers, Pausing
<1>40. CASE HibernatorStopped
  BY <1>40, Kinds DEF HibernatorStopped, Stages, Ats, Over, OnlineStages, OfflineStages,
     HeldStages, RestoreStages, BranchStages, Ops, Copiers, Pausing
<1>41. CASE DaemonDies
  BY <1>41, Kinds DEF DaemonDies, Stages, Ats, Over, OnlineStages, OfflineStages,
     HeldStages, RestoreStages, BranchStages, Ops, Copiers, Pausing
<1>42. CASE UNCHANGED vars
  BY <1>42, Kinds DEF vars, database, promises, Stages, Ats, Over, OnlineStages,
     OfflineStages, HeldStages, RestoreStages, BranchStages, Ops, Copiers, Pausing
<1>43. QED
  BY <1>1, <1>2, <1>3, <1>4, <1>5, <1>6, <1>7, <1>8, <1>9, <1>10, <1>11, <1>12, <1>13,
     <1>14, <1>15, <1>16, <1>17, <1>18, <1>19, <1>20, <1>21, <1>22, <1>23, <1>24, <1>25,
     <1>26, <1>27, <1>28, <1>29, <1>30, <1>31, <1>32, <1>33, <1>34, <1>35, <1>36, <1>37,
     <1>38, <1>39, <1>40, <1>41, <1>42 DEF Next, Begin, Proceed, Surroundings

-----------------------------------------------------------------------------
(* What an operation's step does to the directories.                       *)

Leaves   == UNCHANGED <<disk, mount, spoiled>>
Drops(p) == p \in Copiers /\ step[p] \notin Over /\ Abandon(p) /\ mount' = mount
Opens(p) == p \in Copiers /\ step[p] \in {"opened", "copying", "looking"}
            /\ CanClone(p) /\ CloneBegins(p) /\ mount' = mount

Touches(p) ==
    \/ Leaves \/ Drops(p) \/ Opens(p)
    \/ CloneEnds(p) \/ CloneBeginsAgain(p) \/ OnlineStreamed(p) \/ ResumeBoots(p)
    \/ RestoreClears(p) \/ SetAside(p) \/ Place(p) \/ PlaceFails(p) \/ Clean(p)
    \/ BranchEnds(p) \/ DeleteBegins(p) \/ DeleteEnds(p)

LEMMA DiskEffects ==
    ASSUME NEW p \in Ops, Begin(p) \/ Proceed(p) \/ CloneBeginsAgain(p)
    PROVE  Touches(p)
<1>1. ASSUME \/ GuardSaysIdle(p) \/ Resume(p) \/ Resumed(p) \/ OnlineCloses(p) \/ SnapshotFiles(p)
             \/ Slept(p)
      PROVE  Leaves
  BY <1>1 DEF GuardSaysIdle, Resume, Resumed, OnlineCloses, SnapshotFiles, Slept, Started, Stopped,
     database, Leaves
<1>2. ASSUME Begin(p), ~DeleteBegins(p) PROVE Leaves
  BY <1>2 DEF Begin, OnlineBegins, SnapshotBegins, RestoreBegins, BranchBegins, SleepBegins, database,
     Leaves
<1>3. ASSUME GuardRefuses(p) \/ CloneFails(p) PROVE Drops(p)
  BY <1>3 DEF GuardRefuses, CloneFails, Cloning, Pausing, Copiers, database, Drops, Over
<1>4. ASSUME Quiesced(p) PROVE Leaves \/ Drops(p)
  BY <1>4 DEF Quiesced, Pausing, Copiers, Stopped, Leaves, Drops, Over
<1>5. ASSUME OnlineFiles(p) \/ RestoreHolds(p) \/ BranchCopied(p) \/ RestsBefore(p) \/ RestsAfter(p)
      PROVE  Leaves \/ Drops(p)
  BY <1>5 DEF OnlineFiles, RestoreHolds, BranchCopied, RestsBefore, RestsAfter, ReadsRow, Copiers,
     database, Leaves, Drops, Over
<1>6. ASSUME OnlineCopies(p) \/ SnapshotCopies(p) \/ RestoreCopies(p) \/ BranchCopies(p)
      PROVE  Opens(p) \/ Drops(p)
  BY <1>6 DEF OnlineCopies, SnapshotCopies, RestoreCopies, BranchCopies, Copiers, database, Opens,
     Drops, Over
<1>7. QED
  BY <1>1, <1>2, <1>3, <1>4, <1>5, <1>6 DEF Begin, Proceed, Touches

\* The daemon's surroundings: only a boot touches them.
LEMMA SurroundingsTouch ==
    ASSUME Surroundings
    PROVE  (UNCHANGED <<disk, mount>> /\ (DaemonDies \/ spoiled' = spoiled)) \/ WakeBoots
BY DEF Surroundings, WakeBegins, WakeEnds, HibernatorStops, HibernatorStopped, Started, Stopped,
   DaemonDies

LEMMA DisksStep ==
    ASSUME TypeInv, [Next]_vars
    PROVE  Disks'
<1> USE DEF TypeInv
<1>0. Disks /\ mount \in Asides
  BY DEF Disks
<1>1. ASSUME UNCHANGED <<disk, mount>> PROVE Disks'
  BY <1>0, <1>1 DEF Disks, Labels
<1>2. ASSUME Boot PROVE Disks'
  <2>1. Live \in Asides /\ [data |-> "empty", whole |-> TRUE] \in Directories
    BY DEF Asides, Directories
  <2>2. mount' \in Asides
    BY <1>0, <1>2, <2>1 DEF Boot
  <2>3. CASE disk' = disk
    BY <1>0, <2>2, <2>3 DEF Disks, Labels
  <2>4. CASE disk' = [disk EXCEPT ![Live] = [data |-> "empty", whole |-> TRUE]]
    <3> DEFINE v == [data |-> "empty", whole |-> TRUE]
    <3>1. v \in Directories /\ disk' = [disk EXCEPT ![Live] = v]
      BY <2>1, <2>4
    <3> HIDE DEF v
    <3>2. QED
      BY <1>0, <2>2, <3>1, Ways, Apart, PutDown
  <2>5. QED
    BY <1>2, <2>3, <2>4 DEF Boot
<1>3. ASSUME NEW p \in Ops, Drops(p) PROVE Disks'
  BY <1>0, <1>3, Copies DEF Drops, Abandon
<1>4. ASSUME NEW p \in Ops, Opens(p) PROVE Disks'
  BY <1>0, <1>4, Copies DEF Opens, CanClone, CloneBegins
<1>5. ASSUME NEW p \in Ops, CloneEnds(p) PROVE Disks'
  BY <1>0, <1>5, Copies DEF CloneEnds, Cloning, database
<1>6. ASSUME NEW p \in Ops, CloneBeginsAgain(p) PROVE Disks'
  BY <1>0, <1>6, Copies DEF CloneBeginsAgain, Cloning, database
<1>7. ASSUME NEW p \in Ops, OnlineStreamed(p) PROVE Disks'
  <2>1. p \in Onlines /\ p \in Copiers /\ mount' = mount
    BY <1>7 DEF OnlineStreamed, Streams, Copiers, database
  <2>2. CASE Abandon(p)
    BY <1>0, <2>1, <2>2, Copies DEF Abandon
  <2>3. CASE disk' = [disk EXCEPT ![To(p)] = disk[mount]]
    <3>1. To(p) = Made(p) /\ Made(p) \in Places /\ disk[mount] \in Directories \cup {Absent}
      BY <1>0, <2>1, Kinds, Ways DEF Disks
    <3>2. QED
      BY <1>0, <2>1, <2>3, <3>1, Apart, PutDown
  <2>4. QED
    BY <1>7, <2>2, <2>3 DEF OnlineStreamed
<1>8. ASSUME NEW p \in Ops, RestoreClears(p) PROVE Disks'
  BY <1>0, <1>8, Copies DEF RestoreClears, Copiers, database
<1>9. ASSUME NEW p \in Ops, SetAside(p) PROVE Disks'
  <2>1. p \in Restores /\ p \in Copiers /\ Aside(Of[p]) \in Asides /\ Live \in Asides
    BY <1>9, Ways DEF SetAside, Copiers, Asides
  <2>2. CASE Abandon(p) /\ mount' = mount
    BY <1>0, <2>1, <2>2, Copies DEF Abandon
  <2>3. CASE UNCHANGED <<disk, mount>>
    BY <1>1, <2>3
  <2>4. CASE /\ disk' = [disk EXCEPT ![Aside(Of[p])] = disk[Live], ![Live] = Absent]
             /\ mount' = IF mount = Live THEN Aside(Of[p]) ELSE mount
    BY <1>0, <2>1, <2>4, Ways, Apart DEF Disks, Labels
  <2>5. QED
    BY <1>9, <2>2, <2>3, <2>4 DEF SetAside
<1>10. ASSUME NEW p \in Ops, Place(p) PROVE Disks'
  BY <1>0, <1>10, Ways, Apart DEF Place, Disks, Labels, database
<1>11. ASSUME NEW p \in Ops, PlaceFails(p) PROVE Disks'
  <2>1. p \in Restores /\ p \in Copiers /\ Aside(Of[p]) \in Asides /\ Live \in Asides
    BY <1>11, Ways DEF PlaceFails, Copiers, Asides
  <2>2. CASE disk' = Removed(p) /\ mount' = mount
    BY <1>0, <2>1, <2>2, Copies
  <2>3. CASE disk' = Undone(p) /\ mount' = IF mount = Aside(Of[p]) THEN Live ELSE mount
    BY <1>0, <2>1, <2>3, Ways, Apart DEF Undone, Disks, Labels
  <2>4. QED
    BY <1>11, <2>2, <2>3 DEF PlaceFails
<1>12. ASSUME NEW p \in Ops, Clean(p) PROVE Disks'
  <2>1. p \in Restores /\ mount' = mount /\ Aside(Of[p]) \in Places
        /\ disk' \in {disk, [disk EXCEPT ![Aside(Of[p])] = Absent]}
    BY <1>12, Ways DEF Clean, database
  <2>2. QED
    BY <1>0, <2>1, PutDown DEF Disks, Labels
<1>13. ASSUME NEW p \in Ops, BranchEnds(p) PROVE Disks'
  BY <1>0, <1>13, Copies DEF BranchEnds, Copiers, database
<1>14. ASSUME NEW p \in Ops, DeleteBegins(p) PROVE Disks'
  <2>1. Of[p] \in Snapshots /\ mount' = mount /\ disk[Snap(Of[p])] # Absent
        /\ disk' = [disk EXCEPT ![Snap(Of[p])] = Half(Snap(Of[p]))]
    BY <1>14, StorageNumbers DEF DeleteBegins, database
  <2>2. /\ Snap(Of[p]) \in Places /\ Half(Snap(Of[p])) \in Directories
        /\ Half(Snap(Of[p])).data = Of[p]
    BY <1>0, <2>1, Ways, Halves DEF Disks, Labels
  <2>3. QED
    BY <1>0, <2>1, <2>2, Apart, PutDown
<1>15. ASSUME NEW p \in Ops, DeleteEnds(p) PROVE Disks'
  <2>1. Snap(Of[p]) \in Places /\ mount' = mount /\ disk' = [disk EXCEPT ![Snap(Of[p])] = Absent]
    BY <1>15, StorageNumbers, Ways DEF DeleteEnds, database
  <2>2. QED
    BY <1>0, <2>1, PutDown
<1>16. ASSUME NEW p \in Ops, ResumeBoots(p) \/ WakeBoots PROVE Disks'
  BY <1>2, <1>16 DEF ResumeBoots, WakeBoots
<1>17. ASSUME NEW p \in Ops, Touches(p) PROVE Disks'
  BY <1>1, <1>3, <1>4, <1>5, <1>6, <1>7, <1>8, <1>9, <1>10, <1>11, <1>12, <1>13, <1>14, <1>15,
     <1>16, <1>17 DEF Touches, Leaves
<1>18. ASSUME Surroundings PROVE Disks'
  BY <1>1, <1>2, <1>18, SurroundingsTouch DEF WakeBoots
<1>19. QED
  BY <1>1, <1>17, <1>18, DiskEffects DEF Next, vars, database

\* A start that has come to its end, and a stop.
LEMMA StartedMeans ==
    ASSUME Plain, Started
    PROVE  /\ row' \in {"running", "failed"} /\ mount' = mount
           /\ box' \in BOOLEAN /\ (box' => box)
           /\ finished' \in Nat /\ finished <= finished'
           /\ row' = "running" => finished' = finished + 1
<1> DEFINE Up   == /\ box
                   /\ row' = "running" /\ finished' = finished + 1
                   /\ UNCHANGED box
           Down == /\ ~box \/ "boot" \in Faults[cast]
                   /\ row' = "failed"
                   /\ box' \in IF "docker" \in Faults[cast] THEN {FALSE, box} ELSE {FALSE}
                   /\ UNCHANGED finished
<1>1. (Up \/ Down) /\ mount' = mount
  BY Zenon DEF Started
<1>2. box \in BOOLEAN /\ finished \in Nat
  BY DEF Plain
<1>3. CASE Up
  BY <1>1, <1>2, <1>3
<1>4. CASE Down
  <2>1. box' \in {FALSE, box} /\ row' = "failed" /\ finished' = finished
    BY <1>4
  <2>2. box' \in BOOLEAN /\ (box' => box)
    <3>1. CASE box' = FALSE
      BY <3>1
    <3>2. CASE box' = box
      BY <1>2, <3>2
    <3>3. QED
      BY <2>1, <3>1, <3>2
  <2>3. QED
    BY <1>1, <1>2, <2>1, <2>2
<1>5. QED
  BY <1>1, <1>3, <1>4, Zenon

LEMMA StoppedMeans ==
    ASSUME Plain, Stopped
    PROVE  /\ row' \in {"sleeping", "failed"} /\ mount' = mount
           /\ box' \in BOOLEAN /\ (box' => box) /\ (row' = "sleeping" => ~box')
           /\ handles' \subseteq handles /\ (row' # "sleeping" => handles' = handles)
<1> DEFINE Down   == box' = FALSE /\ row' = "sleeping" /\ handles' = {}
           Failed == /\ "docker" \in Faults[cast]
                     /\ row' = "failed"
                     /\ UNCHANGED <<box, handles>>
<1>1. (Down \/ Failed) /\ mount' = mount
  BY DEF Stopped
<1>2. CASE Down
  BY <1>1, <1>2
<1>3. CASE Failed
  <2>1. box' = box /\ handles' = handles /\ row' = "failed" /\ box \in BOOLEAN
    BY <1>3 DEF Plain
  <2>2. box' \in BOOLEAN /\ (box' => box)
    BY <2>1
  <2>3. QED
    BY <1>1, <2>1, <2>2
<1>4. QED
  BY <1>1, <1>2, <1>3, Zenon

\* The rest of the types.
LEMMA PlainStep ==
    ASSUME TypeInv, [Next]_vars
    PROVE  Plain'
<1> USE DEF ReadersOf, WritersTo, Cloning
<1>1. ASSUME NEW p \in Ops, GuardSaysIdle(p) PROVE Plain'
  BY <1>1, Kinds DEF GuardSaysIdle, Go, TypeInv, Plain, Copiers, Pausing, database, promises
<1>2. ASSUME NEW p \in Ops, GuardRefuses(p) PROVE Plain'
  BY <1>2, Kinds DEF GuardRefuses, Go, Abandon, TypeInv, Plain, Copiers, Pausing, database,
     promises
<1>3. ASSUME NEW p \in Ops, Quiesced(p) PROVE Plain'
  BY <1>3, Kinds DEF Quiesced, Go, AfterQuiesce, Abandon, Stopped, TypeInv, Plain, Copiers,
     Pausing, database, promises
<1>4. ASSUME NEW p \in Ops, Resume(p) PROVE Plain'
  BY <1>4, Kinds DEF Resume, Go, TypeInv, Plain, Copiers, Pausing, database, promises
<1>5. ASSUME NEW p \in Ops, ResumeBoots(p) PROVE Plain'
  BY <1>5, Kinds DEF ResumeBoots, Go, Boot, TypeInv, Plain, Copiers, Pausing, database,
     promises
<1>6. ASSUME NEW p \in Ops, Resumed(p) PROVE Plain'
  <2>1. CASE Started
    BY <1>6, <2>1, StartedMeans DEF Resumed, Release, TypeInv, Plain, Pausing, Copiers
  <2>2. CASE UNCHANGED <<row, box, mount, finished, lost>>
    BY <1>6, <2>2 DEF Resumed, Release, TypeInv, Plain
  <2>3. QED
    BY <1>6, <2>1, <2>2 DEF Resumed
<1>7. ASSUME NEW p \in Ops, CloneEnds(p) PROVE Plain'
  BY <1>7, Kinds DEF CloneEnds, Go, Copied, Cloning, TypeInv, Plain, Copiers, Pausing,
     database, promises
<1>8. ASSUME NEW p \in Ops, CloneFails(p) PROVE Plain'
  BY <1>8, Kinds DEF CloneFails, Go, Cloning, Abandon, TypeInv, Plain, Copiers, Pausing,
     database, promises
<1>9. ASSUME NEW p \in Ops, OnlineCopies(p) PROVE Plain'
  BY <1>9, Kinds DEF OnlineCopies, Go, CloneBegins, Abandon, TypeInv, Plain, Copiers,
     Pausing, database, promises
<1>10. ASSUME NEW p \in Ops, OnlineStreamed(p) PROVE Plain'
  BY <1>10, Kinds DEF OnlineStreamed, Go, Cloning, Streams, Abandon, TypeInv, Plain,
     Copiers, Pausing, database, promises
<1>11. ASSUME NEW p \in Ops, OnlineFiles(p) PROVE Plain'
  BY <1>11, Kinds DEF OnlineFiles, Go, Abandon, TypeInv, Plain, Copiers, Pausing, database,
     promises
<1>12. ASSUME NEW p \in Ops, OnlineCloses(p) PROVE Plain'
  BY <1>12, Kinds DEF OnlineCloses, Go, Release, TypeInv, Plain, Copiers, Pausing, database,
     promises
<1>13. ASSUME NEW p \in Ops, SnapshotCopies(p) PROVE Plain'
  BY <1>13, Kinds DEF SnapshotCopies, Go, CloneBegins, Abandon, TypeInv, Plain, Copiers,
     Pausing, database, promises
<1>14. ASSUME NEW p \in Ops, SnapshotFiles(p) PROVE Plain'
  BY <1>14, Kinds DEF SnapshotFiles, Go, TypeInv, Plain, Copiers, Pausing, database,
     promises
<1>15. ASSUME NEW p \in Ops, RestoreClears(p) PROVE Plain'
  BY <1>15, Kinds DEF RestoreClears, Go, TypeInv, Plain, Copiers, Pausing, database,
     promises
<1>16. ASSUME NEW p \in Ops, RestoreCopies(p) PROVE Plain'
  BY <1>16, Kinds DEF RestoreCopies, Go, CloneBegins, Abandon, TypeInv, Plain, Copiers,
     Pausing, database, promises
<1>17. ASSUME NEW p \in Ops, RestoreHolds(p) PROVE Plain'
  BY <1>17, Kinds DEF RestoreHolds, Go, Quiesce, AfterQuiesce, Abandon, TypeInv, Plain,
     Copiers, Pausing, database, promises
<1>18. ASSUME NEW p \in Ops, SetAside(p) PROVE Plain'
  BY <1>18, Kinds DEF SetAside, Go, Abandon, TypeInv, Plain, Copiers, Pausing, database,
     promises
<1>19. ASSUME NEW p \in Ops, Place(p) PROVE Plain'
  BY <1>19, Kinds DEF Place, Go, TypeInv, Plain, Copiers, Pausing, database, promises
<1>20. ASSUME NEW p \in Ops, PlaceFails(p) PROVE Plain'
  BY <1>20, Kinds DEF PlaceFails, Go, Undone, TypeInv, Plain, Copiers, Pausing, database,
     promises
<1>21. ASSUME NEW p \in Ops, Clean(p) PROVE Plain'
  BY <1>21, Kinds DEF Clean, Go, MayClean, TypeInv, Plain, Copiers, Pausing, database,
     promises
<1>22. ASSUME NEW p \in Ops, RestsBefore(p) PROVE Plain'
  BY <1>22, Kinds DEF RestsBefore, Go, ReadsRow, Abandon, TypeInv, Plain, Copiers, Pausing,
     database, promises
<1>23. ASSUME NEW p \in Ops, BranchCopies(p) PROVE Plain'
  BY <1>23, Kinds DEF BranchCopies, Go, CloneBegins, Abandon, TypeInv, Plain, Copiers,
     Pausing, database, promises
<1>24. ASSUME NEW p \in Ops, RestsAfter(p) PROVE Plain'
  BY <1>24, Kinds DEF RestsAfter, Go, ReadsRow, Abandon, TypeInv, Plain, Copiers, Pausing,
     database, promises
<1>25. ASSUME NEW p \in Ops, BranchCopied(p) PROVE Plain'
  BY <1>25, Kinds DEF BranchCopied, Go, Abandon, TypeInv, Plain, Copiers, Pausing, database,
     promises
<1>26. ASSUME NEW p \in Ops, BranchEnds(p) PROVE Plain'
  BY <1>26, Kinds DEF BranchEnds, Go, TypeInv, Plain, Copiers, Pausing, database, promises
<1>27. ASSUME NEW p \in Ops, DeleteEnds(p) PROVE Plain'
  BY <1>27, Kinds DEF DeleteEnds, Go, TypeInv, Plain, Copiers, Pausing, database, promises
<1>28. ASSUME NEW p \in Ops, Slept(p) PROVE Plain'
  BY <1>28, Kinds DEF Slept, Go, Stopped, TypeInv, Plain, Copiers, Pausing, database,
     promises
<1>29. ASSUME NEW p \in Ops, OnlineBegins(p) PROVE Plain'
  BY <1>29, Kinds DEF OnlineBegins, Go, TypeInv, Plain, Copiers, Pausing, database, promises
<1>30. ASSUME NEW p \in Ops, SnapshotBegins(p) PROVE Plain'
  BY <1>30, Kinds DEF SnapshotBegins, Go, Quiesce, AfterQuiesce, TypeInv, Plain, Copiers,
     Pausing, database, promises
<1>31. ASSUME NEW p \in Ops, RestoreBegins(p) PROVE Plain'
  BY <1>31, Kinds DEF RestoreBegins, Go, TypeInv, Plain, Copiers, Pausing, database,
     promises
<1>32. ASSUME NEW p \in Ops, BranchBegins(p) PROVE Plain'
  BY <1>32, Kinds DEF BranchBegins, Go, Quiesce, AfterQuiesce, TypeInv, Plain, Copiers,
     Pausing, database, promises
<1>33. ASSUME NEW p \in Ops, DeleteBegins(p) PROVE Plain'
  BY <1>33, Kinds DEF DeleteBegins, Go, TypeInv, Plain, Copiers, Pausing, database, promises
<1>34. ASSUME NEW p \in Ops, SleepBegins(p) PROVE Plain'
  BY <1>34, Kinds DEF SleepBegins, Go, TypeInv, Plain, Copiers, Pausing, database, promises
<1>35. ASSUME NEW p \in Ops, CloneBeginsAgain(p) PROVE Plain'
  BY <1>35, Kinds DEF CloneBeginsAgain, Cloning, TypeInv, Plain, Copiers, Pausing, database,
     promises
<1>36. CASE WakeBegins
  BY <1>36, Kinds DEF WakeBegins, TypeInv, Plain, Copiers, Pausing, database, promises
<1>37. CASE WakeBoots
  BY <1>37, Kinds DEF WakeBoots, Boot, TypeInv, Plain, Copiers, Pausing, database, promises
<1>38. CASE WakeEnds
  BY <1>38, StartedMeans DEF WakeEnds, TypeInv, Plain, promises
<1>39. CASE HibernatorStops
  BY <1>39, Kinds DEF HibernatorStops, TypeInv, Plain, Copiers, Pausing, database, promises
<1>40. CASE HibernatorStopped
  BY <1>40, Kinds DEF HibernatorStopped, Stopped, TypeInv, Plain, Copiers, Pausing,
     database, promises
<1>41. CASE DaemonDies
  BY <1>41, Kinds DEF DaemonDies, TypeInv, Plain, Copiers, Pausing, database, promises
<1>42. CASE UNCHANGED vars
  BY <1>42, Kinds DEF vars, database, promises, TypeInv, Plain, Copiers, Pausing
<1>43. QED
  BY <1>1, <1>2, <1>3, <1>4, <1>5, <1>6, <1>7, <1>8, <1>9, <1>10, <1>11, <1>12, <1>13,
     <1>14, <1>15, <1>16, <1>17, <1>18, <1>19, <1>20, <1>21, <1>22, <1>23, <1>24, <1>25,
     <1>26, <1>27, <1>28, <1>29, <1>30, <1>31, <1>32, <1>33, <1>34, <1>35, <1>36, <1>37,
     <1>38, <1>39, <1>40, <1>41, <1>42 DEF Next, Begin, Proceed, Surroundings

-----------------------------------------------------------------------------
(* What each step does, in plain facts.                                    *)

Turn(p, from, to) == step[p] = from /\ step' = [step EXCEPT ![p] = to]

\* An explicit stop is an excuse for whoever counts on there being none.
StopsExcuse ==
    \A q \in Onlines \cup Branches : step[q] \in Looking => ~Unstopped(q)' /\ ~Unmoved(q)'

LEMMA StopsExcused ==
    ASSUME Excuse({q \in Onlines \cup Branches : step[q] \in Looking}, "a stop")
    PROVE  StopsExcuse
<1> DEFINE S == {q \in Onlines \cup Branches : step[q] \in Looking}
<1>1. Excuse(S, "a stop")
  OBVIOUS
<1>2. \A q \in Onlines \cup Branches : step[q] \in Looking => q \in S
  OBVIOUS
<1> HIDE DEF S
<1>3. \A q : q \in S => ~Unstopped(q)' /\ ~Unmoved(q)'
  BY <1>1, Excused DEF Unstopped, Unmoved
<1>4. QED
  BY <1>2, <1>3 DEF StopsExcuse

\* Two restores that meet are crossed, both.
LEMMA Crossing ==
    ASSUME NEW S, Excuse(S, "crossed"), NEW r \in Restores, r \in S
    PROVE  ~Uncrossed'
BY Excused DEF Uncrossed


\* A start and a stop leave the server what it has open.
LEMMA MountStays ==
    ASSUME Started \/ Stopped
    PROVE  mount' = mount
BY DEF Started, Stopped

\* An operation on its way out with an error.
LEMMA DropsDoes ==
    ASSUME NEW p, Drops(p)
    PROVE  /\ p \in Copiers /\ step[p] \notin Over /\ mount' = mount /\ broken' = broken \cup {p}
           /\ step' = [step EXCEPT ![p] = "finally"]
           /\ \A r \in Rivals(p) : ~Uncrossed'
           /\ IF p \in Branches THEN UNCHANGED <<disk, spoiled>>
              ELSE disk' = Removed(p) /\ spoiled' = spoiled \cup (WritersTo(To(p)) \ {p})
<1>1. \A r \in Rivals(p) : r \in Restores
  BY DEF Rivals
<1>2. \A r \in Rivals(p) : ~Uncrossed'
  BY <1>1, Crossing DEF Drops, Abandon
<1>3. QED
  BY <1>2 DEF Drops, Abandon, Go

\* A copy that begins.
LEMMA OpensDoes ==
    ASSUME NEW p, Opens(p)
    PROVE  /\ p \in Copiers /\ step[p] \in {"opened", "copying", "looking"} /\ mount' = mount
           /\ step' = [step EXCEPT ![p] = "cloning"]
           /\ disk[From(p)] # Absent /\ disk[To(p)] = Absent
           /\ disk' = [disk EXCEPT ![To(p)] = Half(From(p))]
           /\ spoiled' = IF box /\ mount = From(p) THEN spoiled \cup {p} ELSE spoiled \ {p}
BY DEF Opens, CanClone, CloneBegins, Go

\* A start that is asked for while the database is down.
LEMMA BootDoes ==
    ASSUME Plain, Boot
    PROVE  /\ box' = TRUE
           /\ box => UNCHANGED <<mount, disk, spoiled>>
           /\ ~box => mount' = Live /\ spoiled' = spoiled \cup ReadersOf(Live)
           /\ box \/ disk[Live] # Absent => disk' = disk
           /\ ~box /\ disk[Live] = Absent =>
                disk' = [disk EXCEPT ![Live] = [data |-> "empty", whole |-> TRUE]]
BY DEF Boot, Plain
LEMMA GuardSaysIdleDoes ==
    ASSUME NEW p \in Ops, GuardSaysIdle(p)
    PROVE  /\ p \in Pausing /\ Turn(p, "guarding", "stopping")
           /\ row' = "stopping" /\ StopsExcuse
           /\ UNCHANGED <<box, mount, finished, waking, stopping, hold, handles, disk, broken, promises>>
           /\ UNCHANGED <<crashes, spoiled>>
BY StopsExcused DEF GuardSaysIdle, Turn, Go

LEMMA GuardRefusesDoes ==
    ASSUME NEW p \in Ops, GuardRefuses(p)
    PROVE  /\ p \in Pausing /\ step[p] = "guarding" /\ Drops(p)
           /\ UNCHANGED <<database, hold, handles, promises, crashes>>
BY DEF GuardRefuses, Drops, Pausing, Copiers, database, Over

LEMMA QuiescedDoes ==
    ASSUME NEW p \in Ops, Quiesced(p)
    PROVE  /\ p \in Pausing /\ step[p] = "stopping" /\ Stopped /\ mount' = mount
           /\ UNCHANGED <<finished, waking, stopping, hold, before, existed, lost, crashes>>
           /\ \/ /\ row' = "sleeping" /\ stopped' = stopped \cup {p} /\ StopsExcuse
                 /\ step' = [step EXCEPT ![p] = AfterQuiesce(p)]
                 /\ UNCHANGED <<disk, spoiled, broken>>
              \/ row' # "sleeping" /\ Drops(p) /\ stopped' = stopped
BY StopsExcused, MountStays DEF Quiesced, Go, Drops, Pausing, Copiers, Over

LEMMA ResumeDoes ==
    ASSUME NEW p \in Ops, Resume(p)
    PROVE  /\ p \in Pausing /\ p \in stopped /\ Turn(p, "finally", "starting") /\ row' = "starting"
           /\ p \in Branches /\ Fenced => ~Settled(hold)'
           /\ UNCHANGED <<box, mount, finished, waking, stopping, hold, handles, disk, broken, promises>>
           /\ UNCHANGED <<crashes, spoiled>>
BY Excused DEF Resume, Turn, Go, Settled, Unstopped, Unmoved

LEMMA ResumeBootsDoes ==
    ASSUME NEW p \in Ops, ResumeBoots(p)
    PROVE  /\ p \in Pausing /\ Turn(p, "starting", "booting") /\ Boot
           /\ UNCHANGED <<row, finished, waking, stopping, hold, handles, broken, promises, crashes>>
BY DEF ResumeBoots, Turn, Go

LEMMA ResumedDoes ==
    ASSUME NEW p \in Ops, Resumed(p)
    PROVE  /\ p \in Pausing /\ step' = [step EXCEPT ![p] = Ended(p)]
           /\ stopped' = stopped \ {p} /\ hold' = (IF hold = p THEN Nobody ELSE hold)
           /\ UNCHANGED <<mount, waking, stopping, handles, disk, broken, before, existed, crashes, spoiled>>
           /\ \/ /\ step[p] = "booting" /\ Started
                 /\ lost' = IF row' = "failed" THEN lost \cup {p} ELSE lost
              \/ step[p] = "finally" /\ p \notin stopped /\ UNCHANGED <<row, box, finished, lost>>
BY MountStays DEF Resumed, Go, Release

LEMMA CloneEndsDoes ==
    ASSUME NEW p \in Ops, CloneEnds(p)
    PROVE  /\ p \in Copiers /\ Turn(p, "cloning", Copied(p)) /\ ~Streams(p)
           /\ disk' = IF p \in spoiled THEN disk ELSE [disk EXCEPT ![To(p)] = disk[From(p)]]
           /\ UNCHANGED <<database, hold, handles, broken, promises, crashes, spoiled>>
BY DEF CloneEnds, Turn, Go, Cloning

LEMMA CloneFailsDoes ==
    ASSUME NEW p \in Ops, CloneFails(p)
    PROVE  /\ p \in Copiers /\ step[p] = "cloning" /\ Drops(p)
           /\ UNCHANGED <<database, hold, handles, promises, crashes>>
BY DEF CloneFails, Drops, Cloning, database, Over

LEMMA OnlineCopiesDoes ==
    ASSUME NEW p \in Ops, OnlineCopies(p)
    PROVE  /\ p \in Onlines /\ step[p] = "opened"
           /\ UNCHANGED <<database, hold, handles, stopped, existed, lost, crashes>>
           /\ \/ /\ row \in {"running", "sleeping"} /\ before' = [before EXCEPT ![p].state = row]
                 /\ Opens(p) /\ broken' = broken /\ (Unsettled => ~Unstopped(p)')
              \/ Drops(p) /\ before' = before
BY Excused DEF OnlineCopies, Opens, Drops, Copiers, database, Over, Settled, Unstopped,
   Unmoved

LEMMA OnlineStreamedDoes ==
    ASSUME NEW p \in Ops, OnlineStreamed(p)
    PROVE  /\ p \in Onlines /\ step[p] = "cloning" /\ Streams(p)
           /\ UNCHANGED <<database, hold, handles, promises, crashes>>
           /\ \/ /\ disk[mount] # Absent /\ disk' = [disk EXCEPT ![To(p)] = disk[mount]]
                 /\ step' = [step EXCEPT ![p] = "copied"] /\ UNCHANGED <<spoiled, broken>>
              \/ Drops(p)
BY DEF OnlineStreamed, Go, Streams, Cloning, Drops, Copiers, database, Over

LEMMA OnlineFilesDoes ==
    ASSUME NEW p \in Ops, OnlineFiles(p)
    PROVE  /\ p \in Onlines /\ step[p] = "copied"
           /\ UNCHANGED <<database, hold, handles, promises, crashes>>
           /\ \/ /\ row = before[p].state /\ step' = [step EXCEPT ![p] = "finally"]
                 /\ UNCHANGED <<disk, spoiled, broken>>
              \/ Drops(p)
BY DEF OnlineFiles, Go, Unchanged, Drops, Copiers, database, Over

LEMMA OnlineClosesDoes ==
    ASSUME NEW p \in Ops, OnlineCloses(p)
    PROVE  /\ p \in Onlines /\ Turn(p, "finally", IF p \in broken THEN "failed" ELSE "done")
           /\ handles' = handles \ {p} /\ hold' = (IF hold = p THEN Nobody ELSE hold)
           /\ UNCHANGED <<database, disk, broken, promises, crashes, spoiled>>
BY DEF OnlineCloses, Turn, Go, Release

LEMMA SnapshotCopiesDoes ==
    ASSUME NEW p \in Ops, SnapshotCopies(p)
    PROVE  /\ p \in Offlines /\ step[p] = "copying"
           /\ UNCHANGED <<database, hold, handles, promises, crashes>>
           /\ (Opens(p) /\ broken' = broken) \/ Drops(p)
BY DEF SnapshotCopies, Opens, Drops, Copiers, database, Over

LEMMA RestoreCopiesDoes ==
    ASSUME NEW p \in Ops, RestoreCopies(p)
    PROVE  /\ p \in Restores /\ step[p] = "copying"
           /\ UNCHANGED <<database, hold, handles, promises, crashes>>
           /\ (Opens(p) /\ broken' = broken) \/ Drops(p)
BY DEF RestoreCopies, Opens, Drops, Copiers, database, Over

LEMMA SnapshotFilesDoes ==
    ASSUME NEW p \in Ops, SnapshotFiles(p)
    PROVE  /\ p \in Offlines /\ Turn(p, "copied", "finally")
           /\ UNCHANGED <<database, hold, handles, disk, broken, promises, crashes, spoiled>>
BY DEF SnapshotFiles, Turn, Go

LEMMA RestoreClearsDoes ==
    ASSUME NEW p \in Ops, RestoreClears(p)
    PROVE  /\ p \in Restores /\ Turn(p, "clearing", "copying")
           /\ disk' = Removed(p) /\ spoiled' = spoiled \cup WritersTo(To(p))
           /\ UNCHANGED <<database, hold, handles, broken, promises, crashes>>
BY DEF RestoreClears, Turn, Go

LEMMA RestoreHoldsDoes ==
    ASSUME NEW p \in Ops, RestoreHolds(p)
    PROVE  /\ p \in Restores /\ step[p] = "cloned"
           /\ existed' = IF disk[Live] # Absent THEN existed \cup {p} ELSE existed \ {p}
           /\ UNCHANGED <<database, handles, before, stopped, lost, crashes>>
           /\ \/ /\ hold = Nobody /\ hold' = p /\ (Unsettled => ~Settled(p)')
                 /\ step' = [step EXCEPT ![p] = IF row = "running" THEN "guarding" ELSE AfterQuiesce(p)]
                 /\ UNCHANGED <<disk, spoiled, broken>>
              \/ hold # Nobody /\ hold' = hold /\ Drops(p)
BY Excused DEF RestoreHolds, Go, Quiesce, Drops, Copiers, database, Over, Settled,
   Unstopped, Unmoved

LEMMA SetAsideDoes ==
    ASSUME NEW p \in Ops, SetAside(p)
    PROVE  /\ p \in Restores /\ step[p] = "swapping"
           /\ UNCHANGED <<row, box, finished, waking, stopping, hold, handles, promises, crashes>>
           /\ \/ Drops(p)
              \/ /\ step' = [step EXCEPT ![p] = "placing"] /\ broken' = broken
                 /\ spoiled' = spoiled \cup ReadersOf(Live)
                 /\ \A b \in Branches : step[b] \in Looking => ~Unmoved(b)'
                 /\ \/ /\ p \in existed /\ disk[Live] # Absent /\ disk[Aside(Of[p])] = Absent
                       /\ disk' = [disk EXCEPT ![Aside(Of[p])] = disk[Live], ![Live] = Absent]
                       /\ mount' = IF mount = Live THEN Aside(Of[p]) ELSE mount
                    \/ p \notin existed /\ UNCHANGED <<disk, mount>>
<1> DEFINE S == {b \in Branches : step[b] \in Looking}
           Bad == p \in existed /\ (disk[Live] = Absent \/ disk[Aside(Of[p])] # Absent)
<1>1. p \in Restores /\ p \in Copiers /\ step[p] = "swapping"
      /\ UNCHANGED <<row, box, finished, waking, stopping, hold, handles, promises, crashes>>
  BY DEF SetAside, Copiers
<1>2. CASE Bad
  BY <1>1, <1>2 DEF SetAside, Drops, Over
<1>3. CASE ~Bad
  <2>1. /\ Excuse(S, "a swap") /\ step' = [step EXCEPT ![p] = "placing"] /\ broken' = broken
        /\ spoiled' = spoiled \cup ReadersOf(Live)
    BY <1>3, Zenon DEF SetAside, Go
  <2>2. IF p \in existed
        THEN /\ disk' = [disk EXCEPT ![Aside(Of[p])] = disk[Live], ![Live] = Absent]
             /\ mount' = IF mount = Live THEN Aside(Of[p]) ELSE mount
        ELSE UNCHANGED <<disk, mount>>
    BY <1>3, Zenon DEF SetAside
  <2>3. \A b \in Branches : step[b] \in Looking => ~Unmoved(b)'
    <3>1. \A b \in Branches : step[b] \in Looking => b \in S
      OBVIOUS
    <3> HIDE DEF S
    <3>2. QED
      BY <2>1, <3>1, Excused DEF Unmoved
  <2>4. QED
    BY <1>1, <1>3, <2>1, <2>2, <2>3
<1>4. QED
  BY <1>2, <1>3

LEMMA PlaceDoes ==
    ASSUME NEW p \in Ops, Place(p)
    PROVE  /\ p \in Restores /\ Turn(p, "placing", "finally")
           /\ disk[To(p)] # Absent /\ disk[Live] = Absent
           /\ disk' = [disk EXCEPT ![Live] = disk[To(p)], ![To(p)] = Absent]
           /\ spoiled' = spoiled \cup WritersTo(To(p))
           /\ UNCHANGED <<database, hold, handles, broken, promises, crashes>>
BY DEF Place, Turn, Go

LEMMA PlaceFailsDoes ==
    ASSUME NEW p \in Ops, PlaceFails(p)
    PROVE  /\ p \in Restores /\ Turn(p, "placing", "finally") /\ broken' = broken \cup {p}
           /\ spoiled' = spoiled \cup WritersTo(To(p))
           /\ UNCHANGED <<row, box, finished, waking, stopping, hold, handles, promises, crashes>>
           /\ \A r \in Rivals(p) : ~Uncrossed'
           /\ \/ /\ p \in existed /\ disk[Live] = Absent /\ disk' = Undone(p)
                 /\ mount' = IF mount = Aside(Of[p]) THEN Live ELSE mount
              \/ /\ ~(p \in existed /\ disk[Live] = Absent)
                 /\ disk' = Removed(p) /\ mount' = mount
<1>1. Excuse(Rivals(p), "crossed")
  BY DEF PlaceFails
<1>2. \A r \in Rivals(p) : r \in Restores
  BY DEF Rivals
<1>3. \A r \in Rivals(p) : ~Uncrossed'
  BY <1>1, <1>2, Crossing
<1>4. /\ p \in Restores /\ Turn(p, "placing", "finally") /\ broken' = broken \cup {p}
      /\ spoiled' = spoiled \cup WritersTo(To(p))
      /\ UNCHANGED <<row, box, finished, waking, stopping, hold, handles, promises, crashes>>
  BY DEF PlaceFails, Turn, Go
<1>5. IF p \in existed /\ disk[Live] = Absent
      THEN /\ disk' = Undone(p)
           /\ mount' = IF mount = Aside(Of[p]) THEN Live ELSE mount
      ELSE disk' = Removed(p) /\ mount' = mount
  BY DEF PlaceFails
<1>6. QED
  BY <1>3, <1>4, <1>5

LEMMA CleanDoes ==
    ASSUME NEW p \in Ops, Clean(p)
    PROVE  /\ p \in Restores /\ Turn(p, "cleaning", "done")
           /\ \/ p \in existed /\ p \notin lost /\ disk' = [disk EXCEPT ![Aside(Of[p])] = Absent]
              \/ disk' = disk
           /\ UNCHANGED <<database, hold, handles, broken, promises, crashes, spoiled>>
BY DEF Clean, Turn, Go, MayClean

LEMMA RestsBeforeDoes ==
    ASSUME NEW p \in Ops, RestsBefore(p)
    PROVE  /\ p \in Branches /\ step[p] = "resting"
           /\ UNCHANGED <<database, hold, handles, stopped, existed, lost, crashes>>
           /\ \/ /\ row = "sleeping" /\ finished = finished /\ before' = [before EXCEPT ![p].mark = finished]
                 /\ step' = [step EXCEPT ![p] = "looking"] /\ UNCHANGED <<disk, spoiled, broken>>
              \/ Drops(p) /\ before' = before
BY DEF RestsBefore, Go, ReadsRow, Drops, Copiers, database, Over

LEMMA RestsAfterDoes ==
    ASSUME NEW p \in Ops, RestsAfter(p)
    PROVE  /\ p \in Branches /\ step[p] = "checking"
           /\ UNCHANGED <<database, hold, handles, stopped, existed, lost, crashes>>
           /\ \/ /\ row = "sleeping" /\ finished = before[p].mark /\ before' = [before EXCEPT ![p].mark = finished]
                 /\ step' = [step EXCEPT ![p] = "inspecting"] /\ UNCHANGED <<disk, spoiled, broken>>
              \/ Drops(p) /\ before' = before
BY DEF RestsAfter, Go, ReadsRow, Drops, Copiers, database, Over

LEMMA BranchCopiesDoes ==
    ASSUME NEW p \in Ops, BranchCopies(p)
    PROVE  /\ p \in Branches /\ step[p] = "looking"
           /\ UNCHANGED <<database, hold, handles, promises, crashes>>
           /\ \/ ~box /\ Opens(p) /\ broken' = broken /\ (Unsettled => ~Unmoved(p)')
              \/ Drops(p)
BY Excused DEF BranchCopies, Opens, Drops, Copiers, database, Over, Settled, Unstopped,
   Unmoved

LEMMA BranchCopiedDoes ==
    ASSUME NEW p \in Ops, BranchCopied(p)
    PROVE  /\ p \in Branches /\ step[p] = "inspecting"
           /\ UNCHANGED <<database, hold, handles, promises, crashes>>
           /\ \/ step' = [step EXCEPT ![p] = "finally"] /\ UNCHANGED <<disk, spoiled, broken>>
              \/ Drops(p)
BY DEF BranchCopied, Go, Drops, Copiers, database, Over

LEMMA BranchEndsDoes ==
    ASSUME NEW p \in Ops, BranchEnds(p)
    PROVE  /\ p \in Branches /\ step[p] = "creating"
           /\ \/ p \notin broken /\ step' = [step EXCEPT ![p] = "done"] /\ disk' = disk
              \/ step' = [step EXCEPT ![p] = "failed"] /\ disk' = Removed(p)
           /\ UNCHANGED <<database, hold, handles, broken, promises, crashes, spoiled>>
BY DEF BranchEnds, Go

LEMMA DeleteEndsDoes ==
    ASSUME NEW p \in Ops, DeleteEnds(p)
    PROVE  /\ p \in Deletes /\ Turn(p, "deleting", "done")
           /\ disk' = [disk EXCEPT ![Snap(Of[p])] = Absent]
           /\ UNCHANGED <<database, hold, handles, broken, promises, crashes, spoiled>>
BY DEF DeleteEnds, Turn, Go

LEMMA SleptDoes ==
    ASSUME NEW p \in Ops, Slept(p)
    PROVE  /\ p \in Sleeps /\ Turn(p, "stopping", "done") /\ Stopped /\ mount' = mount /\ StopsExcuse
           /\ UNCHANGED <<finished, waking, stopping, hold, disk, broken, promises, crashes, spoiled>>
BY StopsExcused, MountStays DEF Slept, Turn, Go

LEMMA OnlineBeginsDoes ==
    ASSUME NEW p \in Ops, OnlineBegins(p)
    PROVE  /\ p \in Onlines /\ step[p] = "idle"
           /\ UNCHANGED <<database, disk, broken, promises, crashes, spoiled>>
           /\ \/ /\ hold = Nobody /\ hold' = p /\ handles' = handles \cup {p}
                 /\ step' = [step EXCEPT ![p] = "opened"] /\ (Unsettled => ~Unstopped(p)')
              \/ step' = [step EXCEPT ![p] = "failed"] /\ UNCHANGED <<hold, handles>>
BY Excused DEF OnlineBegins, Go, Settled, Unstopped, Unmoved

LEMMA SnapshotBeginsDoes ==
    ASSUME NEW p \in Ops, SnapshotBegins(p)
    PROVE  /\ p \in Offlines /\ step[p] = "idle"
           /\ UNCHANGED <<database, handles, disk, broken, promises, crashes, spoiled>>
           /\ \/ /\ hold = Nobody /\ hold' = p /\ (Unsettled => ~Settled(p)')
                 /\ step' = [step EXCEPT ![p] = IF row = "running" THEN "guarding" ELSE AfterQuiesce(p)]
              \/ step' = [step EXCEPT ![p] = "failed"] /\ hold' = hold
BY Excused DEF SnapshotBegins, Go, Quiesce, Settled, Unstopped, Unmoved

LEMMA RestoreBeginsDoes ==
    ASSUME NEW p \in Ops, RestoreBegins(p)
    PROVE  /\ p \in Restores /\ step[p] = "idle"
           /\ \E to \in {"clearing", "failed"} : step' = [step EXCEPT ![p] = to]
           /\ \A r \in Rivals(p) : ~Uncrossed'
           /\ UNCHANGED <<database, hold, handles, disk, broken, promises, crashes, spoiled>>
BY Crossing DEF RestoreBegins, Go

LEMMA BranchBeginsDoes ==
    ASSUME NEW p \in Ops, BranchBegins(p)
    PROVE  /\ p \in Branches /\ step[p] = "idle"
           /\ \E to \in {"guarding", AfterQuiesce(p), "failed"} : step' = [step EXCEPT ![p] = to]
           /\ UNCHANGED <<database, hold, handles, disk, broken, promises, crashes, spoiled>>
BY DEF BranchBegins, Go, Quiesce

LEMMA DeleteBeginsDoes ==
    ASSUME NEW p \in Ops, DeleteBegins(p)
    PROVE  /\ p \in Deletes /\ Turn(p, "idle", "deleting") /\ disk[Snap(Of[p])] # Absent
           /\ disk' = [disk EXCEPT ![Snap(Of[p])] = Half(Snap(Of[p]))]
           /\ spoiled' = spoiled \cup ReadersOf(Snap(Of[p]))
           /\ \A r \in Restores : Of[r] = Of[p] => ~Uncrossed'
           /\ UNCHANGED <<database, hold, handles, broken, promises, crashes>>
BY Crossing DEF DeleteBegins, Turn, Go

LEMMA SleepBeginsDoes ==
    ASSUME NEW p \in Ops, SleepBegins(p)
    PROVE  /\ p \in Sleeps /\ Turn(p, "idle", "stopping") /\ row' = "stopping" /\ StopsExcuse
           /\ UNCHANGED <<box, mount, finished, waking, stopping, hold, handles, disk, broken, promises>>
           /\ UNCHANGED <<crashes, spoiled>>
BY StopsExcused DEF SleepBegins, Turn, Go

LEMMA CloneBeginsAgainDoes ==
    ASSUME NEW p \in Ops, CloneBeginsAgain(p)
    PROVE  /\ p \in Copiers /\ step[p] = "cloning" /\ p \in spoiled /\ ~Streams(p)
           /\ disk[From(p)] # Absent /\ ~(box /\ mount = From(p))
           /\ disk' = [disk EXCEPT ![To(p)] = Half(From(p))]
           /\ spoiled' = (spoiled \ {p}) \cup (WritersTo(To(p)) \ {p})
           /\ UNCHANGED <<database, hold, handles, step, broken, promises, crashes>>
BY DEF CloneBeginsAgain, Cloning


LEMMA WakeBeginsDoes ==
    ASSUME WakeBegins
    PROVE  /\ waking = "none" /\ waking' = "asked" /\ ~Fenced
           /\ row # "running" /\ row' = "starting"
           /\ UNCHANGED <<box, mount, finished, stopping, hold, handles, disk, step, broken, promises>>
           /\ UNCHANGED <<crashes, spoiled>>
BY DEF WakeBegins

LEMMA WakeBootsDoes ==
    ASSUME WakeBoots
    PROVE  /\ waking = "asked" /\ waking' = "booting" /\ Boot
           /\ UNCHANGED <<row, finished, stopping, hold, handles, step, broken, promises, crashes>>
BY DEF WakeBoots

LEMMA WakeEndsDoes ==
    ASSUME Plain, WakeEnds
    PROVE  /\ waking = "booting" /\ waking' = "none" /\ Started /\ mount' = mount
           /\ UNCHANGED <<stopping, hold, handles, disk, step, broken, promises, crashes, spoiled>>
BY MountStays DEF WakeEnds

LEMMA HibernatorStopsDoes ==
    ASSUME HibernatorStops
    PROVE  /\ row = "running" /\ row' = "stopping" /\ handles = {}
           /\ ~stopping /\ stopping' = TRUE
           /\ UNCHANGED <<box, mount, finished, waking, hold, handles, disk, step, broken, promises>>
           /\ UNCHANGED <<crashes, spoiled>>
BY DEF HibernatorStops

LEMMA HibernatorStoppedDoes ==
    ASSUME HibernatorStopped
    PROVE  /\ stopping /\ stopping' = FALSE /\ Stopped /\ mount' = mount
           /\ UNCHANGED <<finished, waking, hold, disk, step, broken, promises, crashes, spoiled>>
BY MountStays DEF HibernatorStopped

LEMMA DaemonDiesDoes ==
    ASSUME DaemonDies
    PROVE  /\ crashes' = 1 /\ waking' = "none" /\ stopping' = FALSE
           /\ hold' = Nobody /\ handles' = {} /\ stopped' = {} /\ spoiled' = {}
           /\ step' = [p \in Ops |-> IF step[p] \in Over THEN step[p] ELSE "dead"]
           /\ UNCHANGED <<box, mount, finished, disk, broken, before, existed, lost>>
BY DEF DaemonDies

\* What an online snapshot and a branch remember.
LEMMA RemembersStep ==
    ASSUME TypeInv, [Next]_vars
    PROVE  Remembers'
<1>0. finished \in Nat /\ Plain
  BY DEF TypeInv, Plain
<1>1. ASSUME NEW p \in Ops, GuardSaysIdle(p) PROVE Remembers'
  BY <1>1, GuardSaysIdleDoes, <1>0, Kinds DEF Turn, TypeInv, Stages, Remembers, Ops,
     Copiers, Pausing, Over, OnlineStages, database, promises
<1>2. ASSUME NEW p \in Ops, GuardRefuses(p) PROVE Remembers'
  BY <1>2, GuardRefusesDoes, DropsDoes, <1>0, Kinds DEF TypeInv, Stages, Remembers, Ops,
     Copiers, Pausing, Over, OnlineStages, database, promises
<1>3. ASSUME NEW p \in Ops, Quiesced(p) PROVE Remembers'
  BY <1>3, QuiescedDoes, DropsDoes, <1>0, Kinds DEF TypeInv, Stages, Remembers, Ops,
     Copiers, Pausing, Over, OnlineStages, database, promises
<1>4. ASSUME NEW p \in Ops, Resume(p) PROVE Remembers'
  BY <1>4, ResumeDoes, <1>0, Kinds DEF Turn, TypeInv, Stages, Remembers, Ops, Copiers,
     Pausing, Over, OnlineStages, database, promises
<1>5. ASSUME NEW p \in Ops, ResumeBoots(p) PROVE Remembers'
  BY <1>5, ResumeBootsDoes, <1>0, Kinds DEF Turn, TypeInv, Stages, Remembers, Ops, Copiers,
     Pausing, Over, OnlineStages, database, promises
<1>6. ASSUME NEW p \in Ops, Resumed(p) PROVE Remembers'
  BY <1>6, ResumedDoes, <1>0, Kinds, StartedMeans DEF TypeInv, Stages, Remembers, Ops,
     Copiers, Pausing, Over, OnlineStages, database, promises
<1>7. ASSUME NEW p \in Ops, CloneEnds(p) PROVE Remembers'
  BY <1>7, CloneEndsDoes, <1>0, Kinds DEF Turn, TypeInv, Stages, Remembers, Ops, Copiers,
     Pausing, Over, OnlineStages, database, promises
<1>8. ASSUME NEW p \in Ops, CloneFails(p) PROVE Remembers'
  BY <1>8, CloneFailsDoes, DropsDoes, <1>0, Kinds DEF TypeInv, Stages, Remembers, Ops,
     Copiers, Pausing, Over, OnlineStages, database, promises
<1>9. ASSUME NEW p \in Ops, OnlineCopies(p) PROVE Remembers'
  BY <1>9, OnlineCopiesDoes, DropsDoes, OpensDoes, <1>0, Kinds DEF TypeInv, Stages,
     Remembers, Ops, Copiers, Pausing, Over, OnlineStages, database, promises
<1>10. ASSUME NEW p \in Ops, OnlineStreamed(p) PROVE Remembers'
  BY <1>10, OnlineStreamedDoes, DropsDoes, <1>0, Kinds DEF TypeInv, Stages, Remembers, Ops,
     Copiers, Pausing, Over, OnlineStages, database, promises
<1>11. ASSUME NEW p \in Ops, OnlineFiles(p) PROVE Remembers'
  BY <1>11, OnlineFilesDoes, DropsDoes, <1>0, Kinds DEF TypeInv, Stages, Remembers, Ops,
     Copiers, Pausing, Over, OnlineStages, database, promises
<1>12. ASSUME NEW p \in Ops, OnlineCloses(p) PROVE Remembers'
  BY <1>12, OnlineClosesDoes, <1>0, Kinds DEF Turn, TypeInv, Stages, Remembers, Ops,
     Copiers, Pausing, Over, OnlineStages, database, promises
<1>13. ASSUME NEW p \in Ops, SnapshotCopies(p) PROVE Remembers'
  BY <1>13, SnapshotCopiesDoes, DropsDoes, OpensDoes, <1>0, Kinds DEF TypeInv, Stages,
     Remembers, Ops, Copiers, Pausing, Over, OnlineStages, database, promises
<1>14. ASSUME NEW p \in Ops, SnapshotFiles(p) PROVE Remembers'
  BY <1>14, SnapshotFilesDoes, <1>0, Kinds DEF Turn, TypeInv, Stages, Remembers, Ops,
     Copiers, Pausing, Over, OnlineStages, database, promises
<1>15. ASSUME NEW p \in Ops, RestoreClears(p) PROVE Remembers'
  BY <1>15, RestoreClearsDoes, <1>0, Kinds DEF Turn, TypeInv, Stages, Remembers, Ops,
     Copiers, Pausing, Over, OnlineStages, database, promises
<1>16. ASSUME NEW p \in Ops, RestoreCopies(p) PROVE Remembers'
  BY <1>16, RestoreCopiesDoes, DropsDoes, OpensDoes, <1>0, Kinds DEF TypeInv, Stages,
     Remembers, Ops, Copiers, Pausing, Over, OnlineStages, database, promises
<1>17. ASSUME NEW p \in Ops, RestoreHolds(p) PROVE Remembers'
  BY <1>17, RestoreHoldsDoes, DropsDoes, <1>0, Kinds DEF TypeInv, Stages, Remembers, Ops,
     Copiers, Pausing, Over, OnlineStages, database, promises
<1>18. ASSUME NEW p \in Ops, SetAside(p) PROVE Remembers'
  BY <1>18, SetAsideDoes, DropsDoes, <1>0, Kinds DEF TypeInv, Stages, Remembers, Ops,
     Copiers, Pausing, Over, OnlineStages, database, promises
<1>19. ASSUME NEW p \in Ops, Place(p) PROVE Remembers'
  BY <1>19, PlaceDoes, <1>0, Kinds DEF Turn, TypeInv, Stages, Remembers, Ops, Copiers,
     Pausing, Over, OnlineStages, database, promises
<1>20. ASSUME NEW p \in Ops, PlaceFails(p) PROVE Remembers'
  BY <1>20, PlaceFailsDoes, <1>0, Kinds DEF Turn, TypeInv, Stages, Remembers, Ops, Copiers,
     Pausing, Over, OnlineStages, database, promises
<1>21. ASSUME NEW p \in Ops, Clean(p) PROVE Remembers'
  BY <1>21, CleanDoes, <1>0, Kinds DEF Turn, TypeInv, Stages, Remembers, Ops, Copiers,
     Pausing, Over, OnlineStages, database, promises
<1>22. ASSUME NEW p \in Ops, RestsBefore(p) PROVE Remembers'
  BY <1>22, RestsBeforeDoes, DropsDoes, <1>0, Kinds DEF TypeInv, Stages, Remembers, Ops,
     Copiers, Pausing, Over, OnlineStages, database, promises
<1>23. ASSUME NEW p \in Ops, BranchCopies(p) PROVE Remembers'
  BY <1>23, BranchCopiesDoes, DropsDoes, OpensDoes, <1>0, Kinds DEF TypeInv, Stages,
     Remembers, Ops, Copiers, Pausing, Over, OnlineStages, database, promises
<1>24. ASSUME NEW p \in Ops, RestsAfter(p) PROVE Remembers'
  BY <1>24, RestsAfterDoes, DropsDoes, <1>0, Kinds DEF TypeInv, Stages, Remembers, Ops,
     Copiers, Pausing, Over, OnlineStages, database, promises
<1>25. ASSUME NEW p \in Ops, BranchCopied(p) PROVE Remembers'
  BY <1>25, BranchCopiedDoes, DropsDoes, <1>0, Kinds DEF TypeInv, Stages, Remembers, Ops,
     Copiers, Pausing, Over, OnlineStages, database, promises
<1>26. ASSUME NEW p \in Ops, BranchEnds(p) PROVE Remembers'
  BY <1>26, BranchEndsDoes, <1>0, Kinds DEF TypeInv, Stages, Remembers, Ops, Copiers,
     Pausing, Over, OnlineStages, database, promises
<1>27. ASSUME NEW p \in Ops, DeleteEnds(p) PROVE Remembers'
  BY <1>27, DeleteEndsDoes, <1>0, Kinds DEF Turn, TypeInv, Stages, Remembers, Ops, Copiers,
     Pausing, Over, OnlineStages, database, promises
<1>28. ASSUME NEW p \in Ops, Slept(p) PROVE Remembers'
  BY <1>28, SleptDoes, <1>0, Kinds DEF Turn, TypeInv, Stages, Remembers, Ops, Copiers,
     Pausing, Over, OnlineStages, database, promises
<1>29. ASSUME NEW p \in Ops, OnlineBegins(p) PROVE Remembers'
  BY <1>29, OnlineBeginsDoes, <1>0, Kinds DEF TypeInv, Stages, Remembers, Ops, Copiers,
     Pausing, Over, OnlineStages, database, promises
<1>30. ASSUME NEW p \in Ops, SnapshotBegins(p) PROVE Remembers'
  BY <1>30, SnapshotBeginsDoes, <1>0, Kinds DEF TypeInv, Stages, Remembers, Ops, Copiers,
     Pausing, Over, OnlineStages, database, promises
<1>31. ASSUME NEW p \in Ops, RestoreBegins(p) PROVE Remembers'
  BY <1>31, RestoreBeginsDoes, <1>0, Kinds DEF TypeInv, Stages, Remembers, Ops, Copiers,
     Pausing, Over, OnlineStages, database, promises
<1>32. ASSUME NEW p \in Ops, BranchBegins(p) PROVE Remembers'
  BY <1>32, BranchBeginsDoes, <1>0, Kinds DEF TypeInv, Stages, Remembers, Ops, Copiers,
     Pausing, Over, OnlineStages, database, promises
<1>33. ASSUME NEW p \in Ops, DeleteBegins(p) PROVE Remembers'
  BY <1>33, DeleteBeginsDoes, <1>0, Kinds DEF Turn, TypeInv, Stages, Remembers, Ops,
     Copiers, Pausing, Over, OnlineStages, database, promises
<1>34. ASSUME NEW p \in Ops, SleepBegins(p) PROVE Remembers'
  BY <1>34, SleepBeginsDoes, <1>0, Kinds DEF Turn, TypeInv, Stages, Remembers, Ops, Copiers,
     Pausing, Over, OnlineStages, database, promises
<1>35. ASSUME NEW p \in Ops, CloneBeginsAgain(p) PROVE Remembers'
  BY <1>35, CloneBeginsAgainDoes, <1>0, Kinds DEF TypeInv, Stages, Remembers, Ops, Copiers,
     Pausing, Over, OnlineStages, database, promises
<1>36. CASE WakeBegins
  BY <1>36, WakeBeginsDoes, <1>0, Kinds DEF TypeInv, Stages, Remembers, Ops, Copiers,
     Pausing, Over, OnlineStages, database, promises
<1>37. CASE WakeBoots
  BY <1>37, WakeBootsDoes, <1>0, Kinds DEF TypeInv, Stages, Remembers, Ops, Copiers,
     Pausing, Over, OnlineStages, database, promises
<1>38. CASE WakeEnds
  BY <1>38, WakeEndsDoes, <1>0, Kinds, StartedMeans DEF TypeInv, Stages, Remembers, Ops,
     Copiers, Pausing, Over, OnlineStages, database, promises
<1>39. CASE HibernatorStops
  BY <1>39, HibernatorStopsDoes, <1>0, Kinds DEF TypeInv, Stages, Remembers, Ops, Copiers,
     Pausing, Over, OnlineStages, database, promises
<1>40. CASE HibernatorStopped
  BY <1>40, HibernatorStoppedDoes, <1>0, Kinds DEF TypeInv, Stages, Remembers, Ops, Copiers,
     Pausing, Over, OnlineStages, database, promises
<1>41. CASE DaemonDies
  BY <1>41, DaemonDiesDoes, <1>0, Kinds DEF TypeInv, Stages, Remembers, Ops, Copiers,
     Pausing, Over, OnlineStages, database, promises
<1>42. CASE UNCHANGED vars
  BY <1>42, <1>0, Kinds DEF vars, database, promises, TypeInv, Stages, Remembers, Ops,
     Copiers, Pausing, Over, OnlineStages
<1>43. QED
  BY <1>1, <1>2, <1>3, <1>4, <1>5, <1>6, <1>7, <1>8, <1>9, <1>10, <1>11, <1>12, <1>13,
     <1>14, <1>15, <1>16, <1>17, <1>18, <1>19, <1>20, <1>21, <1>22, <1>23, <1>24, <1>25,
     <1>26, <1>27, <1>28, <1>29, <1>30, <1>31, <1>32, <1>33, <1>34, <1>35, <1>36, <1>37,
     <1>38, <1>39, <1>40, <1>41, <1>42 DEF Next, Begin, Proceed, Surroundings

\* An operation that failed goes on its way out.
LEMMA BreaksStep ==
    ASSUME TypeInv, [Next]_vars
    PROVE  Breaks'
<1>0. Breaks /\ Plain /\ broken \subseteq Ops /\ step \in [Ops -> Ats]
  BY DEF TypeInv, Plain, Stages, Ops
<1>1. ASSUME NEW p \in Ops, GuardSaysIdle(p) PROVE Breaks'
  BY <1>1, GuardSaysIdleDoes, <1>0 DEF Turn, Breaks, OnWayOut, database, promises
<1>2. ASSUME NEW p \in Ops, GuardRefuses(p) PROVE Breaks'
  BY <1>2, GuardRefusesDoes, DropsDoes, <1>0 DEF Breaks, OnWayOut, database, promises
<1>3. ASSUME NEW p \in Ops, Quiesced(p) PROVE Breaks'
  BY <1>3, QuiescedDoes, DropsDoes, <1>0 DEF Breaks, OnWayOut, database, promises
<1>4. ASSUME NEW p \in Ops, Resume(p) PROVE Breaks'
  BY <1>4, ResumeDoes, <1>0 DEF Turn, Breaks, OnWayOut, database, promises
<1>5. ASSUME NEW p \in Ops, ResumeBoots(p) PROVE Breaks'
  BY <1>5, ResumeBootsDoes, <1>0 DEF Turn, Breaks, OnWayOut, database, promises
<1>6. ASSUME NEW p \in Ops, Resumed(p) PROVE Breaks'
  BY <1>6, ResumedDoes, <1>0 DEF Breaks, OnWayOut, database, promises, Ended
<1>7. ASSUME NEW p \in Ops, CloneEnds(p) PROVE Breaks'
  BY <1>7, CloneEndsDoes, <1>0 DEF Turn, Breaks, OnWayOut, database, promises
<1>8. ASSUME NEW p \in Ops, CloneFails(p) PROVE Breaks'
  BY <1>8, CloneFailsDoes, DropsDoes, <1>0 DEF Breaks, OnWayOut, database, promises
<1>9. ASSUME NEW p \in Ops, OnlineCopies(p) PROVE Breaks'
  BY <1>9, OnlineCopiesDoes, DropsDoes, OpensDoes, <1>0 DEF Breaks, OnWayOut, database,
     promises
<1>10. ASSUME NEW p \in Ops, OnlineStreamed(p) PROVE Breaks'
  BY <1>10, OnlineStreamedDoes, DropsDoes, <1>0 DEF Breaks, OnWayOut, database, promises
<1>11. ASSUME NEW p \in Ops, OnlineFiles(p) PROVE Breaks'
  BY <1>11, OnlineFilesDoes, DropsDoes, <1>0 DEF Breaks, OnWayOut, database, promises
<1>12. ASSUME NEW p \in Ops, OnlineCloses(p) PROVE Breaks'
  BY <1>12, OnlineClosesDoes, <1>0 DEF Turn, Breaks, OnWayOut, database, promises
<1>13. ASSUME NEW p \in Ops, SnapshotCopies(p) PROVE Breaks'
  BY <1>13, SnapshotCopiesDoes, DropsDoes, OpensDoes, <1>0 DEF Breaks, OnWayOut, database,
     promises
<1>14. ASSUME NEW p \in Ops, SnapshotFiles(p) PROVE Breaks'
  BY <1>14, SnapshotFilesDoes, <1>0 DEF Turn, Breaks, OnWayOut, database, promises
<1>15. ASSUME NEW p \in Ops, RestoreClears(p) PROVE Breaks'
  BY <1>15, RestoreClearsDoes, <1>0 DEF Turn, Breaks, OnWayOut, database, promises
<1>16. ASSUME NEW p \in Ops, RestoreCopies(p) PROVE Breaks'
  BY <1>16, RestoreCopiesDoes, DropsDoes, OpensDoes, <1>0 DEF Breaks, OnWayOut, database,
     promises
<1>17. ASSUME NEW p \in Ops, RestoreHolds(p) PROVE Breaks'
  BY <1>17, RestoreHoldsDoes, DropsDoes, <1>0 DEF Breaks, OnWayOut, database, promises
<1>18. ASSUME NEW p \in Ops, SetAside(p) PROVE Breaks'
  BY <1>18, SetAsideDoes, DropsDoes, <1>0 DEF Breaks, OnWayOut, database, promises
<1>19. ASSUME NEW p \in Ops, Place(p) PROVE Breaks'
  BY <1>19, PlaceDoes, <1>0 DEF Turn, Breaks, OnWayOut, database, promises
<1>20. ASSUME NEW p \in Ops, PlaceFails(p) PROVE Breaks'
  BY <1>20, PlaceFailsDoes, <1>0 DEF Turn, Breaks, OnWayOut, database, promises
<1>21. ASSUME NEW p \in Ops, Clean(p) PROVE Breaks'
  BY <1>21, CleanDoes, <1>0 DEF Turn, Breaks, OnWayOut, database, promises
<1>22. ASSUME NEW p \in Ops, RestsBefore(p) PROVE Breaks'
  BY <1>22, RestsBeforeDoes, DropsDoes, <1>0 DEF Breaks, OnWayOut, database, promises
<1>23. ASSUME NEW p \in Ops, BranchCopies(p) PROVE Breaks'
  BY <1>23, BranchCopiesDoes, DropsDoes, OpensDoes, <1>0 DEF Breaks, OnWayOut, database,
     promises
<1>24. ASSUME NEW p \in Ops, RestsAfter(p) PROVE Breaks'
  BY <1>24, RestsAfterDoes, DropsDoes, <1>0 DEF Breaks, OnWayOut, database, promises
<1>25. ASSUME NEW p \in Ops, BranchCopied(p) PROVE Breaks'
  BY <1>25, BranchCopiedDoes, DropsDoes, <1>0 DEF Breaks, OnWayOut, database, promises
<1>26. ASSUME NEW p \in Ops, BranchEnds(p) PROVE Breaks'
  BY <1>26, BranchEndsDoes, <1>0 DEF Breaks, OnWayOut, database, promises
<1>27. ASSUME NEW p \in Ops, DeleteEnds(p) PROVE Breaks'
  BY <1>27, DeleteEndsDoes, <1>0 DEF Turn, Breaks, OnWayOut, database, promises
<1>28. ASSUME NEW p \in Ops, Slept(p) PROVE Breaks'
  BY <1>28, SleptDoes, <1>0 DEF Turn, Breaks, OnWayOut, database, promises
<1>29. ASSUME NEW p \in Ops, OnlineBegins(p) PROVE Breaks'
  BY <1>29, OnlineBeginsDoes, <1>0 DEF Breaks, OnWayOut, database, promises
<1>30. ASSUME NEW p \in Ops, SnapshotBegins(p) PROVE Breaks'
  BY <1>30, SnapshotBeginsDoes, <1>0 DEF Breaks, OnWayOut, database, promises
<1>31. ASSUME NEW p \in Ops, RestoreBegins(p) PROVE Breaks'
  BY <1>31, RestoreBeginsDoes, <1>0 DEF Breaks, OnWayOut, database, promises
<1>32. ASSUME NEW p \in Ops, BranchBegins(p) PROVE Breaks'
  BY <1>32, BranchBeginsDoes, <1>0 DEF Breaks, OnWayOut, database, promises
<1>33. ASSUME NEW p \in Ops, DeleteBegins(p) PROVE Breaks'
  BY <1>33, DeleteBeginsDoes, <1>0 DEF Turn, Breaks, OnWayOut, database, promises
<1>34. ASSUME NEW p \in Ops, SleepBegins(p) PROVE Breaks'
  BY <1>34, SleepBeginsDoes, <1>0 DEF Turn, Breaks, OnWayOut, database, promises
<1>35. ASSUME NEW p \in Ops, CloneBeginsAgain(p) PROVE Breaks'
  BY <1>35, CloneBeginsAgainDoes, <1>0 DEF Breaks, OnWayOut, database, promises
<1>36. CASE WakeBegins
  BY <1>36, WakeBeginsDoes, <1>0 DEF Breaks, OnWayOut, database, promises
<1>37. CASE WakeBoots
  BY <1>37, WakeBootsDoes, <1>0 DEF Breaks, OnWayOut, database, promises
<1>38. CASE WakeEnds
  BY <1>38, WakeEndsDoes, <1>0, Kinds DEF Breaks, OnWayOut, database, promises
<1>39. CASE HibernatorStops
  BY <1>39, HibernatorStopsDoes, <1>0 DEF Breaks, OnWayOut, database, promises
<1>40. CASE HibernatorStopped
  BY <1>40, HibernatorStoppedDoes, <1>0 DEF Breaks, OnWayOut, database, promises
<1>41. CASE DaemonDies
  BY <1>41, DaemonDiesDoes, <1>0 DEF Breaks, OnWayOut, database, promises, Over
<1>42. CASE UNCHANGED vars
  BY <1>42, <1>0 DEF vars, database, promises, Breaks, OnWayOut
<1>43. QED
  BY <1>1, <1>2, <1>3, <1>4, <1>5, <1>6, <1>7, <1>8, <1>9, <1>10, <1>11, <1>12, <1>13,
     <1>14, <1>15, <1>16, <1>17, <1>18, <1>19, <1>20, <1>21, <1>22, <1>23, <1>24, <1>25,
     <1>26, <1>27, <1>28, <1>29, <1>30, <1>31, <1>32, <1>33, <1>34, <1>35, <1>36, <1>37,
     <1>38, <1>39, <1>40, <1>41, <1>42 DEF Next, Begin, Proceed, Surroundings

LEMMA TypesStep ==
    ASSUME TypeInv, [Next]_vars
    PROVE  TypeInv'
BY PlainStep, StagesStep, DisksStep, RemembersStep, BreaksStep DEF TypeInv

LEMMA TypesImply ==
    ASSUME TypeInv
    PROVE  TypeOK
<1>1. mount \in Places
  BY Ways DEF TypeInv, Disks
<1>2. DOMAIN step = Ops /\ disk \in [Places -> Directories \cup {Absent}]
  BY DEF TypeInv, Stages, Disks
<1>3. QED
  BY <1>1, <1>2 DEF TypeInv, Plain, TypeOK

LEMMA TypesInit ==
    ASSUME Init
    PROVE  TypeInv
<1>1. Plain
  BY DEF Init, Plain
<1>2. Stages
  BY DEF Init, Stages, Ats, Over, Ops, Copiers
<1>3. Disks
  <2>1. disk \in [Places -> Directories \cup {Absent}]
    BY Apart DEF Init, Places, Directories, Live, Snap, Staging, Aside, Made
  <2>2. Labels
    <3>1. ASSUME NEW s \in Snapshots
          PROVE  disk[Snap(s)].data = s /\ disk[Staging(s)] = Absent
      <4>1. Snap(s) \in Places /\ Staging(s) \in Places /\ Snap(s) # Live /\ Staging(s) # Live
        BY Ways, Apart
      <4>2. Snap(s)[1] = "snapshot" /\ Snap(s)[2] = s /\ Staging(s)[1] = "restoring"
        BY DEF Snap, Staging
      <4>3. disk[Snap(s)] = [data |-> s, whole |-> TRUE] /\ disk[Staging(s)] = Absent
        BY <4>1, <4>2 DEF Init
      <4>4. QED
        BY <4>3
    <3>2. QED
      BY <3>1 DEF Labels
  <2>3. QED
    BY <2>1, <2>2 DEF Init, Disks, Asides
<1>4. Remembers
  <2>1. /\ before = [p \in Onlines \cup Branches |-> [state |-> "none", mark |-> 0]]
        /\ step = [p \in Ops |-> "idle"] /\ finished = 0 /\ Onlines \subseteq Ops
    BY DEF Init, Ops, Copiers
  <2>2. QED
    BY <2>1 DEF Remembers
<1>5. Breaks
  BY DEF Init, Breaks
<1>6. QED
  BY <1>1, <1>2, <1>3, <1>4, <1>5 DEF TypeInv

\* Every variable keeps its type, whatever is asked for together.
THEOREM StorageTypeCorrect == Spec => []TypeOK
<1>1. Init => TypeInv
  BY TypesInit
<1>2. TypeInv /\ [Next]_vars => TypeInv'
  BY TypesStep
<1>3. TypeInv => TypeOK
  BY TypesImply
<1>4. QED
  BY <1>1, <1>2, <1>3, PTL DEF Spec

\* The project is held by whoever does what wants the hold.
LEMMA HoldersStep ==
    ASSUME TypeInv, Holders, [Next]_vars
    PROVE  Holders'
<1>0. Holders /\ Plain /\ step \in [Ops -> Ats] /\ stopped \subseteq Ops
      /\ hold \in Onlines \cup Offlines \cup Restores \cup {Nobody}
  BY DEF TypeInv, Plain, Stages, Ops
<1>1. ASSUME NEW p \in Ops, GuardSaysIdle(p) PROVE Holders'
  BY <1>1, GuardSaysIdleDoes, <1>0, Kinds DEF Turn, Holders, HeldStages, Over, Ops, Copiers,
     Pausing, database, promises
<1>2. ASSUME NEW p \in Ops, GuardRefuses(p) PROVE Holders'
  BY <1>2, GuardRefusesDoes, DropsDoes, <1>0, Kinds DEF Holders, HeldStages, Over, Ops,
     Copiers, Pausing, database, promises
<1>3. ASSUME NEW p \in Ops, Quiesced(p) PROVE Holders'
  BY <1>3, QuiescedDoes, DropsDoes, <1>0, Kinds DEF Holders, HeldStages, Over, Ops, Copiers,
     Pausing, database, promises, AfterQuiesce
<1>4. ASSUME NEW p \in Ops, Resume(p) PROVE Holders'
  BY <1>4, ResumeDoes, <1>0, Kinds DEF Turn, Holders, HeldStages, Over, Ops, Copiers,
     Pausing, database, promises
<1>5. ASSUME NEW p \in Ops, ResumeBoots(p) PROVE Holders'
  BY <1>5, ResumeBootsDoes, <1>0, Kinds DEF Turn, Holders, HeldStages, Over, Ops, Copiers,
     Pausing, database, promises
<1>6. ASSUME NEW p \in Ops, Resumed(p) PROVE Holders'
  BY <1>6, ResumedDoes, <1>0, Kinds DEF Holders, HeldStages, Over, Ops, Copiers, Pausing,
     database, promises, Ended
<1>7. ASSUME NEW p \in Ops, CloneEnds(p) PROVE Holders'
  BY <1>7, CloneEndsDoes, <1>0, Kinds DEF Turn, Holders, HeldStages, Over, Ops, Copiers,
     Pausing, database, promises, Copied
<1>8. ASSUME NEW p \in Ops, CloneFails(p) PROVE Holders'
  BY <1>8, CloneFailsDoes, DropsDoes, <1>0, Kinds DEF Holders, HeldStages, Over, Ops,
     Copiers, Pausing, database, promises
<1>9. ASSUME NEW p \in Ops, OnlineCopies(p) PROVE Holders'
  BY <1>9, OnlineCopiesDoes, DropsDoes, OpensDoes, <1>0, Kinds DEF Holders, HeldStages,
     Over, Ops, Copiers, Pausing, database, promises
<1>10. ASSUME NEW p \in Ops, OnlineStreamed(p) PROVE Holders'
  BY <1>10, OnlineStreamedDoes, DropsDoes, <1>0, Kinds DEF Holders, HeldStages, Over, Ops,
     Copiers, Pausing, database, promises
<1>11. ASSUME NEW p \in Ops, OnlineFiles(p) PROVE Holders'
  BY <1>11, OnlineFilesDoes, DropsDoes, <1>0, Kinds DEF Holders, HeldStages, Over, Ops,
     Copiers, Pausing, database, promises
<1>12. ASSUME NEW p \in Ops, OnlineCloses(p) PROVE Holders'
  BY <1>12, OnlineClosesDoes, <1>0, Kinds DEF Turn, Holders, HeldStages, Over, Ops, Copiers,
     Pausing, database, promises
<1>13. ASSUME NEW p \in Ops, SnapshotCopies(p) PROVE Holders'
  BY <1>13, SnapshotCopiesDoes, DropsDoes, OpensDoes, <1>0, Kinds DEF Holders, HeldStages,
     Over, Ops, Copiers, Pausing, database, promises
<1>14. ASSUME NEW p \in Ops, SnapshotFiles(p) PROVE Holders'
  BY <1>14, SnapshotFilesDoes, <1>0, Kinds DEF Turn, Holders, HeldStages, Over, Ops,
     Copiers, Pausing, database, promises
<1>15. ASSUME NEW p \in Ops, RestoreClears(p) PROVE Holders'
  BY <1>15, RestoreClearsDoes, <1>0, Kinds DEF Turn, Holders, HeldStages, Over, Ops,
     Copiers, Pausing, database, promises
<1>16. ASSUME NEW p \in Ops, RestoreCopies(p) PROVE Holders'
  BY <1>16, RestoreCopiesDoes, DropsDoes, OpensDoes, <1>0, Kinds DEF Holders, HeldStages,
     Over, Ops, Copiers, Pausing, database, promises
<1>17. ASSUME NEW p \in Ops, RestoreHolds(p) PROVE Holders'
  BY <1>17, RestoreHoldsDoes, DropsDoes, <1>0, Kinds DEF Holders, HeldStages, Over, Ops,
     Copiers, Pausing, database, promises, AfterQuiesce
<1>18. ASSUME NEW p \in Ops, SetAside(p) PROVE Holders'
  BY <1>18, SetAsideDoes, DropsDoes, <1>0, Kinds DEF Holders, HeldStages, Over, Ops,
     Copiers, Pausing, database, promises
<1>19. ASSUME NEW p \in Ops, Place(p) PROVE Holders'
  BY <1>19, PlaceDoes, <1>0, Kinds DEF Turn, Holders, HeldStages, Over, Ops, Copiers,
     Pausing, database, promises
<1>20. ASSUME NEW p \in Ops, PlaceFails(p) PROVE Holders'
  BY <1>20, PlaceFailsDoes, <1>0, Kinds DEF Turn, Holders, HeldStages, Over, Ops, Copiers,
     Pausing, database, promises
<1>21. ASSUME NEW p \in Ops, Clean(p) PROVE Holders'
  BY <1>21, CleanDoes, <1>0, Kinds DEF Turn, Holders, HeldStages, Over, Ops, Copiers,
     Pausing, database, promises
<1>22. ASSUME NEW p \in Ops, RestsBefore(p) PROVE Holders'
  BY <1>22, RestsBeforeDoes, DropsDoes, <1>0, Kinds DEF Holders, HeldStages, Over, Ops,
     Copiers, Pausing, database, promises
<1>23. ASSUME NEW p \in Ops, BranchCopies(p) PROVE Holders'
  BY <1>23, BranchCopiesDoes, DropsDoes, OpensDoes, <1>0, Kinds DEF Holders, HeldStages,
     Over, Ops, Copiers, Pausing, database, promises
<1>24. ASSUME NEW p \in Ops, RestsAfter(p) PROVE Holders'
  BY <1>24, RestsAfterDoes, DropsDoes, <1>0, Kinds DEF Holders, HeldStages, Over, Ops,
     Copiers, Pausing, database, promises
<1>25. ASSUME NEW p \in Ops, BranchCopied(p) PROVE Holders'
  BY <1>25, BranchCopiedDoes, DropsDoes, <1>0, Kinds DEF Holders, HeldStages, Over, Ops,
     Copiers, Pausing, database, promises
<1>26. ASSUME NEW p \in Ops, BranchEnds(p) PROVE Holders'
  BY <1>26, BranchEndsDoes, <1>0, Kinds DEF Holders, HeldStages, Over, Ops, Copiers,
     Pausing, database, promises
<1>27. ASSUME NEW p \in Ops, DeleteEnds(p) PROVE Holders'
  BY <1>27, DeleteEndsDoes, <1>0, Kinds DEF Turn, Holders, HeldStages, Over, Ops, Copiers,
     Pausing, database, promises
<1>28. ASSUME NEW p \in Ops, Slept(p) PROVE Holders'
  BY <1>28, SleptDoes, <1>0, Kinds DEF Turn, Holders, HeldStages, Over, Ops, Copiers,
     Pausing, database, promises
<1>29. ASSUME NEW p \in Ops, OnlineBegins(p) PROVE Holders'
  BY <1>29, OnlineBeginsDoes, <1>0, Kinds DEF Holders, HeldStages, Over, Ops, Copiers,
     Pausing, database, promises
<1>30. ASSUME NEW p \in Ops, SnapshotBegins(p) PROVE Holders'
  BY <1>30, SnapshotBeginsDoes, <1>0, Kinds DEF Holders, HeldStages, Over, Ops, Copiers,
     Pausing, database, promises, AfterQuiesce
<1>31. ASSUME NEW p \in Ops, RestoreBegins(p) PROVE Holders'
  BY <1>31, RestoreBeginsDoes, <1>0, Kinds DEF Holders, HeldStages, Over, Ops, Copiers,
     Pausing, database, promises
<1>32. ASSUME NEW p \in Ops, BranchBegins(p) PROVE Holders'
  BY <1>32, BranchBeginsDoes, <1>0, Kinds DEF Holders, HeldStages, Over, Ops, Copiers,
     Pausing, database, promises, AfterQuiesce
<1>33. ASSUME NEW p \in Ops, DeleteBegins(p) PROVE Holders'
  BY <1>33, DeleteBeginsDoes, <1>0, Kinds DEF Turn, Holders, HeldStages, Over, Ops, Copiers,
     Pausing, database, promises
<1>34. ASSUME NEW p \in Ops, SleepBegins(p) PROVE Holders'
  BY <1>34, SleepBeginsDoes, <1>0, Kinds DEF Turn, Holders, HeldStages, Over, Ops, Copiers,
     Pausing, database, promises
<1>35. ASSUME NEW p \in Ops, CloneBeginsAgain(p) PROVE Holders'
  BY <1>35, CloneBeginsAgainDoes, <1>0, Kinds DEF Holders, HeldStages, Over, Ops, Copiers,
     Pausing, database, promises
<1>36. CASE WakeBegins
  BY <1>36, WakeBeginsDoes, <1>0, Kinds DEF Holders, HeldStages, Over, Ops, Copiers,
     Pausing, database, promises
<1>37. CASE WakeBoots
  BY <1>37, WakeBootsDoes, <1>0, Kinds DEF Holders, HeldStages, Over, Ops, Copiers, Pausing,
     database, promises
<1>38. CASE WakeEnds
  BY <1>38, WakeEndsDoes, <1>0, Kinds DEF Holders, HeldStages, Over, Ops, Copiers, Pausing,
     database, promises
<1>39. CASE HibernatorStops
  BY <1>39, HibernatorStopsDoes, <1>0, Kinds DEF Holders, HeldStages, Over, Ops, Copiers,
     Pausing, database, promises
<1>40. CASE HibernatorStopped
  BY <1>40, HibernatorStoppedDoes, <1>0, Kinds DEF Holders, HeldStages, Over, Ops, Copiers,
     Pausing, database, promises
<1>41. CASE DaemonDies
  BY <1>41, DaemonDiesDoes, <1>0, Kinds DEF Holders, HeldStages, Over, Ops, Copiers,
     Pausing, database, promises
<1>42. CASE UNCHANGED vars
  BY <1>42, <1>0, Kinds DEF vars, database, promises, Holders, HeldStages, Over, Ops,
     Copiers, Pausing
<1>43. QED
  BY <1>1, <1>2, <1>3, <1>4, <1>5, <1>6, <1>7, <1>8, <1>9, <1>10, <1>11, <1>12, <1>13,
     <1>14, <1>15, <1>16, <1>17, <1>18, <1>19, <1>20, <1>21, <1>22, <1>23, <1>24, <1>25,
     <1>26, <1>27, <1>28, <1>29, <1>30, <1>31, <1>32, <1>33, <1>34, <1>35, <1>36, <1>37,
     <1>38, <1>39, <1>40, <1>41, <1>42 DEF Next, Begin, Proceed, Surroundings

-----------------------------------------------------------------------------
(* What is written is kept.                                                *)

\* Only a start and a restore that swaps touch the live directory and those set aside.
AsidesStay == \A place \in Asides : disk'[place] = disk[place]

LEMMA Elsewhere ==
    ASSUME TypeInv, NEW place \in Places \ Asides, NEW v, disk' = [disk EXCEPT ![place] = v]
    PROVE  AsidesStay
BY Ways DEF AsidesStay, TypeInv, Disks

\* The destination of a copy, and a snapshot, is elsewhere.
LEMMA Outside ==
    /\ \A p \in Copiers : To(p) \in Places \ Asides
    /\ \A s \in Snapshots : Snap(s) \in Places \ Asides
<1>1. ASSUME NEW p \in Copiers PROVE To(p) \in Places \ Asides
  BY Ways, Apart DEF Asides
<1>2. ASSUME NEW s \in Snapshots PROVE Snap(s) \in Places \ Asides
  BY Ways, Apart DEF Asides
<1>3. QED
  BY <1>1, <1>2

LEMMA AsidesAre ==
    ASSUME TypeInv, NEW p \in Ops, Touches(p)
    PROVE  AsidesStay \/ ResumeBoots(p) \/ SetAside(p) \/ Place(p) \/ PlaceFails(p) \/ Clean(p)
<1>1. CASE disk' = disk
  BY <1>1 DEF AsidesStay
<1>2. ASSUME p \in Copiers, NEW v, disk' = [disk EXCEPT ![To(p)] = v] PROVE AsidesStay
  BY <1>2, Outside, Elsewhere
<1>3. ASSUME p \in Deletes, NEW v, disk' = [disk EXCEPT ![Snap(Of[p])] = v] PROVE AsidesStay
  <2>1. Of[p] \in Snapshots
    BY <1>3, StorageNumbers
  <2>2. QED
    BY <1>3, <2>1, Outside, Elsewhere
<1>4. CASE Drops(p)
  BY <1>1, <1>2, <1>4, DropsDoes DEF Removed
<1>5. CASE Opens(p)
  BY <1>2, <1>5, OpensDoes
<1>6. CASE CloneEnds(p)
  BY <1>1, <1>2, <1>6, CloneEndsDoes
<1>7. CASE CloneBeginsAgain(p)
  BY <1>2, <1>7, CloneBeginsAgainDoes
<1>8. CASE OnlineStreamed(p)
  <2>1. p \in Copiers
    BY <1>8, OnlineStreamedDoes DEF Copiers
  <2>2. QED
    BY <1>2, <1>4, <1>8, <2>1, OnlineStreamedDoes
<1>9. CASE RestoreClears(p)
  BY <1>2, <1>9, RestoreClearsDoes DEF Removed, Copiers
<1>10. CASE BranchEnds(p)
  BY <1>1, <1>2, <1>10, BranchEndsDoes DEF Removed, Copiers
<1>11. CASE DeleteBegins(p) \/ DeleteEnds(p)
  BY <1>3, <1>11, DeleteBeginsDoes, DeleteEndsDoes
<1>12. QED
  BY <1>1, <1>4, <1>5, <1>6, <1>7, <1>8, <1>9, <1>10, <1>11 DEF Touches, Leaves


\* A restore that went well stays done.
LEMMA DoneStays ==
    ASSUME TypeInv, NEW q \in Restores, Kept(q), q \in existed \ lost, [Next]_vars
    PROVE  Kept(q)' /\ (q \in existed \ lost)'
<1>0. Plain /\ step[q] = "done" /\ q \in existed /\ q \notin lost /\ step \in [Ops -> Ats] /\ q \in Ops
  BY DEF Kept, TypeInv, Stages, Ops, Copiers
<1>1. ASSUME NEW p \in Ops, GuardSaysIdle(p) PROVE Kept(q)' /\ (q \in existed \ lost)'
  BY <1>1, GuardSaysIdleDoes, <1>0, Kinds DEF Turn, Kept, database, promises
<1>2. ASSUME NEW p \in Ops, GuardRefuses(p) PROVE Kept(q)' /\ (q \in existed \ lost)'
  BY <1>2, GuardRefusesDoes, DropsDoes, <1>0, Kinds DEF Kept, database, promises
<1>3. ASSUME NEW p \in Ops, Quiesced(p) PROVE Kept(q)' /\ (q \in existed \ lost)'
  BY <1>3, QuiescedDoes, DropsDoes, <1>0, Kinds DEF Kept, database, promises
<1>4. ASSUME NEW p \in Ops, Resume(p) PROVE Kept(q)' /\ (q \in existed \ lost)'
  BY <1>4, ResumeDoes, <1>0, Kinds DEF Turn, Kept, database, promises
<1>5. ASSUME NEW p \in Ops, ResumeBoots(p) PROVE Kept(q)' /\ (q \in existed \ lost)'
  BY <1>5, ResumeBootsDoes, <1>0, Kinds DEF Turn, Kept, database, promises
<1>6. ASSUME NEW p \in Ops, Resumed(p) PROVE Kept(q)' /\ (q \in existed \ lost)'
  BY <1>6, ResumedDoes, <1>0, Kinds DEF Kept, database, promises
<1>7. ASSUME NEW p \in Ops, CloneEnds(p) PROVE Kept(q)' /\ (q \in existed \ lost)'
  BY <1>7, CloneEndsDoes, <1>0, Kinds DEF Turn, Kept, database, promises
<1>8. ASSUME NEW p \in Ops, CloneFails(p) PROVE Kept(q)' /\ (q \in existed \ lost)'
  BY <1>8, CloneFailsDoes, DropsDoes, <1>0, Kinds DEF Kept, database, promises
<1>9. ASSUME NEW p \in Ops, OnlineCopies(p) PROVE Kept(q)' /\ (q \in existed \ lost)'
  BY <1>9, OnlineCopiesDoes, DropsDoes, OpensDoes, <1>0, Kinds DEF Kept, database, promises
<1>10. ASSUME NEW p \in Ops, OnlineStreamed(p) PROVE Kept(q)' /\ (q \in existed \ lost)'
  BY <1>10, OnlineStreamedDoes, DropsDoes, <1>0, Kinds DEF Kept, database, promises
<1>11. ASSUME NEW p \in Ops, OnlineFiles(p) PROVE Kept(q)' /\ (q \in existed \ lost)'
  BY <1>11, OnlineFilesDoes, DropsDoes, <1>0, Kinds DEF Kept, database, promises
<1>12. ASSUME NEW p \in Ops, OnlineCloses(p) PROVE Kept(q)' /\ (q \in existed \ lost)'
  BY <1>12, OnlineClosesDoes, <1>0, Kinds DEF Turn, Kept, database, promises
<1>13. ASSUME NEW p \in Ops, SnapshotCopies(p) PROVE Kept(q)' /\ (q \in existed \ lost)'
  BY <1>13, SnapshotCopiesDoes, DropsDoes, OpensDoes, <1>0, Kinds DEF Kept, database,
     promises
<1>14. ASSUME NEW p \in Ops, SnapshotFiles(p) PROVE Kept(q)' /\ (q \in existed \ lost)'
  BY <1>14, SnapshotFilesDoes, <1>0, Kinds DEF Turn, Kept, database, promises
<1>15. ASSUME NEW p \in Ops, RestoreClears(p) PROVE Kept(q)' /\ (q \in existed \ lost)'
  BY <1>15, RestoreClearsDoes, <1>0, Kinds DEF Turn, Kept, database, promises
<1>16. ASSUME NEW p \in Ops, RestoreCopies(p) PROVE Kept(q)' /\ (q \in existed \ lost)'
  BY <1>16, RestoreCopiesDoes, DropsDoes, OpensDoes, <1>0, Kinds DEF Kept, database,
     promises
<1>17. ASSUME NEW p \in Ops, RestoreHolds(p) PROVE Kept(q)' /\ (q \in existed \ lost)'
  BY <1>17, RestoreHoldsDoes, DropsDoes, <1>0, Kinds DEF Kept, database, promises
<1>18. ASSUME NEW p \in Ops, SetAside(p) PROVE Kept(q)' /\ (q \in existed \ lost)'
  BY <1>18, SetAsideDoes, DropsDoes, <1>0, Kinds DEF Kept, database, promises
<1>19. ASSUME NEW p \in Ops, Place(p) PROVE Kept(q)' /\ (q \in existed \ lost)'
  BY <1>19, PlaceDoes, <1>0, Kinds DEF Turn, Kept, database, promises
<1>20. ASSUME NEW p \in Ops, PlaceFails(p) PROVE Kept(q)' /\ (q \in existed \ lost)'
  BY <1>20, PlaceFailsDoes, <1>0, Kinds DEF Turn, Kept, database, promises
<1>21. ASSUME NEW p \in Ops, Clean(p) PROVE Kept(q)' /\ (q \in existed \ lost)'
  BY <1>21, CleanDoes, <1>0, Kinds DEF Turn, Kept, database, promises
<1>22. ASSUME NEW p \in Ops, RestsBefore(p) PROVE Kept(q)' /\ (q \in existed \ lost)'
  BY <1>22, RestsBeforeDoes, DropsDoes, <1>0, Kinds DEF Kept, database, promises
<1>23. ASSUME NEW p \in Ops, BranchCopies(p) PROVE Kept(q)' /\ (q \in existed \ lost)'
  BY <1>23, BranchCopiesDoes, DropsDoes, OpensDoes, <1>0, Kinds DEF Kept, database, promises
<1>24. ASSUME NEW p \in Ops, RestsAfter(p) PROVE Kept(q)' /\ (q \in existed \ lost)'
  BY <1>24, RestsAfterDoes, DropsDoes, <1>0, Kinds DEF Kept, database, promises
<1>25. ASSUME NEW p \in Ops, BranchCopied(p) PROVE Kept(q)' /\ (q \in existed \ lost)'
  BY <1>25, BranchCopiedDoes, DropsDoes, <1>0, Kinds DEF Kept, database, promises
<1>26. ASSUME NEW p \in Ops, BranchEnds(p) PROVE Kept(q)' /\ (q \in existed \ lost)'
  BY <1>26, BranchEndsDoes, <1>0, Kinds DEF Kept, database, promises
<1>27. ASSUME NEW p \in Ops, DeleteEnds(p) PROVE Kept(q)' /\ (q \in existed \ lost)'
  BY <1>27, DeleteEndsDoes, <1>0, Kinds DEF Turn, Kept, database, promises
<1>28. ASSUME NEW p \in Ops, Slept(p) PROVE Kept(q)' /\ (q \in existed \ lost)'
  BY <1>28, SleptDoes, <1>0, Kinds DEF Turn, Kept, database, promises
<1>29. ASSUME NEW p \in Ops, OnlineBegins(p) PROVE Kept(q)' /\ (q \in existed \ lost)'
  BY <1>29, OnlineBeginsDoes, <1>0, Kinds DEF Kept, database, promises
<1>30. ASSUME NEW p \in Ops, SnapshotBegins(p) PROVE Kept(q)' /\ (q \in existed \ lost)'
  BY <1>30, SnapshotBeginsDoes, <1>0, Kinds DEF Kept, database, promises
<1>31. ASSUME NEW p \in Ops, RestoreBegins(p) PROVE Kept(q)' /\ (q \in existed \ lost)'
  BY <1>31, RestoreBeginsDoes, <1>0, Kinds DEF Kept, database, promises
<1>32. ASSUME NEW p \in Ops, BranchBegins(p) PROVE Kept(q)' /\ (q \in existed \ lost)'
  BY <1>32, BranchBeginsDoes, <1>0, Kinds DEF Kept, database, promises
<1>33. ASSUME NEW p \in Ops, DeleteBegins(p) PROVE Kept(q)' /\ (q \in existed \ lost)'
  BY <1>33, DeleteBeginsDoes, <1>0, Kinds DEF Turn, Kept, database, promises
<1>34. ASSUME NEW p \in Ops, SleepBegins(p) PROVE Kept(q)' /\ (q \in existed \ lost)'
  BY <1>34, SleepBeginsDoes, <1>0, Kinds DEF Turn, Kept, database, promises
<1>35. ASSUME NEW p \in Ops, CloneBeginsAgain(p) PROVE Kept(q)' /\ (q \in existed \ lost)'
  BY <1>35, CloneBeginsAgainDoes, <1>0, Kinds DEF Kept, database, promises
<1>36. CASE WakeBegins
  BY <1>36, WakeBeginsDoes, <1>0, Kinds DEF Kept, database, promises
<1>37. CASE WakeBoots
  BY <1>37, WakeBootsDoes, <1>0, Kinds DEF Kept, database, promises
<1>38. CASE WakeEnds
  BY <1>38, WakeEndsDoes, <1>0, Kinds DEF Kept, database, promises
<1>39. CASE HibernatorStops
  BY <1>39, HibernatorStopsDoes, <1>0, Kinds DEF Kept, database, promises
<1>40. CASE HibernatorStopped
  BY <1>40, HibernatorStoppedDoes, <1>0, Kinds DEF Kept, database, promises
<1>41. CASE DaemonDies
  BY <1>41, DaemonDiesDoes, <1>0, Kinds DEF Kept, database, promises, Over
<1>42. CASE UNCHANGED vars
  BY <1>42, <1>0, Kinds DEF vars, database, promises, Kept
<1>43. QED
  BY <1>1, <1>2, <1>3, <1>4, <1>5, <1>6, <1>7, <1>8, <1>9, <1>10, <1>11, <1>12, <1>13,
     <1>14, <1>15, <1>16, <1>17, <1>18, <1>19, <1>20, <1>21, <1>22, <1>23, <1>24, <1>25,
     <1>26, <1>27, <1>28, <1>29, <1>30, <1>31, <1>32, <1>33, <1>34, <1>35, <1>36, <1>37,
     <1>38, <1>39, <1>40, <1>41, <1>42 DEF Next, Begin, Proceed, Surroundings

Written(place) == disk[place] # Absent /\ disk[place].data = "written" /\ disk[place].whole

LEMMA WrittenStep ==
    ASSUME TypeInv, WrittenIsKept, [Next]_vars
    PROVE  WrittenIsKept'
<1> DEFINE Here == \E place \in Asides : Written(place)
           Done == \E q \in Restores : Kept(q) /\ q \in existed \ lost
<1>0. disk \in [Places -> Directories \cup {Absent}] /\ mount \in Asides
  BY DEF TypeInv, Disks
<1>1. WrittenIsKept <=> Here \/ Done
  BY DEF WrittenIsKept, Asides, Written
<1>2. Here' \/ Done' => WrittenIsKept'
  BY DEF WrittenIsKept, Asides, Written
<1>3. ASSUME Done PROVE Done'
  <2>1. PICK q \in Restores : Kept(q) /\ q \in existed \ lost
    BY <1>3
  <2>2. Kept(q)' /\ (q \in existed \ lost)'
    BY <2>1, DoneStays
  <2>3. QED
    BY <2>2
<1>4. ASSUME NEW place \in Asides, Written(place), disk'[place] = disk[place] PROVE Here'
  BY <1>4 DEF Written
<1>5. ASSUME NEW place \in Asides, Written(place), Boot PROVE Here'
  <2>1. disk'[place] = disk[place]
    BY <1>5, <1>0, Ways, BootDoes DEF TypeInv, Written
  <2>2. QED
    BY <1>4, <1>5, <2>1
<1>6. ASSUME NEW place \in Asides, Written(place), NEW p \in Ops, Begin(p) \/ Proceed(p) \/ CloneBeginsAgain(p)
      PROVE  Here' \/ Done'
  <2>1. CASE AsidesStay
    BY <1>4, <1>6, <2>1 DEF AsidesStay
  <2>2. CASE ResumeBoots(p)
    BY <1>5, <1>6, <2>2, ResumeBootsDoes
  <2>3. CASE SetAside(p)
    <3>1. p \in Restores /\ Of[p] \in Snapshots /\ Aside(Of[p]) \in Asides /\ Live \in Asides
      BY <2>3, SetAsideDoes, Ways DEF Asides
    <3>2. CASE Drops(p)
      <4>1. AsidesStay
        BY <3>2, DropsDoes, Outside, Elsewhere DEF Removed, AsidesStay
      <4>2. QED
        BY <2>1, <4>1
    <3>3. CASE disk' = disk
      BY <1>4, <1>6, <3>3
    <3>4. CASE /\ disk[Aside(Of[p])] = Absent
               /\ disk' = [disk EXCEPT ![Aside(Of[p])] = disk[Live], ![Live] = Absent]
      <4>1. Aside(Of[p]) # Live /\ Aside(Of[p]) \in Places /\ Live \in Places
        BY <3>1, Apart, Ways
      <4>2. CASE place = Live
        <5>1. disk'[Aside(Of[p])] = disk[place]
          BY <1>0, <3>4, <4>1, <4>2
        <5>2. QED
          BY <1>6, <3>1, <5>1 DEF Written
      <4>3. CASE place # Live
        <5>1. disk'[place] = disk[place]
          BY <1>0, <1>6, <3>4, <4>1, <4>3, Ways DEF Written
        <5>2. QED
          BY <1>4, <1>6, <5>1
      <4>4. QED
        BY <4>2, <4>3
    <3>5. QED
      BY <2>3, <3>2, <3>3, <3>4, SetAsideDoes
  <2>4. CASE Place(p)
    <3>1. disk'[place] = disk[place]
      BY <1>0, <1>6, <2>4, PlaceDoes, Ways, Outside DEF Written, Copiers
    <3>2. QED
      BY <1>4, <1>6, <3>1
  <2>5. CASE PlaceFails(p)
    <3>1. p \in Restores /\ p \in Copiers /\ To(p) \in Places \ Asides /\ Live \in Asides
          /\ Aside(Of[p]) \in Asides /\ Aside(Of[p]) # Live
      BY <2>5, PlaceFailsDoes, Outside, Ways, Apart DEF Copiers, Asides
    <3>2. CASE disk' = Removed(p)
      <4>1. AsidesStay
        BY <3>1, <3>2, Elsewhere DEF Removed
      <4>2. QED
        BY <2>1, <4>1
    <3>3. CASE disk[Live] = Absent /\ disk' = Undone(p)
      <4>1. disk'[Live] = disk[Aside(Of[p])]
        BY <1>0, <3>1, <3>3, Ways DEF Undone
      <4>2. CASE place = Aside(Of[p])
        BY <1>6, <3>1, <4>1, <4>2 DEF Written
      <4>3. CASE place # Aside(Of[p])
        <5>1. disk'[place] = disk[place]
          BY <1>0, <1>6, <3>1, <3>3, <4>3, Ways DEF Undone, Written
        <5>2. QED
          BY <1>4, <1>6, <5>1
      <4>4. QED
        BY <4>2, <4>3
    <3>4. QED
      BY <2>5, <3>2, <3>3, PlaceFailsDoes
  <2>6. CASE Clean(p)
    <3>1. CASE disk' = disk
      BY <1>4, <1>6, <3>1
    <3>2. CASE p \in existed /\ p \notin lost
      <4>1. p \in Restores /\ step' = [step EXCEPT ![p] = "done"] /\ existed' = existed /\ lost' = lost
        BY <2>6, CleanDoes DEF Turn, promises
      <4>2. Kept(p)'
        BY <4>1 DEF Kept, TypeInv, Stages
      <4>3. QED
        BY <3>2, <4>1, <4>2
    <3>3. QED
      BY <2>6, <3>1, <3>2, CleanDoes
  <2>7. QED
    BY <1>6, <2>1, <2>2, <2>3, <2>4, <2>5, <2>6, DiskEffects, AsidesAre
<1>7. ASSUME NEW place \in Asides, Written(place), Surroundings PROVE Here'
  BY <1>4, <1>5, <1>7, SurroundingsTouch DEF WakeBoots
<1>8. ASSUME NEW place \in Asides, Written(place), UNCHANGED vars PROVE Here'
  BY <1>4, <1>8 DEF vars
<1>9. QED
  BY <1>1, <1>2, <1>3, <1>6, <1>7, <1>8 DEF Next

-----------------------------------------------------------------------------
(* What fails leaves nothing behind.                                       *)

Moved == \E p \in Ops, to \in Ats \ {"idle"} :
             step[p] \notin {"done", "failed", "dead"} /\ step' = [step EXCEPT ![p] = to]

\* A step moves one operation, which was not over, or none.
LEMMA Moves ==
    ASSUME TypeInv, [Next]_vars
    PROVE  Moved \/ step' = step \/ DaemonDies
<1>0. Plain
  BY DEF TypeInv
<1>1. ASSUME NEW p \in Ops, GuardSaysIdle(p) PROVE Moved \/ step' = step \/ DaemonDies
  BY <1>1, GuardSaysIdleDoes, <1>0, Kinds DEF Turn, Moved, Ats, Over, OnlineStages,
     OfflineStages, HeldStages, RestoreStages, BranchStages
<1>2. ASSUME NEW p \in Ops, GuardRefuses(p) PROVE Moved \/ step' = step \/ DaemonDies
  BY <1>2, GuardRefusesDoes, DropsDoes, <1>0, Kinds DEF Moved, Ats, Over, OnlineStages,
     OfflineStages, HeldStages, RestoreStages, BranchStages
<1>3. ASSUME NEW p \in Ops, Quiesced(p) PROVE Moved \/ step' = step \/ DaemonDies
  BY <1>3, QuiescedDoes, DropsDoes, <1>0, Kinds DEF Moved, Ats, Over, OnlineStages,
     OfflineStages, HeldStages, RestoreStages, BranchStages, AfterQuiesce, Pausing
<1>4. ASSUME NEW p \in Ops, Resume(p) PROVE Moved \/ step' = step \/ DaemonDies
  BY <1>4, ResumeDoes, <1>0, Kinds DEF Turn, Moved, Ats, Over, OnlineStages, OfflineStages,
     HeldStages, RestoreStages, BranchStages
<1>5. ASSUME NEW p \in Ops, ResumeBoots(p) PROVE Moved \/ step' = step \/ DaemonDies
  BY <1>5, ResumeBootsDoes, <1>0, Kinds DEF Turn, Moved, Ats, Over, OnlineStages,
     OfflineStages, HeldStages, RestoreStages, BranchStages
<1>6. ASSUME NEW p \in Ops, Resumed(p) PROVE Moved \/ step' = step \/ DaemonDies
  BY <1>6, ResumedDoes, <1>0, Kinds DEF Moved, Ats, Over, OnlineStages, OfflineStages,
     HeldStages, RestoreStages, BranchStages, Ended
<1>7. ASSUME NEW p \in Ops, CloneEnds(p) PROVE Moved \/ step' = step \/ DaemonDies
  BY <1>7, CloneEndsDoes, <1>0, Kinds DEF Turn, Moved, Ats, Over, OnlineStages,
     OfflineStages, HeldStages, RestoreStages, BranchStages, Copied
<1>8. ASSUME NEW p \in Ops, CloneFails(p) PROVE Moved \/ step' = step \/ DaemonDies
  BY <1>8, CloneFailsDoes, DropsDoes, <1>0, Kinds DEF Moved, Ats, Over, OnlineStages,
     OfflineStages, HeldStages, RestoreStages, BranchStages
<1>9. ASSUME NEW p \in Ops, OnlineCopies(p) PROVE Moved \/ step' = step \/ DaemonDies
  BY <1>9, OnlineCopiesDoes, DropsDoes, OpensDoes, <1>0, Kinds DEF Moved, Ats, Over,
     OnlineStages, OfflineStages, HeldStages, RestoreStages, BranchStages
<1>10. ASSUME NEW p \in Ops, OnlineStreamed(p) PROVE Moved \/ step' = step \/ DaemonDies
  BY <1>10, OnlineStreamedDoes, DropsDoes, <1>0, Kinds DEF Moved, Ats, Over, OnlineStages,
     OfflineStages, HeldStages, RestoreStages, BranchStages
<1>11. ASSUME NEW p \in Ops, OnlineFiles(p) PROVE Moved \/ step' = step \/ DaemonDies
  BY <1>11, OnlineFilesDoes, DropsDoes, <1>0, Kinds DEF Moved, Ats, Over, OnlineStages,
     OfflineStages, HeldStages, RestoreStages, BranchStages
<1>12. ASSUME NEW p \in Ops, OnlineCloses(p) PROVE Moved \/ step' = step \/ DaemonDies
  BY <1>12, OnlineClosesDoes, <1>0, Kinds DEF Turn, Moved, Ats, Over, OnlineStages,
     OfflineStages, HeldStages, RestoreStages, BranchStages
<1>13. ASSUME NEW p \in Ops, SnapshotCopies(p) PROVE Moved \/ step' = step \/ DaemonDies
  BY <1>13, SnapshotCopiesDoes, DropsDoes, OpensDoes, <1>0, Kinds DEF Moved, Ats, Over,
     OnlineStages, OfflineStages, HeldStages, RestoreStages, BranchStages
<1>14. ASSUME NEW p \in Ops, SnapshotFiles(p) PROVE Moved \/ step' = step \/ DaemonDies
  BY <1>14, SnapshotFilesDoes, <1>0, Kinds DEF Turn, Moved, Ats, Over, OnlineStages,
     OfflineStages, HeldStages, RestoreStages, BranchStages
<1>15. ASSUME NEW p \in Ops, RestoreClears(p) PROVE Moved \/ step' = step \/ DaemonDies
  BY <1>15, RestoreClearsDoes, <1>0, Kinds DEF Turn, Moved, Ats, Over, OnlineStages,
     OfflineStages, HeldStages, RestoreStages, BranchStages
<1>16. ASSUME NEW p \in Ops, RestoreCopies(p) PROVE Moved \/ step' = step \/ DaemonDies
  BY <1>16, RestoreCopiesDoes, DropsDoes, OpensDoes, <1>0, Kinds DEF Moved, Ats, Over,
     OnlineStages, OfflineStages, HeldStages, RestoreStages, BranchStages
<1>17. ASSUME NEW p \in Ops, RestoreHolds(p) PROVE Moved \/ step' = step \/ DaemonDies
  BY <1>17, RestoreHoldsDoes, DropsDoes, <1>0, Kinds DEF Moved, Ats, Over, OnlineStages,
     OfflineStages, HeldStages, RestoreStages, BranchStages, AfterQuiesce
<1>18. ASSUME NEW p \in Ops, SetAside(p) PROVE Moved \/ step' = step \/ DaemonDies
  BY <1>18, SetAsideDoes, DropsDoes, <1>0, Kinds DEF Moved, Ats, Over, OnlineStages,
     OfflineStages, HeldStages, RestoreStages, BranchStages
<1>19. ASSUME NEW p \in Ops, Place(p) PROVE Moved \/ step' = step \/ DaemonDies
  BY <1>19, PlaceDoes, <1>0, Kinds DEF Turn, Moved, Ats, Over, OnlineStages, OfflineStages,
     HeldStages, RestoreStages, BranchStages
<1>20. ASSUME NEW p \in Ops, PlaceFails(p) PROVE Moved \/ step' = step \/ DaemonDies
  BY <1>20, PlaceFailsDoes, <1>0, Kinds DEF Turn, Moved, Ats, Over, OnlineStages,
     OfflineStages, HeldStages, RestoreStages, BranchStages
<1>21. ASSUME NEW p \in Ops, Clean(p) PROVE Moved \/ step' = step \/ DaemonDies
  BY <1>21, CleanDoes, <1>0, Kinds DEF Turn, Moved, Ats, Over, OnlineStages, OfflineStages,
     HeldStages, RestoreStages, BranchStages
<1>22. ASSUME NEW p \in Ops, RestsBefore(p) PROVE Moved \/ step' = step \/ DaemonDies
  BY <1>22, RestsBeforeDoes, DropsDoes, <1>0, Kinds DEF Moved, Ats, Over, OnlineStages,
     OfflineStages, HeldStages, RestoreStages, BranchStages
<1>23. ASSUME NEW p \in Ops, BranchCopies(p) PROVE Moved \/ step' = step \/ DaemonDies
  BY <1>23, BranchCopiesDoes, DropsDoes, OpensDoes, <1>0, Kinds DEF Moved, Ats, Over,
     OnlineStages, OfflineStages, HeldStages, RestoreStages, BranchStages
<1>24. ASSUME NEW p \in Ops, RestsAfter(p) PROVE Moved \/ step' = step \/ DaemonDies
  BY <1>24, RestsAfterDoes, DropsDoes, <1>0, Kinds DEF Moved, Ats, Over, OnlineStages,
     OfflineStages, HeldStages, RestoreStages, BranchStages
<1>25. ASSUME NEW p \in Ops, BranchCopied(p) PROVE Moved \/ step' = step \/ DaemonDies
  BY <1>25, BranchCopiedDoes, DropsDoes, <1>0, Kinds DEF Moved, Ats, Over, OnlineStages,
     OfflineStages, HeldStages, RestoreStages, BranchStages
<1>26. ASSUME NEW p \in Ops, BranchEnds(p) PROVE Moved \/ step' = step \/ DaemonDies
  BY <1>26, BranchEndsDoes, <1>0, Kinds DEF Moved, Ats, Over, OnlineStages, OfflineStages,
     HeldStages, RestoreStages, BranchStages
<1>27. ASSUME NEW p \in Ops, DeleteEnds(p) PROVE Moved \/ step' = step \/ DaemonDies
  BY <1>27, DeleteEndsDoes, <1>0, Kinds DEF Turn, Moved, Ats, Over, OnlineStages,
     OfflineStages, HeldStages, RestoreStages, BranchStages
<1>28. ASSUME NEW p \in Ops, Slept(p) PROVE Moved \/ step' = step \/ DaemonDies
  BY <1>28, SleptDoes, <1>0, Kinds DEF Turn, Moved, Ats, Over, OnlineStages, OfflineStages,
     HeldStages, RestoreStages, BranchStages
<1>29. ASSUME NEW p \in Ops, OnlineBegins(p) PROVE Moved \/ step' = step \/ DaemonDies
  BY <1>29, OnlineBeginsDoes, <1>0, Kinds DEF Moved, Ats, Over, OnlineStages, OfflineStages,
     HeldStages, RestoreStages, BranchStages
<1>30. ASSUME NEW p \in Ops, SnapshotBegins(p) PROVE Moved \/ step' = step \/ DaemonDies
  BY <1>30, SnapshotBeginsDoes, <1>0, Kinds DEF Moved, Ats, Over, OnlineStages,
     OfflineStages, HeldStages, RestoreStages, BranchStages, AfterQuiesce
<1>31. ASSUME NEW p \in Ops, RestoreBegins(p) PROVE Moved \/ step' = step \/ DaemonDies
  BY <1>31, RestoreBeginsDoes, <1>0, Kinds DEF Moved, Ats, Over, OnlineStages,
     OfflineStages, HeldStages, RestoreStages, BranchStages
<1>32. ASSUME NEW p \in Ops, BranchBegins(p) PROVE Moved \/ step' = step \/ DaemonDies
  BY <1>32, BranchBeginsDoes, <1>0, Kinds DEF Moved, Ats, Over, OnlineStages, OfflineStages,
     HeldStages, RestoreStages, BranchStages, AfterQuiesce
<1>33. ASSUME NEW p \in Ops, DeleteBegins(p) PROVE Moved \/ step' = step \/ DaemonDies
  BY <1>33, DeleteBeginsDoes, <1>0, Kinds DEF Turn, Moved, Ats, Over, OnlineStages,
     OfflineStages, HeldStages, RestoreStages, BranchStages
<1>34. ASSUME NEW p \in Ops, SleepBegins(p) PROVE Moved \/ step' = step \/ DaemonDies
  BY <1>34, SleepBeginsDoes, <1>0, Kinds DEF Turn, Moved, Ats, Over, OnlineStages,
     OfflineStages, HeldStages, RestoreStages, BranchStages
<1>35. ASSUME NEW p \in Ops, CloneBeginsAgain(p) PROVE Moved \/ step' = step \/ DaemonDies
  BY <1>35, CloneBeginsAgainDoes, <1>0, Kinds DEF Moved, Ats, Over, OnlineStages,
     OfflineStages, HeldStages, RestoreStages, BranchStages
<1>36. CASE WakeBegins
  BY <1>36, WakeBeginsDoes, <1>0, Kinds DEF Moved, Ats, Over, OnlineStages, OfflineStages,
     HeldStages, RestoreStages, BranchStages
<1>37. CASE WakeBoots
  BY <1>37, WakeBootsDoes, <1>0, Kinds DEF Moved, Ats, Over, OnlineStages, OfflineStages,
     HeldStages, RestoreStages, BranchStages
<1>38. CASE WakeEnds
  BY <1>38, WakeEndsDoes, <1>0, Kinds DEF Moved, Ats, Over, OnlineStages, OfflineStages,
     HeldStages, RestoreStages, BranchStages
<1>39. CASE HibernatorStops
  BY <1>39, HibernatorStopsDoes, <1>0, Kinds DEF Moved, Ats, Over, OnlineStages,
     OfflineStages, HeldStages, RestoreStages, BranchStages
<1>40. CASE HibernatorStopped
  BY <1>40, HibernatorStoppedDoes, <1>0, Kinds DEF Moved, Ats, Over, OnlineStages,
     OfflineStages, HeldStages, RestoreStages, BranchStages
<1>41. CASE DaemonDies
  BY <1>41, DaemonDiesDoes, <1>0, Kinds DEF Moved, Ats, Over, OnlineStages, OfflineStages,
     HeldStages, RestoreStages, BranchStages
<1>42. CASE UNCHANGED vars
  BY <1>42, <1>0, Kinds DEF vars, database, promises, Moved, Ats, Over, OnlineStages,
     OfflineStages, HeldStages, RestoreStages, BranchStages
<1>43. QED
  BY <1>1, <1>2, <1>3, <1>4, <1>5, <1>6, <1>7, <1>8, <1>9, <1>10, <1>11, <1>12, <1>13,
     <1>14, <1>15, <1>16, <1>17, <1>18, <1>19, <1>20, <1>21, <1>22, <1>23, <1>24, <1>25,
     <1>26, <1>27, <1>28, <1>29, <1>30, <1>31, <1>32, <1>33, <1>34, <1>35, <1>36, <1>37,
     <1>38, <1>39, <1>40, <1>41, <1>42 DEF Next, Begin, Proceed, Surroundings

LEMMA NeverIdle ==
    ASSUME TypeInv, [Next]_vars, NEW q \in Ops, step[q] # "idle"
    PROVE  step'[q] # "idle"
<1>1. step \in [Ops -> Ats]
  BY DEF TypeInv, Stages
<1>2. CASE Moved
  BY <1>1, <1>2 DEF Moved
<1>3. CASE DaemonDies
  BY <1>3, DaemonDiesDoes
<1>4. QED
  BY <1>2, <1>3, Moves

\* Where there was nothing a copy that is under way puts something.
Filling(r) == \E q \in Copiers : /\ To(q) = To(r) /\ step'[q] # "idle"
                                 /\ step[q] \in {"opened", "copying", "looking", "cloning"}

LEMMA Fills ==
    ASSUME TypeInv, [Next]_vars, NEW r \in Copiers, disk[To(r)] = Absent
    PROVE  disk'[To(r)] = Absent \/ Filling(r)
<1>0. /\ disk \in [Places -> Directories \cup {Absent}] /\ To(r) \in Places \ Asides
      /\ Copiers \subseteq Ops
  BY Outside DEF TypeInv, Disks, Ops
<1>1. CASE UNCHANGED disk
  BY <1>1
<1>2. ASSUME NEW q \in Copiers, NEW v, disk' = [disk EXCEPT ![To(q)] = v],
             step[q] \in {"opened", "copying", "looking", "cloning"}
      PROVE  disk'[To(r)] = Absent \/ Filling(r)
  <2>1. step'[q] # "idle"
    BY <1>0, <1>2, NeverIdle
  <2>2. CASE To(q) = To(r)
    BY <1>2, <2>1, <2>2 DEF Filling
  <2>3. CASE To(q) # To(r)
    BY <1>0, <1>2, <2>3
  <2>4. QED
    BY <2>2, <2>3
<1>3. ASSUME NEW place \in Asides, NEW v, disk' = [disk EXCEPT ![place] = v] PROVE disk'[To(r)] = Absent
  BY <1>0, <1>3
<1>4. ASSUME NEW place \in Places, disk' = [disk EXCEPT ![place] = Absent] PROVE disk'[To(r)] = Absent
  BY <1>0, <1>4
<1>5. CASE Boot
  <2>1. Live \in Asides /\ Plain
    BY DEF Asides, TypeInv
  <2>2. QED
    BY <1>1, <1>3, <1>5, <2>1, BootDoes
<1>6. ASSUME NEW p \in Ops, Touches(p), Begin(p) \/ Proceed(p) \/ CloneBeginsAgain(p)
      PROVE  disk'[To(r)] = Absent \/ Filling(r)
  <2>1. CASE Drops(p)
    BY <1>1, <1>4, <2>1, DropsDoes, Ways DEF Removed
  <2>2. CASE Opens(p)
    <3>1. p \in Copiers /\ disk[From(p)] # Absent
      BY <2>2, OpensDoes
    <3>2. QED
      BY <1>2, <2>2, <3>1, OpensDoes DEF Opens
  <2>3. CASE CloneEnds(p)
    BY <1>1, <1>2, <2>3, CloneEndsDoes DEF Turn
  <2>4. CASE CloneBeginsAgain(p)
    BY <1>2, <2>4, CloneBeginsAgainDoes
  <2>5. CASE OnlineStreamed(p)
    <3>1. p \in Copiers
      BY <2>5, OnlineStreamedDoes DEF Copiers
    <3>2. QED
      BY <1>2, <2>1, <2>5, <3>1, OnlineStreamedDoes
  <2>6. CASE RestoreClears(p) \/ BranchEnds(p)
    <3>1. p \in Copiers /\ (disk' = disk \/ disk' = Removed(p))
      BY <2>6, RestoreClearsDoes, BranchEndsDoes DEF Copiers
    <3>2. QED
      BY <1>1, <1>4, <3>1, Ways DEF Removed
  <2>7. CASE DeleteBegins(p)
    <3>1. Of[p] \in Snapshots /\ disk' = [disk EXCEPT ![Snap(Of[p])] = Half(Snap(Of[p]))]
      BY <2>7, DeleteBeginsDoes, StorageNumbers
    <3>2. To(r) # Snap(Of[p])
      BY <3>1, Ways, Apart
    <3>3. QED
      BY <1>0, <3>1, <3>2
  <2>8. CASE DeleteEnds(p)
    <3>1. Snap(Of[p]) \in Places /\ disk' = [disk EXCEPT ![Snap(Of[p])] = Absent]
      BY <2>8, DeleteEndsDoes, StorageNumbers, Ways
    <3>2. QED
      BY <1>4, <3>1
  <2>9. CASE SetAside(p) \/ Place(p) \/ PlaceFails(p) \/ Clean(p)
    <3>1. p \in Restores /\ p \in Copiers /\ Live \in Asides /\ Aside(Of[p]) \in Asides /\ To(p) \in Places
      BY <2>9, SetAsideDoes, PlaceDoes, PlaceFailsDoes, CleanDoes, Ways DEF Copiers, Asides
    <3>2. CASE \/ disk' = [disk EXCEPT ![Aside(Of[p])] = disk[Live], ![Live] = Absent]
               \/ disk' = [disk EXCEPT ![Live] = disk[To(p)], ![To(p)] = Absent]
               \/ disk' = Undone(p)
      BY <1>0, <3>1, <3>2 DEF Undone
    <3>3. QED
      BY <1>1, <1>3, <1>4, <2>1, <2>9, <3>1, <3>2, SetAsideDoes, PlaceDoes, PlaceFailsDoes, CleanDoes
      DEF Removed
  <2>10. QED
    BY <1>1, <1>5, <1>6, <2>1, <2>2, <2>3, <2>4, <2>5, <2>6, <2>7, <2>8, <2>9, ResumeBootsDoes
    DEF Touches, Leaves
<1>7. CASE Surroundings
  BY <1>1, <1>5, <1>7, SurroundingsTouch DEF WakeBoots
<1>8. QED
  BY <1>1, <1>6, <1>7, DiskEffects DEF Next, vars

\* What fails has removed what it made.
LEMMA NewlySwept ==
    ASSUME TypeInv, [Next]_vars
    PROVE  \A r \in Copiers : Swept(r)' => Swept(r) \/ disk'[To(r)] = Absent
<1>0. /\ Plain /\ Breaks /\ step \in [Ops -> Ats] /\ Copiers \subseteq Ops
      /\ \A r \in Copiers : To(r) \in DOMAIN disk
      /\ \A r \in Restores : r \in Copiers
  BY Ways DEF TypeInv, Stages, Disks, Ops, Copiers
<1>1. ASSUME NEW p \in Ops, GuardSaysIdle(p) PROVE \A r \in Copiers : Swept(r)' => Swept(r) \/ disk'[To(r)] = Absent
  BY <1>1, GuardSaysIdleDoes, <1>0, Kinds DEF Turn, Swept, Removed, promises, database
<1>2. ASSUME NEW p \in Ops, GuardRefuses(p) PROVE \A r \in Copiers : Swept(r)' => Swept(r) \/ disk'[To(r)] = Absent
  BY <1>2, GuardRefusesDoes, DropsDoes, <1>0, Kinds DEF Swept, Removed, promises, database
<1>3. ASSUME NEW p \in Ops, Quiesced(p) PROVE \A r \in Copiers : Swept(r)' => Swept(r) \/ disk'[To(r)] = Absent
  BY <1>3, QuiescedDoes, DropsDoes, <1>0, Kinds DEF Swept, Removed, promises, database,
     AfterQuiesce, Pausing
<1>4. ASSUME NEW p \in Ops, Resume(p) PROVE \A r \in Copiers : Swept(r)' => Swept(r) \/ disk'[To(r)] = Absent
  BY <1>4, ResumeDoes, <1>0, Kinds DEF Turn, Swept, Removed, promises, database
<1>5. ASSUME NEW p \in Ops, ResumeBoots(p) PROVE \A r \in Copiers : Swept(r)' => Swept(r) \/ disk'[To(r)] = Absent
  BY <1>5, ResumeBootsDoes, <1>0, Kinds DEF Turn, Swept, Removed, promises, database
<1>6. ASSUME NEW p \in Ops, Resumed(p) PROVE \A r \in Copiers : Swept(r)' => Swept(r) \/ disk'[To(r)] = Absent
  BY <1>6, ResumedDoes, <1>0, Kinds DEF Swept, Removed, promises, database, Ended
<1>7. ASSUME NEW p \in Ops, CloneEnds(p) PROVE \A r \in Copiers : Swept(r)' => Swept(r) \/ disk'[To(r)] = Absent
  BY <1>7, CloneEndsDoes, <1>0, Kinds DEF Turn, Swept, Removed, promises, database, Copied
<1>8. ASSUME NEW p \in Ops, CloneFails(p) PROVE \A r \in Copiers : Swept(r)' => Swept(r) \/ disk'[To(r)] = Absent
  BY <1>8, CloneFailsDoes, DropsDoes, <1>0, Kinds DEF Swept, Removed, promises, database
<1>9. ASSUME NEW p \in Ops, OnlineCopies(p) PROVE \A r \in Copiers : Swept(r)' => Swept(r) \/ disk'[To(r)] = Absent
  BY <1>9, OnlineCopiesDoes, DropsDoes, OpensDoes, <1>0, Kinds DEF Swept, Removed, promises,
     database
<1>10. ASSUME NEW p \in Ops, OnlineStreamed(p) PROVE \A r \in Copiers : Swept(r)' => Swept(r) \/ disk'[To(r)] = Absent
  BY <1>10, OnlineStreamedDoes, DropsDoes, <1>0, Kinds DEF Swept, Removed, promises,
     database
<1>11. ASSUME NEW p \in Ops, OnlineFiles(p) PROVE \A r \in Copiers : Swept(r)' => Swept(r) \/ disk'[To(r)] = Absent
  BY <1>11, OnlineFilesDoes, DropsDoes, <1>0, Kinds DEF Swept, Removed, promises, database
<1>12. ASSUME NEW p \in Ops, OnlineCloses(p) PROVE \A r \in Copiers : Swept(r)' => Swept(r) \/ disk'[To(r)] = Absent
  BY <1>12, OnlineClosesDoes, <1>0, Kinds DEF Turn, Swept, Removed, promises, database
<1>13. ASSUME NEW p \in Ops, SnapshotCopies(p) PROVE \A r \in Copiers : Swept(r)' => Swept(r) \/ disk'[To(r)] = Absent
  BY <1>13, SnapshotCopiesDoes, DropsDoes, OpensDoes, <1>0, Kinds DEF Swept, Removed,
     promises, database
<1>14. ASSUME NEW p \in Ops, SnapshotFiles(p) PROVE \A r \in Copiers : Swept(r)' => Swept(r) \/ disk'[To(r)] = Absent
  BY <1>14, SnapshotFilesDoes, <1>0, Kinds DEF Turn, Swept, Removed, promises, database
<1>15. ASSUME NEW p \in Ops, RestoreClears(p) PROVE \A r \in Copiers : Swept(r)' => Swept(r) \/ disk'[To(r)] = Absent
  BY <1>15, RestoreClearsDoes, <1>0, Kinds DEF Turn, Swept, Removed, promises, database
<1>16. ASSUME NEW p \in Ops, RestoreCopies(p) PROVE \A r \in Copiers : Swept(r)' => Swept(r) \/ disk'[To(r)] = Absent
  BY <1>16, RestoreCopiesDoes, DropsDoes, OpensDoes, <1>0, Kinds DEF Swept, Removed,
     promises, database
<1>17. ASSUME NEW p \in Ops, RestoreHolds(p) PROVE \A r \in Copiers : Swept(r)' => Swept(r) \/ disk'[To(r)] = Absent
  BY <1>17, RestoreHoldsDoes, DropsDoes, <1>0, Kinds DEF Swept, Removed, promises, database
<1>18. ASSUME NEW p \in Ops, SetAside(p) PROVE \A r \in Copiers : Swept(r)' => Swept(r) \/ disk'[To(r)] = Absent
  BY <1>18, SetAsideDoes, DropsDoes, <1>0, Kinds DEF Swept, Removed, promises, database
<1>19. ASSUME NEW p \in Ops, Place(p) PROVE \A r \in Copiers : Swept(r)' => Swept(r) \/ disk'[To(r)] = Absent
  BY <1>19, PlaceDoes, <1>0, Kinds DEF Turn, Swept, Removed, promises, database
<1>20. ASSUME NEW p \in Ops, PlaceFails(p) PROVE \A r \in Copiers : Swept(r)' => Swept(r) \/ disk'[To(r)] = Absent
  BY <1>20, PlaceFailsDoes, <1>0, Kinds DEF Turn, Swept, Removed, promises, database, Undone
<1>21. ASSUME NEW p \in Ops, Clean(p) PROVE \A r \in Copiers : Swept(r)' => Swept(r) \/ disk'[To(r)] = Absent
  BY <1>21, CleanDoes, <1>0, Kinds DEF Turn, Swept, Removed, promises, database
<1>22. ASSUME NEW p \in Ops, RestsBefore(p) PROVE \A r \in Copiers : Swept(r)' => Swept(r) \/ disk'[To(r)] = Absent
  BY <1>22, RestsBeforeDoes, DropsDoes, <1>0, Kinds DEF Swept, Removed, promises, database
<1>23. ASSUME NEW p \in Ops, BranchCopies(p) PROVE \A r \in Copiers : Swept(r)' => Swept(r) \/ disk'[To(r)] = Absent
  BY <1>23, BranchCopiesDoes, DropsDoes, OpensDoes, <1>0, Kinds DEF Swept, Removed,
     promises, database
<1>24. ASSUME NEW p \in Ops, RestsAfter(p) PROVE \A r \in Copiers : Swept(r)' => Swept(r) \/ disk'[To(r)] = Absent
  BY <1>24, RestsAfterDoes, DropsDoes, <1>0, Kinds DEF Swept, Removed, promises, database
<1>25. ASSUME NEW p \in Ops, BranchCopied(p) PROVE \A r \in Copiers : Swept(r)' => Swept(r) \/ disk'[To(r)] = Absent
  BY <1>25, BranchCopiedDoes, DropsDoes, <1>0, Kinds DEF Swept, Removed, promises, database
<1>26. ASSUME NEW p \in Ops, BranchEnds(p) PROVE \A r \in Copiers : Swept(r)' => Swept(r) \/ disk'[To(r)] = Absent
  BY <1>26, BranchEndsDoes, <1>0, Kinds DEF Swept, Removed, promises, database
<1>27. ASSUME NEW p \in Ops, DeleteEnds(p) PROVE \A r \in Copiers : Swept(r)' => Swept(r) \/ disk'[To(r)] = Absent
  BY <1>27, DeleteEndsDoes, <1>0, Kinds DEF Turn, Swept, Removed, promises, database
<1>28. ASSUME NEW p \in Ops, Slept(p) PROVE \A r \in Copiers : Swept(r)' => Swept(r) \/ disk'[To(r)] = Absent
  BY <1>28, SleptDoes, <1>0, Kinds DEF Turn, Swept, Removed, promises, database
<1>29. ASSUME NEW p \in Ops, OnlineBegins(p) PROVE \A r \in Copiers : Swept(r)' => Swept(r) \/ disk'[To(r)] = Absent
  BY <1>29, OnlineBeginsDoes, <1>0, Kinds DEF Swept, Removed, promises, database
<1>30. ASSUME NEW p \in Ops, SnapshotBegins(p) PROVE \A r \in Copiers : Swept(r)' => Swept(r) \/ disk'[To(r)] = Absent
  BY <1>30, SnapshotBeginsDoes, <1>0, Kinds DEF Swept, Removed, promises, database
<1>31. ASSUME NEW p \in Ops, RestoreBegins(p) PROVE \A r \in Copiers : Swept(r)' => Swept(r) \/ disk'[To(r)] = Absent
  BY <1>31, RestoreBeginsDoes, <1>0, Kinds DEF Swept, Removed, promises, database
<1>32. ASSUME NEW p \in Ops, BranchBegins(p) PROVE \A r \in Copiers : Swept(r)' => Swept(r) \/ disk'[To(r)] = Absent
  BY <1>32, BranchBeginsDoes, <1>0, Kinds DEF Swept, Removed, promises, database, Breaks,
     OnWayOut
<1>33. ASSUME NEW p \in Ops, DeleteBegins(p) PROVE \A r \in Copiers : Swept(r)' => Swept(r) \/ disk'[To(r)] = Absent
  BY <1>33, DeleteBeginsDoes, <1>0, Kinds DEF Turn, Swept, Removed, promises, database
<1>34. ASSUME NEW p \in Ops, SleepBegins(p) PROVE \A r \in Copiers : Swept(r)' => Swept(r) \/ disk'[To(r)] = Absent
  BY <1>34, SleepBeginsDoes, <1>0, Kinds DEF Turn, Swept, Removed, promises, database
<1>35. ASSUME NEW p \in Ops, CloneBeginsAgain(p) PROVE \A r \in Copiers : Swept(r)' => Swept(r) \/ disk'[To(r)] = Absent
  BY <1>35, CloneBeginsAgainDoes, <1>0, Kinds DEF Swept, Removed, promises, database
<1>36. CASE WakeBegins
  BY <1>36, WakeBeginsDoes, <1>0, Kinds DEF Swept, Removed, promises, database
<1>37. CASE WakeBoots
  BY <1>37, WakeBootsDoes, <1>0, Kinds DEF Swept, Removed, promises, database
<1>38. CASE WakeEnds
  BY <1>38, WakeEndsDoes, <1>0, Kinds DEF Swept, Removed, promises, database
<1>39. CASE HibernatorStops
  BY <1>39, HibernatorStopsDoes, <1>0, Kinds DEF Swept, Removed, promises, database
<1>40. CASE HibernatorStopped
  BY <1>40, HibernatorStoppedDoes, <1>0, Kinds DEF Swept, Removed, promises, database
<1>41. CASE DaemonDies
  BY <1>41, DaemonDiesDoes, <1>0, Kinds DEF Swept, Removed, promises, database, Over
<1>42. CASE UNCHANGED vars
  BY <1>42, <1>0, Kinds DEF vars, database, promises, Swept, Removed
<1>43. QED
  BY <1>1, <1>2, <1>3, <1>4, <1>5, <1>6, <1>7, <1>8, <1>9, <1>10, <1>11, <1>12, <1>13,
     <1>14, <1>15, <1>16, <1>17, <1>18, <1>19, <1>20, <1>21, <1>22, <1>23, <1>24, <1>25,
     <1>26, <1>27, <1>28, <1>29, <1>30, <1>31, <1>32, <1>33, <1>34, <1>35, <1>36, <1>37,
     <1>38, <1>39, <1>40, <1>41, <1>42 DEF Next, Begin, Proceed, Surroundings

LEMMA CleansStep ==
    ASSUME TypeInv, Cleans, [Next]_vars
    PROVE  Cleans'
<1>0. Copiers \subseteq Ops
  BY DEF Ops
<1> SUFFICES ASSUME NEW r \in Copiers, Swept(r)' PROVE Cleaned(r)'
  BY DEF Cleans
<1>1. CASE disk'[To(r)] = Absent
  BY <1>1 DEF Cleaned
<1>2. CASE Swept(r)
  <2>1. Cleaned(r) /\ step[r] \in OnWayOut
    BY <1>2 DEF Cleans, TypeInv, Breaks, Swept
  <2>2. ASSUME NEW q \in Copiers \ {r}, To(q) = To(r), step[q] # "idle" PROVE Cleaned(r)'
    BY <1>0, <2>2, NeverIdle DEF Cleaned
  <2>3. CASE disk[To(r)] = Absent
    <3>1. CASE Filling(r)
      BY <2>1, <3>1 DEF Filling, OnWayOut, Cleaned
    <3>2. QED
      BY <1>1, <2>3, <3>1, Fills
  <2>4. QED
    BY <2>1, <2>2, <2>3 DEF Cleaned
<1>3. QED
  BY <1>1, <1>2, NewlySwept

-----------------------------------------------------------------------------
(* What is live is whole.                                                  *)

\* A place that is neither live nor set aside changes only as the destination of a copy
\* or as the snapshot that is being deleted.
LEMMA Reaches ==
    ASSUME TypeInv, NEW p \in Ops, Touches(p), NEW place \in Places \ Asides, disk'[place] # disk[place]
    PROVE  \/ p \in Copiers /\ step[p] \notin Over /\ place = To(p)
              /\ (step'[p] \notin Staged \/ CloneEnds(p))
           \/ p \in Deletes /\ (DeleteBegins(p) \/ step[p] = "deleting") /\ place = Snap(Of[p])
<1> DEFINE Fine == \/ p \in Copiers /\ step[p] \notin Over /\ place = To(p)
                      /\ (step'[p] \notin Staged \/ CloneEnds(p))
                   \/ p \in Deletes /\ (DeleteBegins(p) \/ step[p] = "deleting") /\ place = Snap(Of[p])
<1>0. /\ Plain /\ step \in [Ops -> Ats] /\ disk \in [Places -> Directories \cup {Absent}]
      /\ \A r \in Restores : r \in Copiers /\ Aside(Of[r]) \in Asides
      /\ Live \in Asides /\ Onlines \subseteq Copiers /\ Branches \subseteq Copiers
      /\ \A d \in Deletes : Of[d] \in Snapshots
  BY Ways, StorageNumbers DEF TypeInv, Stages, Disks, Copiers, Asides
<1>1. disk' # disk
  OBVIOUS
<1>2. ASSUME p \in Copiers, NEW v, disk' = [disk EXCEPT ![To(p)] = v] PROVE place = To(p)
  BY <1>0, <1>2
<1>3. ASSUME p \in Deletes, NEW v, disk' = [disk EXCEPT ![Snap(Of[p])] = v] PROVE place = Snap(Of[p])
  BY <1>0, <1>3
<1>4. CASE Drops(p)
  BY <1>0, <1>1, <1>2, <1>4, DropsDoes DEF Removed, Staged
<1>5. CASE Opens(p)
  BY <1>0, <1>2, <1>5, OpensDoes DEF Over, Staged
<1>6. CASE CloneEnds(p) \/ CloneBeginsAgain(p)
  BY <1>0, <1>1, <1>2, <1>6, CloneEndsDoes, CloneBeginsAgainDoes DEF Turn, Over, Staged
<1>7. CASE OnlineStreamed(p)
  BY <1>0, <1>2, <1>4, <1>7, OnlineStreamedDoes DEF Over, Staged
<1>8. CASE RestoreClears(p) \/ BranchEnds(p)
  BY <1>0, <1>1, <1>2, <1>8, RestoreClearsDoes, BranchEndsDoes DEF Removed, Turn, Over, Staged
<1>9. CASE ResumeBoots(p)
  <2>1. disk' = [disk EXCEPT ![Live] = [data |-> "empty", whole |-> TRUE]]
    BY <1>0, <1>1, <1>9, ResumeBootsDoes, BootDoes
  <2>2. QED
    BY <1>0, <2>1
<1>10. CASE SetAside(p)
  BY <1>0, <1>1, <1>4, <1>10, SetAsideDoes
<1>11. CASE Place(p)
  BY <1>0, <1>11, PlaceDoes DEF Turn, Over, Staged
<1>12. CASE PlaceFails(p)
  BY <1>0, <1>12, PlaceFailsDoes DEF Turn, Over, Removed, Undone, Staged
<1>13. CASE Clean(p)
  BY <1>0, <1>1, <1>13, CleanDoes
<1>14. CASE DeleteBegins(p) \/ DeleteEnds(p)
  BY <1>3, <1>14, DeleteBeginsDoes, DeleteEndsDoes DEF Turn
<1>15. QED
  BY <1>1, <1>4, <1>5, <1>6, <1>7, <1>8, <1>9, <1>10, <1>11, <1>12, <1>13, <1>14 DEF Touches, Leaves

\* A copy is spoiled when its source is open or is moved, by another to the same place, or
\* by the deletion of its source.
LEMMA Spoils ==
    ASSUME TypeInv, NEW p \in Ops, Touches(p), NEW q, q \in spoiled', q \notin spoiled
    PROVE  \/ Opens(p) /\ q = p /\ box /\ mount = From(p)
           \/ q \in Cloning /\ From(q) = Live /\ ResumeBoots(p) /\ ~box
           \/ q \in Cloning /\ From(q) = Live /\ SetAside(p) /\ ~Drops(p)
           \/ q \in Cloning \ {p} /\ p \in Copiers /\ step[p] \notin Over /\ To(q) = To(p)
           \/ DeleteBegins(p) /\ q \in Cloning /\ From(q) = Snap(Of[p])
<1>0. Plain /\ \A r \in Restores : r \in Copiers
  BY DEF TypeInv, Copiers
<1>1. spoiled' # spoiled
  OBVIOUS
<1>2. CASE Drops(p)
  BY <1>1, <1>2, DropsDoes DEF WritersTo
<1>3. CASE Opens(p)
  BY <1>3, OpensDoes
<1>4. CASE CloneBeginsAgain(p)
  BY <1>4, CloneBeginsAgainDoes DEF WritersTo, Over
<1>5. CASE OnlineStreamed(p)
  BY <1>1, <1>2, <1>5, OnlineStreamedDoes
<1>6. CASE RestoreClears(p) \/ Place(p) \/ PlaceFails(p)
  <2>1. p \in Restores /\ spoiled' = spoiled \cup WritersTo(To(p)) /\ step[p] \in {"clearing", "placing"}
    BY <1>6, RestoreClearsDoes, PlaceDoes, PlaceFailsDoes DEF Turn
  <2>2. QED
    BY <1>0, <2>1 DEF WritersTo, Cloning, Over
<1>7. CASE ResumeBoots(p)
  BY <1>0, <1>1, <1>7, ResumeBootsDoes, BootDoes DEF ReadersOf
<1>8. CASE SetAside(p)
  BY <1>2, <1>8, SetAsideDoes DEF ReadersOf
<1>9. CASE DeleteBegins(p)
  BY <1>9, DeleteBeginsDoes DEF ReadersOf
<1>10. CASE CloneEnds(p) \/ Clean(p) \/ BranchEnds(p) \/ DeleteEnds(p)
  BY <1>1, <1>10, CloneEndsDoes, CleanDoes, BranchEndsDoes, DeleteEndsDoes
<1>11. QED
  BY <1>1, <1>2, <1>3, <1>4, <1>5, <1>6, <1>7, <1>8, <1>9, <1>10 DEF Touches, Leaves


\* A restore gets to work only by being asked for.
LEMMA Awakens ==
    ASSUME TypeInv, NEW r \in Restores, step[r] \in Over, [Next]_vars
    PROVE  step'[r] \in Over \/ RestoreBegins(r)
<1>0. Plain /\ step \in [Ops -> Ats] /\ r \in Ops
  BY DEF TypeInv, Stages, Ops, Copiers
<1>1. ASSUME NEW p \in Ops, GuardSaysIdle(p) PROVE step'[r] \in Over \/ RestoreBegins(r)
  BY <1>1, GuardSaysIdleDoes, <1>0, Kinds DEF Turn, Over, database, promises
<1>2. ASSUME NEW p \in Ops, GuardRefuses(p) PROVE step'[r] \in Over \/ RestoreBegins(r)
  BY <1>2, GuardRefusesDoes, DropsDoes, <1>0, Kinds DEF Over, database, promises
<1>3. ASSUME NEW p \in Ops, Quiesced(p) PROVE step'[r] \in Over \/ RestoreBegins(r)
  BY <1>3, QuiescedDoes, DropsDoes, <1>0, Kinds DEF Over, database, promises, AfterQuiesce,
     Pausing
<1>4. ASSUME NEW p \in Ops, Resume(p) PROVE step'[r] \in Over \/ RestoreBegins(r)
  BY <1>4, ResumeDoes, <1>0, Kinds DEF Turn, Over, database, promises
<1>5. ASSUME NEW p \in Ops, ResumeBoots(p) PROVE step'[r] \in Over \/ RestoreBegins(r)
  BY <1>5, ResumeBootsDoes, <1>0, Kinds DEF Turn, Over, database, promises
<1>6. ASSUME NEW p \in Ops, Resumed(p) PROVE step'[r] \in Over \/ RestoreBegins(r)
  BY <1>6, ResumedDoes, <1>0, Kinds DEF Over, database, promises, Ended
<1>7. ASSUME NEW p \in Ops, CloneEnds(p) PROVE step'[r] \in Over \/ RestoreBegins(r)
  BY <1>7, CloneEndsDoes, <1>0, Kinds DEF Turn, Over, database, promises, Copied
<1>8. ASSUME NEW p \in Ops, CloneFails(p) PROVE step'[r] \in Over \/ RestoreBegins(r)
  BY <1>8, CloneFailsDoes, DropsDoes, <1>0, Kinds DEF Over, database, promises
<1>9. ASSUME NEW p \in Ops, OnlineCopies(p) PROVE step'[r] \in Over \/ RestoreBegins(r)
  BY <1>9, OnlineCopiesDoes, DropsDoes, OpensDoes, <1>0, Kinds DEF Over, database, promises
<1>10. ASSUME NEW p \in Ops, OnlineStreamed(p) PROVE step'[r] \in Over \/ RestoreBegins(r)
  BY <1>10, OnlineStreamedDoes, DropsDoes, <1>0, Kinds DEF Over, database, promises
<1>11. ASSUME NEW p \in Ops, OnlineFiles(p) PROVE step'[r] \in Over \/ RestoreBegins(r)
  BY <1>11, OnlineFilesDoes, DropsDoes, <1>0, Kinds DEF Over, database, promises
<1>12. ASSUME NEW p \in Ops, OnlineCloses(p) PROVE step'[r] \in Over \/ RestoreBegins(r)
  BY <1>12, OnlineClosesDoes, <1>0, Kinds DEF Turn, Over, database, promises
<1>13. ASSUME NEW p \in Ops, SnapshotCopies(p) PROVE step'[r] \in Over \/ RestoreBegins(r)
  BY <1>13, SnapshotCopiesDoes, DropsDoes, OpensDoes, <1>0, Kinds DEF Over, database,
     promises
<1>14. ASSUME NEW p \in Ops, SnapshotFiles(p) PROVE step'[r] \in Over \/ RestoreBegins(r)
  BY <1>14, SnapshotFilesDoes, <1>0, Kinds DEF Turn, Over, database, promises
<1>15. ASSUME NEW p \in Ops, RestoreClears(p) PROVE step'[r] \in Over \/ RestoreBegins(r)
  BY <1>15, RestoreClearsDoes, <1>0, Kinds DEF Turn, Over, database, promises
<1>16. ASSUME NEW p \in Ops, RestoreCopies(p) PROVE step'[r] \in Over \/ RestoreBegins(r)
  BY <1>16, RestoreCopiesDoes, DropsDoes, OpensDoes, <1>0, Kinds DEF Over, database,
     promises
<1>17. ASSUME NEW p \in Ops, RestoreHolds(p) PROVE step'[r] \in Over \/ RestoreBegins(r)
  BY <1>17, RestoreHoldsDoes, DropsDoes, <1>0, Kinds DEF Over, database, promises,
     AfterQuiesce
<1>18. ASSUME NEW p \in Ops, SetAside(p) PROVE step'[r] \in Over \/ RestoreBegins(r)
  BY <1>18, SetAsideDoes, DropsDoes, <1>0, Kinds DEF Over, database, promises
<1>19. ASSUME NEW p \in Ops, Place(p) PROVE step'[r] \in Over \/ RestoreBegins(r)
  BY <1>19, PlaceDoes, <1>0, Kinds DEF Turn, Over, database, promises
<1>20. ASSUME NEW p \in Ops, PlaceFails(p) PROVE step'[r] \in Over \/ RestoreBegins(r)
  BY <1>20, PlaceFailsDoes, <1>0, Kinds DEF Turn, Over, database, promises
<1>21. ASSUME NEW p \in Ops, Clean(p) PROVE step'[r] \in Over \/ RestoreBegins(r)
  BY <1>21, CleanDoes, <1>0, Kinds DEF Turn, Over, database, promises
<1>22. ASSUME NEW p \in Ops, RestsBefore(p) PROVE step'[r] \in Over \/ RestoreBegins(r)
  BY <1>22, RestsBeforeDoes, DropsDoes, <1>0, Kinds DEF Over, database, promises
<1>23. ASSUME NEW p \in Ops, BranchCopies(p) PROVE step'[r] \in Over \/ RestoreBegins(r)
  BY <1>23, BranchCopiesDoes, DropsDoes, OpensDoes, <1>0, Kinds DEF Over, database, promises
<1>24. ASSUME NEW p \in Ops, RestsAfter(p) PROVE step'[r] \in Over \/ RestoreBegins(r)
  BY <1>24, RestsAfterDoes, DropsDoes, <1>0, Kinds DEF Over, database, promises
<1>25. ASSUME NEW p \in Ops, BranchCopied(p) PROVE step'[r] \in Over \/ RestoreBegins(r)
  BY <1>25, BranchCopiedDoes, DropsDoes, <1>0, Kinds DEF Over, database, promises
<1>26. ASSUME NEW p \in Ops, BranchEnds(p) PROVE step'[r] \in Over \/ RestoreBegins(r)
  BY <1>26, BranchEndsDoes, <1>0, Kinds DEF Over, database, promises
<1>27. ASSUME NEW p \in Ops, DeleteEnds(p) PROVE step'[r] \in Over \/ RestoreBegins(r)
  BY <1>27, DeleteEndsDoes, <1>0, Kinds DEF Turn, Over, database, promises
<1>28. ASSUME NEW p \in Ops, Slept(p) PROVE step'[r] \in Over \/ RestoreBegins(r)
  BY <1>28, SleptDoes, <1>0, Kinds DEF Turn, Over, database, promises
<1>29. ASSUME NEW p \in Ops, OnlineBegins(p) PROVE step'[r] \in Over \/ RestoreBegins(r)
  BY <1>29, OnlineBeginsDoes, <1>0, Kinds DEF Over, database, promises
<1>30. ASSUME NEW p \in Ops, SnapshotBegins(p) PROVE step'[r] \in Over \/ RestoreBegins(r)
  BY <1>30, SnapshotBeginsDoes, <1>0, Kinds DEF Over, database, promises, AfterQuiesce
<1>31. ASSUME NEW p \in Ops, RestoreBegins(p) PROVE step'[r] \in Over \/ RestoreBegins(r)
  BY <1>31, RestoreBeginsDoes, <1>0, Kinds DEF Over, database, promises
<1>32. ASSUME NEW p \in Ops, BranchBegins(p) PROVE step'[r] \in Over \/ RestoreBegins(r)
  BY <1>32, BranchBeginsDoes, <1>0, Kinds DEF Over, database, promises, AfterQuiesce
<1>33. ASSUME NEW p \in Ops, DeleteBegins(p) PROVE step'[r] \in Over \/ RestoreBegins(r)
  BY <1>33, DeleteBeginsDoes, <1>0, Kinds DEF Turn, Over, database, promises
<1>34. ASSUME NEW p \in Ops, SleepBegins(p) PROVE step'[r] \in Over \/ RestoreBegins(r)
  BY <1>34, SleepBeginsDoes, <1>0, Kinds DEF Turn, Over, database, promises
<1>35. ASSUME NEW p \in Ops, CloneBeginsAgain(p) PROVE step'[r] \in Over \/ RestoreBegins(r)
  BY <1>35, CloneBeginsAgainDoes, <1>0, Kinds DEF Over, database, promises
<1>36. CASE WakeBegins
  BY <1>36, WakeBeginsDoes, <1>0, Kinds DEF Over, database, promises
<1>37. CASE WakeBoots
  BY <1>37, WakeBootsDoes, <1>0, Kinds DEF Over, database, promises
<1>38. CASE WakeEnds
  BY <1>38, WakeEndsDoes, <1>0, Kinds DEF Over, database, promises
<1>39. CASE HibernatorStops
  BY <1>39, HibernatorStopsDoes, <1>0, Kinds DEF Over, database, promises
<1>40. CASE HibernatorStopped
  BY <1>40, HibernatorStoppedDoes, <1>0, Kinds DEF Over, database, promises
<1>41. CASE DaemonDies
  BY <1>41, DaemonDiesDoes, <1>0, Kinds DEF Over, database, promises
<1>42. CASE UNCHANGED vars
  BY <1>42, <1>0, Kinds DEF vars, database, promises, Over
<1>43. QED
  BY <1>1, <1>2, <1>3, <1>4, <1>5, <1>6, <1>7, <1>8, <1>9, <1>10, <1>11, <1>12, <1>13,
     <1>14, <1>15, <1>16, <1>17, <1>18, <1>19, <1>20, <1>21, <1>22, <1>23, <1>24, <1>25,
     <1>26, <1>27, <1>28, <1>29, <1>30, <1>31, <1>32, <1>33, <1>34, <1>35, <1>36, <1>37,
     <1>38, <1>39, <1>40, <1>41, <1>42 DEF Next, Begin, Proceed, Surroundings

\* What comes about in one way only.
Entering ==
    /\ \A r \in Restores : step'[r] \in Staged => step[r] \in Staged \/ CloneEnds(r)
    /\ \A d \in Deletes : step'[d] = "deleting" => step[d] = "deleting" \/ DeleteBegins(d)
    /\ \A q \in Ops : step'[q] \in {"starting", "booting"} =>
                         step[q] \in {"starting", "booting"} \/ Resume(q)
    /\ \A h \in Offlines \cup Restores :
           step'[h] \in ColdStages =>
               \/ step[h] \in ColdStages
               \/ Quiesced(h) /\ row' = "sleeping"
               \/ hold = Nobody
               \/ h \in Restores /\ step[h] = "clearing"
    /\ waking' # "none" => waking # "none" \/ ~Fenced
    /\ \A h \in Offlines \cup Restores :
           hold' = h => \/ hold = h
                        \/ /\ Unsettled => ~Settled(h)'
                           /\ step'[h] \in ColdStages => row # "running"
                           /\ UNCHANGED <<row, box, waking>>
                           /\ \A q \in Ops \ {h} : step'[q] = step[q]

\* How they come about.
LEMMA Enters ==
    ASSUME TypeInv, [Next]_vars
    PROVE  Entering
<1>0. Plain /\ step \in [Ops -> Ats] /\ Restores \subseteq Ops /\ Deletes \subseteq Ops
      /\ Offlines \subseteq Ops
  BY DEF TypeInv, Stages, Ops, Copiers
<1>1. ASSUME NEW p \in Ops, GuardSaysIdle(p) PROVE Entering
  BY <1>1, GuardSaysIdleDoes, <1>0, Kinds DEF Turn, Entering, Staged, ColdStages, database
<1>2. ASSUME NEW p \in Ops, GuardRefuses(p) PROVE Entering
  BY <1>2, GuardRefusesDoes, DropsDoes, <1>0, Kinds DEF Entering, Staged, ColdStages,
     database
<1>3. ASSUME NEW p \in Ops, Quiesced(p) PROVE Entering
  BY <1>3, QuiescedDoes, DropsDoes, <1>0, Kinds DEF Entering, Staged, ColdStages, database,
     AfterQuiesce, Pausing
<1>4. ASSUME NEW p \in Ops, Resume(p) PROVE Entering
  BY <1>4, ResumeDoes, <1>0, Kinds DEF Turn, Entering, Staged, ColdStages, database
<1>5. ASSUME NEW p \in Ops, ResumeBoots(p) PROVE Entering
  BY <1>5, ResumeBootsDoes, <1>0, Kinds DEF Turn, Entering, Staged, ColdStages, database
<1>6. ASSUME NEW p \in Ops, Resumed(p) PROVE Entering
  BY <1>6, ResumedDoes, <1>0, Kinds DEF Entering, Staged, ColdStages, database, Ended
<1>7. ASSUME NEW p \in Ops, CloneEnds(p) PROVE Entering
  BY <1>7, CloneEndsDoes, <1>0, Kinds DEF Turn, Entering, Staged, ColdStages, database,
     Copied
<1>8. ASSUME NEW p \in Ops, CloneFails(p) PROVE Entering
  BY <1>8, CloneFailsDoes, DropsDoes, <1>0, Kinds DEF Entering, Staged, ColdStages, database
<1>9. ASSUME NEW p \in Ops, OnlineCopies(p) PROVE Entering
  BY <1>9, OnlineCopiesDoes, DropsDoes, OpensDoes, <1>0, Kinds DEF Entering, Staged,
     ColdStages, database
<1>10. ASSUME NEW p \in Ops, OnlineStreamed(p) PROVE Entering
  BY <1>10, OnlineStreamedDoes, DropsDoes, <1>0, Kinds DEF Entering, Staged, ColdStages,
     database
<1>11. ASSUME NEW p \in Ops, OnlineFiles(p) PROVE Entering
  BY <1>11, OnlineFilesDoes, DropsDoes, <1>0, Kinds DEF Entering, Staged, ColdStages,
     database
<1>12. ASSUME NEW p \in Ops, OnlineCloses(p) PROVE Entering
  BY <1>12, OnlineClosesDoes, <1>0, Kinds DEF Turn, Entering, Staged, ColdStages, database
<1>13. ASSUME NEW p \in Ops, SnapshotCopies(p) PROVE Entering
  BY <1>13, SnapshotCopiesDoes, DropsDoes, OpensDoes, <1>0, Kinds DEF Entering, Staged,
     ColdStages, database
<1>14. ASSUME NEW p \in Ops, SnapshotFiles(p) PROVE Entering
  BY <1>14, SnapshotFilesDoes, <1>0, Kinds DEF Turn, Entering, Staged, ColdStages, database
<1>15. ASSUME NEW p \in Ops, RestoreClears(p) PROVE Entering
  BY <1>15, RestoreClearsDoes, <1>0, Kinds DEF Turn, Entering, Staged, ColdStages, database
<1>16. ASSUME NEW p \in Ops, RestoreCopies(p) PROVE Entering
  BY <1>16, RestoreCopiesDoes, DropsDoes, OpensDoes, <1>0, Kinds DEF Entering, Staged,
     ColdStages, database
<1>17. ASSUME NEW p \in Ops, RestoreHolds(p) PROVE Entering
  BY <1>17, RestoreHoldsDoes, DropsDoes, <1>0, Kinds DEF Entering, Staged, ColdStages,
     database, AfterQuiesce
<1>18. ASSUME NEW p \in Ops, SetAside(p) PROVE Entering
  BY <1>18, SetAsideDoes, DropsDoes, <1>0, Kinds DEF Entering, Staged, ColdStages, database
<1>19. ASSUME NEW p \in Ops, Place(p) PROVE Entering
  BY <1>19, PlaceDoes, <1>0, Kinds DEF Turn, Entering, Staged, ColdStages, database
<1>20. ASSUME NEW p \in Ops, PlaceFails(p) PROVE Entering
  BY <1>20, PlaceFailsDoes, <1>0, Kinds DEF Turn, Entering, Staged, ColdStages, database
<1>21. ASSUME NEW p \in Ops, Clean(p) PROVE Entering
  BY <1>21, CleanDoes, <1>0, Kinds DEF Turn, Entering, Staged, ColdStages, database
<1>22. ASSUME NEW p \in Ops, RestsBefore(p) PROVE Entering
  BY <1>22, RestsBeforeDoes, DropsDoes, <1>0, Kinds DEF Entering, Staged, ColdStages,
     database
<1>23. ASSUME NEW p \in Ops, BranchCopies(p) PROVE Entering
  BY <1>23, BranchCopiesDoes, DropsDoes, OpensDoes, <1>0, Kinds DEF Entering, Staged,
     ColdStages, database
<1>24. ASSUME NEW p \in Ops, RestsAfter(p) PROVE Entering
  BY <1>24, RestsAfterDoes, DropsDoes, <1>0, Kinds DEF Entering, Staged, ColdStages,
     database
<1>25. ASSUME NEW p \in Ops, BranchCopied(p) PROVE Entering
  BY <1>25, BranchCopiedDoes, DropsDoes, <1>0, Kinds DEF Entering, Staged, ColdStages,
     database
<1>26. ASSUME NEW p \in Ops, BranchEnds(p) PROVE Entering
  BY <1>26, BranchEndsDoes, <1>0, Kinds DEF Entering, Staged, ColdStages, database
<1>27. ASSUME NEW p \in Ops, DeleteEnds(p) PROVE Entering
  BY <1>27, DeleteEndsDoes, <1>0, Kinds DEF Turn, Entering, Staged, ColdStages, database
<1>28. ASSUME NEW p \in Ops, Slept(p) PROVE Entering
  BY <1>28, SleptDoes, <1>0, Kinds DEF Turn, Entering, Staged, ColdStages, database
<1>29. ASSUME NEW p \in Ops, OnlineBegins(p) PROVE Entering
  BY <1>29, OnlineBeginsDoes, <1>0, Kinds DEF Entering, Staged, ColdStages, database
<1>30. ASSUME NEW p \in Ops, SnapshotBegins(p) PROVE Entering
  BY <1>30, SnapshotBeginsDoes, <1>0, Kinds DEF Entering, Staged, ColdStages, database,
     AfterQuiesce
<1>31. ASSUME NEW p \in Ops, RestoreBegins(p) PROVE Entering
  BY <1>31, RestoreBeginsDoes, <1>0, Kinds DEF Entering, Staged, ColdStages, database
<1>32. ASSUME NEW p \in Ops, BranchBegins(p) PROVE Entering
  BY <1>32, BranchBeginsDoes, <1>0, Kinds DEF Entering, Staged, ColdStages, database,
     AfterQuiesce
<1>33. ASSUME NEW p \in Ops, DeleteBegins(p) PROVE Entering
  BY <1>33, DeleteBeginsDoes, <1>0, Kinds DEF Turn, Entering, Staged, ColdStages, database
<1>34. ASSUME NEW p \in Ops, SleepBegins(p) PROVE Entering
  BY <1>34, SleepBeginsDoes, <1>0, Kinds DEF Turn, Entering, Staged, ColdStages, database
<1>35. ASSUME NEW p \in Ops, CloneBeginsAgain(p) PROVE Entering
  BY <1>35, CloneBeginsAgainDoes, <1>0, Kinds DEF Entering, Staged, ColdStages, database
<1>36. CASE WakeBegins
  BY <1>36, WakeBeginsDoes, <1>0, Kinds DEF Entering, Staged, ColdStages, database
<1>37. CASE WakeBoots
  BY <1>37, WakeBootsDoes, <1>0, Kinds DEF Entering, Staged, ColdStages, database
<1>38. CASE WakeEnds
  BY <1>38, WakeEndsDoes, <1>0, Kinds DEF Entering, Staged, ColdStages, database
<1>39. CASE HibernatorStops
  BY <1>39, HibernatorStopsDoes, <1>0, Kinds DEF Entering, Staged, ColdStages, database
<1>40. CASE HibernatorStopped
  BY <1>40, HibernatorStoppedDoes, <1>0, Kinds DEF Entering, Staged, ColdStages, database
<1>41. CASE DaemonDies
  BY <1>41, DaemonDiesDoes, <1>0, Kinds DEF Entering, Staged, ColdStages, database
<1>42. CASE UNCHANGED vars
  BY <1>42, <1>0, Kinds DEF vars, database, promises, Entering, Staged, ColdStages
<1>43. QED
  BY <1>1, <1>2, <1>3, <1>4, <1>5, <1>6, <1>7, <1>8, <1>9, <1>10, <1>11, <1>12, <1>13,
     <1>14, <1>15, <1>16, <1>17, <1>18, <1>19, <1>20, <1>21, <1>22, <1>23, <1>24, <1>25,
     <1>26, <1>27, <1>28, <1>29, <1>30, <1>31, <1>32, <1>33, <1>34, <1>35, <1>36, <1>37,
     <1>38, <1>39, <1>40, <1>41, <1>42 DEF Next, Begin, Proceed, Surroundings

LEMMA StaysUncrossed ==
    ASSUME Uncrossed', [Next]_vars
    PROVE  Uncrossed
BY ExcusesGrow DEF Uncrossed

LEMMA LoneStep ==
    ASSUME TypeInv, Lone, Uncrossed', [Next]_vars
    PROVE  Lone'
<1> SUFFICES ASSUME NEW p \in Restores, NEW q \in Restores, Of[p] = Of[q],
                    step'[p] \notin Over, step'[q] \notin Over, p # q
             PROVE  FALSE
  BY DEF Lone
<1>1. step \in [Ops -> Ats] /\ p \in Ops /\ q \in Ops
  BY DEF TypeInv, Stages, Ops, Copiers
<1>2. ASSUME NEW r \in Restores, NEW s \in Restores, r # s, Of[r] = Of[s], step[r] \in Over,
             step'[r] \notin Over, step'[s] \notin Over
      PROVE  FALSE
  <2>1. RestoreBegins(r) /\ r \in Ops
    BY <1>2, Awakens DEF Ops, Copiers
  <2>2. PICK to \in {"clearing", "failed"} : step' = [step EXCEPT ![r] = to]
    BY <2>1, RestoreBeginsDoes
  <2>3. step[s] \notin Over
    BY <1>1, <1>2, <2>2
  <2>4. s \in Rivals(r)
    BY <1>2, <2>3 DEF Rivals
  <2>5. QED
    BY <2>1, <2>4, RestoreBeginsDoes
<1>3. QED
  BY <1>2 DEF Lone

LEMMA NoneSpoiled ==
    ASSUME TypeInv, WholeInv, Uncrossed', [Next]_vars, NEW r \in Restores
    PROVE  r \notin spoiled'
<1>1. /\ Lone /\ r \notin spoiled /\ mount \in Asides /\ Live \in Asides /\ Plain /\ r \in Copiers
      /\ Of[r] \in Snapshots /\ From(r) = Snap(Of[r]) /\ From(r) \notin Asides
  BY StaysUncrossed, Ways, Outside DEF WholeInv, TypeInv, Disks, Asides, Copiers
<1>2. ASSUME NEW p \in Ops, Touches(p), r \in spoiled' PROVE FALSE
  <2>1. CASE r \in Cloning \ {p} /\ p \in Copiers /\ step[p] \notin Over /\ To(r) = To(p)
    BY <1>1, <2>1, Destinations DEF Lone, Cloning, Over
  <2>2. CASE DeleteBegins(p) /\ From(r) = Snap(Of[p])
    BY <1>1, <2>2, DeleteBeginsDoes, Apart
  <2>3. QED
    BY <1>1, <1>2, <2>1, <2>2, Spoils
<1>3. ASSUME Surroundings PROVE r \notin spoiled'
  <2>1. CASE DaemonDies
    BY <2>1, DaemonDiesDoes
  <2>2. CASE WakeBoots
    BY <1>1, <2>2, WakeBootsDoes, BootDoes DEF ReadersOf
  <2>3. QED
    BY <1>1, <1>3, <2>1, <2>2, SurroundingsTouch
<1>4. QED
  BY <1>1, <1>2, <1>3, DiskEffects DEF Next, vars

\* The daemon's surroundings reach the live directory at most.
LEMMA SurroundingsReach ==
    ASSUME TypeInv, Surroundings \/ UNCHANGED vars, NEW place \in Places, place # Live
    PROVE  disk'[place] = disk[place]
<1>1. CASE disk' = disk
  BY <1>1
<1>2. CASE WakeBoots
  <2>1. Plain /\ Boot /\ disk \in [Places -> Directories \cup {Absent}]
    BY <1>2, WakeBootsDoes DEF TypeInv, Disks
  <2>2. QED
    BY <2>1, BootDoes
<1>3. QED
  BY <1>1, <1>2, SurroundingsTouch DEF vars

LEMMA SnapsStay ==
    ASSUME TypeInv, WholeInv, Uncrossed', [Next]_vars, NEW r \in Restores
    PROVE  disk'[Snap(Of[r])] = disk[Snap(Of[r])]
<1>1. /\ Of[r] \in Snapshots /\ Snap(Of[r]) \in Places \ Asides /\ Live \in Asides
      /\ \A d \in Deletes : step[d] = "deleting" => Of[d] # Of[r]
  BY StaysUncrossed, Ways, Outside DEF WholeInv, Asides
<1>2. ASSUME NEW p \in Ops, Touches(p), disk'[Snap(Of[r])] # disk[Snap(Of[r])] PROVE FALSE
  <2>1. CASE p \in Copiers /\ Snap(Of[r]) = To(p)
    BY <2>1, Ways, Apart
  <2>2. CASE p \in Deletes /\ (DeleteBegins(p) \/ step[p] = "deleting") /\ Snap(Of[r]) = Snap(Of[p])
    BY <1>1, <2>2, DeleteBeginsDoes, Apart
  <2>3. QED
    BY <1>1, <1>2, <2>1, <2>2, Reaches
<1>3. ASSUME Surroundings \/ UNCHANGED vars PROVE disk'[Snap(Of[r])] = disk[Snap(Of[r])]
  BY <1>1, <1>3, SurroundingsReach
<1>4. QED
  BY <1>2, <1>3, DiskEffects DEF Next

LEMMA StagedStep ==
    ASSUME TypeInv, WholeInv, Uncrossed', [Next]_vars, NEW r \in Restores, step'[r] \in Staged
    PROVE  Whole(Staging(Of[r]))'
<1>1. /\ Lone /\ r \notin spoiled /\ r \in Copiers /\ r \in Ops /\ Whole(Snap(Of[r]))
      /\ Of[r] \in Snapshots /\ To(r) = Staging(Of[r]) /\ From(r) = Snap(Of[r])
      /\ To(r) \in Places \ Asides /\ Live \in Asides
      /\ (step[r] \in Staged => Whole(Staging(Of[r])))
      /\ disk \in [Places -> Directories \cup {Absent}] /\ step \in [Ops -> Ats]
  BY StaysUncrossed, Ways, Outside DEF WholeInv, TypeInv, Stages, Disks, Asides, Copiers, Ops
<1>2. CASE CloneEnds(r)
  <2>1. disk'[To(r)] = disk[Snap(Of[r])]
    BY <1>1, <1>2, CloneEndsDoes
  <2>2. QED
    BY <1>1, <2>1 DEF Whole
<1>3. CASE step[r] \in Staged
  <2>1. ASSUME NEW p \in Ops, Touches(p), disk'[To(r)] # disk[To(r)] PROVE FALSE
    <3>1. CASE /\ p \in Copiers /\ step[p] \notin Over /\ To(r) = To(p)
               /\ (step'[p] \notin Staged \/ CloneEnds(p))
      <4>1. p = r
        BY <1>1, <1>3, <3>1, Destinations DEF Lone, Staged, Over
      <4>2. step[r] = "cloning"
        BY <3>1, <4>1, CloneEndsDoes DEF Turn
      <4>3. QED
        BY <1>3, <4>2 DEF Staged
    <3>2. CASE p \in Deletes /\ To(r) = Snap(Of[p])
      BY <1>1, <3>2, StorageNumbers, Apart
    <3>3. QED
      BY <1>1, <2>1, <3>1, <3>2, Reaches
  <2>2. ASSUME Surroundings \/ UNCHANGED vars PROVE disk'[To(r)] = disk[To(r)]
    BY <1>1, <2>2, SurroundingsReach
  <2>3. disk'[To(r)] = disk[To(r)]
    BY <2>1, <2>2, DiskEffects DEF Next
  <2>4. QED
    BY <1>1, <1>3, <2>3 DEF Whole
<1>4. QED
  BY <1>2, <1>3, Enters DEF Entering

LEMMA AsidesWhole ==
    ASSUME TypeInv, WholeInv, Uncrossed', [Next]_vars, NEW place \in Asides, disk'[place] # Absent
    PROVE  Whole(place)'
<1>1. /\ \A a \in Asides : disk[a] # Absent => disk[a].whole
      /\ \A r \in Restores : step[r] = "placing" => disk[To(r)].whole
      /\ \A r \in Restores : To(r) \notin Asides /\ To(r) \in Places /\ Aside(Of[r]) \in Asides
                             /\ Aside(Of[r]) # Live
      /\ disk \in [Places -> Directories \cup {Absent}] /\ Live \in Asides /\ Asides \subseteq Places
      /\ Plain
  <2>1. \A r \in Restores : Of[r] \in Snapshots /\ r \in Copiers
    BY Ways DEF Copiers
  <2>2. QED
    BY <2>1, StaysUncrossed, Ways, Outside, Apart
    DEF WholeInv, Whole, Staged, TypeInv, Disks, Asides
<1> SUFFICES disk'[place].whole
  BY DEF Whole
<1>2. CASE disk'[place] = disk[place]
  BY <1>1, <1>2
<1>3. CASE Boot
  <2>1. CASE disk' = disk
    BY <1>1, <2>1
  <2>2. CASE disk' = [disk EXCEPT ![Live] = [data |-> "empty", whole |-> TRUE]]
    <3>1. CASE place = Live
      <4>1. disk'[place] = [data |-> "empty", whole |-> TRUE]
        BY <1>1, <2>2, <3>1
      <4>2. QED
        BY <4>1
    <3>2. CASE place # Live
      BY <1>1, <1>2, <2>2, <3>2
    <3>3. QED
      BY <3>1, <3>2
  <2>3. QED
    BY <1>1, <1>3, <2>1, <2>2, BootDoes
<1>4. ASSUME NEW p \in Ops, Begin(p) \/ Proceed(p) \/ CloneBeginsAgain(p) PROVE disk'[place].whole
  <2>1. CASE AsidesStay
    BY <1>2, <2>1 DEF AsidesStay
  <2>2. CASE ResumeBoots(p)
    BY <1>3, <2>2, ResumeBootsDoes
  <2>3. CASE SetAside(p)
    <3>1. CASE Drops(p)
      <4>1. p \in Copiers /\ disk' = [disk EXCEPT ![To(p)] = Absent] /\ p \in Restores
        BY <2>3, <3>1, SetAsideDoes, DropsDoes, Kinds DEF Removed
      <4>2. QED
        BY <1>1, <1>2, <4>1
    <3>2. CASE disk' = disk
      BY <1>2, <3>2
    <3>3. CASE /\ p \in Restores /\ disk[Live] # Absent
               /\ disk' = [disk EXCEPT ![Aside(Of[p])] = disk[Live], ![Live] = Absent]
      BY <1>1, <3>3
    <3>4. QED
      BY <2>3, <3>1, <3>2, <3>3, SetAsideDoes
  <2>4. CASE Place(p)
    BY <1>1, <2>4, PlaceDoes DEF Turn
  <2>5. CASE PlaceFails(p)
    <3>1. p \in Restores
      BY <2>5, PlaceFailsDoes
    <3>2. CASE disk' = Removed(p)
      BY <1>1, <3>1, <3>2 DEF Removed
    <3>3. CASE disk' = Undone(p)
      BY <1>1, <3>1, <3>3 DEF Undone
    <3>4. QED
      BY <2>5, <3>2, <3>3, PlaceFailsDoes
  <2>6. CASE Clean(p)
    BY <1>1, <2>6, CleanDoes
  <2>7. QED
    BY <1>4, <2>1, <2>2, <2>3, <2>4, <2>5, <2>6, DiskEffects, AsidesAre
<1>5. CASE Surroundings \/ UNCHANGED vars
  <2>1. CASE place # Live
    BY <1>1, <1>2, <1>5, <2>1, SurroundingsReach
  <2>2. CASE UNCHANGED disk
    BY <1>2, <2>2
  <2>3. CASE WakeBoots
    BY <1>3, <2>3, WakeBootsDoes
  <2>4. QED
    BY <1>5, <2>1, <2>2, <2>3, SurroundingsTouch DEF vars
<1>6. QED
  BY <1>4, <1>5 DEF Next

\* As long as no restore was crossed, all that a database may be started on is whole.
LEMMA WholeStep ==
    ASSUME TypeInv, WholeInv, [Next]_vars
    PROVE  WholeInv'
<1> SUFFICES ASSUME Uncrossed' PROVE WholeInv'
  BY DEF WholeInv
<1>0. Uncrossed
  BY StaysUncrossed
<1>1. Lone'
  BY <1>0, LoneStep DEF WholeInv
<1>2. \A r \in Restores : r \notin spoiled'
  BY NoneSpoiled
<1>3. \A r \in Restores : Whole(Snap(Of[r]))'
  BY <1>0, SnapsStay DEF WholeInv, Whole
<1>4. ASSUME NEW r \in Restores, NEW d \in Deletes, step'[d] = "deleting" PROVE Of[d] # Of[r]
  <2>1. CASE step[d] = "deleting"
    BY <1>0, <2>1 DEF WholeInv
  <2>2. CASE DeleteBegins(d)
    BY <2>2, DeleteBeginsDoes DEF Ops
  <2>3. QED
    BY <1>4, <2>1, <2>2, Enters DEF Entering
<1>5. \A r \in Restores : step'[r] \in Staged => Whole(Staging(Of[r]))'
  BY StagedStep
<1>6. \A place \in Asides : disk'[place] # Absent => Whole(place)'
  BY AsidesWhole
<1>7. QED
  BY <1>1, <1>2, <1>3, <1>4, <1>5, <1>6 DEF WholeInv

-----------------------------------------------------------------------------
(* The database sleeps while a snapshot or a restore works on it.          *)

\* A container runs only after a boot.
LEMMA BoxStays ==
    ASSUME TypeInv, [Next]_vars
    PROVE  (box' => box) \/ WakeBoots \/ \E q \in Ops : ResumeBoots(q)
<1>0. Plain
  BY DEF TypeInv
<1>1. ASSUME NEW p \in Ops, GuardSaysIdle(p) PROVE (box' => box) \/ ResumeBoots(p)
  BY <1>1, GuardSaysIdleDoes, <1>0 DEF Turn, database, promises
<1>2. ASSUME NEW p \in Ops, GuardRefuses(p) PROVE (box' => box) \/ ResumeBoots(p)
  BY <1>2, GuardRefusesDoes, DropsDoes, <1>0 DEF database, promises
<1>3. ASSUME NEW p \in Ops, Quiesced(p) PROVE (box' => box) \/ ResumeBoots(p)
  BY <1>3, QuiescedDoes, DropsDoes, <1>0, StoppedMeans DEF database, promises
<1>4. ASSUME NEW p \in Ops, Resume(p) PROVE (box' => box) \/ ResumeBoots(p)
  BY <1>4, ResumeDoes, <1>0 DEF Turn, database, promises
<1>5. ASSUME NEW p \in Ops, ResumeBoots(p) PROVE (box' => box) \/ ResumeBoots(p)
  BY <1>5, ResumeBootsDoes, <1>0 DEF Turn, database, promises
<1>6. ASSUME NEW p \in Ops, Resumed(p) PROVE (box' => box) \/ ResumeBoots(p)
  BY <1>6, ResumedDoes, <1>0, StartedMeans DEF database, promises
<1>7. ASSUME NEW p \in Ops, CloneEnds(p) PROVE (box' => box) \/ ResumeBoots(p)
  BY <1>7, CloneEndsDoes, <1>0 DEF Turn, database, promises
<1>8. ASSUME NEW p \in Ops, CloneFails(p) PROVE (box' => box) \/ ResumeBoots(p)
  BY <1>8, CloneFailsDoes, DropsDoes, <1>0 DEF database, promises
<1>9. ASSUME NEW p \in Ops, OnlineCopies(p) PROVE (box' => box) \/ ResumeBoots(p)
  BY <1>9, OnlineCopiesDoes, DropsDoes, OpensDoes, <1>0 DEF database, promises
<1>10. ASSUME NEW p \in Ops, OnlineStreamed(p) PROVE (box' => box) \/ ResumeBoots(p)
  BY <1>10, OnlineStreamedDoes, DropsDoes, <1>0 DEF database, promises
<1>11. ASSUME NEW p \in Ops, OnlineFiles(p) PROVE (box' => box) \/ ResumeBoots(p)
  BY <1>11, OnlineFilesDoes, DropsDoes, <1>0 DEF database, promises
<1>12. ASSUME NEW p \in Ops, OnlineCloses(p) PROVE (box' => box) \/ ResumeBoots(p)
  BY <1>12, OnlineClosesDoes, <1>0 DEF Turn, database, promises
<1>13. ASSUME NEW p \in Ops, SnapshotCopies(p) PROVE (box' => box) \/ ResumeBoots(p)
  BY <1>13, SnapshotCopiesDoes, DropsDoes, OpensDoes, <1>0 DEF database, promises
<1>14. ASSUME NEW p \in Ops, SnapshotFiles(p) PROVE (box' => box) \/ ResumeBoots(p)
  BY <1>14, SnapshotFilesDoes, <1>0 DEF Turn, database, promises
<1>15. ASSUME NEW p \in Ops, RestoreClears(p) PROVE (box' => box) \/ ResumeBoots(p)
  BY <1>15, RestoreClearsDoes, <1>0 DEF Turn, database, promises
<1>16. ASSUME NEW p \in Ops, RestoreCopies(p) PROVE (box' => box) \/ ResumeBoots(p)
  BY <1>16, RestoreCopiesDoes, DropsDoes, OpensDoes, <1>0 DEF database, promises
<1>17. ASSUME NEW p \in Ops, RestoreHolds(p) PROVE (box' => box) \/ ResumeBoots(p)
  BY <1>17, RestoreHoldsDoes, DropsDoes, <1>0 DEF database, promises
<1>18. ASSUME NEW p \in Ops, SetAside(p) PROVE (box' => box) \/ ResumeBoots(p)
  BY <1>18, SetAsideDoes, DropsDoes, <1>0 DEF database, promises
<1>19. ASSUME NEW p \in Ops, Place(p) PROVE (box' => box) \/ ResumeBoots(p)
  BY <1>19, PlaceDoes, <1>0 DEF Turn, database, promises
<1>20. ASSUME NEW p \in Ops, PlaceFails(p) PROVE (box' => box) \/ ResumeBoots(p)
  BY <1>20, PlaceFailsDoes, <1>0 DEF Turn, database, promises
<1>21. ASSUME NEW p \in Ops, Clean(p) PROVE (box' => box) \/ ResumeBoots(p)
  BY <1>21, CleanDoes, <1>0 DEF Turn, database, promises
<1>22. ASSUME NEW p \in Ops, RestsBefore(p) PROVE (box' => box) \/ ResumeBoots(p)
  BY <1>22, RestsBeforeDoes, DropsDoes, <1>0 DEF database, promises
<1>23. ASSUME NEW p \in Ops, BranchCopies(p) PROVE (box' => box) \/ ResumeBoots(p)
  BY <1>23, BranchCopiesDoes, DropsDoes, OpensDoes, <1>0 DEF database, promises
<1>24. ASSUME NEW p \in Ops, RestsAfter(p) PROVE (box' => box) \/ ResumeBoots(p)
  BY <1>24, RestsAfterDoes, DropsDoes, <1>0 DEF database, promises
<1>25. ASSUME NEW p \in Ops, BranchCopied(p) PROVE (box' => box) \/ ResumeBoots(p)
  BY <1>25, BranchCopiedDoes, DropsDoes, <1>0 DEF database, promises
<1>26. ASSUME NEW p \in Ops, BranchEnds(p) PROVE (box' => box) \/ ResumeBoots(p)
  BY <1>26, BranchEndsDoes, <1>0 DEF database, promises
<1>27. ASSUME NEW p \in Ops, DeleteEnds(p) PROVE (box' => box) \/ ResumeBoots(p)
  BY <1>27, DeleteEndsDoes, <1>0 DEF Turn, database, promises
<1>28. ASSUME NEW p \in Ops, Slept(p) PROVE (box' => box) \/ ResumeBoots(p)
  BY <1>28, SleptDoes, <1>0, StoppedMeans DEF Turn, database, promises
<1>29. ASSUME NEW p \in Ops, OnlineBegins(p) PROVE (box' => box) \/ ResumeBoots(p)
  BY <1>29, OnlineBeginsDoes, <1>0 DEF database, promises
<1>30. ASSUME NEW p \in Ops, SnapshotBegins(p) PROVE (box' => box) \/ ResumeBoots(p)
  BY <1>30, SnapshotBeginsDoes, <1>0 DEF database, promises
<1>31. ASSUME NEW p \in Ops, RestoreBegins(p) PROVE (box' => box) \/ ResumeBoots(p)
  BY <1>31, RestoreBeginsDoes, <1>0 DEF database, promises
<1>32. ASSUME NEW p \in Ops, BranchBegins(p) PROVE (box' => box) \/ ResumeBoots(p)
  BY <1>32, BranchBeginsDoes, <1>0 DEF database, promises
<1>33. ASSUME NEW p \in Ops, DeleteBegins(p) PROVE (box' => box) \/ ResumeBoots(p)
  BY <1>33, DeleteBeginsDoes, <1>0 DEF Turn, database, promises
<1>34. ASSUME NEW p \in Ops, SleepBegins(p) PROVE (box' => box) \/ ResumeBoots(p)
  BY <1>34, SleepBeginsDoes, <1>0 DEF Turn, database, promises
<1>35. ASSUME NEW p \in Ops, CloneBeginsAgain(p) PROVE (box' => box) \/ ResumeBoots(p)
  BY <1>35, CloneBeginsAgainDoes, <1>0 DEF database, promises
<1>36. CASE WakeBegins
  BY <1>36, WakeBeginsDoes, <1>0 DEF database, promises
<1>37. CASE WakeBoots
  BY <1>37, WakeBootsDoes, <1>0 DEF database, promises
<1>38. CASE WakeEnds
  BY <1>38, WakeEndsDoes, <1>0, StartedMeans DEF database, promises
<1>39. CASE HibernatorStops
  BY <1>39, HibernatorStopsDoes, <1>0 DEF database, promises
<1>40. CASE HibernatorStopped
  BY <1>40, HibernatorStoppedDoes, <1>0, StoppedMeans DEF database, promises
<1>41. CASE DaemonDies
  BY <1>41, DaemonDiesDoes, <1>0 DEF database, promises
<1>42. CASE UNCHANGED vars
  BY <1>42, <1>0 DEF vars, database, promises
<1>43. QED
  BY <1>1, <1>2, <1>3, <1>4, <1>5, <1>6, <1>7, <1>8, <1>9, <1>10, <1>11, <1>12, <1>13,
     <1>14, <1>15, <1>16, <1>17, <1>18, <1>19, <1>20, <1>21, <1>22, <1>23, <1>24, <1>25,
     <1>26, <1>27, <1>28, <1>29, <1>30, <1>31, <1>32, <1>33, <1>34, <1>35, <1>36, <1>37,
     <1>38, <1>39, <1>40, <1>41, <1>42 DEF Next, Begin, Proceed, Surroundings

\* What holds the project keeps the database down: a snapshot or a restore that found it
\* settled, and was not overtaken by a branch.
LEMMA ColdStep ==
    ASSUME TypeInv, Holders, Cold, [Next]_vars
    PROVE  Cold'
<1> SUFFICES ASSUME NEW h \in Offlines \cup Restores, hold' = h, Settled(h)' PROVE ColdBy(h)'
  BY DEF Cold
<1>0. Plain /\ step \in [Ops -> Ats] /\ h \in Ops /\ h \in Copiers /\ h # Nobody /\ h \notin Onlines
      /\ h \notin Branches /\ Settled(h)
  BY ExcusesGrow, Kinds DEF TypeInv, Stages, Ops, Copiers, Settled
<1>1. CASE hold = h
  <2>1. ColdBy(h) /\ Fenced
    BY <1>0, <1>1 DEF Cold, Fenced
  <2>2. waking' = "none"
    BY <2>1, Enters DEF Entering, ColdBy
  <2>3. ASSUME NEW q \in Ops \ {h}, step'[q] \in {"starting", "booting"} PROVE FALSE
    <3>1. Resume(q)
      BY <2>1, <2>3, Enters DEF Entering, ColdBy
    <3>2. q \in Pausing /\ q \in stopped /\ step[q] = "finally" /\ (q \in Branches => ~Settled(h)')
      BY <1>1, <2>1, <3>1, ResumeDoes DEF Turn
    <3>3. q \in Offlines \/ q \in Restores
      BY <3>2 DEF Pausing
    <3>4. hold = q
      BY <3>2, <3>3 DEF Holders, Over
    <3>5. QED
      BY <1>1, <2>3, <3>4
  <2>4. ASSUME step'[h] \in ColdStages PROVE ~box'
    <3>1. CASE step[h] \in ColdStages
      <4>1. ~WakeBoots
        BY <2>1, WakeBootsDoes DEF ColdBy
      <4>2. ASSUME NEW q \in Ops, ResumeBoots(q) PROVE FALSE
        <5>1. step[q] = "starting"
          BY <4>2, ResumeBootsDoes DEF Turn
        <5>2. QED
          BY <2>1, <3>1, <5>1 DEF ColdBy, ColdStages
      <4>3. QED
        BY <2>1, <3>1, <4>1, <4>2, BoxStays DEF ColdBy
    <3>2. CASE Quiesced(h) /\ row' = "sleeping"
      BY <1>0, <3>2, QuiescedDoes, StoppedMeans
    <3>3. CASE h \in Restores /\ step[h] = "clearing"
      BY <1>1, <3>3 DEF Holders, HeldStages
    <3>4. QED
      BY <1>0, <1>1, <2>4, <3>1, <3>2, <3>3, Enters DEF Entering
  <2>5. QED
    BY <2>2, <2>3, <2>4 DEF ColdBy
<1>2. CASE hold # h
  <2>1. /\ ~Unsettled /\ (step'[h] \in ColdStages => row # "running") /\ UNCHANGED <<row, box, waking>>
        /\ \A q \in Ops \ {h} : step'[q] = step[q]
    BY <1>2, Enters DEF Entering
  <2>2. waking = "none" /\ \A q \in Ops : step[q] \notin {"starting", "booting"}
    BY <2>1 DEF Unsettled, InFlight
  <2>3. row # "running" => ~box
    BY <1>0, <2>1 DEF Unsettled, Plain
  <2>4. waking' = waking /\ box' = box
    BY <2>1
  <2>5. step'[h] \in ColdStages => ~box'
    BY <2>1, <2>3, <2>4
  <2>6. QED
    BY <2>1, <2>2, <2>4, <2>5 DEF ColdBy
<1>3. QED
  BY <1>1, <1>2

\* Its server has the live directory open, as long as nothing was started meanwhile.
LEMMA MooredStep ==
    ASSUME TypeInv, Holders, Cold, Moored, Undisturbed', [Next]_vars
    PROVE  box' => mount' = Live
<1>0. Plain /\ (box => mount = Live)
      /\ \A p \in Restores : step[p] \in {"swapping", "placing"} => ~box
  <2>1. Undisturbed
    BY ExcusesGrow DEF Undisturbed, Settled
  <2>2. ASSUME NEW p \in Restores, step[p] \in {"swapping", "placing"} PROVE ~box
    <3>1. hold = p
      BY <2>2 DEF Holders, HeldStages
    <3>2. QED
      BY <2>1, <2>2, <3>1 DEF Undisturbed, Cold, ColdBy, ColdStages
  <2>3. QED
    BY <2>1, <2>2 DEF TypeInv, Moored
<1>1. ASSUME NEW p \in Ops, GuardSaysIdle(p) PROVE box' => mount' = Live
  BY <1>1, GuardSaysIdleDoes, <1>0, Kinds DEF Turn, HeldStages, ColdStages, ColdBy, database
<1>2. ASSUME NEW p \in Ops, GuardRefuses(p) PROVE box' => mount' = Live
  BY <1>2, GuardRefusesDoes, DropsDoes, <1>0, Kinds DEF HeldStages, ColdStages, ColdBy,
     database
<1>3. ASSUME NEW p \in Ops, Quiesced(p) PROVE box' => mount' = Live
  BY <1>3, QuiescedDoes, DropsDoes, <1>0, Kinds, StoppedMeans DEF HeldStages, ColdStages,
     ColdBy, database
<1>4. ASSUME NEW p \in Ops, Resume(p) PROVE box' => mount' = Live
  BY <1>4, ResumeDoes, <1>0, Kinds DEF Turn, HeldStages, ColdStages, ColdBy, database
<1>5. ASSUME NEW p \in Ops, ResumeBoots(p) PROVE box' => mount' = Live
  BY <1>5, ResumeBootsDoes, <1>0, Kinds, BootDoes DEF Turn, HeldStages, ColdStages, ColdBy,
     database
<1>6. ASSUME NEW p \in Ops, Resumed(p) PROVE box' => mount' = Live
  BY <1>6, ResumedDoes, <1>0, Kinds, StartedMeans DEF HeldStages, ColdStages, ColdBy,
     database
<1>7. ASSUME NEW p \in Ops, CloneEnds(p) PROVE box' => mount' = Live
  BY <1>7, CloneEndsDoes, <1>0, Kinds DEF Turn, HeldStages, ColdStages, ColdBy, database
<1>8. ASSUME NEW p \in Ops, CloneFails(p) PROVE box' => mount' = Live
  BY <1>8, CloneFailsDoes, DropsDoes, <1>0, Kinds DEF HeldStages, ColdStages, ColdBy,
     database
<1>9. ASSUME NEW p \in Ops, OnlineCopies(p) PROVE box' => mount' = Live
  BY <1>9, OnlineCopiesDoes, DropsDoes, OpensDoes, <1>0, Kinds DEF HeldStages, ColdStages,
     ColdBy, database
<1>10. ASSUME NEW p \in Ops, OnlineStreamed(p) PROVE box' => mount' = Live
  BY <1>10, OnlineStreamedDoes, DropsDoes, <1>0, Kinds DEF HeldStages, ColdStages, ColdBy,
     database
<1>11. ASSUME NEW p \in Ops, OnlineFiles(p) PROVE box' => mount' = Live
  BY <1>11, OnlineFilesDoes, DropsDoes, <1>0, Kinds DEF HeldStages, ColdStages, ColdBy,
     database
<1>12. ASSUME NEW p \in Ops, OnlineCloses(p) PROVE box' => mount' = Live
  BY <1>12, OnlineClosesDoes, <1>0, Kinds DEF Turn, HeldStages, ColdStages, ColdBy, database
<1>13. ASSUME NEW p \in Ops, SnapshotCopies(p) PROVE box' => mount' = Live
  BY <1>13, SnapshotCopiesDoes, DropsDoes, OpensDoes, <1>0, Kinds DEF HeldStages,
     ColdStages, ColdBy, database
<1>14. ASSUME NEW p \in Ops, SnapshotFiles(p) PROVE box' => mount' = Live
  BY <1>14, SnapshotFilesDoes, <1>0, Kinds DEF Turn, HeldStages, ColdStages, ColdBy,
     database
<1>15. ASSUME NEW p \in Ops, RestoreClears(p) PROVE box' => mount' = Live
  BY <1>15, RestoreClearsDoes, <1>0, Kinds DEF Turn, HeldStages, ColdStages, ColdBy,
     database
<1>16. ASSUME NEW p \in Ops, RestoreCopies(p) PROVE box' => mount' = Live
  BY <1>16, RestoreCopiesDoes, DropsDoes, OpensDoes, <1>0, Kinds DEF HeldStages, ColdStages,
     ColdBy, database
<1>17. ASSUME NEW p \in Ops, RestoreHolds(p) PROVE box' => mount' = Live
  BY <1>17, RestoreHoldsDoes, DropsDoes, <1>0, Kinds DEF HeldStages, ColdStages, ColdBy,
     database
<1>18. ASSUME NEW p \in Ops, SetAside(p) PROVE box' => mount' = Live
  BY <1>18, SetAsideDoes, DropsDoes, <1>0, Kinds DEF HeldStages, ColdStages, ColdBy,
     database
<1>19. ASSUME NEW p \in Ops, Place(p) PROVE box' => mount' = Live
  BY <1>19, PlaceDoes, <1>0, Kinds DEF Turn, HeldStages, ColdStages, ColdBy, database
<1>20. ASSUME NEW p \in Ops, PlaceFails(p) PROVE box' => mount' = Live
  BY <1>20, PlaceFailsDoes, <1>0, Kinds DEF Turn, HeldStages, ColdStages, ColdBy, database
<1>21. ASSUME NEW p \in Ops, Clean(p) PROVE box' => mount' = Live
  BY <1>21, CleanDoes, <1>0, Kinds DEF Turn, HeldStages, ColdStages, ColdBy, database
<1>22. ASSUME NEW p \in Ops, RestsBefore(p) PROVE box' => mount' = Live
  BY <1>22, RestsBeforeDoes, DropsDoes, <1>0, Kinds DEF HeldStages, ColdStages, ColdBy,
     database
<1>23. ASSUME NEW p \in Ops, BranchCopies(p) PROVE box' => mount' = Live
  BY <1>23, BranchCopiesDoes, DropsDoes, OpensDoes, <1>0, Kinds DEF HeldStages, ColdStages,
     ColdBy, database
<1>24. ASSUME NEW p \in Ops, RestsAfter(p) PROVE box' => mount' = Live
  BY <1>24, RestsAfterDoes, DropsDoes, <1>0, Kinds DEF HeldStages, ColdStages, ColdBy,
     database
<1>25. ASSUME NEW p \in Ops, BranchCopied(p) PROVE box' => mount' = Live
  BY <1>25, BranchCopiedDoes, DropsDoes, <1>0, Kinds DEF HeldStages, ColdStages, ColdBy,
     database
<1>26. ASSUME NEW p \in Ops, BranchEnds(p) PROVE box' => mount' = Live
  BY <1>26, BranchEndsDoes, <1>0, Kinds DEF HeldStages, ColdStages, ColdBy, database
<1>27. ASSUME NEW p \in Ops, DeleteEnds(p) PROVE box' => mount' = Live
  BY <1>27, DeleteEndsDoes, <1>0, Kinds DEF Turn, HeldStages, ColdStages, ColdBy, database
<1>28. ASSUME NEW p \in Ops, Slept(p) PROVE box' => mount' = Live
  BY <1>28, SleptDoes, <1>0, Kinds, StoppedMeans DEF Turn, HeldStages, ColdStages, ColdBy,
     database
<1>29. ASSUME NEW p \in Ops, OnlineBegins(p) PROVE box' => mount' = Live
  BY <1>29, OnlineBeginsDoes, <1>0, Kinds DEF HeldStages, ColdStages, ColdBy, database
<1>30. ASSUME NEW p \in Ops, SnapshotBegins(p) PROVE box' => mount' = Live
  BY <1>30, SnapshotBeginsDoes, <1>0, Kinds DEF HeldStages, ColdStages, ColdBy, database
<1>31. ASSUME NEW p \in Ops, RestoreBegins(p) PROVE box' => mount' = Live
  BY <1>31, RestoreBeginsDoes, <1>0, Kinds DEF HeldStages, ColdStages, ColdBy, database
<1>32. ASSUME NEW p \in Ops, BranchBegins(p) PROVE box' => mount' = Live
  BY <1>32, BranchBeginsDoes, <1>0, Kinds DEF HeldStages, ColdStages, ColdBy, database
<1>33. ASSUME NEW p \in Ops, DeleteBegins(p) PROVE box' => mount' = Live
  BY <1>33, DeleteBeginsDoes, <1>0, Kinds DEF Turn, HeldStages, ColdStages, ColdBy, database
<1>34. ASSUME NEW p \in Ops, SleepBegins(p) PROVE box' => mount' = Live
  BY <1>34, SleepBeginsDoes, <1>0, Kinds DEF Turn, HeldStages, ColdStages, ColdBy, database
<1>35. ASSUME NEW p \in Ops, CloneBeginsAgain(p) PROVE box' => mount' = Live
  BY <1>35, CloneBeginsAgainDoes, <1>0, Kinds DEF HeldStages, ColdStages, ColdBy, database
<1>36. CASE WakeBegins
  BY <1>36, WakeBeginsDoes, <1>0, Kinds DEF HeldStages, ColdStages, ColdBy, database
<1>37. CASE WakeBoots
  BY <1>37, WakeBootsDoes, <1>0, Kinds, BootDoes DEF HeldStages, ColdStages, ColdBy,
     database
<1>38. CASE WakeEnds
  BY <1>38, WakeEndsDoes, <1>0, Kinds, StartedMeans DEF HeldStages, ColdStages, ColdBy,
     database
<1>39. CASE HibernatorStops
  BY <1>39, HibernatorStopsDoes, <1>0, Kinds DEF HeldStages, ColdStages, ColdBy, database
<1>40. CASE HibernatorStopped
  BY <1>40, HibernatorStoppedDoes, <1>0, Kinds, StoppedMeans DEF HeldStages, ColdStages,
     ColdBy, database
<1>41. CASE DaemonDies
  BY <1>41, DaemonDiesDoes, <1>0, Kinds DEF HeldStages, ColdStages, ColdBy, database
<1>42. CASE UNCHANGED vars
  BY <1>42, <1>0, Kinds DEF vars, database, promises, HeldStages, ColdStages, ColdBy
<1>43. QED
  BY <1>1, <1>2, <1>3, <1>4, <1>5, <1>6, <1>7, <1>8, <1>9, <1>10, <1>11, <1>12, <1>13,
     <1>14, <1>15, <1>16, <1>17, <1>18, <1>19, <1>20, <1>21, <1>22, <1>23, <1>24, <1>25,
     <1>26, <1>27, <1>28, <1>29, <1>30, <1>31, <1>32, <1>33, <1>34, <1>35, <1>36, <1>37,
     <1>38, <1>39, <1>40, <1>41, <1>42 DEF Next, Begin, Proceed, Surroundings

-----------------------------------------------------------------------------
(* A database that was there stays there.                                  *)

\* Only a daemon that dies counts as a crash.
LEMMA Crashes ==
    ASSUME TypeInv, [Next]_vars
    PROVE  crashes' = crashes \/ DaemonDies
<1>0. Plain
  BY DEF TypeInv
<1>1. ASSUME NEW p \in Ops, GuardSaysIdle(p) PROVE crashes' = crashes \/ DaemonDies
  BY <1>1, GuardSaysIdleDoes DEF Turn
<1>2. ASSUME NEW p \in Ops, GuardRefuses(p) PROVE crashes' = crashes \/ DaemonDies
  BY <1>2, GuardRefusesDoes, DropsDoes
<1>3. ASSUME NEW p \in Ops, Quiesced(p) PROVE crashes' = crashes \/ DaemonDies
  BY <1>3, QuiescedDoes, DropsDoes
<1>4. ASSUME NEW p \in Ops, Resume(p) PROVE crashes' = crashes \/ DaemonDies
  BY <1>4, ResumeDoes DEF Turn
<1>5. ASSUME NEW p \in Ops, ResumeBoots(p) PROVE crashes' = crashes \/ DaemonDies
  BY <1>5, ResumeBootsDoes DEF Turn
<1>6. ASSUME NEW p \in Ops, Resumed(p) PROVE crashes' = crashes \/ DaemonDies
  BY <1>6, ResumedDoes
<1>7. ASSUME NEW p \in Ops, CloneEnds(p) PROVE crashes' = crashes \/ DaemonDies
  BY <1>7, CloneEndsDoes DEF Turn
<1>8. ASSUME NEW p \in Ops, CloneFails(p) PROVE crashes' = crashes \/ DaemonDies
  BY <1>8, CloneFailsDoes, DropsDoes
<1>9. ASSUME NEW p \in Ops, OnlineCopies(p) PROVE crashes' = crashes \/ DaemonDies
  BY <1>9, OnlineCopiesDoes, DropsDoes, OpensDoes
<1>10. ASSUME NEW p \in Ops, OnlineStreamed(p) PROVE crashes' = crashes \/ DaemonDies
  BY <1>10, OnlineStreamedDoes, DropsDoes
<1>11. ASSUME NEW p \in Ops, OnlineFiles(p) PROVE crashes' = crashes \/ DaemonDies
  BY <1>11, OnlineFilesDoes, DropsDoes
<1>12. ASSUME NEW p \in Ops, OnlineCloses(p) PROVE crashes' = crashes \/ DaemonDies
  BY <1>12, OnlineClosesDoes DEF Turn
<1>13. ASSUME NEW p \in Ops, SnapshotCopies(p) PROVE crashes' = crashes \/ DaemonDies
  BY <1>13, SnapshotCopiesDoes, DropsDoes, OpensDoes
<1>14. ASSUME NEW p \in Ops, SnapshotFiles(p) PROVE crashes' = crashes \/ DaemonDies
  BY <1>14, SnapshotFilesDoes DEF Turn
<1>15. ASSUME NEW p \in Ops, RestoreClears(p) PROVE crashes' = crashes \/ DaemonDies
  BY <1>15, RestoreClearsDoes DEF Turn
<1>16. ASSUME NEW p \in Ops, RestoreCopies(p) PROVE crashes' = crashes \/ DaemonDies
  BY <1>16, RestoreCopiesDoes, DropsDoes, OpensDoes
<1>17. ASSUME NEW p \in Ops, RestoreHolds(p) PROVE crashes' = crashes \/ DaemonDies
  BY <1>17, RestoreHoldsDoes, DropsDoes
<1>18. ASSUME NEW p \in Ops, SetAside(p) PROVE crashes' = crashes \/ DaemonDies
  BY <1>18, SetAsideDoes, DropsDoes
<1>19. ASSUME NEW p \in Ops, Place(p) PROVE crashes' = crashes \/ DaemonDies
  BY <1>19, PlaceDoes DEF Turn
<1>20. ASSUME NEW p \in Ops, PlaceFails(p) PROVE crashes' = crashes \/ DaemonDies
  BY <1>20, PlaceFailsDoes DEF Turn
<1>21. ASSUME NEW p \in Ops, Clean(p) PROVE crashes' = crashes \/ DaemonDies
  BY <1>21, CleanDoes DEF Turn
<1>22. ASSUME NEW p \in Ops, RestsBefore(p) PROVE crashes' = crashes \/ DaemonDies
  BY <1>22, RestsBeforeDoes, DropsDoes
<1>23. ASSUME NEW p \in Ops, BranchCopies(p) PROVE crashes' = crashes \/ DaemonDies
  BY <1>23, BranchCopiesDoes, DropsDoes, OpensDoes
<1>24. ASSUME NEW p \in Ops, RestsAfter(p) PROVE crashes' = crashes \/ DaemonDies
  BY <1>24, RestsAfterDoes, DropsDoes
<1>25. ASSUME NEW p \in Ops, BranchCopied(p) PROVE crashes' = crashes \/ DaemonDies
  BY <1>25, BranchCopiedDoes, DropsDoes
<1>26. ASSUME NEW p \in Ops, BranchEnds(p) PROVE crashes' = crashes \/ DaemonDies
  BY <1>26, BranchEndsDoes
<1>27. ASSUME NEW p \in Ops, DeleteEnds(p) PROVE crashes' = crashes \/ DaemonDies
  BY <1>27, DeleteEndsDoes DEF Turn
<1>28. ASSUME NEW p \in Ops, Slept(p) PROVE crashes' = crashes \/ DaemonDies
  BY <1>28, SleptDoes DEF Turn
<1>29. ASSUME NEW p \in Ops, OnlineBegins(p) PROVE crashes' = crashes \/ DaemonDies
  BY <1>29, OnlineBeginsDoes
<1>30. ASSUME NEW p \in Ops, SnapshotBegins(p) PROVE crashes' = crashes \/ DaemonDies
  BY <1>30, SnapshotBeginsDoes
<1>31. ASSUME NEW p \in Ops, RestoreBegins(p) PROVE crashes' = crashes \/ DaemonDies
  BY <1>31, RestoreBeginsDoes
<1>32. ASSUME NEW p \in Ops, BranchBegins(p) PROVE crashes' = crashes \/ DaemonDies
  BY <1>32, BranchBeginsDoes
<1>33. ASSUME NEW p \in Ops, DeleteBegins(p) PROVE crashes' = crashes \/ DaemonDies
  BY <1>33, DeleteBeginsDoes DEF Turn
<1>34. ASSUME NEW p \in Ops, SleepBegins(p) PROVE crashes' = crashes \/ DaemonDies
  BY <1>34, SleepBeginsDoes DEF Turn
<1>35. ASSUME NEW p \in Ops, CloneBeginsAgain(p) PROVE crashes' = crashes \/ DaemonDies
  BY <1>35, CloneBeginsAgainDoes
<1>36. CASE WakeBegins
  BY <1>36, WakeBeginsDoes
<1>37. CASE WakeBoots
  BY <1>37, WakeBootsDoes
<1>38. CASE WakeEnds
  BY <1>38, WakeEndsDoes, <1>0
<1>39. CASE HibernatorStops
  BY <1>39, HibernatorStopsDoes
<1>40. CASE HibernatorStopped
  BY <1>40, HibernatorStoppedDoes
<1>41. CASE DaemonDies
  BY <1>41, DaemonDiesDoes
<1>42. CASE UNCHANGED vars
  BY <1>42 DEF vars, database, promises
<1>43. QED
  BY <1>1, <1>2, <1>3, <1>4, <1>5, <1>6, <1>7, <1>8, <1>9, <1>10, <1>11, <1>12, <1>13,
     <1>14, <1>15, <1>16, <1>17, <1>18, <1>19, <1>20, <1>21, <1>22, <1>23, <1>24, <1>25,
     <1>26, <1>27, <1>28, <1>29, <1>30, <1>31, <1>32, <1>33, <1>34, <1>35, <1>36, <1>37,
     <1>38, <1>39, <1>40, <1>41, <1>42 DEF Next, Begin, Proceed, Surroundings

\* Nobody comes to own what is set aside, and nobody takes the project.
Quiet ==
    /\ existed' = existed
    /\ \A q \in Restores : /\ Owns(q)' => Owns(q)
                           /\ step'[q] = "placing" <=> step[q] = "placing"
                           /\ hold' = q => hold = q

\* All but four steps are so.
LEMMA Settles ==
    ASSUME TypeInv, NEW p \in Ops, Begin(p) \/ Proceed(p) \/ CloneBeginsAgain(p)
    PROVE  Quiet \/ (SetAside(p) /\ ~Drops(p)) \/ Place(p) \/ PlaceFails(p) \/ RestoreHolds(p)
<1>0. Plain /\ step \in [Ops -> Ats] /\ Restores \subseteq Ops
  BY DEF TypeInv, Stages, Ops, Copiers
<1>1. CASE GuardSaysIdle(p)
  BY <1>1, GuardSaysIdleDoes, <1>0, Kinds DEF Turn, Quiet, Owns, promises
<1>2. CASE GuardRefuses(p)
  BY <1>2, GuardRefusesDoes, DropsDoes, <1>0, Kinds DEF Quiet, Owns, promises
<1>3. CASE Quiesced(p)
  BY <1>3, QuiescedDoes, DropsDoes, <1>0, Kinds DEF Quiet, Owns, promises, AfterQuiesce,
     Pausing
<1>4. CASE Resume(p)
  BY <1>4, ResumeDoes, <1>0, Kinds DEF Turn, Quiet, Owns, promises
<1>5. CASE ResumeBoots(p)
  BY <1>5, ResumeBootsDoes, <1>0, Kinds DEF Turn, Quiet, Owns, promises
<1>6. CASE Resumed(p)
  BY <1>6, ResumedDoes, <1>0, Kinds DEF Quiet, Owns, promises, Ended
<1>7. CASE CloneEnds(p)
  BY <1>7, CloneEndsDoes, <1>0, Kinds DEF Turn, Quiet, Owns, promises, Copied
<1>8. CASE CloneFails(p)
  BY <1>8, CloneFailsDoes, DropsDoes, <1>0, Kinds DEF Quiet, Owns, promises
<1>9. CASE OnlineCopies(p)
  BY <1>9, OnlineCopiesDoes, DropsDoes, OpensDoes, <1>0, Kinds DEF Quiet, Owns, promises
<1>10. CASE OnlineStreamed(p)
  BY <1>10, OnlineStreamedDoes, DropsDoes, <1>0, Kinds DEF Quiet, Owns, promises
<1>11. CASE OnlineFiles(p)
  BY <1>11, OnlineFilesDoes, DropsDoes, <1>0, Kinds DEF Quiet, Owns, promises
<1>12. CASE OnlineCloses(p)
  BY <1>12, OnlineClosesDoes, <1>0, Kinds DEF Turn, Quiet, Owns, promises
<1>13. CASE SnapshotCopies(p)
  BY <1>13, SnapshotCopiesDoes, DropsDoes, OpensDoes, <1>0, Kinds DEF Quiet, Owns, promises
<1>14. CASE SnapshotFiles(p)
  BY <1>14, SnapshotFilesDoes, <1>0, Kinds DEF Turn, Quiet, Owns, promises
<1>15. CASE RestoreClears(p)
  BY <1>15, RestoreClearsDoes, <1>0, Kinds DEF Turn, Quiet, Owns, promises
<1>16. CASE RestoreCopies(p)
  BY <1>16, RestoreCopiesDoes, DropsDoes, OpensDoes, <1>0, Kinds DEF Quiet, Owns, promises
<1>17. CASE RestoreHolds(p)
  BY <1>17, RestoreHoldsDoes, DropsDoes, <1>0, Kinds DEF Quiet, Owns, promises, AfterQuiesce
<1>18. CASE SetAside(p)
  BY <1>18, SetAsideDoes, DropsDoes, <1>0, Kinds DEF Quiet, Owns, promises
<1>19. CASE Place(p)
  BY <1>19, PlaceDoes, <1>0, Kinds DEF Turn, Quiet, Owns, promises
<1>20. CASE PlaceFails(p)
  BY <1>20, PlaceFailsDoes, <1>0, Kinds DEF Turn, Quiet, Owns, promises
<1>21. CASE Clean(p)
  BY <1>21, CleanDoes, <1>0, Kinds DEF Turn, Quiet, Owns, promises
<1>22. CASE RestsBefore(p)
  BY <1>22, RestsBeforeDoes, DropsDoes, <1>0, Kinds DEF Quiet, Owns, promises
<1>23. CASE BranchCopies(p)
  BY <1>23, BranchCopiesDoes, DropsDoes, OpensDoes, <1>0, Kinds DEF Quiet, Owns, promises
<1>24. CASE RestsAfter(p)
  BY <1>24, RestsAfterDoes, DropsDoes, <1>0, Kinds DEF Quiet, Owns, promises
<1>25. CASE BranchCopied(p)
  BY <1>25, BranchCopiedDoes, DropsDoes, <1>0, Kinds DEF Quiet, Owns, promises
<1>26. CASE BranchEnds(p)
  BY <1>26, BranchEndsDoes, <1>0, Kinds DEF Quiet, Owns, promises
<1>27. CASE DeleteEnds(p)
  BY <1>27, DeleteEndsDoes, <1>0, Kinds DEF Turn, Quiet, Owns, promises
<1>28. CASE Slept(p)
  BY <1>28, SleptDoes, <1>0, Kinds DEF Turn, Quiet, Owns, promises
<1>29. CASE OnlineBegins(p)
  BY <1>29, OnlineBeginsDoes, <1>0, Kinds DEF Quiet, Owns, promises
<1>30. CASE SnapshotBegins(p)
  BY <1>30, SnapshotBeginsDoes, <1>0, Kinds DEF Quiet, Owns, promises, AfterQuiesce
<1>31. CASE RestoreBegins(p)
  BY <1>31, RestoreBeginsDoes, <1>0, Kinds DEF Quiet, Owns, promises
<1>32. CASE BranchBegins(p)
  BY <1>32, BranchBeginsDoes, <1>0, Kinds DEF Quiet, Owns, promises, AfterQuiesce
<1>33. CASE DeleteBegins(p)
  BY <1>33, DeleteBeginsDoes, <1>0, Kinds DEF Turn, Quiet, Owns, promises
<1>34. CASE SleepBegins(p)
  BY <1>34, SleepBeginsDoes, <1>0, Kinds DEF Turn, Quiet, Owns, promises
<1>35. CASE CloneBeginsAgain(p)
  BY <1>35, CloneBeginsAgainDoes, <1>0, Kinds DEF Quiet, Owns, promises
<1>36. QED
  BY <1>1, <1>2, <1>3, <1>4, <1>5, <1>6, <1>7, <1>8, <1>9, <1>10, <1>11, <1>12, <1>13,
     <1>14, <1>15, <1>16, <1>17, <1>18, <1>19, <1>20, <1>21, <1>22, <1>23, <1>24, <1>25,
     <1>26, <1>27, <1>28, <1>29, <1>30, <1>31, <1>32, <1>33, <1>34, <1>35 DEF Begin, Proceed

\* So are the daemon's surroundings.
LEMMA SurroundingsSettle ==
    ASSUME TypeInv, Surroundings \/ UNCHANGED vars, ~DaemonDies
    PROVE  Quiet
BY WakeBeginsDoes, WakeBootsDoes, WakeEndsDoes, HibernatorStopsDoes, HibernatorStoppedDoes
DEF Surroundings, vars, promises, Quiet, Owns, TypeInv

\* No start finds the live directory gone.
LEMMA BootsOnLive ==
    ASSUME TypeInv, Holders, Cold, Undisturbed, Standing, Boot,
           waking = "asked" \/ \E p \in Ops : step[p] = "starting"
    PROVE  disk' = disk
<1>1. ASSUME disk[Live] = Absent PROVE FALSE
  <2>1. PICK p \in Restores : step[p] = "placing"
    BY <1>1 DEF Standing
  <2>2. hold = p /\ Settled(p)
    BY <2>1 DEF Holders, HeldStages, Undisturbed
  <2>3. ColdBy(p)
    BY <2>2 DEF Cold
  <2>4. QED
    BY <2>1, <2>3 DEF ColdBy
<1>2. QED
  BY <1>1, BootDoes DEF TypeInv

\* A database that was there is never gone and never empty, as long as no start came in
\* between and no daemon died.
LEMMA FilledStep ==
    ASSUME TypeInv, Holders, Cold, Filled, [Next]_vars
    PROVE  Filled'
<1> SUFFICES ASSUME crashes' = 0, Undisturbed' PROVE Full'
  BY DEF Filled
<1>1. /\ Full /\ Undisturbed /\ ~DaemonDies
      /\ disk \in [Places -> Directories \cup {Absent}] /\ step \in [Ops -> Ats] /\ Plain
      /\ \A p \in Restores : p \in Ops /\ p \in Copiers /\ p # Nobody
  <2>1. Undisturbed
    BY ExcusesGrow DEF Undisturbed, Settled
  <2>2. ~DaemonDies
    BY DaemonDiesDoes
  <2>3. crashes = 0
    BY <2>2, Crashes
  <2>4. QED
    BY <2>1, <2>2, <2>3, Kinds DEF Filled, TypeInv, Disks, Stages, Ops, Copiers
<1>2. /\ \A p \in Restores : /\ Of[p] \in Snapshots /\ Aside(Of[p]) \in Asides /\ Aside(Of[p]) # Live
                             /\ To(p) = Staging(Of[p]) /\ To(p) \in Places \ Asides
      /\ \A p, q \in Restores : Aside(Of[p]) = Aside(Of[q]) => Of[p] = Of[q]
      /\ Live \in Asides /\ Asides \subseteq Places
  BY <1>1, Ways, Apart, Outside DEF Asides
<1>3. ASSUME Quiet, AsidesStay PROVE Full'
  <2>1. Standing'
    BY <1>1, <1>2, <1>3 DEF Full, Standing, Quiet, AsidesStay
  <2>2. Existing' /\ OneOwner'
    BY <1>1, <1>3 DEF Full, Existing, OneOwner, Quiet
  <2>3. AsideKept'
    BY <1>1, <1>2, <1>3 DEF Full, AsideKept, Quiet, AsidesStay
  <2>4. NeverEmpty'
    BY <1>1, <1>3 DEF Full, NeverEmpty, AsidesStay
  <2>5. QED
    BY <2>1, <2>2, <2>3, <2>4 DEF Full
<1>4. ASSUME NEW p \in Ops, RestoreHolds(p) PROVE Full'
  <2>1. /\ p \in Restores /\ step[p] = "cloned"
        /\ existed' = IF disk[Live] # Absent THEN existed \cup {p} ELSE existed \ {p}
    BY <1>4, RestoreHoldsDoes
  <2>2. hold # p /\ ~Owns(p)
    BY <2>1 DEF Holders, HeldStages, Owns
  <2>3. AsidesStay
    <3>1. disk' = disk \/ disk' = Removed(p)
      BY <1>4, RestoreHoldsDoes, DropsDoes, <2>1, Kinds
    <3>2. QED
      BY <1>1, <1>2, <2>1, <3>1, Elsewhere DEF Removed, AsidesStay
  <2>4. /\ \A q \in Restores : (Owns(q)' => Owns(q)) /\ (step'[q] = "placing" <=> step[q] = "placing")
        /\ \A q \in Restores : hold' = q => q = p \/ hold = q
    <3>1. CASE Drops(p) /\ hold' = hold
      BY <1>1, <2>1, <3>1, DropsDoes DEF Owns
    <3>2. CASE /\ hold' = p /\ broken' = broken
               /\ step' = [step EXCEPT ![p] = IF row = "running" THEN "guarding" ELSE AfterQuiesce(p)]
      BY <1>1, <2>1, <3>2, Kinds DEF Owns, AfterQuiesce
    <3>3. QED
      BY <1>4, <3>1, <3>2, RestoreHoldsDoes
  <2>5. hold' = p => disk[Live] # Absent
    <3>1. ASSUME hold' = p, disk[Live] = Absent PROVE FALSE
      <4>1. PICK q \in Restores : step[q] = "placing"
        BY <1>1, <3>1 DEF Full, Standing
      <4>2. hold = q
        BY <4>1 DEF Holders, HeldStages
      <4>3. hold = Nobody
        BY <1>4, <2>2, <3>1, RestoreHoldsDoes
      <4>4. QED
        BY <1>1, <4>2, <4>3
    <3>2. QED
      BY <3>1
  <2>6. Standing'
    BY <1>1, <1>2, <2>3, <2>4 DEF Full, Standing, AsidesStay
  <2>7. Existing'
    BY <1>1, <2>1, <2>2, <2>4, <2>5 DEF Full, Existing
  <2>8. AsideKept'
    BY <1>1, <1>2, <2>1, <2>2, <2>3, <2>4 DEF Full, AsideKept, AsidesStay
  <2>9. OneOwner'
    BY <1>1, <2>4 DEF Full, OneOwner
  <2>10. NeverEmpty'
    BY <1>1, <2>3 DEF Full, NeverEmpty, AsidesStay
  <2>11. QED
    BY <2>6, <2>7, <2>8, <2>9, <2>10 DEF Full
<1>5. ASSUME NEW p \in Ops, SetAside(p), ~Drops(p) PROVE Full'
  <2>1. /\ p \in Restores /\ step[p] = "swapping" /\ hold' = hold /\ existed' = existed
        /\ step' = [step EXCEPT ![p] = "placing"] /\ broken' = broken
    BY <1>5, SetAsideDoes DEF promises
  <2>2. hold = p
    BY <2>1 DEF Holders, HeldStages
  <2>3. p \in existed
    BY <1>1, <2>1, <2>2 DEF Full, Existing
  <2>4. /\ disk[Live] # Absent /\ disk[Aside(Of[p])] = Absent
        /\ disk' = [disk EXCEPT ![Aside(Of[p])] = disk[Live], ![Live] = Absent]
    BY <1>5, <2>3, SetAsideDoes
  <2>5. \A q \in Restores : Owns(q) => Of[q] # Of[p]
    BY <1>1, <2>1, <2>4 DEF Full, AsideKept
  <2>6. \A q \in Restores : Owns(q)' => q = p \/ Owns(q)
    BY <1>1, <2>1 DEF Owns
  <2>7. Standing'
    BY <1>1, <2>1 DEF Standing
  <2>8. Existing'
    BY <1>1, <2>1 DEF Full, Existing
  <2>9. AsideKept'
    <3>1. disk'[Aside(Of[p])] # Absent
      BY <1>1, <1>2, <2>1, <2>4
    <3>2. ASSUME NEW q \in Restores, Owns(q), q # p PROVE disk'[Aside(Of[q])] # Absent
      <4>1. Aside(Of[q]) # Aside(Of[p]) /\ Aside(Of[q]) # Live /\ Aside(Of[q]) \in Places
        BY <1>2, <2>1, <2>5, <3>2
      <4>2. disk'[Aside(Of[q])] = disk[Aside(Of[q])]
        BY <1>1, <1>2, <2>1, <2>4, <4>1
      <4>3. QED
        BY <1>1, <3>2, <4>2 DEF Full, AsideKept
    <3>3. QED
      BY <1>1, <2>1, <2>3, <2>6, <3>1, <3>2 DEF Full, AsideKept
  <2>10. OneOwner'
    BY <1>1, <2>5, <2>6 DEF Full, OneOwner
  <2>11. NeverEmpty'
    BY <1>1, <1>2, <2>1, <2>4 DEF Full, NeverEmpty
  <2>12. QED
    BY <2>7, <2>8, <2>9, <2>10, <2>11 DEF Full
<1>6. ASSUME NEW p \in Ops, Place(p) PROVE Full'
  <2>1. /\ p \in Restores /\ step[p] = "placing" /\ hold' = hold /\ existed' = existed
        /\ step' = [step EXCEPT ![p] = "finally"] /\ broken' = broken
        /\ disk[To(p)] # Absent /\ disk' = [disk EXCEPT ![Live] = disk[To(p)], ![To(p)] = Absent]
    BY <1>6, PlaceDoes DEF Turn, promises
  <2>2. \A q \in Restores : Owns(q)' => Owns(q)
    BY <1>1, <2>1 DEF Owns
  <2>3. disk'[Live] = disk[To(p)] /\ \A place \in Asides \ {Live} : disk'[place] = disk[place]
    BY <1>1, <1>2, <2>1
  <2>4. disk[To(p)].data # "empty"
    <3>1. disk[To(p)].data = Of[p]
      BY <1>2, <2>1 DEF TypeInv, Disks, Labels
    <3>2. QED
      BY <1>2, <2>1, <3>1, StorageNumbers
  <2>5. Standing'
    BY <2>1, <2>3 DEF Standing
  <2>6. Existing' /\ OneOwner'
    BY <1>1, <2>1, <2>2 DEF Full, Existing, OneOwner
  <2>7. AsideKept'
    BY <1>1, <1>2, <2>1, <2>2, <2>3 DEF Full, AsideKept
  <2>8. NeverEmpty'
    BY <1>1, <2>3, <2>4 DEF Full, NeverEmpty
  <2>9. QED
    BY <2>5, <2>6, <2>7, <2>8 DEF Full
<1>7. ASSUME NEW p \in Ops, PlaceFails(p) PROVE Full'
  <2>1. /\ p \in Restores /\ step[p] = "placing" /\ hold' = hold /\ existed' = existed
        /\ step' = [step EXCEPT ![p] = "finally"] /\ broken' = broken \cup {p}
    BY <1>7, PlaceFailsDoes DEF Turn, promises
  <2>2. Owns(p) /\ p \in existed /\ disk[Aside(Of[p])] # Absent
    BY <1>1, <2>1 DEF Full, AsideKept, Owns
  <2>3. \A q \in Restores : Owns(q)' => q # p /\ Owns(q)
    BY <1>1, <2>1 DEF Owns
  <2>4. \A q \in Restores : Owns(q)' => Of[q] # Of[p]
    BY <1>1, <2>1, <2>2, <2>3 DEF Full, OneOwner
  <2>5. disk'[Live] # Absent /\ \A place \in Asides \ {Live, Aside(Of[p])} : disk'[place] = disk[place]
    <3>1. CASE disk[Live] = Absent
      BY <1>1, <1>2, <1>7, <2>1, <2>2, <3>1, PlaceFailsDoes DEF Undone
    <3>2. CASE disk[Live] # Absent
      BY <1>1, <1>2, <1>7, <2>1, <3>2, PlaceFailsDoes DEF Removed
    <3>3. QED
      BY <3>1, <3>2
  <2>6. NeverEmpty'
    <3>1. CASE disk[Live] = Absent
      BY <1>1, <1>2, <1>7, <2>1, <2>2, <3>1, PlaceFailsDoes DEF Undone, Full, NeverEmpty
    <3>2. CASE disk[Live] # Absent
      BY <1>1, <1>2, <1>7, <2>1, <3>2, PlaceFailsDoes DEF Removed, Full, NeverEmpty
    <3>3. QED
      BY <3>1, <3>2
  <2>7. Standing'
    BY <2>5 DEF Standing
  <2>8. Existing' /\ OneOwner'
    BY <1>1, <2>1, <2>3 DEF Full, Existing, OneOwner
  <2>9. AsideKept'
    BY <1>1, <1>2, <2>1, <2>3, <2>4, <2>5 DEF Full, AsideKept
  <2>10. QED
    BY <2>6, <2>7, <2>8, <2>9 DEF Full
<1>8. ASSUME NEW p \in Ops, Clean(p), Quiet PROVE Full'
  <2>1. /\ p \in Restores /\ step[p] = "cleaning" /\ step' = [step EXCEPT ![p] = "done"]
        /\ (disk' = disk \/ disk' = [disk EXCEPT ![Aside(Of[p])] = Absent])
    BY <1>8, CleanDoes DEF Turn
  <2>2. Owns(p) /\ ~Owns(p)'
    BY <1>1, <2>1 DEF Owns
  <2>3. \A place \in Asides \ {Aside(Of[p])} : disk'[place] = disk[place]
    BY <1>1, <1>2, <2>1
  <2>4. \A q \in Restores : Owns(q)' => Owns(q) /\ Of[q] # Of[p]
    BY <1>1, <1>8, <2>1, <2>2 DEF Quiet, Full, OneOwner
  <2>5. Standing'
    BY <1>1, <1>2, <1>8, <2>1, <2>3 DEF Full, Standing, Quiet
  <2>6. Existing' /\ OneOwner'
    BY <1>1, <1>8 DEF Full, Existing, OneOwner, Quiet
  <2>7. AsideKept'
    BY <1>1, <1>2, <1>8, <2>1, <2>3, <2>4 DEF Full, AsideKept, Quiet
  <2>8. NeverEmpty'
    BY <1>1, <1>2, <2>1 DEF Full, NeverEmpty
  <2>9. QED
    BY <2>5, <2>6, <2>7, <2>8 DEF Full
<1>9. ASSUME NEW p \in Ops, Begin(p) \/ Proceed(p) \/ CloneBeginsAgain(p) PROVE Full'
  <2>1. Touches(p)
    BY <1>9, DiskEffects
  <2>2. CASE SetAside(p) \/ Place(p) \/ PlaceFails(p)
    <3>1. CASE Drops(p)
      <4>1. AsidesStay
        BY <1>1, <1>2, <3>1, DropsDoes, Outside, Elsewhere DEF Removed, AsidesStay
      <4>2. QED
        BY <1>3, <1>4, <1>5, <1>6, <1>7, <1>9, <4>1, Settles
    <3>2. QED
      BY <1>5, <1>6, <1>7, <2>2, <3>1
  <2>3. CASE ResumeBoots(p)
    <3>1. disk' = disk
      BY <1>1, <2>3, ResumeBootsDoes, BootsOnLive DEF Turn, Full
    <3>2. QED
      BY <1>3, <1>4, <1>5, <1>6, <1>7, <1>9, <3>1, Settles DEF AsidesStay
  <2>4. QED
    BY <1>3, <1>4, <1>5, <1>6, <1>7, <1>8, <1>9, <2>1, <2>2, <2>3, AsidesAre, Settles
<1>10. CASE Surroundings \/ UNCHANGED vars
  <2>1. Quiet
    BY <1>1, <1>10, SurroundingsSettle DEF TypeInv
  <2>2. CASE WakeBoots
    <3>1. disk' = disk
      BY <1>1, <2>2, WakeBootsDoes, BootsOnLive DEF Full
    <3>2. QED
      BY <1>3, <2>1, <3>1 DEF AsidesStay
  <2>3. CASE disk' = disk
    BY <1>3, <2>1, <2>3 DEF AsidesStay
  <2>4. QED
    BY <1>10, <2>2, <2>3, SurroundingsTouch DEF vars
<1>11. QED
  BY <1>9, <1>10 DEF Next

-----------------------------------------------------------------------------
(* Copies are whole.                                                       *)

\* A copy gets under way, and is undisturbed anew, only as it begins.
LEMMA Opening ==
    ASSUME TypeInv, NEW r \in Copiers \ Restores, step'[r] = "cloning", NEW p \in Ops, Begin(p) \/ Proceed(p) \/ CloneBeginsAgain(p)
    PROVE  /\ step[r] = "cloning" \/ (Opens(p) /\ p = r)
           /\ r \in spoiled => r \in spoiled' \/ (p = r /\ (Opens(p) \/ CloneBeginsAgain(p)))
<1>0. Plain /\ step \in [Ops -> Ats] /\ r \in Ops
  BY DEF TypeInv, Stages, Ops, Copiers
<1>1. CASE GuardSaysIdle(p)
  BY <1>1, GuardSaysIdleDoes, <1>0, Kinds DEF Turn
<1>2. CASE GuardRefuses(p)
  BY <1>2, GuardRefusesDoes, DropsDoes, <1>0, Kinds
<1>3. CASE Quiesced(p)
  BY <1>3, QuiescedDoes, DropsDoes, <1>0, Kinds DEF AfterQuiesce, Pausing
<1>4. CASE Resume(p)
  BY <1>4, ResumeDoes, <1>0, Kinds DEF Turn
<1>5. CASE ResumeBoots(p)
  BY <1>5, ResumeBootsDoes, <1>0, Kinds, BootDoes DEF Turn
<1>6. CASE Resumed(p)
  BY <1>6, ResumedDoes, <1>0, Kinds DEF Ended
<1>7. CASE CloneEnds(p)
  BY <1>7, CloneEndsDoes, <1>0, Kinds DEF Turn, Copied
<1>8. CASE CloneFails(p)
  BY <1>8, CloneFailsDoes, DropsDoes, <1>0, Kinds
<1>9. CASE OnlineCopies(p)
  BY <1>9, OnlineCopiesDoes, DropsDoes, OpensDoes, <1>0, Kinds
<1>10. CASE OnlineStreamed(p)
  BY <1>10, OnlineStreamedDoes, DropsDoes, <1>0, Kinds
<1>11. CASE OnlineFiles(p)
  BY <1>11, OnlineFilesDoes, DropsDoes, <1>0, Kinds
<1>12. CASE OnlineCloses(p)
  BY <1>12, OnlineClosesDoes, <1>0, Kinds DEF Turn
<1>13. CASE SnapshotCopies(p)
  BY <1>13, SnapshotCopiesDoes, DropsDoes, OpensDoes, <1>0, Kinds
<1>14. CASE SnapshotFiles(p)
  BY <1>14, SnapshotFilesDoes, <1>0, Kinds DEF Turn
<1>15. CASE RestoreClears(p)
  BY <1>15, RestoreClearsDoes, <1>0, Kinds DEF Turn
<1>16. CASE RestoreCopies(p)
  BY <1>16, RestoreCopiesDoes, DropsDoes, OpensDoes, <1>0, Kinds
<1>17. CASE RestoreHolds(p)
  BY <1>17, RestoreHoldsDoes, DropsDoes, <1>0, Kinds DEF AfterQuiesce
<1>18. CASE SetAside(p)
  BY <1>18, SetAsideDoes, DropsDoes, <1>0, Kinds
<1>19. CASE Place(p)
  BY <1>19, PlaceDoes, <1>0, Kinds DEF Turn
<1>20. CASE PlaceFails(p)
  BY <1>20, PlaceFailsDoes, <1>0, Kinds DEF Turn
<1>21. CASE Clean(p)
  BY <1>21, CleanDoes, <1>0, Kinds DEF Turn
<1>22. CASE RestsBefore(p)
  BY <1>22, RestsBeforeDoes, DropsDoes, <1>0, Kinds
<1>23. CASE BranchCopies(p)
  BY <1>23, BranchCopiesDoes, DropsDoes, OpensDoes, <1>0, Kinds
<1>24. CASE RestsAfter(p)
  BY <1>24, RestsAfterDoes, DropsDoes, <1>0, Kinds
<1>25. CASE BranchCopied(p)
  BY <1>25, BranchCopiedDoes, DropsDoes, <1>0, Kinds
<1>26. CASE BranchEnds(p)
  BY <1>26, BranchEndsDoes, <1>0, Kinds
<1>27. CASE DeleteEnds(p)
  BY <1>27, DeleteEndsDoes, <1>0, Kinds DEF Turn
<1>28. CASE Slept(p)
  BY <1>28, SleptDoes, <1>0, Kinds DEF Turn
<1>29. CASE OnlineBegins(p)
  BY <1>29, OnlineBeginsDoes, <1>0, Kinds
<1>30. CASE SnapshotBegins(p)
  BY <1>30, SnapshotBeginsDoes, <1>0, Kinds DEF AfterQuiesce
<1>31. CASE RestoreBegins(p)
  BY <1>31, RestoreBeginsDoes, <1>0, Kinds
<1>32. CASE BranchBegins(p)
  BY <1>32, BranchBeginsDoes, <1>0, Kinds DEF AfterQuiesce
<1>33. CASE DeleteBegins(p)
  BY <1>33, DeleteBeginsDoes, <1>0, Kinds DEF Turn
<1>34. CASE SleepBegins(p)
  BY <1>34, SleepBeginsDoes, <1>0, Kinds DEF Turn
<1>35. CASE CloneBeginsAgain(p)
  BY <1>35, CloneBeginsAgainDoes, <1>0, Kinds
<1>36. QED
  BY <1>1, <1>2, <1>3, <1>4, <1>5, <1>6, <1>7, <1>8, <1>9, <1>10, <1>11, <1>12, <1>13,
     <1>14, <1>15, <1>16, <1>17, <1>18, <1>19, <1>20, <1>21, <1>22, <1>23, <1>24, <1>25,
     <1>26, <1>27, <1>28, <1>29, <1>30, <1>31, <1>32, <1>33, <1>34, <1>35 DEF Begin, Proceed

Ready == {"copied", "checking", "inspecting", "finally", "starting", "booting", "creating", "done"}

\* What was made stays, unless its maker fails.
LEMMA MadeStays ==
    ASSUME TypeInv, [Next]_vars, NEW p \in Copiers \ Restores, step[p] \in Ready,
           p \notin broken', step'[p] # "failed"
    PROVE  disk'[Made(p)] = disk[Made(p)]
<1>1. /\ To(p) = Made(p) /\ Made(p) \in Places \ Asides /\ Live \in Asides /\ p \in Ops /\ Plain
      /\ step \in [Ops -> Ats]
  BY Ways, Outside DEF Asides, Ops, TypeInv, Stages
<1>2. ASSUME NEW q \in Ops, Touches(q), disk'[Made(p)] # disk[Made(p)] PROVE FALSE
  <2>1. CASE q \in Copiers /\ To(q) = To(p)
    <3>1. q = p
      BY <2>1, Destinations
    <3>2. disk' # disk
      BY <1>2
    <3>3. ~Drops(p)
      BY DropsDoes
    <3>4. ~Opens(p)
      BY OpensDoes DEF Ready
    <3>5. ~CloneEnds(p) /\ ~CloneBeginsAgain(p) /\ ~OnlineStreamed(p)
      BY <1>1, CloneEndsDoes, CloneBeginsAgainDoes, OnlineStreamedDoes DEF Ready, Turn
    <3>6. ~RestoreClears(p) /\ ~SetAside(p) /\ ~Place(p) /\ ~PlaceFails(p) /\ ~Clean(p)
      BY <1>1, RestoreClearsDoes, SetAsideDoes, PlaceDoes, PlaceFailsDoes, CleanDoes
    <3>7. ~DeleteBegins(p) /\ ~DeleteEnds(p)
      BY <1>1, DeleteBeginsDoes, DeleteEndsDoes DEF Ready, Turn
    <3>8. ~BranchEnds(p)
      BY <1>1, <3>2, BranchEndsDoes
    <3>9. ~ResumeBoots(p)
      <4>1. ASSUME ResumeBoots(p) PROVE FALSE
        <5>1. disk' = [disk EXCEPT ![Live] = [data |-> "empty", whole |-> TRUE]]
          BY <1>1, <3>2, <4>1, ResumeBootsDoes, BootDoes
        <5>2. QED
          BY <1>1, <1>2, <5>1 DEF TypeInv, Disks
      <4>2. QED
        BY <4>1
    <3>10. QED
      BY <1>2, <3>1, <3>2, <3>3, <3>4, <3>5, <3>6, <3>7, <3>8, <3>9 DEF Touches, Leaves
  <2>2. CASE q \in Deletes /\ Made(p) = Snap(Of[q])
    BY <2>2, Apart
  <2>3. QED
    BY <1>1, <1>2, <2>1, <2>2, Reaches
<1>3. ASSUME Surroundings \/ UNCHANGED vars PROVE disk'[Made(p)] = disk[Made(p)]
  BY <1>1, <1>3, SurroundingsReach
<1>4. QED
  BY <1>2, <1>3, DiskEffects DEF Next

\* Where nothing starts and nothing is swapped, a copy of the live directory is undisturbed.
LEMMA StaysUnspoiled ==
    ASSUME TypeInv, [Next]_vars, NEW p \in Copiers \ Restores, step[p] = "cloning", p \notin spoiled,
           waking = "none", \A q \in Ops : step[q] # "starting",
           \A q \in Ops : SetAside(q) => Drops(q)
    PROVE  p \notin spoiled'
<1>1. From(p) = Live /\ Plain /\ p \in Ops
  BY Ways DEF TypeInv, Ops
<1>2. ASSUME NEW q \in Ops, Touches(q), p \in spoiled' PROVE FALSE
  <2>1. ~(Opens(q) /\ p = q)
    BY OpensDoes
  <2>2. ~ResumeBoots(q)
    BY ResumeBootsDoes DEF Turn
  <2>3. ~(q \in Copiers /\ p # q /\ To(p) = To(q))
    BY Destinations
  <2>4. ~(DeleteBegins(q) /\ From(p) = Snap(Of[q]))
    BY <1>1, Apart
  <2>5. QED
    BY <1>2, <2>1, <2>2, <2>3, <2>4, Spoils
<1>3. ASSUME Surroundings \/ UNCHANGED vars PROVE p \notin spoiled'
  <2>1. ~WakeBoots
    BY WakeBootsDoes
  <2>2. QED
    BY <1>3, <2>1, SurroundingsTouch, DaemonDiesDoes DEF vars
<1>4. QED
  BY <1>2, <1>3, DiskEffects DEF Next

\* A copy that was whole stays so.
LEMMA StaysWhole ==
    ASSUME TypeInv, [Next]_vars, NEW p \in Copiers \ Restores, step[p] \in Ready,
           p \notin broken', step'[p] # "failed", Whole(Made(p))
    PROVE  Whole(Made(p))'
BY MadeStays DEF Whole

\* A copy of the live directory that nothing disturbed is whole.
LEMMA CopiedWhole ==
    ASSUME TypeInv, Readers, WholeInv, Uncrossed, NEW p \in Copiers \ Restores, CloneEnds(p),
           p \notin spoiled
    PROVE  Whole(Made(p))'
<1>1. /\ To(p) = Made(p) /\ From(p) = Live /\ Made(p) \in Places /\ Live \in Asides
      /\ disk \in [Places -> Directories \cup {Absent}] /\ p \in Ops
  BY Ways DEF TypeInv, Disks, Asides, Ops
<1>2. step[p] = "cloning" /\ disk' = [disk EXCEPT ![Made(p)] = disk[Live]]
  BY <1>1, CloneEndsDoes DEF Turn
<1>3. disk[Live] # Absent /\ disk[Live].whole
  BY <1>1, <1>2 DEF Readers, Cloning, WholeInv, Whole
<1>4. QED
  BY <1>1, <1>2, <1>3 DEF Whole

\* Who reads the live directory undisturbed finds it there.
LEMMA ReadersStep ==
    ASSUME TypeInv, Readers, [Next]_vars
    PROVE  Readers'
<1>0. /\ disk \in [Places -> Directories \cup {Absent}] /\ step \in [Ops -> Ats] /\ Plain
      /\ Live \in Asides /\ Asides \subseteq Places /\ Copiers \subseteq Ops
      /\ \A q \in Copiers : To(q) \notin Asides
      /\ \A q \in Copiers \ Restores : From(q) = Live
  BY Ways, Outside DEF TypeInv, Disks, Stages, Asides, Ops
<1> SUFFICES ASSUME NEW p \in Copiers \ Restores, step'[p] = "cloning", p \notin spoiled'
             PROVE  disk'[Live] # Absent
  BY DEF Readers, Cloning
<1>1. ASSUME NEW q \in Ops, Begin(q) \/ Proceed(q) \/ CloneBeginsAgain(q) PROVE disk'[Live] # Absent
  <2>1. Touches(q)
    BY <1>1, DiskEffects
  <2>2. CASE disk[Live] # Absent
    <3>1. CASE AsidesStay
      BY <1>0, <2>2, <3>1 DEF AsidesStay
    <3>2. CASE ResumeBoots(q)
      BY <1>0, <2>2, <3>2, ResumeBootsDoes, BootDoes
    <3>3. CASE SetAside(q) /\ ~Drops(q)
      <4>1. step[p] = "cloning"
        BY <1>0, <3>3, SetAsideDoes
      <4>2. QED
        BY <1>0, <3>3, <4>1, SetAsideDoes DEF ReadersOf, Cloning
    <3>4. CASE Drops(q)
      BY <1>0, <2>2, <3>4, DropsDoes DEF Removed
    <3>5. CASE Place(q)
      BY <2>2, <3>5, PlaceDoes
    <3>6. CASE PlaceFails(q)
      <4>1. q \in Copiers /\ disk' = Removed(q)
        BY <2>2, <3>6, PlaceFailsDoes DEF Copiers
      <4>2. QED
        BY <1>0, <2>2, <4>1 DEF Removed
    <3>7. CASE Clean(q)
      <4>1. Aside(Of[q]) # Live
        BY Apart
      <4>2. QED
        BY <1>0, <2>2, <3>7, <4>1, CleanDoes
    <3>8. QED
      BY <2>1, <3>1, <3>2, <3>3, <3>4, <3>5, <3>6, <3>7, AsidesAre
  <2>3. CASE disk[Live] = Absent
    <3>1. step[p] = "cloning" => p \in spoiled
      BY <2>3 DEF Readers, Cloning
    <3>2. ASSUME CloneBeginsAgain(q) PROVE q # p
      BY <1>0, <2>3, <3>2, CloneBeginsAgainDoes
    <3>3. ASSUME Opens(q) PROVE q # p
      BY <1>0, <2>3, <3>3, OpensDoes
    <3>4. step[p] = "cloning"
      BY <1>0, <1>1, <3>3, Opening
    <3>5. p \in spoiled'
      BY <1>0, <1>1, <3>1, <3>2, <3>3, <3>4, Opening
    <3>6. QED
      BY <3>5
  <2>4. QED
    BY <2>2, <2>3
<1>2. CASE Surroundings \/ UNCHANGED vars
  <2>1. ~DaemonDies
    <3>1. ASSUME DaemonDies PROVE FALSE
      BY <1>0, <3>1, DaemonDiesDoes DEF Over
    <3>2. QED
      BY <3>1
  <2>2. CASE WakeBoots
    <3>1. step[p] = "cloning" /\ spoiled \subseteq spoiled'
      BY <1>0, <2>2, WakeBootsDoes, BootDoes
    <3>2. disk[Live] # Absent
      BY <3>1 DEF Readers, Cloning
    <3>3. QED
      BY <1>0, <2>2, <3>2, WakeBootsDoes, BootDoes
  <2>3. CASE UNCHANGED <<disk, spoiled, step>>
    BY <2>3 DEF Readers, Cloning
  <2>4. UNCHANGED <<disk, spoiled, step>> \/ WakeBoots
    BY <1>0, <1>2, <2>1, WakeBeginsDoes, WakeEndsDoes, HibernatorStopsDoes, HibernatorStoppedDoes
    DEF Surroundings, vars
  <2>5. QED
    BY <2>2, <2>3, <2>4
<1>3. QED
  BY <1>1, <1>2 DEF Next


\* An error is not forgotten.
LEMMA BrokenStays ==
    ASSUME TypeInv, [Next]_vars
    PROVE  broken \subseteq broken'
<1>0. Plain
  BY DEF TypeInv
<1>1. ASSUME NEW p \in Ops, GuardSaysIdle(p) PROVE broken \subseteq broken'
  BY <1>1, GuardSaysIdleDoes, <1>0 DEF Turn
<1>2. ASSUME NEW p \in Ops, GuardRefuses(p) PROVE broken \subseteq broken'
  BY <1>2, GuardRefusesDoes, DropsDoes, <1>0
<1>3. ASSUME NEW p \in Ops, Quiesced(p) PROVE broken \subseteq broken'
  BY <1>3, QuiescedDoes, DropsDoes, <1>0
<1>4. ASSUME NEW p \in Ops, Resume(p) PROVE broken \subseteq broken'
  BY <1>4, ResumeDoes, <1>0 DEF Turn
<1>5. ASSUME NEW p \in Ops, ResumeBoots(p) PROVE broken \subseteq broken'
  BY <1>5, ResumeBootsDoes, <1>0 DEF Turn
<1>6. ASSUME NEW p \in Ops, Resumed(p) PROVE broken \subseteq broken'
  BY <1>6, ResumedDoes, <1>0
<1>7. ASSUME NEW p \in Ops, CloneEnds(p) PROVE broken \subseteq broken'
  BY <1>7, CloneEndsDoes, <1>0 DEF Turn
<1>8. ASSUME NEW p \in Ops, CloneFails(p) PROVE broken \subseteq broken'
  BY <1>8, CloneFailsDoes, DropsDoes, <1>0
<1>9. ASSUME NEW p \in Ops, OnlineCopies(p) PROVE broken \subseteq broken'
  BY <1>9, OnlineCopiesDoes, DropsDoes, OpensDoes, <1>0
<1>10. ASSUME NEW p \in Ops, OnlineStreamed(p) PROVE broken \subseteq broken'
  BY <1>10, OnlineStreamedDoes, DropsDoes, <1>0
<1>11. ASSUME NEW p \in Ops, OnlineFiles(p) PROVE broken \subseteq broken'
  BY <1>11, OnlineFilesDoes, DropsDoes, <1>0
<1>12. ASSUME NEW p \in Ops, OnlineCloses(p) PROVE broken \subseteq broken'
  BY <1>12, OnlineClosesDoes, <1>0 DEF Turn
<1>13. ASSUME NEW p \in Ops, SnapshotCopies(p) PROVE broken \subseteq broken'
  BY <1>13, SnapshotCopiesDoes, DropsDoes, OpensDoes, <1>0
<1>14. ASSUME NEW p \in Ops, SnapshotFiles(p) PROVE broken \subseteq broken'
  BY <1>14, SnapshotFilesDoes, <1>0 DEF Turn
<1>15. ASSUME NEW p \in Ops, RestoreClears(p) PROVE broken \subseteq broken'
  BY <1>15, RestoreClearsDoes, <1>0 DEF Turn
<1>16. ASSUME NEW p \in Ops, RestoreCopies(p) PROVE broken \subseteq broken'
  BY <1>16, RestoreCopiesDoes, DropsDoes, OpensDoes, <1>0
<1>17. ASSUME NEW p \in Ops, RestoreHolds(p) PROVE broken \subseteq broken'
  BY <1>17, RestoreHoldsDoes, DropsDoes, <1>0
<1>18. ASSUME NEW p \in Ops, SetAside(p) PROVE broken \subseteq broken'
  BY <1>18, SetAsideDoes, DropsDoes, <1>0
<1>19. ASSUME NEW p \in Ops, Place(p) PROVE broken \subseteq broken'
  BY <1>19, PlaceDoes, <1>0 DEF Turn
<1>20. ASSUME NEW p \in Ops, PlaceFails(p) PROVE broken \subseteq broken'
  BY <1>20, PlaceFailsDoes, <1>0 DEF Turn
<1>21. ASSUME NEW p \in Ops, Clean(p) PROVE broken \subseteq broken'
  BY <1>21, CleanDoes, <1>0 DEF Turn
<1>22. ASSUME NEW p \in Ops, RestsBefore(p) PROVE broken \subseteq broken'
  BY <1>22, RestsBeforeDoes, DropsDoes, <1>0
<1>23. ASSUME NEW p \in Ops, BranchCopies(p) PROVE broken \subseteq broken'
  BY <1>23, BranchCopiesDoes, DropsDoes, OpensDoes, <1>0
<1>24. ASSUME NEW p \in Ops, RestsAfter(p) PROVE broken \subseteq broken'
  BY <1>24, RestsAfterDoes, DropsDoes, <1>0
<1>25. ASSUME NEW p \in Ops, BranchCopied(p) PROVE broken \subseteq broken'
  BY <1>25, BranchCopiedDoes, DropsDoes, <1>0
<1>26. ASSUME NEW p \in Ops, BranchEnds(p) PROVE broken \subseteq broken'
  BY <1>26, BranchEndsDoes, <1>0
<1>27. ASSUME NEW p \in Ops, DeleteEnds(p) PROVE broken \subseteq broken'
  BY <1>27, DeleteEndsDoes, <1>0 DEF Turn
<1>28. ASSUME NEW p \in Ops, Slept(p) PROVE broken \subseteq broken'
  BY <1>28, SleptDoes, <1>0 DEF Turn
<1>29. ASSUME NEW p \in Ops, OnlineBegins(p) PROVE broken \subseteq broken'
  BY <1>29, OnlineBeginsDoes, <1>0
<1>30. ASSUME NEW p \in Ops, SnapshotBegins(p) PROVE broken \subseteq broken'
  BY <1>30, SnapshotBeginsDoes, <1>0
<1>31. ASSUME NEW p \in Ops, RestoreBegins(p) PROVE broken \subseteq broken'
  BY <1>31, RestoreBeginsDoes, <1>0
<1>32. ASSUME NEW p \in Ops, BranchBegins(p) PROVE broken \subseteq broken'
  BY <1>32, BranchBeginsDoes, <1>0
<1>33. ASSUME NEW p \in Ops, DeleteBegins(p) PROVE broken \subseteq broken'
  BY <1>33, DeleteBeginsDoes, <1>0 DEF Turn
<1>34. ASSUME NEW p \in Ops, SleepBegins(p) PROVE broken \subseteq broken'
  BY <1>34, SleepBeginsDoes, <1>0 DEF Turn
<1>35. ASSUME NEW p \in Ops, CloneBeginsAgain(p) PROVE broken \subseteq broken'
  BY <1>35, CloneBeginsAgainDoes, <1>0
<1>36. CASE WakeBegins
  BY <1>36, WakeBeginsDoes, <1>0
<1>37. CASE WakeBoots
  BY <1>37, WakeBootsDoes, <1>0
<1>38. CASE WakeEnds
  BY <1>38, WakeEndsDoes, <1>0
<1>39. CASE HibernatorStops
  BY <1>39, HibernatorStopsDoes, <1>0
<1>40. CASE HibernatorStopped
  BY <1>40, HibernatorStoppedDoes, <1>0
<1>41. CASE DaemonDies
  BY <1>41, DaemonDiesDoes, <1>0
<1>42. CASE UNCHANGED vars
  BY <1>42, <1>0 DEF vars, database, promises
<1>43. QED
  BY <1>1, <1>2, <1>3, <1>4, <1>5, <1>6, <1>7, <1>8, <1>9, <1>10, <1>11, <1>12, <1>13,
     <1>14, <1>15, <1>16, <1>17, <1>18, <1>19, <1>20, <1>21, <1>22, <1>23, <1>24, <1>25,
     <1>26, <1>27, <1>28, <1>29, <1>30, <1>31, <1>32, <1>33, <1>34, <1>35, <1>36, <1>37,
     <1>38, <1>39, <1>40, <1>41, <1>42 DEF Next, Begin, Proceed, Surroundings

\* How a copy comes to be made.
Readying == \A p \in Copiers \ Restores : step'[p] \in Ready /\ p \notin broken' =>
                step[p] \in Ready \/ CloneEnds(p) \/ OnlineStreamed(p)

\* How an online snapshot goes along,
OnlinePath(p) ==
    /\ step'[p] \in {"opened", "cloning", "copied"} =>
          step[p] \in {"opened", "cloning", "copied"} \/ OnlineBegins(p)
    /\ step'[p] \in {"cloning", "copied"} =>
          \/ step[p] \in {"cloning", "copied"} /\ before'[p] = before[p]
          \/ OnlineCopies(p) /\ Opens(p) /\ before'[p].state = row
    /\ step'[p] = "copied" => step[p] = "copied" \/ CloneEnds(p) \/ OnlineStreamed(p)
    /\ step'[p] = "cloning" => step[p] # "copied"
    /\ step'[p] \in Finishing /\ p \notin broken' =>
          step[p] \in Finishing \/ (step[p] = "copied" /\ row = before[p].state)

\* and a branch.
BranchPath(p) ==
    /\ step'[p] \in {"cloning", "checking"} =>
          \/ step[p] \in {"cloning", "checking"} /\ before'[p] = before[p]
          \/ BranchCopies(p) /\ Opens(p)
    /\ step'[p] = "checking" => step[p] = "checking" \/ CloneEnds(p)
    /\ step'[p] = "cloning" => step[p] # "checking"
    /\ step'[p] = "inspecting" \/ (step'[p] \in Finishing /\ p \notin broken') =>
          \/ step[p] = "inspecting" \/ step[p] \in Finishing
          \/ step[p] = "checking" /\ row = "sleeping" /\ before[p].mark = finished

\* That is how.
LEMMA Readies ==
    ASSUME TypeInv, [Next]_vars
    PROVE  Readying
<1>0. /\ Plain /\ step \in [Ops -> Ats] /\ Copiers \subseteq Ops /\ Onlines \subseteq Copiers
      /\ Branches \subseteq Copiers /\ Copiers \cap (Deletes \cup Sleeps) = {}
  BY Kinds DEF TypeInv, Stages, Ops, Copiers
<1>1. ASSUME NEW p \in Ops, GuardSaysIdle(p) PROVE Readying
  BY <1>1, GuardSaysIdleDoes, <1>0, Kinds DEF Turn, Readying, Ready
<1>2. ASSUME NEW p \in Ops, GuardRefuses(p) PROVE Readying
  BY <1>2, GuardRefusesDoes, DropsDoes, <1>0, Kinds DEF Readying, Ready
<1>3. ASSUME NEW p \in Ops, Quiesced(p) PROVE Readying
  BY <1>3, QuiescedDoes, DropsDoes, <1>0, Kinds DEF Readying, Ready, AfterQuiesce, Pausing
<1>4. ASSUME NEW p \in Ops, Resume(p) PROVE Readying
  BY <1>4, ResumeDoes, <1>0, Kinds DEF Turn, Readying, Ready
<1>5. ASSUME NEW p \in Ops, ResumeBoots(p) PROVE Readying
  BY <1>5, ResumeBootsDoes, <1>0, Kinds DEF Turn, Readying, Ready
<1>6. ASSUME NEW p \in Ops, Resumed(p) PROVE Readying
  BY <1>6, ResumedDoes, <1>0, Kinds DEF Readying, Ready, Ended
<1>7. ASSUME NEW p \in Ops, CloneEnds(p) PROVE Readying
  BY <1>7, CloneEndsDoes, <1>0, Kinds DEF Turn, Readying, Ready, Copied
<1>8. ASSUME NEW p \in Ops, CloneFails(p) PROVE Readying
  BY <1>8, CloneFailsDoes, DropsDoes, <1>0, Kinds DEF Readying, Ready
<1>9. ASSUME NEW p \in Ops, OnlineCopies(p) PROVE Readying
  BY <1>9, OnlineCopiesDoes, DropsDoes, OpensDoes, <1>0, Kinds DEF Readying, Ready
<1>10. ASSUME NEW p \in Ops, OnlineStreamed(p) PROVE Readying
  BY <1>10, OnlineStreamedDoes, DropsDoes, <1>0, Kinds DEF Readying, Ready
<1>11. ASSUME NEW p \in Ops, OnlineFiles(p) PROVE Readying
  BY <1>11, OnlineFilesDoes, DropsDoes, <1>0, Kinds DEF Readying, Ready
<1>12. ASSUME NEW p \in Ops, OnlineCloses(p) PROVE Readying
  BY <1>12, OnlineClosesDoes, <1>0, Kinds DEF Turn, Readying, Ready
<1>13. ASSUME NEW p \in Ops, SnapshotCopies(p) PROVE Readying
  BY <1>13, SnapshotCopiesDoes, DropsDoes, OpensDoes, <1>0, Kinds DEF Readying, Ready
<1>14. ASSUME NEW p \in Ops, SnapshotFiles(p) PROVE Readying
  BY <1>14, SnapshotFilesDoes, <1>0, Kinds DEF Turn, Readying, Ready
<1>15. ASSUME NEW p \in Ops, RestoreClears(p) PROVE Readying
  BY <1>15, RestoreClearsDoes, <1>0, Kinds DEF Turn, Readying, Ready
<1>16. ASSUME NEW p \in Ops, RestoreCopies(p) PROVE Readying
  BY <1>16, RestoreCopiesDoes, DropsDoes, OpensDoes, <1>0, Kinds DEF Readying, Ready
<1>17. ASSUME NEW p \in Ops, RestoreHolds(p) PROVE Readying
  BY <1>17, RestoreHoldsDoes, DropsDoes, <1>0, Kinds DEF Readying, Ready, AfterQuiesce
<1>18. ASSUME NEW p \in Ops, SetAside(p) PROVE Readying
  BY <1>18, SetAsideDoes, DropsDoes, <1>0, Kinds DEF Readying, Ready
<1>19. ASSUME NEW p \in Ops, Place(p) PROVE Readying
  BY <1>19, PlaceDoes, <1>0, Kinds DEF Turn, Readying, Ready
<1>20. ASSUME NEW p \in Ops, PlaceFails(p) PROVE Readying
  BY <1>20, PlaceFailsDoes, <1>0, Kinds DEF Turn, Readying, Ready
<1>21. ASSUME NEW p \in Ops, Clean(p) PROVE Readying
  BY <1>21, CleanDoes, <1>0, Kinds DEF Turn, Readying, Ready
<1>22. ASSUME NEW p \in Ops, RestsBefore(p) PROVE Readying
  BY <1>22, RestsBeforeDoes, DropsDoes, <1>0, Kinds DEF Readying, Ready
<1>23. ASSUME NEW p \in Ops, BranchCopies(p) PROVE Readying
  BY <1>23, BranchCopiesDoes, DropsDoes, OpensDoes, <1>0, Kinds DEF Readying, Ready
<1>24. ASSUME NEW p \in Ops, RestsAfter(p) PROVE Readying
  BY <1>24, RestsAfterDoes, DropsDoes, <1>0, Kinds DEF Readying, Ready
<1>25. ASSUME NEW p \in Ops, BranchCopied(p) PROVE Readying
  BY <1>25, BranchCopiedDoes, DropsDoes, <1>0, Kinds DEF Readying, Ready
<1>26. ASSUME NEW p \in Ops, BranchEnds(p) PROVE Readying
  BY <1>26, BranchEndsDoes, <1>0, Kinds DEF Readying, Ready
<1>27. ASSUME NEW p \in Ops, DeleteEnds(p) PROVE Readying
  BY <1>27, DeleteEndsDoes, <1>0, Kinds DEF Turn, Readying, Ready
<1>28. ASSUME NEW p \in Ops, Slept(p) PROVE Readying
  BY <1>28, SleptDoes, <1>0, Kinds DEF Turn, Readying, Ready
<1>29. ASSUME NEW p \in Ops, OnlineBegins(p) PROVE Readying
  BY <1>29, OnlineBeginsDoes, <1>0, Kinds DEF Readying, Ready
<1>30. ASSUME NEW p \in Ops, SnapshotBegins(p) PROVE Readying
  BY <1>30, SnapshotBeginsDoes, <1>0, Kinds DEF Readying, Ready, AfterQuiesce
<1>31. ASSUME NEW p \in Ops, RestoreBegins(p) PROVE Readying
  BY <1>31, RestoreBeginsDoes, <1>0, Kinds DEF Readying, Ready
<1>32. ASSUME NEW p \in Ops, BranchBegins(p) PROVE Readying
  BY <1>32, BranchBeginsDoes, <1>0, Kinds DEF Readying, Ready, AfterQuiesce
<1>33. ASSUME NEW p \in Ops, DeleteBegins(p) PROVE Readying
  BY <1>33, DeleteBeginsDoes, <1>0, Kinds DEF Turn, Readying, Ready
<1>34. ASSUME NEW p \in Ops, SleepBegins(p) PROVE Readying
  BY <1>34, SleepBeginsDoes, <1>0, Kinds DEF Turn, Readying, Ready
<1>35. ASSUME NEW p \in Ops, CloneBeginsAgain(p) PROVE Readying
  BY <1>35, CloneBeginsAgainDoes, <1>0, Kinds DEF Readying, Ready
<1>36. CASE WakeBegins
  BY <1>36, WakeBeginsDoes, <1>0, Kinds DEF Readying, Ready
<1>37. CASE WakeBoots
  BY <1>37, WakeBootsDoes, <1>0, Kinds DEF Readying, Ready
<1>38. CASE WakeEnds
  BY <1>38, WakeEndsDoes, <1>0, Kinds DEF Readying, Ready
<1>39. CASE HibernatorStops
  BY <1>39, HibernatorStopsDoes, <1>0, Kinds DEF Readying, Ready
<1>40. CASE HibernatorStopped
  BY <1>40, HibernatorStoppedDoes, <1>0, Kinds DEF Readying, Ready
<1>41. CASE DaemonDies
  BY <1>41, DaemonDiesDoes, <1>0, Kinds DEF Readying, Ready
<1>42. CASE UNCHANGED vars
  BY <1>42, <1>0, Kinds DEF vars, database, promises, Readying, Ready
<1>43. QED
  BY <1>1, <1>2, <1>3, <1>4, <1>5, <1>6, <1>7, <1>8, <1>9, <1>10, <1>11, <1>12, <1>13,
     <1>14, <1>15, <1>16, <1>17, <1>18, <1>19, <1>20, <1>21, <1>22, <1>23, <1>24, <1>25,
     <1>26, <1>27, <1>28, <1>29, <1>30, <1>31, <1>32, <1>33, <1>34, <1>35, <1>36, <1>37,
     <1>38, <1>39, <1>40, <1>41, <1>42 DEF Next, Begin, Proceed, Surroundings

Goes == (\A p \in Onlines : OnlinePath(p)) /\ (\A p \in Branches : BranchPath(p))

\* That is how they go.
LEMMA Paths ==
    ASSUME TypeInv, [Next]_vars
    PROVE  Goes
<1>0. /\ Plain /\ Remembers /\ step \in [Ops -> Ats] /\ Copiers \subseteq Ops /\ Onlines \subseteq Copiers
      /\ Branches \subseteq Copiers
      /\ DOMAIN before = Onlines \cup Branches
  BY DEF TypeInv, Stages, Ops, Copiers, Remembers
<1>1. ASSUME NEW p \in Ops, GuardSaysIdle(p) PROVE Goes
  BY <1>1, GuardSaysIdleDoes, <1>0, Kinds DEF Turn, Goes, OnlinePath, BranchPath, Finishing,
     promises
<1>2. ASSUME NEW p \in Ops, GuardRefuses(p) PROVE Goes
  BY <1>2, GuardRefusesDoes, DropsDoes, <1>0, Kinds DEF Goes, OnlinePath, BranchPath,
     Finishing, promises
<1>3. ASSUME NEW p \in Ops, Quiesced(p) PROVE Goes
  BY <1>3, QuiescedDoes, DropsDoes, <1>0, Kinds DEF Goes, OnlinePath, BranchPath, Finishing,
     promises, AfterQuiesce, Pausing
<1>4. ASSUME NEW p \in Ops, Resume(p) PROVE Goes
  BY <1>4, ResumeDoes, <1>0, Kinds DEF Turn, Goes, OnlinePath, BranchPath, Finishing,
     promises
<1>5. ASSUME NEW p \in Ops, ResumeBoots(p) PROVE Goes
  BY <1>5, ResumeBootsDoes, <1>0, Kinds DEF Turn, Goes, OnlinePath, BranchPath, Finishing,
     promises
<1>6. ASSUME NEW p \in Ops, Resumed(p) PROVE Goes
  BY <1>6, ResumedDoes, <1>0, Kinds DEF Goes, OnlinePath, BranchPath, Finishing, promises,
     Ended
<1>7. ASSUME NEW p \in Ops, CloneEnds(p) PROVE Goes
  BY <1>7, CloneEndsDoes, <1>0, Kinds DEF Turn, Goes, OnlinePath, BranchPath, Finishing,
     promises, Copied
<1>8. ASSUME NEW p \in Ops, CloneFails(p) PROVE Goes
  BY <1>8, CloneFailsDoes, DropsDoes, <1>0, Kinds DEF Goes, OnlinePath, BranchPath,
     Finishing, promises
<1>9. ASSUME NEW p \in Ops, OnlineCopies(p) PROVE Goes
  <2>1. p \in Onlines /\ p \notin Branches /\ step[p] = "opened"
    BY <1>0, <1>9, OnlineCopiesDoes, Kinds
  <2>2. \A q \in (Onlines \cup Branches) \ {p} : step'[q] = step[q] /\ before'[q] = before[q]
    <3>1. step' = [step EXCEPT ![p] = "cloning"] \/ step' = [step EXCEPT ![p] = "finally"]
      BY <1>9, OnlineCopiesDoes, DropsDoes, OpensDoes
    <3>2. before' = [before EXCEPT ![p].state = row] \/ before' = before
      BY <1>9, OnlineCopiesDoes
    <3>3. Onlines \cup Branches \subseteq Ops
      BY <1>0
    <3>4. QED
      BY <1>0, <2>1, <3>1, <3>2, <3>3
  <2>3. broken \subseteq broken'
    BY <1>0, <1>9, OnlineCopiesDoes, DropsDoes, OpensDoes
  <2>4. ASSUME NEW q \in Onlines, q # p PROVE OnlinePath(q)
    BY <1>0, <2>2, <2>3, <2>4 DEF OnlinePath
  <2>5. ASSUME NEW q \in Branches PROVE BranchPath(q)
    BY <1>0, <2>1, <2>2, <2>3, <2>5 DEF BranchPath
  <2>6. OnlinePath(p)
    <3>1. CASE Drops(p)
      BY <1>0, <2>1, <3>1, DropsDoes DEF OnlinePath, Finishing
    <3>2. CASE Opens(p)
      <4>0. step'[p] = "cloning" /\ ~Drops(p)
        BY <1>0, <1>9, <3>2, OpensDoes, DropsDoes
      <4>1. step'[p] = "cloning" /\ before' = [before EXCEPT ![p].state = row]
        BY <1>9, <4>0, OnlineCopiesDoes
      <4>2. before'[p].state = row
        BY <1>0, <2>1, <4>1 DEF Remembers
      <4>3. QED
        BY <1>9, <2>1, <3>2, <4>1, <4>2 DEF OnlinePath, Finishing
    <3>3. QED
      BY <1>9, <3>1, <3>2, OnlineCopiesDoes
  <2>7. QED
    BY <2>4, <2>5, <2>6 DEF Goes
<1>10. ASSUME NEW p \in Ops, OnlineStreamed(p) PROVE Goes
  BY <1>10, OnlineStreamedDoes, DropsDoes, <1>0, Kinds DEF Goes, OnlinePath, BranchPath,
     Finishing, promises
<1>11. ASSUME NEW p \in Ops, OnlineFiles(p) PROVE Goes
  BY <1>11, OnlineFilesDoes, DropsDoes, <1>0, Kinds DEF Goes, OnlinePath, BranchPath,
     Finishing, promises
<1>12. ASSUME NEW p \in Ops, OnlineCloses(p) PROVE Goes
  BY <1>12, OnlineClosesDoes, <1>0, Kinds DEF Turn, Goes, OnlinePath, BranchPath, Finishing,
     promises
<1>13. ASSUME NEW p \in Ops, SnapshotCopies(p) PROVE Goes
  BY <1>13, SnapshotCopiesDoes, DropsDoes, OpensDoes, <1>0, Kinds DEF Goes, OnlinePath,
     BranchPath, Finishing, promises
<1>14. ASSUME NEW p \in Ops, SnapshotFiles(p) PROVE Goes
  BY <1>14, SnapshotFilesDoes, <1>0, Kinds DEF Turn, Goes, OnlinePath, BranchPath,
     Finishing, promises
<1>15. ASSUME NEW p \in Ops, RestoreClears(p) PROVE Goes
  BY <1>15, RestoreClearsDoes, <1>0, Kinds DEF Turn, Goes, OnlinePath, BranchPath,
     Finishing, promises
<1>16. ASSUME NEW p \in Ops, RestoreCopies(p) PROVE Goes
  BY <1>16, RestoreCopiesDoes, DropsDoes, OpensDoes, <1>0, Kinds DEF Goes, OnlinePath,
     BranchPath, Finishing, promises
<1>17. ASSUME NEW p \in Ops, RestoreHolds(p) PROVE Goes
  BY <1>17, RestoreHoldsDoes, DropsDoes, <1>0, Kinds DEF Goes, OnlinePath, BranchPath,
     Finishing, promises, AfterQuiesce
<1>18. ASSUME NEW p \in Ops, SetAside(p) PROVE Goes
  BY <1>18, SetAsideDoes, DropsDoes, <1>0, Kinds DEF Goes, OnlinePath, BranchPath,
     Finishing, promises
<1>19. ASSUME NEW p \in Ops, Place(p) PROVE Goes
  BY <1>19, PlaceDoes, <1>0, Kinds DEF Turn, Goes, OnlinePath, BranchPath, Finishing,
     promises
<1>20. ASSUME NEW p \in Ops, PlaceFails(p) PROVE Goes
  BY <1>20, PlaceFailsDoes, <1>0, Kinds DEF Turn, Goes, OnlinePath, BranchPath, Finishing,
     promises
<1>21. ASSUME NEW p \in Ops, Clean(p) PROVE Goes
  BY <1>21, CleanDoes, <1>0, Kinds DEF Turn, Goes, OnlinePath, BranchPath, Finishing,
     promises
<1>22. ASSUME NEW p \in Ops, RestsBefore(p) PROVE Goes
  BY <1>22, RestsBeforeDoes, DropsDoes, <1>0, Kinds DEF Goes, OnlinePath, BranchPath,
     Finishing, promises
<1>23. ASSUME NEW p \in Ops, BranchCopies(p) PROVE Goes
  BY <1>23, BranchCopiesDoes, DropsDoes, OpensDoes, <1>0, Kinds DEF Goes, OnlinePath,
     BranchPath, Finishing, promises
<1>24. ASSUME NEW p \in Ops, RestsAfter(p) PROVE Goes
  BY <1>24, RestsAfterDoes, DropsDoes, <1>0, Kinds DEF Goes, OnlinePath, BranchPath,
     Finishing, promises
<1>25. ASSUME NEW p \in Ops, BranchCopied(p) PROVE Goes
  BY <1>25, BranchCopiedDoes, DropsDoes, <1>0, Kinds DEF Goes, OnlinePath, BranchPath,
     Finishing, promises
<1>26. ASSUME NEW p \in Ops, BranchEnds(p) PROVE Goes
  BY <1>26, BranchEndsDoes, <1>0, Kinds DEF Goes, OnlinePath, BranchPath, Finishing,
     promises
<1>27. ASSUME NEW p \in Ops, DeleteEnds(p) PROVE Goes
  BY <1>27, DeleteEndsDoes, <1>0, Kinds DEF Turn, Goes, OnlinePath, BranchPath, Finishing,
     promises
<1>28. ASSUME NEW p \in Ops, Slept(p) PROVE Goes
  BY <1>28, SleptDoes, <1>0, Kinds DEF Turn, Goes, OnlinePath, BranchPath, Finishing,
     promises
<1>29. ASSUME NEW p \in Ops, OnlineBegins(p) PROVE Goes
  BY <1>29, OnlineBeginsDoes, <1>0, Kinds DEF Goes, OnlinePath, BranchPath, Finishing,
     promises
<1>30. ASSUME NEW p \in Ops, SnapshotBegins(p) PROVE Goes
  BY <1>30, SnapshotBeginsDoes, <1>0, Kinds DEF Goes, OnlinePath, BranchPath, Finishing,
     promises, AfterQuiesce
<1>31. ASSUME NEW p \in Ops, RestoreBegins(p) PROVE Goes
  BY <1>31, RestoreBeginsDoes, <1>0, Kinds DEF Goes, OnlinePath, BranchPath, Finishing,
     promises
<1>32. ASSUME NEW p \in Ops, BranchBegins(p) PROVE Goes
  BY <1>32, BranchBeginsDoes, <1>0, Kinds DEF Goes, OnlinePath, BranchPath, Finishing,
     promises, AfterQuiesce
<1>33. ASSUME NEW p \in Ops, DeleteBegins(p) PROVE Goes
  BY <1>33, DeleteBeginsDoes, <1>0, Kinds DEF Turn, Goes, OnlinePath, BranchPath, Finishing,
     promises
<1>34. ASSUME NEW p \in Ops, SleepBegins(p) PROVE Goes
  BY <1>34, SleepBeginsDoes, <1>0, Kinds DEF Turn, Goes, OnlinePath, BranchPath, Finishing,
     promises
<1>35. ASSUME NEW p \in Ops, CloneBeginsAgain(p) PROVE Goes
  BY <1>35, CloneBeginsAgainDoes, <1>0, Kinds DEF Goes, OnlinePath, BranchPath, Finishing,
     promises
<1>36. CASE WakeBegins
  BY <1>36, WakeBeginsDoes, <1>0, Kinds DEF Goes, OnlinePath, BranchPath, Finishing,
     promises
<1>37. CASE WakeBoots
  BY <1>37, WakeBootsDoes, <1>0, Kinds DEF Goes, OnlinePath, BranchPath, Finishing, promises
<1>38. CASE WakeEnds
  BY <1>38, WakeEndsDoes, <1>0, Kinds DEF Goes, OnlinePath, BranchPath, Finishing, promises
<1>39. CASE HibernatorStops
  BY <1>39, HibernatorStopsDoes, <1>0, Kinds DEF Goes, OnlinePath, BranchPath, Finishing,
     promises
<1>40. CASE HibernatorStopped
  BY <1>40, HibernatorStoppedDoes, <1>0, Kinds DEF Goes, OnlinePath, BranchPath, Finishing,
     promises
<1>41. CASE DaemonDies
  BY <1>41, DaemonDiesDoes, <1>0, Kinds DEF Goes, OnlinePath, BranchPath, Finishing,
     promises
<1>42. CASE UNCHANGED vars
  BY <1>42, <1>0, Kinds DEF vars, database, promises, Goes, OnlinePath, BranchPath,
     Finishing
<1>43. QED
  BY <1>1, <1>2, <1>3, <1>4, <1>5, <1>6, <1>7, <1>8, <1>9, <1>10, <1>11, <1>12, <1>13,
     <1>14, <1>15, <1>16, <1>17, <1>18, <1>19, <1>20, <1>21, <1>22, <1>23, <1>24, <1>25,
     <1>26, <1>27, <1>28, <1>29, <1>30, <1>31, <1>32, <1>33, <1>34, <1>35, <1>36, <1>37,
     <1>38, <1>39, <1>40, <1>41, <1>42 DEF Next, Begin, Proceed, Surroundings

\* What becomes of the database around them.
Worldly ==
    /\ stopping' => stopping \/ (row = "running" /\ handles = {})
    /\ row' = "sleeping" => row = "sleeping" \/ stopping \/ StopsExcuse \/ DaemonDies
    /\ row' = "running" => row = "running" \/ finished' = finished + 1 \/ DaemonDies
    /\ row' = "stopping" => row \in {"running", "stopping"} \/ StopsExcuse
    /\ finished' \in Nat /\ finished <= finished'
    /\ \A q \in handles : q \in handles' \/ stopping \/ StopsExcuse \/ step[q] = "finally" \/ DaemonDies
    /\ waking' # "none" => waking # "none" \/ row' = "starting"

\* So it becomes.
LEMMA World ==
    ASSUME TypeInv, [Next]_vars
    PROVE  Worldly
<1>0. Plain /\ finished \in Nat
  BY DEF TypeInv, Plain
<1>1. ASSUME NEW p \in Ops, GuardSaysIdle(p) PROVE Worldly
  BY <1>1, GuardSaysIdleDoes, <1>0 DEF Turn, Worldly, database
<1>2. ASSUME NEW p \in Ops, GuardRefuses(p) PROVE Worldly
  BY <1>2, GuardRefusesDoes, DropsDoes, <1>0 DEF Worldly, database
<1>3. ASSUME NEW p \in Ops, Quiesced(p) PROVE Worldly
  BY <1>3, QuiescedDoes, DropsDoes, <1>0, StoppedMeans DEF Worldly, database
<1>4. ASSUME NEW p \in Ops, Resume(p) PROVE Worldly
  BY <1>4, ResumeDoes, <1>0 DEF Turn, Worldly, database
<1>5. ASSUME NEW p \in Ops, ResumeBoots(p) PROVE Worldly
  BY <1>5, ResumeBootsDoes, <1>0 DEF Turn, Worldly, database
<1>6. ASSUME NEW p \in Ops, Resumed(p) PROVE Worldly
  BY <1>6, ResumedDoes, <1>0, StartedMeans DEF Worldly, database
<1>7. ASSUME NEW p \in Ops, CloneEnds(p) PROVE Worldly
  BY <1>7, CloneEndsDoes, <1>0 DEF Turn, Worldly, database
<1>8. ASSUME NEW p \in Ops, CloneFails(p) PROVE Worldly
  BY <1>8, CloneFailsDoes, DropsDoes, <1>0 DEF Worldly, database
<1>9. ASSUME NEW p \in Ops, OnlineCopies(p) PROVE Worldly
  BY <1>9, OnlineCopiesDoes, DropsDoes, OpensDoes, <1>0 DEF Worldly, database
<1>10. ASSUME NEW p \in Ops, OnlineStreamed(p) PROVE Worldly
  BY <1>10, OnlineStreamedDoes, DropsDoes, <1>0 DEF Worldly, database
<1>11. ASSUME NEW p \in Ops, OnlineFiles(p) PROVE Worldly
  BY <1>11, OnlineFilesDoes, DropsDoes, <1>0 DEF Worldly, database
<1>12. ASSUME NEW p \in Ops, OnlineCloses(p) PROVE Worldly
  BY <1>12, OnlineClosesDoes, <1>0 DEF Turn, Worldly, database
<1>13. ASSUME NEW p \in Ops, SnapshotCopies(p) PROVE Worldly
  BY <1>13, SnapshotCopiesDoes, DropsDoes, OpensDoes, <1>0 DEF Worldly, database
<1>14. ASSUME NEW p \in Ops, SnapshotFiles(p) PROVE Worldly
  BY <1>14, SnapshotFilesDoes, <1>0 DEF Turn, Worldly, database
<1>15. ASSUME NEW p \in Ops, RestoreClears(p) PROVE Worldly
  BY <1>15, RestoreClearsDoes, <1>0 DEF Turn, Worldly, database
<1>16. ASSUME NEW p \in Ops, RestoreCopies(p) PROVE Worldly
  BY <1>16, RestoreCopiesDoes, DropsDoes, OpensDoes, <1>0 DEF Worldly, database
<1>17. ASSUME NEW p \in Ops, RestoreHolds(p) PROVE Worldly
  BY <1>17, RestoreHoldsDoes, DropsDoes, <1>0 DEF Worldly, database
<1>18. ASSUME NEW p \in Ops, SetAside(p) PROVE Worldly
  BY <1>18, SetAsideDoes, DropsDoes, <1>0 DEF Worldly, database
<1>19. ASSUME NEW p \in Ops, Place(p) PROVE Worldly
  BY <1>19, PlaceDoes, <1>0 DEF Turn, Worldly, database
<1>20. ASSUME NEW p \in Ops, PlaceFails(p) PROVE Worldly
  BY <1>20, PlaceFailsDoes, <1>0 DEF Turn, Worldly, database
<1>21. ASSUME NEW p \in Ops, Clean(p) PROVE Worldly
  BY <1>21, CleanDoes, <1>0 DEF Turn, Worldly, database
<1>22. ASSUME NEW p \in Ops, RestsBefore(p) PROVE Worldly
  BY <1>22, RestsBeforeDoes, DropsDoes, <1>0 DEF Worldly, database
<1>23. ASSUME NEW p \in Ops, BranchCopies(p) PROVE Worldly
  BY <1>23, BranchCopiesDoes, DropsDoes, OpensDoes, <1>0 DEF Worldly, database
<1>24. ASSUME NEW p \in Ops, RestsAfter(p) PROVE Worldly
  BY <1>24, RestsAfterDoes, DropsDoes, <1>0 DEF Worldly, database
<1>25. ASSUME NEW p \in Ops, BranchCopied(p) PROVE Worldly
  BY <1>25, BranchCopiedDoes, DropsDoes, <1>0 DEF Worldly, database
<1>26. ASSUME NEW p \in Ops, BranchEnds(p) PROVE Worldly
  BY <1>26, BranchEndsDoes, <1>0 DEF Worldly, database
<1>27. ASSUME NEW p \in Ops, DeleteEnds(p) PROVE Worldly
  BY <1>27, DeleteEndsDoes, <1>0 DEF Turn, Worldly, database
<1>28. ASSUME NEW p \in Ops, Slept(p) PROVE Worldly
  BY <1>28, SleptDoes, <1>0, StoppedMeans DEF Turn, Worldly, database
<1>29. ASSUME NEW p \in Ops, OnlineBegins(p) PROVE Worldly
  BY <1>29, OnlineBeginsDoes, <1>0 DEF Worldly, database
<1>30. ASSUME NEW p \in Ops, SnapshotBegins(p) PROVE Worldly
  BY <1>30, SnapshotBeginsDoes, <1>0 DEF Worldly, database
<1>31. ASSUME NEW p \in Ops, RestoreBegins(p) PROVE Worldly
  BY <1>31, RestoreBeginsDoes, <1>0 DEF Worldly, database
<1>32. ASSUME NEW p \in Ops, BranchBegins(p) PROVE Worldly
  BY <1>32, BranchBeginsDoes, <1>0 DEF Worldly, database
<1>33. ASSUME NEW p \in Ops, DeleteBegins(p) PROVE Worldly
  BY <1>33, DeleteBeginsDoes, <1>0 DEF Turn, Worldly, database
<1>34. ASSUME NEW p \in Ops, SleepBegins(p) PROVE Worldly
  BY <1>34, SleepBeginsDoes, <1>0 DEF Turn, Worldly, database
<1>35. ASSUME NEW p \in Ops, CloneBeginsAgain(p) PROVE Worldly
  BY <1>35, CloneBeginsAgainDoes, <1>0 DEF Worldly, database
<1>36. CASE WakeBegins
  BY <1>36, WakeBeginsDoes, <1>0 DEF Worldly, database
<1>37. CASE WakeBoots
  BY <1>37, WakeBootsDoes, <1>0 DEF Worldly, database
<1>38. CASE WakeEnds
  BY <1>38, WakeEndsDoes, <1>0, StartedMeans DEF Worldly, database
<1>39. CASE HibernatorStops
  BY <1>39, HibernatorStopsDoes, <1>0 DEF Worldly, database
<1>40. CASE HibernatorStopped
  BY <1>40, HibernatorStoppedDoes, <1>0, StoppedMeans DEF Worldly, database
<1>41. CASE DaemonDies
  BY <1>41, DaemonDiesDoes, <1>0 DEF Worldly, database, DaemonDies
<1>42. CASE UNCHANGED vars
  BY <1>42, <1>0 DEF vars, database, promises, Worldly
<1>43. QED
  BY <1>1, <1>2, <1>3, <1>4, <1>5, <1>6, <1>7, <1>8, <1>9, <1>10, <1>11, <1>12, <1>13,
     <1>14, <1>15, <1>16, <1>17, <1>18, <1>19, <1>20, <1>21, <1>22, <1>23, <1>24, <1>25,
     <1>26, <1>27, <1>28, <1>29, <1>30, <1>31, <1>32, <1>33, <1>34, <1>35, <1>36, <1>37,
     <1>38, <1>39, <1>40, <1>41, <1>42 DEF Next, Begin, Proceed, Surroundings

\* A copy that begins unsettled is excused.
LEMMA CopyingOnline ==
    ASSUME TypeInv, NEW p \in Ops, OnlineCopies(p), Opens(p), Unstopped(p)'
    PROVE  ~Unsettled /\ UNCHANGED database
<1>1. ~Drops(p)
  <2>1. step \in [Ops -> Ats]
    BY DEF TypeInv, Stages
  <2>2. QED
    BY <2>1, OpensDoes, DropsDoes
<1>2. QED
  BY <1>1, OnlineCopiesDoes

LEMMA CopyingBranch ==
    ASSUME TypeInv, NEW p \in Ops, BranchCopies(p), Opens(p), Unmoved(p)'
    PROVE  ~Unsettled /\ ~box /\ UNCHANGED database
<1>1. ~Drops(p)
  <2>1. step \in [Ops -> Ats]
    BY DEF TypeInv, Stages
  <2>2. QED
    BY <2>1, OpensDoes, DropsDoes
<1>2. QED
  BY <1>1, BranchCopiesDoes

\* An offline snapshot.
LEMMA OfflineStep ==
    ASSUME TypeInv, Holders, Cold, WholeInv, Readers, OfflineInv, [Next]_vars
    PROVE  OfflineInv'
<1> SUFFICES ASSUME NEW p \in Offlines, Settled(p)'
             PROVE  /\ step'[p] = "cloning" => p \notin spoiled'
                    /\ Uncrossed' /\ (step'[p] = "copied" \/ (step'[p] \in Finishing /\ p \notin broken'))
                          => Whole(Made(p))'
  BY DEF OfflineInv
<1>1. /\ p \in Copiers \ Restores /\ p \in Ops /\ p \notin Onlines /\ p \notin Branches /\ Plain
      /\ step \in [Ops -> Ats] /\ Settled(p) /\ step[p] \in Over \cup OfflineStages
  BY Kinds, ExcusesGrow DEF TypeInv, Stages, Ops, Copiers, Settled
<1>2. ASSUME step[p] \notin Over PROVE hold = p /\ ColdBy(p)
  BY <1>1, <1>2 DEF Holders, Cold
<1>3. ASSUME step'[p] = "cloning" PROVE p \notin spoiled'
  <2>1. CASE step[p] = "cloning"
    <3>1. hold = p /\ ColdBy(p) /\ p \notin spoiled
      BY <1>1, <1>2, <2>1 DEF Over, OfflineInv
    <3>2. waking = "none" /\ \A q \in Ops : step[q] # "starting"
      BY <2>1, <3>1 DEF ColdBy
    <3>3. ASSUME NEW q \in Ops, SetAside(q) PROVE Drops(q)
      <4>1. q \in Restores /\ step[q] = "swapping"
        BY <3>3, SetAsideDoes
      <4>2. hold = q
        BY <4>1 DEF Holders, HeldStages
      <4>3. QED
        BY <1>1, <3>1, <4>1, <4>2
    <3>4. QED
      BY <1>1, <2>1, <3>1, <3>2, <3>3, StaysUnspoiled
  <2>2. CASE step[p] # "cloning"
    <3>1. Opens(p)
      <4>1. ASSUME NEW q \in Ops, Begin(q) \/ Proceed(q) \/ CloneBeginsAgain(q) PROVE Opens(p)
        BY <1>1, <1>3, <2>2, <4>1, Opening
      <4>2. ASSUME Surroundings \/ UNCHANGED vars PROVE step'[p] = step[p] \/ step'[p] = "dead"
        BY <1>1, <4>2, WakeBeginsDoes, WakeBootsDoes, WakeEndsDoes, HibernatorStopsDoes,
           HibernatorStoppedDoes, DaemonDiesDoes DEF Surroundings, vars
      <4>3. QED
        BY <1>3, <2>2, <4>1, <4>2 DEF Next
    <3>2. step[p] = "copying"
      BY <1>1, <3>1, OpensDoes DEF Over, OfflineStages
    <3>3. ~box
      BY <1>2, <3>2 DEF Over, ColdBy, ColdStages
    <3>4. QED
      BY <3>1, <3>3, OpensDoes
  <2>3. QED
    BY <2>1, <2>2
<1>4. ASSUME Uncrossed', step'[p] = "copied" \/ (step'[p] \in Finishing /\ p \notin broken')
      PROVE  Whole(Made(p))'
  <2>1. Uncrossed
    BY <1>4, StaysUncrossed
  <2>2. p \notin broken' /\ step'[p] \in Ready /\ step'[p] # "failed"
    BY <1>4, TypesStep DEF TypeInv, Breaks, OnWayOut, Finishing, Ready
  <2>3. CASE step[p] \in Ready
    <3>1. step[p] = "copied" \/ (step[p] \in Finishing /\ p \notin broken)
      BY <1>1, <2>2, <2>3, BrokenStays DEF Ready, Finishing, Over, OfflineStages
    <3>2. Whole(Made(p))
      BY <1>1, <2>1, <3>1 DEF OfflineInv
    <3>3. QED
      BY <1>1, <2>2, <2>3, <3>2, StaysWhole
  <2>4. CASE CloneEnds(p)
    <3>1. step[p] = "cloning"
      BY <1>1, <2>4, CloneEndsDoes DEF Turn
    <3>2. p \notin spoiled
      BY <1>1, <3>1 DEF OfflineInv
    <3>3. QED
      BY <1>1, <2>1, <2>4, <3>2, CopiedWhole
  <2>5. ~OnlineStreamed(p)
    BY <1>1, OnlineStreamedDoes
  <2>6. QED
    BY <1>1, <2>2, <2>3, <2>4, <2>5, Readies DEF Readying
<1>5. QED
  BY <1>3, <1>4

\* No swap succeeds while somebody else has the project.
LEMMA NoSwap ==
    ASSUME TypeInv, Holders, hold \notin Restores
    PROVE  \A q \in Ops : ~SetAside(q)
<1>1. ASSUME NEW q \in Ops, SetAside(q) PROVE FALSE
  <2>1. q \in Restores /\ step[q] = "swapping"
    BY <1>1, SetAsideDoes
  <2>2. QED
    BY <2>1 DEF Holders, HeldStages
<1>2. QED
  BY <1>1

\* Rest is over once the row says something else.
LEMMA RestingStays ==
    ASSUME TypeInv, [Next]_vars, Resting, row' = "sleeping"
    PROVE  Resting'
<1>1. ~DaemonDies \/ waking' = "none"
  BY DaemonDiesDoes
<1>2. waking' = "none"
  BY <1>1, World DEF Resting, Worldly
<1>3. ASSUME NEW q \in Ops, step'[q] \in {"starting", "booting"} PROVE FALSE
  <2>1. Resume(q)
    BY <1>3, Enters DEF Entering, Resting
  <2>2. QED
    BY <2>1, ResumeDoes
<1>4. ~WakeBoots /\ \A q \in Ops : ~ResumeBoots(q)
  BY WakeBootsDoes, ResumeBootsDoes DEF Resting, Turn
<1>5. ~box'
  BY <1>4, BoxStays DEF Resting
<1>6. QED
  BY <1>2, <1>3, <1>5 DEF Resting

\* An online snapshot.
LEMMA OnlineStep ==
    ASSUME TypeInv, Holders, WholeInv, Readers, OnlineInv, [Next]_vars
    PROVE  OnlineInv'
<1> SUFFICES ASSUME NEW p \in Onlines, Unstopped(p)' PROVE OnlineOf(p)'
  BY DEF OnlineInv
<1>1. /\ p \in Copiers \ Restores /\ p \in Ops /\ p \notin Offlines /\ p \notin Branches /\ Plain
      /\ step \in [Ops -> Ats] /\ Unstopped(p) /\ step[p] \in Over \cup OnlineStages /\ OnlineOf(p)
      /\ Remembers /\ Remembers'
  BY Kinds, ExcusesGrow, RemembersStep DEF TypeInv, Stages, Ops, Copiers, Unstopped, OnlineInv
<1>2. step[p] \in {"opened", "cloning", "copied"} =>
        /\ p \in handles /\ ~stopping /\ hold = p /\ ~StopsExcuse
        /\ \A q \in Ops : ~SetAside(q)
  <2>1. ASSUME step[p] \in {"opened", "cloning", "copied"}
        PROVE  p \in handles /\ ~stopping /\ hold = p /\ ~StopsExcuse
    BY <1>1, <2>1 DEF OnlineOf, Holders, Over, StopsExcuse, Looking
  <2>2. QED
    BY <1>1, <2>1, NoSwap, Kinds
<1>3. ASSUME step'[p] \in {"opened", "cloning", "copied"} PROVE p \in handles' /\ ~stopping'
  <2>0. ~DaemonDies
    BY <1>1, <1>3, DaemonDiesDoes DEF Over
  <2>1. CASE step[p] \in {"opened", "cloning", "copied"}
    BY <1>2, <2>0, <2>1, World DEF Worldly
  <2>2. CASE OnlineBegins(p)
    <3>1. ~Unsettled /\ handles' = handles \cup {p} /\ UNCHANGED database
      BY <1>1, <1>3, <2>2, OnlineBeginsDoes
    <3>2. QED
      BY <3>1 DEF Unsettled, InFlight, database
  <2>3. QED
    BY <1>1, <1>3, <2>1, <2>2, Paths DEF Goes, OnlinePath
<1>4. ASSUME step'[p] \in {"cloning", "copied"}, before'[p].state = "sleeping", row' = "sleeping"
      PROVE  /\ Resting'
             /\ step'[p] = "cloning" => p \notin spoiled'
             /\ step'[p] = "copied" /\ Uncrossed' => Whole(Made(p))'
  <2>0. ~DaemonDies
    BY <1>1, <1>4, DaemonDiesDoes DEF Over
  <2>1. CASE step[p] \in {"cloning", "copied"} /\ before'[p] = before[p]
    <3>1. row = "sleeping"
      BY <1>2, <1>4, <2>0, <2>1, World DEF Worldly
    <3>2. /\ Resting
          /\ step[p] = "cloning" => p \notin spoiled
          /\ step[p] = "copied" /\ Uncrossed => Whole(Made(p))
      BY <1>1, <1>4, <2>1, <3>1 DEF OnlineOf
    <3>3. Resting'
      BY <1>4, <3>2, RestingStays
    <3>4. ASSUME step'[p] = "cloning" PROVE p \notin spoiled'
      <4>1. step[p] = "cloning"
        BY <1>1, <2>1, <3>4, Paths DEF Goes, OnlinePath
      <4>2. QED
        BY <1>1, <1>2, <3>2, <4>1, StaysUnspoiled DEF Resting
    <3>5. ASSUME step'[p] = "copied", Uncrossed' PROVE Whole(Made(p))'
      <4>0. Uncrossed
        BY <3>5, StaysUncrossed
      <4>1. CASE step[p] = "copied"
        <5>1. p \notin broken'
          BY <3>5, TypesStep DEF TypeInv, Breaks, OnWayOut
        <5>2. QED
          BY <1>1, <3>2, <3>5, <4>0, <4>1, <5>1, StaysWhole DEF Ready
      <4>2. CASE CloneEnds(p)
        <5>1. step[p] = "cloning"
          BY <1>1, <4>2, CloneEndsDoes DEF Turn
        <5>2. QED
          BY <1>1, <3>2, <4>0, <4>2, <5>1, CopiedWhole
      <4>3. CASE OnlineStreamed(p)
        BY <1>1, <1>4, <2>1, <4>3, OnlineStreamedDoes DEF Streams
      <4>4. QED
        BY <1>1, <3>5, <4>1, <4>2, <4>3, Paths DEF Goes, OnlinePath
    <3>6. QED
      BY <3>3, <3>4, <3>5
  <2>2. CASE OnlineCopies(p) /\ Opens(p) /\ before'[p].state = row
    <3>1. ~Unsettled /\ UNCHANGED database
      BY <1>1, <2>2, CopyingOnline
    <3>2. step'[p] = "cloning" /\ \A q \in Ops \ {p} : step'[q] = step[q]
      BY <1>1, <2>2, OpensDoes
    <3>3. row = "sleeping" /\ ~box /\ Resting'
      <4>1. row = "sleeping" /\ row' = row /\ box' = box /\ waking' = waking
        BY <1>4, <2>2, <3>1 DEF database
      <4>2. ~box /\ waking = "none" /\ \A q \in Ops : step[q] \notin {"starting", "booting"}
        BY <3>1, <4>1, <1>1 DEF Unsettled, InFlight, Plain
      <4>3. ~box'
        BY <4>1, <4>2
      <4>4. QED
        BY <3>2, <4>1, <4>2, <4>3 DEF Resting
    <3>4. p \notin spoiled'
      BY <2>2, <3>3, OpensDoes
    <3>5. QED
      BY <3>2, <3>3, <3>4
  <2>3. QED
    BY <1>1, <1>4, <2>1, <2>2, Paths DEF Goes, OnlinePath
<1>5. ASSUME step'[p] = "copied", before'[p].state = "running", Uncrossed' PROVE Whole(Made(p))'
  <2>0. Uncrossed
    BY <1>5, StaysUncrossed
  <2>1. step[p] \in {"cloning", "copied"} /\ before'[p] = before[p]
    BY <1>1, <1>5, Paths, OpensDoes DEF Goes, OnlinePath
  <2>2. CASE step[p] = "copied"
    <3>1. p \notin broken'
      BY <1>5, TypesStep DEF TypeInv, Breaks, OnWayOut
    <3>2. Whole(Made(p))
      BY <1>1, <1>5, <2>0, <2>1, <2>2 DEF OnlineOf
    <3>3. QED
      BY <1>1, <1>5, <2>2, <3>1, <3>2, StaysWhole DEF Ready
  <2>3. CASE CloneEnds(p)
    BY <1>1, <1>5, <2>1, <2>3, CloneEndsDoes DEF Streams
  <2>4. CASE OnlineStreamed(p)
    <3>1. /\ disk \in [Places -> Directories \cup {Absent}] /\ mount \in Asides /\ Made(p) \in Places
          /\ To(p) = Made(p)
      BY <1>1, Ways DEF TypeInv, Disks
    <3>2. disk[mount] # Absent /\ disk' = [disk EXCEPT ![Made(p)] = disk[mount]]
      <4>1. ~Drops(p)
        BY <1>1, <1>5, DropsDoes
      <4>2. QED
        BY <1>1, <2>4, <3>1, <4>1, OnlineStreamedDoes
    <3>3. disk[mount].whole
      BY <2>0, <3>1, <3>2 DEF WholeInv, Whole
    <3>4. QED
      BY <3>1, <3>2, <3>3 DEF Whole
  <2>5. QED
    BY <1>1, <1>5, <2>2, <2>3, <2>4, Paths DEF Goes, OnlinePath
<1>6. ASSUME step'[p] \in Finishing, p \notin broken', Uncrossed' PROVE Whole(Made(p))'
  <2>0. Uncrossed /\ p \notin broken /\ step'[p] # "failed"
    BY <1>6, StaysUncrossed, BrokenStays DEF Finishing
  <2>1. CASE step[p] \in Finishing
    <3>1. Whole(Made(p)) /\ step[p] \in Ready
      BY <1>1, <2>0, <2>1 DEF OnlineOf, Finishing, Ready
    <3>2. QED
      BY <1>1, <1>6, <2>0, <3>1, StaysWhole
  <2>2. CASE step[p] = "copied" /\ row = before[p].state
    <3>1. before[p].state \in {"running", "sleeping"}
      BY <1>1, <2>2 DEF Remembers
    <3>2. Whole(Made(p))
      BY <1>1, <2>0, <2>2, <3>1 DEF OnlineOf
    <3>3. QED
      BY <1>1, <1>6, <2>0, <2>2, <3>2, StaysWhole DEF Ready
  <2>3. QED
    BY <1>1, <1>6, <2>1, <2>2, Paths DEF Goes, OnlinePath
<1>7. QED
  BY <1>3, <1>4, <1>5, <1>6 DEF OnlineOf

\* A branch.
LEMMA BranchStep ==
    ASSUME TypeInv, WholeInv, Readers, BranchInv, [Next]_vars
    PROVE  BranchInv'
<1> SUFFICES ASSUME NEW p \in Branches, Unmoved(p)' PROVE BranchOf(p)'
  BY DEF BranchInv
<1>1. /\ p \in Copiers \ Restores /\ p \in Ops /\ p \notin Offlines /\ p \notin Onlines /\ Plain
      /\ step \in [Ops -> Ats] /\ Unmoved(p) /\ step[p] \in Over \cup BranchStages /\ BranchOf(p)
      /\ finished \in Nat /\ before[p].mark \in Nat /\ before[p].mark <= finished
  BY Kinds, ExcusesGrow DEF TypeInv, Plain, Stages, Ops, Copiers, Unmoved, BranchInv, Remembers
<1>2. step[p] \in {"cloning", "checking", "inspecting"} =>
        ~StopsExcuse /\ \A q \in Ops : SetAside(q) => Drops(q)
  BY <1>1, SetAsideDoes DEF StopsExcuse, Looking
<1>3. ASSUME step'[p] \in {"cloning", "checking"}, before'[p].mark = finished'
      PROVE  /\ ~stopping' /\ row' \notin {"running", "stopping"}
             /\ row' = "sleeping" =>
                  /\ Resting'
                  /\ step'[p] = "cloning" => p \notin spoiled'
                  /\ step'[p] = "checking" /\ Uncrossed' => Whole(Made(p))'
  <2>0. ~DaemonDies
    BY <1>1, <1>3, DaemonDiesDoes DEF Over
  <2>1. CASE step[p] \in {"cloning", "checking"} /\ before'[p] = before[p]
    <3>1. finished' \in Nat /\ finished <= finished'
      BY <1>1, World DEF Worldly
    <3>2. before[p].mark = finished /\ finished' = finished
      BY <1>1, <1>3, <2>1, <3>1
    <3>3. /\ ~stopping /\ row \notin {"running", "stopping"}
          /\ row = "sleeping" =>
               /\ Resting
               /\ step[p] = "cloning" => p \notin spoiled
               /\ step[p] = "checking" /\ Uncrossed => Whole(Made(p))
      BY <1>1, <2>1, <3>2 DEF BranchOf
    <3>4. finished' # finished + 1
      BY <1>1, <3>2
    <3>5. ~stopping' /\ row' \notin {"running", "stopping"}
      BY <1>2, <2>0, <2>1, <3>3, <3>4, World DEF Worldly
    <3>6. ASSUME row' = "sleeping" PROVE row = "sleeping" /\ Resting'
      <4>1. row = "sleeping"
        BY <1>2, <2>0, <2>1, <3>3, <3>6, World DEF Worldly
      <4>2. QED
        BY <3>3, <3>6, <4>1, RestingStays
    <3>7. ASSUME row' = "sleeping", step'[p] = "cloning" PROVE p \notin spoiled'
      <4>1. step[p] = "cloning"
        BY <1>1, <2>1, <3>7, Paths DEF Goes, BranchPath
      <4>2. QED
        BY <1>1, <1>2, <3>3, <3>6, <3>7, <4>1, StaysUnspoiled DEF Resting
    <3>8. ASSUME row' = "sleeping", step'[p] = "checking", Uncrossed' PROVE Whole(Made(p))'
      <4>0. Uncrossed
        BY <3>8, StaysUncrossed
      <4>1. CASE step[p] = "checking"
        <5>1. p \notin broken'
          BY <3>8, TypesStep DEF TypeInv, Breaks, OnWayOut
        <5>2. QED
          BY <1>1, <3>3, <3>6, <3>8, <4>0, <4>1, <5>1, StaysWhole DEF Ready
      <4>2. CASE CloneEnds(p)
        <5>1. step[p] = "cloning"
          BY <1>1, <4>2, CloneEndsDoes DEF Turn
        <5>2. QED
          BY <1>1, <3>3, <3>6, <3>8, <4>0, <4>2, <5>1, CopiedWhole
      <4>3. QED
        BY <1>1, <3>8, <4>1, <4>2, Paths DEF Goes, BranchPath
    <3>9. QED
      BY <3>5, <3>6, <3>7, <3>8
  <2>2. CASE BranchCopies(p) /\ Opens(p)
    <3>1. ~Unsettled /\ ~box /\ UNCHANGED database
      BY <1>1, <2>2, CopyingBranch
    <3>2. step'[p] = "cloning" /\ \A q \in Ops \ {p} : step'[q] = step[q]
      BY <1>1, <2>2, OpensDoes
    <3>3. /\ row = "sleeping" /\ waking = "none" /\ ~stopping
          /\ \A q \in Ops : step[q] \notin {"starting", "booting"}
      BY <1>1, <3>1 DEF Unsettled, InFlight, Plain
    <3>4. row' = row /\ waking' = waking /\ ~stopping' /\ ~box'
      BY <3>1, <3>3 DEF database
    <3>5. Resting'
      BY <3>2, <3>3, <3>4 DEF Resting
    <3>6. p \notin spoiled'
      BY <2>2, <3>1, OpensDoes
    <3>7. QED
      BY <3>2, <3>3, <3>4, <3>5, <3>6
  <2>3. QED
    BY <1>1, <1>3, <2>1, <2>2, Paths DEF Goes, BranchPath
<1>4. ASSUME step'[p] = "inspecting" \/ (step'[p] \in Finishing /\ p \notin broken'), Uncrossed'
      PROVE  Whole(Made(p))'
  <2>1. Uncrossed /\ step'[p] # "failed"
    BY <1>4, StaysUncrossed DEF Finishing
  <2>2. p \notin broken /\ p \notin broken'
    <3>1. p \notin broken'
      BY <1>4, TypesStep DEF TypeInv, Breaks, OnWayOut
    <3>2. QED
      BY <3>1, BrokenStays
  <2>3. CASE step[p] = "inspecting" \/ step[p] \in Finishing
    <3>1. Whole(Made(p)) /\ step[p] \in Ready
      BY <1>1, <2>1, <2>2, <2>3 DEF BranchOf, Finishing, Ready
    <3>2. QED
      BY <1>1, <2>1, <2>2, <3>1, StaysWhole
  <2>4. CASE step[p] = "checking" /\ row = "sleeping" /\ before[p].mark = finished
    <3>1. Whole(Made(p))
      BY <1>1, <2>1, <2>4 DEF BranchOf
    <3>2. QED
      BY <1>1, <2>1, <2>2, <2>4, <3>1, StaysWhole DEF Ready
  <2>5. QED
    BY <1>1, <1>4, <2>2, <2>3, <2>4, Paths DEF Goes, BranchPath
<1>5. QED
  BY <1>3, <1>4 DEF BranchOf

-----------------------------------------------------------------------------
(* Everything together.                                                    *)

\* What is preserved by every step, and gives what is promised.
IInv ==
    /\ TypeInv
    /\ Holders
    /\ Cleans
    /\ WrittenIsKept
    /\ WholeInv
    /\ Cold
    /\ Moored
    /\ Filled
    /\ Readers
    /\ OfflineInv
    /\ OnlineInv
    /\ BranchInv

\* What there is before anything is asked for.
LEMMA AtFirst ==
    ASSUME Init
    PROVE  /\ \A p \in Ops : step[p] = "idle"
           /\ excuses = {} /\ spoiled = {} /\ broken = {} /\ stopped = {} /\ hold = Nobody
           /\ disk[Live] = [data |-> "written", whole |-> TRUE]
           /\ \A s \in Snapshots : disk[Snap(s)] = [data |-> s, whole |-> TRUE]
           /\ \A s \in Snapshots : disk[Aside(s)] = Absent
<1>1. disk[Live] = [data |-> "written", whole |-> TRUE]
  BY Ways DEF Init
<1>2. ASSUME NEW s \in Snapshots
      PROVE  disk[Snap(s)] = [data |-> s, whole |-> TRUE] /\ disk[Aside(s)] = Absent
  <2>1. Snap(s) \in Places /\ Aside(s) \in Places /\ Snap(s) # Live /\ Aside(s) # Live
    BY Ways, Apart
  <2>2. Snap(s)[1] = "snapshot" /\ Snap(s)[2] = s /\ Aside(s)[1] = "pre-restore"
    BY DEF Snap, Aside
  <2>3. QED
    BY <2>1, <2>2 DEF Init
<1>3. QED
  BY <1>1, <1>2 DEF Init

\* The parts hold to begin with.
LEMMA StorageInit ==
    ASSUME Init
    PROVE  IInv
<1>1. TypeInv /\ Copiers \subseteq Ops /\ Restores \subseteq Ops /\ Offlines \subseteq Ops
      /\ Onlines \subseteq Ops /\ Branches \subseteq Ops /\ Deletes \subseteq Ops
  BY TypesInit DEF Ops, Copiers
<1>2. Holders
  BY <1>1, AtFirst, StorageNumbers DEF Holders, Over, HeldStages, Ops, Copiers
<1>3. Cleans
  BY AtFirst DEF Cleans, Swept
<1>4. WrittenIsKept
  <2>0. [data |-> "written", whole |-> TRUE] \in Directories
    BY DEF Directories
  <2>1. Absent # [data |-> "written", whole |-> TRUE]
    BY <2>0, StorageNumbers
  <2>2. QED
    BY <2>1, AtFirst DEF WrittenIsKept
<1>5. \A place \in Asides : disk[place] # Absent => Whole(place) /\ disk[place].data # "empty"
  BY AtFirst DEF Asides, Whole
<1>6. WholeInv
  <2>1. ASSUME NEW r \in Restores PROVE r \notin spoiled /\ Whole(Snap(Of[r]))
    <3>1. Of[r] \in Snapshots /\ [data |-> Of[r], whole |-> TRUE] \in Directories
      BY Ways DEF Directories
    <3>2. QED
      BY <3>1, AtFirst, StorageNumbers DEF Whole
  <2>2. Lone
    BY <1>1, AtFirst DEF Lone, Over
  <2>3. QED
    BY <1>1, <1>5, <2>1, <2>2, AtFirst DEF WholeInv, Staged
<1>7. Cold
  BY <1>1, AtFirst, Kinds DEF Cold
<1>8. Moored
  BY DEF Init, Moored
<1>9. Filled
  <2>0. [data |-> "written", whole |-> TRUE] \in Directories
    BY DEF Directories
  <2>1. disk[Live] # Absent
    BY <2>0, AtFirst, StorageNumbers
  <2>2. \A p \in Restores : ~Owns(p) /\ hold # p
    BY <1>1, AtFirst, Kinds DEF Owns
  <2>3. QED
    BY <1>5, <2>1, <2>2 DEF Filled, Full, Standing, Existing, AsideKept, OneOwner, NeverEmpty
<1>10. Readers
  BY <1>1, AtFirst DEF Readers, Cloning
<1>11. OfflineInv
  BY <1>1, AtFirst DEF OfflineInv, Finishing
<1>12. OnlineInv
  BY <1>1, AtFirst DEF OnlineInv, OnlineOf, Finishing
<1>13. BranchInv
  BY <1>1, AtFirst DEF BranchInv, BranchOf, Finishing
<1>14. QED
  BY <1>1, <1>2, <1>3, <1>4, <1>6, <1>7, <1>8, <1>9, <1>10, <1>11, <1>12, <1>13 DEF IInv

\* Every step keeps every part.
LEMMA StorageStep ==
    ASSUME IInv, [Next]_vars
    PROVE  IInv'
<1>1. TypeInv' /\ Holders'
  BY TypesStep, HoldersStep DEF IInv
<1>2. Cleans'
  BY CleansStep DEF IInv
<1>3. WrittenIsKept'
  BY WrittenStep DEF IInv
<1>4. WholeInv' /\ Readers'
  BY WholeStep, ReadersStep DEF IInv
<1>5. Cold' /\ Filled'
  BY ColdStep, FilledStep DEF IInv
<1>6. Moored'
  <2>1. ASSUME Undisturbed' PROVE box' => mount' = Live
    BY <2>1, MooredStep DEF IInv
  <2>2. Live' = Live
    BY DEF Live
  <2>3. QED
    BY <2>1, <2>2 DEF Moored
<1>7. OfflineInv' /\ OnlineInv' /\ BranchInv'
  BY OfflineStep, OnlineStep, BranchStep DEF IInv
<1>8. QED
  BY <1>1, <1>2, <1>3, <1>4, <1>5, <1>6, <1>7 DEF IInv

\* A copy that was kept was not abandoned.
LEMMA KeptMeans ==
    ASSUME TypeInv, NEW p \in Copiers, Kept(p)
    PROVE  p \notin broken /\ step[p] \in Finishing
BY DEF TypeInv, Breaks, OnWayOut, Kept, Finishing

\* And every part pays for its promise.
LEMMA StorageImplies ==
    ASSUME IInv
    PROVE  DataIsSafe
<1>1. TypeInv /\ Onlines \cup Offlines \cup Branches \subseteq Copiers
  BY DEF IInv, Copiers
<1>2. TypeOK /\ WrittenIsKept
  BY <1>1, TypesImply DEF IInv
<1>3. OnlineSnapshotIsWhole
  BY <1>1, KeptMeans DEF IInv, OnlineInv, OnlineOf, Unstopped, Whole, OnlineSnapshotIsWhole
<1>4. QuietSnapshotIsWhole
  BY <1>1, KeptMeans DEF IInv, OfflineInv, Settled, Whole, QuietSnapshotIsWhole
<1>5. BranchIsWhole
  BY <1>1, KeptMeans DEF IInv, BranchInv, BranchOf, Unmoved, Whole, BranchIsWhole
<1>6. LiveIsWhole
  <2>1. ASSUME disk[Live] # Absent, ~disk[Live].whole
        PROVE  \E p \in Restores : ~Clear(p, {"crossed"})
    BY <2>1 DEF IInv, WholeInv, Whole, Asides, Uncrossed
  <2>2. ASSUME disk[Live] # Absent, disk[Live].data = "empty"
        PROVE  crashes > 0 \/ \E p \in Restores : ~Clear(p, {"a start", "unsettled"})
    <3>1. crashes # 0 \/ ~Undisturbed
      BY <2>2 DEF IInv, Filled, Full, NeverEmpty, Asides
    <3>2. crashes \in Nat
      BY <1>1 DEF TypeInv, Plain
    <3>3. crashes # 0 => crashes > 0
      BY <3>2
    <3>4. ~Undisturbed => \E p \in Restores : ~Clear(p, {"a start", "unsettled"})
      BY Zenon DEF Undisturbed, Settled
    <3>5. QED
      BY <3>1, <3>3, <3>4, Zenon
  <2>3. QED
    BY <2>1, <2>2 DEF LiveIsWhole
<1>7. ServesWhatIsLive
  BY DEF IInv, Moored, Undisturbed, Settled, ServesWhatIsLive
<1>8. FailureLeavesNothing
  BY DEF IInv, Cleans, Swept, Cleaned, FailureLeavesNothing
<1>9. HoldIsOwned
  <2>1. hold \in Onlines \cup Offlines \cup Restores \cup {Nobody}
    BY <1>1 DEF TypeInv, Plain
  <2>2. HeldStages \cap Over = {}
    BY DEF HeldStages, Over
  <2>3. QED
    BY <2>1, <2>2 DEF IInv, Holders, HoldIsOwned
<1>10. QED
  BY <1>2, <1>3, <1>4, <1>5, <1>6, <1>7, <1>8, <1>9 DEF DataIsSafe

\* The data of a database is safe whatever snapshots, restores, branches and deletions are
\* asked for together, whatever starts and stops beside them and whatever fails: a copy that
\* is kept is whole, what the users wrote is somewhere, what runs is live and whole, what
\* fails leaves nothing behind and the project does not stay held.
THEOREM StorageDataSafe == Spec => []DataIsSafe
<1>1. Init => IInv
  BY StorageInit
<1>2. IInv /\ [Next]_vars => IInv'
  BY StorageStep
<1>3. IInv => DataIsSafe
  BY StorageImplies
<1>4. QED
  BY <1>1, <1>2, <1>3, PTL DEF Spec


=============================================================================
