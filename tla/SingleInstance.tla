------------------------- MODULE SingleInstance --------------------------
(***************************************************************************)
(* One daemon per box (single-instance.ts): processes that start, take the *)
(* lock file at its fixed path, serve, shut down or die.  Everything here  *)
(* is a separate process, so every system call is a step of its own.       *)
(*                                                                         *)
(* A file is named by the process that created it: what is written goes to *)
(* that file, wherever the path points by then.                            *)
(***************************************************************************)
EXTENDS Naturals

CONSTANTS
    Procs,      \* the daemons somebody starts, again and again
    Pids,
    Nobody,     \* no file at the path; no pid in a file; no pid
    User,       \* process -> the user it runs as
    Root,
    Faults      \* "crash": a process may be killed; "reuse": any free pid may be given out,
                \* to a daemon or to another program, also one that is on record

ASSUME Names == Nobody \notin Procs \cup Pids

VARIABLES
    at,         \* whose file is at the path
    written,    \* process -> the pid in the file it created last
    pc,
    pid,        \* process -> its pid
    others,     \* pids of programs that are not daemons
    seen,       \* process -> the pid it last read
    attempt,
    contended,  \* history: two processes were at the lock at once
    misread     \* history: a file was read between its creation and its first write

vars == <<at, written, pc, pid, others, seen, attempt, contended, misread>>

Acquiring == {"opening", "reading", "judging", "unlinking", "writing"}
Releasing == {"rereading", "removing"}
Serving   == {"locked", "up"}
States    == {"out"} \cup Acquiring \cup Serving \cup Releasing

Alive == ({pid[p] : p \in Procs} \cup others) \ {Nobody}

\* Whoever moves, the history notes whether it has company at the lock.
AtTheLock == Acquiring \cup Releasing

Noting ==
    contended' = (contended \/ \E p, q \in Procs : p # q /\ pc'[p] \in AtTheLock /\ pc'[q] \in AtTheLock)

Goto(p, where) == pc' = [pc EXCEPT ![p] = where]

Exit(p) == Goto(p, "out") /\ pid' = [pid EXCEPT ![p] = Nobody]

-----------------------------------------------------------------------------
(* acquireDaemonLock.                                                      *)

Start(p) ==
    /\ pc[p] = "out"
    /\ \E i \in Pids \ Alive :
          /\ "reuse" \in Faults \/ i \notin {written[q] : q \in Procs}
          /\ pid' = [pid EXCEPT ![p] = i]
    /\ Goto(p, "opening")
    /\ attempt' = [attempt EXCEPT ![p] = 0]
    /\ Noting
    /\ UNCHANGED <<at, written, others, seen, misread>>

\* Create, or fail if it is there.
Open(p) ==
    /\ pc[p] = "opening"
    /\ IF at = Nobody
       THEN /\ at' = p
            /\ written' = [written EXCEPT ![p] = Nobody]
            /\ Goto(p, "writing")
       ELSE Goto(p, "reading") /\ UNCHANGED <<at, written>>
    /\ Noting
    /\ UNCHANGED <<pid, others, seen, attempt, misread>>

\* A file that is gone or holds no record reads as nobody's.
Read(p) == [seen EXCEPT ![p] = IF at = Nobody THEN Nobody ELSE written[at]]

ReadRecord(p) ==
    /\ pc[p] = "reading"
    /\ seen' = Read(p)
    /\ misread' = (misread \/ (at # Nobody /\ pc[at] = "writing"))
    /\ Goto(p, "judging")
    /\ Noting
    /\ UNCHANGED <<at, written, pid, others, attempt>>

\* (mutant) A file that cannot be understood is somebody's.
JudgeUnreadableTaken(p) ==
    /\ pc[p] = "judging"
    /\ IF seen[p] \in Alive \cup {Nobody}
       THEN Exit(p)
       ELSE Goto(p, "unlinking") /\ UNCHANGED pid
    /\ Noting
    /\ UNCHANGED <<at, written, others, seen, attempt, misread>>

\* A pid that is in use is a daemon's, as far as anyone can tell.
Judge(p) ==
    /\ pc[p] = "judging"
    /\ IF seen[p] \in Alive
       THEN Exit(p)
       ELSE Goto(p, "unlinking") /\ UNCHANGED pid
    /\ Noting
    /\ UNCHANGED <<at, written, others, seen, attempt, misread>>

\* The directory is sticky: only its owner or root removes a file.
MayUnlink(p) == at = Nobody \/ User[p] \in {User[at], Root}

\* (mutant) One attempt too many.
UnlinkStaleThrice(p) ==
    /\ pc[p] = "unlinking"
    /\ attempt' = [attempt EXCEPT ![p] = attempt[p] + 1]
    /\ IF MayUnlink(p) /\ attempt[p] <= 1
       THEN Goto(p, "opening") /\ UNCHANGED pid
       ELSE Exit(p)
    /\ at' = IF MayUnlink(p) THEN Nobody ELSE at
    /\ Noting
    /\ UNCHANGED <<written, others, seen, misread>>

UnlinkStale(p) ==
    /\ pc[p] = "unlinking"
    /\ attempt' = [attempt EXCEPT ![p] = attempt[p] + 1]
    /\ IF MayUnlink(p) /\ attempt[p] = 0
       THEN Goto(p, "opening") /\ UNCHANGED pid
       ELSE Exit(p)
    /\ at' = IF MayUnlink(p) THEN Nobody ELSE at
    /\ Noting
    /\ UNCHANGED <<written, others, seen, misread>>

\* (mutant) The record is left for later.
WriteNothing(p) ==
    /\ pc[p] = "writing"
    /\ Goto(p, "locked")
    /\ Noting
    /\ UNCHANGED <<at, written, pid, others, seen, attempt, misread>>

Write(p) ==
    /\ pc[p] = "writing"
    /\ written' = [written EXCEPT ![p] = pid[p]]
    /\ Goto(p, "locked")
    /\ Noting
    /\ UNCHANGED <<at, pid, others, seen, attempt, misread>>

-----------------------------------------------------------------------------
(* cmdDaemon, and the end of a daemon.                                     *)

\* (mutant) The lock is released as soon as the daemon serves.
ServeWithoutLock(p) ==
    /\ pc[p] = "locked"
    /\ Goto(p, "up")
    /\ at' = Nobody
    /\ Noting
    /\ UNCHANGED <<written, pid, others, seen, attempt, misread>>

Serve(p) ==
    /\ pc[p] = "locked"
    /\ Goto(p, "up")
    /\ Noting
    /\ UNCHANGED <<at, written, pid, others, seen, attempt, misread>>

\* reconcile or startDaemon throws; or the daemon has shut down, and releases last.
Release(p) ==
    /\ pc[p] \in Serving
    /\ Goto(p, "rereading")
    /\ Noting
    /\ UNCHANGED <<at, written, pid, others, seen, attempt, misread>>

Reread(p) ==
    /\ pc[p] = "rereading"
    /\ seen' = Read(p)
    /\ misread' = (misread \/ (at # Nobody /\ pc[at] = "writing"))
    /\ IF seen'[p] \in {Nobody, pid[p]}
       THEN Goto(p, "removing") /\ UNCHANGED pid
       ELSE Exit(p)
    /\ Noting
    /\ UNCHANGED <<at, written, others, attempt>>

Remove(p) ==
    /\ pc[p] = "removing"
    /\ at' = IF MayUnlink(p) THEN Nobody ELSE at
    /\ Exit(p)
    /\ Noting
    /\ UNCHANGED <<written, others, seen, attempt, misread>>

Crash(p) ==
    /\ "crash" \in Faults
    /\ pc[p] # "out"
    /\ Exit(p)
    /\ Noting
    /\ UNCHANGED <<at, written, others, seen, attempt, misread>>

OtherProgram ==
    /\ "reuse" \in Faults
    /\ \/ \E i \in Pids \ Alive : others' = others \cup {i}
       \/ \E i \in others : others' = others \ {i}
    /\ UNCHANGED <<at, written, pc, pid, seen, attempt, contended, misread>>

-----------------------------------------------------------------------------

Init ==
    /\ at = Nobody /\ written = [p \in Procs |-> Nobody]
    /\ pc = [p \in Procs |-> "out"] /\ pid = [p \in Procs |-> Nobody]
    /\ others = {} /\ seen = [p \in Procs |-> Nobody] /\ attempt = [p \in Procs |-> 0]
    /\ contended = FALSE /\ misread = FALSE

Acquire(p) == Start(p) \/ Open(p) \/ ReadRecord(p) \/ Judge(p) \/ UnlinkStale(p) \/ Write(p)

Daemon(p) == Acquire(p) \/ Serve(p) \/ Release(p) \/ Reread(p) \/ Remove(p) \/ Crash(p)

Next == OtherProgram \/ \E p \in Procs : Daemon(p)

Spec == Init /\ [][Next]_vars

\* A process that starts with the pid on record refuses itself.
OnRecord(i) == at # Nobody /\ written[at] = i

\* Whoever is refused is started again, a process that runs goes on running.  In the
\* end no program holds a pid that may be on record, no start is given the one that
\* is, and nobody kills a process (which looks like an exit of its own, where it may
\* exit).
FairSpec ==
    /\ Spec
    /\ \A p \in Procs : WF_vars(Acquire(p)) /\ WF_vars(Serve(p) \/ Release(p))
                     /\ WF_vars(Reread(p)) /\ WF_vars(Remove(p))
    /\ <>[](others = {})
    /\ <>[][\A p \in Procs : Start(p) => ~OnRecord(pid'[p])]_vars
    /\ <>[][~\E p \in Procs : Crash(p) /\ ~(Judge(p) \/ Reread(p) \/ Remove(p))]_vars

-----------------------------------------------------------------------------
(* Properties.                                                             *)

TypeOK ==
    /\ at \in Procs \cup {Nobody}
    /\ written \in [Procs -> Pids \cup {Nobody}]
    /\ pc \in [Procs -> States]
    /\ pid \in [Procs -> Pids \cup {Nobody}]
    /\ others \subseteq Pids
    /\ seen \in [Procs -> Pids \cup {Nobody}]
    /\ attempt \in [Procs -> 0 .. 2]
    /\ contended \in BOOLEAN /\ misread \in BOOLEAN

AtMostOne == \A p, q \in Procs : pc[p] \in Serving /\ pc[q] \in Serving => p = q

\* While no two processes were ever at the lock at the same time, one daemon at most
\* serves, whoever died, whatever pids were used again (single-instance.ts).
LoneStartIsExclusive == ~contended => AtMostOne

\* ... and the lock says which one, from before it reconciles until it releases
\* (cmdDaemon, inspectDaemonLock).
LockNamesTheDaemon ==
    ~contended => \A p \in Procs : pc[p] \in Serving => at = p /\ written[p] = pid[p]

\* What a dead daemon left behind keeps nobody from starting.
SomebodyServes == []<>(\E p \in Procs : pc[p] \in Serving)

\* Two daemons that reclaim one stale lock do not both win (acquireDaemonLock, the loop).
ReclaimHasOneWinner == ~misread => AtMostOne

\* Both of a lone start: one daemon at most, and the lock that names it.
LockIsSound ==
    /\ TypeOK
    /\ LoneStartIsExclusive
    /\ LockNamesTheDaemon
=============================================================================
