---------------------------- MODULE HttpRouter ----------------------------
(***************************************************************************)
(* The HTTP half of the wake router (proxy/src/http.ts) in front of one    *)
(* app or worker: ordinary requests and upgrades, from the resolution of   *)
(* the hostname to the end of the response, and the close of the router.   *)
(* A step is what runs between two events of a socket, a timer or a wake.  *)
(***************************************************************************)
EXTENDS Naturals, FiniteSets

CONSTANTS
    Gets,       \* requests without a body
    Posts,      \* requests with one
    Upgrades    \* WebSockets

Requests == Gets \cup Posts \cup Upgrades

VARIABLES
    app,        \* the app's row: running, asleep, or gone
    up,         \* whether something listens on its port
    wakeOn,     \* its wake is in flight
    refusing,   \* its last wake failed and its retry is ahead
    handles,    \* requests whose activity handle is open
    at,         \* request -> where it is
    left,       \* requests whose client is gone
    reply,      \* request -> what its client was sent
    sends,      \* request -> how often it went to the upstream
    asks,       \* request -> wakes it asked for
    restarted,  \* requests that have used their restart
    upgraded,   \* the set closeUpgraded destroys
    closed,     \* the router's close has been called
    unheard     \* history: requests whose client left before a close was listened for

world == <<app, up, wakeOn, refusing>>
vars  == <<world, handles, at, left, reply, sends, asks, restarted, upgraded, closed,
           unheard>>

\* With an upstream request or a socket pair open.
Using == {"sent", "restarting", "streaming", "upgraded"}

Say(q, what) == reply' = [reply EXCEPT ![q] = IF q \in left THEN @ ELSE @ \cup {what}]
Go(q, to)    == at' = [at EXCEPT ![q] = to]
\* Faulty variant: the handle of an upgraded pair is left to its request.
ReleaseRequests(q) == handles' = IF q \in Upgrades THEN handles ELSE handles \ {q}
Release(q)   == handles' = handles \ {q}
Refuse(q)    == Go(q, "done") /\ Say(q, "error")

AskWake(q) ==
    /\ wakeOn' = TRUE
    /\ asks' = [asks EXCEPT ![q] = @ + 1]

-----------------------------------------------------------------------------

\* What a resolved target is used for: the handle is opened and the request
\* goes to the upstream, in the same turn.  An upgrade looks whether its client
\* is still there.
Used(S) == {q \in S : q \in Upgrades => q \notin left}
Engage(S) ==
    /\ handles' = handles \cup Used(S)
    /\ sends' = [q \in Requests |-> sends[q] + IF q \in Used(S) THEN 1 ELSE 0]
    /\ upgraded' = upgraded \cup (Used(S) \cap Upgrades)
    /\ unheard' = unheard \cup (Used(S) \cap left)

Engaged(q) ==
    IF q \in Used({q}) THEN IF q \in Upgrades THEN "upgraded" ELSE "sent" ELSE "done"

\* resolveAndWake up to the wake.
Arrive(q) ==
    /\ at[q] = "off"
    /\ ~closed
    /\ \/ /\ app = "gone" \/ (app = "asleep" /\ refusing)
          /\ Refuse(q)
          /\ UNCHANGED <<wakeOn, asks, handles, sends, upgraded, unheard>>
       \/ /\ app = "running"
          /\ Go(q, Engaged(q))
          /\ Engage({q})
          /\ UNCHANGED <<wakeOn, asks, reply>>
       \/ /\ app = "asleep" /\ ~refusing
          /\ Go(q, "waking")
          /\ AskWake(q)
          /\ UNCHANGED <<handles, sends, upgraded, unheard, reply>>
    /\ UNCHANGED <<app, up, refusing, left, restarted, closed>>

\* deps.wake settles.  Those that waited for it go on: first waits are resolved
\* and sent, a restarted request is sent again if nothing of it is lost.
WakeEnds ==
    /\ wakeOn
    /\ wakeOn' = FALSE
    /\ \E woke \in {w \in BOOLEAN : w => app # "gone"} :
        LET first  == {q \in Requests : at[q] = "waking"}
            again  == {q \in Requests : at[q] = "restarting"}
            served == IF woke THEN first \cup (again \cap Gets) ELSE {}
        IN
        /\ app' = IF app = "gone" THEN app ELSE IF woke THEN "running" ELSE "asleep"
        /\ up' = woke
        /\ refusing' = ~woke
        /\ at' = [q \in Requests |->
                    IF q \in served THEN IF q \in again THEN "sent" ELSE Engaged(q)
                    ELSE IF q \in first \cup again THEN "done" ELSE at[q]]
        /\ reply' = [q \in Requests |->
                       IF q \in (first \cup again) \ (served \cup left)
                       THEN reply[q] \cup {"error"} ELSE reply[q]]
        /\ handles' = (handles \ (again \ served)) \cup Used(first \cap served)
        /\ sends' = [q \in Requests |->
                       sends[q] + IF q \in served /\ at'[q] # "done" THEN 1 ELSE 0]
        /\ upgraded' = upgraded \cup (Used(first \cap served) \cap Upgrades)
        /\ unheard' = unheard \cup (Used(first \cap served) \cap left)
    /\ UNCHANGED <<left, asks, restarted, closed>>

\* Faulty variant: the wake of a restart is awaited without a timeout.
WakeTimesOutOnce(q) ==
    /\ at[q] = "waking"
    /\ Refuse(q)
    /\ Release(q)
    /\ UNCHANGED <<world, left, sends, asks, restarted, upgraded, closed, unheard>>

\* withTimeout around either wake.
WakeTimesOut(q) ==
    /\ at[q] \in {"waking", "restarting"}
    /\ Refuse(q)
    /\ Release(q)
    /\ UNCHANGED <<world, left, sends, asks, restarted, upgraded, closed, unheard>>

\* Faulty variant: the request that paid for a wake may ask for another.
MayRestartAgain(q) == q \notin restarted /\ ~refusing
\* A running target that refuses its port is dead: one wake, if this request
\* has not paid for one and no refusal stands.
MayRestart(q) == q \notin restarted /\ asks[q] = 0 /\ ~refusing
Restart(q) ==
    /\ Go(q, "restarting")
    /\ AskWake(q)
    /\ restarted' = restarted \cup {q}

\* upstream.on('error') before any header: nobody listens, or somebody does and resets
\* the connection, which reads the same.
DialFails(q) ==
    /\ at[q] = "sent"
    /\ \/ /\ MayRestart(q)
          /\ Restart(q)
          /\ UNCHANGED <<reply, handles>>
       \/ /\ ~MayRestart(q)
          /\ Refuse(q)
          /\ Release(q)
          /\ UNCHANGED <<wakeOn, asks, restarted>>
    /\ UNCHANGED <<app, up, refusing, left, sends, upgraded, closed, unheard>>

UpstreamTimesOut(q) ==
    /\ at[q] = "sent"
    /\ Refuse(q)
    /\ Release(q)
    /\ UNCHANGED <<world, left, sends, asks, restarted, upgraded, closed, unheard>>

Headers(q) ==
    /\ at[q] = "sent"
    /\ up
    /\ Go(q, "streaming")
    /\ Say(q, "head")
    /\ UNCHANGED <<world, handles, left, sends, asks, restarted, upgraded, closed, unheard>>

\* The response ends, or its upstream dies in the middle of it: a body that is
\* cut never looks complete.
BodyEnds(q) ==
    /\ at[q] = "streaming"
    /\ Go(q, "done")
    /\ Say(q, "whole")
    /\ Release(q)
    /\ UNCHANGED <<world, left, sends, asks, restarted, upgraded, closed, unheard>>

\* Faulty variant: the response is ended where its upstream broke off.
BodyIsClosed(q) ==
    /\ at[q] = "streaming"
    /\ Go(q, "done")
    /\ reply' = [reply EXCEPT ![q] = @ \cup {"whole", "cut"}]
    /\ Release(q)
    /\ UNCHANGED <<world, left, sends, asks, restarted, upgraded, closed, unheard>>

BodyIsCut(q) ==
    /\ at[q] = "streaming"
    /\ Go(q, "done")
    /\ Say(q, "cut")
    /\ Release(q)
    /\ UNCHANGED <<world, left, sends, asks, restarted, upgraded, closed, unheard>>

\* Either side of an upgraded pair has said its last byte: teardown of both.
Teardown(q) ==
    /\ Go(q, "done")
    /\ Release(q)
    /\ upgraded' = upgraded \ {q}

UpgradeEnds(q) ==
    /\ at[q] = "upgraded"
    /\ Teardown(q)
    /\ reply' = [reply EXCEPT ![q] = @ \cup {"cut"}]
    /\ UNCHANGED <<world, left, sends, asks, restarted, closed, unheard>>

\* The client's socket closes.  Before the request is sent nothing listens; after
\* that, res 'close' releases the handle and destroys the upstream request, which
\* a runtime may report as a reset of its own - and a reset reads like a refused dial.
Leave(q) ==
    /\ at[q] \notin {"off", "done"}
    /\ q \notin left
    /\ left' = left \cup {q}
    /\ \/ /\ at[q] = "waking"
          /\ UNCHANGED <<at, handles, upgraded, wakeOn, asks, restarted>>
       \/ /\ at[q] = "upgraded"
          /\ Teardown(q)
          /\ UNCHANGED <<wakeOn, asks, restarted>>
       \/ /\ at[q] = "restarting"
          /\ Release(q)
          /\ UNCHANGED <<at, upgraded, wakeOn, asks, restarted>>
       \/ /\ at[q] \in {"sent", "streaming"}
          /\ Release(q)
          /\ \/ Go(q, "done") /\ UNCHANGED <<wakeOn, asks, restarted>>
             \/ at[q] = "sent" /\ MayRestart(q) /\ Restart(q)
          /\ UNCHANGED upgraded
    /\ UNCHANGED <<app, up, refusing, reply, sends, closed, unheard>>

\* HttpRouterHandle.close: closeAllConnections takes the sockets the server still
\* owns, closeUpgraded those an upgrade took from it.  An upgrade that waits for
\* its wake is in neither, and a client that is gone has no socket.  A request that was
\* sent may read the end of its upstream as a refused dial, as when a client leaves.
Close ==
    /\ ~closed
    /\ closed' = TRUE
    /\ LET cut == {q \in Requests \ left : \/ at[q] \in Using
                                           \/ at[q] = "waking" /\ q \notin Upgrades}
       IN
       /\ left' = left \cup cut
       /\ handles' = handles \ cut
       /\ \E again \in SUBSET {q \in cut : at[q] = "sent" /\ MayRestart(q)} :
             /\ at' = [q \in Requests |->
                         IF q \in again THEN "restarting"
                         ELSE IF q \in cut /\ at[q] \in {"sent", "streaming", "upgraded"}
                         THEN "done" ELSE at[q]]
             /\ wakeOn' = (wakeOn \/ again # {})
             /\ asks' = [q \in Requests |-> asks[q] + IF q \in again THEN 1 ELSE 0]
             /\ restarted' = restarted \cup again
    /\ upgraded' = {}
    /\ UNCHANGED <<app, up, refusing, reply, sends, unheard>>

-----------------------------------------------------------------------------
(* The rest of the daemon, and docker.                                     *)

\* The hibernator, which counts handles; `hobby sleep` and `hobby rm`, which do not.
Sleeps ==
    /\ app = "running" /\ ~wakeOn
    /\ handles = {}
    /\ app' = "asleep" /\ up' = FALSE
    /\ UNCHANGED <<wakeOn, refusing, handles, at, left, reply, sends, asks, restarted,
                   upgraded, closed, unheard>>

Dies ==
    /\ up
    /\ up' = FALSE
    /\ UNCHANGED <<app, wakeOn, refusing, handles, at, left, reply, sends, asks,
                   restarted, upgraded, closed, unheard>>

Removed ==
    /\ app # "gone"
    /\ app' = "gone" /\ up' = FALSE
    /\ UNCHANGED <<wakeOn, refusing, handles, at, left, reply, sends, asks, restarted,
                   upgraded, closed, unheard>>

RetryComes ==
    /\ refusing
    /\ refusing' = FALSE
    /\ UNCHANGED <<app, up, wakeOn, handles, at, left, reply, sends, asks, restarted,
                   upgraded, closed, unheard>>

-----------------------------------------------------------------------------

Init ==
    /\ app = "asleep" /\ up = FALSE
    /\ wakeOn = FALSE /\ refusing = FALSE /\ closed = FALSE
    /\ handles = {} /\ left = {} /\ restarted = {} /\ upgraded = {} /\ unheard = {}
    /\ at = [q \in Requests |-> "off"]
    /\ reply = [q \in Requests |-> {}]
    /\ sends = [q \in Requests |-> 0]
    /\ asks = [q \in Requests |-> 0]

\* What the timers and the upstream's port decide without anybody's help.
Serve(q) ==
    WakeTimesOut(q) \/ DialFails(q) \/ UpstreamTimesOut(q) \/ Headers(q)

Next ==
    \/ \E q \in Requests :
         \/ Arrive(q) \/ Serve(q) \/ Leave(q)
         \/ BodyEnds(q) \/ BodyIsCut(q) \/ UpgradeEnds(q)
    \/ WakeEnds \/ Close \/ Sleeps \/ Dies \/ Removed \/ RetryComes

Spec == Init /\ [][Next]_vars
Fairness == \A q \in Requests : WF_vars(Serve(q))
FairSpec == Spec /\ Fairness

-----------------------------------------------------------------------------

TypeOK ==
    /\ app \in {"running", "asleep", "gone"}
    /\ {up, wakeOn, refusing, closed} \subseteq BOOLEAN
    /\ handles \subseteq Requests /\ left \subseteq Requests /\ restarted \subseteq Requests
    /\ upgraded \subseteq Upgrades /\ unheard \subseteq Requests
    /\ at \in [Requests -> Using \cup {"off", "waking", "done"}]
    /\ reply \in [Requests -> SUBSET {"error", "head", "whole", "cut"}]
    /\ sends \in [Requests -> Nat] /\ asks \in [Requests -> Nat]

\* Whoever is being served is counted until the last byte, and whoever is not is
\* not: the hibernator reads nothing else.  A client that hangs up takes its handle
\* with it, if it was there to be listened to when the request was sent.
UseIsCounted ==
    /\ \A q \in Requests : at[q] \in Using /\ q \notin left => q \in handles
    /\ \A q \in handles : at[q] \in Using
    /\ handles \cap left \subseteq unheard

\* A client that stays gets one status and one end, and a cut body is not a whole one.
AnsweredOnce ==
    \A q \in Requests : at[q] = "done" /\ q \notin left =>
        reply[q] \in {{"error"}, {"head", "whole"}, {"head", "cut"}, {"cut"}}

\* A body is sent once: the restart of a dead target replays only requests that
\* have none, and those once.  No request pays for two wakes.
SentOnce ==
    \A q \in Requests :
        /\ asks[q] <= 1
        /\ sends[q] <= IF q \in Gets THEN 2 ELSE 1

\* No request waits for ever for a wake or for a first byte.
RequestsMoveOn ==
    [](\A q \in Requests : at[q] \in {"waking", "sent", "restarting"} =>
                         <>(at[q] \in {"streaming", "upgraded", "done"}))

\* The requests of the HTTP router: counted while they are served, answered and sent
\* once, and none waits for ever.
RequestsAreServed ==
    /\ [](TypeOK /\ UseIsCounted /\ AnsweredOnce /\ SentOnce)
    /\ RequestsMoveOn
=============================================================================
