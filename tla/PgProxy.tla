----------------------------- MODULE PgProxy -----------------------------
(***************************************************************************)
(* The wake-on-connect proxy (proxy/src/proxy.ts): what happens to a       *)
(* client's connection from its first byte until it is answered with an    *)
(* error or spliced to a backend, and how a cancel finds the session it    *)
(* names (cancel.ts).  Each connection is an async function of its own; a  *)
(* step is what it does between two awaits that leave the process.         *)
(*                                                                         *)
(* Time is counted per connection, in pauses of READY_RETRY_INTERVAL_MS    *)
(* since the deadline of the connection was set.                           *)
(***************************************************************************)
EXTENDS Naturals, FiniteSets

CONSTANTS
    Clients,        \* connections that carry a startup packet
    Remote,         \* those that come from other machines
    Cancellers,     \* connections that carry a cancel request
    Databases,      \* the resources behind the proxy
    Restless,       \* those that sleep, die and boot; the others serve
    Minted,         \* the cancel keys the proxy may mint
    BackendKeys,    \* the cancel keys a backend may hand out
    NoKey,
    TlsFiles,       \* whether the proxy has a certificate
    Budget,         \* wakeTimeoutMs
    Floor,          \* FIRST_ANSWER_FLOOR_MS
    DialTime,       \* the three attempts of connectUpstream and their gaps
    Negotiations    \* MAX_ENCRYPTION_NEGOTIATIONS

ASSUME ProxyNumbers ==
    /\ Budget \in Nat /\ Floor \in Nat /\ DialTime \in Nat /\ Negotiations \in Nat
    /\ TlsFiles \in BOOLEAN
    /\ Remote \subseteq Clients
    /\ Restless \subseteq Databases
    /\ NoKey \notin Minted \cup BackendKeys
    /\ Databases # {} /\ "off" \notin Databases

VARIABLES
    row,        \* database -> running, asleep (anything else), or gone
    box,        \* database -> its container: down, booting or serving
    waking,     \* databases whose wake is in flight
    refused,    \* databases isWakeRefused says yes for
    live,       \* clients whose handle is open in the ActivityTracker
    pc,         \* client -> where its connection is
    want,       \* client -> the database its routing key names
    gone,       \* clients that hung up (socket.destroyed)
    secure,     \* clients that reached the handler through the TLS terminator
    asked,      \* client -> encryption requests answered with N
    spent,      \* client -> time since its deadline was set
    until,      \* client -> the time its present wait gives up at
    wakes,      \* client -> wakes its connection has asked for
    held,       \* clients whose hold has opened a handle
    linked,     \* clients whose upstream socket has a living other end
    minted,     \* client -> the key it was given, or NoKey
    session,    \* client -> the key of its backend session, or NoKey
    routes,     \* CancelRegistry.routes: a minted key -> the client it stands for
                \* and the backend's key, once that is known
    cancel,     \* canceller -> idle, or the database and key it carries there
    told,       \* client -> what it was sent: an error, a session
    dropped,    \* history: clients whose handle an explicit stop forgot
    struck      \* history: pairs of a key presented and the client it cancelled

tracker == <<live, held, dropped>>
world   == <<row, box, waking, refused>>
clock   == <<spent, until>>
keys    == <<minted, session, routes>>
vars    == <<world, tracker, clock, keys, pc, want, gone, secure, asked, wakes,
             linked, cancel, told, struck>>

Stages == {"off", "reading", "waking", "dialing", "asking", "pausing", "spliced", "done"}
Idle   == [to |-> "off", key |-> NoKey]
ClientsOf(d) == {c \in Clients : want[c] = d}

\* sendErrorAndClose: what a client that is still there reads, and its end.
Answer(c, what) ==
    told' = [told EXCEPT ![c] = IF c \in gone THEN @ ELSE @ \cup {what}]

Finish(c) == pc' = [pc EXCEPT ![c] = "done"]
Fail(c)   == Finish(c) /\ Answer(c, "error")

\* holdUntilServing, release: the handle is closed on every way out.
ReleaseHandle(c) ==
    /\ live' = live \ {c}
    /\ held' = held \ {c}
    /\ dropped' = dropped \ {c}

Later(a, b) == IF a < b THEN b ELSE a

\* raceTimeout(deps.wake(...), limit): the wake is the daemon's, the patience
\* is this connection's.
AskWake(c, limit) ==
    /\ pc' = [pc EXCEPT ![c] = "waking"]
    /\ waking' = waking \cup {want[c]}
    /\ wakes' = [wakes EXCEPT ![c] = @ + 1]
    /\ until' = [until EXCEPT ![c] = limit]

-----------------------------------------------------------------------------
(* handleConnectionInner                                                   *)

Connect(c, d) ==
    /\ pc[c] = "off"
    /\ pc' = [pc EXCEPT ![c] = "reading"]
    /\ want' = [want EXCEPT ![c] = d]
    /\ UNCHANGED <<world, tracker, clock, keys, gone, secure, asked, wakes, linked,
                   cancel, told, struck>>

\* Faulty variant: refused only after one too many.
RequestEncryptionAgain(c, ssl) ==
    /\ pc[c] = "reading"
    /\ IF asked[c] > Negotiations
       THEN Fail(c) /\ UNCHANGED asked
       ELSE asked' = [asked EXCEPT ![c] = @ + 1] /\ UNCHANGED <<pc, told>>
    /\ UNCHANGED <<world, tracker, clock, keys, want, gone, secure, wakes, linked, cancel, struck>>

\* SSLRequest with a certificate: S, and the decrypted connection comes back to
\* the same function.  Any other encryption request: N, so often and no oftener.
RequestEncryption(c, ssl) ==
    /\ pc[c] = "reading"
    /\ IF asked[c] = Negotiations
       THEN Fail(c) /\ UNCHANGED <<secure, asked>>
       ELSE /\ IF ssl /\ TlsFiles /\ c \notin secure
               THEN /\ secure' = secure \cup {c}
                    /\ asked' = [asked EXCEPT ![c] = 0]
               ELSE /\ asked' = [asked EXCEPT ![c] = @ + 1]
                    /\ UNCHANGED secure
            /\ UNCHANGED <<pc, told>>
    /\ UNCHANGED <<world, tracker, clock, keys, want, gone, wakes, linked, cancel, struck>>

\* STARTUP_TIMEOUT_MS, a malformed packet, no database in it.
ReadFails(c) ==
    /\ pc[c] = "reading"
    /\ Fail(c)
    /\ UNCHANGED <<world, tracker, clock, keys, want, gone, secure, asked, wakes,
                   linked, cancel, struck>>

MayBePlain(c) == ~TlsFiles \/ c \in secure \/ c \notin Remote

\* handleStartup up to its first await that leaves the process: resolve, the
\* deadline, and either the dial or the wake.  The negotiation is over.
Startup(c) ==
    /\ pc[c] = "reading"
    /\ LET d == want[c] IN
       \/ /\ ~MayBePlain(c) \/ row[d] = "gone"
          /\ Fail(c)
          /\ UNCHANGED <<waking, wakes, clock>>
       \/ /\ MayBePlain(c) /\ row[d] = "running"
          /\ pc' = [pc EXCEPT ![c] = "dialing"]
          /\ UNCHANGED <<waking, wakes, clock, told>>
       \/ /\ MayBePlain(c) /\ row[d] = "asleep" /\ d \in refused
          /\ Fail(c)
          /\ UNCHANGED <<waking, wakes, clock>>
       \/ /\ MayBePlain(c) /\ row[d] = "asleep" /\ d \notin refused
          /\ AskWake(c, Budget)
          /\ UNCHANGED <<spent, told>>
    /\ secure' = secure \ {c}
    /\ asked' = [asked EXCEPT ![c] = 0]
    /\ UNCHANGED <<row, box, refused, tracker, keys, want, gone, linked, cancel, struck>>

\* The wake promise settles: every connection that awaits it resolves its
\* target again and goes on, before anything else happens.
WakeEnds(d) ==
    /\ d \in waking
    /\ waking' = waking \ {d}
    /\ \E woke \in BOOLEAN :
        /\ woke => row[d] # "gone"
        /\ row' = [row EXCEPT ![d] = IF @ = "gone" THEN @
                                     ELSE IF woke THEN "running" ELSE "asleep"]
        /\ box' = [box EXCEPT ![d] = IF woke THEN "serving" ELSE "down"]
        /\ refused' = IF woke THEN refused \ {d} ELSE refused \cup {d}
        /\ linked' = IF woke /\ box[d] # "down" THEN linked ELSE linked \ ClientsOf(d)
        /\ LET waiters == {c \in ClientsOf(d) : pc[c] = "waking"} IN
           /\ pc' = [c \in Clients |->
                       IF c \notin waiters THEN pc[c]
                       ELSE IF woke /\ c \notin gone THEN "dialing" ELSE "done"]
           /\ told' = [c \in Clients |->
                       IF c \in waiters /\ ~woke /\ c \notin gone
                       THEN told[c] \cup {"error"} ELSE told[c]]
    /\ UNCHANGED <<tracker, clock, keys, want, gone, secure, asked, wakes, cancel, struck>>

\* Faulty variant: nobody but the daemon limits the wake.
WakeTimesOutElsewhere(c) == FALSE

WakeTimesOut(c) ==
    /\ pc[c] = "waking"
    /\ spent[c] >= until[c]
    /\ Fail(c)
    /\ UNCHANGED <<world, tracker, clock, keys, want, gone, secure, asked, wakes,
                   linked, cancel, struck>>

-----------------------------------------------------------------------------
(* holdUntilServing                                                        *)

\* connectUpstream got a connection: from the backend, or from a published port
\* that has nothing behind it yet.
Dial(c) ==
    /\ pc[c] = "dialing"
    /\ \E t \in {0, DialTime} : spent' = [spent EXCEPT ![c] = @ + t]
    /\ IF c \in gone
       THEN /\ Finish(c)
            /\ ReleaseHandle(c)
            /\ UNCHANGED <<linked, until>>
       ELSE /\ pc' = [pc EXCEPT ![c] = "asking"]
            /\ held' = held \cup {c}
            /\ live' = IF c \in held THEN live ELSE live \cup {c}
            /\ dropped' = IF c \in held THEN dropped ELSE dropped \ {c}
            /\ linked' = IF box[want[c]] = "down" THEN linked ELSE linked \cup {c}
            /\ until' = [until EXCEPT ![c] = Later(Budget, spent'[c] + Floor)]
    /\ UNCHANGED <<world, keys, want, gone, secure, asked, wakes, cancel, told, struck>>

\* Faulty variant: the one wake is not remembered.
DialFailsUnwoken(c) ==
    /\ pc[c] = "dialing"
    /\ box[want[c]] # "serving"
    /\ spent' = [spent EXCEPT ![c] = @ + DialTime]
    /\ ReleaseHandle(c)
    /\ IF c \notin gone /\ want[c] \notin refused
       THEN /\ AskWake(c, Later(Budget, spent'[c] + Floor))
            /\ UNCHANGED told
       ELSE /\ Fail(c)
            /\ UNCHANGED <<waking, wakes, until>>
    /\ UNCHANGED <<row, box, refused, keys, want, gone, secure, asked, linked, cancel, struck>>

\* Faulty variant: the wake of a target found dead has all the time of a first one.
DialFailsAfresh(c) ==
    /\ pc[c] = "dialing"
    /\ box[want[c]] # "serving"
    /\ spent' = [spent EXCEPT ![c] = @ + DialTime]
    /\ ReleaseHandle(c)
    /\ IF wakes[c] = 0 /\ c \notin gone /\ want[c] \notin refused
       THEN AskWake(c, spent'[c] + Budget) /\ UNCHANGED told
       ELSE Fail(c) /\ UNCHANGED <<waking, wakes, until>>
    /\ UNCHANGED <<row, box, refused, keys, want, gone, secure, asked, linked, cancel, struck>>

\* Every attempt was refused.  A target recorded running that refuses the dial
\* is not running, and is woken, once.
DialFails(c) ==
    /\ pc[c] = "dialing"
    /\ box[want[c]] # "serving"
    /\ spent' = [spent EXCEPT ![c] = @ + DialTime]
    /\ ReleaseHandle(c)
    /\ IF wakes[c] = 0 /\ c \notin gone /\ want[c] \notin refused
       THEN /\ AskWake(c, Later(Budget, spent'[c] + Floor))
            /\ UNCHANGED told
       ELSE /\ Fail(c)
            /\ UNCHANGED <<waking, wakes, until>>
    /\ UNCHANGED <<row, box, refused, keys, want, gone, secure, asked, linked, cancel, struck>>

\* Faulty variant: the handle is let go of for the pause.
NotServingNorHeld(c) ==
    /\ pc[c] = "asking"
    /\ c \notin linked \/ box[want[c]] # "serving"
    /\ linked' = linked \ {c}
    /\ ReleaseHandle(c)
    /\ IF spent[c] >= Budget
       THEN Fail(c)
       ELSE pc' = [pc EXCEPT ![c] = "pausing"] /\ UNCHANGED told
    /\ UNCHANGED <<world, clock, keys, want, gone, secure, asked, wakes, cancel, struck>>

\* awaitBackendAnswer: 57P03, or a close before the first message.
NotServing(c) ==
    /\ pc[c] = "asking"
    /\ c \notin linked \/ box[want[c]] # "serving"
    /\ linked' = linked \ {c}
    /\ IF spent[c] >= Budget
       THEN Fail(c) /\ ReleaseHandle(c)
       ELSE /\ pc' = [pc EXCEPT ![c] = "pausing"]
            /\ UNCHANGED <<tracker, told>>
    /\ UNCHANGED <<world, clock, keys, want, gone, secure, asked, wakes, cancel, struck>>

\* Faulty variant: the socket is closed without a word.
AnswerTimesOutSilently(c) ==
    /\ pc[c] = "asking"
    /\ spent[c] >= until[c]
    /\ Finish(c)
    /\ ReleaseHandle(c)
    /\ linked' = linked \ {c}
    /\ UNCHANGED <<world, clock, keys, want, gone, secure, asked, wakes, cancel, told, struck>>

AnswerTimesOut(c) ==
    /\ pc[c] = "asking"
    /\ spent[c] >= until[c]
    /\ Fail(c)
    /\ ReleaseHandle(c)
    /\ linked' = linked \ {c}
    /\ UNCHANGED <<world, clock, keys, want, gone, secure, asked, wakes, cancel, struck>>

\* sleep(READY_RETRY_INTERVAL_MS), and another dial for a client still there.
Retry(c) ==
    /\ pc[c] = "pausing"
    /\ spent' = [spent EXCEPT ![c] = @ + 1]
    /\ IF c \in gone
       THEN Finish(c) /\ ReleaseHandle(c)
       ELSE pc' = [pc EXCEPT ![c] = "dialing"] /\ UNCHANGED tracker
    /\ UNCHANGED <<world, until, keys, want, gone, secure, asked, wakes, linked, cancel,
                   told, struck>>

\* The first complete message of the backend, whatever it is: the connection
\* is registered for cancels and handed over with its handle.
Splice(c) ==
    /\ pc[c] = "asking"
    /\ c \in linked /\ box[want[c]] = "serving"
    /\ pc' = [pc EXCEPT ![c] = "spliced"]
    /\ Answer(c, "session")
    /\ \E k \in {m \in Minted : \A o \in Clients : minted[o] # m} \cup {NoKey} :
        /\ minted' = [minted EXCEPT ![c] = k]
        /\ routes' = IF k = NoKey THEN routes
                     ELSE [m \in DOMAIN routes \cup {k} |->
                             IF m = k THEN [to |-> want[c], key |-> NoKey] ELSE routes[m]]
    /\ UNCHANGED <<world, tracker, clock, session, want, gone, secure, asked, wakes,
                   linked, cancel, struck>>

-----------------------------------------------------------------------------
(* spliceAndTrackActivity                                                  *)

\* BackendKeyData.  A backend does not give two of its sessions one key; two
\* backends may.
BackendKeyArrives(c) ==
    /\ pc[c] = "spliced"
    /\ c \in linked
    /\ session[c] = NoKey
    /\ \E b \in {x \in BackendKeys : \A o \in ClientsOf(want[c]) : session[o] # x} :
        /\ session' = [session EXCEPT ![c] = b]
        /\ routes' = IF minted[c] = NoKey THEN routes
                     ELSE [routes EXCEPT ![minted[c]].key = b]
    /\ UNCHANGED <<world, tracker, clock, minted, pc, want, gone, secure, asked, wakes,
                   linked, cancel, told, struck>>

\* Faulty variant: the registry keeps the entry.
EndsUnregistered(c) ==
    /\ Finish(c)
    /\ ReleaseHandle(c)
    /\ linked' = linked \ {c}
    /\ UNCHANGED routes

\* finish(), by whichever of the two sockets closes first.
Ends(c) ==
    /\ Finish(c)
    /\ routes' = [m \in DOMAIN routes \ {minted[c]} |-> routes[m]]
    /\ ReleaseHandle(c)
    /\ linked' = linked \ {c}

BackendCloses(c) ==
    /\ pc[c] = "spliced"
    /\ Ends(c)
    /\ UNCHANGED <<world, clock, minted, session, want, gone, secure, asked, wakes,
                   cancel, told, struck>>

\* A client hangs up.  A wake, a dial and a pause notice it when they end.
ClientLeaves(c) ==
    /\ pc[c] \notin {"off", "done"}
    /\ c \notin gone
    /\ gone' = gone \cup {c}
    /\ \/ /\ pc[c] = "spliced"
          /\ Ends(c)
       \/ /\ pc[c] = "asking"
          /\ Finish(c) /\ ReleaseHandle(c)
          /\ linked' = linked \ {c}
          /\ UNCHANGED routes
       \/ /\ pc[c] = "reading"
          /\ Finish(c)
          /\ UNCHANGED <<tracker, linked, routes>>
       \/ /\ pc[c] \in {"waking", "dialing", "pausing"}
          /\ UNCHANGED <<pc, tracker, linked, routes>>
    /\ UNCHANGED <<world, clock, minted, session, want, secure, asked, wakes, cancel,
                   told, struck>>

\* Time of a wait passes.
Waits(c) ==
    /\ pc[c] \in {"waking", "asking"}
    /\ spent[c] < until[c]
    /\ spent' = [spent EXCEPT ![c] = @ + 1]
    /\ UNCHANGED <<world, tracker, until, keys, pc, want, gone, secure, asked, wakes,
                   linked, cancel, told, struck>>

-----------------------------------------------------------------------------
(* handleCancel                                                            *)

\* CancelRegistry.lookup: only a route whose backend key is known.
Lookup(k) ==
    IF k \in DOMAIN routes /\ routes[k].key # NoKey THEN routes[k] ELSE Idle

\* The key is the whole address: nothing is resolved, nothing woken.  A cancel
\* whose key finds no route is closed and changes nothing.
CancelArrives(x, k) ==
    /\ cancel[x].route = Idle
    /\ Lookup(k) # Idle
    /\ cancel' = [cancel EXCEPT ![x] = [shown |-> k, route |-> Lookup(k)]]
    /\ UNCHANGED <<world, tracker, clock, keys, pc, want, gone, secure, asked, wakes,
                   linked, told, struck>>

\* Faulty variant: the backend's key is taken to say which backend it is from.
CancelLandsAnywhere(x) ==
    LET route == cancel[x].route IN
    /\ route # Idle
    /\ struck' = struck \cup
         {<<cancel[x].shown, c>> : c \in {o \in Clients :
             o \in linked /\ session[o] = route.key}}
    /\ cancel' = [cancel EXCEPT ![x].route = Idle]
    /\ UNCHANGED <<world, tracker, clock, keys, pc, want, gone, secure, asked, wakes,
                   linked, told>>

\* The dial of the route, and the backend's own key: whichever session of that
\* backend has it by now is cancelled, if any.
CancelLands(x) ==
    LET route == cancel[x].route IN
    /\ route # Idle
    /\ struck' = struck \cup
         {<<cancel[x].shown, c>> : c \in {o \in ClientsOf(route.to) :
             o \in linked /\ session[o] = route.key /\ box[route.to] = "serving"}}
    /\ cancel' = [cancel EXCEPT ![x].route = Idle]
    /\ UNCHANGED <<world, tracker, clock, keys, pc, want, gone, secure, asked, wakes,
                   linked, told>>

-----------------------------------------------------------------------------
(* What the rest of the daemon, docker and time do.                        *)

GoesDown(d) ==
    /\ box' = [box EXCEPT ![d] = "down"]
    /\ linked' = linked \ ClientsOf(d)

\* hibernator.ts: no open connection, and the stop resets the tracker.
Hibernates(d) ==
    /\ row[d] = "running"
    /\ d \notin waking
    /\ live \cap ClientsOf(d) = {}
    /\ row' = [row EXCEPT ![d] = "asleep"]
    /\ GoesDown(d)
    /\ UNCHANGED <<waking, refused, tracker, clock, keys, pc, want, gone, secure, asked,
                   wakes, cancel, told, struck>>

\* `hobby sleep` and `hobby rm`: whatever is connected.
Stopped(d, to) ==
    /\ row[d] # "gone"
    /\ row[d] = "running" \/ to = "gone"
    /\ row' = [row EXCEPT ![d] = to]
    /\ GoesDown(d)
    /\ live' = live \ ClientsOf(d)
    /\ dropped' = dropped \cup (live \cap ClientsOf(d))
    /\ UNCHANGED <<waking, refused, held, clock, keys, pc, want, gone, secure, asked,
                   wakes, cancel, told, struck>>

\* A container dies, or is started again, behind the daemon.
Dies(d) ==
    /\ box[d] # "down"
    /\ GoesDown(d)
    /\ UNCHANGED <<row, waking, refused, tracker, clock, keys, pc, want, gone, secure,
                   asked, wakes, cancel, told, struck>>

Boots(d) ==
    /\ row[d] = "running"
    /\ box[d] # "serving"
    /\ box' = [box EXCEPT ![d] = IF @ = "down" THEN "booting" ELSE "serving"]
    /\ UNCHANGED <<row, waking, refused, linked, tracker, clock, keys, pc, want, gone,
                   secure, asked, wakes, cancel, told, struck>>

RefusalLapses(d) ==
    /\ d \in refused
    /\ refused' = refused \ {d}
    /\ UNCHANGED <<row, box, waking, linked, tracker, clock, keys, pc, want, gone,
                   secure, asked, wakes, cancel, told, struck>>

-----------------------------------------------------------------------------

Init ==
    /\ row = [d \in Databases |-> IF d \in Restless THEN "asleep" ELSE "running"]
    /\ box = [d \in Databases |-> IF d \in Restless THEN "down" ELSE "serving"]
    /\ waking = {} /\ refused = {}
    /\ live = {} /\ held = {} /\ dropped = {} /\ linked = {}
    /\ pc = [c \in Clients |-> "off"]
    /\ want = [c \in Clients |-> CHOOSE d \in Databases : TRUE]
    /\ gone = {} /\ secure = {} /\ struck = {}
    /\ asked = [c \in Clients |-> 0]
    /\ spent = [c \in Clients |-> 0]
    /\ until = [c \in Clients |-> 0]
    /\ wakes = [c \in Clients |-> 0]
    /\ minted = [c \in Clients |-> NoKey]
    /\ session = [c \in Clients |-> NoKey]
    /\ routes = [m \in {} |-> Idle]
    /\ cancel = [x \in Cancellers |-> [shown |-> NoKey, route |-> Idle]]
    /\ told = [c \in Clients |-> {}]

\* What a connection does by itself; its timers make it end.
Connection(c) ==
    \/ ReadFails(c) \/ Startup(c) \/ WakeTimesOut(c) \/ Dial(c) \/ DialFails(c)
    \/ NotServing(c) \/ AnswerTimesOut(c) \/ Retry(c) \/ Splice(c) \/ Waits(c)

Client(c) ==
    \/ \E d \in Databases : Connect(c, d)
    \/ \E ssl \in BOOLEAN : RequestEncryption(c, ssl)
    \/ ClientLeaves(c)

Backend(c) == BackendKeyArrives(c) \/ BackendCloses(c)

Canceller(x) == CancelLands(x) \/ \E k \in Minted : CancelArrives(x, k)

Surroundings(d) ==
    \/ WakeEnds(d) \/ Hibernates(d) \/ Dies(d) \/ Boots(d) \/ RefusalLapses(d)
    \/ \E to \in {"asleep", "gone"} : Stopped(d, to)

Next ==
    \/ \E c \in Clients : Connection(c) \/ Client(c) \/ Backend(c)
    \/ \E x \in Cancellers : Canceller(x)
    \/ \E d \in Restless : Surroundings(d)

Spec == Init /\ [][Next]_vars

\* Timers fire and sockets report; nothing outside has to help.
Fairness == \A c \in Clients : WF_vars(Connection(c))
FairSpec == Spec /\ Fairness

-----------------------------------------------------------------------------

Holding == {"asking", "pausing", "spliced"}

TypeOK ==
    /\ row \in [Databases -> {"running", "asleep", "gone"}]
    /\ box \in [Databases -> {"down", "booting", "serving"}]
    /\ waking \subseteq Databases /\ refused \subseteq Databases
    /\ live \subseteq Clients /\ held \subseteq Clients /\ dropped \subseteq Clients
    /\ linked \subseteq Clients /\ gone \subseteq Clients /\ secure \subseteq Clients
    /\ pc \in [Clients -> Stages]
    /\ want \in [Clients -> Databases]
    /\ asked \in [Clients -> 0..Negotiations]
    /\ spent \in [Clients -> Nat] /\ until \in [Clients -> Nat] /\ wakes \in [Clients -> Nat]
    /\ minted \in [Clients -> Minted \cup {NoKey}]
    /\ session \in [Clients -> BackendKeys \cup {NoKey}]
    /\ DOMAIN routes \subseteq Minted
    /\ \A m \in DOMAIN routes : routes[m].to \in Databases
    /\ told \in [Clients -> SUBSET {"error", "session"}]
    /\ struck \subseteq Minted \X Clients

\* The handles the hibernator counts are those of the clients that are held or
\* served, through every retry, and nobody else's: a handle left open is a
\* database that never sleeps, a missing one is a backend stopped under the
\* client that waits for it.  (An explicit stop forgets the handles it finds.)
HeldIsCounted ==
    /\ \A c \in live : pc[c] \in Holding \cup {"dialing"}
    /\ \A c \in Clients : pc[c] \in Holding /\ c \notin dropped => c \in live

\* No client that stays is dropped without a word, and none is told two things.
AnsweredOnce ==
    \A c \in Clients :
        /\ pc[c] \notin {"spliced", "done"} => told[c] = {}
        /\ pc[c] = "done" /\ c \notin gone => Cardinality(told[c]) = 1

\* A connection pays for one wake at most, whatever its target does.
WokenOnce == \A c \in Clients : wakes[c] <= 1

\* A cancel stops the session whose client was given its key and no other, even
\* where two backends have handed out one key, and however late it lands.
CancelHitsItsSession == \A s \in struck : minted[s[2]] = s[1]

\* The registry holds the spliced connections, with what their backends said.
RoutesAreSplices ==
    LET keyed == {c \in Clients : pc[c] = "spliced" /\ minted[c] # NoKey} IN
    /\ DOMAIN routes = {minted[c] : c \in keyed}
    /\ \A c \in keyed : routes[minted[c]] = [to |-> want[c], key |-> session[c]]

\* One budget for the whole attempt: the wake, every refusal, the restart of a
\* target found dead and what follows it.  Only a last dial and a last answer
\* may exceed it, once for each of the two holds.
HoldsEndInTime ==
    \A c \in Clients : spent[c] <= Budget + 2 * (DialTime + Floor)

\* Whatever the backend, the wake and the client do, a connection comes to a
\* splice or an end.
ConnectionsSettle ==
    \A c \in Clients : pc[c] = "reading" ~> pc[c] \in {"spliced", "done"}

\* All of it, in every state: who is counted, what is answered, woken, cancelled and
\* registered, and how long a client may be held.
SessionsAreSound ==
    /\ TypeOK
    /\ HeldIsCounted
    /\ AnsweredOnce
    /\ WokenOnce
    /\ CancelHitsItsSession
    /\ RoutesAreSplices
    /\ HoldsEndInTime
=============================================================================
