------------------------------- MODULE Doors -------------------------------
(***************************************************************************)
(* The daemon's listeners from its start to its exit (daemon/server.ts):   *)
(* the control socket opens first, then the proxies, the HTTP router and   *)
(* the front door, the enqueue listener, the hook that binds the gateway   *)
(* of every network made from then on, and last the signal handlers.  On   *)
(* the way down everything that could wake a resource closes before any    *)
(* resource is stopped.  Networks are made all the time: by requests on    *)
(* the socket, and by wakes.                                               *)
(*                                                                         *)
(* A network stands for its bridge gateway, the address its containers     *)
(* reach the daemon at.                                                    *)
(***************************************************************************)
EXTENDS Naturals, FiniteSets

CONSTANTS
    Networks,
    Local,        \* the hosts resolveProxyHosts gives: loopback, and the tailnet's
    Calls,        \* concurrent ensureNetwork calls
    MaxFaults, MaxCalls, MaxStarts  \* bounds

Starting == {"probe", "socket", "proxies", "list", "gateways", "front", "queueList", "endpoint"}
Stopping == {"controls", "caddy", "loops", "proxiesClose", "router", "resources", "unlink", "release"}
Idle == [at |-> "idle"]

VARIABLES
    pc,          \* "down", a stage of the start, "up", a stage of the shutdown, "failed"
    socketFile,  \* the path has a file: left by a dead daemon, or this one's
    made,        \* networks that exist
    todo,        \* hosts the loop at hand has still to bind
    proxyOpen, proxyBound,  \* addresses a proxy listens on; proxyBound of startProxyOn
    queueOpen, queueBound,  \* the same of the enqueue listener
    router, caddy,
    hook,        \* ensureNetwork is wrapped
    call,        \* slot -> the call in it
    faults, calls, starts,
    \* history
    unbound,     \* networks with a gateway nobody was able to bind when last tried
    early,       \* networks made by a call that began before the hook, and not again
    late,        \* a proxy failed to close, or was opened by a wake after the others closed
    first        \* the control listeners did not close

vars == <<pc, socketFile, made, todo, proxyOpen, proxyBound, queueOpen, queueBound, router,
          caddy, hook, call, faults, calls, starts, unbound, early, late, first>>

doors == <<proxyOpen, proxyBound, queueOpen, queueBound, router, caddy>>
count == <<faults, calls, starts>>
noted == <<unbound, early, late, first>>

Fault == faults < MaxFaults /\ faults' = faults + 1
Well  == UNCHANGED faults
Go(where) == pc' = where

\* The process ends: what it listened on goes with it, and what it was doing.
Exits ==
    /\ proxyOpen' = {} /\ proxyBound' = {} /\ queueOpen' = {} /\ queueBound' = {}
    /\ router' = FALSE /\ hook' = FALSE /\ todo' = {}
    /\ call' = [c \in Calls |-> Idle]

----------------------------------------------------------------------------
\* startDaemon.

Start ==
    /\ pc \in {"down", "failed"} /\ starts < MaxStarts
    /\ starts' = starts + 1 /\ Go("probe") /\ first' = FALSE /\ late' = FALSE
    /\ UNCHANGED <<socketFile, made, todo, doors, hook, call, faults, calls, unbound, early>>

\* removeStaleSocketIfAny; under the lock nobody answers.  The socket, and at once
\* whoever sends requests to it.
Socket ==
    /\ pc = "probe"
    /\ socketFile' = TRUE /\ Go("proxies") /\ todo' = Local
    /\ UNCHANGED <<made, doors, hook, call, count, noted>>

\* A proxy on an address of the operator's choice: a failure is fatal.
LocalProxy(h) ==
    /\ pc = "proxies" /\ h \in todo
    /\ \/ /\ Well /\ todo' = todo \ {h}
          /\ proxyOpen' = proxyOpen \cup {h} /\ proxyBound' = proxyBound \cup {h}
          /\ Go(IF todo' = {} THEN "list" ELSE "proxies")
          /\ UNCHANGED <<queueOpen, queueBound, router, caddy, hook, call>>
       \/ Fault /\ Go("failed") /\ Exits /\ UNCHANGED caddy
    /\ UNCHANGED <<socketFile, made, calls, starts, noted>>

\* proxyGatewayHosts asks docker for every project's gateway.
ListGateways ==
    /\ pc = "list" /\ todo' = made /\ Go("gateways")
    /\ UNCHANGED <<socketFile, made, doors, hook, call, count, noted>>

GatewayProxy ==
    /\ pc = "gateways"
    /\ IF todo = {} THEN Go("front") /\ UNCHANGED <<todo, proxyOpen, proxyBound, faults, unbound>>
       ELSE \E h \in todo :
            /\ todo' = todo \ {h} /\ UNCHANGED pc
            /\ \/ Well /\ proxyOpen' = proxyOpen \cup {h} /\ proxyBound' = proxyBound \cup {h}
                  /\ UNCHANGED unbound
               \/ Fault /\ unbound' = unbound \cup {h} /\ UNCHANGED <<proxyOpen, proxyBound>>
    /\ UNCHANGED <<socketFile, made, queueOpen, queueBound, router, caddy, hook, call, calls,
                   starts, early, late, first>>

\* startHttpRouter, then the front door, which a minute is waited for; it may come up,
\* fail, or still be coming up.
Front ==
    /\ pc = "front"
    /\ router' = TRUE /\ caddy' \in BOOLEAN /\ Go("queueList")
    /\ UNCHANGED <<socketFile, made, todo, proxyOpen, proxyBound, queueOpen, queueBound, hook,
                   call, count, noted>>

ListQueueHosts ==
    /\ pc = "queueList" /\ todo' = made /\ Go("endpoint")
    /\ UNCHANGED <<socketFile, made, doors, hook, call, count, noted>>

\* startQueueEndpoint: loopback and the gateways, all of them, or a start that fails;
\* then the hook.
Endpoint ==
    /\ pc = "endpoint"
    /\ \/ /\ Well /\ queueOpen' = todo /\ queueBound' = todo
          /\ todo' = {} /\ hook' = TRUE /\ Go("up")
          /\ UNCHANGED <<proxyOpen, proxyBound, router, call>>
       \/ Fault /\ Go("failed") /\ Exits
    /\ UNCHANGED <<socketFile, made, caddy, calls, starts, noted>>

----------------------------------------------------------------------------
\* ensureNetwork, called by a request on the socket or by a wake.

Begin(c, n, from) ==
    /\ call[c].at = "idle" /\ calls < MaxCalls
    /\ pc \notin {"down", "failed", "probe"} /\ (from = "socket" => pc \in Starting \cup {"up"})
    /\ from = "wake" => proxyOpen # {} \/ router
    /\ calls' = calls + 1
    /\ call' = [call EXCEPT ![c] = [at |-> "inner", net |-> n, from |-> from, hooked |-> hook]]
    /\ UNCHANGED <<pc, socketFile, made, todo, doors, hook, faults, starts, noted>>

\* The inner ensureNetwork, and networkGateway.
Made(c) ==
    /\ call[c].at = "inner"
    /\ made' = made \cup {call[c].net}
    /\ IF call[c].hooked
       THEN /\ call' = [call EXCEPT ![c].at = "queue"]
            /\ early' = early \ {call[c].net} /\ unbound' = unbound \ {call[c].net}
       ELSE /\ call' = [call EXCEPT ![c] = Idle]
            /\ early' = (IF call[c].net \in made THEN early ELSE early \cup {call[c].net})
            /\ UNCHANGED unbound
    /\ UNCHANGED <<pc, socketFile, todo, doors, hook, count, late, first>>

\* Faulty variant: the address is taken down as bound before it is listened on.
MarksFirst(old, h, ok) == old \cup {h}
\* An address counts as bound when it is.
Marks(old, h, ok) == IF ok THEN old \cup {h} ELSE old

\* addHost: already bound, or bound now, or logged and given up.  Another call may
\* have bound it meanwhile, which is no harm.
AddHost(c) ==
    LET h == call[c].net IN
    /\ call[c].at = "queue"
    /\ call' = [call EXCEPT ![c].at = "proxy"]
    /\ IF h \in queueBound THEN UNCHANGED <<queueOpen, queueBound, faults, unbound>>
       ELSE \/ /\ Well /\ queueOpen' = queueOpen \cup {h}
               /\ queueBound' = Marks(queueBound, h, TRUE) /\ UNCHANGED unbound
            \/ /\ Fault /\ queueBound' = Marks(queueBound, h, FALSE)
               /\ unbound' = unbound \cup {h} /\ UNCHANGED queueOpen
    /\ UNCHANGED <<pc, socketFile, made, todo, proxyOpen, proxyBound, router, caddy, hook, calls,
                   starts, early, late, first>>

\* addProxyGateway.
AddProxy(c) ==
    LET h == call[c].net IN
    /\ call[c].at = "proxy"
    /\ call' = [call EXCEPT ![c] = Idle]
    /\ IF h \in proxyBound THEN UNCHANGED <<proxyOpen, proxyBound, faults, unbound>>
       ELSE \/ /\ Well /\ proxyOpen' = proxyOpen \cup {h}
               /\ proxyBound' = Marks(proxyBound, h, TRUE) /\ UNCHANGED unbound
            \/ /\ Fault /\ proxyBound' = Marks(proxyBound, h, FALSE)
               /\ unbound' = unbound \cup {h} /\ UNCHANGED proxyOpen
    /\ late' = (late \/ (pc \in {"router", "resources", "unlink"} /\ proxyOpen' # proxyOpen))
    /\ UNCHANGED <<pc, socketFile, made, todo, queueOpen, queueBound, router, caddy, hook, calls,
                   starts, early, first>>

----------------------------------------------------------------------------
\* performShutdown.

Signal == /\ pc = "up" /\ Go("controls")
          /\ UNCHANGED <<socketFile, made, todo, doors, hook, call, count, noted>>

\* The control listeners: requests finish first.  One that does not close fails the
\* shutdown.
Controls ==
    /\ pc = "controls" /\ \A c \in Calls : call[c].at # "idle" => call[c].from # "socket"
    /\ \/ Well /\ queueOpen' = {} /\ Go("caddy") /\ UNCHANGED <<first, router, proxyOpen, proxyBound, queueBound, hook, todo, call>>
       \/ Fault /\ first' = TRUE /\ Go("failed") /\ Exits
    /\ UNCHANGED <<socketFile, made, caddy, calls, starts, unbound, early, late>>

\* Faulty variant: what the front door says is not caught.
CaddyFailedUncaught == Go("failed")
CaddyFailed == Go("loops")
StopCaddy ==
    /\ pc = "caddy"
    /\ \/ Well /\ caddy' = FALSE /\ Go("loops")
       \/ Fault /\ CaddyFailed /\ UNCHANGED caddy
    /\ UNCHANGED <<socketFile, made, todo, proxyOpen, proxyBound, queueOpen, queueBound, router,
                   hook, call, calls, starts, noted>>

\* The loops drain; the wakes they have begun are over with them.
Loops == /\ pc = "loops" /\ Go("proxiesClose")
         /\ UNCHANGED <<socketFile, made, todo, doors, hook, call, count, noted>>

\* Faulty variant: the proxies of the operator's addresses.
ClosedLocal == Local
\* Every proxy there is.
Closed == proxyOpen

CloseProxies ==
    /\ pc = "proxiesClose" /\ Go("router")
    /\ \/ Well /\ proxyOpen' = proxyOpen \ Closed
       \/ Fault /\ proxyOpen' \in SUBSET proxyOpen
    /\ late' = (faults' # faults)
    /\ UNCHANGED <<socketFile, made, todo, proxyBound, queueOpen, queueBound, router, caddy, hook,
                   call, calls, starts, unbound, early, first>>

CloseRouter ==
    /\ pc = "router" /\ router' = FALSE /\ Go("resources")
    /\ UNCHANGED <<socketFile, made, todo, proxyOpen, proxyBound, queueOpen, queueBound, caddy,
                   hook, call, count, noted>>

StopResources == /\ pc = "resources" /\ Go("unlink")
                 /\ UNCHANGED <<socketFile, made, todo, doors, hook, call, count, noted>>

\* rm of the socket's file, which may fail; the lock's release; the process's exit.
Release ==
    /\ pc = "unlink" /\ Go("down") /\ Exits
    /\ \/ Well /\ socketFile' = FALSE
       \/ Fault /\ UNCHANGED socketFile
    /\ UNCHANGED <<made, caddy, calls, starts, noted>>

Init ==
    /\ pc = "down" /\ socketFile \in BOOLEAN /\ made = {} /\ todo = {}
    /\ proxyOpen = {} /\ proxyBound = {} /\ queueOpen = {} /\ queueBound = {}
    /\ router = FALSE /\ caddy = FALSE /\ hook = FALSE /\ call = [c \in Calls |-> Idle]
    /\ faults = 0 /\ calls = 0 /\ starts = 0
    /\ unbound = {} /\ early = {} /\ late = FALSE /\ first = FALSE

Next ==
    \/ Start \/ Socket \/ ListGateways \/ GatewayProxy \/ Front \/ ListQueueHosts \/ Endpoint
    \/ Signal \/ Controls \/ StopCaddy \/ Loops \/ CloseProxies \/ CloseRouter
    \/ StopResources \/ Release
    \/ \E h \in Local : LocalProxy(h)
    \/ \E c \in Calls :
        \/ Made(c) \/ AddHost(c) \/ AddProxy(c)
        \/ \E n \in Networks, from \in {"socket", "wake"} : Begin(c, n, from)

Spec == Init /\ [][Next]_vars

----------------------------------------------------------------------------

TypeOK ==
    /\ pc \in {"down", "up", "failed"} \cup Starting \cup Stopping
    /\ made \subseteq Networks /\ todo \subseteq Networks \cup Local
    /\ proxyOpen \cup proxyBound \subseteq Networks \cup Local
    /\ queueOpen \cup queueBound \subseteq Networks
    /\ \A b \in {socketFile, router, caddy, hook, late, first} : b \in BOOLEAN

\* The containers of every network reach the database proxy and the enqueue listener
\* while the daemon serves: but for a network that was made while the daemon was coming
\* up, and one whose gateway could not be bound when it was last asked for.
GatewaysAreServed ==
    pc = "up" =>
        \A n \in made \ (early \cup unbound) :
            \/ n \in proxyOpen /\ n \in queueOpen
            \/ \E c \in Calls : call[c].at # "idle" /\ call[c].net = n

\* When resources are stopped nothing accepts a connection that would wake them again,
\* unless a proxy failed to close or a wake under way has opened one after that.
StopsBehindClosedDoors ==
    pc \in {"resources", "unlink"} /\ ~late => proxyOpen = {} /\ ~router

\* Whatever fails later, a shutdown whose control listeners have closed reaches its
\* end, where resources have been stopped and the lock is released.
ShutdownGetsToItsEnd == [][(pc \in Stopping /\ pc' = "failed") => first']_vars

\* The daemon's listeners: open to every network while it serves, shut before it stops
\* what they wake, and no failure on the way keeps the shutdown from its end.
DoorsAreSound ==
    /\ [](TypeOK /\ GatewaysAreServed /\ StopsBehindClosedDoors)
    /\ ShutdownGetsToItsEnd
=============================================================================
