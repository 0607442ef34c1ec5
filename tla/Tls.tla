-------------------------------- MODULE Tls --------------------------------
(***************************************************************************)
(* The certificate of the Postgres proxy while certbot replaces its files  *)
(* (proxy/src/tls.ts, startPgProxy).  Each new TLS connection looks at the *)
(* files; when they have changed, an inner server with the new pair is     *)
(* started beside the old one, which stops listening.                      *)
(*                                                                         *)
(* The proxy stats and reads one file after the other in one turn of its   *)
(* event loop: no other handler of its own runs between, but certbot does. *)
(* It takes a file away and puts the next version in its place.            *)
(***************************************************************************)
EXTENDS Naturals, Sequences, FiniteSets

CONSTANTS
    Clients,      \* connections that ask for TLS
    MaxVersion,   \* bound: of the files, which are at 1 at first
    MaxFaults     \* bound: listens that fail

VARIABLES
    disk,        \* file -> its version, and its mtime; 0 while it is away
    version,     \* the newest
    renewing,    \* files that the renewal has still to replace
    turn,        \* what the event loop is at: [at, done, stamp, pair]
    rebuilding,
    current,     \* the server in service: [id, stamp, pair]
    accepting,   \* ids of the inner servers that listen
    ids, closed, faults,
    client,      \* client -> [at, id, pair]: the server that it is relayed to
    due          \* ghost: client -> the version that it has to be served, or 0

vars == <<disk, version, renewing, turn, rebuilding, current, accepting, ids, closed,
          faults, client, due>>
certbot == <<disk, version, renewing>>

Files == {"cert", "key"}
Both(v) == [f \in Files |-> v]
None == [id |-> 0, stamp |-> Both(0), pair |-> Both(0)]
Idle == [at |-> "idle", done |-> 0, stamp |-> Both(0), pair |-> Both(0)]
Matches(pair) == pair["cert"] = pair["key"]
\* Another handler may run: nothing does, or a listen is awaited.
Free == turn.at \in {"idle", "listen"}

-----------------------------------------------------------------------------

TakeAway(f) ==
    /\ disk[f] # 0
    /\ \/ f \in renewing /\ UNCHANGED <<version, renewing>>
       \/ renewing = {} /\ version < MaxVersion /\ version' = version + 1 /\ renewing' = Files
    /\ disk' = [disk EXCEPT ![f] = 0]
    /\ due' = [c \in Clients |-> 0]
    /\ UNCHANGED <<turn, rebuilding, current, accepting, ids, closed, faults, client>>

PutBack(f) ==
    /\ disk[f] = 0 /\ disk' = [disk EXCEPT ![f] = version] /\ renewing' = renewing \ {f}
    /\ UNCHANGED <<version, turn, rebuilding, current, accepting, ids, closed, faults, client, due>>

-----------------------------------------------------------------------------

\* What waits for refresh is relayed to the server that is current then.
Dial(server) ==
    client' = [c \in Clients |-> IF client[c].at = "waiting"
                                 THEN [at |-> "dialled", id |-> server.id, pair |-> server.pair]
                                 ELSE client[c]]

\* relay and the first stat of refresh: a rebuild under way is shared.
Relay(c) ==
    /\ Free /\ client[c].at = "none" /\ current # None
    /\ client' = [client EXCEPT ![c].at = "waiting"]
    /\ turn' = IF rebuilding THEN turn
               ELSE [Idle EXCEPT !.at = "look", !.stamp["cert"] = disk["cert"]]
    /\ due' = [due EXCEPT ![c] = IF rebuilding \/ renewing # {} THEN 0 ELSE version]
    /\ UNCHANGED <<certbot, rebuilding, current, accepting, ids, closed, faults>>

\* The rest of refresh: what cannot be looked at, or has not changed, stays in service.
Look ==
    /\ turn.at = "look"
    /\ LET stamp == [turn.stamp EXCEPT !["key"] = disk["key"]]
           changed == 0 \notin {stamp[f] : f \in Files} /\ stamp # current.stamp
       IN  IF changed
           THEN /\ rebuilding' = TRUE /\ turn' = [Idle EXCEPT !.at = "build"]
                /\ UNCHANGED client
           ELSE turn' = Idle /\ Dial(current) /\ UNCHANGED rebuilding
    /\ UNCHANGED <<certbot, current, accepting, ids, closed, faults, due>>

\* Faulty variant: the files are stamped when they have been read.
StampLast == <<<<"pair", "cert">>, <<"pair", "key">>, <<"stamp", "cert">>, <<"stamp", "key">>>>

\* startInner.
Order == <<<<"stamp", "cert">>, <<"stamp", "key">>, <<"pair", "cert">>, <<"pair", "key">>>>

\* A server that cannot be made leaves the one there is; without one, the start fails.
Fails ==
    /\ turn' = Idle /\ rebuilding' = FALSE /\ closed' = (closed \/ current = None)
    /\ Dial(current)

\* The next stat or read; createServer and listen after the last.
Build ==
    /\ turn.at = "build"
    /\ LET what == Order[turn.done + 1][1]
           f    == Order[turn.done + 1][2]
           next == [turn EXCEPT ![what][f] = disk[f], !.done = @ + 1]
       IN  IF disk[f] = 0 \/ (next.done = Len(Order) /\ ~Matches(next.pair))
           THEN Fails /\ UNCHANGED <<accepting, ids>>
           ELSE IF next.done < Len(Order)
           THEN turn' = next /\ UNCHANGED <<rebuilding, closed, client, accepting, ids>>
           ELSE /\ turn' = [next EXCEPT !.at = "listen"]
                /\ ids' = ids + 1 /\ accepting' = accepting \cup {ids'}
                /\ UNCHANGED <<rebuilding, closed, client>>
    /\ UNCHANGED <<certbot, current, faults, due>>

ListenFails ==
    /\ turn.at = "listen" /\ faults < MaxFaults /\ faults' = faults + 1
    /\ accepting' = accepting \ {ids} /\ Fails
    /\ due' = [c \in Clients |-> 0]
    /\ UNCHANGED <<certbot, current, ids>>

\* Faulty variant: the new server is put in service although the proxy is closed.
AfterListenAnyway(next) == current' = next /\ accepting' = accepting \ {current.id}

\* Faulty variant: the old server goes on listening.
AfterListenBoth(next) ==
    IF closed THEN accepting' = accepting \ {next.id} /\ UNCHANGED current
    ELSE current' = next /\ UNCHANGED accepting

\* The new server is put in service, and the old one accepts no more.
AfterListen(next) ==
    IF closed THEN accepting' = accepting \ {next.id} /\ UNCHANGED current
    ELSE current' = next /\ accepting' = accepting \ {current.id}

Listens ==
    /\ turn.at = "listen"
    /\ AfterListen([id |-> ids, stamp |-> turn.stamp, pair |-> turn.pair])
    /\ turn' = Idle /\ rebuilding' = FALSE /\ Dial(current')
    /\ UNCHANGED <<certbot, ids, closed, faults, due>>

\* The connection to the loopback port is accepted, or reset with what was not.
Accept(c) ==
    /\ Free /\ client[c].at = "dialled"
    /\ client' = [client EXCEPT ![c].at = IF client[c].id \in accepting THEN "served" ELSE "gone"]
    /\ UNCHANGED <<certbot, turn, rebuilding, current, accepting, ids, closed, faults, due>>

Close ==
    /\ Free /\ current # None /\ ~closed
    /\ closed' = TRUE /\ accepting' = accepting \ {current.id}
    /\ UNCHANGED <<certbot, turn, rebuilding, current, ids, faults, client, due>>

Init ==
    /\ disk = Both(1) /\ version = 1 /\ renewing = {}
    /\ turn = [Idle EXCEPT !.at = "build"] /\ rebuilding = FALSE /\ current = None
    /\ accepting = {} /\ ids = 0 /\ closed = FALSE /\ faults = 0
    /\ client = [c \in Clients |-> [at |-> "none", id |-> 0, pair |-> Both(0)]]
    /\ due = [c \in Clients |-> 0]

Next ==
    \/ \E f \in Files : TakeAway(f) \/ PutBack(f)
    \/ \E c \in Clients : Relay(c) \/ Accept(c)
    \/ Look \/ Build \/ ListenFails \/ Listens \/ Close

Spec == Init /\ [][Next]_vars

-----------------------------------------------------------------------------

TypeOK ==
    /\ disk \in [Files -> 0..version] /\ renewing \subseteq Files
    /\ accepting \subseteq 1..ids /\ due \in [Clients -> 0..version]
    /\ rebuilding => turn.at \in {"build", "listen"}

\* A pair never stays in service under the times of a newer one: once the files are as
\* they were stamped, they are what is served.  Otherwise the next connection that
\* looks would be content with an old certificate, for good.
StampsAreHonest ==
    current # None /\ disk = current.stamp /\ renewing = {} => disk = current.pair

\* A connection that comes when no rebuild is on its way, to files that are whole and
\* stay as they are, is served those files.
RenewalsAreServed ==
    \A c \in Clients : client[c].at \in {"dialled", "served"} /\ due[c] # 0 /\ ~closed =>
        client[c].pair = Both(due[c])

\* Only the server in service accepts, and one that is about to be; when the proxy has
\* been closed, no inner server is left behind, whatever was on its way.
NoneIsLeft ==
    /\ turn.at # "listen" => accepting = IF closed \/ current = None THEN {} ELSE {current.id}
    /\ turn.at = "listen" => accepting \subseteq {current.id, ids}

\* A renewed certificate is picked up whole, by the next connection, and nothing of the
\* servers before it stays.
TlsIsSound == TypeOK /\ StampsAreHonest /\ RenewalsAreServed /\ NoneIsLeft
=============================================================================
