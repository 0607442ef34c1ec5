----------------------------- MODULE MCServices ------------------------------
(***************************************************************************)
(* Services for TLC.                                                       *)
(***************************************************************************)
EXTENDS Services, TLC

\* Which operations on the database are asked for together, and of which snapshots.
OfSnapshot == [r1 |-> "s1", r2 |-> "s1", r3 |-> "s2", rm |-> "s1"]
Pairs ==
    {{"on", "sleep"}, {"on", "branch"}, {"on", "off"}, {"on", "r1"},
     {"off", "branch"}, {"off", "r1"}, {"r1", "branch"}, {"r1", "r2"}, {"r1", "r3"},
    {"r1", "rm"}, {"branch", "sleep"}}

\* Two projects whose names run into their resources', and what each has besides
\* databases.
MyNames == {<<"my">>, <<"my", "app">>}
TheirDatabases == {<<"primary">>, <<"db">>}
TheirComputes == {<<"app", "db">>}
Kinds == (<<"my">> :> "app") @@ (<<"my", "app">> :> "worker")

\* What may go wrong in one behaviour; everything, but where two operations that start
\* and stop the database have the most states.
Befalls ==
    [c \in Pairs |->
        IF c = {"r1", "branch"} THEN {}
        ELSE IF c = {"off", "branch"} THEN {"daemon"}
        ELSE IF c = {"on", "branch"} THEN {"disk", "docker"}
        ELSE IF c = {"r1", "r2"} THEN {"daemon", "disk"}
        ELSE {"daemon", "disk", "docker", "boot"}]

\* Packets whole and broken, in every order that a connection tells apart.
ClientsSay ==
    {<<"gss", "ssl", "startup">>, <<"ssl", "gss", "ssl">>, <<"cancel">>, <<"short">>,
     <<"long">>, <<"ssl", "odd">>, <<"startup">>, <<"unterminated">>}

\* A startup with a key, query traffic that looks like one, refusals and errors, lengths
\* that make no sense.
Says(type, body) == [type |-> type, body |-> body]
BackendsSay ==
    {<<Says("57P03", 1)>>, <<Says("negotiate", 1), Says("57P03", 1)>>,
     <<Says("negotiate", 0), Says("auth", 1), Says("key", 1), Says("ready", 1), Says("key", 1)>>,
     <<Says("auth", 0), Says("huge", 1), Says("key", 1)>>, <<Says("error", 1)>>,
     <<Says("huge", 1), Says("57P03", 1)>>, <<Says("auth", 0), Says("57P03", 1)>>}

\* A user's daemon and root's.
TwoUsers == [d1 |-> "user", d2 |-> "root"]

\* The components that a behaviour is not of have one initial state.
OthersRest ==
    /\ EveryInit
    /\ part # "storage" => cast = {"r1", "rm"} /\ row = "sleeping"
    /\ part # "tokens" => \E t \in tokens_file : t.name = "n1"
    /\ part # "gate" => gate_built
    /\ part # "doors" => doors_socketFile = FALSE
    /\ part # "wire" => wire_script = <<"short">> /\ ~wire_tls /\ ~wire_remote /\ ~wire_minting

SpecInstances == OthersRest /\ [][EveryNext]_everything
=============================================================================
