----------------------------- MODULE StudioGate -----------------------------
(***************************************************************************)
(* The studio listener's handler (daemon/studio/routes.ts, static.ts): a   *)
(* request goes to Studio's own routes, to its built bundle, or past the   *)
(* gate to the daemon's app, which routes it by its own reading of the     *)
(* path.                                                                   *)
(***************************************************************************)
EXTENDS Naturals, Sequences

CONSTANTS Pieces,    \* what stands between two slashes; "" among them
          Longest    \* bound: pieces in a path

\* A credential is right, wrong, absent, or comes from an address that has to wait.
Credentials == {"right", "wrong", "none", "waits"}
OwnRoutes   == {<<"POST", <<"studio", "login">>>>, <<"POST", <<"studio", "logout">>>>,
                <<"GET", <<"studio", "session">>>>, <<"POST", <<"studio", "token">>>>}
Unauthenticated == {<<"studio", "login">>, <<"studio", "logout">>, <<"studio", "session">>,
                    <<"studio", "token">>, <<"v1", "health">>}
\* Files under the bundle's directory, but for its index.
Files == {<<"assets", "app">>}

VARIABLES path, method, credential,
          built,    \* whether the bundle has been built
          answer    \* [by, status], or by "nobody" until there is one

vars == <<path, method, credential, built, answer>>

Kept(p)       == p # ""
\* pathSegments, and what the daemon's dispatch splits a path into.
Segments      == SelectSeq(path, Kept)

\* Faulty variant: the first piece of the raw path decides.
IsControlPlaneRaw == path # <<>> /\ path[1] \in {"v1", "studio"}
IsControlPlane    == Segments # <<>> /\ Segments[1] \in {"v1", "studio"}

Say(by, status) == answer' = [by |-> by, status |-> status]

\* createRouter's dispatch matches the whole path, pieces and all.
Own == <<method, path>> \in OwnRoutes

\* Faulty variant: whatever is not a file gets the index.
MissingNever == FALSE
\* A file under assets/ that this build does not have.
Missing == Segments # <<>> /\ Segments[1] = "assets"

\* serveStudioStatic.
ServeStatic ==
    CASE built /\ Segments \in Files -> Say("file", 200)
      [] ~(built /\ Segments \in Files) /\ (Missing \/ ~built)  -> Say("static", 404)
      [] ~(built /\ Segments \in Files) /\ ~(Missing \/ ~built) -> Say("index", 200)

\* isAuthenticated and what handle() makes of its answer.
Gate ==
    CASE credential = "right" -> Say("app", 200)
      [] credential = "waits" -> Say("gate", 429)
      [] OTHER                -> Say("gate", 401)

Handle ==
    /\ answer.by = "nobody"
    /\ IF Own THEN Say("studio", 200)
       ELSE IF ~IsControlPlane /\ method = "GET" THEN ServeStatic
       ELSE IF Segments \in Unauthenticated THEN Say("app", 200)
       ELSE Gate
    /\ UNCHANGED <<path, method, credential, built>>

Arrive ==
    /\ answer.by = "idle"
    /\ path' \in UNION {[1..n -> Pieces] : n \in 0..Longest}
    /\ method' \in {"GET", "POST"} /\ credential' \in Credentials
    /\ answer' = [by |-> "nobody", status |-> 0]
    /\ UNCHANGED built

Init == /\ path = <<>> /\ method = "GET" /\ credential = "none"
        /\ built \in BOOLEAN /\ answer = [by |-> "idle", status |-> 0]

Next == Arrive \/ Handle
Spec == Init /\ [][Next]_vars

----------------------------------------------------------------------------

TypeOK ==
    /\ method \in {"GET", "POST"} /\ credential \in Credentials /\ built \in BOOLEAN
    /\ answer.by \in {"idle", "nobody", "studio", "file", "index", "static", "gate", "app"}

\* dispatch reads a path as its segments, without the empty pieces; what it serves
\* without a credential is the open list only, as dispatch itself reads the path.
\* And a path of the control plane is never taken for a page of the bundle.
GateReadsAsDispatchDoes ==
    LET routed == SelectSeq(path, Kept)
    IN  /\ answer.by = "app" /\ credential # "right" => routed \in Unauthenticated
        /\ answer.by \in {"file", "index", "static"} =>
                routed = <<>> \/ routed[1] \notin {"v1", "studio"}

\* A stale page that asks for a bundle file this build does not have is told so, and
\* never given a page to run as a script.
StaleAssetsAreMissing ==
    answer.by = "index" => Segments = <<>> \/ Segments[1] # "assets"

\* The gate before the routes: it reads a path as the routes behind it do, and a page
\* is never answered for a file.
GateIsSound ==
    /\ TypeOK
    /\ GateReadsAsDispatchDoes
    /\ StaleAssetsAreMissing
=============================================================================
