----------------------------- MODULE MCResources -----------------------------
(***************************************************************************)
(* Values for TLC of the constants of Resources: two workers whose         *)
(* manifests name each other's queues, and two users of one project name.  *)
(***************************************************************************)
EXTENDS Resources, TLC

CONSTANTS shop, site, slot1, slot2

\* Nothing in Projects tells two names or two slots apart, nor Bindings two slots.
Symmetry == Permutations({shop, site}) \cup Permutations({slot1, slot2})

\* The manifests: consumers with and without dead letters, and one that names no queue.
Declared ==
    {[produces |-> {}, consumes |-> {"q1"}, dead |-> {"q2"}],
     [produces |-> {"q1"}, consumes |-> {"q2"}, dead |-> {}],
     [produces |-> {"w2"}, consumes |-> {}, dead |-> {}]}

\* What the users type, of a database, an app and a queue.
Verbs ==
    {[verb |-> v, res |-> "primary", kind |-> "postgres"] : v \in {"new", "rm"}}
    \cup {[verb |-> v, res |-> "web", kind |-> "app"] :
             v \in {"deploy", "rm resource", "use", "env", "snapshot"}}
    \cup {[verb |-> v, res |-> "web", kind |-> "queue"] : v \in {"create", "queue rm"}}
=============================================================================
