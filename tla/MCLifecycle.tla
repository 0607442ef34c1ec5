--------------------------- MODULE MCLifecycle ---------------------------
(* Instances of Lifecycle for TLC: a project with a database and an app    *)
(* bound to it, or with a database only; each configuration chooses the    *)
(* actors and the faults.                                                  *)
EXTENDS Lifecycle

CONSTANTS db, app

DbThenApp  == <<db, app>>
AppUsesDb  == [r \in {db, app} |-> IF r = app THEN db ELSE NoDb]
JustDb     == <<db>>
UsesNothing == [r \in {db} |-> NoDb]
=============================================================================
