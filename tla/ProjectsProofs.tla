-------------------------- MODULE ProjectsProofs --------------------------
(***************************************************************************)
(* Theorems about Projects: for any names, ports and operations under way, *)
(* however the operations race each other, fail and are cut off.           *)
(***************************************************************************)
EXTENDS Projects, WellFoundedInduction, TLAPS

USE DEF None, Copied

-----------------------------------------------------------------------------
(* The inductive invariant, first part: what things are and how they are   *)
(* numbered.                                                               *)

OpKinds == {"idle", "create", "undo", "branch", "restore", "discard", "rm", "rmProject",
            "forget", "eject", "wake"}
Ats     == {"idle", "build", "probe", "network", "container", "start", "ready", "stop",
            "remove", "clone", "wipe", "directory"}
Planned == {"build", "probe", "clone"}

Row == [id : Nat, project : Nat, name : Names, kind : Kinds, state : States, port : Ports,
        seed : Int]
Box == [whose : Nat, port : Ports \cup {None}, up : BOOLEAN]
Op  == [kind : OpKinds, at : Ats, name : Names \cup {""}, res : Kinds \cup {""},
        project : Nat, id : Nat, port : Ports \cup {None}, todo : SUBSET (Nat \X Kinds),
        bad : BOOLEAN, beside : BOOLEAN]

\* What is numbered has a number that was given out.  An operation has a name, and one
\* that is about to write a row has a project, a kind and a port for it.
RowOf(r, m) == r \in Row /\ r.id \in 1..m /\ r.project \in 1..m
BoxOf(b, m) == b \in Box /\ b.whose <= m
OpOf(c, m)  ==
    /\ c \in Op /\ c.id <= m /\ c.project <= m
    /\ c.todo \subseteq (1..m) \X Kinds
    /\ c.kind = "idle" => c = Idle
    /\ c.kind # "idle" => c.name \in Names
    /\ c.at \in Planned =>
          /\ c.kind \in {"create", "branch", "restore"} /\ c.res \in Kinds
          /\ c.project = None => c.kind = "restore" /\ c.at = "clone"
          /\ c.at # "clone" => c.port \in Ports

Rows  == (\A r \in rows : RowOf(r, made)) /\ (\A r, s \in rows : r.id = s.id => r = s)
Ops   == /\ op = [o \in Slots |-> op[o]]
         /\ \A o \in Slots : OpOf(op[o], made)
Boxes == /\ box = [n \in Names |-> [k \in Kinds |-> box[n][k]]]
         /\ \A n \in Names, k \in Kinds : BoxOf(box[n][k], made)
Disk  == /\ net \subseteq Names /\ dir \in [Names -> SUBSET Kinds]
         /\ data \in [Names -> (0..made) \cup {Copied}]
Count == /\ made \in Nat /\ begun \in 0..MaxBegun /\ mishaps \in 0..MaxMishaps
         /\ project \in [Names -> 0..made] /\ released \subseteq Names
         /\ spoiled \subseteq Names /\ frozen \subseteq Names /\ raced \subseteq 1..made
Base  == Rows /\ Ops /\ Boxes /\ Disk /\ Count

\* The rows of S are rows of R, in whatever state.
Kept(S, R) == \A r \in S : r.state \in States /\ \E q \in R : r = [q EXCEPT !.state = r.state]

-----------------------------------------------------------------------------
(* Helpers.                                                                *)

\* The least of some numbers is one of them.
LEMMA LeastIsOne ==
    ASSUME NEW S \in SUBSET Nat, S # {}
    PROVE  Least(S) \in S /\ \A j \in S : Least(S) <= j
<1>1. PICK i \in S : \A j \in S : ~(<<j, i>> \in OpToRel(<, Nat))
  BY NatLessThanWellFounded, WFMin
<1>2. OpToRel(<, Nat) = {p \in Nat \X Nat : p[1] < p[2]}
  BY DEF OpToRel
<1>3. \A j \in S : ~(j < i)
  <2>1. \A j \in S : <<j, i>> \in Nat \X Nat
    OBVIOUS
  <2>2. QED
    BY <1>1, <1>2, <2>1
<1>4. \A j \in S : i <= j
  BY <1>3
<1>5. QED
  BY <1>4 DEF Least

\* The first of what is listed is listed.
LEMMA FirstIsListed ==
    ASSUME NEW T \in SUBSET (Nat \X Kinds), T # {}
    PROVE  LET r == CHOOSE x \in T : \A y \in T : x[1] <= y[1] IN r \in T
<1> DEFINE S == {t[1] : t \in T}
<1>1. Least(S) \in S /\ \A j \in S : Least(S) <= j
  <2>1. S \in SUBSET Nat /\ S # {}
    OBVIOUS
  <2> HIDE DEF S
  <2>2. QED
    BY <2>1, LeastIsOne
<1>2. PICK x \in T : x[1] = Least(S)
  BY <1>1
<1>3. \A y \in T : x[1] <= y[1]
  BY <1>1, <1>2
<1>4. QED
  BY <1>3

\* What Take makes of an operation is an operation.
LEMMA TakeType ==
    ASSUME NEW c \in Op, NEW i \in Nat, NEW k \in Kinds, NEW T \in SUBSET (Nat \X Kinds)
    PROVE  /\ [c EXCEPT !.at = "network", !.todo = {}, !.id = None] \in Op
           /\ [c EXCEPT !.at = "stop", !.todo = T, !.id = i, !.res = k] \in Op
BY DEF Op, Ats

LEMMA TakeInOp ==
    ASSUME NEW c \in Op, NEW todo \in SUBSET (Nat \X Kinds)
    PROVE  Take(c, todo) \in Op
<1>1. CASE todo = {}
  <2>1. Take(c, todo) = [c EXCEPT !.at = "network", !.todo = {}, !.id = None]
    BY <1>1 DEF Take
  <2>2. QED
    BY <2>1, TakeType DEF Kinds
<1>2. CASE todo # {}
  <2> DEFINE r == CHOOSE x \in todo : \A y \in todo : x[1] <= y[1]
             T == todo \ {r}
  <2>1. r \in todo
    BY <1>2, FirstIsListed
  <2>2. PICK i \in Nat, k \in Kinds : r = <<i, k>>
    BY <2>1
  <2>3. Take(c, todo) = [c EXCEPT !.at = "stop", !.todo = T, !.id = r[1], !.res = r[2]]
    BY <1>2 DEF Take
  <2>4. T \in SUBSET (Nat \X Kinds)
    OBVIOUS
  <2> HIDE DEF r, T
  <2>5. r[1] = i /\ r[2] = k
    BY <2>2
  <2>6. [c EXCEPT !.at = "stop", !.todo = T, !.id = i, !.res = k] \in Op
    BY <2>4, TakeType
  <2>7. QED
    BY <2>3, <2>5, <2>6
<1>3. QED
  BY <1>1, <1>2

LEMMA TakeStops ==
    ASSUME NEW c \in Op, NEW todo
    PROVE  Take(c, todo).at = "network" => Take(c, todo).id = None
BY DEF Take, Op

LEMMA TakeIsOp ==
    ASSUME NEW m \in Nat, NEW c \in Op, NEW todo \in SUBSET ((1..m) \X Kinds),
           c.kind # "idle", c.name \in Names, c.id <= m, c.project <= m
    PROVE  LET d == Take(c, todo) IN
           /\ OpOf(d, m)
           /\ d.kind = c.kind /\ d.name = c.name /\ d.project = c.project /\ d.bad = c.bad
           /\ d.port = c.port
           /\ todo = {} => d.at = "network" /\ d.id = None /\ d.res = c.res /\ d.todo = {}
           /\ todo # {} => /\ d.at = "stop" /\ d.id # None /\ <<d.id, d.res>> \in todo
                           /\ d.todo = todo \ {<<d.id, d.res>>}
<1> DEFINE d == Take(c, todo)
<1>1. CASE todo = {}
  <2>1. d = [c EXCEPT !.at = "network", !.todo = {}, !.id = None]
    BY <1>1 DEF Take
  <2>2. d \in Op
    BY <2>1, TakeType DEF Kinds
  <2>3. /\ d.at = "network" /\ d.todo = {} /\ d.id = 0
        /\ d.kind = c.kind /\ d.name = c.name /\ d.project = c.project /\ d.bad = c.bad
        /\ d.port = c.port /\ d.res = c.res
    BY <2>1 DEF Op
  <2> HIDE DEF d
  <2>4. OpOf(d, m)
    BY <2>2, <2>3 DEF OpOf, Planned
  <2>5. QED
    BY <1>1, <2>3, <2>4 DEF d
<1>2. CASE todo # {}
  <2> DEFINE r == CHOOSE x \in todo : \A y \in todo : x[1] <= y[1]
  <2>0. todo \in SUBSET (Nat \X Kinds)
    OBVIOUS
  <2>1. r \in todo
    BY <1>2, <2>0, FirstIsListed
  <2>2. PICK i \in 1..m, k \in Kinds : r = <<i, k>>
    BY <2>1
  <2>3. d = [c EXCEPT !.at = "stop", !.todo = todo \ {r}, !.id = r[1], !.res = r[2]]
    BY <1>2 DEF Take
  <2> HIDE DEF r
  <2>4. d = [c EXCEPT !.at = "stop", !.todo = todo \ {<<i, k>>}, !.id = i, !.res = k]
    BY <2>2, <2>3
  <2>5. d \in Op
    <3> DEFINE T == todo \ {<<i, k>>}
    <3>1. T \in SUBSET (Nat \X Kinds) /\ i \in Nat
      BY <2>0, <2>2
    <3> HIDE DEF T
    <3>2. [c EXCEPT !.at = "stop", !.todo = T, !.id = i, !.res = k] \in Op
      BY <3>1, TakeType
    <3>3. QED
      BY <2>4, <3>2 DEF T
  <2>6. /\ d.at = "stop" /\ d.todo = todo \ {<<i, k>>} /\ d.id = i /\ d.res = k
        /\ d.kind = c.kind /\ d.name = c.name /\ d.project = c.project /\ d.bad = c.bad
        /\ d.port = c.port
    BY <2>4 DEF Op
  <2> HIDE DEF d
  <2>7. <<d.id, d.res>> \in todo /\ d.id # None
    BY <2>1, <2>2, <2>6
  <2>8. d.todo = todo \ {<<d.id, d.res>>}
    BY <2>6
  <2>9. OpOf(d, m)
    BY <2>2, <2>5, <2>6 DEF OpOf, Planned
  <2>10. QED
    BY <1>2, <2>6, <2>7, <2>8, <2>9 DEF d
<1>3. QED
  BY <1>1, <1>2

LEMMA TakeKeeps ==
    ASSUME NEW c \in Op, NEW todo
    PROVE  /\ Take(c, todo).kind = c.kind /\ Take(c, todo).name = c.name
           /\ Take(c, todo).project = c.project /\ Take(c, todo).bad = c.bad
BY DEF Take, Op

LEMMA TakeAt ==
    ASSUME NEW c \in Op, NEW todo
    PROVE  Take(c, todo).at \in {"network", "stop"}
BY DEF Take, Op

\* Marking rows keeps them.
LEMMA MarkKeeps ==
    ASSUME Rows, NEW S, NEW s \in States
    PROVE  Kept(Mark(S, s), rows)
BY DEF Kept, Mark, Rows, RowOf, Row

\* Rows that are kept are still rows with numbers of their own.
LEMMA KeptRows ==
    ASSUME Rows, made \in Nat, made' \in Nat, made' >= made, Kept(rows', rows),
           \A r, s \in rows' : r.id = s.id => r = s
    PROVE  Rows'
BY DEF Kept, Rows, RowOf, Row

LEMMA IdleIsOp ==
    /\ Idle \in Op /\ Idle.kind = "idle" /\ Idle.at = "idle" /\ Idle.name = "" /\ Idle.res = ""
    /\ Idle.project = None /\ Idle.id = None /\ Idle.port = None /\ Idle.todo = {}
    /\ Idle.bad = FALSE /\ Idle.beside = FALSE
BY DEF Idle, Op, OpKinds, Ats

LEMMA OpFields ==
    ASSUME NEW c \in Op
    PROVE  /\ c.id \in Nat /\ c.project \in Nat /\ c.todo \subseteq Nat \X Kinds
           /\ c.kind \in OpKinds /\ c.at \in Ats /\ c.name \in Names \cup {""}
           /\ c.res \in Kinds \cup {""} /\ c.port \in Ports \cup {None}
           /\ c.bad \in BOOLEAN /\ c.beside \in BOOLEAN
BY DEF Op

LEMMA InRange ==
    ASSUME NEW m \in Nat, NEW i \in Nat, i <= m
    PROVE  i \in 0..m
OBVIOUS

LEMMA PlainOp ==
    ASSUME NEW m \in Nat, NEW c \in Op, c.kind # "idle", c.name \in Names, c.at \notin Planned,
           c.id \in 0..m, c.project \in 0..m, c.todo = {}
    PROVE  OpOf(c, m)
<1>1. c.id <= m /\ c.project <= m
  OBVIOUS
<1>2. QED
  BY <1>1 DEF OpOf

\* One operation goes on.
LEMMA OneOp ==
    ASSUME Ops, made \in Nat, made' \in Nat, made' >= made, NEW o \in Slots, NEW c,
           op' = [op EXCEPT ![o] = c], OpOf(c, made')
    PROVE  Ops'
<1>1. op' = [s \in Slots |-> op'[s]]
  BY DEF Ops
<1>2. ASSUME NEW s \in Slots PROVE OpOf(op'[s], made')
  <2>1. CASE s = o
    BY <2>1 DEF Ops
  <2>2. CASE s # o
    <3>1. op'[s] = op[s] /\ OpOf(op[s], made)
      BY <2>2 DEF Ops
    <3> DEFINE d == op[s]
    <3>2. /\ d \in Op /\ d.id \in Nat /\ d.project \in Nat /\ d.id <= made /\ d.project <= made
          /\ d.todo \subseteq (1..made) \X Kinds
      BY <3>1, OpFields DEF OpOf
    <3>3. OpOf(d, made)
      BY <3>1
    <3> HIDE DEF d
    <3>4. d.id <= made' /\ d.project <= made' /\ 1..made \subseteq 1..made'
      BY <3>2
    <3>5. OpOf(d, made')
      BY <3>2, <3>3, <3>4 DEF OpOf
    <3>6. QED
      BY <3>1, <3>5 DEF d
  <2>3. QED
    BY <2>1, <2>2
<1>3. QED
  BY <1>1, <1>2 DEF Ops

\* Rows that are marked, or fewer, are the rows that were.
LEMMA MarkedRows ==
    ASSUME Rows, made \in Nat, made' \in Nat, made' >= made, NEW S, NEW s \in States,
           rows' \subseteq Mark(S, s)
    PROVE  Rows' /\ Kept(rows', rows)
<1>1. Kept(rows', rows)
  BY MarkKeeps DEF Kept
<1>2. ASSUME NEW r \in rows', NEW q \in rows', r.id = q.id PROVE r = q
  <2>1. PICK u \in rows : r = IF u.id \in S THEN [u EXCEPT !.state = s] ELSE u
    BY DEF Mark
  <2>2. PICK v \in rows : q = IF v.id \in S THEN [v EXCEPT !.state = s] ELSE v
    BY DEF Mark
  <2>3. r.id = u.id /\ q.id = v.id
    BY <2>1, <2>2 DEF Rows, RowOf, Row
  <2>4. u = v
    BY <1>2, <2>3 DEF Rows
  <2>5. QED
    BY <2>1, <2>2, <2>4
<1>3. QED
  BY <1>1, <1>2, KeptRows

LEMMA FewerRows ==
    ASSUME Rows, made \in Nat, made' \in Nat, made' >= made, rows' \subseteq rows
    PROVE  Rows' /\ Kept(rows', rows)
<1>1. Kept(rows', rows)
  BY DEF Kept, Rows, RowOf, Row
<1>2. \A r, s \in rows' : r.id = s.id => r = s
  BY DEF Rows
<1>3. QED
  BY <1>1, <1>2, KeptRows

\* Operations, containers and disks that are left alone.
LEMMA OpsSame ==
    ASSUME Ops, made \in Nat, made' \in Nat, made' >= made, UNCHANGED op
    PROVE  Ops'
<1>1. op' = [s \in Slots |-> op'[s]]
  BY DEF Ops
<1>2. ASSUME NEW s \in Slots PROVE OpOf(op'[s], made')
  <2> DEFINE c == op[s]
  <2>1. OpOf(c, made)
    BY DEF Ops
  <2> HIDE DEF c
  <2>2. /\ c \in Op /\ c.id \in Nat /\ c.project \in Nat /\ c.id <= made /\ c.project <= made
        /\ c.todo \subseteq (1..made) \X Kinds
    BY <2>1, OpFields DEF OpOf
  <2>3. c.id <= made' /\ c.project <= made' /\ 1..made \subseteq 1..made'
    BY <2>2
  <2>4. OpOf(c, made')
    BY <2>1, <2>2, <2>3 DEF OpOf
  <2>5. QED
    BY <2>4 DEF c
<1>3. QED
  BY <1>1, <1>2 DEF Ops

LEMMA BoxSet ==
    ASSUME Boxes, made \in Nat, made' \in Nat, made' >= made, NEW n \in Names, NEW k, NEW b,
           k \in Kinds => BoxOf(b, made'), SetBox(n, k, b)
    PROVE  Boxes'
<1>1. box' = [m \in Names |-> [j \in Kinds |-> box'[m][j]]]
  BY DEF Boxes, SetBox
<1>2. ASSUME NEW m \in Names, NEW j \in Kinds PROVE BoxOf(box'[m][j], made')
  <2>1. CASE m = n /\ j = k
    BY <2>1 DEF Boxes, SetBox
  <2>2. CASE ~(m = n /\ j = k)
    <3>1. box'[m][j] = box[m][j] /\ BoxOf(box[m][j], made)
      BY <2>2 DEF Boxes, SetBox
    <3>2. box[m][j].whose \in Nat
      BY <3>1 DEF BoxOf, Box
    <3>3. QED
      BY <3>1, <3>2 DEF BoxOf
  <2>3. QED
    BY <2>1, <2>2
<1>3. QED
  BY <1>1, <1>2 DEF Boxes

LEMMA BoxesSame ==
    ASSUME Boxes, made \in Nat, made' \in Nat, made' >= made, UNCHANGED box
    PROVE  Boxes'
<1>1. ASSUME NEW m \in Names, NEW j \in Kinds PROVE BoxOf(box'[m][j], made')
  <2>1. box'[m][j] = box[m][j] /\ BoxOf(box[m][j], made)
    BY DEF Boxes
  <2>2. box[m][j].whose \in Nat
    BY <2>1 DEF BoxOf, Box
  <2>3. QED
    BY <2>1, <2>2 DEF BoxOf
<1>2. QED
  BY <1>1 DEF Boxes

\* A container goes, is made, is started or is stopped.
LEMMA BoxKinds ==
    ASSUME Boxes, made \in Nat, NEW n \in Names, NEW k \in Kinds, NEW up \in BOOLEAN
    PROVE  /\ BoxOf(Gone, made) /\ BoxOf(box[n][k], made)
           /\ BoxOf([box[n][k] EXCEPT !.up = up], made)
           /\ \A i \in 0..made, p \in Ports \cup {None} :
                 BoxOf([whose |-> i, port |-> p, up |-> FALSE], made)
<1>1. BoxOf(box[n][k], made)
  BY DEF Boxes
<1> DEFINE b == box[n][k]
<1>2. b \in Box /\ b.whose <= made
  BY <1>1 DEF BoxOf
<1> HIDE DEF b
<1>3. [b EXCEPT !.up = up] \in Box /\ [b EXCEPT !.up = up].whose = b.whose
  BY <1>2 DEF Box
<1>4. Gone \in Box /\ Gone.whose = 0
  BY DEF Box, Gone
<1>5. \A i \in 0..made, p \in Ports \cup {None} : [whose |-> i, port |-> p, up |-> FALSE] \in Box
  BY DEF Box
<1>6. QED
  BY <1>1, <1>2, <1>3, <1>4, <1>5 DEF BoxOf, b

\* An operation goes on, ends, turns into clearing up, or goes on to another resource.
LEMMA OpMoves ==
    ASSUME NEW m \in Nat, NEW c, OpOf(c, m), c.kind # "idle"
    PROVE  /\ OpOf(Idle, m)
           /\ \A at \in Ats \ Planned : OpOf([c EXCEPT !.at = at], m)
           /\ \A at \in Ats \ Planned, bad \in BOOLEAN : OpOf([c EXCEPT !.at = at, !.bad = bad], m)
           /\ \A k \in {"undo", "discard"} : OpOf([c EXCEPT !.kind = k, !.at = "remove"], m)
           /\ \A b \in BOOLEAN : OpOf([c EXCEPT !.beside = b], m)
<1> USE DEF OpOf
<1>1. Idle \in Op /\ Idle.id = 0 /\ Idle.project = 0 /\ Idle.todo = {} /\ Idle.kind = "idle"
      /\ Idle.at = "idle"
  BY DEF Op, Idle, OpKinds, Ats
<1>2. OpOf(Idle, m)
  BY <1>1 DEF Planned
<1>3. ASSUME NEW at \in Ats \ Planned PROVE OpOf([c EXCEPT !.at = at], m)
  <2> DEFINE d == [c EXCEPT !.at = at]
  <2>1. d \in Op /\ d.at = at /\ d.id = c.id /\ d.project = c.project /\ d.todo = c.todo
        /\ d.kind = c.kind /\ d.name = c.name
    BY DEF Op
  <2> HIDE DEF d
  <2>2. OpOf(d, m)
    BY <2>1
  <2>3. QED
    BY <2>2 DEF d
<1>4. ASSUME NEW at \in Ats \ Planned, NEW bad \in BOOLEAN
      PROVE  OpOf([c EXCEPT !.at = at, !.bad = bad], m)
  <2> DEFINE d == [c EXCEPT !.at = at, !.bad = bad]
  <2>1. d \in Op /\ d.at = at /\ d.id = c.id /\ d.project = c.project /\ d.todo = c.todo
        /\ d.kind = c.kind /\ d.name = c.name
    BY DEF Op
  <2> HIDE DEF d
  <2>2. OpOf(d, m)
    BY <2>1
  <2>3. QED
    BY <2>2 DEF d
<1>5. ASSUME NEW k \in {"undo", "discard"}
      PROVE  OpOf([c EXCEPT !.kind = k, !.at = "remove"], m)
  <2> DEFINE d == [c EXCEPT !.kind = k, !.at = "remove"]
  <2>1. d \in Op /\ d.at = "remove" /\ d.id = c.id /\ d.project = c.project /\ d.todo = c.todo
        /\ d.kind = k /\ d.name = c.name
    BY DEF Op, OpKinds, Ats
  <2> HIDE DEF d
  <2>2. OpOf(d, m)
    BY <2>1 DEF Planned
  <2>3. QED
    BY <2>2 DEF d
<1>6. ASSUME NEW b \in BOOLEAN PROVE OpOf([c EXCEPT !.beside = b], m)
  <2> DEFINE d == [c EXCEPT !.beside = b]
  <2>1. d \in Op /\ d.at = c.at /\ d.id = c.id /\ d.project = c.project /\ d.todo = c.todo
        /\ d.kind = c.kind /\ d.name = c.name /\ d.res = c.res /\ d.port = c.port
    BY DEF Op
  <2> HIDE DEF d
  <2>2. OpOf(d, m)
    BY <2>1
  <2>3. QED
    BY <2>2 DEF d
<1>7. QED
  BY <1>2, <1>3, <1>4, <1>5, <1>6

-----------------------------------------------------------------------------
(* Every step keeps the first part.                                        *)

USE DEF store, world, count, hist

\* A failed creation marks its row and clears up or ends.
LEMMA FailsBase ==
    ASSUME Base, NEW o \in Slots, op[o].kind # "idle", Fails(o), UNCHANGED made
    PROVE  Rows' /\ Kept(rows', rows) /\ Ops' /\ spoiled' \subseteq Names
<1>0. Rows /\ Ops /\ made \in Nat /\ made' \in Nat /\ made' >= made
  BY DEF Base, Count
<1>1. Rows' /\ Kept(rows', rows)
  <2>1. rows' = Mark({op[o].id}, "failed") /\ "failed" \in States
    BY DEF Fails, States
  <2>2. QED
    BY <2>1, <1>0, MarkedRows
<1>2. OpOf(op[o], made) /\ made \in Nat /\ op[o].name \in Names
  BY DEF Base, Ops, Count, OpOf
<1>3. PICK c : op' = [op EXCEPT ![o] = c] /\ OpOf(c, made')
  <2>1. op' = [op EXCEPT ![o] = Idle] \/ \E k \in {"undo", "discard"} :
          op' = [op EXCEPT ![o] = [op[o] EXCEPT !.kind = k, !.at = "remove"]]
    BY DEF Fails
  <2>2. QED
    BY <1>2, <2>1, OpMoves
<1>4. Ops'
  BY <1>0, <1>3, OneOp
<1>5. spoiled' \subseteq Names
  BY <1>2 DEF Fails, Spoil, Base, Count
<1>6. QED
  BY <1>1, <1>4, <1>5

\* A resource that is done with loses its row; the next is marked.
LEMMA RowGoesBase ==
    ASSUME Base, NEW o \in Slots, NEW bad \in BOOLEAN,
           op[o].kind \in {"rm", "rmProject", "forget"}, RowGoes(o, bad), UNCHANGED made
    PROVE  Rows' /\ Kept(rows', rows) /\ Ops' /\ spoiled' \subseteq Names
<1>0. Rows /\ Ops /\ made \in Nat /\ made' \in Nat /\ made' >= made
  BY DEF Base, Count
<1> DEFINE one == op[o].kind = "rm"
           c == Take([op[o] EXCEPT !.bad = bad], op[o].todo)
<1>1. Rows' /\ Kept(rows', rows)
  <2>1. CASE one
    <3>1. rows' \subseteq rows
      BY <2>1 DEF RowGoes
    <3>2. QED
      BY <3>1, <1>0, FewerRows
  <2>2. CASE ~one
    <3>1. rows' \subseteq Mark({c.id}, "destroying") /\ "destroying" \in States
      BY <2>2 DEF RowGoes, States
    <3>2. QED
      BY <3>1, <1>0, MarkedRows
  <2>3. QED
    BY <2>1, <2>2
<1>2. /\ OpOf(op[o], made) /\ made \in Nat /\ op[o].name \in Names /\ op[o] \in Op
      /\ op[o].todo \subseteq (1..made) \X Kinds /\ op[o].id <= made /\ op[o].project <= made
  BY DEF Base, Ops, Count, OpOf
<1>3. OpOf(c, made)
  <2> DEFINE d == [op[o] EXCEPT !.bad = bad]
  <2>1. d \in Op /\ d.kind = op[o].kind /\ d.name = op[o].name /\ d.id = op[o].id
        /\ d.project = op[o].project
    BY <1>2 DEF Op
  <2> HIDE DEF d
  <2>2. OpOf(Take(d, op[o].todo), made)
    BY <1>2, <2>1, TakeIsOp
  <2>3. QED
    BY <2>2 DEF d
<1>4. Ops'
  <2>1. op' = [op EXCEPT ![o] = IF one THEN Idle ELSE c]
    BY DEF RowGoes
  <2> HIDE DEF c
  <2>2. OpOf(IF one THEN Idle ELSE c, made)
    BY <1>2, <1>3, OpMoves
  <2>3. QED
    BY <1>0, <1>2, <2>1, <2>2, OneOp
<1>5. spoiled' \subseteq Names
  BY <1>2 DEF RowGoes, Spoil, Base, Count
<1>6. QED
  BY <1>1, <1>4, <1>5

\* The new operation an operation begins as.
LEMMA BeginBase ==
    ASSUME Base, NEW o \in Slots, NEW c, Begin(o, c), made' \in Nat, made' >= made,
           OpOf(c, made'), c.name \in Names
    PROVE  Ops' /\ begun' \in 0..MaxBegun /\ spoiled' \subseteq Names
<1>1. Ops'
  BY OneOp DEF Begin, Base, Count
<1>2. begun' \in 0..MaxBegun
  <2>1. begun \in 0..MaxBegun /\ begun < MaxBegun /\ begun' = begun + 1 /\ MaxBegun \in Nat
    BY ProjectsAssumption DEF Begin, Base, Count
  <2>2. QED
    BY <2>1
<1>3. spoiled' \subseteq Names
  BY DEF Begin, Spoil, Base, Count
<1>4. QED
  BY <1>1, <1>2, <1>3

\* A free port is a port.
LEMMA FreeIsPort ==
    ASSUME Free # {}
    PROVE  Least(Free) \in Free /\ Least(Free) \in Ports
<1>1. Free \in SUBSET Nat /\ Free \subseteq Ports
  BY ProjectsAssumption DEF Free
<1>2. QED
  BY <1>1, LeastIsOne

\* Where a lemma starts from: what the operation is and what stays.
LEMMA Given ==
    ASSUME Base
    PROVE  /\ Rows /\ Ops /\ Boxes /\ Disk /\ Count /\ made \in Nat
           /\ Kept(rows, rows)
           /\ \A o \in Slots : /\ OpOf(op[o], made) /\ op[o] \in Op
                               /\ op[o].kind # "idle" => op[o].name \in Names
<1>1. Kept(rows, rows)
  BY DEF Base, Kept, Rows, RowOf, Row
<1>2. QED
  BY <1>1 DEF Base, Count, Ops, OpOf

\* What is left alone stays as it should be, while numbers are given out.
LEMMA Stays ==
    ASSUME Base, made' \in Nat, made' >= made
    PROVE  /\ UNCHANGED rows => Rows' /\ Kept(rows', rows)
           /\ UNCHANGED op => Ops'
           /\ UNCHANGED box => Boxes'
           /\ UNCHANGED <<net, dir, data>> => Disk'
<1>0. Rows /\ Ops /\ Boxes /\ Disk /\ Count /\ made \in Nat
  BY Given
<1>1. UNCHANGED rows => Rows' /\ Kept(rows', rows)
  BY <1>0, FewerRows
<1>2. UNCHANGED op => Ops'
  BY <1>0, OpsSame
<1>3. UNCHANGED box => Boxes'
  BY <1>0, BoxesSame
<1>4. UNCHANGED <<net, dir, data>> => Disk'
  BY <1>0 DEF Disk
<1>5. QED
  BY <1>1, <1>2, <1>3, <1>4

LEMMA Mishap ==
    ASSUME Base, Fault \/ UNCHANGED mishaps
    PROVE  mishaps' \in 0..MaxMishaps
<1>1. mishaps \in 0..MaxMishaps /\ MaxMishaps \in Nat
  BY ProjectsAssumption DEF Base, Count
<1>2. mishaps' = mishaps \/ (mishaps < MaxMishaps /\ mishaps' = mishaps + 1)
  BY DEF Fault
<1>3. QED
  BY <1>1, <1>2

LEMMA NewProjectBase ==
    ASSUME Base, NEW n \in Names, NewProject(n)
    PROVE  Base' /\ Kept(rows', rows)
<1>0. Count /\ made \in Nat /\ made' = made + 1
  BY Given DEF NewProject
<1>1. made' \in Nat /\ made' >= made
  BY <1>0
<1>2. Rows' /\ Kept(rows', rows) /\ Ops' /\ Boxes' /\ Disk'
  BY <1>1, Stays DEF NewProject
<1>3. Count'
  BY <1>0 DEF NewProject, Count, Spoil
<1>4. QED
  BY <1>2, <1>3 DEF Base

LEMMA CreateBeginsBase ==
    ASSUME Base, NEW o \in Slots, NEW n \in Names, NEW k \in Kinds, CreateBegins(o, n, k)
    PROVE  Base' /\ Kept(rows', rows)
<1>0. Count /\ made \in Nat /\ made' = made /\ made' >= made
  BY Given DEF CreateBegins
<1> DEFINE c == [Idle EXCEPT !.kind = "create", !.at = IF k = "db" THEN "probe" ELSE "build",
                             !.name = n, !.res = k, !.project = project[n],
                             !.port = Least(Free)]
<1>1. OpOf(c, made) /\ c.name = n
  <2>1. project[n] \in 0..made /\ project[n] # 0 /\ Least(Free) \in Ports
    BY <1>0, FreeIsPort DEF CreateBegins, Count
  <2>2. c \in Op /\ c.id = 0 /\ c.project = project[n] /\ c.todo = {} /\ c.kind = "create"
        /\ c.name = n /\ c.res = k /\ c.port = Least(Free)
    <3> DEFINE p == project[n]
               q == Least(Free)
               a == IF k = "db" THEN "probe" ELSE "build"
    <3>1. p \in Nat /\ q \in Ports /\ a \in Ats
      BY <1>0, <2>1 DEF Ats
    <3> HIDE DEF p, q, a
    <3>2. /\ c \in Op /\ c.id = Idle.id /\ c.project = p /\ c.todo = Idle.todo
          /\ c.kind = "create" /\ c.name = n /\ c.res = k /\ c.port = q
      BY <3>1, IdleIsOp DEF Op, OpKinds, a, p, q
    <3>3. QED
      BY <3>2, IdleIsOp DEF p, q
  <2> HIDE DEF c
  <2>3. QED
    BY <1>0, <2>1, <2>2 DEF OpOf
<1>2. Begin(o, c) /\ UNCHANGED <<store, world, made, mishaps, raced, frozen>>
  BY DEF CreateBegins
<1> HIDE DEF c
<1>3. Ops' /\ begun' \in 0..MaxBegun /\ spoiled' \subseteq Names
  BY <1>0, <1>1, <1>2, BeginBase
<1>4. Rows' /\ Kept(rows', rows) /\ Boxes' /\ Disk'
  BY <1>0, <1>2, Stays DEF world
<1>5. Count'
  BY <1>0, <1>2, <1>3 DEF Count
<1>6. QED
  BY <1>3, <1>4, <1>5 DEF Base

LEMMA BuildBase ==
    ASSUME Base, NEW o \in Slots, Build(o)
    PROVE  Base' /\ Kept(rows', rows)
<1>0. /\ Count /\ Disk /\ made \in Nat /\ made' = made /\ made' >= made /\ Ops
      /\ OpOf(op[o], made) /\ op[o].name \in Names
  BY Given DEF Build, Has
<1>1. Ops'
  <2>1. op' = [op EXCEPT ![o] = [op[o] EXCEPT !.at = "probe"]] \/ op' = [op EXCEPT ![o] = Idle]
    BY DEF Build, Go, Done
  <2>2. OpOf([op[o] EXCEPT !.at = "probe"], made')
    <3> DEFINE d == [op[o] EXCEPT !.at = "probe"]
    <3>0. op[o] \in Op /\ op[o].kind = "create" /\ op[o].at = "build"
      BY <1>0 DEF OpOf, Build, Has
    <3>1. d \in Op /\ d.at = "probe" /\ d.id = op[o].id /\ d.project = op[o].project
          /\ d.todo = op[o].todo /\ d.kind = op[o].kind /\ d.name = op[o].name
          /\ d.res = op[o].res /\ d.port = op[o].port
      BY <3>0 DEF Op, Ats
    <3> HIDE DEF d
    <3>2. OpOf(d, made)
      BY <1>0, <3>0, <3>1 DEF OpOf, Planned
    <3>3. QED
      BY <1>0, <3>2 DEF d
  <2>3. OpOf(Idle, made')
    BY <1>0, OpMoves DEF Build, Has
  <2>4. QED
    BY <1>0, <2>1, <2>2, <2>3, OneOp
<1>2. Rows' /\ Kept(rows', rows) /\ Boxes'
  BY <1>0, Stays DEF Build
<1>3. Disk'
  BY <1>0 DEF Build, Disk, Kinds
<1>4. Count'
  <2>1. mishaps' \in 0..MaxMishaps
    BY <1>0, Mishap DEF Build, Count
  <2>2. QED
    BY <1>0, <2>1 DEF Build, Count
<1>5. QED
  BY <1>1, <1>2, <1>3, <1>4 DEF Base

LEMMA InsertsBase ==
    ASSUME Base, NEW o \in Slots, Inserts(o)
    PROVE  Base'
<1> DEFINE c == op[o]
           n == [id |-> made + 1, project |-> c.project, name |-> c.name, kind |-> c.res,
                 state |-> "creating", port |-> c.port,
                 seed |-> IF c.kind = "create" THEN made + 1 ELSE Copied]
<1>0. /\ Rows /\ Ops /\ Count /\ Disk /\ made \in Nat /\ OpOf(c, made) /\ c \in Op
      /\ c.name \in Names /\ c.kind # "idle"
  BY Given DEF Inserts, Has
<1>1. c.at = "probe" /\ c.res \in Kinds /\ c.port \in Ports /\ c.project \in 1..made
  <2>1. c.at = "probe"
    BY DEF Inserts, Has
  <2>2. c.project \in Nat /\ c.project # 0 /\ c.project <= made
    BY <1>0, <2>1, OpFields DEF OpOf, Planned
  <2>3. QED
    BY <1>0, <2>1, <2>2 DEF OpOf, Planned
<1>2. CASE UNCHANGED <<rows, made, dir, raced>> /\ Done(o)
  <2>1. made' \in Nat /\ made' >= made
    BY <1>0, <1>2
  <2>2. Ops'
    BY <1>0, <1>2, <2>1, OneOp, OpMoves DEF Done
  <2>3. Rows' /\ Boxes' /\ Disk'
    BY <1>2, <2>1, Stays DEF Inserts
  <2>4. Count'
    BY <1>0, <1>2 DEF Inserts, Count
  <2>5. QED
    BY <2>2, <2>3, <2>4 DEF Base
<1>3. CASE /\ made' = made + 1
           /\ rows' = rows \cup {n}
           /\ dir' = [dir EXCEPT ![c.name] = @ \cup {c.res}]
           /\ raced' = IF c.beside THEN raced \cup {made + 1} ELSE raced
           /\ op' = [s \in Slots |->
               IF s = o THEN [op[s] EXCEPT !.at = "network", !.id = made + 1]
               ELSE [op[s] EXCEPT !.beside = @ \/ op[s].at \in {"build", "probe"}]]
  <2>0. made' = made + 1
    BY <1>3
  <2>1. made' \in Nat /\ made' >= made /\ 1..made \subseteq 1..made' /\ made' \in 1..made'
    BY <1>0, <2>0
  <2>2. Rows'
    <3>0. rows' = rows \cup {n}
      BY <1>3
    <3>1. n \in Row /\ n.id = made + 1 /\ n.project = c.project
      BY <1>0, <1>1 DEF Row, States
    <3> HIDE DEF n
    <3>2. RowOf(n, made')
      BY <1>1, <2>0, <2>1, <3>1 DEF RowOf
    <3>3. \A r \in rows : RowOf(r, made')
      BY <1>0, <2>1 DEF Rows, RowOf
    <3>4. \A r \in rows : r.id # made'
      BY <1>0, <2>0 DEF Rows, RowOf
    <3>5. QED
      BY <1>0, <2>0, <3>0, <3>1, <3>2, <3>3, <3>4 DEF Rows
  <2> HIDE DEF n
  <2>3. Ops'
    <3>1. ASSUME NEW s \in Slots PROVE OpOf(op'[s], made')
      <4> DEFINE d == op[s]
      <4>0. OpOf(d, made) /\ d \in Op /\ d.id <= made /\ d.project <= made
            /\ d.todo \subseteq (1..made) \X Kinds /\ d.id \in Nat /\ d.project \in Nat
        BY <1>0, OpFields DEF Ops, OpOf
      <4>1. CASE s = o
        <5> DEFINE e == [d EXCEPT !.at = "network", !.id = made + 1]
        <5>1. e \in Op /\ e.at = "network" /\ e.id = made + 1 /\ e.project = d.project
              /\ e.todo = d.todo /\ e.kind = d.kind /\ e.name = d.name
          <6>1. made + 1 \in Nat /\ d \in Op
            BY <1>0, <4>0
          <6> HIDE DEF d
          <6>2. QED
            BY <6>1 DEF Op, Ats
        <5>2. op'[s] = e
          BY <1>3, <4>1
        <5> HIDE DEF e, d
        <5>3. e.id <= made' /\ e.project <= made'
          <6>1. d.project \in Nat /\ d.project <= made
            BY <4>0
          <6>2. QED
            BY <1>0, <2>0, <5>1, <6>1
        <5>4. e.kind # "idle" /\ e.name \in Names
          BY <1>0, <4>1, <5>1 DEF d
        <5>5. OpOf(e, made')
          BY <2>1, <4>0, <5>1, <5>3, <5>4 DEF OpOf, Planned
        <5>6. QED
          BY <5>2, <5>5
      <4>2. CASE s # o
        <5> DEFINE b == d.beside \/ d.at \in {"build", "probe"}
                   e == [d EXCEPT !.beside = b]
        <5>1. op'[s] = e
          BY <1>3, <4>2
        <5>2. d.kind = "idle" => d = Idle /\ e = Idle
          <6>1. d.kind = "idle" => d = Idle
            BY <4>0 DEF OpOf
          <6>2. [Idle EXCEPT !.beside = FALSE] = Idle
            BY IdleIsOp DEF Op
          <6>3. Idle.at \notin {"build", "probe"} /\ Idle.beside = FALSE
            BY IdleIsOp
          <6>4. QED
            BY <6>1, <6>2, <6>3
        <5>3. e \in Op /\ e.at = d.at /\ e.id = d.id /\ e.project = d.project /\ e.res = d.res
              /\ e.todo = d.todo /\ e.kind = d.kind /\ e.name = d.name /\ e.port = d.port
          <6>1. b \in BOOLEAN
            OBVIOUS
          <6> HIDE DEF b
          <6>2. QED
            BY <4>0, <6>1 DEF Op
        <5> HIDE DEF e, d
        <5>4. e.id <= made' /\ e.project <= made'
          <6>1. d.project \in Nat /\ d.project <= made /\ d.id \in Nat /\ d.id <= made
            BY <4>0
          <6>2. QED
            BY <1>0, <2>0, <5>3, <6>1
        <5>5. OpOf(e, made')
          BY <2>1, <4>0, <5>2, <5>3, <5>4 DEF OpOf
        <5>6. QED
          BY <5>1, <5>5
      <4>3. QED
        BY <4>1, <4>2
    <3>2. op' = [s \in Slots |-> op'[s]]
      BY <1>3
    <3>3. QED
      BY <3>1, <3>2 DEF Ops
  <2>4. Boxes'
    BY <2>1, Stays DEF Inserts
  <2>5. Disk'
    <3>1. dir' = [dir EXCEPT ![c.name] = @ \cup {c.res}] /\ UNCHANGED <<net, data>>
      BY <1>3 DEF Inserts
    <3>2. 0..made \subseteq 0..made'
      BY <1>0, <2>0
    <3>3. QED
      BY <1>0, <1>1, <3>1, <3>2 DEF Disk
  <2>6. Count'
    <3>1. UNCHANGED <<project, released, begun, mishaps, spoiled, frozen>>
      BY DEF Inserts
    <3>2. raced' \subseteq raced \cup {made'}
      BY <1>3, <2>0
    <3>3. 0..made \subseteq 0..made'
      BY <1>0, <2>0
    <3>4. QED
      BY <1>0, <2>1, <3>1, <3>2, <3>3 DEF Count
  <2>7. QED
    BY <2>2, <2>3, <2>4, <2>5, <2>6 DEF Base
<1>4. QED
  BY <1>2, <1>3 DEF Inserts

\* What an operation that goes on changes: the stage it is at, one container, a history.
LEMMA OneMoves ==
    ASSUME Base, NEW o \in Slots, op[o].kind # "idle", UNCHANGED made,
           \/ Done(o)
           \/ \E at \in Ats \ Planned : Go(o, at) \/ \E b \in BOOLEAN : Hit(o, at, b)
    PROVE  Ops'
<1>0. Ops /\ made \in Nat /\ made' \in Nat /\ made' >= made /\ OpOf(op[o], made)
  BY Given
<1>1. CASE Done(o)
  BY <1>0, <1>1, OpMoves, OneOp DEF Done
<1>2. CASE \E at \in Ats \ Planned : Go(o, at)
  <2>1. PICK at \in Ats \ Planned : op' = [op EXCEPT ![o] = [op[o] EXCEPT !.at = at]]
    BY <1>2 DEF Go
  <2>2. OpOf([op[o] EXCEPT !.at = at], made')
    BY <1>0, OpMoves
  <2>3. QED
    BY <1>0, <2>1, <2>2, OneOp
<1>3. CASE \E at \in Ats \ Planned, b \in BOOLEAN : Hit(o, at, b)
  <2>1. PICK at \in Ats \ Planned, b \in BOOLEAN : Hit(o, at, b)
    BY <1>3
  <2> DEFINE bad == op[o].bad \/ b
  <2>2. bad \in BOOLEAN
    OBVIOUS
  <2>3. op' = [op EXCEPT ![o] = [op[o] EXCEPT !.at = at, !.bad = bad]]
    BY <2>1 DEF Hit
  <2> HIDE DEF bad
  <2>4. OpOf([op[o] EXCEPT !.at = at, !.bad = bad], made')
    BY <1>0, <2>2, OpMoves
  <2>5. QED
    BY <1>0, <2>3, <2>4, OneOp
<1>4. QED
  BY <1>1, <1>2, <1>3

\* The numbers an operation holds.
LEMMA OpRange ==
    ASSUME Base, NEW o \in Slots
    PROVE  /\ op[o].id \in 0..made /\ op[o].project \in 0..made
           /\ op[o].port \in Ports \cup {None} /\ op[o].res \in Kinds \cup {""}
           /\ op[o].todo \in SUBSET ((1..made) \X Kinds)
<1> DEFINE c == op[o]
<1>1. c \in Op /\ OpOf(c, made) /\ made \in Nat
  BY Given
<1> HIDE DEF c
<1>2. c.id \in Nat /\ c.project \in Nat /\ c.port \in Ports \cup {None}
      /\ c.res \in Kinds \cup {""}
  BY <1>1, OpFields
<1>3. c.id <= made /\ c.project <= made /\ c.todo \in SUBSET ((1..made) \X Kinds)
  BY <1>1 DEF OpOf
<1>4. c.id \in 0..made /\ c.project \in 0..made
  <2>1. made \in Nat /\ c.id \in Nat /\ c.project \in Nat /\ c.id <= made /\ c.project <= made
    BY <1>1, <1>2, <1>3
  <2>2. QED
    BY ONLY <2>1
<1>5. QED
  BY <1>2, <1>3, <1>4 DEF c

LEMMA OneBox ==
    ASSUME Base, UNCHANGED made, NEW n \in Names, NEW k,
           \/ UNCHANGED box
           \/ \E up \in BOOLEAN : SetBox(n, k, [box[n][k] EXCEPT !.up = up])
           \/ \E i \in 0..made, p \in Ports \cup {None} : SetBox(n, k, [whose |-> i, port |-> p, up |-> FALSE])
           \/ SetBox(n, k, Gone) \/ SetBox(n, k, box[n][k])
    PROVE  Boxes'
<1>0. Boxes /\ made \in Nat /\ made' \in Nat /\ made' >= made
  BY Given
<1>1. CASE UNCHANGED box
  BY <1>0, <1>1, BoxesSame
<1>2. CASE ~UNCHANGED box
  <2>1. PICK b : SetBox(n, k, b) /\ (k \in Kinds => BoxOf(b, made))
    BY <1>0, <1>2, BoxKinds
  <2>2. QED
    BY <1>0, <2>1, BoxSet
<1>3. QED
  BY <1>1, <1>2

LEMMA SameCount ==
    ASSUME Base, UNCHANGED <<made, raced>>, begun' \in 0..MaxBegun, Fault \/ UNCHANGED mishaps,
           UNCHANGED project \/ \E n \in Names : project' = [project EXCEPT ![n] = None],
           released' \subseteq Names, spoiled' \subseteq Names, frozen' \subseteq Names
    PROVE  Count'
<1>1. Count /\ made \in Nat
  BY Given
<1>2. project' \in [Names -> 0..made']
  BY <1>1 DEF Count
<1>3. QED
  BY <1>1, <1>2, Mishap DEF Count

LEMMA NetworkBase ==
    ASSUME Base, NEW o \in Slots, Network(o)
    PROVE  Base' /\ Kept(rows', rows)
<1>0. /\ Disk /\ Count /\ op[o].kind # "idle" /\ op[o].name \in Names
      /\ UNCHANGED <<project, released, box, dir, data, begun, made, raced, frozen>>
  BY Given DEF Network, Has
<1>1. Rows' /\ Kept(rows', rows) /\ Ops' /\ spoiled' \subseteq Names
  <2>1. CASE Go(o, "container") /\ UNCHANGED <<rows, spoiled>>
    BY <1>0, <2>1, OneMoves, Stays, Given DEF Ats, Planned, Count
  <2>2. CASE Fails(o)
    BY <1>0, <2>2, FailsBase
  <2>3. QED
    BY <2>1, <2>2 DEF Network
<1>2. Boxes' /\ Disk'
  BY <1>0, Stays, Given DEF Network, Disk
<1>3. Count'
  BY <1>0, <1>1, SameCount DEF Network, Count
<1>4. QED
  BY <1>1, <1>2, <1>3 DEF Base

LEMMA ContainerBase ==
    ASSUME Base, NEW o \in Slots, Container(o)
    PROVE  Base' /\ Kept(rows', rows)
<1> DEFINE n == op[o].name
           k == op[o].res
<1>0. /\ Disk /\ Count /\ op[o].kind # "idle" /\ n \in Names /\ Rows /\ made \in Nat
      /\ made' \in Nat /\ made' >= made
      /\ UNCHANGED <<project, released, net, dir, data, begun, made, raced, frozen>>
  BY Given DEF Container, Has
<1>1. Rows' /\ Kept(rows', rows) /\ Ops' /\ spoiled' \subseteq Names
  <2>1. CASE Go(o, "start") /\ UNCHANGED <<rows, spoiled>>
    BY <1>0, <2>1, OneMoves, Stays, Given DEF Ats, Planned, Count
  <2>2. CASE Done(o) /\ rows' = Mark({op[o].id}, "sleeping") /\ UNCHANGED spoiled
    BY <1>0, <2>2, OneMoves, MarkedRows DEF States, Count
  <2>3. CASE Fails(o)
    BY <1>0, <2>3, FailsBase
  <2>4. QED
    BY <2>1, <2>2, <2>3 DEF Container
<1>2. Boxes'
  <2> DEFINE b == [whose |-> op[o].id, port |-> op[o].port, up |-> FALSE]
  <2>1. UNCHANGED box \/ SetBox(n, k, IF box[n][k] # Gone THEN box[n][k] ELSE b)
    BY DEF Container
  <2>2. op[o].id \in 0..made /\ op[o].port \in Ports \cup {None}
    BY OpRange
  <2>3. UNCHANGED box \/ SetBox(n, k, box[n][k]) \/ SetBox(n, k, b)
    BY <2>1
  <2>4. QED
    BY <1>0, <2>2, <2>3, OneBox
<1>3. Disk'
  BY <1>0, Stays, Given
<1>4. Count'
  BY <1>0, <1>1, SameCount DEF Container, Count
<1>5. QED
  BY <1>1, <1>2, <1>3, <1>4 DEF Base

LEMMA StartedBase ==
    ASSUME Base, UNCHANGED <<made, net, dir>>, NEW n \in Names, NEW k \in Kinds \cup {""},
           CanStart(n, k), Started(n, k)
    PROVE  Boxes' /\ Disk'
<1>0. Boxes /\ Disk /\ made \in Nat
  BY Given
<1>1. Boxes'
  BY OneBox DEF Started
<1>2. Disk'
  <2>1. CASE UNCHANGED data
    BY <1>0, <2>1 DEF Disk
  <2>2. CASE k = "db" /\ data' = [data EXCEPT ![n] = box[n][k].whose]
    <3>1. BoxOf(box[n][k], made)
      BY <1>0, <2>2 DEF Boxes, Kinds
    <3> DEFINE i == box[n][k].whose
    <3>2. i \in 0..made
      <4>1. i \in Nat /\ i <= made
        BY <3>1 DEF BoxOf, Box
      <4> HIDE DEF i
      <4>2. QED
        BY <1>0, <4>1, InRange
    <3> HIDE DEF i
    <3>3. data' = [data EXCEPT ![n] = i]
      BY <2>2 DEF i
    <3>4. QED
      BY <1>0, <3>2, <3>3 DEF Disk
  <2>3. QED
    BY <2>1, <2>2 DEF Started
<1>3. QED
  BY <1>1, <1>2

LEMMA StartsBase ==
    ASSUME Base, NEW o \in Slots, Starts(o)
    PROVE  Base' /\ Kept(rows', rows)
<1> DEFINE n == op[o].name
           k == op[o].res
<1>0. /\ Disk /\ Count /\ op[o].kind # "idle" /\ n \in Names /\ made \in Nat
      /\ UNCHANGED <<project, released, net, dir, begun, made, raced, frozen>>
  BY Given DEF Starts, Has
<1>1. Rows' /\ Kept(rows', rows) /\ Ops' /\ spoiled' \subseteq Names
  <2>1. CASE Go(o, "ready") /\ UNCHANGED <<rows, spoiled>>
    BY <1>0, <2>1, OneMoves, Stays, Given DEF Ats, Planned, Count
  <2>2. CASE Fails(o)
    BY <1>0, <2>2, FailsBase
  <2>3. QED
    BY <2>1, <2>2 DEF Starts
<1>2. Boxes' /\ Disk'
  <2>1. CASE CanStart(n, k) /\ Started(n, k)
    BY <1>0, <2>1, StartedBase, OpRange
  <2>2. CASE UNCHANGED <<box, data>>
    BY <1>0, <2>2, Stays
  <2>3. QED
    BY <2>1, <2>2 DEF Starts
<1>3. Count'
  BY <1>0, <1>1, SameCount DEF Starts, Count
<1>4. QED
  BY <1>1, <1>2, <1>3 DEF Base

LEMMA ReadyBase ==
    ASSUME Base, NEW o \in Slots, Ready(o)
    PROVE  Base' /\ Kept(rows', rows)
<1>0. /\ Count /\ op[o].kind # "idle" /\ made \in Nat
      /\ UNCHANGED <<project, released, world, begun, made, raced, frozen>>
  BY Given DEF Ready, Has
<1>1. Rows' /\ Kept(rows', rows) /\ Ops' /\ spoiled' \subseteq Names
  <2>1. CASE Go(o, "stop") /\ UNCHANGED <<rows, spoiled>>
    BY <1>0, <2>1, OneMoves, Stays, Given DEF Ats, Planned, Count
  <2>2. CASE Fails(o)
    BY <1>0, <2>2, FailsBase
  <2>3. QED
    BY <2>1, <2>2 DEF Ready
<1>2. Boxes' /\ Disk'
  BY <1>0, Stays DEF world
<1>3. Fault \/ UNCHANGED mishaps
  BY DEF Ready
<1>4. Count'
  BY <1>0, <1>1, <1>3, SameCount DEF Count
<1>5. QED
  BY <1>1, <1>2, <1>4 DEF Base

LEMMA RestsBase ==
    ASSUME Base, NEW o \in Slots, Rests(o)
    PROVE  Base' /\ Kept(rows', rows)
<1> DEFINE n == op[o].name
           k == op[o].res
<1>0. /\ Rows /\ Count /\ op[o].kind # "idle" /\ made \in Nat /\ n \in Names
      /\ made' \in Nat /\ made' >= made
      /\ UNCHANGED <<project, released, net, dir, data, begun, made, raced, frozen>>
  BY Given DEF Rests, Has
<1>1. Rows' /\ Kept(rows', rows) /\ Ops' /\ spoiled' \subseteq Names
  <2>1. CASE Done(o) /\ rows' = Mark({op[o].id}, "sleeping") /\ UNCHANGED spoiled
    BY <1>0, <2>1, OneMoves, MarkedRows DEF States, Count
  <2>2. CASE Fails(o)
    BY <1>0, <2>2, FailsBase
  <2>3. QED
    BY <2>1, <2>2 DEF Rests
<1>2. Boxes'
  <2>1. UNCHANGED box \/ SetBox(n, k, [box[n][k] EXCEPT !.up = FALSE])
    BY DEF Rests, Down
  <2>2. QED
    BY <1>0, <2>1, OneBox
<1>3. Disk'
  BY <1>0, Stays
<1>4. Count'
  BY <1>0, <1>1, SameCount DEF Rests, Count
<1>5. QED
  BY <1>1, <1>2, <1>3, <1>4 DEF Base

LEMMA UndoBase ==
    ASSUME Base, NEW o \in Slots, Undo(o)
    PROVE  Base' /\ Kept(rows', rows)
<1>0. /\ Count /\ op[o].kind # "idle" /\ made \in Nat /\ op[o].name \in Names
      /\ UNCHANGED <<store, net, dir, data, begun, made, raced, frozen>>
  BY Given DEF Undo, Has
<1>1. Rows' /\ Kept(rows', rows) /\ Ops' /\ Disk'
  BY <1>0, OneMoves, Stays DEF Undo
<1>2. Boxes'
  BY <1>0, OneBox DEF Undo
<1>3. spoiled' \subseteq Names /\ (Fault \/ UNCHANGED mishaps)
  BY <1>0 DEF Undo, Spoil, Count
<1>4. Count'
  BY <1>0, <1>3, SameCount DEF Count
<1>5. QED
  BY <1>1, <1>2, <1>4 DEF Base

LEMMA BranchBeginsBase ==
    ASSUME Base, NEW o \in Slots, NEW a \in Names, NEW b \in Names, BranchBegins(o, a, b)
    PROVE  Base' /\ Kept(rows', rows)
<1> DEFINE c == [Idle EXCEPT !.kind = "branch", !.at = "clone", !.name = b, !.res = "db",
                             !.project = made + 1]
<1>0. /\ Count /\ made \in Nat /\ made' = made + 1
      /\ UNCHANGED <<released, rows, world, mishaps, raced, frozen>>
      /\ project' = [project EXCEPT ![b] = made + 1]
  BY Given DEF BranchBegins
<1>1. made' \in Nat /\ made' >= made /\ 0..made \subseteq 0..made' /\ made' \in 0..made'
      /\ 1..made \subseteq 1..made'
  BY <1>0
<1>2. OpOf(c, made') /\ c.name = b
  <2> DEFINE p == made + 1
  <2>0. p \in Nat /\ p \in 0..made'
    BY <1>0, <1>1
  <2> HIDE DEF p
  <2>1. c \in Op /\ c.id = Idle.id /\ c.project = p /\ c.todo = Idle.todo
        /\ c.kind = "branch" /\ c.name = b /\ c.at = "clone" /\ c.res = "db"
    BY <2>0, IdleIsOp DEF Op, OpKinds, Ats, Kinds, p
  <2> HIDE DEF c
  <2>2. c.id = 0 /\ c.todo = {}
    BY <2>1, IdleIsOp
  <2>3. c.id <= made' /\ c.project <= made' /\ c.project # 0
    BY <1>0, <1>1, <2>0, <2>1, <2>2 DEF p
  <2>4. QED
    BY <2>1, <2>2, <2>3 DEF OpOf, Planned, Kinds
<1>3. Begin(o, c)
  BY DEF BranchBegins
<1> HIDE DEF c
<1>4. Ops' /\ begun' \in 0..MaxBegun /\ spoiled' \subseteq Names
  BY <1>1, <1>2, <1>3, BeginBase
<1>5. Rows' /\ Kept(rows', rows) /\ Boxes' /\ Disk'
  BY <1>0, <1>1, Stays DEF world
<1>6. Count'
  BY <1>0, <1>1, <1>4 DEF Count
<1>7. QED
  BY <1>4, <1>5, <1>6 DEF Base

LEMMA RestoreBeginsBase ==
    ASSUME Base, NEW o \in Slots, NEW b \in Names, RestoreBegins(o, b)
    PROVE  Base' /\ Kept(rows', rows)
<1> DEFINE c == [Idle EXCEPT !.kind = "restore", !.at = "clone", !.name = b, !.res = "db"]
<1>0. /\ Count /\ made \in Nat /\ UNCHANGED <<store, world, made, mishaps, raced, frozen>>
      /\ made' \in Nat /\ made' >= made
  BY Given DEF RestoreBegins
<1>1. OpOf(c, made') /\ c.name = b
  <2>1. c \in Op /\ c.id = Idle.id /\ c.project = Idle.project /\ c.todo = Idle.todo
        /\ c.kind = "restore" /\ c.name = b /\ c.at = "clone" /\ c.res = "db"
    BY IdleIsOp DEF Op, OpKinds, Ats, Kinds
  <2> HIDE DEF c
  <2>2. c.id = 0 /\ c.project = 0 /\ c.todo = {}
    BY <2>1, IdleIsOp
  <2>3. c.id <= made' /\ c.project <= made'
    BY <1>0, <2>2
  <2>4. QED
    BY <2>1, <2>2, <2>3 DEF OpOf, Planned, Kinds
<1>2. Begin(o, c)
  BY DEF RestoreBegins
<1> HIDE DEF c
<1>3. Ops' /\ begun' \in 0..MaxBegun /\ spoiled' \subseteq Names
  BY <1>0, <1>1, <1>2, BeginBase
<1>4. Rows' /\ Kept(rows', rows) /\ Boxes' /\ Disk'
  BY <1>0, Stays DEF world
<1>5. Count'
  BY <1>0, <1>3, SameCount DEF Count
<1>6. QED
  BY <1>3, <1>4, <1>5 DEF Base

LEMMA ClonedBase ==
    ASSUME Base, NEW o \in Slots, Cloned(o)
    PROVE  Base' /\ Kept(rows', rows)
<1> DEFINE n == op[o].name
           onward(p) == op' = [op EXCEPT ![o] = [@ EXCEPT !.at = "probe", !.project = p,
                                                          !.port = Least(Free)]]
<1>0. /\ Count /\ Disk /\ Ops /\ made \in Nat /\ n \in Names /\ OpOf(op[o], made)
      /\ op[o].kind \in {"branch", "restore"} /\ op[o].at = "clone"
      /\ UNCHANGED <<released, rows, box, net, begun, raced, frozen>>
  BY Given DEF Cloned, Has
<1>1. (made' = made /\ UNCHANGED project)
        \/ (made' = made + 1 /\ project' = [project EXCEPT ![n] = made + 1])
  BY DEF Cloned
<1>2. made' \in Nat /\ made' >= made /\ 0..made \subseteq 0..made' /\ 1..made \subseteq 1..made'
  BY <1>0, <1>1
<1>3. Rows' /\ Kept(rows', rows) /\ Boxes'
  BY <1>0, <1>2, Stays
<1>4. Disk'
  <2>1. /\ dir' = [dir EXCEPT ![n] = @ \cup {"db"}] /\ UNCHANGED net
        /\ UNCHANGED data \/ data' = [data EXCEPT ![n] = Copied]
    BY DEF Cloned
  <2>2. QED
    BY <1>0, <1>2, <2>1 DEF Disk, Kinds
<1>5. Count'
  <2>1. spoiled' \subseteq Names
    <3>1. UNCHANGED spoiled \/ \E when \in BOOLEAN : Spoil(n, when)
      BY DEF Cloned
    <3>2. QED
      BY <1>0, <3>1 DEF Count, Spoil
  <2>2. mishaps' \in 0..MaxMishaps
    <3>1. Fault \/ UNCHANGED mishaps
      BY DEF Cloned
    <3>2. QED
      BY <3>1, Mishap
  <2>3. project' \in [Names -> 0..made']
    <3>1. made' = made + 1 => made + 1 \in 0..made'
      BY <1>0
    <3>2. QED
      BY <1>0, <1>1, <1>2, <3>1 DEF Count
  <2>4. QED
    BY <1>0, <1>2, <2>1, <2>2, <2>3 DEF Count
<1>6. Ops'
  <2>1. ASSUME NEW p \in 1..made', onward(p) PROVE Ops'
    <3> DEFINE q == Least(Free)
               c == [op[o] EXCEPT !.at = "probe", !.project = p, !.port = q]
    <3>1. q \in Ports
      BY FreeIsPort DEF Cloned
    <3>2. op[o] \in Op /\ p \in Nat /\ p # 0 /\ p <= made'
      BY <1>0, <1>2 DEF OpOf
    <3>3. op' = [op EXCEPT ![o] = c]
      BY <2>1
    <3> HIDE DEF q
    <3>4. c \in Op /\ c.id = op[o].id /\ c.project = p /\ c.todo = op[o].todo /\ c.at = "probe"
          /\ c.kind = op[o].kind /\ c.name = n /\ c.res = op[o].res /\ c.port = q
      BY <3>1, <3>2 DEF Op, Ats
    <3> HIDE DEF c
    <3>5. c.id <= made' /\ c.todo \subseteq (1..made') \X Kinds
      <4>1. op[o].id \in 0..made /\ op[o].todo \subseteq (1..made) \X Kinds
        BY OpRange
      <4>2. QED
        BY <1>2, <3>4, <4>1
    <3>6. op[o].res \in Kinds
      BY <1>0 DEF OpOf, Planned
    <3>7. OpOf(c, made')
      BY <1>0, <3>1, <3>2, <3>4, <3>5, <3>6 DEF OpOf, Planned
    <3>8. QED
      BY <1>0, <1>2, <3>3, <3>7, OneOp
  <2>2. CASE made' = made /\ Done(o)
    BY <1>0, <2>2, OneMoves
  <2>3. CASE /\ made' = made
             /\ op' = [op EXCEPT ![o] = [op[o] EXCEPT !.kind = "discard", !.at = "remove"]]
    <3>1. OpOf([op[o] EXCEPT !.kind = "discard", !.at = "remove"], made')
      BY <1>0, <2>3, OpMoves
    <3>2. QED
      BY <1>0, <1>2, <2>3, <3>1, OneOp
  <2>4. QED
    <3>1. op[o].kind = "branch" => op[o].project \in 1..made
      <4>1. op[o].project \in 0..made
        BY OpRange
      <4>2. op[o].kind = "branch" => op[o].project # 0
        BY <1>0 DEF OpOf, Planned
      <4>3. QED
        BY <1>0, <4>1, <4>2
    <3>2. made' = made + 1 => made + 1 \in 1..made'
      BY <1>0
    <3>3. QED
      BY <1>0, <2>1, <2>2, <2>3, <3>1, <3>2 DEF Cloned, Done
<1>7. QED
  BY <1>3, <1>4, <1>5, <1>6 DEF Base

\* What deleting a project's rows leaves.
LEMMA DeleteBase ==
    ASSUME Base, UNCHANGED made, NEW n \in Names, NEW p, DeleteProject(n, p)
    PROVE  /\ Rows' /\ Kept(rows', rows)
           /\ UNCHANGED project \/ project' = [project EXCEPT ![n] = None]
           /\ released' \subseteq Names
<1>0. Rows /\ Count /\ made \in Nat /\ made' \in Nat /\ made' >= made
  BY Given
<1>1. Rows' /\ Kept(rows', rows)
  BY <1>0, FewerRows DEF DeleteProject
<1>2. UNCHANGED project \/ project' = [project EXCEPT ![n] = None]
  BY <1>0 DEF DeleteProject, Count
<1>3. released' \subseteq Names
  BY <1>0 DEF DeleteProject, Count
<1>4. QED
  BY <1>1, <1>2, <1>3

LEMMA RmBeginsBase ==
    ASSUME Base, NEW o \in Slots, NEW n \in Names, NEW r \in rows, RmBegins(o, n, r)
    PROVE  Base' /\ Kept(rows', rows)
<1> DEFINE c == [Idle EXCEPT !.kind = "rm", !.at = "stop", !.name = n, !.res = r.kind,
                             !.id = r.id]
<1>0. /\ Rows /\ Count /\ made \in Nat /\ made' \in Nat /\ made' >= made
      /\ UNCHANGED <<project, released, world, made, mishaps, raced, frozen>>
  BY Given DEF RmBegins
<1>1. OpOf(c, made') /\ c.name = n
  <2>1. r.id \in Nat /\ r.kind \in Kinds /\ r.id \in 1..made
    BY <1>0 DEF Rows, RowOf, Row
  <2>2. c \in Op /\ c.id = r.id /\ c.project = Idle.project /\ c.todo = Idle.todo
        /\ c.kind = "rm" /\ c.name = n /\ c.at = "stop"
    BY <2>1, IdleIsOp DEF Op, OpKinds, Ats
  <2> HIDE DEF c
  <2>3. c.project = 0 /\ c.todo = {}
    BY <2>2, IdleIsOp
  <2>4. c.id \in 0..made' /\ c.project \in 0..made'
    BY <1>0, <2>1, <2>2, <2>3
  <2>5. QED
    BY <1>0, <2>2, <2>3, <2>4, PlainOp DEF Planned
<1>2. Begin(o, c) /\ rows' = Mark({r.id}, "destroying")
  BY DEF RmBegins
<1> HIDE DEF c
<1>3. Ops' /\ begun' \in 0..MaxBegun /\ spoiled' \subseteq Names
  BY <1>0, <1>1, <1>2, BeginBase
<1>4. Rows' /\ Kept(rows', rows) /\ Boxes' /\ Disk'
  BY <1>0, <1>2, Stays, MarkedRows DEF world, States
<1>5. Count'
  BY <1>0, <1>3, SameCount DEF Count
<1>6. QED
  BY <1>3, <1>4, <1>5 DEF Base

\* What is listed for a removal or a hand-over.
LEMMA ListedRows ==
    ASSUME Base, NEW R \in SUBSET rows
    PROVE  {<<r.id, r.kind>> : r \in R} \in SUBSET ((1..made) \X Kinds)
<1>1. \A r \in rows : r.id \in 1..made /\ r.kind \in Kinds
  BY Given DEF Rows, RowOf, Row
<1>2. QED
  BY <1>1

LEMMA RmProjectBeginsBase ==
    ASSUME Base, NEW o \in Slots, NEW n \in Names, RmProjectBegins(o, n)
    PROVE  Base' /\ Kept(rows', rows)
<1> DEFINE d == [Idle EXCEPT !.kind = IF n \in released THEN "forget" ELSE "rmProject",
                             !.name = n, !.project = project[n]]
           todo == {<<r.id, r.kind>> : r \in RowsOf(project[n])}
           c == Take(d, todo)
<1>0. /\ Rows /\ Count /\ made \in Nat /\ made' \in Nat /\ made' >= made
      /\ UNCHANGED <<project, released, world, made, mishaps, raced, frozen>>
  BY Given DEF RmProjectBegins
<1>1. OpOf(c, made') /\ c.name = n
  <2>1. project[n] \in 0..made /\ project[n] \in Nat
    BY <1>0 DEF Count
  <2>2. d \in Op /\ d.id = Idle.id /\ d.project = project[n] /\ d.kind # "idle" /\ d.name = n
    <3> DEFINE p == project[n]
               k == IF n \in released THEN "forget" ELSE "rmProject"
    <3>1. p \in Nat /\ k \in OpKinds \ {"idle"}
      BY <2>1 DEF OpKinds
    <3> HIDE DEF p, k
    <3>2. QED
      BY <3>1, IdleIsOp DEF Op, p, k
  <2>3. todo \in SUBSET ((1..made) \X Kinds)
    BY ListedRows DEF RowsOf
  <2> HIDE DEF d, todo
  <2>4. d.id = 0
    BY <2>2, IdleIsOp
  <2>5. /\ made \in Nat /\ d \in Op /\ todo \in SUBSET ((1..made) \X Kinds) /\ d.kind # "idle"
        /\ d.name = n /\ d.id <= made /\ d.project <= made
    BY <1>0, <2>1, <2>2, <2>3, <2>4
  <2>6. OpOf(Take(d, todo), made) /\ Take(d, todo).name = n
    <3>1. OpOf(Take(d, todo), made)
      BY <2>5, TakeIsOp
    <3>2. Take(d, todo).name = d.name
      BY <2>5, TakeKeeps
    <3>3. QED
      BY <2>5, <3>1, <3>2
  <2>7. QED
    BY <1>0, <2>6
<1>2. Begin(o, c) /\ rows' = Mark({c.id}, "destroying")
  BY DEF RmProjectBegins
<1> HIDE DEF c
<1>3. Ops' /\ begun' \in 0..MaxBegun /\ spoiled' \subseteq Names
  BY <1>0, <1>1, <1>2, BeginBase
<1>4. Rows' /\ Kept(rows', rows) /\ Boxes' /\ Disk'
  BY <1>0, <1>2, Stays, MarkedRows DEF world, States
<1>5. Count'
  BY <1>0, <1>3, SameCount DEF Count
<1>6. QED
  BY <1>3, <1>4, <1>5 DEF Base

LEMMA StopBoxBase ==
    ASSUME Base, NEW o \in Slots, StopBox(o)
    PROVE  Base' /\ Kept(rows', rows)
<1> DEFINE n == op[o].name
           k == op[o].res
<1>0. /\ Count /\ op[o].kind # "idle" /\ made \in Nat /\ n \in Names
      /\ UNCHANGED <<project, released, net, dir, data, begun, made, raced, frozen>>
  BY Given DEF StopBox, Has, Removers
<1>1. Rows' /\ Kept(rows', rows) /\ Ops' /\ spoiled' \subseteq Names
  <2>1. CASE UNCHANGED <<rows, spoiled>> /\ \E b \in BOOLEAN : Hit(o, "remove", b)
    BY <1>0, <2>1, OneMoves, Stays, Given DEF Count, Ats, Planned
  <2>2. CASE op[o].kind = "forget" /\ RowGoes(o, TRUE)
    BY <1>0, <2>2, RowGoesBase
  <2>3. QED
    BY <2>1, <2>2 DEF StopBox
<1>2. Boxes'
  <2>1. UNCHANGED box \/ SetBox(n, k, [box[n][k] EXCEPT !.up = FALSE])
    BY DEF StopBox, Down
  <2>2. QED
    BY <1>0, <2>1, OneBox
<1>3. Disk'
  BY <1>0, Stays
<1>4. Count'
  BY <1>0, <1>1, SameCount DEF StopBox, Count
<1>5. QED
  BY <1>1, <1>2, <1>3, <1>4 DEF Base

LEMMA RemoveBoxBase ==
    ASSUME Base, NEW o \in Slots, RemoveBox(o)
    PROVE  Base' /\ Kept(rows', rows)
<1> DEFINE n == op[o].name
           k == op[o].res
<1>0. /\ Count /\ op[o].kind \in {"rm", "rmProject", "forget"} /\ made \in Nat /\ n \in Names
      /\ op[o] \in Op
      /\ UNCHANGED <<project, released, net, dir, data, begun, made, raced, frozen>>
  BY Given DEF RemoveBox, Has
<1>1. Rows' /\ Kept(rows', rows) /\ Ops' /\ spoiled' \subseteq Names
  <2>1. CASE UNCHANGED <<rows, spoiled>> /\ \E b \in BOOLEAN : Hit(o, "wipe", b)
    BY <1>0, <2>1, OneMoves, Stays, Given DEF Count, Ats, Planned
  <2>2. CASE \E b \in BOOLEAN : RowGoes(o, op[o].bad \/ b)
    <3>1. PICK b \in BOOLEAN : RowGoes(o, op[o].bad \/ b)
      BY <2>2
    <3> DEFINE bad == op[o].bad \/ b
    <3>2. bad \in BOOLEAN
      OBVIOUS
    <3>3. RowGoes(o, bad)
      BY <3>1
    <3> HIDE DEF bad
    <3>4. QED
      BY <1>0, <3>2, <3>3, RowGoesBase
  <2>3. QED
    BY <2>1, <2>2 DEF RemoveBox
<1>2. Boxes'
  <2>1. UNCHANGED box \/ SetBox(n, k, Gone)
    BY DEF RemoveBox
  <2>2. QED
    BY <1>0, <2>1, OneBox
<1>3. Disk'
  BY <1>0, Stays
<1>4. Fault \/ UNCHANGED mishaps
  BY DEF RemoveBox
<1>5. Count'
  BY <1>0, <1>1, <1>4, SameCount DEF Count
<1>6. QED
  BY <1>1, <1>2, <1>3, <1>5 DEF Base

LEMMA WipeBase ==
    ASSUME Base, NEW o \in Slots, Wipe(o)
    PROVE  Base' /\ Kept(rows', rows)
<1>0. /\ Count /\ Disk /\ op[o].kind \in {"rm", "rmProject", "forget"} /\ made \in Nat
      /\ op[o].name \in Names /\ op[o].bad \in BOOLEAN
      /\ UNCHANGED <<project, released, box, net, begun, made, raced, frozen>>
  BY Given, OpFields DEF Wipe, Has
<1>1. RowGoes(o, op[o].bad) \/ RowGoes(o, TRUE)
  BY DEF Wipe
<1>2. Rows' /\ Kept(rows', rows) /\ Ops' /\ spoiled' \subseteq Names
  BY <1>0, <1>1, RowGoesBase
<1>3. Boxes'
  BY <1>0, Stays
<1>4. Disk'
  <2>1. /\ UNCHANGED data \/ data' = [data EXCEPT ![op[o].name] = None]
        /\ UNCHANGED dir \/ dir' = [dir EXCEPT ![op[o].name] = @ \ {"db"}]
    BY DEF Wipe
  <2>2. QED
    BY <1>0, <2>1 DEF Disk
<1>5. Fault \/ UNCHANGED mishaps
  BY DEF Wipe
<1>6. Count'
  BY <1>0, <1>2, <1>5, SameCount DEF Count
<1>7. QED
  BY <1>2, <1>3, <1>4, <1>6 DEF Base

LEMMA RemoveNetworkBase ==
    ASSUME Base, NEW o \in Slots, RemoveNetwork(o)
    PROVE  Base' /\ Kept(rows', rows)
<1> DEFINE n == op[o].name
<1>0. /\ Count /\ Disk /\ op[o].kind # "idle" /\ made \in Nat /\ n \in Names
      /\ UNCHANGED <<box, dir, data, begun, made, raced, frozen>>
  BY Given DEF RemoveNetwork, Has
<1>1. Ops'
  <2>1. Done(o) \/ \E b \in BOOLEAN : Hit(o, "directory", b)
    BY DEF RemoveNetwork
  <2>2. QED
    BY <1>0, <2>1, OneMoves DEF Ats, Planned
<1>2. /\ Rows' /\ Kept(rows', rows) /\ released' \subseteq Names
      /\ UNCHANGED project \/ project' = [project EXCEPT ![n] = None]
  <2>1. UNCHANGED store \/ DeleteProject(n, op[o].project)
    BY DEF RemoveNetwork
  <2>2. QED
    BY <1>0, <2>1, Stays, DeleteBase DEF Count
<1>3. Boxes'
  BY <1>0, Stays
<1>4. Disk'
  BY <1>0 DEF RemoveNetwork, Disk
<1>5. (Fault \/ UNCHANGED mishaps) /\ spoiled' \subseteq Names
  BY <1>0 DEF RemoveNetwork, Spoil, Count
<1>6. Count'
  BY <1>0, <1>2, <1>5, SameCount DEF Count
<1>7. QED
  BY <1>1, <1>2, <1>3, <1>4, <1>6 DEF Base

LEMMA RemoveDirectoryBase ==
    ASSUME Base, NEW o \in Slots, RemoveDirectory(o)
    PROVE  Base' /\ Kept(rows', rows)
<1> DEFINE n == op[o].name
<1>0. /\ Count /\ Disk /\ op[o].kind # "idle" /\ made \in Nat /\ n \in Names
      /\ UNCHANGED <<box, net, begun, made, raced, frozen>>
  BY Given DEF RemoveDirectory, Has
<1>1. Ops'
  BY <1>0, OneMoves DEF RemoveDirectory
<1>2. /\ Rows' /\ Kept(rows', rows) /\ released' \subseteq Names
      /\ UNCHANGED project \/ project' = [project EXCEPT ![n] = None]
  BY <1>0, DeleteBase DEF RemoveDirectory
<1>3. Boxes'
  BY <1>0, Stays
<1>4. Disk'
  BY <1>0 DEF RemoveDirectory, Disk
<1>5. (Fault \/ UNCHANGED mishaps) /\ spoiled' \subseteq Names
  BY <1>0 DEF RemoveDirectory, Spoil, Count
<1>6. Count'
  BY <1>0, <1>2, <1>5, SameCount DEF Count
<1>7. QED
  BY <1>1, <1>2, <1>3, <1>4, <1>6 DEF Base

LEMMA DiscardBase ==
    ASSUME Base, NEW o \in Slots, DiscardBox(o) \/ DiscardNetwork(o) \/ DiscardDirectory(o)
    PROVE  Base' /\ Kept(rows', rows)
<1> DEFINE n == op[o].name
<1>0. /\ Count /\ Disk /\ op[o].kind # "idle" /\ made \in Nat /\ n \in Names
      /\ UNCHANGED <<begun, made, raced, frozen>>
  BY Given DEF DiscardBox, DiscardNetwork, DiscardDirectory, Has
<1>1. Ops'
  <2>1. Done(o) \/ Go(o, "network") \/ Go(o, "directory")
    BY DEF DiscardBox, DiscardNetwork, DiscardDirectory
  <2>2. QED
    BY <1>0, <2>1, OneMoves DEF Ats, Planned
<1>2. /\ Rows' /\ Kept(rows', rows) /\ released' \subseteq Names
      /\ UNCHANGED project \/ project' = [project EXCEPT ![n] = None]
  <2>1. UNCHANGED store \/ DeleteProject(n, op[o].project)
    BY DEF DiscardBox, DiscardNetwork, DiscardDirectory
  <2>2. QED
    BY <1>0, <2>1, Stays, DeleteBase DEF Count
<1>3. Boxes'
  <2>1. UNCHANGED box \/ SetBox(n, "db", Gone)
    BY DEF DiscardBox, DiscardNetwork, DiscardDirectory
  <2>2. QED
    BY <1>0, <2>1, OneBox
<1>4. Disk'
  <2>1. /\ UNCHANGED net \/ net' = net \ {n}
        /\ UNCHANGED data \/ data' = [data EXCEPT ![n] = None]
        /\ UNCHANGED dir \/ dir' = [dir EXCEPT ![n] = {}]
    BY DEF DiscardBox, DiscardNetwork, DiscardDirectory
  <2>2. QED
    BY <1>0, <2>1 DEF Disk
<1>5. (Fault \/ UNCHANGED mishaps) /\ spoiled' \subseteq Names
  BY <1>0 DEF DiscardBox, DiscardNetwork, DiscardDirectory, Spoil, Count
<1>6. Count'
  BY <1>0, <1>2, <1>5, SameCount DEF Count
<1>7. QED
  BY <1>1, <1>2, <1>3, <1>4, <1>6 DEF Base

LEMMA EjectBeginsBase ==
    ASSUME Base, NEW o \in Slots, NEW n \in Names, EjectBegins(o, n)
    PROVE  Base' /\ Kept(rows', rows)
<1> DEFINE awake == {<<r.id, r.kind>> : r \in {x \in RowsOf(project[n]) : x.state = "running"}}
           d == [Idle EXCEPT !.kind = "eject", !.name = n, !.project = project[n]]
           c == [Take(d, awake) EXCEPT !.at = "stop"]
<1>0. /\ Rows /\ Ops /\ Count /\ made \in Nat /\ made' \in Nat /\ made' >= made
      /\ UNCHANGED <<project, world, made, mishaps, raced, frozen>>
  BY Given DEF EjectBegins
<1>1. CASE awake # {} /\ Begin(o, c) /\ rows' = Mark({op'[o].id}, "stopping") /\ UNCHANGED released
  <2>1. OpOf(c, made') /\ c.name = n
    <3>1. project[n] \in 0..made /\ project[n] \in Nat
      BY <1>0 DEF Count
    <3>2. d \in Op /\ d.id = Idle.id /\ d.project = project[n] /\ d.kind = "eject" /\ d.name = n
      <4> DEFINE p == project[n]
      <4>1. p \in Nat
        BY <3>1
      <4> HIDE DEF p
      <4>2. QED
        BY <4>1, IdleIsOp DEF Op, OpKinds, p
    <3>3. awake \in SUBSET ((1..made) \X Kinds)
      BY ListedRows DEF RowsOf
    <3> HIDE DEF d, awake
    <3>4. d.id = 0
      BY <3>2, IdleIsOp
    <3>5. /\ made \in Nat /\ d \in Op /\ awake \in SUBSET ((1..made) \X Kinds)
          /\ d.kind = "eject" /\ d.name = n /\ d.id <= made /\ d.project <= made
      BY <1>0, <3>1, <3>2, <3>3, <3>4
    <3> DEFINE t == Take(d, awake)
    <3>6. OpOf(t, made) /\ t.name = n /\ t.kind = "eject" /\ made' = made
      <4>1. OpOf(t, made) /\ t.name = n /\ t.kind = "eject"
        <5>1. OpOf(t, made)
          BY <3>5, TakeIsOp
        <5>2. t.name = d.name /\ t.kind = d.kind
          BY <3>5, TakeKeeps
        <5>3. QED
          BY <3>5, <5>1, <5>2
      <4>2. QED
        BY <1>0, <4>1
    <3> HIDE DEF t
    <3>7. OpOf([t EXCEPT !.at = "stop"], made')
      BY <1>0, <3>6, OpMoves DEF Ats, Planned
    <3>8. [t EXCEPT !.at = "stop"].name = t.name
      BY <3>6 DEF Op, OpOf
    <3>9. QED
      BY <3>6, <3>7, <3>8 DEF t
  <2> HIDE DEF c
  <2>2. Ops' /\ begun' \in 0..MaxBegun /\ spoiled' \subseteq Names
    BY <1>0, <1>1, <2>1, BeginBase
  <2>3. Rows' /\ Kept(rows', rows) /\ Boxes' /\ Disk'
    BY <1>0, <1>1, Stays, MarkedRows DEF world, States
  <2>4. Count'
    BY <1>0, <1>1, <2>2, SameCount DEF Count
  <2>5. QED
    BY <2>2, <2>3, <2>4 DEF Base
<1>2. CASE /\ begun < MaxBegun /\ begun' = begun + 1
           /\ released' = released \cup {n} /\ UNCHANGED <<rows, op, spoiled>>
  <2>1. Rows' /\ Kept(rows', rows) /\ Ops' /\ Boxes' /\ Disk'
    BY <1>0, <1>2, Stays DEF world
  <2>2. begun' \in 0..MaxBegun
    <3>1. begun \in 0..MaxBegun /\ MaxBegun \in Nat
      BY <1>0, ProjectsAssumption DEF Count
    <3>2. QED
      BY <1>2, <3>1
  <2>3. Count'
    BY <1>0, <1>2, <2>2, SameCount DEF Count
  <2>4. QED
    BY <2>1, <2>3 DEF Base
<1>3. QED
  BY <1>1, <1>2 DEF EjectBegins

\* An ejection gives one row its end and marks the next.
LEMMA EjectStopsBase ==
    ASSUME Base, NEW o \in Slots, EjectStops(o)
    PROVE  Base' /\ Kept(rows', rows)
<1> DEFINE n == op[o].name
           c == Take(op[o], op[o].todo)
<1>0. /\ Rows /\ Ops /\ Count /\ made \in Nat /\ made' \in Nat /\ made' >= made
      /\ OpOf(op[o], made) /\ op[o] \in Op /\ op[o].kind = "eject" /\ n \in Names
      /\ UNCHANGED <<project, net, dir, data, begun, made, hist>>
  BY Given DEF EjectStops, Has
<1>1. Rows' /\ Kept(rows', rows)
  <2>1. PICK end \in {"sleeping", "failed"} :
          rows' = {IF r.id = op[o].id THEN [r EXCEPT !.state = end]
                   ELSE IF r.id = c.id THEN [r EXCEPT !.state = "stopping"] ELSE r : r \in rows}
    BY DEF EjectStops
  <2> HIDE DEF c
  <2>2. \A r \in rows' : \E q \in rows :
           /\ r = IF q.id = op[o].id THEN [q EXCEPT !.state = end]
                  ELSE IF q.id = c.id THEN [q EXCEPT !.state = "stopping"] ELSE q
           /\ r.id = q.id /\ r.state \in States /\ r = [q EXCEPT !.state = r.state]
    BY <1>0, <2>1 DEF Rows, RowOf, Row, States
  <2>3. Kept(rows', rows)
    BY <2>2 DEF Kept
  <2>4. \A r, s \in rows' : r.id = s.id => r = s
    BY <1>0, <2>2 DEF Rows
  <2>5. QED
    BY <1>0, <2>3, <2>4, KeptRows
<1>2. Ops'
  <2>1. OpOf(c, made)
    <3>1. op[o].id <= made /\ op[o].project <= made /\ op[o].todo \in SUBSET ((1..made) \X Kinds)
      BY <1>0 DEF OpOf
    <3>2. QED
      BY <1>0, <3>1, TakeIsOp
  <2>2. op' = [op EXCEPT ![o] = IF c.id = None THEN Idle ELSE c]
    BY DEF EjectStops
  <2> HIDE DEF c
  <2>3. OpOf(IF c.id = None THEN Idle ELSE c, made')
    BY <1>0, <2>1, OpMoves
  <2>4. QED
    BY <1>0, <2>2, <2>3, OneOp
<1>3. Boxes'
  <2>1. UNCHANGED box \/ SetBox(n, op[o].res, [box[n][op[o].res] EXCEPT !.up = FALSE])
    BY DEF EjectStops, Down
  <2>2. QED
    BY <1>0, <2>1, OneBox
<1>4. Disk'
  BY <1>0, Stays
<1>5. (Fault \/ UNCHANGED mishaps) /\ released' \subseteq Names
  BY <1>0 DEF EjectStops, Count
<1>6. Count'
  BY <1>0, <1>5, SameCount DEF Count
<1>7. QED
  BY <1>1, <1>2, <1>3, <1>4, <1>6 DEF Base

LEMMA AdoptBase ==
    ASSUME Base, NEW n \in Names, Adopt(n)
    PROVE  Base' /\ Kept(rows', rows)
<1>1. UNCHANGED <<project, rows, world, op, count, hist>> /\ made \in Nat /\ Count
  BY Given DEF Adopt
<1>2. Rows' /\ Kept(rows', rows) /\ Ops' /\ Boxes' /\ Disk'
  BY <1>1, Stays DEF world
<1>3. Count'
  BY <1>1 DEF Adopt, Count
<1>4. QED
  BY <1>2, <1>3 DEF Base

LEMMA WakeBeginsBase ==
    ASSUME Base, NEW o \in Slots, NEW n \in Names, NEW r \in rows, WakeBegins(o, n, r)
    PROVE  Base' /\ Kept(rows', rows)
<1> DEFINE c == [Idle EXCEPT !.kind = "wake", !.at = "start", !.name = n, !.res = r.kind,
                             !.id = r.id, !.port = r.port]
<1>0. /\ Rows /\ Count /\ made \in Nat /\ made' \in Nat /\ made' >= made
      /\ UNCHANGED <<project, released, world, made, mishaps, raced, frozen>>
  BY Given DEF WakeBegins
<1>1. OpOf(c, made') /\ c.name = n
  <2>1. r.id \in Nat /\ r.kind \in Kinds /\ r.id \in 1..made /\ r.port \in Ports
    BY <1>0 DEF Rows, RowOf, Row
  <2>2. c \in Op /\ c.id = r.id /\ c.project = Idle.project /\ c.todo = Idle.todo
        /\ c.kind = "wake" /\ c.name = n /\ c.at = "start"
    BY <2>1, IdleIsOp DEF Op, OpKinds, Ats
  <2> HIDE DEF c
  <2>3. c.project = 0 /\ c.todo = {}
    BY <2>2, IdleIsOp
  <2>4. c.id \in 0..made' /\ c.project \in 0..made'
    BY <1>0, <2>1, <2>2, <2>3
  <2>5. QED
    BY <1>0, <2>2, <2>3, <2>4, PlainOp DEF Planned
<1>2. Begin(o, c) /\ rows' = Mark({r.id}, "starting")
  BY DEF WakeBegins
<1> HIDE DEF c
<1>3. Ops' /\ begun' \in 0..MaxBegun /\ spoiled' \subseteq Names
  BY <1>0, <1>1, <1>2, BeginBase
<1>4. Rows' /\ Kept(rows', rows) /\ Boxes' /\ Disk'
  BY <1>0, <1>2, Stays, MarkedRows DEF world, States
<1>5. Count'
  BY <1>0, <1>3, SameCount DEF Count
<1>6. QED
  BY <1>3, <1>4, <1>5 DEF Base

LEMMA WakeMakesBase ==
    ASSUME Base, NEW o \in Slots, WakeMakes(o)
    PROVE  Base' /\ Kept(rows', rows)
<1>1. /\ UNCHANGED <<store, dir, data, op, count, hist>> /\ made \in Nat /\ Count /\ Disk
      /\ op[o].name \in Names
  BY Given DEF WakeMakes, Has
<1>2. Rows' /\ Kept(rows', rows) /\ Ops'
  BY <1>1, Stays
<1>3. Boxes'
  BY <1>1, OneBox, OpRange DEF WakeMakes
<1>4. Disk' /\ Count'
  BY <1>1 DEF WakeMakes, Disk, Count
<1>5. QED
  BY <1>2, <1>3, <1>4 DEF Base

LEMMA WakeStartsBase ==
    ASSUME Base, NEW o \in Slots, WakeStarts(o)
    PROVE  Base' /\ Kept(rows', rows)
<1> DEFINE n == op[o].name
           k == op[o].res
<1>0. /\ Rows /\ Count /\ op[o].kind # "idle" /\ n \in Names /\ made \in Nat
      /\ made' \in Nat /\ made' >= made
      /\ UNCHANGED <<project, released, net, dir, count, hist>>
  BY Given DEF WakeStarts, Has
<1>1. CASE CanStart(n, k) /\ Started(n, k) /\ Go(o, "ready") /\ UNCHANGED rows
  BY <1>0, <1>1, OneMoves, Stays, StartedBase, OpRange DEF Ats, Planned, Base, Count
<1>2. CASE Done(o) /\ rows' = Mark({op[o].id}, "failed") /\ UNCHANGED <<box, data>>
  BY <1>0, <1>2, OneMoves, Stays, MarkedRows DEF States, Base, Count
<1>3. QED
  BY <1>1, <1>2 DEF WakeStarts

LEMMA WakeEndsBase ==
    ASSUME Base, NEW o \in Slots, WakeEnds(o)
    PROVE  Base' /\ Kept(rows', rows)
<1> DEFINE n == op[o].name
           k == op[o].res
<1>0. /\ Rows /\ Count /\ op[o].kind # "idle" /\ n \in Names /\ made \in Nat
      /\ made' \in Nat /\ made' >= made /\ Done(o)
      /\ UNCHANGED <<project, released, net, dir, data, begun, made, hist>>
  BY Given DEF WakeEnds, Has
<1>1. Rows' /\ Kept(rows', rows)
  BY <1>0, MarkedRows DEF WakeEnds, States
<1>2. Ops' /\ Disk'
  BY <1>0, OneMoves, Stays
<1>3. Boxes'
  <2>1. UNCHANGED box \/ SetBox(n, k, [box[n][k] EXCEPT !.up = FALSE])
    BY DEF WakeEnds, Down
  <2>2. QED
    BY <1>0, <2>1, OneBox
<1>4. Fault \/ UNCHANGED mishaps
  BY DEF WakeEnds
<1>5. Count'
  BY <1>0, <1>4, SameCount DEF Count
<1>6. QED
  BY <1>1, <1>2, <1>3, <1>5 DEF Base

\* A row after a restart is the row, in the state its container gives it.
LEMMA RelabelKeeps ==
    ASSUME Base, NEW r \in rows
    PROVE  /\ Relabel(r) = [r EXCEPT !.state = Relabel(r).state]
           /\ Relabel(r).state \in States /\ Relabel(r).id = r.id
           /\ Relabel(r).project = r.project /\ Relabel(r).name = r.name
           /\ Relabel(r).kind = r.kind /\ Relabel(r).port = r.port /\ Relabel(r).seed = r.seed
<1>1. r \in Row
  BY Given DEF Rows, RowOf
<1>2. Relabel(r) = r \/ \E s \in States : Relabel(r) = [r EXCEPT !.state = s]
  BY DEF Relabel, States
<1>3. QED
  BY <1>1, <1>2 DEF Row

LEMMA DaemonDiesBase ==
    ASSUME Base, DaemonDies
    PROVE  Base' /\ Kept(rows', rows)
<1>0. /\ Rows /\ Ops /\ Boxes /\ Disk /\ Count /\ made \in Nat /\ made' \in Nat /\ made' >= made
      /\ UNCHANGED <<project, released, net, dir, begun, made, raced>>
  BY Given DEF DaemonDies
<1>1. Rows' /\ Kept(rows', rows)
  <2>1. \A r \in rows' : \E q \in rows : r = Relabel(q)
    BY DEF DaemonDies
  <2>2. Kept(rows', rows)
    BY <2>1, RelabelKeeps DEF Kept
  <2>3. \A r, s \in rows' : r.id = s.id => r = s
    BY <1>0, <2>1, RelabelKeeps DEF Rows
  <2>4. QED
    BY <1>0, <2>2, <2>3, KeptRows
<1>2. Ops'
  <2>1. op' = [s \in Slots |-> Idle]
    BY DEF DaemonDies
  <2>2. OpOf(Idle, made')
    <3>1. Idle.id = 0 /\ Idle.project = 0
      BY IdleIsOp
    <3>2. Idle.id <= made' /\ Idle.project <= made'
      BY <1>0, <3>1
    <3>3. QED
      BY <3>2, IdleIsOp DEF OpOf, Planned
  <2>3. QED
    BY <2>1, <2>2 DEF Ops
<1>3. Boxes'
  <2>1. \A n \in Names, k \in Kinds : box'[n][k] \in {Gone, box[n][k]}
    BY DEF DaemonDies
  <2>2. \A n \in Names, k \in Kinds : BoxOf(box'[n][k], made')
    BY <1>0, <2>1, BoxKinds
  <2>3. box' = [n \in Names |-> [k \in Kinds |-> box'[n][k]]]
    BY DEF DaemonDies
  <2>4. QED
    BY <2>2, <2>3 DEF Boxes
<1>4. Disk'
  BY <1>0 DEF DaemonDies, Disk
<1>5. Count'
  <2>1. spoiled' \subseteq Names
    <3>1. \A s \in Slots : op[s].bad \/ op[s].kind \in {"restore", "discard"} => op[s].name \in Names
      <4>1. \A s \in Slots : op[s].kind = "idle" => op[s] = Idle
        BY Given DEF OpOf
      <4>2. QED
        BY <4>1, Given, IdleIsOp
    <3>2. QED
      BY <1>0, <3>1 DEF DaemonDies, Count
  <2>2. frozen' \subseteq Names
    BY <1>0 DEF DaemonDies, Count
  <2>3. QED
    BY <1>0, <2>1, <2>2, SameCount DEF DaemonDies, Count
<1>6. QED
  BY <1>1, <1>2, <1>3, <1>4, <1>5 DEF Base

\* Every step keeps the rows that are there, but for the one that writes a row.
LEMMA StepBase ==
    ASSUME Base, [Next]_vars
    PROVE  /\ Base'
           /\ (\A o \in Slots : ~Inserts(o)) => Kept(rows', rows)
<1>1. CASE UNCHANGED vars
  <2>1. Base'
    BY <1>1 DEF Base, Rows, Ops, Boxes, Disk, Count, vars, world
  <2>2. Kept(rows', rows)
    BY <1>1, Given DEF vars
  <2>3. QED
    BY <2>1, <2>2
<1>2. ASSUME NEW o \in Slots, Begins(o)
      PROVE  Base' /\ Kept(rows', rows)
  BY <1>2, CreateBeginsBase, BranchBeginsBase, RestoreBeginsBase, RmBeginsBase,
     RmProjectBeginsBase, EjectBeginsBase, WakeBeginsBase DEF Begins
<1>3. ASSUME NEW o \in Slots, Goes(o)
      PROVE  Base' /\ (~Inserts(o) => Kept(rows', rows))
  <2>1. CASE \/ Build(o) \/ Inserts(o) \/ Network(o) \/ Container(o) \/ Starts(o) \/ Ready(o)
             \/ Rests(o) \/ Undo(o) \/ Cloned(o)
    BY <2>1, BuildBase, InsertsBase, NetworkBase, ContainerBase, StartsBase, ReadyBase,
       RestsBase, UndoBase, ClonedBase
  <2>2. CASE \/ StopBox(o) \/ RemoveBox(o) \/ Wipe(o) \/ RemoveNetwork(o) \/ RemoveDirectory(o)
             \/ DiscardBox(o) \/ DiscardNetwork(o) \/ DiscardDirectory(o)
    BY <2>2, StopBoxBase, RemoveBoxBase, WipeBase, RemoveNetworkBase, RemoveDirectoryBase,
       DiscardBase
  <2>3. CASE EjectStops(o) \/ WakeMakes(o) \/ WakeStarts(o) \/ WakeEnds(o)
    BY <2>3, EjectStopsBase, WakeMakesBase, WakeStartsBase, WakeEndsBase
  <2>4. QED
    BY <1>3, <2>1, <2>2, <2>3 DEF Goes
<1>4. ASSUME NEW n \in Names, NewProject(n) \/ Adopt(n)
      PROVE  Base' /\ Kept(rows', rows)
  BY <1>4, NewProjectBase, AdoptBase
<1>5. CASE DaemonDies
  BY <1>5, DaemonDiesBase
<1>6. QED
  BY <1>1, <1>2, <1>3, <1>4, <1>5 DEF Next

LEMMA InitBase == Init => Base
<1> SUFFICES ASSUME Init PROVE Base
  OBVIOUS
<1>1. Rows
  BY DEF Init, Rows
<1>2. Ops
  <2>1. Idle.id = 0 /\ Idle.project = 0 /\ made = 0
    BY IdleIsOp DEF Init
  <2>2. Idle.id <= made /\ Idle.project <= made
    BY <2>1
  <2>3. OpOf(Idle, made)
    BY <2>2, IdleIsOp DEF OpOf, Planned
  <2>4. QED
    BY <2>3 DEF Init, Ops
<1>3. Boxes
  <2>1. Gone \in Box /\ Gone.whose = 0 /\ made = 0
    BY DEF Gone, Box, Init
  <2>2. Gone.whose <= made
    BY <2>1
  <2>3. BoxOf(Gone, made)
    BY <2>1, <2>2 DEF BoxOf
  <2>4. QED
    BY <2>3 DEF Init, Boxes
<1>4. Disk
  BY DEF Init, Disk
<1>5. Count
  <2>1. 0 \in 0..MaxBegun /\ 0 \in 0..MaxMishaps /\ 0 \in 0..0
    <3>1. MaxBegun \in Nat /\ MaxMishaps \in Nat /\ 0 \in Nat
      BY ProjectsAssumption
    <3>2. QED
      BY <3>1, InRange
  <2>2. QED
    BY <2>1 DEF Init, Count
<1>6. QED
  BY <1>1, <1>2, <1>3, <1>4, <1>5 DEF Base

\* What the first part says is what TypeOK says, and more.
LEMMA BaseIsTypeOK == Base => TypeOK
<1> SUFFICES ASSUME Base PROVE TypeOK
  OBVIOUS
<1>1. /\ project \in [Names -> 0..made] /\ released \subseteq Names
      /\ begun \in 0..MaxBegun /\ mishaps \in 0..MaxMishaps
      /\ spoiled \subseteq Names /\ frozen \subseteq Names /\ raced \subseteq 1..made
  BY DEF Base, Count
<1>2. \A r \in rows : /\ r.id \in 1..made /\ r.project \in 1..made
                      /\ r.name \in Names /\ r.kind \in Kinds
                      /\ r.state \in States /\ r.port \in Ports
  BY DEF Base, Rows, RowOf, Row
<1>3. ASSUME NEW n \in Names, NEW k \in Kinds PROVE box[n][k].whose \in 0..made
  <2> DEFINE i == box[n][k].whose
  <2>1. i \in Nat /\ i <= made /\ made \in Nat
    BY DEF Base, Boxes, Count, BoxOf, Box
  <2> HIDE DEF i
  <2>2. i \in 0..made
    BY <2>1, InRange
  <2>3. QED
    BY <2>2 DEF i
<1>4. net \subseteq Names /\ dir \in [Names -> SUBSET Kinds]
      /\ data \in [Names -> (0..made) \cup {Copied}]
  BY DEF Base, Disk
<1>5. \A o \in Slots : op[o].name \in Names \cup {""}
  BY Given, OpFields
<1>6. QED
  BY <1>1, <1>2, <1>3, <1>4, <1>5 DEF TypeOK

LEMMA BaseHolds == Spec => []Base
<1>1. Base /\ [Next]_vars => Base'
  BY StepBase
<1>2. QED
  BY InitBase, <1>1, PTL DEF Spec

\* What is stored, on the box and under way is what it is meant to be, and numbered by
\* numbers that were given out.
THEOREM ProjectsTypeCorrect == Spec => []TypeOK
BY BaseHolds, BaseIsTypeOK, PTL

-----------------------------------------------------------------------------
(* The second part: ports.                                                 *)

\* An operation that has chosen a port, and beside which no row was written since, has
\* one that is in no row.
PortInv ==
    /\ \A o \in Slots : op[o].at \in {"build", "probe"} /\ ~op[o].beside =>
          \A r \in rows : r.port # op[o].port
    /\ PortsAreShared

\* A step of one operation that chooses no port, or a port no row has.
LEMMA PortsKept ==
    ASSUME Base, Base', PortInv, Kept(rows', rows), UNCHANGED raced, NEW o \in Slots,
           \A s \in Slots \ {o} : op'[s] = op[s],
           op'[o].at \in {"build", "probe"} /\ ~op'[o].beside =>
              \A r \in rows : r.port # op'[o].port
    PROVE  PortInv'
<1>1. \A r \in rows' : \E q \in rows : r.id = q.id /\ r.port = q.port
  BY Given DEF Kept, Rows, RowOf, Row
<1>2. ASSUME NEW s \in Slots, op'[s].at \in {"build", "probe"}, ~op'[s].beside
      PROVE  \A r \in rows' : r.port # op'[s].port
  BY <1>1, <1>2 DEF PortInv
<1>3. PortsAreShared'
  <2>1. ASSUME NEW r \in rows', NEW s \in rows', r # s, r.port = s.port
        PROVE  {r.id, s.id} \cap raced' # {}
    <3>1. PICK q \in rows : r.id = q.id /\ r.port = q.port
      BY <1>1
    <3>2. PICK u \in rows : s.id = u.id /\ s.port = u.port
      BY <1>1
    <3>3. q # u
      <4>1. Rows'
        BY DEF Base
      <4>2. QED
        BY <2>1, <3>1, <3>2, <4>1 DEF Rows
    <3>4. QED
      BY <2>1, <3>1, <3>2, <3>3 DEF PortInv, PortsAreShared
  <2>2. QED
    BY <2>1 DEF PortsAreShared
<1>4. QED
  BY <1>2, <1>3 DEF PortInv

\* An operation that goes on keeps what it is about.
LEMMA GoesOn ==
    ASSUME Base, NEW o \in Slots, NEW at \in Ats, Go(o, at) \/ \E b \in BOOLEAN : Hit(o, at, b)
    PROVE  /\ \A s \in Slots \ {o} : op'[s] = op[s]
           /\ op'[o].at = at /\ op'[o].kind = op[o].kind /\ op'[o].id = op[o].id
           /\ op'[o].name = op[o].name /\ op'[o].res = op[o].res /\ op'[o].todo = op[o].todo
           /\ op'[o].project = op[o].project /\ op'[o].port = op[o].port
           /\ Go(o, at) => op'[o].bad = op[o].bad
<1>0. Ops /\ op[o] \in Op
  BY Given
<1>1. CASE Go(o, at)
  BY <1>0, <1>1 DEF Go, Ops, Op
<1>2. ASSUME NEW b \in BOOLEAN, Hit(o, at, b), ~Go(o, at)
      PROVE  /\ \A s \in Slots \ {o} : op'[s] = op[s]
             /\ op'[o].at = at /\ op'[o].kind = op[o].kind /\ op'[o].id = op[o].id
             /\ op'[o].name = op[o].name /\ op'[o].res = op[o].res /\ op'[o].todo = op[o].todo
             /\ op'[o].project = op[o].project /\ op'[o].port = op[o].port
  BY <1>0, <1>2 DEF Hit, Ops, Op
<1>3. QED
  BY <1>1, <1>2

\* Where an operation that goes on gets to.
LEMMA OnePlace ==
    ASSUME Base, NEW o \in Slots, op[o].kind # "idle",
           \/ Done(o) \/ Fails(o)
           \/ \E at \in Ats \ Planned : Go(o, at) \/ \E b \in BOOLEAN : Hit(o, at, b)
           \/ \E b \in BOOLEAN : RowGoes(o, b)
    PROVE  /\ \A s \in Slots \ {o} : op'[s] = op[s]
           /\ op'[o].at \notin {"build", "probe"}
<1>0. Ops /\ op[o] \in Op
  BY Given
<1>1. CASE Done(o)
  BY <1>0, <1>1, IdleIsOp DEF Done, Ops
<1>2. CASE Fails(o)
  <2>1. op' = [op EXCEPT ![o] = Idle] \/ \E k \in {"undo", "discard"} :
          op' = [op EXCEPT ![o] = [op[o] EXCEPT !.kind = k, !.at = "remove"]]
    BY <1>2 DEF Fails
  <2>2. CASE op' = [op EXCEPT ![o] = Idle]
    BY <1>0, <2>2, IdleIsOp DEF Ops
  <2>3. ASSUME NEW k, op' = [op EXCEPT ![o] = [op[o] EXCEPT !.kind = k, !.at = "remove"]]
        PROVE  /\ \A s \in Slots \ {o} : op'[s] = op[s]
               /\ op'[o].at \notin {"build", "probe"}
    <3> DEFINE c == [op[o] EXCEPT !.kind = k, !.at = "remove"]
    <3>1. c.at = "remove"
      BY <1>0 DEF Op
    <3> HIDE DEF c
    <3>2. op' = [op EXCEPT ![o] = c]
      BY <2>3 DEF c
    <3>3. QED
      BY <1>0, <3>1, <3>2 DEF Ops
  <2>4. QED
    BY <2>1, <2>2, <2>3
<1>3. CASE \E at \in Ats \ Planned : Go(o, at) \/ \E b \in BOOLEAN : Hit(o, at, b)
  <2>1. PICK at \in Ats \ Planned : Go(o, at) \/ \E b \in BOOLEAN : Hit(o, at, b)
    BY <1>3
  <2>2. (\A s \in Slots \ {o} : op'[s] = op[s]) /\ op'[o].at = at
    BY <2>1, GoesOn
  <2>3. QED
    BY <2>2 DEF Planned
<1>4. CASE \E b \in BOOLEAN : RowGoes(o, b)
  <2>1. PICK b \in BOOLEAN : RowGoes(o, b)
    BY <1>4
  <2> DEFINE c == Take([op[o] EXCEPT !.bad = b], op[o].todo)
  <2>2. op' = [op EXCEPT ![o] = IF op[o].kind = "rm" THEN Idle ELSE c]
    BY <2>1 DEF RowGoes
  <2>3. c.at \in {"network", "stop"}
    <3>1. [op[o] EXCEPT !.bad = b] \in Op
      BY <1>0 DEF Op
    <3>2. QED
      BY <3>1, TakeAt
  <2> HIDE DEF c
  <2>4. QED
    BY <1>0, <2>2, <2>3, IdleIsOp DEF Ops
<1>5. QED
  BY <1>1, <1>2, <1>3, <1>4

\* A step of an operation that is under way and has got its row.
LEMMA PortGoes ==
    ASSUME Base, Base', PortInv, NEW o \in Slots, Goes(o),
           ~(Build(o) \/ Inserts(o) \/ Cloned(o) \/ EjectStops(o) \/ WakeMakes(o))
    PROVE  PortInv'
<1>0. Goes(o) => UNCHANGED raced \/ Inserts(o)
  BY DEF Goes, Build, Network, Container, Starts, Ready, Rests, Undo, Cloned, StopBox,
     RemoveBox, Wipe, RemoveNetwork, RemoveDirectory, DiscardBox, DiscardNetwork,
     DiscardDirectory, EjectStops, WakeMakes, WakeStarts, WakeEnds
<1>1. op[o].kind # "idle" /\ op[o].bad \in BOOLEAN
  <2>1. op[o].bad \in BOOLEAN
    BY Given, OpFields
  <2>2. op[o].kind # "idle"
    BY DEF Goes, Network, Container, Starts, Ready, Rests, Undo, StopBox,
       RemoveBox, Wipe, RemoveNetwork, RemoveDirectory, DiscardBox, DiscardNetwork,
       DiscardDirectory, WakeStarts, WakeEnds, Has, Removers
  <2>3. QED
    BY <2>1, <2>2
<1>2. Done(o) \/ Fails(o) \/ (\E at \in Ats \ Planned : Go(o, at) \/ \E b \in BOOLEAN : Hit(o, at, b))
        \/ (\E b \in BOOLEAN : RowGoes(o, b))
  <2>1. {"network", "container", "start", "ready", "stop", "remove", "wipe", "directory"}
           \subseteq Ats \ Planned
    BY DEF Ats, Planned
  <2>2. CASE Network(o) \/ Container(o) \/ Starts(o) \/ Ready(o) \/ Rests(o) \/ Undo(o)
    BY <2>1, <2>2 DEF Network, Container, Starts, Ready, Rests, Undo
  <2>3. CASE StopBox(o)
    BY <2>1, <2>3 DEF StopBox
  <2>4. CASE RemoveBox(o)
    <3>1. PICK fails \in BOOLEAN : RowGoes(o, op[o].bad \/ fails) \/ Hit(o, "wipe", fails)
      BY <2>4 DEF RemoveBox
    <3> DEFINE bad == op[o].bad \/ fails
    <3>2. bad \in BOOLEAN
      OBVIOUS
    <3>3. RowGoes(o, bad) \/ Hit(o, "wipe", fails)
      BY <3>1
    <3> HIDE DEF bad
    <3>4. QED
      BY <2>1, <3>2, <3>3
  <2>5. CASE Wipe(o)
    BY <1>1, <2>5 DEF Wipe
  <2>6. CASE RemoveNetwork(o) \/ RemoveDirectory(o) \/ DiscardBox(o) \/ DiscardNetwork(o)
             \/ DiscardDirectory(o) \/ WakeStarts(o) \/ WakeEnds(o)
    BY <2>1, <2>6 DEF RemoveNetwork, RemoveDirectory, DiscardBox, DiscardNetwork,
       DiscardDirectory, WakeStarts, WakeEnds
  <2>7. QED
    BY <2>2, <2>3, <2>4, <2>5, <2>6 DEF Goes
<1>3. Kept(rows', rows)
  BY NetworkBase, ContainerBase, StartsBase, ReadyBase, RestsBase, UndoBase, StopBoxBase,
     RemoveBoxBase, WipeBase, RemoveNetworkBase, RemoveDirectoryBase, DiscardBase,
     WakeStartsBase, WakeEndsBase DEF Goes
<1>4. UNCHANGED raced
  BY <1>0
<1>5. QED
  BY <1>1, <1>2, <1>3, <1>4, OnePlace, PortsKept

\* A service's build leaves the port it has chosen as it is.
LEMMA PortBuild ==
    ASSUME Base, Base', PortInv, NEW o \in Slots, Build(o)
    PROVE  PortInv'
<1>0. Ops /\ op[o] \in Op /\ op[o].at = "build" /\ UNCHANGED <<rows, raced>> /\ Kept(rows', rows)
  BY Given DEF Build, Has
<1>1. \A s \in Slots \ {o} : op'[s] = op[s]
  BY <1>0 DEF Build, Go, Done, Ops
<1>2. op'[o].at \in {"build", "probe"} => op'[o].port = op[o].port /\ op'[o].beside = op[o].beside
  <2>1. op' = [op EXCEPT ![o] = [op[o] EXCEPT !.at = "probe"]] \/ op' = [op EXCEPT ![o] = Idle]
    BY DEF Build, Go, Done
  <2>2. op'[o] = [op[o] EXCEPT !.at = "probe"] \/ op'[o] = Idle
    BY <1>0, <2>1 DEF Ops
  <2>3. [op[o] EXCEPT !.at = "probe"].port = op[o].port
        /\ [op[o] EXCEPT !.at = "probe"].beside = op[o].beside
    BY <1>0 DEF Op
  <2>4. QED
    BY <2>2, <2>3, IdleIsOp
<1>3. op'[o].at \in {"build", "probe"} /\ ~op'[o].beside => \A r \in rows : r.port # op'[o].port
  BY <1>0, <1>2 DEF PortInv
<1>4. QED
  BY <1>0, <1>1, <1>3, PortsKept

\* A port is chosen among those no row has.
LEMMA PortCloned ==
    ASSUME Base, Base', PortInv, NEW o \in Slots, Cloned(o)
    PROVE  PortInv'
<1>0. Ops /\ op[o] \in Op /\ UNCHANGED raced /\ Kept(rows', rows) /\ Free # {}
  BY Given, ClonedBase DEF Cloned
<1>1. \A r \in rows : r.port # Least(Free)
  BY <1>0, FreeIsPort DEF Free
<1>2. \/ \E p : op' = [op EXCEPT ![o] = [@ EXCEPT !.at = "probe", !.project = p, !.port = Least(Free)]]
      \/ op' = [op EXCEPT ![o] = Idle]
      \/ op' = [op EXCEPT ![o] = [@ EXCEPT !.kind = "discard", !.at = "remove"]]
  BY DEF Cloned, Done
<1>3. \A s \in Slots \ {o} : op'[s] = op[s]
  BY <1>0, <1>2 DEF Ops
<1>4. op'[o].at \in {"build", "probe"} => op'[o].port = Least(Free)
  BY <1>0, <1>2, IdleIsOp DEF Ops, Op
<1>5. QED
  BY <1>0, <1>1, <1>3, <1>4, PortsKept

\* The row that is written: with a port no row has, unless one was written beside.
LEMMA PortInserts ==
    ASSUME Base, Base', PortInv, NEW o \in Slots, Inserts(o)
    PROVE  PortInv'
<1> DEFINE c == op[o]
<1>0. Ops /\ Rows /\ c \in Op /\ c.at = "probe" /\ Kept(rows, rows) /\ made \in Nat
  BY Given DEF Inserts, Has
<1>1. CASE UNCHANGED <<rows, raced>> /\ Done(o)
  BY <1>0, <1>1, OnePlace, PortsKept DEF Inserts, Has
<1>2. CASE /\ rows' = rows \cup
               {[id |-> made + 1, project |-> c.project, name |-> c.name, kind |-> c.res,
                 state |-> "creating", port |-> c.port,
                 seed |-> IF c.kind = "create" THEN made + 1 ELSE Copied]}
           /\ raced' = IF c.beside THEN raced \cup {made + 1} ELSE raced
           /\ op' = [s \in Slots |->
               IF s = o THEN [op[s] EXCEPT !.at = "network", !.id = made + 1]
               ELSE [op[s] EXCEPT !.beside = @ \/ op[s].at \in {"build", "probe"}]]
  <2> DEFINE n == [id |-> made + 1, project |-> c.project, name |-> c.name, kind |-> c.res,
                   state |-> "creating", port |-> c.port,
                   seed |-> IF c.kind = "create" THEN made + 1 ELSE Copied]
  <2>1. rows' = rows \cup {n} /\ n.id = made + 1 /\ n.port = c.port
    BY <1>2
  <2> HIDE DEF n
  <2>2. raced \subseteq raced' /\ (c.beside => n.id \in raced')
    BY <1>2, <2>1
  <2>3. ASSUME NEW s \in Slots
        PROVE  op'[s].at \in {"build", "probe"} => op'[s].beside
    <3> DEFINE d == op[s]
    <3>1. d \in Op
      BY Given
    <3>2. CASE s = o
      <4>1. op'[s] = [d EXCEPT !.at = "network", !.id = made + 1]
        BY <1>2, <3>2
      <4>2. op'[s].at = "network"
        BY <3>1, <4>1 DEF Op
      <4>3. QED
        BY <4>2
    <3>3. CASE s # o
      <4> DEFINE b == d.beside \/ d.at \in {"build", "probe"}
      <4>1. op'[s] = [d EXCEPT !.beside = b]
        BY <1>2, <3>3
      <4> HIDE DEF b
      <4>2. op'[s].at = d.at /\ op'[s].beside = b
        BY <3>1, <4>1 DEF Op
      <4>3. QED
        BY <4>2 DEF b
    <3>4. QED
      BY <3>2, <3>3
  <2>4. ASSUME NEW r \in rows, r.port = n.port PROVE n.id \in raced'
    BY <1>0, <2>1, <2>2, <2>4 DEF PortInv
  <2>5. PortsAreShared'
    BY <2>1, <2>2, <2>4 DEF PortInv, PortsAreShared
  <2>6. QED
    BY <2>3, <2>5 DEF PortInv
<1>3. QED
  BY <1>1, <1>2 DEF Inserts

LEMMA PortBegins ==
    ASSUME Base, Base', PortInv, NEW o \in Slots, Begins(o)
    PROVE  PortInv'
<1>0. Ops /\ UNCHANGED raced /\ Kept(rows', rows)
  <2>1. UNCHANGED raced
    BY DEF Begins, RmProjectBegins, EjectBegins, RestoreBegins, CreateBegins, RmBegins,
       WakeBegins, BranchBegins
  <2>2. Kept(rows', rows)
    BY CreateBeginsBase, BranchBeginsBase, RestoreBeginsBase, RmBeginsBase,
       RmProjectBeginsBase, EjectBeginsBase, WakeBeginsBase DEF Begins
  <2>3. QED
    BY <2>1, <2>2, Given
<1>1. CASE UNCHANGED op
  <2>1. op[o].at \in {"build", "probe"} /\ ~op[o].beside => \A r \in rows : r.port # op[o].port
    BY DEF PortInv
  <2>2. QED
    BY <1>0, <1>1, <2>1, PortsKept
<1>2. ASSUME NEW c, op' = [op EXCEPT ![o] = c],
             c.at \in {"build", "probe"} => \A r \in rows : r.port # c.port
      PROVE  PortInv'
  <2>1. op'[o] = c /\ \A s \in Slots \ {o} : op'[s] = op[s]
    BY <1>0, <1>2 DEF Ops
  <2>2. op'[o].at \in {"build", "probe"} /\ ~op'[o].beside => \A r \in rows : r.port # op'[o].port
    BY <1>2, <2>1
  <2>3. QED
    BY <1>0, <2>1, <2>2, PortsKept
<1>3. ASSUME NEW n \in Names, NEW k \in Kinds, CreateBegins(o, n, k) PROVE PortInv'
  <2> DEFINE c == [Idle EXCEPT !.kind = "create", !.at = IF k = "db" THEN "probe" ELSE "build",
                               !.name = n, !.res = k, !.project = project[n],
                               !.port = Least(Free)]
  <2>1. op' = [op EXCEPT ![o] = c]
    BY <1>3 DEF CreateBegins, Begin
  <2>2. c.port = Least(Free)
    BY IdleIsOp DEF Op
  <2>3. \A r \in rows : r.port # Least(Free)
    BY <1>3, FreeIsPort DEF Free, CreateBegins
  <2> HIDE DEF c
  <2>4. QED
    BY <1>2, <2>1, <2>2, <2>3
<1>4. ASSUME NEW a \in Names, NEW b \in Names, BranchBegins(o, a, b) \/ RestoreBegins(o, b)
      PROVE  PortInv'
  <2> DEFINE c == [Idle EXCEPT !.kind = "branch", !.at = "clone", !.name = b, !.res = "db",
                               !.project = made + 1]
             d == [Idle EXCEPT !.kind = "restore", !.at = "clone", !.name = b, !.res = "db"]
  <2>1. op' = [op EXCEPT ![o] = c] \/ op' = [op EXCEPT ![o] = d]
    BY <1>4 DEF BranchBegins, RestoreBegins, Begin
  <2>2. c.at = "clone" /\ d.at = "clone"
    BY IdleIsOp DEF Op
  <2> HIDE DEF c, d
  <2>3. QED
    BY <1>2, <2>1, <2>2
<1>5. ASSUME NEW n \in Names, NEW r \in rows, RmBegins(o, n, r) \/ WakeBegins(o, n, r)
      PROVE  PortInv'
  <2> DEFINE c == [Idle EXCEPT !.kind = "rm", !.at = "stop", !.name = n, !.res = r.kind,
                               !.id = r.id]
             d == [Idle EXCEPT !.kind = "wake", !.at = "start", !.name = n, !.res = r.kind,
                               !.id = r.id, !.port = r.port]
  <2>1. op' = [op EXCEPT ![o] = c] \/ op' = [op EXCEPT ![o] = d]
    BY <1>5 DEF RmBegins, WakeBegins, Begin
  <2>2. c.at = "stop" /\ d.at = "start"
    BY IdleIsOp DEF Op
  <2> HIDE DEF c, d
  <2>3. QED
    BY <1>2, <2>1, <2>2
<1>6. ASSUME NEW n \in Names, RmProjectBegins(o, n) PROVE PortInv'
  <2> DEFINE d == [Idle EXCEPT !.kind = IF n \in released THEN "forget" ELSE "rmProject",
                               !.name = n, !.project = project[n]]
             c == Take(d, {<<r.id, r.kind>> : r \in RowsOf(project[n])})
  <2>1. op' = [op EXCEPT ![o] = c]
    BY <1>6 DEF RmProjectBegins, Begin
  <2>2. d \in Op
    <3> DEFINE p == project[n]
               k == IF n \in released THEN "forget" ELSE "rmProject"
    <3>1. p \in Nat /\ k \in OpKinds
      BY Given DEF Count, OpKinds
    <3> HIDE DEF p, k
    <3>2. QED
      BY <3>1, IdleIsOp DEF Op, p, k
  <2> HIDE DEF d
  <2>3. c.at \in {"network", "stop"}
    BY <2>2, TakeAt
  <2> HIDE DEF c
  <2>4. QED
    BY <1>2, <2>1, <2>3
<1>7. ASSUME NEW n \in Names, EjectBegins(o, n) PROVE PortInv'
  <2> DEFINE d == [Idle EXCEPT !.kind = "eject", !.name = n, !.project = project[n]]
             t == Take(d, {<<r.id, r.kind>> : r \in {x \in RowsOf(project[n]) : x.state = "running"}})
             c == [t EXCEPT !.at = "stop"]
  <2>1. op' = [op EXCEPT ![o] = c] \/ UNCHANGED op
    BY <1>7 DEF EjectBegins, Begin
  <2>2. c.at = "stop"
    <3>1. d \in Op
      <4> DEFINE p == project[n]
      <4>1. p \in Nat
        BY Given DEF Count
      <4> HIDE DEF p
      <4>2. QED
        BY <4>1, IdleIsOp DEF Op, OpKinds, p
    <3>2. t \in Op
      <4> DEFINE T == {<<r.id, r.kind>> : r \in {x \in RowsOf(project[n]) : x.state = "running"}}
      <4>1. T \in SUBSET ((1..made) \X Kinds) /\ made \in Nat
        BY ListedRows, Given DEF RowsOf
      <4>2. T \in SUBSET (Nat \X Kinds)
        BY <4>1
      <4> HIDE DEF T, d
      <4>3. Take(d, T) \in Op
        BY <3>1, <4>2, TakeInOp
      <4>4. QED
        BY <4>3 DEF T
    <3> HIDE DEF t
    <3>3. QED
      BY <3>2 DEF Op
  <2> HIDE DEF c
  <2>3. QED
    BY <1>1, <1>2, <2>1, <2>2
<1>8. QED
  BY <1>3, <1>4, <1>5, <1>6, <1>7 DEF Begins

LEMMA PortOthers ==
    ASSUME Base, Base', PortInv,
           \/ \E n \in Names : NewProject(n) \/ Adopt(n)
           \/ DaemonDies
           \/ \E o \in Slots : EjectStops(o) \/ WakeMakes(o)
           \/ UNCHANGED vars
    PROVE  PortInv'
<1>0. Ops /\ Kept(rows, rows) /\ \A s \in Slots : op[s] \in Op
  BY Given
<1>1. CASE UNCHANGED <<rows, op, raced>>
  BY <1>1 DEF PortInv, PortsAreShared
<1>2. ASSUME NEW o \in Slots, EjectStops(o) PROVE PortInv'
  <2> DEFINE c == Take(op[o], op[o].todo)
  <2>1. op' = [op EXCEPT ![o] = IF c.id = None THEN Idle ELSE c]
    BY <1>2 DEF EjectStops
  <2>2. c.at \in {"network", "stop"}
    BY <1>0, TakeAt
  <2> HIDE DEF c
  <2>3. op'[o].at \notin {"build", "probe"} /\ \A s \in Slots \ {o} : op'[s] = op[s]
    BY <1>0, <2>1, <2>2, IdleIsOp DEF Ops
  <2>4. Kept(rows', rows) /\ UNCHANGED raced
    BY <1>2, EjectStopsBase DEF EjectStops
  <2>5. QED
    BY <2>3, <2>4, PortsKept
<1>3. CASE DaemonDies
  <2>1. UNCHANGED raced /\ op' = [s \in Slots |-> Idle] /\ Kept(rows', rows)
    BY <1>3, DaemonDiesBase DEF DaemonDies
  <2>2. \A s \in Slots : op'[s].at = "idle"
    BY <2>1, IdleIsOp
  <2>3. \A r \in rows' : \E q \in rows : r.id = q.id /\ r.port = q.port
    BY <2>1, Given DEF Kept, Rows, RowOf, Row
  <2>4. \A r, s \in rows' : r.id = s.id => r = s
    BY DEF Base, Rows
  <2>5. PortsAreShared'
    BY <2>1, <2>3, <2>4 DEF PortInv, PortsAreShared
  <2>6. QED
    BY <2>2, <2>5 DEF PortInv
<1>4. QED
  BY <1>1, <1>2, <1>3 DEF NewProject, Adopt, WakeMakes, vars

\* Two rows share a port only when one was written while the other's operation was under
\* way with the port chosen.
THEOREM PortsNotGivenTwice == Spec => []PortsAreShared
<1>1. Init => PortInv
  BY IdleIsOp DEF Init, PortInv, PortsAreShared
<1>2. Base /\ PortInv /\ [Next]_vars => PortInv'
  <2> SUFFICES ASSUME Base, PortInv, [Next]_vars PROVE PortInv'
    OBVIOUS
  <2>1. Base'
    BY StepBase
  <2>2. ASSUME NEW o \in Slots, Begins(o) \/ Goes(o) PROVE PortInv'
    BY <2>1, <2>2, PortBegins, PortGoes, PortBuild, PortCloned, PortInserts, PortOthers
  <2>3. QED
    BY <2>1, <2>2, PortOthers DEF Next
<1>3. PortInv => PortsAreShared
  BY DEF PortInv
<1>4. QED
  BY BaseHolds, <1>1, <1>2, <1>3, PTL DEF Spec

-----------------------------------------------------------------------------
(* The third part: nothing reads as under way that nobody is at.           *)

\* Who gives a row a state that is not to last.
Under == {"creating", "destroying", "stopping"}
Doer(kind, state) ==
    \/ kind \in {"create", "branch", "restore"} /\ state = "creating"
    \/ kind \in {"rm", "rmProject", "forget"} /\ state = "destroying"
    \/ kind = "eject" /\ state = "stopping"

\* An operation that has no row yet, or is done with all of them, names none.
RowlessHasNone(c) ==
    /\ c.at \in Planned => c.id = None
    /\ c.kind \in {"rmProject", "forget"} /\ c.at \in {"network", "directory"} => c.id = None

BetweenInv ==
    /\ \A r \in rows : r.name \notin frozen /\ r.state \in Under =>
          \E o \in Slots : op[o].id = r.id /\ Doer(op[o].kind, r.state)
    /\ \A o \in Slots : RowlessHasNone(op[o])

\* A step of one operation: what is under way is another's, or is its own from then on.
LEMMA BetweenKept ==
    ASSUME Base, BetweenInv, NEW o \in Slots, frozen \subseteq frozen',
           \A s \in Slots \ {o} : op'[s] = op[s],
           RowlessHasNone(op'[o]),
           \A r \in rows' : r.state \in Under =>
              \/ \E q \in rows : /\ q.id = r.id /\ q.name = r.name /\ q.state = r.state
                                 /\ q.id # op[o].id \/ ~Doer(op[o].kind, q.state)
              \/ op'[o].id = r.id /\ Doer(op'[o].kind, r.state)
    PROVE  BetweenInv'
<1>1. ASSUME NEW r \in rows', r.name \notin frozen', r.state \in Under
      PROVE  \E s \in Slots : op'[s].id = r.id /\ Doer(op'[s].kind, r.state)
  <2>1. CASE \E q \in rows : /\ q.id = r.id /\ q.name = r.name /\ q.state = r.state
                             /\ q.id # op[o].id \/ ~Doer(op[o].kind, q.state)
    <3>1. PICK q \in rows : /\ q.id = r.id /\ q.name = r.name /\ q.state = r.state
                            /\ q.id # op[o].id \/ ~Doer(op[o].kind, q.state)
      BY <2>1
    <3>2. PICK s \in Slots : op[s].id = q.id /\ Doer(op[s].kind, q.state)
      BY <1>1, <3>1 DEF BetweenInv
    <3>3. op'[s] = op[s]
      BY <3>1, <3>2
    <3>4. QED
      BY <3>1, <3>2, <3>3
  <2>2. QED
    BY <1>1, <2>1
<1>2. \A s \in Slots : RowlessHasNone(op'[s])
  BY DEF BetweenInv
<1>3. QED
  BY <1>1, <1>2 DEF BetweenInv, RowlessHasNone

LEMMA BetweenGoesOn ==
    ASSUME Base, BetweenInv, NEW o \in Slots, NEW at \in Ats,
           Go(o, at) \/ \E b \in BOOLEAN : Hit(o, at, b), UNCHANGED <<rows, frozen>>,
           at \in Planned => op[o].at \in Planned,
           op[o].kind \in {"rmProject", "forget"} /\ at \in {"network", "directory"} =>
              op[o].at \in {"network", "directory"}
    PROVE  BetweenInv'
<1>1. /\ \A s \in Slots \ {o} : op'[s] = op[s]
      /\ op'[o].at = at /\ op'[o].kind = op[o].kind /\ op'[o].id = op[o].id
  BY GoesOn
<1>2. RowlessHasNone(op'[o])
  BY <1>1 DEF BetweenInv, RowlessHasNone
<1>3. QED
  BY <1>1, <1>2, BetweenKept

\* One that ends leaves its row in a state that lasts, or has no row that is under way.
LEMMA BetweenEnds ==
    ASSUME Base, BetweenInv, NEW o \in Slots, Done(o), UNCHANGED frozen,
           \/ /\ rows' \subseteq rows
              /\ op[o].id = None \/ op[o].kind \in {"wake", "undo", "discard"}
           \/ \E s \in States \ Under : rows' = Mark({op[o].id}, s)
    PROVE  BetweenInv'
<1>0. Ops /\ Rows
  BY Given
<1>1. op'[o] = Idle /\ \A s \in Slots \ {o} : op'[s] = op[s]
  BY <1>0 DEF Done, Ops
<1>2. RowlessHasNone(op'[o])
  BY <1>1, IdleIsOp DEF RowlessHasNone
<1>3. ASSUME NEW r \in rows', r.state \in Under
      PROVE  \E q \in rows : /\ q.id = r.id /\ q.name = r.name /\ q.state = r.state
                             /\ q.id # op[o].id \/ ~Doer(op[o].kind, q.state)
  <2>1. CASE rows' \subseteq rows /\ op[o].id = None
    <3>1. r \in rows /\ r.id \in 1..made
      BY <1>0, <2>1 DEF Rows, RowOf
    <3>2. r.id # op[o].id
      BY <2>1, <3>1
    <3>3. QED
      BY <3>1, <3>2
  <2>2. CASE rows' \subseteq rows /\ op[o].kind \in {"wake", "undo", "discard"}
    BY <2>2 DEF Doer
  <2>3. ASSUME NEW s \in States \ Under, rows' = Mark({op[o].id}, s)
        PROVE  r \in rows /\ r.id # op[o].id
    BY <1>0, <1>3, <2>3 DEF Mark, Rows, RowOf, Row
  <2>4. QED
    BY <2>1, <2>2, <2>3
<1>4. QED
  BY <1>1, <1>2, <1>3, BetweenKept

\* One that fails marks its row.
LEMMA BetweenFails ==
    ASSUME Base, BetweenInv, NEW o \in Slots, Fails(o), UNCHANGED frozen
    PROVE  BetweenInv'
<1>0. Ops /\ Rows /\ op[o] \in Op
  BY Given
<1>1. rows' = Mark({op[o].id}, "failed") /\ "failed" \in States \ Under
  BY DEF Fails, States, Under
<1>2. CASE Done(o)
  BY <1>1, <1>2, BetweenEnds
<1>3. ASSUME NEW k \in {"undo", "discard"},
             op' = [op EXCEPT ![o] = [op[o] EXCEPT !.kind = k, !.at = "remove"]]
      PROVE  BetweenInv'
  <2>1. op'[o].kind = k /\ op'[o].at = "remove" /\ \A s \in Slots \ {o} : op'[s] = op[s]
    BY <1>0, <1>3 DEF Ops, Op
  <2>2. RowlessHasNone(op'[o])
    BY <2>1 DEF RowlessHasNone, Planned
  <2>3. \A r \in rows' : r.state \in Under => r \in rows /\ r.id # op[o].id
    BY <1>0, <1>1 DEF Mark, Rows, RowOf, Row
  <2>4. QED
    BY <2>1, <2>2, <2>3, BetweenKept
<1>4. QED
  BY <1>2, <1>3 DEF Fails, Done

\* A row that goes; the next is marked.
LEMMA BetweenRowGoes ==
    ASSUME Base, BetweenInv, NEW o \in Slots, NEW bad \in BOOLEAN, RowGoes(o, bad),
           op[o].kind \in {"rm", "rmProject", "forget"}, UNCHANGED frozen
    PROVE  BetweenInv'
<1> DEFINE one == op[o].kind = "rm"
           d == [op[o] EXCEPT !.bad = bad]
           c == Take(d, op[o].todo)
<1>0. Ops /\ Rows /\ op[o] \in Op /\ made \in Nat /\ OpOf(op[o], made)
  BY Given
<1>1. d \in Op /\ d.kind = op[o].kind /\ d.name = op[o].name /\ d.id = op[o].id
      /\ d.project = op[o].project
  BY <1>0 DEF Op
<1>2. op' = [op EXCEPT ![o] = IF one THEN Idle ELSE c]
  BY DEF RowGoes
<1>3. rows' = {r \in (IF one THEN rows ELSE Mark({c.id}, "destroying")) : r.id # op[o].id}
  BY DEF RowGoes
<1>4. c.kind = op[o].kind
  BY <1>1, TakeKeeps
<1>5. c.at \in {"network", "stop"} /\ (c.at = "network" => c.id = None)
  <2> HIDE DEF d
  <2>1. QED
    BY <1>1, TakeAt, TakeStops
<1> HIDE DEF c, d
<1>6. \A s \in Slots \ {o} : op'[s] = op[s]
  BY <1>0, <1>2 DEF Ops
<1>7. CASE one
  <2>1. op'[o] = Idle /\ rows' \subseteq rows /\ \A r \in rows' : r.id # op[o].id
    BY <1>0, <1>2, <1>3, <1>7 DEF Ops
  <2>2. RowlessHasNone(op'[o])
    BY <2>1, IdleIsOp DEF RowlessHasNone
  <2>3. QED
    BY <1>6, <2>1, <2>2, BetweenKept
<1>8. CASE ~one
  <2>1. op'[o] = c
    BY <1>0, <1>2, <1>8 DEF Ops
  <2>2. RowlessHasNone(op'[o])
    BY <1>5, <2>1 DEF RowlessHasNone, Planned
  <2>3. ASSUME NEW r \in rows'
        PROVE  (r \in rows /\ r.id # op[o].id) \/ (r.id = c.id /\ r.state = "destroying")
    BY <1>0, <1>3, <1>8 DEF Mark, Rows, RowOf, Row
  <2>4. Doer(c.kind, "destroying")
    BY <1>4 DEF Doer
  <2>5. QED
    BY <1>6, <2>1, <2>2, <2>3, <2>4, BetweenKept
<1>9. QED
  BY <1>7, <1>8


\* One that begins takes up at most one row, and is the one to see it through.
LEMMA BetweenBegun ==
    ASSUME Base, BetweenInv, NEW o \in Slots, op[o] = Idle, UNCHANGED frozen, NEW c,
           op' = [op EXCEPT ![o] = c], RowlessHasNone(c),
           \/ UNCHANGED rows
           \/ \E s \in States : rows' = Mark({c.id}, s) /\ (s \in Under => Doer(c.kind, s))
    PROVE  BetweenInv'
<1>0. Ops /\ Rows
  BY Given
<1>1. op'[o] = c /\ \A s \in Slots \ {o} : op'[s] = op[s]
  BY <1>0 DEF Ops
<1>2. op[o].id = 0
  BY IdleIsOp
<1>3. \A r \in rows : r.id # 0
  BY <1>0 DEF Rows, RowOf
<1>4. ASSUME NEW r \in rows', r.state \in Under
      PROVE  r \in rows \/ (r.id = c.id /\ Doer(c.kind, r.state))
  <2>1. CASE UNCHANGED rows
    BY <2>1
  <2>2. ASSUME NEW s \in States, rows' = Mark({c.id}, s), s \in Under => Doer(c.kind, s)
        PROVE  r \in rows \/ (r.id = c.id /\ Doer(c.kind, r.state))
    <3>1. PICK q \in rows : r = IF q.id \in {c.id} THEN [q EXCEPT !.state = s] ELSE q
      BY <2>2 DEF Mark
    <3>2. CASE q.id = c.id
      <4>1. r.id = c.id /\ r.state = s
        BY <1>0, <3>1, <3>2 DEF Rows, RowOf, Row
      <4>2. QED
        BY <1>4, <2>2, <4>1
    <3>3. QED
      BY <3>1, <3>2
  <2>3. QED
    BY <2>1, <2>2
<1>5. \A r \in rows' : r.state \in Under =>
         \/ \E q \in rows : /\ q.id = r.id /\ q.name = r.name /\ q.state = r.state
                            /\ q.id # op[o].id \/ ~Doer(op[o].kind, q.state)
         \/ op'[o].id = r.id /\ Doer(op'[o].kind, r.state)
  BY <1>1, <1>2, <1>3, <1>4
<1>6. RowlessHasNone(op'[o])
  BY <1>1
<1>7. QED
  BY <1>1, <1>5, <1>6, BetweenKept

LEMMA BetweenBegins ==
    ASSUME Base, BetweenInv, NEW o \in Slots, Begins(o)
    PROVE  BetweenInv'
<1>0. UNCHANGED frozen
  BY DEF Begins, RmProjectBegins, EjectBegins, RestoreBegins, CreateBegins, RmBegins,
     WakeBegins, BranchBegins
<1>1. ASSUME NEW n \in Names, NEW k \in Kinds, CreateBegins(o, n, k) PROVE BetweenInv'
  <2> DEFINE c == [Idle EXCEPT !.kind = "create", !.at = IF k = "db" THEN "probe" ELSE "build",
                               !.name = n, !.res = k, !.project = project[n],
                               !.port = Least(Free)]
  <2>1. op' = [op EXCEPT ![o] = c] /\ op[o] = Idle /\ UNCHANGED rows
    BY <1>1 DEF CreateBegins, Begin, store
  <2>2. c.id = None /\ c.kind = "create"
    BY IdleIsOp DEF Op
  <2> HIDE DEF c
  <2>3. RowlessHasNone(c)
    BY <2>2 DEF RowlessHasNone
  <2>4. QED
    BY <1>0, <2>1, <2>3, BetweenBegun
<1>2. ASSUME NEW a \in Names, NEW b \in Names, BranchBegins(o, a, b) \/ RestoreBegins(o, b)
      PROVE  BetweenInv'
  <2> DEFINE c == [Idle EXCEPT !.kind = "branch", !.at = "clone", !.name = b, !.res = "db",
                               !.project = made + 1]
             d == [Idle EXCEPT !.kind = "restore", !.at = "clone", !.name = b, !.res = "db"]
  <2>1. op[o] = Idle /\ UNCHANGED rows /\ (op' = [op EXCEPT ![o] = c] \/ op' = [op EXCEPT ![o] = d])
    BY <1>2 DEF BranchBegins, RestoreBegins, Begin, store
  <2>2. c.id = None /\ d.id = None
    BY IdleIsOp DEF Op
  <2> HIDE DEF c, d
  <2>3. RowlessHasNone(c) /\ RowlessHasNone(d)
    BY <2>2 DEF RowlessHasNone
  <2>4. QED
    BY <1>0, <2>1, <2>3, BetweenBegun
<1>3. ASSUME NEW n \in Names, NEW r \in rows, RmBegins(o, n, r) PROVE BetweenInv'
  <2> DEFINE c == [Idle EXCEPT !.kind = "rm", !.at = "stop", !.name = n, !.res = r.kind,
                               !.id = r.id]
  <2>1. op' = [op EXCEPT ![o] = c] /\ op[o] = Idle /\ rows' = Mark({r.id}, "destroying")
    BY <1>3 DEF RmBegins, Begin
  <2>2. c.at = "stop" /\ c.kind = "rm" /\ c.id = r.id
    BY IdleIsOp DEF Op
  <2> HIDE DEF c
  <2>3. RowlessHasNone(c) /\ Doer(c.kind, "destroying") /\ "destroying" \in States
    BY <2>2 DEF RowlessHasNone, Planned, Doer, States
  <2>4. QED
    BY <1>0, <2>1, <2>2, <2>3, BetweenBegun
<1>4. ASSUME NEW n \in Names, NEW r \in rows, WakeBegins(o, n, r) PROVE BetweenInv'
  <2> DEFINE c == [Idle EXCEPT !.kind = "wake", !.at = "start", !.name = n, !.res = r.kind,
                               !.id = r.id, !.port = r.port]
  <2>1. op' = [op EXCEPT ![o] = c] /\ op[o] = Idle /\ rows' = Mark({r.id}, "starting")
    BY <1>4 DEF WakeBegins, Begin
  <2>2. c.at = "start" /\ c.kind = "wake" /\ c.id = r.id
    BY IdleIsOp DEF Op
  <2> HIDE DEF c
  <2>3. RowlessHasNone(c) /\ "starting" \in States /\ "starting" \notin Under
    BY <2>2 DEF RowlessHasNone, Planned, States, Under
  <2>4. QED
    BY <1>0, <2>1, <2>2, <2>3, BetweenBegun
<1>5. ASSUME NEW n \in Names, RmProjectBegins(o, n) PROVE BetweenInv'
  <2> DEFINE k == IF n \in released THEN "forget" ELSE "rmProject"
             p == project[n]
             d == [Idle EXCEPT !.kind = k, !.name = n, !.project = p]
             c == Take(d, {<<r.id, r.kind>> : r \in RowsOf(project[n])})
  <2>1. op' = [op EXCEPT ![o] = c] /\ op[o] = Idle /\ rows' = Mark({c.id}, "destroying")
    BY <1>5 DEF RmProjectBegins, Begin
  <2>2. d \in Op /\ d.kind \in {"forget", "rmProject"}
    <3>1. p \in Nat /\ k \in {"forget", "rmProject"}
      BY Given DEF Count
    <3> HIDE DEF p, k
    <3>2. QED
      BY <3>1, IdleIsOp DEF Op, OpKinds
  <2> HIDE DEF d
  <2>3. c.at \in {"network", "stop"} /\ (c.at = "network" => c.id = None) /\ c.kind = d.kind
    BY <2>2, TakeAt, TakeStops, TakeKeeps
  <2> HIDE DEF c
  <2>4. RowlessHasNone(c) /\ Doer(c.kind, "destroying") /\ "destroying" \in States
    BY <2>2, <2>3 DEF RowlessHasNone, Planned, Doer, States
  <2>5. QED
    BY <1>0, <2>1, <2>4, BetweenBegun
<1>6. ASSUME NEW n \in Names, EjectBegins(o, n) PROVE BetweenInv'
  <2> DEFINE p == project[n]
             T == {<<r.id, r.kind>> : r \in {x \in RowsOf(project[n]) : x.state = "running"}}
             d == [Idle EXCEPT !.kind = "eject", !.name = n, !.project = p]
             t == Take(d, T)
             c == [t EXCEPT !.at = "stop"]
  <2>1. CASE UNCHANGED <<rows, op>>
    BY <1>0, <2>1 DEF BetweenInv
  <2>2. CASE op' = [op EXCEPT ![o] = c] /\ op[o] = Idle /\ rows' = Mark({op'[o].id}, "stopping")
    <3>1. d \in Op /\ d.kind = "eject"
      <4>1. p \in Nat
        BY Given DEF Count
      <4> HIDE DEF p
      <4>2. QED
        BY <4>1, IdleIsOp DEF Op, OpKinds
    <3>2. t \in Op /\ t.kind = "eject"
      <4>1. T \in SUBSET ((1..made) \X Kinds) /\ made \in Nat
        BY ListedRows, Given DEF RowsOf
      <4>2. T \in SUBSET (Nat \X Kinds)
        BY <4>1
      <4> HIDE DEF T, d
      <4>3. QED
        BY <3>1, <4>2, TakeInOp, TakeKeeps
    <3> HIDE DEF t
    <3>3. c.at = "stop" /\ c.kind = "eject"
      BY <3>2 DEF Op
    <3> HIDE DEF c
    <3>4. RowlessHasNone(c) /\ Doer(c.kind, "stopping") /\ "stopping" \in States
      BY <3>3 DEF RowlessHasNone, Planned, Doer, States
    <3>5. op'[o] = c
      BY <2>2, Given DEF Ops
    <3>6. rows' = Mark({c.id}, "stopping") /\ op' = [op EXCEPT ![o] = c] /\ op[o] = Idle
      BY <2>2, <3>5
    <3>7. QED
      BY <1>0, <3>4, <3>6, BetweenBegun
  <2>3. QED
    BY <1>6, <2>1, <2>2 DEF EjectBegins, Begin
<1>7. QED
  BY <1>1, <1>2, <1>3, <1>4, <1>5, <1>6 DEF Begins

LEMMA BetweenBuild ==
    ASSUME Base, BetweenInv, NEW o \in Slots, Build(o)
    PROVE  BetweenInv'
<1>1. op[o].at = "build" /\ op[o].id = None /\ UNCHANGED <<rows, frozen>>
  BY DEF Build, Has, BetweenInv, RowlessHasNone, Planned, store, hist
<1>2. CASE Go(o, "probe")
  BY <1>1, <1>2, BetweenGoesOn DEF Planned, Ats
<1>3. CASE Done(o)
  BY <1>1, <1>3, BetweenEnds
<1>4. QED
  BY <1>2, <1>3 DEF Build

\* The row of a creation is its own.
LEMMA BetweenInserts ==
    ASSUME Base, BetweenInv, NEW o \in Slots, Inserts(o)
    PROVE  BetweenInv'
<1> DEFINE c == op[o]
           n == [id |-> made + 1, project |-> c.project, name |-> c.name, kind |-> c.res,
                 state |-> "creating", port |-> c.port,
                 seed |-> IF c.kind = "create" THEN made + 1 ELSE Copied]
<1>0. /\ Ops /\ Rows /\ c \in Op /\ UNCHANGED frozen /\ c.at = "probe" /\ c.id = None
      /\ c.kind \in {"create", "branch", "restore"}
  BY Given DEF Inserts, Has, BetweenInv, RowlessHasNone, Planned
<1>1. CASE Done(o) /\ UNCHANGED rows
  BY <1>0, <1>1, BetweenEnds
<1>2. CASE /\ rows' = rows \cup {n}
           /\ op' = [s \in Slots |->
               IF s = o THEN [op[s] EXCEPT !.at = "network", !.id = made + 1]
               ELSE [op[s] EXCEPT !.beside = @ \/ op[s].at \in {"build", "probe"}]]
  <2>1. n.id = made + 1 /\ n.state = "creating"
    OBVIOUS
  <2> HIDE DEF n
  <2>2. op'[o].id = made + 1 /\ op'[o].kind = c.kind /\ op'[o].at = "network"
    BY <1>0, <1>2 DEF Op
  <2>3. ASSUME NEW s \in Slots, s # o
        PROVE  op'[s].id = op[s].id /\ op'[s].kind = op[s].kind /\ op'[s].at = op[s].at
    BY <1>2, <2>3, Given DEF Op
  <2>4. ASSUME NEW r \in rows', r.name \notin frozen', r.state \in Under
        PROVE  \E s \in Slots : op'[s].id = r.id /\ Doer(op'[s].kind, r.state)
    <3>1. CASE r = n
      BY <1>0, <2>1, <2>2, <3>1 DEF Doer
    <3>2. CASE r \in rows
      <4>1. PICK s \in Slots : op[s].id = r.id /\ Doer(op[s].kind, r.state)
        BY <1>0, <2>4, <3>2 DEF BetweenInv
      <4>2. r.id # 0
        BY <1>0, <3>2 DEF Rows, RowOf
      <4>3. s # o
        BY <1>0, <4>1, <4>2
      <4>4. QED
        BY <2>3, <4>1, <4>3
    <3>3. QED
      BY <1>2, <2>4, <3>1, <3>2
  <2>5. ASSUME NEW s \in Slots PROVE RowlessHasNone(op'[s])
    <3>1. CASE s = o
      BY <1>0, <2>2, <3>1 DEF RowlessHasNone, Planned
    <3>2. CASE s # o
      BY <2>3, <3>2 DEF BetweenInv, RowlessHasNone
    <3>3. QED
      BY <3>1, <3>2
  <2>6. QED
    BY <2>4, <2>5 DEF BetweenInv
<1>3. QED
  BY <1>1, <1>2 DEF Inserts

\* What a copy becomes has no row yet, or is done for.
LEMMA BetweenCloned ==
    ASSUME Base, BetweenInv, NEW o \in Slots, Cloned(o)
    PROVE  BetweenInv'
<1>0. Ops /\ Rows /\ op[o] \in Op /\ UNCHANGED <<rows, frozen>> /\ op[o].id = None
      /\ op[o].kind \in {"branch", "restore"}
  BY Given DEF Cloned, Has, BetweenInv, RowlessHasNone, Planned
<1>1. CASE Done(o)
  BY <1>0, <1>1, BetweenEnds
<1>2. ASSUME NEW c, op' = [op EXCEPT ![o] = c], c.id = None
      PROVE  BetweenInv'
  <2>1. op'[o] = c /\ \A s \in Slots \ {o} : op'[s] = op[s]
    BY <1>0, <1>2 DEF Ops
  <2>2. RowlessHasNone(op'[o])
    BY <1>2, <2>1 DEF RowlessHasNone
  <2>3. \A r \in rows' : r \in rows /\ r.id # op[o].id
    BY <1>0 DEF Rows, RowOf
  <2>4. QED
    BY <1>0, <2>1, <2>2, <2>3, BetweenKept
<1>3. ASSUME NEW p, op' = [op EXCEPT ![o].at = "probe", ![o].project = p, ![o].port = Least(Free)]
      PROVE  BetweenInv'
  <2> DEFINE c == [op[o] EXCEPT !.at = "probe", !.project = p, !.port = Least(Free)]
  <2>1. op' = [op EXCEPT ![o] = c]
    BY <1>0, <1>3 DEF Ops, Op
  <2>2. c.id = None
    BY <1>0 DEF Op
  <2> HIDE DEF c
  <2>3. QED
    BY <1>2, <2>1, <2>2
<1>4. ASSUME op' = [op EXCEPT ![o] = [op[o] EXCEPT !.kind = "discard", !.at = "remove"]]
      PROVE  BetweenInv'
  <2> DEFINE c == [op[o] EXCEPT !.kind = "discard", !.at = "remove"]
  <2>1. op' = [op EXCEPT ![o] = c]
    BY <1>4
  <2>2. c.id = None
    BY <1>0 DEF Op
  <2> HIDE DEF c
  <2>3. QED
    BY <1>2, <2>1, <2>2
<1>5. QED
  BY <1>0, <1>1, <1>3, <1>4 DEF Cloned, Done

LEMMA BetweenCreates ==
    ASSUME Base, BetweenInv, NEW o \in Slots,
           \/ Network(o) \/ Container(o) \/ Starts(o) \/ Ready(o) \/ Rests(o) \/ Undo(o)
    PROVE  BetweenInv'
<1>0. UNCHANGED frozen
  BY DEF Network, Container, Starts, Ready, Rests, Undo, hist
<1>1. CASE Fails(o)
  BY <1>0, <1>1, BetweenFails
<1>2. ASSUME NEW at \in {"container", "start", "ready", "stop"}, Go(o, at), UNCHANGED rows,
             op[o].kind = "create" \/ at = "container"
      PROVE  BetweenInv'
  BY <1>0, <1>2, BetweenGoesOn DEF Planned, Ats
<1>3. CASE Done(o) /\ rows' = Mark({op[o].id}, "sleeping")
  BY <1>0, <1>3, BetweenEnds DEF States, Under
<1>4. CASE Undo(o)
  BY <1>0, <1>4, BetweenEnds DEF Undo, Has, store
<1>5. QED
  BY <1>1, <1>2, <1>3, <1>4 DEF Network, Container, Starts, Ready, Rests, Has

LEMMA BetweenWakes ==
    ASSUME Base, BetweenInv, NEW o \in Slots, WakeMakes(o) \/ WakeStarts(o) \/ WakeEnds(o)
    PROVE  BetweenInv'
<1>0. UNCHANGED frozen
  BY DEF WakeMakes, WakeStarts, WakeEnds, hist
<1>1. CASE UNCHANGED <<rows, op>>
  BY <1>0, <1>1 DEF BetweenInv
<1>2. CASE Go(o, "ready") /\ UNCHANGED rows
  BY <1>0, <1>2, BetweenGoesOn DEF Planned, Ats
<1>3. CASE Done(o) /\ \E s \in {"failed", "running"} : rows' = Mark({op[o].id}, s)
  BY <1>0, <1>3, BetweenEnds DEF States, Under
<1>4. QED
  BY <1>1, <1>2, <1>3 DEF WakeMakes, WakeStarts, WakeEnds, store

LEMMA BetweenRemoves ==
    ASSUME Base, BetweenInv, NEW o \in Slots, StopBox(o) \/ RemoveBox(o) \/ Wipe(o)
    PROVE  BetweenInv'
<1>0. UNCHANGED frozen /\ op[o].kind \in Removers /\ op[o].bad \in BOOLEAN
  BY Given, OpFields DEF StopBox, RemoveBox, Wipe, Has, Removers
<1>1. ASSUME NEW b \in BOOLEAN, NEW at \in {"remove", "wipe"}, Hit(o, at, b), UNCHANGED rows
      PROVE  BetweenInv'
  BY <1>0, <1>1, BetweenGoesOn DEF Planned, Ats
<1>2. ASSUME NEW b \in BOOLEAN, RowGoes(o, b), op[o].kind \in {"rm", "rmProject", "forget"}
      PROVE  BetweenInv'
  BY <1>0, <1>2, BetweenRowGoes
<1>3. CASE StopBox(o)
  BY <1>1, <1>2, <1>3 DEF StopBox, Has
<1>4. CASE RemoveBox(o)
  <2>1. PICK fails \in BOOLEAN :
           \/ op[o].kind = "forget" /\ RowGoes(o, op[o].bad \/ fails)
           \/ Hit(o, "wipe", fails) /\ UNCHANGED rows
    BY <1>4 DEF RemoveBox
  <2>2. (op[o].bad \/ fails) \in BOOLEAN
    OBVIOUS
  <2>3. QED
    BY <1>1, <1>2, <2>1, <2>2
<1>5. CASE Wipe(o)
  BY <1>0, <1>2, <1>5 DEF Wipe, Has
<1>6. QED
  BY <1>3, <1>4, <1>5

\* A project's rows go with it.
LEMMA BetweenClears ==
    ASSUME Base, BetweenInv, NEW o \in Slots,
           \/ RemoveNetwork(o) \/ RemoveDirectory(o)
           \/ DiscardBox(o) \/ DiscardNetwork(o) \/ DiscardDirectory(o)
    PROVE  BetweenInv'
<1>0. UNCHANGED frozen
  BY DEF RemoveNetwork, RemoveDirectory, DiscardBox, DiscardNetwork, DiscardDirectory, hist
<1>1. rows' \subseteq rows
  BY DEF RemoveNetwork, RemoveDirectory, DiscardBox, DiscardNetwork, DiscardDirectory,
         DeleteProject, store
<1>2. CASE Done(o)
  <2>1. op[o].id = None \/ op[o].kind = "discard"
    BY <1>2 DEF RemoveNetwork, RemoveDirectory, DiscardBox, DiscardNetwork, DiscardDirectory,
         Has, BetweenInv, RowlessHasNone
  <2>2. QED
    BY <1>0, <1>1, <1>2, <2>1, BetweenEnds
<1>3. CASE RemoveNetwork(o) /\ ~Done(o)
  <2>1. op[o].at = "network" /\ UNCHANGED rows /\ \E b \in BOOLEAN : Hit(o, "directory", b)
    BY <1>3 DEF RemoveNetwork, Has, store
  <2>2. QED
    BY <1>0, <2>1, BetweenGoesOn DEF Planned, Ats
<1>4. CASE DiscardBox(o) \/ DiscardNetwork(o)
  <2>1. PICK at \in {"network", "directory"} : Go(o, at)
    BY <1>4 DEF DiscardBox, DiscardNetwork
  <2>2. op[o].kind = "discard"
    BY <1>4 DEF DiscardBox, DiscardNetwork, Has
  <2>3. op'[o].kind = "discard" /\ op'[o].at = at /\ \A s \in Slots \ {o} : op'[s] = op[s]
    BY <2>1, <2>2, GoesOn DEF Ats
  <2>4. RowlessHasNone(op'[o])
    BY <2>3 DEF RowlessHasNone, Planned
  <2>5. \A r \in rows' : ~Doer(op[o].kind, r.state)
    BY <2>2 DEF Doer
  <2>6. QED
    BY <1>0, <1>1, <2>3, <2>4, <2>5, BetweenKept
<1>5. QED
  BY <1>2, <1>3, <1>4 DEF RemoveDirectory, DiscardDirectory

LEMMA BetweenEjects ==
    ASSUME Base, BetweenInv, NEW o \in Slots, EjectStops(o)
    PROVE  BetweenInv'
<1> DEFINE c == Take(op[o], op[o].todo)
<1>0. Ops /\ Rows /\ op[o] \in Op /\ UNCHANGED frozen /\ op[o].kind = "eject"
  BY Given DEF EjectStops, Has, hist
<1>1. c.kind = "eject" /\ c.at \in {"network", "stop"}
  BY <1>0, TakeKeeps, TakeAt
<1>2. op' = [op EXCEPT ![o] = IF c.id = None THEN Idle ELSE c]
  BY DEF EjectStops
<1>3. PICK end \in {"sleeping", "failed"} :
         rows' = {IF r.id = op[o].id THEN [r EXCEPT !.state = end]
                  ELSE IF r.id = c.id THEN [r EXCEPT !.state = "stopping"] ELSE r : r \in rows}
  BY DEF EjectStops
<1> HIDE DEF c
<1>4. \A s \in Slots \ {o} : op'[s] = op[s]
  BY <1>0, <1>2 DEF Ops
<1>5. RowlessHasNone(op'[o])
  BY <1>0, <1>1, <1>2, IdleIsOp DEF RowlessHasNone, Planned, Ops
<1>6. ASSUME NEW r \in rows', r.state \in Under
      PROVE  \/ r \in rows /\ r.id # op[o].id
             \/ op'[o].id = r.id /\ Doer(op'[o].kind, r.state)
  <2>1. PICK q \in rows :
           r = IF q.id = op[o].id THEN [q EXCEPT !.state = end]
               ELSE IF q.id = c.id THEN [q EXCEPT !.state = "stopping"] ELSE q
    BY <1>3
  <2>2. q \in Row /\ q.id # 0
    BY <1>0 DEF Rows, RowOf
  <2>3. CASE q.id = op[o].id
    BY <1>6, <2>1, <2>2, <2>3 DEF Row, Under
  <2>4. CASE q.id # op[o].id /\ q.id = c.id
    <3>1. r.id = c.id /\ r.state = "stopping"
      BY <2>1, <2>2, <2>4 DEF Row
    <3>2. op'[o] = c
      BY <1>0, <1>2, <2>2, <2>4 DEF Ops
    <3>3. QED
      BY <1>1, <3>1, <3>2 DEF Doer
  <2>5. QED
    BY <2>1, <2>3, <2>4
<1>7. QED
  BY <1>0, <1>4, <1>5, <1>6, BetweenKept

\* The reconcile of a daemon that comes up passes by only what was handed over.
LEMMA BetweenDies ==
    ASSUME Base, BetweenInv, DaemonDies
    PROVE  BetweenInv'
<1>0. Ops /\ Rows
  BY Given
<1>1. op' = [o \in Slots |-> Idle] /\ frozen' = frozen \cup released
      /\ rows' = {Relabel(r) : r \in rows \ {q \in rows : q.state = "destroying"}}
  BY DEF DaemonDies
<1>2. ASSUME NEW r \in rows', r.name \notin frozen' PROVE r.state \notin Under
  <2>1. PICK q \in rows : r = Relabel(q)
    BY <1>1
  <2>2. r.name = q.name
    BY <2>1, RelabelKeeps
  <2>3. q.name \notin released
    BY <1>1, <1>2, <2>2
  <2>4. q \in Row
    BY <1>0 DEF Rows, RowOf
  <2>5. r.state \in {"failed", "running", "starting", "sleeping"}
    BY <2>1, <2>3, <2>4 DEF Relabel, Row
  <2>6. QED
    BY <2>5 DEF Under
<1>3. \A o \in Slots : RowlessHasNone(op'[o])
  BY <1>1, IdleIsOp DEF RowlessHasNone
<1>4. QED
  BY <1>2, <1>3 DEF BetweenInv

\* Once nothing is under way no row reads as if something were, but for those of a project
\* that was handed over when the daemon died.
THEOREM NothingIsStuckBetween == Spec => []NothingStaysBetween
<1>1. Init => BetweenInv
  BY IdleIsOp DEF Init, BetweenInv, RowlessHasNone
<1>2. Base /\ BetweenInv /\ [Next]_vars => BetweenInv'
  <2> SUFFICES ASSUME Base, BetweenInv, [Next]_vars PROVE BetweenInv'
    OBVIOUS
  <2>1. ASSUME NEW o \in Slots, Begins(o) \/ Goes(o) PROVE BetweenInv'
    BY <2>1, BetweenBegins, BetweenBuild, BetweenInserts, BetweenCloned, BetweenCreates,
       BetweenWakes, BetweenRemoves, BetweenClears, BetweenEjects DEF Goes
  <2>2. CASE UNCHANGED <<rows, op, frozen>>
    BY <2>2 DEF BetweenInv
  <2>3. QED
    BY <2>1, <2>2, BetweenDies DEF Next, NewProject, Adopt, vars, store, hist
<1>3. BetweenInv => NothingStaysBetween
  <2> SUFFICES ASSUME BetweenInv, Quiet, NEW r \in rows, r.name \notin frozen,
                      r.state \in {"creating", "destroying", "stopping"}
               PROVE  FALSE
    BY DEF NothingStaysBetween
  <2>1. PICK o \in Slots : Doer(op[o].kind, r.state)
    BY DEF BetweenInv, Under
  <2>2. op[o].kind = "idle"
    BY IdleIsOp DEF Quiet
  <2>3. QED
    BY <2>1, <2>2 DEF Doer
<1>4. QED
  BY BaseHolds, <1>1, <1>2, <1>3, PTL DEF Spec

-----------------------------------------------------------------------------
(* The fourth part of the inductive invariant: what numbers refer to.      *)

\* A project's number belongs to a name wherever it is held.
Claims(p, n) ==
    /\ p # None
    /\ \/ project[n] = p
       \/ \E r \in rows : r.project = p /\ r.name = n
       \/ \E o \in Slots : op[o].project = p /\ op[o].name = n

\* A row an operation refers to has the operation's name, and the kind it takes it for.
Named(c, r) ==
    /\ r.id = c.id => r.name = c.name /\ r.kind = c.res
    /\ \A k \in Kinds : <<r.id, k>> \in c.todo => r.name = c.name /\ r.kind = k

Seeded   == \A r \in rows : r.seed \in {r.id, Copied}
OneName  == \A p \in Nat, m, n \in Names : Claims(p, m) /\ Claims(p, n) => m = n
OneKind  == \A r, s \in rows : r.project = s.project /\ r.kind = s.kind => r = s
Naming   == \A o \in Slots, r \in rows : Named(op[o], r)
SoundInv == Seeded /\ OneName /\ OneKind /\ Naming

\* Steps that keep the rows, and give no project a number of its own.
LEMMA SoundKept ==
    ASSUME Base, Base', SoundInv, Kept(rows', rows),
           \A n \in Names : project'[n] = None \/ Claims(project'[n], n),
           \A s \in Slots : /\ op'[s].project = None \/ Claims(op'[s].project, op'[s].name)
                            /\ \A r \in rows : Named(op'[s], r)
    PROVE  SoundInv'
<1>1. \A r \in rows' : \E q \in rows : /\ r.id = q.id /\ r.project = q.project /\ r.name = q.name
                                       /\ r.kind = q.kind /\ r.seed = q.seed
  BY Given DEF Kept, Rows, RowOf, Row
<1>2. Seeded'
  BY <1>1 DEF SoundInv, Seeded
<1>3. ASSUME NEW p \in Nat, NEW n \in Names, Claims(p, n)' PROVE Claims(p, n)
  <2>1. CASE project'[n] = p
    BY <1>3, <2>1 DEF Claims
  <2>2. CASE \E r \in rows' : r.project = p /\ r.name = n
    BY <1>1, <1>3, <2>2 DEF Claims
  <2>3. CASE \E s \in Slots : op'[s].project = p /\ op'[s].name = n
    BY <1>3, <2>3 DEF Claims
  <2>4. QED
    BY <1>3, <2>1, <2>2, <2>3 DEF Claims
<1>4. OneName'
  BY <1>3 DEF SoundInv, OneName
<1>5. OneKind'
  <2>1. ASSUME NEW r \in rows', NEW s \in rows', r.project = s.project, r.kind = s.kind PROVE r = s
    <3>1. PICK q \in rows : r.id = q.id /\ r.project = q.project /\ r.kind = q.kind
      BY <1>1
    <3>2. PICK u \in rows : s.id = u.id /\ s.project = u.project /\ s.kind = u.kind
      BY <1>1
    <3>3. q = u
      BY <2>1, <3>1, <3>2 DEF SoundInv, OneKind
    <3>4. Rows'
      BY DEF Base
    <3>5. QED
      BY <3>1, <3>2, <3>3, <3>4 DEF Rows
  <2>2. QED
    BY <2>1 DEF OneKind
<1>6. Naming'
  <2>1. ASSUME NEW s \in Slots, NEW r \in rows' PROVE Named(op'[s], r)
    <3>1. PICK q \in rows : r.id = q.id /\ r.name = q.name /\ r.kind = q.kind
      BY <1>1
    <3>2. Named(op'[s], q)
      OBVIOUS
    <3>3. QED
      BY <3>1, <3>2 DEF Named
  <2>2. QED
    BY <2>1 DEF Naming, Named
<1>7. QED
  BY <1>2, <1>4, <1>5, <1>6 DEF SoundInv

\* A step of one operation.
LEMMA SoundOne ==
    ASSUME Base, Base', SoundInv, Kept(rows', rows), NEW o \in Slots,
           \A n \in Names : project'[n] \in {None, project[n]},
           \A s \in Slots \ {o} : op'[s] = op[s],
           op'[o].project = None \/ Claims(op'[o].project, op'[o].name),
           \A r \in rows : Named(op'[o], r)
    PROVE  SoundInv'
<1>1. \A n \in Names : project'[n] = None \/ Claims(project'[n], n)
  BY DEF Claims
<1>2. ASSUME NEW s \in Slots
      PROVE  /\ op'[s].project = None \/ Claims(op'[s].project, op'[s].name)
             /\ \A r \in rows : Named(op'[s], r)
  BY DEF SoundInv, Naming, Claims
<1>3. QED
  BY <1>1, <1>2, SoundKept

LEMMA IdleIsNamed ==
    ASSUME Base, NEW r \in rows
    PROVE  Named(Idle, r)
<1>1. r.id # 0
  BY Given DEF Rows, RowOf
<1>2. QED
  BY <1>1, IdleIsOp DEF Named

\* What an operation takes next it has listed.
LEMMA TakeNames ==
    ASSUME Base, NEW c \in Op, NEW todo \in SUBSET ((1..made) \X Kinds), NEW r \in rows,
           \A k \in Kinds : <<r.id, k>> \in todo => r.name = c.name /\ r.kind = k
    PROVE  Named(Take(c, todo), r)
<1> DEFINE d == Take(c, todo)
<1>0. r.id # 0
  BY Given DEF Rows, RowOf
<1>1. d.name = c.name
  BY TakeKeeps
<1>2. CASE todo = {}
  <2>1. d.id = None /\ d.todo = {}
    BY <1>2 DEF Take, Op
  <2>2. QED
    BY <1>0, <2>1 DEF Named
<1>3. CASE todo # {}
  <2>1. <<d.id, d.res>> \in todo /\ d.todo \subseteq todo
    <3> DEFINE x == CHOOSE x \in todo : \A y \in todo : x[1] <= y[1]
    <3>1. made \in Nat
      BY Given
    <3>2. todo \in SUBSET (Nat \X Kinds)
      BY <3>1
    <3>3. x \in todo
      BY <1>3, <3>2, FirstIsListed
    <3>4. PICK i \in Nat, k \in Kinds : x = <<i, k>>
      BY <3>2, <3>3
    <3>5. d = [c EXCEPT !.at = "stop", !.todo = todo \ {x}, !.id = x[1], !.res = x[2]]
      BY <1>3 DEF Take
    <3> HIDE DEF x, d
    <3>6. d.id = x[1] /\ d.res = x[2] /\ d.todo = todo \ {x}
      BY <3>5 DEF Op
    <3>7. QED
      BY <3>3, <3>4, <3>6
  <2>2. d.res \in Kinds
    BY <2>1
  <2> HIDE DEF d
  <2>3. Named(d, r)
    BY <1>1, <2>1, <2>2 DEF Named
  <2>4. QED
    BY <2>3 DEF d
<1>4. QED
  BY <1>2, <1>3

\* An operation that refers to what it referred to, or to nothing.
LEMMA SoundSame ==
    ASSUME Base, Base', SoundInv, Kept(rows', rows), NEW o \in Slots,
           \A n \in Names : project'[n] \in {None, project[n]},
           \A s \in Slots \ {o} : op'[s] = op[s],
           \/ op'[o] = Idle
           \/ /\ op'[o].project \in {None, op[o].project} /\ op'[o].name = op[o].name
              /\ op'[o].id = op[o].id /\ op'[o].res = op[o].res /\ op'[o].todo = op[o].todo
    PROVE  SoundInv'
<1>1. op'[o].project = None \/ Claims(op'[o].project, op'[o].name)
  BY IdleIsOp DEF Claims
<1>2. \A r \in rows : Named(op'[o], r)
  BY IdleIsNamed DEF SoundInv, Naming, Named
<1>3. QED
  BY <1>1, <1>2, SoundOne

\* Where an operation that goes on gets to.
LEMMA SoundMoves ==
    ASSUME Base, Base', SoundInv, Kept(rows', rows), NEW o \in Slots,
           \A n \in Names : project'[n] \in {None, project[n]},
           \/ Done(o) \/ Fails(o)
           \/ \E at \in Ats : Go(o, at) \/ \E b \in BOOLEAN : Hit(o, at, b)
           \/ \E b \in BOOLEAN : RowGoes(o, b)
    PROVE  SoundInv'
<1>0. Ops /\ op[o] \in Op
  BY Given
<1>1. CASE Done(o)
  <2>1. op'[o] = Idle /\ \A s \in Slots \ {o} : op'[s] = op[s]
    BY <1>0, <1>1 DEF Done, Ops
  <2>2. QED
    BY <2>1, SoundSame
<1>2. CASE Fails(o)
  <2>1. op' = [op EXCEPT ![o] = Idle] \/ \E k \in {"undo", "discard"} :
          op' = [op EXCEPT ![o] = [op[o] EXCEPT !.kind = k, !.at = "remove"]]
    BY <1>2 DEF Fails
  <2>2. /\ \A s \in Slots \ {o} : op'[s] = op[s]
        /\ \/ op'[o] = Idle
           \/ /\ op'[o].project = op[o].project /\ op'[o].name = op[o].name
              /\ op'[o].id = op[o].id /\ op'[o].res = op[o].res /\ op'[o].todo = op[o].todo
    <3>1. CASE op' = [op EXCEPT ![o] = Idle]
      BY <1>0, <3>1 DEF Ops
    <3>2. ASSUME NEW k, op' = [op EXCEPT ![o] = [op[o] EXCEPT !.kind = k, !.at = "remove"]]
          PROVE  /\ \A s \in Slots \ {o} : op'[s] = op[s]
                 /\ op'[o].project = op[o].project /\ op'[o].name = op[o].name
                 /\ op'[o].id = op[o].id /\ op'[o].res = op[o].res /\ op'[o].todo = op[o].todo
      <4> DEFINE e == [op[o] EXCEPT !.kind = k, !.at = "remove"]
      <4>1. /\ e.project = op[o].project /\ e.name = op[o].name
            /\ e.id = op[o].id /\ e.res = op[o].res /\ e.todo = op[o].todo
        BY <1>0 DEF Op
      <4> HIDE DEF e
      <4>2. op' = [op EXCEPT ![o] = e]
        BY <3>2 DEF e
      <4>3. op'[o] = e /\ \A s \in Slots \ {o} : op'[s] = op[s]
        BY <1>0, <4>2 DEF Ops
      <4>4. QED
        BY <4>1, <4>3
    <3>3. QED
      BY <2>1, <3>1, <3>2
  <2>3. QED
    BY <2>2, SoundSame
<1>3. CASE \E at \in Ats : Go(o, at) \/ \E b \in BOOLEAN : Hit(o, at, b)
  <2>1. PICK at \in Ats : Go(o, at) \/ \E b \in BOOLEAN : Hit(o, at, b)
    BY <1>3
  <2>2. /\ \A s \in Slots \ {o} : op'[s] = op[s]
        /\ op'[o].project = op[o].project /\ op'[o].name = op[o].name
        /\ op'[o].id = op[o].id /\ op'[o].res = op[o].res /\ op'[o].todo = op[o].todo
    BY <2>1, GoesOn
  <2>3. QED
    BY <2>2, SoundSame
<1>4. CASE \E b \in BOOLEAN : RowGoes(o, b)
  <2>1. PICK b \in BOOLEAN : RowGoes(o, b)
    BY <1>4
  <2> DEFINE d == [op[o] EXCEPT !.bad = b]
             c == Take(d, op[o].todo)
  <2>2. op' = [op EXCEPT ![o] = IF op[o].kind = "rm" THEN Idle ELSE c]
    BY <2>1 DEF RowGoes
  <2>3. \A s \in Slots \ {o} : op'[s] = op[s]
    <3> HIDE DEF c
    <3>1. QED
      BY <1>0, <2>2 DEF Ops
  <2>4. op[o].todo \in SUBSET ((1..made) \X Kinds)
    BY OpRange
  <2>5. d \in Op /\ d.name = op[o].name /\ d.project = op[o].project
    BY <1>0 DEF Op
  <2> HIDE DEF d
  <2>6. c.name = op[o].name /\ c.project = op[o].project
    BY <2>5, TakeKeeps
  <2>7. \A r \in rows : Named(c, r)
    BY <2>4, <2>5, TakeNames DEF SoundInv, Naming, Named
  <2> HIDE DEF c
  <2>8. op'[o] = Idle \/ op'[o] = c
    BY <1>0, <2>2 DEF Ops
  <2>9. op'[o].project = None \/ Claims(op'[o].project, op'[o].name)
    BY <2>6, <2>8, IdleIsOp DEF Claims
  <2>10. \A r \in rows : Named(op'[o], r)
    BY <2>7, <2>8, IdleIsNamed
  <2>11. QED
    BY <2>3, <2>9, <2>10, SoundOne
<1>5. QED
  BY <1>1, <1>2, <1>3, <1>4

\* A project that goes takes no other's number.
LEMMA DeletedIsFree ==
    ASSUME Base, NEW n \in Names, NEW p, DeleteProject(n, p)
    PROVE  \A m \in Names : project'[m] \in {None, project[m]}
BY Given DEF DeleteProject, Count

LEMMA SoundGoes ==
    ASSUME Base, Base', SoundInv, NEW o \in Slots, Goes(o),
           ~(Inserts(o) \/ Cloned(o) \/ EjectStops(o) \/ WakeMakes(o))
    PROVE  SoundInv'
<1>1. op[o].kind # "idle" /\ op[o].name \in Names /\ op[o].bad \in BOOLEAN
  <2>1. op[o].kind # "idle"
    BY DEF Goes, Build, Network, Container, Starts, Ready, Rests, Undo, StopBox,
       RemoveBox, Wipe, RemoveNetwork, RemoveDirectory, DiscardBox, DiscardNetwork,
       DiscardDirectory, WakeStarts, WakeEnds, Has, Removers
  <2>2. QED
    BY <2>1, Given, OpFields
<1>2. Kept(rows', rows)
  BY BuildBase, NetworkBase, ContainerBase, StartsBase, ReadyBase, RestsBase, UndoBase,
     StopBoxBase, RemoveBoxBase, WipeBase, RemoveNetworkBase, RemoveDirectoryBase, DiscardBase,
     WakeStartsBase, WakeEndsBase DEF Goes
<1>3. \A n \in Names : project'[n] \in {None, project[n]}
  <2>1. UNCHANGED project \/ DeleteProject(op[o].name, op[o].project)
    BY DEF Goes, Build, Network, Container, Starts, Ready, Rests, Undo, StopBox,
       RemoveBox, Wipe, RemoveNetwork, RemoveDirectory, DiscardBox, DiscardNetwork,
       DiscardDirectory, WakeStarts, WakeEnds, store
  <2>2. QED
    BY <1>1, <2>1, DeletedIsFree
<1>4. Done(o) \/ Fails(o) \/ (\E at \in Ats : Go(o, at) \/ \E b \in BOOLEAN : Hit(o, at, b))
        \/ (\E b \in BOOLEAN : RowGoes(o, b))
  <2>1. {"probe", "container", "start", "ready", "stop", "remove", "wipe", "network", "directory"}
           \subseteq Ats
    BY DEF Ats
  <2>2. CASE Build(o) \/ Network(o) \/ Container(o) \/ Starts(o) \/ Ready(o) \/ Rests(o) \/ Undo(o)
    BY <2>1, <2>2 DEF Build, Network, Container, Starts, Ready, Rests, Undo
  <2>3. CASE StopBox(o)
    BY <2>1, <2>3 DEF StopBox
  <2>4. CASE RemoveBox(o)
    <3>1. PICK fails \in BOOLEAN : RowGoes(o, op[o].bad \/ fails) \/ Hit(o, "wipe", fails)
      BY <2>4 DEF RemoveBox
    <3> DEFINE bad == op[o].bad \/ fails
    <3>2. bad \in BOOLEAN
      OBVIOUS
    <3>3. RowGoes(o, bad) \/ Hit(o, "wipe", fails)
      BY <3>1
    <3> HIDE DEF bad
    <3>4. QED
      BY <2>1, <3>2, <3>3
  <2>5. CASE Wipe(o)
    BY <1>1, <2>5 DEF Wipe
  <2>6. CASE RemoveNetwork(o) \/ RemoveDirectory(o) \/ DiscardBox(o) \/ DiscardNetwork(o)
             \/ DiscardDirectory(o) \/ WakeStarts(o) \/ WakeEnds(o)
    BY <2>1, <2>6 DEF RemoveNetwork, RemoveDirectory, DiscardBox, DiscardNetwork,
       DiscardDirectory, WakeStarts, WakeEnds
  <2>7. QED
    BY <2>2, <2>3, <2>4, <2>5, <2>6 DEF Goes
<1>5. QED
  BY <1>2, <1>3, <1>4, SoundMoves

\* The row of a creation is the only one of its kind.
LEMMA SoundInserts ==
    ASSUME Base, Base', SoundInv, NEW o \in Slots, Inserts(o)
    PROVE  SoundInv'
<1> DEFINE c == op[o]
           n == [id |-> made + 1, project |-> c.project, name |-> c.name, kind |-> c.res,
                 state |-> "creating", port |-> c.port,
                 seed |-> IF c.kind = "create" THEN made + 1 ELSE Copied]
<1>0. /\ Ops /\ Rows /\ c \in Op /\ made \in Nat /\ UNCHANGED project
      /\ c.name \in Names
  BY Given DEF Inserts, Has
<1>1. CASE Done(o) /\ UNCHANGED rows
  <2>1. Kept(rows', rows)
    BY <1>1, Given
  <2>2. QED
    BY <1>0, <1>1, <2>1, SoundMoves
<1>2. CASE /\ \A r \in RowsOf(c.project) : r.kind # c.res
           /\ rows' = rows \cup {n}
           /\ op' = [s \in Slots |->
               IF s = o THEN [op[s] EXCEPT !.at = "network", !.id = made + 1]
               ELSE [op[s] EXCEPT !.beside = @ \/ op[s].at \in {"build", "probe"}]]
  <2>1. /\ n.id = made + 1 /\ n.project = c.project /\ n.name = c.name /\ n.kind = c.res
        /\ n.seed \in {made + 1, Copied}
    OBVIOUS
  <2> HIDE DEF n
  <2>2. /\ op'[o].id = made + 1 /\ op'[o].name = c.name /\ op'[o].res = c.res
        /\ op'[o].todo = c.todo /\ op'[o].project = c.project
    BY <1>0, <1>2 DEF Op
  <2>3. ASSUME NEW s \in Slots, s # o
        PROVE  /\ op'[s].id = op[s].id /\ op'[s].name = op[s].name /\ op'[s].res = op[s].res
               /\ op'[s].todo = op[s].todo /\ op'[s].project = op[s].project
    BY <1>2, <2>3, Given DEF Op
  <2>4. \A s \in Slots : op[s].id # made + 1 /\ \A k \in Kinds : <<made + 1, k>> \notin op[s].todo
    <3>1. ASSUME NEW s \in Slots
          PROVE  op[s].id # made + 1 /\ \A k \in Kinds : <<made + 1, k>> \notin op[s].todo
      <4> DEFINE i == op[s].id
                 T == op[s].todo
      <4>1. i \in 0..made /\ T \in SUBSET ((1..made) \X Kinds)
        BY OpRange
      <4> HIDE DEF i, T
      <4>2. QED
        BY <1>0, <4>1 DEF i, T
    <3>2. QED
      BY <3>1
  <2>5. \A r \in rows : r.id # made + 1
    BY <1>0 DEF Rows, RowOf
  <2>6. Seeded'
    BY <1>2, <2>1 DEF SoundInv, Seeded
  <2>7. ASSUME NEW p \in Nat, NEW m \in Names, Claims(p, m)' PROVE Claims(p, m)
    <3>1. CASE project'[m] = p
      BY <1>0, <2>7, <3>1 DEF Claims
    <3>2. CASE \E r \in rows' : r.project = p /\ r.name = m
      BY <1>2, <2>1, <2>7, <3>2 DEF Claims
    <3>3. CASE \E s \in Slots : op'[s].project = p /\ op'[s].name = m
      BY <2>2, <2>3, <2>7, <3>3 DEF Claims
    <3>4. QED
      BY <2>7, <3>1, <3>2, <3>3 DEF Claims
  <2>8. OneName'
    BY <2>7 DEF SoundInv, OneName
  <2>9. OneKind'
    <3>1. rows' = rows \cup {n} /\ \A r \in rows : r.project = c.project => r.kind # c.res
      BY <1>2 DEF RowsOf
    <3>2. \A r, s \in rows : r.project = s.project /\ r.kind = s.kind => r = s
      BY DEF SoundInv, OneKind
    <3> HIDE DEF c
    <3>3. \A r, s \in rows' : r.project = s.project /\ r.kind = s.kind => r = s
      BY <2>1, <3>1, <3>2
    <3>4. QED
      BY <3>3 DEF OneKind
  <2>10. ASSUME NEW s \in Slots, NEW r \in rows' PROVE Named(op'[s], r)
    <3>1. CASE s = o /\ r = n
      BY <2>1, <2>2, <2>4, <3>1 DEF Named
    <3>2. CASE s = o /\ r \in rows
      BY <2>2, <2>5, <3>2 DEF SoundInv, Naming, Named
    <3>3. CASE s # o /\ r = n
      BY <2>1, <2>3, <2>4, <3>3 DEF Named
    <3>4. CASE s # o /\ r \in rows
      BY <2>3, <3>4 DEF SoundInv, Naming, Named
    <3>5. QED
      BY <1>2, <3>1, <3>2, <3>3, <3>4
  <2>11. Naming'
    BY <2>10 DEF Naming, Named
  <2>12. QED
    BY <2>6, <2>8, <2>9, <2>11 DEF SoundInv
<1>3. QED
  BY <1>0, <1>1, <1>2 DEF Inserts

\* A number not given out yet is nobody's.
LEMMA NewIsFree ==
    ASSUME Base, NEW m \in Names
    PROVE  ~Claims(made + 1, m)
<1>0. made \in Nat /\ Count /\ Rows
  BY Given
<1>1. project[m] # made + 1
  BY <1>0 DEF Count
<1>2. \A r \in rows : r.project # made + 1
  BY <1>0 DEF Rows, RowOf
<1>3. ASSUME NEW s \in Slots PROVE op[s].project # made + 1
  <2> DEFINE i == op[s].project
  <2>1. i \in 0..made
    BY OpRange
  <2> HIDE DEF i
  <2>2. i # made + 1
    BY <1>0, <2>1
  <2>3. QED
    BY <2>2 DEF i
<1>4. QED
  BY <1>1, <1>2, <1>3 DEF Claims

\* What a copy becomes keeps its name; a restore's project is new.
LEMMA SoundCloned ==
    ASSUME Base, Base', SoundInv, NEW o \in Slots, Cloned(o)
    PROVE  SoundInv'
<1> DEFINE n == op[o].name
<1>0. /\ Ops /\ Rows /\ Count /\ op[o] \in Op /\ made \in Nat /\ UNCHANGED rows
      /\ n \in Names /\ Kept(rows', rows)
  <2>1. Kept(rows, rows)
    BY Given
  <2>2. UNCHANGED rows
    BY DEF Cloned
  <2>3. QED
    BY <2>1, <2>2, Given DEF Cloned, Has
<1>1. CASE Done(o) /\ UNCHANGED project
  BY <1>0, <1>1, SoundMoves
<1>2. ASSUME UNCHANGED project,
             op' = [op EXCEPT ![o] = [op[o] EXCEPT !.kind = "discard", !.at = "remove"]]
      PROVE  SoundInv'
  <2>1. /\ \A s \in Slots \ {o} : op'[s] = op[s]
        /\ op'[o].project = op[o].project /\ op'[o].name = op[o].name
        /\ op'[o].id = op[o].id /\ op'[o].res = op[o].res /\ op'[o].todo = op[o].todo
    BY <1>0, <1>2 DEF Ops, Op
  <2>2. QED
    BY <1>0, <1>2, <2>1, SoundSame
<1>3. ASSUME NEW p,
             op' = [op EXCEPT ![o].at = "probe", ![o].project = p, ![o].port = Least(Free)]
      PROVE  /\ \A s \in Slots \ {o} : op'[s] = op[s]
             /\ op'[o].project = p /\ op'[o].name = op[o].name
             /\ op'[o].id = op[o].id /\ op'[o].res = op[o].res /\ op'[o].todo = op[o].todo
  BY <1>0, <1>3 DEF Ops, Op
<1>4. CASE /\ op' = [op EXCEPT ![o].at = "probe", ![o].project = op[o].project, ![o].port = Least(Free)]
           /\ UNCHANGED project
  BY <1>0, <1>3, <1>4, SoundSame
<1>5. CASE /\ op' = [op EXCEPT ![o].at = "probe", ![o].project = made + 1, ![o].port = Least(Free)]
           /\ project' = [project EXCEPT ![n] = made + 1]
  <2>0. /\ \A s \in Slots \ {o} : op'[s] = op[s]
        /\ op'[o].project = made + 1 /\ op'[o].name = op[o].name
        /\ op'[o].id = op[o].id /\ op'[o].res = op[o].res /\ op'[o].todo = op[o].todo
    BY <1>3, <1>5
  <2>1. \A m \in Names : ~Claims(made + 1, m)
    BY NewIsFree
  <2>2. ASSUME NEW p \in Nat, NEW m \in Names, Claims(p, m)'
        PROVE  Claims(p, m) \/ (p = made + 1 /\ m = n)
    BY <1>0, <1>5, <2>0, <2>2 DEF Claims, Count
  <2>3. OneName'
    BY <2>1, <2>2 DEF SoundInv, OneName
  <2>4. Seeded' /\ OneKind'
    BY <1>0 DEF SoundInv, Seeded, OneKind
  <2>5. Naming'
    BY <1>0, <2>0 DEF SoundInv, Naming, Named
  <2>6. QED
    BY <2>3, <2>4, <2>5 DEF SoundInv
<1>6. QED
  BY <1>0, <1>1, <1>2, <1>4, <1>5 DEF Cloned, Done

LEMMA SoundEjects ==
    ASSUME Base, Base', SoundInv, NEW o \in Slots, EjectStops(o)
    PROVE  SoundInv'
<1> DEFINE c == Take(op[o], op[o].todo)
<1>0. Ops /\ op[o] \in Op /\ Kept(rows', rows) /\ UNCHANGED project
  BY Given, EjectStopsBase DEF EjectStops
<1>1. op' = [op EXCEPT ![o] = IF c.id = None THEN Idle ELSE c]
  BY DEF EjectStops
<1>2. op[o].todo \in SUBSET ((1..made) \X Kinds)
  BY OpRange
<1>3. c.name = op[o].name /\ c.project = op[o].project
  BY <1>0, TakeKeeps
<1>4. \A r \in rows : Named(c, r)
  BY <1>0, <1>2, TakeNames DEF SoundInv, Naming, Named
<1> HIDE DEF c
<1>5. (op'[o] = Idle \/ op'[o] = c) /\ \A s \in Slots \ {o} : op'[s] = op[s]
  BY <1>0, <1>1 DEF Ops
<1>6. op'[o].project = None \/ Claims(op'[o].project, op'[o].name)
  BY <1>3, <1>5, IdleIsOp DEF Claims
<1>7. \A r \in rows : Named(op'[o], r)
  BY <1>4, <1>5, IdleIsNamed
<1>8. QED
  BY <1>0, <1>5, <1>6, <1>7, SoundOne

LEMMA SoundOthers ==
    ASSUME Base, Base', SoundInv,
           \/ \E n \in Names : Adopt(n)
           \/ \E o \in Slots : WakeMakes(o)
           \/ DaemonDies
           \/ UNCHANGED vars
    PROVE  SoundInv'
<1>1. CASE UNCHANGED <<project, rows, op>>
  BY <1>1 DEF SoundInv, Seeded, OneName, OneKind, Naming, Claims, Named
<1>2. CASE DaemonDies
  <2>1. Kept(rows', rows) /\ UNCHANGED project /\ op' = [s \in Slots |-> Idle]
    BY <1>2, DaemonDiesBase DEF DaemonDies
  <2>2. \A n \in Names : project'[n] = None \/ Claims(project'[n], n)
    BY <2>1 DEF Claims
  <2>3. ASSUME NEW s \in Slots
        PROVE  op'[s].project = None /\ \A r \in rows : Named(op'[s], r)
    BY <2>1, IdleIsOp, IdleIsNamed
  <2>4. QED
    BY <2>1, <2>2, <2>3, SoundKept
<1>3. QED
  BY <1>1, <1>2 DEF Adopt, WakeMakes, vars, store

LEMMA SoundNewProject ==
    ASSUME Base, Base', SoundInv, NEW n \in Names, NewProject(n)
    PROVE  SoundInv'
<1>0. Count /\ made \in Nat /\ UNCHANGED <<rows, op>> /\ project' = [project EXCEPT ![n] = made + 1]
  BY Given DEF NewProject
<1>1. \A m \in Names : ~Claims(made + 1, m)
  BY NewIsFree
<1>2. ASSUME NEW p \in Nat, NEW m \in Names, Claims(p, m)'
      PROVE  Claims(p, m) \/ (p = made + 1 /\ m = n)
  BY <1>0, <1>2 DEF Claims, Count
<1>3. OneName'
  BY <1>1, <1>2 DEF SoundInv, OneName
<1>4. QED
  BY <1>0, <1>3 DEF SoundInv, Seeded, OneKind, Naming, Named

\* The rows a project's number leads to are its name's.
LEMMA ListedIsNamed ==
    ASSUME Base, SoundInv, NEW n \in Names, project[n] # None, NEW r \in RowsOf(project[n])
    PROVE  r \in rows /\ r.name = n /\ Claims(project[n], n)
<1>1. r \in rows /\ r.project = project[n]
  BY DEF RowsOf
<1>2. Claims(project[n], n) /\ Claims(project[n], r.name)
  BY <1>1 DEF Claims
<1>3. project[n] \in Nat /\ r.name \in Names
  BY <1>1, Given DEF Count, Rows, RowOf, Row
<1>4. QED
  BY <1>1, <1>2, <1>3 DEF SoundInv, OneName

\* What is listed of a project's rows is named, and listed by its one number.
LEMMA ListingIsNamed ==
    ASSUME Base, SoundInv, NEW n \in Names, project[n] # None, NEW R \in SUBSET RowsOf(project[n]),
           NEW r \in rows, NEW k, <<r.id, k>> \in {<<q.id, q.kind>> : q \in R}
    PROVE  r \in R /\ r.name = n /\ r.kind = k
<1>1. PICK q \in R : r.id = q.id /\ k = q.kind
  OBVIOUS
<1>2. q \in rows /\ q.name = n
  BY <1>1, ListedIsNamed
<1>3. r = q
  BY <1>1, <1>2, Given DEF Rows
<1>4. QED
  BY <1>1, <1>2, <1>3

LEMMA SoundBegins ==
    ASSUME Base, Base', SoundInv, NEW o \in Slots, Begins(o)
    PROVE  SoundInv'
<1>0. Ops /\ Count /\ Rows /\ made \in Nat /\ Kept(rows', rows)
  BY Given, CreateBeginsBase, BranchBeginsBase, RestoreBeginsBase, RmBeginsBase,
     RmProjectBeginsBase, EjectBeginsBase, WakeBeginsBase DEF Begins
<1>1. ASSUME NEW c, op' = [op EXCEPT ![o] = c], UNCHANGED project,
             c.project = None \/ Claims(c.project, c.name), \A r \in rows : Named(c, r)
      PROVE  SoundInv'
  <2>1. op'[o] = c /\ \A s \in Slots \ {o} : op'[s] = op[s]
    BY <1>0, <1>1 DEF Ops
  <2>2. \A n \in Names : project'[n] \in {None, project[n]}
    BY <1>1
  <2>3. op'[o].project = None \/ Claims(op'[o].project, op'[o].name)
    BY <1>1, <2>1
  <2>4. \A r \in rows : Named(op'[o], r)
    BY <1>1, <2>1
  <2>5. QED
    BY <1>0, <2>1, <2>2, <2>3, <2>4, SoundOne
<1>2. \A r \in rows : r.id # 0
  BY <1>0 DEF Rows, RowOf
<1>3. ASSUME NEW n \in Names, NEW k \in Kinds, CreateBegins(o, n, k) PROVE SoundInv'
  <2> DEFINE p == project[n]
             c == [Idle EXCEPT !.kind = "create", !.at = IF k = "db" THEN "probe" ELSE "build",
                               !.name = n, !.res = k, !.project = p, !.port = Least(Free)]
  <2>1. op' = [op EXCEPT ![o] = c] /\ UNCHANGED project
    BY <1>3 DEF CreateBegins, Begin, store
  <2>2. c.id = 0 /\ c.todo = {} /\ c.project = p /\ c.name = n
    BY IdleIsOp DEF Op
  <2> HIDE DEF c
  <2>3. c.project = None \/ Claims(c.project, c.name)
    BY <2>2 DEF Claims
  <2>4. \A r \in rows : Named(c, r)
    BY <1>2, <2>2 DEF Named
  <2>5. QED
    BY <1>1, <2>1, <2>3, <2>4
<1>4. ASSUME NEW b \in Names, RestoreBegins(o, b) PROVE SoundInv'
  <2> DEFINE c == [Idle EXCEPT !.kind = "restore", !.at = "clone", !.name = b, !.res = "db"]
  <2>1. op' = [op EXCEPT ![o] = c] /\ UNCHANGED project
    BY <1>4 DEF RestoreBegins, Begin, store
  <2>2. c.id = 0 /\ c.todo = {} /\ c.project = 0
    BY IdleIsOp DEF Op
  <2> HIDE DEF c
  <2>3. \A r \in rows : Named(c, r)
    BY <1>2, <2>2 DEF Named
  <2>4. QED
    BY <1>1, <2>1, <2>2, <2>3
<1>5. ASSUME NEW a \in Names, NEW b \in Names, BranchBegins(o, a, b) PROVE SoundInv'
  <2> DEFINE c == [Idle EXCEPT !.kind = "branch", !.at = "clone", !.name = b, !.res = "db",
                               !.project = made + 1]
  <2>1. /\ op' = [op EXCEPT ![o] = c] /\ project' = [project EXCEPT ![b] = made + 1]
        /\ UNCHANGED rows
    BY <1>5 DEF BranchBegins, Begin
  <2>2. c.id = 0 /\ c.todo = {} /\ c.project = made + 1 /\ c.name = b
    BY <1>0, IdleIsOp DEF Op
  <2> HIDE DEF c
  <2>3. op'[o] = c /\ \A s \in Slots \ {o} : op'[s] = op[s]
    BY <1>0, <2>1 DEF Ops
  <2>4. \A m \in Names : ~Claims(made + 1, m)
    BY NewIsFree
  <2>5. ASSUME NEW p \in Nat, NEW m \in Names, Claims(p, m)'
        PROVE  Claims(p, m) \/ (p = made + 1 /\ m = b)
    <3>1. CASE project'[m] = p
      BY <1>0, <2>1, <2>5, <3>1 DEF Claims, Count
    <3>2. CASE \E r \in rows' : r.project = p /\ r.name = m
      BY <2>1, <2>5, <3>2 DEF Claims
    <3>3. CASE \E s \in Slots : op'[s].project = p /\ op'[s].name = m
      BY <2>2, <2>3, <2>5, <3>3 DEF Claims
    <3>4. QED
      BY <2>5, <3>1, <3>2, <3>3 DEF Claims
  <2>6. OneName'
    BY <2>4, <2>5 DEF SoundInv, OneName
  <2>7. Naming'
    BY <1>2, <2>1, <2>2, <2>3 DEF SoundInv, Naming, Named
  <2>8. QED
    BY <2>1, <2>6, <2>7 DEF SoundInv, Seeded, OneKind
<1>6. ASSUME NEW n \in Names, NEW q \in rows, RmBegins(o, n, q) \/ WakeBegins(o, n, q)
      PROVE  SoundInv'
  <2> DEFINE c == [Idle EXCEPT !.kind = "rm", !.at = "stop", !.name = n, !.res = q.kind,
                               !.id = q.id]
             d == [Idle EXCEPT !.kind = "wake", !.at = "start", !.name = n, !.res = q.kind,
                               !.id = q.id, !.port = q.port]
  <2>1. UNCHANGED project /\ (op' = [op EXCEPT ![o] = c] \/ op' = [op EXCEPT ![o] = d])
    BY <1>6 DEF RmBegins, WakeBegins, Begin
  <2>2. q.name = n
    BY <1>6, ListedIsNamed DEF RmBegins, WakeBegins
  <2>3. /\ c.id = q.id /\ c.todo = {} /\ c.project = 0 /\ c.name = n /\ c.res = q.kind
        /\ d.id = q.id /\ d.todo = {} /\ d.project = 0 /\ d.name = n /\ d.res = q.kind
    BY IdleIsOp DEF Op
  <2> HIDE DEF c, d
  <2>4. \A r \in rows : Named(c, r) /\ Named(d, r)
    BY <1>0, <2>2, <2>3 DEF Named, Rows
  <2>5. QED
    BY <1>1, <2>1, <2>3, <2>4
<1>7. ASSUME NEW n \in Names, RmProjectBegins(o, n) PROVE SoundInv'
  <2> DEFINE k == IF n \in released THEN "forget" ELSE "rmProject"
             p == project[n]
             T == {<<r.id, r.kind>> : r \in RowsOf(project[n])}
             d == [Idle EXCEPT !.kind = k, !.name = n, !.project = p]
             c == Take(d, T)
  <2>1. op' = [op EXCEPT ![o] = c] /\ UNCHANGED project /\ p # None
    BY <1>7 DEF RmProjectBegins, Begin
  <2>2. d \in Op /\ d.name = n /\ d.project = p
    <3>1. p \in Nat /\ k \in {"forget", "rmProject"}
      BY <1>0 DEF Count
    <3> HIDE DEF p, k
    <3>2. QED
      BY <3>1, IdleIsOp DEF Op, OpKinds
  <2>3. T \in SUBSET ((1..made) \X Kinds)
    BY ListedRows DEF RowsOf
  <2>4. \A r \in rows, j \in Kinds : <<r.id, j>> \in T => r.name = n /\ r.kind = j
    BY <2>1, ListingIsNamed
  <2> HIDE DEF d, T
  <2>5. \A r \in rows : Named(c, r)
    BY <2>2, <2>3, <2>4, TakeNames
  <2>6. c.name = n /\ c.project = p
    BY <2>2, TakeKeeps
  <2> HIDE DEF c
  <2>7. Claims(c.project, c.name)
    BY <2>1, <2>6 DEF Claims
  <2>8. QED
    BY <1>1, <2>1, <2>5, <2>7
<1>8. ASSUME NEW n \in Names, EjectBegins(o, n) PROVE SoundInv'
  <2> DEFINE p == project[n]
             T == {<<r.id, r.kind>> : r \in {x \in RowsOf(project[n]) : x.state = "running"}}
             d == [Idle EXCEPT !.kind = "eject", !.name = n, !.project = p]
             t == Take(d, T)
             c == [t EXCEPT !.at = "stop"]
  <2>0. UNCHANGED project /\ p # None
    BY <1>8 DEF EjectBegins
  <2>1. CASE UNCHANGED <<rows, op>>
    BY <2>0, <2>1 DEF SoundInv, Seeded, OneName, OneKind, Naming, Claims, Named
  <2>2. CASE op' = [op EXCEPT ![o] = c]
    <3>1. d \in Op /\ d.name = n /\ d.project = p
      <4>1. p \in Nat
        BY <1>0 DEF Count
      <4> HIDE DEF p
      <4>2. QED
        BY <4>1, IdleIsOp DEF Op, OpKinds
    <3>2. T \in SUBSET ((1..made) \X Kinds)
      BY ListedRows DEF RowsOf
    <3>3. \A r \in rows, j \in Kinds : <<r.id, j>> \in T => r.name = n /\ r.kind = j
      BY <2>0, ListingIsNamed
    <3> HIDE DEF d, T
    <3>4. \A r \in rows : Named(t, r)
      BY <3>1, <3>2, <3>3, TakeNames
    <3>5. t.name = n /\ t.project = p
      BY <3>1, TakeKeeps
    <3>6. t \in Op
      <4>1. T \in SUBSET (Nat \X Kinds)
        BY <1>0, <3>2
      <4>2. QED
        BY <3>1, <4>1, TakeInOp
    <3> HIDE DEF t
    <3>7. c.id = t.id /\ c.todo = t.todo /\ c.name = t.name /\ c.res = t.res /\ c.project = t.project
      BY <3>6 DEF Op
    <3> HIDE DEF c
    <3>8. Claims(c.project, c.name)
      BY <2>0, <3>5, <3>7 DEF Claims
    <3>9. \A r \in rows : Named(c, r)
      BY <3>4, <3>7 DEF Named
    <3>10. QED
      BY <1>1, <2>0, <2>2, <3>8, <3>9
  <2>3. QED
    BY <1>8, <2>1, <2>2 DEF EjectBegins, Begin
<1>9. QED
  BY <1>3, <1>4, <1>5, <1>6, <1>7, <1>8 DEF Begins

LEMMA StepSound ==
    ASSUME Base, SoundInv, [Next]_vars
    PROVE  SoundInv'
<1>1. Base'
  BY StepBase
<1>2. ASSUME NEW o \in Slots, Begins(o) \/ Goes(o) PROVE SoundInv'
  BY <1>1, <1>2, SoundBegins, SoundGoes, SoundInserts, SoundCloned, SoundEjects, SoundOthers
<1>3. QED
  BY <1>1, <1>2, SoundNewProject, SoundOthers DEF Next

LEMMA InitSound == Init => SoundInv
<1> SUFFICES ASSUME Init PROVE SoundInv
  OBVIOUS
<1>1. \A p \in Nat, n \in Names : ~Claims(p, n)
  BY IdleIsOp DEF Init, Claims
<1>2. QED
  BY <1>1 DEF Init, SoundInv, Seeded, OneName, OneKind, Naming

\* A number belongs to one project, a project has one resource of a kind, and what is under
\* way on a resource knows it by its own number.
THEOREM NumbersAreSound == Spec => []SoundInv
<1>1. Base /\ SoundInv /\ [Next]_vars => SoundInv'
  BY StepSound
<1>2. QED
  BY BaseHolds, InitSound, <1>1, PTL DEF Spec

-----------------------------------------------------------------------------
(* The fifth part: what every operation at work on a name relies on and    *)
(* leaves, as long as nothing has spoiled the name.                        *)

Of(n) == {r \in rows : r.name = n}

Right(r) ==
    LET b == box[r.name][r.kind] IN
    b.whose = r.id /\ b.port = r.port /\ (r.kind = "db" => data[r.name] = r.seed)

\* A copy that has its name and, from its first row on, is the only one to have any.
Holds(c) == c.kind = "branch" \/ (c.kind = "restore" /\ c.at # "clone")
Rowed    == {"network", "container"}
Takers   == {"rm", "rmProject", "forget"}
Clearers == {"rmProject", "forget"}

HasRow(c, state) ==
    \E r \in Of(c.name) : r.id = c.id /\ r.kind = c.res /\ r.state = state
Listed(c, r) == r.id = c.id \/ \E k \in Kinds : <<r.id, k>> \in c.todo

\* A removal is alone; so is, among copies and creations, a copy that has the name.
Company(n) ==
    \A o, s \in Busy(n) :
        /\ op[o].kind \in Removers => s = o
        /\ Holds(op[o]) /\ Holds(op[s]) => s = o
        /\ ~(op[o].kind = "create" /\ op[s].kind \in Copiers)

\* The project, the row and the data an operation takes to be its own.
HasProject(c) ==
    \/ c.kind = "create" \/ Holds(c) \/ c.kind \in Clearers
    \/ c.kind = "discard" /\ c.at # "directory"
    => c.project = project[c.name] /\ c.project # None
KeepsRow(c) ==
    \/ c.kind = "create" /\ c.at \notin Planned
    \/ c.kind = "wake"
    \/ Holds(c) /\ c.at \in Rowed
    => \E r \in Of(c.name) : r.id = c.id /\ r.kind = c.res /\ r.port = c.port
HasBooted(c) ==
    c.kind = "create" /\ c.at = "stop" => \A r \in Of(c.name) : r.id = c.id => Right(r)
Copies(c) ==
    /\ c.kind \in Copiers => c.res = "db"
    /\ Holds(c) =>
        /\ \A r \in Of(c.name) : r.id = c.id /\ r.seed = Copied /\ c.at \in Rowed
        /\ c.at # "clone" => data[c.name] = Copied
Ejects(c) ==
    c.kind = "eject" => \A r \in Of(c.name) : Listed(c, r) => Right(r)

\* What a removal has done so far.
Undoes(c) == c.kind = "undo" => HasRow(c, "failed")
Discards(c) ==
    c.kind = "discard" =>
        /\ \A r \in Of(c.name) : r.kind = "db" /\ r.state = "failed"
        /\ c.at # "remove" => \A k \in Kinds : box[c.name][k] = Gone
        /\ c.at = "directory" => c.name \notin net /\ project[c.name] = None
Removes(c) ==
    c.kind \in Takers /\ c.at \in {"stop", "remove", "wipe"} =>
        /\ HasRow(c, "destroying")
        /\ c.at = "wipe" /\ ~c.bad => box[c.name][c.res] = Gone
Clears(c) ==
    c.kind \in Clearers =>
        /\ \A r \in Of(c.name) : Listed(c, r)
        /\ \A t \in c.todo : t[1] # c.id /\ \E r \in Of(c.name) : r.id = t[1]
        /\ c.at \in {"network", "directory"} => Of(c.name) = {}
        /\ c.kind = "rmProject" /\ c.at = "directory" /\ ~c.bad => c.name \notin net

Bystands(c)  == HasProject(c) /\ KeepsRow(c) /\ HasBooted(c) /\ Copies(c) /\ Ejects(c)
Withdraws(c) == Undoes(c) /\ Discards(c) /\ Removes(c) /\ Clears(c)
Relies(c)    == Bystands(c) /\ Withdraws(c)

\* What there is of a name belongs to its project; a removal that failed may leave a
\* container, and will spoil the name in the end.
LeftOver(n) == \E o \in Busy(n) : op[o].kind \in Clearers /\ op[o].bad
Owned(n)    == \A r \in Of(n) : r.project = project[n]
Boxed(n) ==
    \A k \in Kinds : box[n][k] # Gone =>
        LeftOver(n) \/ \E r \in Of(n) : r.kind = k /\ r.id = box[n][k].whose /\ r.port = box[n][k].port
Usable(n) ==
    \A r \in Of(n) : r.state \in {"sleeping", "running", "stopping"} => Right(r)
Bare(n) ==
    project[n] = None =>
        /\ n \notin net
        /\ (dir[n] = {} /\ data[n] = None) \/ \E o \in Busy(n) : op[o].kind = "discard"

Clean(n) ==
    /\ Company(n)
    /\ \A o \in Busy(n) : Relies(op[o])
    /\ Owned(n) /\ Boxed(n) /\ Usable(n) /\ Bare(n)

CleanInv == \A n \in Names \ spoiled : Clean(n)

-----------------------------------------------------------------------------
(* A step on one name leaves every other as it is.                         *)

Alike(c, d) ==
    /\ c.kind = d.kind /\ c.at = d.at /\ c.name = d.name /\ c.res = d.res /\ c.project = d.project
    /\ c.id = d.id /\ c.port = d.port /\ c.todo = d.todo /\ c.bad = d.bad

Same(n) ==
    /\ project'[n] = project[n] /\ box'[n] = box[n] /\ dir'[n] = dir[n] /\ data'[n] = data[n]
    /\ n \in net' <=> n \in net
    /\ Of(n)' = Of(n)
    /\ Busy(n)' = Busy(n) /\ \A s \in Busy(n) : Alike(op'[s], op[s])

LEMMA RightSame ==
    ASSUME NEW n \in Names, Same(n), NEW r \in Of(n)
    PROVE  Right(r)' <=> Right(r)
BY DEF Same, Of, Right

LEMMA BystandsSame ==
    ASSUME NEW n \in Names, Same(n), NEW s \in Busy(n), Bystands(op[s])
    PROVE  Bystands(op[s])'
<1> DEFINE c == op[s]
           d == op'[s]
<1>0. Alike(d, c) /\ c.name = n /\ (Holds(d) <=> Holds(c))
  BY DEF Same, Busy, Alike, Holds
<1>1. HasProject(c)'
  BY <1>0 DEF Same, Bystands, HasProject, Alike
<1>2. KeepsRow(c)'
  BY <1>0 DEF Same, Bystands, KeepsRow, Alike
<1>3. HasBooted(c)'
  <2>1. ASSUME d.kind = "create", d.at = "stop", NEW r \in Of(n), r.id = d.id PROVE Right(r)'
    BY <1>0, <2>1, RightSame DEF Bystands, HasBooted, Alike
  <2>2. QED
    BY <1>0, <2>1 DEF Same, HasBooted, Alike
<1>4. Copies(c)'
  BY <1>0 DEF Same, Bystands, Copies, Alike
<1>5. Ejects(c)'
  <2>1. ASSUME d.kind = "eject", NEW r \in Of(n), Listed(d, r) PROVE Right(r)'
    BY <1>0, <2>1, RightSame DEF Bystands, Ejects, Alike, Listed
  <2>2. QED
    BY <1>0, <2>1 DEF Same, Ejects, Alike, Listed
<1>6. QED
  BY <1>1, <1>2, <1>3, <1>4, <1>5 DEF Bystands

LEMMA WithdrawsSame ==
    ASSUME NEW n \in Names, Same(n), NEW s \in Busy(n), Withdraws(op[s])
    PROVE  Withdraws(op[s])'
<1> DEFINE c == op[s]
           d == op'[s]
<1>0. Alike(d, c) /\ c.name = n
  BY DEF Same, Busy
<1>1. Undoes(c)'
  BY <1>0 DEF Same, Withdraws, Undoes, HasRow, Alike
<1>2. Discards(c)'
  BY <1>0 DEF Same, Withdraws, Discards, Alike
<1>3. Removes(c)'
  BY <1>0 DEF Same, Withdraws, Removes, HasRow, Alike
<1>4. Clears(c)'
  BY <1>0 DEF Same, Withdraws, Clears, Listed, Alike
<1>5. QED
  BY <1>1, <1>2, <1>3, <1>4 DEF Withdraws

LEMMA CleanSame ==
    ASSUME NEW n \in Names, Same(n), Clean(n)
    PROVE  Clean(n)'
<1>1. Company(n)'
  BY DEF Same, Clean, Company, Alike, Holds
<1>2. ASSUME NEW s \in Busy(n)' PROVE Relies(op[s])'
  BY <1>2, BystandsSame, WithdrawsSame DEF Same, Clean, Relies
<1>3. Owned(n)' /\ Boxed(n)' /\ Bare(n)'
  BY DEF Same, Clean, Owned, Boxed, Bare, LeftOver, Alike
<1>4. Usable(n)'
  BY RightSame DEF Same, Clean, Usable
<1>5. QED
  BY <1>1, <1>2, <1>3, <1>4 DEF Clean

OnlyRows(m) ==
    /\ \A r \in rows  : r.name # m => r \in rows'
    /\ \A r \in rows' : r.name # m => r \in rows
OnlyWorld(m) ==
    \A n \in Names \ {m} :
        /\ project'[n] = project[n] /\ box'[n] = box[n] /\ dir'[n] = dir[n] /\ data'[n] = data[n]
        /\ n \in net' <=> n \in net
OnlyOps(m) ==
    \A s \in Slots : Alike(op'[s], op[s]) \/ (op[s].name \in {m, ""} /\ op'[s].name \in {m, ""})

LEMMA Elsewhere ==
    ASSUME NEW m \in Names, OnlyRows(m), OnlyWorld(m), OnlyOps(m), NEW n \in Names \ {m}
    PROVE  Same(n)
<1>1. Of(n)' = Of(n)
  BY DEF OnlyRows, Of
<1>2. ASSUME NEW s \in Slots
      PROVE  /\ op'[s].name = n <=> op[s].name = n
             /\ op[s].name = n => Alike(op'[s], op[s])
  <2>1. n \notin {m, ""}
    BY ProjectsAssumption
  <2>2. CASE Alike(op'[s], op[s])
    BY <2>2 DEF Alike
  <2>3. CASE op[s].name \in {m, ""} /\ op'[s].name \in {m, ""}
    BY <2>1, <2>3
  <2>4. QED
    BY <2>2, <2>3 DEF OnlyOps
<1>3. Busy(n)' = Busy(n) /\ \A s \in Busy(n) : Alike(op'[s], op[s])
  BY <1>2 DEF Busy
<1>4. QED
  BY <1>1, <1>3 DEF OnlyWorld, Same

LEMMA AlikeItself == \A s \in Slots : Alike(op[s], op[s])
BY DEF Alike

\* The operation that moves keeps its name until it ends.
LEMMA OneOnlyOps ==
    ASSUME Base, NEW o \in Slots,
           \A s \in Slots \ {o} : op'[s] = op[s],
           op'[o] = Idle \/ op'[o].name = op[o].name
    PROVE  OnlyOps(op[o].name)
BY IdleIsOp, AlikeItself DEF OnlyOps

LEMMA GoesOnlyOps ==
    ASSUME Base, NEW o \in Slots, Goes(o)
    PROVE  OnlyOps(op[o].name)
<1>0. Ops /\ op[o] \in Op /\ op[o].bad \in BOOLEAN
  BY Given, OpFields
<1>1. CASE Done(o)
  BY <1>0, <1>1, OneOnlyOps DEF Done, Ops
<1>2. CASE Fails(o)
  <2>1. op' = [op EXCEPT ![o] = Idle] \/ \E k \in {"undo", "discard"} :
          op' = [op EXCEPT ![o] = [op[o] EXCEPT !.kind = k, !.at = "remove"]]
    BY <1>2 DEF Fails
  <2>2. /\ \A s \in Slots \ {o} : op'[s] = op[s]
        /\ op'[o] = Idle \/ op'[o].name = op[o].name
    BY <1>0, <2>1 DEF Ops, Op
  <2>3. QED
    BY <2>2, OneOnlyOps
<1>3. CASE \E at \in Ats : Go(o, at) \/ \E b \in BOOLEAN : Hit(o, at, b)
  BY <1>3, GoesOn, OneOnlyOps
<1>4. CASE \E b \in BOOLEAN : RowGoes(o, b)
  <2>1. PICK b \in BOOLEAN : RowGoes(o, b)
    BY <1>4
  <2> DEFINE d == [op[o] EXCEPT !.bad = b]
             c == Take(d, op[o].todo)
  <2>2. op' = [op EXCEPT ![o] = IF op[o].kind = "rm" THEN Idle ELSE c]
    BY <2>1 DEF RowGoes
  <2>3. d \in Op /\ d.name = op[o].name
    BY <1>0 DEF Op
  <2> HIDE DEF d
  <2>4. c.name = op[o].name
    BY <2>3, TakeKeeps
  <2> HIDE DEF c
  <2>5. QED
    BY <1>0, <2>2, <2>4, OneOnlyOps DEF Ops
<1>5. CASE EjectStops(o)
  <2> DEFINE c == Take(op[o], op[o].todo)
  <2>1. op' = [op EXCEPT ![o] = IF c.id = None THEN Idle ELSE c]
    BY <1>5 DEF EjectStops
  <2>2. c.name = op[o].name
    BY <1>0, TakeKeeps
  <2> HIDE DEF c
  <2>3. QED
    BY <1>0, <2>1, <2>2, OneOnlyOps DEF Ops
<1>6. CASE UNCHANGED op
  BY <1>6, OneOnlyOps
<1>7. CASE Inserts(o)
  <2>1. CASE Done(o)
    BY <1>1, <2>1
  <2>2. CASE op' = [s \in Slots |->
               IF s = o THEN [op[s] EXCEPT !.at = "network", !.id = made + 1]
               ELSE [op[s] EXCEPT !.beside = @ \/ op[s].at \in {"build", "probe"}]]
    <3>1. op'[o].name = op[o].name
      BY <1>0, <2>2 DEF Op
    <3>2. ASSUME NEW s \in Slots, s # o PROVE Alike(op'[s], op[s])
      BY <2>2, <3>2, Given DEF Alike, Op
    <3>3. QED
      BY <3>1, <3>2 DEF OnlyOps
  <2>3. QED
    BY <1>7, <2>1, <2>2 DEF Inserts
<1>8. CASE Cloned(o)
  <2>1. CASE Done(o)
    BY <1>1, <2>1
  <2>2. CASE op' = [op EXCEPT ![o] = [op[o] EXCEPT !.kind = "discard", !.at = "remove"]]
    <3>1. op'[o].name = op[o].name /\ \A s \in Slots \ {o} : op'[s] = op[s]
      BY <1>0, <2>2 DEF Ops, Op
    <3>2. QED
      BY <3>1, OneOnlyOps
  <2>3. CASE \E p : op' = [op EXCEPT ![o].at = "probe", ![o].project = p, ![o].port = Least(Free)]
    <3>1. PICK p : op' = [op EXCEPT ![o].at = "probe", ![o].project = p, ![o].port = Least(Free)]
      BY <2>3
    <3>2. op'[o].name = op[o].name /\ \A s \in Slots \ {o} : op'[s] = op[s]
      BY <1>0, <3>1 DEF Ops, Op
    <3>3. QED
      BY <3>2, OneOnlyOps
  <2>4. QED
    BY <1>8, <2>1, <2>2, <2>3 DEF Cloned, Done
<1>9. {"probe", "container", "start", "ready", "stop", "remove", "wipe", "network", "directory"}
         \subseteq Ats
  BY DEF Ats
<1>10. CASE Build(o) \/ Network(o) \/ Container(o) \/ Starts(o) \/ Ready(o) \/ Rests(o) \/ Undo(o)
  BY <1>1, <1>2, <1>3, <1>9, <1>10 DEF Build, Network, Container, Starts, Ready, Rests, Undo
<1>11. CASE StopBox(o)
  BY <1>3, <1>4, <1>9, <1>11 DEF StopBox
<1>12. CASE RemoveBox(o)
  <2>1. PICK fails \in BOOLEAN : RowGoes(o, op[o].bad \/ fails) \/ Hit(o, "wipe", fails)
    BY <1>12 DEF RemoveBox
  <2> DEFINE bad == op[o].bad \/ fails
  <2>2. bad \in BOOLEAN
    OBVIOUS
  <2>3. RowGoes(o, bad) \/ Hit(o, "wipe", fails)
    BY <2>1
  <2> HIDE DEF bad
  <2>4. QED
    BY <1>3, <1>4, <1>9, <2>2, <2>3
<1>13. CASE Wipe(o)
  BY <1>0, <1>4, <1>13 DEF Wipe
<1>14. CASE RemoveNetwork(o) \/ RemoveDirectory(o) \/ DiscardBox(o) \/ DiscardNetwork(o)
            \/ DiscardDirectory(o) \/ WakeMakes(o) \/ WakeStarts(o) \/ WakeEnds(o)
  BY <1>1, <1>3, <1>6, <1>9, <1>14 DEF RemoveNetwork, RemoveDirectory, DiscardBox,
     DiscardNetwork, DiscardDirectory, WakeMakes, WakeStarts, WakeEnds
<1>15. QED
  BY <1>5, <1>7, <1>8, <1>10, <1>11, <1>12, <1>13, <1>14 DEF Goes

LEMMA GoesOnlyWorld ==
    ASSUME Base, NEW o \in Slots, Goes(o)
    PROVE  OnlyWorld(op[o].name)
<1> DEFINE m == op[o].name
<1> SUFFICES ASSUME NEW n \in Names, n # m
             PROVE  /\ project'[n] = project[n] /\ box'[n] = box[n] /\ dir'[n] = dir[n]
                    /\ data'[n] = data[n] /\ (n \in net' <=> n \in net)
  BY DEF OnlyWorld
<1>0. /\ Disk /\ Count /\ dir \in [Names -> SUBSET Kinds] /\ project \in [Names -> 0..made]
      /\ data \in [Names -> (0..made) \cup {Copied}]
      /\ box = [x \in Names |-> [k \in Kinds |-> box[x][k]]]
  BY Given DEF Disk, Count, Boxes
<1>1. UNCHANGED box \/ (\E k, b : SetBox(m, k, b)) => box'[n] = box[n]
  BY <1>0 DEF SetBox
<1>2. UNCHANGED dir \/ (\E d : dir' = [dir EXCEPT ![m] = d]) => dir'[n] = dir[n]
  BY <1>0
<1>3. UNCHANGED data \/ (\E d : data' = [data EXCEPT ![m] = d]) => data'[n] = data[n]
  BY <1>0
<1>4. UNCHANGED project \/ (\E p : project' = [project EXCEPT ![m] = p]) => project'[n] = project[n]
  BY <1>0
<1>5. UNCHANGED net \/ net' = net \cup {m} \/ net' = net \ {m} => (n \in net' <=> n \in net)
  OBVIOUS
<1>6. \A k : Down(m, k) => box'[n] = box[n]
  BY <1>1 DEF Down
<1>7. CASE Build(o) \/ Inserts(o) \/ Network(o) \/ Container(o)
  BY <1>1, <1>2, <1>3, <1>4, <1>5, <1>7 DEF Build, Inserts, Network, Container, store
<1>8. CASE Starts(o) \/ WakeStarts(o)
  BY <1>1, <1>2, <1>3, <1>4, <1>5, <1>8 DEF Starts, WakeStarts, Started
<1>9. CASE Ready(o) \/ Rests(o) \/ Undo(o) \/ WakeMakes(o) \/ WakeEnds(o) \/ EjectStops(o) \/ StopBox(o)
  BY <1>1, <1>2, <1>3, <1>4, <1>5, <1>6, <1>9
     DEF Ready, Rests, Undo, WakeMakes, WakeEnds, EjectStops, StopBox, store, world
<1>10. CASE Cloned(o)
  BY <1>1, <1>2, <1>3, <1>4, <1>5, <1>10 DEF Cloned
<1>11. CASE RemoveBox(o) \/ Wipe(o)
  BY <1>1, <1>2, <1>3, <1>4, <1>5, <1>11 DEF RemoveBox, Wipe
<1>12. CASE RemoveNetwork(o) \/ RemoveDirectory(o)
  BY <1>1, <1>2, <1>3, <1>4, <1>5, <1>12 DEF RemoveNetwork, RemoveDirectory, DeleteProject, store
<1>13. CASE DiscardBox(o) \/ DiscardNetwork(o) \/ DiscardDirectory(o)
  BY <1>1, <1>2, <1>3, <1>4, <1>5, <1>13
     DEF DiscardBox, DiscardNetwork, DiscardDirectory, DeleteProject, store
<1>14. QED
  BY <1>7, <1>8, <1>9, <1>10, <1>11, <1>12, <1>13 DEF Goes

LEMMA MarkOnlyRows ==
    ASSUME Base, NEW m \in Names, NEW S, NEW s,
           \A r \in rows : r.id \in S => r.name = m, rows' = Mark(S, s)
    PROVE  OnlyRows(m)
<1>1. \A r \in rows : [r EXCEPT !.state = s].name = r.name
  BY Given DEF Rows, RowOf, Row
<1>2. QED
  BY <1>1 DEF Mark, OnlyRows

\* The rows of an operation are of its name.
LEMMA OwnRows ==
    ASSUME SoundInv, NEW o \in Slots, NEW r \in rows
    PROVE  /\ r.id = op[o].id => r.name = op[o].name /\ r.kind = op[o].res
           /\ \A k \in Kinds : <<r.id, k>> \in op[o].todo => r.name = op[o].name /\ r.kind = k
BY DEF SoundInv, Naming, Named

LEMMA RowGoesOnlyRows ==
    ASSUME Base, SoundInv, NEW o \in Slots, op[o].name \in Names, NEW b \in BOOLEAN, RowGoes(o, b)
    PROVE  OnlyRows(op[o].name)
<1> DEFINE d == [op[o] EXCEPT !.bad = b]
           c == Take(d, op[o].todo)
           M == IF op[o].kind = "rm" THEN rows ELSE Mark({c.id}, "destroying")
<1>0. op[o] \in Op /\ op[o].todo \in SUBSET ((1..made) \X Kinds) /\ Rows
  BY Given, OpRange
<1>1. rows' = {r \in M : r.id # op[o].id}
  BY DEF RowGoes
<1>2. d \in Op /\ d.name = op[o].name
  BY <1>0 DEF Op
<1> HIDE DEF d
<1>3. c.name = op[o].name
  BY <1>2, TakeKeeps
<1>4. \A r \in rows : r.id = c.id => r.name = op[o].name
  <2>1. ASSUME NEW r \in rows PROVE Named(c, r)
    BY <1>0, <1>2, OwnRows, TakeNames
  <2> HIDE DEF c
  <2>2. QED
    BY <1>3, <2>1 DEF Named
<1> HIDE DEF c
<1>5. /\ \A r \in rows : r.name # op[o].name => r \in M
      /\ \A r \in M : r.name # op[o].name => r \in rows
  <2>1. \A r \in rows : [r EXCEPT !.state = "destroying"].name = r.name
    BY <1>0 DEF Rows, RowOf, Row
  <2>2. QED
    BY <1>4, <2>1 DEF Mark
<1> HIDE DEF M
<1>6. \A r \in rows : r.id = op[o].id => r.name = op[o].name
  BY OwnRows
<1>7. QED
  BY <1>1, <1>5, <1>6 DEF OnlyRows

LEMMA DeleteOnlyRows ==
    ASSUME Base, SoundInv, NEW o \in Slots, op[o].name \in Names,
           DeleteProject(op[o].name, op[o].project)
    PROVE  OnlyRows(op[o].name)
<1> DEFINE p == op[o].project
           m == op[o].name
<1>1. ASSUME NEW r \in rows, r.project = p PROVE r.name = m
  <2>1. p # None /\ p \in Nat /\ r.name \in Names
    BY <1>1, Given DEF Rows, RowOf, Row
  <2>2. Claims(p, m) /\ Claims(p, r.name)
    BY <1>1, <2>1 DEF Claims
  <2>3. QED
    BY <2>1, <2>2 DEF SoundInv, OneName
<1>2. rows' = {r \in rows : r.project # p}
  BY DEF DeleteProject, RowsOf
<1>3. QED
  BY <1>1, <1>2 DEF OnlyRows

LEMMA InsertsOnlyRows ==
    ASSUME Base, NEW o \in Slots, Inserts(o)
    PROVE  OnlyRows(op[o].name)
<1> DEFINE c == op[o]
           r == [id |-> made + 1, project |-> c.project, name |-> c.name, kind |-> c.res,
                 state |-> "creating", port |-> c.port,
                 seed |-> IF c.kind = "create" THEN made + 1 ELSE Copied]
<1>1. rows' = rows \/ rows' = rows \cup {r}
  BY DEF Inserts
<1>2. r.name = c.name
  OBVIOUS
<1> HIDE DEF r
<1>3. QED
  BY <1>1, <1>2 DEF OnlyRows

LEMMA EjectStopsOnlyRows ==
    ASSUME Base, SoundInv, NEW o \in Slots, EjectStops(o)
    PROVE  OnlyRows(op[o].name)
<1> DEFINE c == Take(op[o], op[o].todo)
           m == op[o].name
<1>0. op[o] \in Op /\ op[o].todo \in SUBSET ((1..made) \X Kinds) /\ Rows
  BY Given, OpRange
<1>1. PICK end : rows' = {IF r.id = op[o].id THEN [r EXCEPT !.state = end]
                          ELSE IF r.id = c.id THEN [r EXCEPT !.state = "stopping"] ELSE r : r \in rows}
  BY DEF EjectStops
<1>2. c.name = m
  BY <1>0, TakeKeeps
<1>3. \A r \in rows : r.id = c.id => r.name = m
  <2>1. ASSUME NEW r \in rows PROVE Named(c, r)
    BY <1>0, OwnRows, TakeNames
  <2> HIDE DEF c
  <2>2. QED
    BY <1>2, <2>1 DEF Named
<1> HIDE DEF c
<1>4. \A r \in rows : /\ [r EXCEPT !.state = end].name = r.name
                      /\ [r EXCEPT !.state = "stopping"].name = r.name
                      /\ r.id = op[o].id => r.name = m
  BY <1>0, OwnRows DEF Rows, RowOf, Row
<1>5. QED
  BY <1>1, <1>3, <1>4 DEF OnlyRows

LEMMA ActsOnAName ==
    ASSUME Base, NEW o \in Slots, Goes(o)
    PROVE  op[o].kind # "idle" /\ op[o].name \in Names
<1>1. op[o].kind # "idle"
  BY DEF Goes, Build, Inserts, Network, Container, Starts, Ready, Rests, Undo, Cloned, StopBox,
     RemoveBox, Wipe, RemoveNetwork, RemoveDirectory, DiscardBox, DiscardNetwork,
     DiscardDirectory, EjectStops, WakeMakes, WakeStarts, WakeEnds, Has, Removers
<1>2. QED
  BY <1>1, Given

LEMMA GoesOnlyRows ==
    ASSUME Base, SoundInv, NEW o \in Slots, Goes(o)
    PROVE  OnlyRows(op[o].name)
<1>0. op[o].name \in Names /\ op[o].bad \in BOOLEAN
  BY ActsOnAName, Given, OpFields
<1>1. CASE UNCHANGED rows
  BY <1>1 DEF OnlyRows
<1>2. CASE \E s : rows' = Mark({op[o].id}, s)
  BY <1>0, <1>2, OwnRows, MarkOnlyRows
<1>3. CASE \E b \in BOOLEAN : RowGoes(o, b)
  BY <1>0, <1>3, RowGoesOnlyRows
<1>4. CASE DeleteProject(op[o].name, op[o].project)
  BY <1>0, <1>4, DeleteOnlyRows
<1>5. Fails(o) => \E s : rows' = Mark({op[o].id}, s)
  BY DEF Fails
<1>6. CASE Build(o) \/ Network(o) \/ Container(o) \/ Starts(o) \/ Ready(o) \/ Rests(o) \/ Undo(o) \/ Cloned(o)
  BY <1>1, <1>2, <1>5, <1>6 DEF Build, Network, Container, Starts, Ready, Rests, Undo, Cloned, store
<1>7. CASE StopBox(o)
  BY <1>1, <1>3, <1>7 DEF StopBox
<1>8. CASE RemoveBox(o)
  <2>1. PICK fails \in BOOLEAN : RowGoes(o, op[o].bad \/ fails) \/ UNCHANGED rows
    BY <1>8 DEF RemoveBox
  <2> DEFINE bad == op[o].bad \/ fails
  <2>2. bad \in BOOLEAN
    OBVIOUS
  <2>3. RowGoes(o, bad) \/ UNCHANGED rows
    BY <2>1
  <2> HIDE DEF bad
  <2>4. QED
    BY <1>1, <1>3, <2>2, <2>3
<1>9. CASE Wipe(o)
  BY <1>0, <1>3, <1>9 DEF Wipe
<1>10. CASE RemoveNetwork(o) \/ RemoveDirectory(o) \/ DiscardBox(o) \/ DiscardNetwork(o) \/ DiscardDirectory(o)
  BY <1>1, <1>4, <1>10
     DEF RemoveNetwork, RemoveDirectory, DiscardBox, DiscardNetwork, DiscardDirectory, store
<1>11. CASE WakeMakes(o) \/ WakeStarts(o) \/ WakeEnds(o)
  BY <1>1, <1>2, <1>11 DEF WakeMakes, WakeStarts, WakeEnds, store
<1>12. QED
  BY <1>6, <1>7, <1>8, <1>9, <1>10, <1>11, InsertsOnlyRows, EjectStopsOnlyRows DEF Goes

LEMMA GoesElsewhere ==
    ASSUME Base, SoundInv, NEW o \in Slots, Goes(o), NEW n \in Names \ {op[o].name}
    PROVE  Same(n)
BY ActsOnAName, GoesOnlyRows, GoesOnlyWorld, GoesOnlyOps, Elsewhere

\* What an operation begins on.
BeginsOn(o, n) ==
    \/ RmProjectBegins(o, n) \/ EjectBegins(o, n) \/ RestoreBegins(o, n)
    \/ \E k \in Kinds : CreateBegins(o, n, k)
    \/ \E r \in rows : RmBegins(o, n, r) \/ WakeBegins(o, n, r)
    \/ \E a \in Names : BranchBegins(o, a, n)

LEMMA BeginsOnAName ==
    ASSUME NEW o \in Slots, Begins(o)
    PROVE  \E n \in Names : BeginsOn(o, n)
BY DEF Begins, BeginsOn

\* What has begun, and the row it has marked.
Begun(o, n) ==
    /\ op[o] = Idle /\ \A s \in Slots \ {o} : op'[s] = op[s]
    /\ op'[o].name = n /\ op'[o].bad = FALSE
    /\ spoiled' = IF \E s \in Busy(n) : Clash(op'[o].kind, op[s].kind)
                  THEN spoiled \cup {n} ELSE spoiled
    /\ UNCHANGED world
Marked(o) == UNCHANGED rows \/ \E s : rows' = Mark({op'[o].id}, s)

LEMMA BeginIsBegun ==
    ASSUME Base, NEW o \in Slots, NEW c, Begin(o, c), c.bad = FALSE, UNCHANGED world
    PROVE  op'[o] = c /\ Begun(o, c.name)
<1>1. op'[o] = c /\ \A s \in Slots \ {o} : op'[s] = op[s]
  BY Given DEF Begin, Ops
<1>2. QED
  BY <1>1 DEF Begin, Begun, Spoil

LEMMA CreateBegun ==
    ASSUME Base, NEW o \in Slots, NEW n \in Names, NEW k \in Kinds, CreateBegins(o, n, k)
    PROVE  /\ Begun(o, n) /\ UNCHANGED <<rows, project>> /\ project[n] # None
           /\ op'[o].kind = "create" /\ op'[o].at \in {"build", "probe"}
           /\ op'[o].project = project[n]
<1> DEFINE c == [Idle EXCEPT !.kind = "create", !.at = IF k = "db" THEN "probe" ELSE "build",
                             !.name = n, !.res = k, !.project = project[n],
                             !.port = Least(Free)]
<1>1. Begin(o, c) /\ UNCHANGED world /\ UNCHANGED <<rows, project>> /\ project[n] # None
  BY DEF CreateBegins, store
<1>2. /\ c.kind = "create" /\ c.at \in {"build", "probe"} /\ c.name = n /\ c.bad = FALSE
      /\ c.project = project[n]
  BY IdleIsOp DEF Op
<1> HIDE DEF c
<1>3. op'[o] = c /\ Begun(o, n)
  BY <1>1, <1>2, BeginIsBegun
<1>4. QED
  BY <1>1, <1>2, <1>3

LEMMA RestoreBegun ==
    ASSUME Base, NEW o \in Slots, NEW n \in Names, RestoreBegins(o, n)
    PROVE  /\ Begun(o, n) /\ UNCHANGED <<rows, project>> /\ project[n] = None
           /\ op'[o].kind = "restore" /\ op'[o].at = "clone" /\ op'[o].res = "db"
<1> DEFINE c == [Idle EXCEPT !.kind = "restore", !.at = "clone", !.name = n, !.res = "db"]
<1>1. Begin(o, c) /\ UNCHANGED world /\ UNCHANGED <<rows, project>> /\ project[n] = None
  BY DEF RestoreBegins, store
<1>2. c.kind = "restore" /\ c.at = "clone" /\ c.name = n /\ c.bad = FALSE /\ c.res = "db"
  BY IdleIsOp DEF Op
<1> HIDE DEF c
<1>3. op'[o] = c /\ Begun(o, n)
  BY <1>1, <1>2, BeginIsBegun
<1>4. QED
  BY <1>1, <1>2, <1>3

LEMMA BranchBegun ==
    ASSUME Base, NEW o \in Slots, NEW a \in Names, NEW n \in Names, BranchBegins(o, a, n)
    PROVE  /\ Begun(o, n) /\ UNCHANGED rows /\ project[n] = None
           /\ project' = [project EXCEPT ![n] = made + 1]
           /\ op'[o].kind = "branch" /\ op'[o].at = "clone" /\ op'[o].res = "db"
           /\ op'[o].project = made + 1
<1> DEFINE c == [Idle EXCEPT !.kind = "branch", !.at = "clone", !.name = n, !.res = "db",
                             !.project = made + 1]
<1>1. /\ Begin(o, c) /\ UNCHANGED world /\ UNCHANGED rows /\ project[n] = None
      /\ project' = [project EXCEPT ![n] = made + 1]
  BY DEF BranchBegins
<1>2. /\ c.kind = "branch" /\ c.at = "clone" /\ c.name = n /\ c.bad = FALSE /\ c.res = "db"
      /\ c.project = made + 1
  BY IdleIsOp DEF Op
<1> HIDE DEF c
<1>3. op'[o] = c /\ Begun(o, n)
  BY <1>1, <1>2, BeginIsBegun
<1>4. QED
  BY <1>1, <1>2, <1>3

LEMMA RmBegun ==
    ASSUME Base, NEW o \in Slots, NEW n \in Names, NEW r \in rows, RmBegins(o, n, r)
    PROVE  /\ Begun(o, n) /\ rows' = Mark({op'[o].id}, "destroying") /\ UNCHANGED project
           /\ project[n] # None /\ r \in RowsOf(project[n])
           /\ op'[o].kind = "rm" /\ op'[o].at = "stop" /\ op'[o].id = r.id /\ op'[o].res = r.kind
<1> DEFINE c == [Idle EXCEPT !.kind = "rm", !.at = "stop", !.name = n, !.res = r.kind,
                             !.id = r.id]
<1>1. /\ Begin(o, c) /\ UNCHANGED world /\ rows' = Mark({r.id}, "destroying") /\ UNCHANGED project
      /\ project[n] # None /\ r \in RowsOf(project[n])
  BY DEF RmBegins
<1>2. c.kind = "rm" /\ c.at = "stop" /\ c.name = n /\ c.bad = FALSE /\ c.id = r.id /\ c.res = r.kind
  BY IdleIsOp DEF Op
<1> HIDE DEF c
<1>3. op'[o] = c /\ Begun(o, n)
  BY <1>1, <1>2, BeginIsBegun
<1>4. QED
  BY <1>1, <1>2, <1>3

LEMMA WakeBegun ==
    ASSUME Base, NEW o \in Slots, NEW n \in Names, NEW r \in rows, WakeBegins(o, n, r)
    PROVE  /\ Begun(o, n) /\ rows' = Mark({op'[o].id}, "starting") /\ UNCHANGED project
           /\ project[n] # None /\ r \in RowsOf(project[n])
           /\ op'[o].kind = "wake" /\ op'[o].at = "start" /\ op'[o].id = r.id
           /\ op'[o].res = r.kind /\ op'[o].port = r.port
<1> DEFINE c == [Idle EXCEPT !.kind = "wake", !.at = "start", !.name = n, !.res = r.kind,
                             !.id = r.id, !.port = r.port]
<1>1. /\ Begin(o, c) /\ UNCHANGED world /\ rows' = Mark({r.id}, "starting") /\ UNCHANGED project
      /\ project[n] # None /\ r \in RowsOf(project[n])
  BY DEF WakeBegins
<1>2. /\ c.kind = "wake" /\ c.at = "start" /\ c.name = n /\ c.bad = FALSE /\ c.id = r.id
      /\ c.res = r.kind /\ c.port = r.port
  BY IdleIsOp DEF Op
<1> HIDE DEF c
<1>3. op'[o] = c /\ Begun(o, n)
  BY <1>1, <1>2, BeginIsBegun
<1>4. QED
  BY <1>1, <1>2, <1>3

\* What an operation that goes through a list takes, and what it leaves for later.
Takes(c, T) ==
    /\ T = {} => c.at = "network" /\ c.id = None /\ c.todo = {}
    /\ T # {} => c.at = "stop" /\ c.id # None /\ <<c.id, c.res>> \in T
                 /\ c.todo = T \ {<<c.id, c.res>>}

LEMMA RmProjectBegun ==
    ASSUME Base, NEW o \in Slots, NEW n \in Names, RmProjectBegins(o, n)
    PROVE  /\ Begun(o, n) /\ rows' = Mark({op'[o].id}, "destroying") /\ UNCHANGED project
           /\ project[n] # None
           /\ op'[o].kind \in Clearers /\ op'[o].project = project[n]
           /\ Takes(op'[o], {<<r.id, r.kind>> : r \in RowsOf(project[n])})
<1> DEFINE d == [Idle EXCEPT !.kind = IF n \in released THEN "forget" ELSE "rmProject",
                             !.name = n, !.project = project[n]]
           T == {<<r.id, r.kind>> : r \in RowsOf(project[n])}
           c == Take(d, T)
<1>1. /\ Begin(o, c) /\ UNCHANGED world /\ rows' = Mark({c.id}, "destroying") /\ UNCHANGED project
      /\ project[n] # None
  BY DEF RmProjectBegins
<1>2. /\ d \in Op /\ d.name = n /\ d.kind \in Clearers /\ d.project = project[n] /\ d.bad = FALSE
      /\ d.id = 0 /\ d.kind # "idle"
  <2>1. project[n] \in Nat
    BY Given DEF Count
  <2>2. QED
    BY <2>1, IdleIsOp DEF Op, OpKinds, Clearers
<1>3. T \in SUBSET ((1..made) \X Kinds) /\ made \in Nat /\ project[n] \in 0..made
  BY ListedRows, Given DEF RowsOf, Count
<1> HIDE DEF d, T
<1>4. d.id <= made /\ d.project <= made
  <2>1. project[n] <= made /\ 0 <= made
    BY <1>3
  <2>2. QED
    BY <1>2, <2>1
<1>5. /\ OpOf(c, made)
      /\ c.kind = d.kind /\ c.name = d.name /\ c.project = d.project /\ c.bad = d.bad
      /\ T = {} => c.at = "network" /\ c.id = None /\ c.todo = {}
      /\ T # {} => /\ c.at = "stop" /\ c.id # None /\ <<c.id, c.res>> \in T
                   /\ c.todo = T \ {<<c.id, c.res>>}
  <2>1. /\ d \in Op /\ d.kind # "idle" /\ d.name \in Names /\ d.id <= made /\ d.project <= made
        /\ made \in Nat /\ T \in SUBSET ((1..made) \X Kinds)
    BY <1>2, <1>3, <1>4
  <2>2. QED
    BY <2>1, TakeIsOp, SMTT(60)
<1> HIDE DEF c
<1>6. op'[o] = c /\ Begun(o, n)
  BY <1>1, <1>2, <1>5, BeginIsBegun
<1>7. Takes(op'[o], T)
  BY <1>5, <1>6 DEF Takes
<1>8. QED
  BY <1>1, <1>2, <1>5, <1>6, <1>7 DEF T

LEMMA EjectBegun ==
    ASSUME Base, NEW o \in Slots, NEW n \in Names, EjectBegins(o, n), ~UNCHANGED <<rows, op>>
    PROVE  /\ Begun(o, n) /\ rows' = Mark({op'[o].id}, "stopping") /\ UNCHANGED project
           /\ project[n] # None
           /\ op'[o].kind = "eject"
           /\ LET T == {<<r.id, r.kind>> : r \in {x \in RowsOf(project[n]) : x.state = "running"}}
              IN <<op'[o].id, op'[o].res>> \in T /\ op'[o].todo \subseteq T
<1> DEFINE d == [Idle EXCEPT !.kind = "eject", !.name = n, !.project = project[n]]
           T == {<<r.id, r.kind>> : r \in {x \in RowsOf(project[n]) : x.state = "running"}}
           t == Take(d, T)
           c == [t EXCEPT !.at = "stop"]
<1>1. /\ Begin(o, c) /\ UNCHANGED world /\ rows' = Mark({op'[o].id}, "stopping") /\ UNCHANGED project
      /\ project[n] # None /\ T # {}
  BY DEF EjectBegins
<1>2. /\ d \in Op /\ d.name = n /\ d.kind = "eject" /\ d.project = project[n] /\ d.bad = FALSE
      /\ d.id = 0
  <2>1. project[n] \in Nat
    BY Given DEF Count
  <2>2. QED
    BY <2>1, IdleIsOp DEF Op, OpKinds
<1>3. T \in SUBSET ((1..made) \X Kinds) /\ made \in Nat /\ project[n] \in 0..made
  BY ListedRows, Given DEF RowsOf, Count
<1> HIDE DEF d, T
<1>4. d.id <= made /\ d.project <= made
  <2>1. project[n] <= made /\ 0 <= made
    BY <1>3
  <2>2. QED
    BY <1>2, <2>1
<1>5. /\ OpOf(t, made) /\ t.kind = d.kind /\ t.name = d.name /\ t.bad = d.bad
      /\ <<t.id, t.res>> \in T /\ t.todo = T \ {<<t.id, t.res>>}
  BY <1>1, <1>2, <1>3, <1>4, TakeIsOp
<1>6. t \in Op
  BY <1>5 DEF OpOf
<1> HIDE DEF t
<1>7. c.kind = t.kind /\ c.name = t.name /\ c.bad = t.bad /\ c.id = t.id /\ c.res = t.res /\ c.todo = t.todo
  BY <1>6 DEF Op
<1> HIDE DEF c
<1>8. op'[o] = c /\ Begun(o, n)
  <2>1. c.name = n /\ c.bad = FALSE
    BY <1>2, <1>5, <1>7
  <2>2. QED
    BY <1>1, <2>1, BeginIsBegun
<1>9. <<op'[o].id, op'[o].res>> \in T /\ op'[o].todo \subseteq T
  BY <1>5, <1>7, <1>8
<1>10. QED
  BY <1>1, <1>2, <1>5, <1>7, <1>8, <1>9 DEF T

LEMMA BeginsElsewhere ==
    ASSUME Base, SoundInv, NEW o \in Slots, NEW n \in Names, BeginsOn(o, n), NEW m \in Names \ {n}
    PROVE  Same(m)
<1>0. Ops /\ Count /\ Rows
  BY Given
<1>1. OnlyWorld(n)
  <2>1. UNCHANGED world /\ (UNCHANGED project \/ \E p : project' = [project EXCEPT ![n] = p])
    BY DEF BeginsOn, RmProjectBegins, EjectBegins, RestoreBegins, CreateBegins, RmBegins, WakeBegins,
       BranchBegins, store
  <2>2. QED
    BY <1>0, <2>1 DEF world, OnlyWorld, Count
<1>2. UNCHANGED <<rows, op>> \/ (Begun(o, n) /\ Marked(o))
  BY CreateBegun, RestoreBegun, BranchBegun, RmBegun, WakeBegun, RmProjectBegun, EjectBegun
     DEF BeginsOn, Marked
<1>3. OnlyRows(n)
  <2>1. CASE UNCHANGED rows
    BY <2>1 DEF OnlyRows
  <2>2. ASSUME Begun(o, n), NEW s, rows' = Mark({op'[o].id}, s) PROVE OnlyRows(n)
    <3>1. SoundInv'
      <4>1. Begins(o)
        BY DEF BeginsOn, Begins
      <4>2. Base'
        BY CreateBeginsBase, BranchBeginsBase, RestoreBeginsBase, RmBeginsBase,
           RmProjectBeginsBase, EjectBeginsBase, WakeBeginsBase DEF BeginsOn
      <4>3. QED
        BY <4>1, <4>2, SoundBegins
    <3>2. ASSUME NEW q \in rows, q.id = op'[o].id PROVE q.name = n
      <4> DEFINE u == [q EXCEPT !.state = s]
      <4>1. u \in rows'
        BY <2>2, <3>2 DEF Mark
      <4>2. u.id = q.id /\ u.name = q.name
        BY <1>0 DEF Rows, RowOf, Row
      <4> HIDE DEF u
      <4>3. Named(op'[o], u)
        BY <3>1, <4>1 DEF SoundInv, Naming, Named
      <4>4. QED
        BY <2>2, <3>2, <4>2, <4>3 DEF Named, Begun
    <3>3. QED
      BY <2>2, <3>2, MarkOnlyRows
  <2>3. QED
    BY <1>2, <2>1, <2>2 DEF Marked
<1>4. OnlyOps(n)
  <2>1. CASE UNCHANGED op
    BY <2>1, AlikeItself DEF OnlyOps
  <2>2. CASE Begun(o, n)
    BY <2>2, AlikeItself, IdleIsOp DEF OnlyOps, Begun
  <2>3. QED
    BY <1>2, <2>1, <2>2
<1>5. QED
  BY <1>1, <1>3, <1>4, Elsewhere

-----------------------------------------------------------------------------
(* Steps that are no removal's: what a name has is kept.                   *)

LEMMA SpoiledStays ==
    ASSUME [Next]_vars
    PROVE  spoiled \subseteq spoiled'
<1>0. \A n, w : Spoil(n, w) => spoiled \subseteq spoiled'
  BY DEF Spoil
<1>1. ASSUME NEW o \in Slots, Begins(o) PROVE spoiled \subseteq spoiled'
  <2>1. \A c : Begin(o, c) => spoiled \subseteq spoiled'
    BY <1>0 DEF Begin
  <2>2. QED
    BY <1>1, <2>1 DEF Begins, RmProjectBegins, EjectBegins, RestoreBegins, CreateBegins, RmBegins,
       WakeBegins, BranchBegins
<1>2. ASSUME NEW o \in Slots PROVE /\ Fails(o) => spoiled \subseteq spoiled'
                                   /\ \A b : RowGoes(o, b) => spoiled \subseteq spoiled'
  BY <1>0 DEF Fails, RowGoes
<1>3. ASSUME NEW o \in Slots,
             \/ Build(o) \/ Inserts(o) \/ Network(o) \/ Container(o) \/ Starts(o) \/ Ready(o)
             \/ Rests(o) \/ Undo(o) \/ Cloned(o)
      PROVE  spoiled \subseteq spoiled'
  BY <1>0, <1>2, <1>3
     DEF Build, Inserts, Network, Container, Starts, Ready, Rests, Undo, Cloned, hist
<1>4. ASSUME NEW o \in Slots,
             \/ StopBox(o) \/ RemoveBox(o) \/ Wipe(o) \/ RemoveNetwork(o) \/ RemoveDirectory(o)
             \/ DiscardBox(o) \/ DiscardNetwork(o) \/ DiscardDirectory(o)
             \/ EjectStops(o) \/ WakeMakes(o) \/ WakeStarts(o) \/ WakeEnds(o)
      PROVE  spoiled \subseteq spoiled'
  BY <1>0, <1>2, <1>4
     DEF StopBox, RemoveBox, Wipe, RemoveNetwork, RemoveDirectory, DiscardBox, DiscardNetwork,
     DiscardDirectory, EjectStops, WakeMakes, WakeStarts, WakeEnds, hist
<1>5. ASSUME NEW n \in Names, NewProject(n) \/ Adopt(n) PROVE spoiled \subseteq spoiled'
  BY <1>0, <1>5 DEF NewProject, Adopt, hist
<1>6. QED
  BY <1>1, <1>3, <1>4, <1>5 DEF Next, Goes, DaemonDies, vars, hist

InUse == {"sleeping", "running", "stopping"}

Twin(r, q) == /\ r.id = q.id /\ r.project = q.project /\ r.name = q.name
              /\ r.kind = q.kind /\ r.port = q.port /\ r.seed = q.seed
RowsKept(n) == /\ \A r \in Of(n)' : \E q \in Of(n) : Twin(r, q)
               /\ \A q \in Of(n) : \E r \in Of(n)' : Twin(r, q)
BoxesKept(n) ==
    \A k \in Kinds :
        /\ box[n][k] # Gone =>
              box'[n][k].whose = box[n][k].whose /\ box'[n][k].port = box[n][k].port
        /\ box'[n][k] # Gone =>
              \/ box[n][k] # Gone
              \/ \E r \in Of(n) : r.kind = k /\ r.id = box'[n][k].whose /\ r.port = box'[n][k].port
DataKept(n) ==
    \/ data'[n] = data[n] \/ data[n] = None
    \/ Of(n) = {} /\ data'[n] = Copied

LEMMA RowFacts ==
    ASSUME Base, SoundInv, NEW n \in Names, NEW r \in Of(n)
    PROVE  /\ r \in rows /\ r.name = n /\ r.id \in 1..made /\ r.id \in Nat /\ r.id # None
           /\ r.project # None /\ r.kind \in Kinds /\ r.state \in States /\ r.seed # None
           /\ r.project \in Nat /\ r.port \in Ports
<1>1. r \in rows /\ r.name = n /\ RowOf(r, made) /\ made \in Nat
  BY Given DEF Of, Rows
<1>2. r.id \in 1..made /\ r.project \in 1..made /\ r.kind \in Kinds /\ r.state \in States /\ r.port \in Ports
  BY <1>1 DEF RowOf, Row
<1>3. r.seed \in {r.id, Copied}
  BY <1>1 DEF SoundInv, Seeded
<1>4. QED
  BY <1>1, <1>2, <1>3

LEMMA RightKept ==
    ASSUME Base, SoundInv, NEW n \in Names, BoxesKept(n), DataKept(n),
           NEW q \in Of(n), NEW r, Twin(r, q), Right(q)
    PROVE  Right(r)'
<1> DEFINE k == q.kind
<1>1. r.name = n /\ r.kind = k /\ k \in Kinds /\ q.id # None /\ q.seed # None /\ q.name = n
  BY RowFacts DEF Twin
<1>2. box[n][k] # Gone
  BY <1>1 DEF Right, Gone
<1>3. box'[n][k].whose = q.id /\ box'[n][k].port = q.port
  BY <1>1, <1>2 DEF BoxesKept, Right
<1>4. k = "db" => data'[n] = q.seed
  BY <1>1 DEF DataKept, Right
<1>5. QED
  BY <1>1, <1>3, <1>4 DEF Right, Twin

LEMMA BystandsKept ==
    ASSUME Base, SoundInv, NEW n \in Names, NEW s \in Busy(n), Alike(op'[s], op[s]),
           Bystands(op[s]), project'[n] = project[n], RowsKept(n), BoxesKept(n), DataKept(n)
    PROVE  Bystands(op[s])'
<1> DEFINE c == op[s]
           d == op'[s]
<1>0. Alike(d, c) /\ c.name = n /\ d.name = n /\ (Holds(d) <=> Holds(c))
  BY DEF Busy, Alike, Holds
<1>1. HasProject(c)'
  BY <1>0 DEF Bystands, HasProject, Alike
<1>2. KeepsRow(c)'
  <2>1. ASSUME NEW q \in Of(n), q.id = c.id /\ q.kind = c.res /\ q.port = c.port
        PROVE  \E r \in Of(n)' : r.id = d.id /\ r.kind = d.res /\ r.port = d.port
    BY <1>0, <2>1 DEF RowsKept, Twin, Alike
  <2>2. QED
    BY <1>0, <2>1 DEF Bystands, KeepsRow, Alike
<1>3. HasBooted(c)'
  <2>1. ASSUME d.kind = "create", d.at = "stop", NEW r \in Of(n)', r.id = d.id PROVE Right(r)'
    <3>1. PICK q \in Of(n) : Twin(r, q)
      BY DEF RowsKept
    <3>2. Right(q)
      BY <1>0, <2>1, <3>1 DEF Bystands, HasBooted, Alike, Twin
    <3>3. QED
      BY <3>1, <3>2, RightKept
  <2>2. QED
    BY <1>0, <2>1 DEF HasBooted
<1>4. Copies(c)'
  <2>1. ASSUME Holds(d), NEW r \in Of(n)' PROVE r.id = d.id /\ r.seed = Copied /\ d.at \in Rowed
    BY <1>0, <2>1 DEF RowsKept, Twin, Bystands, Copies, Alike
  <2>2. ASSUME Holds(d), d.at # "clone" PROVE data'[n] = Copied
    BY <1>0, <2>2 DEF DataKept, Bystands, Copies, Alike
  <2>3. d.kind \in Copiers => d.res = "db"
    BY <1>0 DEF Bystands, Copies, Alike
  <2>4. QED
    BY <1>0, <2>1, <2>2, <2>3 DEF Copies, Holds
<1>5. Ejects(c)'
  <2>1. ASSUME d.kind = "eject", NEW r \in Of(n)', Listed(d, r) PROVE Right(r)'
    <3>1. PICK q \in Of(n) : Twin(r, q)
      BY DEF RowsKept
    <3>2. Listed(c, q)
      BY <1>0, <2>1, <3>1 DEF Alike, Listed, Twin
    <3>3. Right(q)
      BY <1>0, <2>1, <3>2 DEF Bystands, Ejects, Alike
    <3>4. QED
      BY <3>1, <3>3, RightKept
  <2>2. QED
    BY <1>0, <2>1 DEF Ejects, Listed
<1>6. QED
  BY <1>1, <1>2, <1>3, <1>4, <1>5 DEF Bystands

LEMMA NoRows ==
    ASSUME Base, SoundInv, NEW n \in Names, Owned(n), project[n] = None
    PROVE  Of(n) = {}
BY RowFacts DEF Owned

LEMMA SteadyStep ==
    ASSUME Base, SoundInv, NEW n \in Names, Clean(n), Company(n)',
           \A s \in Busy(n) : op[s].kind \notin Removers,
           \A s \in Busy(n)' : \/ s \in Busy(n) /\ Alike(op'[s], op[s])
                               \/ Relies(op[s])',
           project'[n] = project[n], RowsKept(n), BoxesKept(n), DataKept(n),
           project[n] = None => dir'[n] = dir[n] /\ data'[n] = data[n] /\ (n \in net' => n \in net),
           \A r \in Of(n)' : r.state \in InUse =>
               Right(r)' \/ \E q \in Of(n) : Twin(r, q) /\ q.state \in InUse
    PROVE  Clean(n)'
<1>1. ASSUME NEW s \in Busy(n)' PROVE Relies(op[s])'
  <2>1. CASE Relies(op[s])'
    BY <2>1
  <2>2. CASE s \in Busy(n) /\ Alike(op'[s], op[s])
    <3>1. Bystands(op[s])'
      BY <2>2, BystandsKept DEF Clean, Relies
    <3>2. op'[s].kind \notin Removers
      BY <2>2 DEF Alike
    <3>3. Withdraws(op[s])'
      BY <3>2 DEF Withdraws, Undoes, Discards, Removes, Clears, Removers, Takers, Clearers
    <3>4. QED
      BY <3>1, <3>3 DEF Relies
  <2>3. QED
    BY <2>1, <2>2
<1>2. Owned(n)'
  BY DEF Clean, Owned, RowsKept, Twin
<1>3. Boxed(n)'
  <2>1. ~LeftOver(n)
    BY DEF LeftOver, Clearers, Removers
  <2>2. ASSUME NEW k \in Kinds, box'[n][k] # Gone
        PROVE  \E r \in Of(n)' : r.kind = k /\ r.id = box'[n][k].whose /\ r.port = box'[n][k].port
    <3>1. PICK q \in Of(n) : q.kind = k /\ q.id = box'[n][k].whose /\ q.port = box'[n][k].port
      BY <2>1, <2>2 DEF Clean, Boxed, BoxesKept
    <3>2. QED
      BY <3>1 DEF RowsKept, Twin
  <2>3. QED
    BY <2>2 DEF Boxed
<1>4. Usable(n)'
  <2>1. ASSUME NEW r \in Of(n)', r.state \in InUse PROVE Right(r)'
    <3>1. CASE \E q \in Of(n) : Twin(r, q) /\ q.state \in InUse
      <4>1. PICK q \in Of(n) : Twin(r, q) /\ q.state \in InUse
        BY <3>1
      <4>2. Right(q)
        BY <4>1 DEF Clean, Usable, InUse
      <4>3. QED
        BY <4>1, <4>2, RightKept
    <3>2. QED
      BY <2>1, <3>1
  <2>2. QED
    BY <2>1 DEF Usable, InUse
<1>5. Bare(n)'
  BY DEF Clean, Bare, Removers
<1>6. QED
  BY <1>1, <1>2, <1>3, <1>4, <1>5 DEF Clean

\* Rows that are marked are kept.
LEMMA MarkKeepsRows ==
    ASSUME Base, NEW n \in Names, NEW S, NEW s, rows' = Mark(S, s)
    PROVE  /\ RowsKept(n)
           /\ \A r \in Of(n)' : \E q \in Of(n) :
                 Twin(r, q) /\ (r = q \/ (q.id \in S /\ r.state = s))
<1>1. ASSUME NEW q \in rows
      PROVE  /\ Twin([q EXCEPT !.state = s], q) /\ [q EXCEPT !.state = s].state = s
             /\ Twin(q, q)
  BY Given DEF Rows, RowOf, Row, Twin
<1>2. \A r \in rows' : \E q \in rows : Twin(r, q) /\ (r = q \/ (q.id \in S /\ r.state = s))
  BY <1>1 DEF Mark
<1>3. \A q \in rows : \E r \in rows' : Twin(r, q)
  BY <1>1 DEF Mark
<1>4. QED
  BY <1>2, <1>3 DEF RowsKept, Of, Twin

LEMMA SameRowsKept ==
    ASSUME NEW n \in Names, UNCHANGED rows
    PROVE  RowsKept(n) /\ \A r \in Of(n)' : r \in Of(n) /\ Twin(r, r)
BY DEF RowsKept, Of, Twin

\* An operation that is no removal has no removal beside it.
LEMMA CompanyStays ==
    ASSUME Base, NEW o \in Slots, NEW n \in Names, Company(n), op[o].name = n,
           op[o].kind \notin Removers, \A s \in Slots \ {o} : op'[s] = op[s],
           \/ op'[o] = Idle
           \/ /\ op'[o].name = n
              /\ \/ op'[o].kind = op[o].kind /\ (Holds(op'[o]) => Holds(op[o]))
                 \/ Busy(n) = {o}
    PROVE  /\ Company(n)' /\ \A s \in Busy(n) : op[s].kind \notin Removers
           /\ \A s \in Busy(n)' : s = o \/ (s \in Busy(n) /\ Alike(op'[s], op[s]))
<1>1. o \in Busy(n)
  BY DEF Busy
<1>2. \A s \in Busy(n) : op[s].kind \notin Removers
  BY <1>1 DEF Company
<1>3. \A s \in Busy(n)' : s = o \/ (s \in Busy(n) /\ Alike(op'[s], op[s]) /\ op'[s] = op[s])
  <2>1. ASSUME NEW s \in Slots \ {o}, op'[s].name = n PROVE s \in Busy(n) /\ Alike(op'[s], op[s]) /\ op'[s] = op[s]
    BY <2>1, AlikeItself DEF Busy
  <2>2. QED
    BY <2>1 DEF Busy
<1>4. CASE op'[o] = Idle
  <2>1. o \notin Busy(n)'
    BY <1>4, IdleIsOp, ProjectsAssumption DEF Busy
  <2>2. Company(n)'
    BY <1>3, <2>1 DEF Company, Holds
  <2>3. QED
    BY <1>2, <1>3, <2>2
<1>5. CASE Busy(n) = {o}
  <2>1. Busy(n)' \subseteq {o}
    BY <1>3, <1>5
  <2>2. Company(n)'
    BY <2>1 DEF Company, Copiers
  <2>3. QED
    BY <1>2, <1>3, <2>2
<1>6. CASE op'[o].kind = op[o].kind /\ (Holds(op'[o]) => Holds(op[o]))
  <2>1. \A s \in Busy(n)' : s \in Busy(n) /\ op'[s].kind = op[s].kind /\ (Holds(op'[s]) => Holds(op[s]))
    BY <1>1, <1>3, <1>6
  <2>2. Company(n)'
    BY <2>1 DEF Company, Holds
  <2>3. QED
    BY <1>2, <1>3, <2>2
<1>7. QED
  BY <1>4, <1>5, <1>6

LEMMA GoesSteadily ==
    ASSUME Base, SoundInv, NEW o \in Slots, NEW n \in Names, Clean(n), op[o].name = n,
           op[o].kind \notin Removers, \A s \in Slots \ {o} : op'[s] = op[s],
           \/ op'[o] = Idle
           \/ /\ op'[o].name = n
              /\ \/ op'[o].kind = op[o].kind /\ (Holds(op'[o]) => Holds(op[o]))
                 \/ Busy(n) = {o}
              /\ Relies(op[o])',
           project'[n] = project[n], RowsKept(n), BoxesKept(n), DataKept(n),
           project[n] = None => dir'[n] = dir[n] /\ data'[n] = data[n] /\ (n \in net' => n \in net),
           \A r \in Of(n)' : r.state \in InUse =>
               Right(r)' \/ \E q \in Of(n) : Twin(r, q) /\ q.state \in InUse
    PROVE  Clean(n)'
<1>1. /\ Company(n)' /\ \A s \in Busy(n) : op[s].kind \notin Removers
      /\ \A s \in Busy(n)' : s = o \/ (s \in Busy(n) /\ Alike(op'[s], op[s]))
  BY CompanyStays DEF Clean
<1>2. op'[o] = Idle => o \notin Busy(n)'
  BY IdleIsOp, ProjectsAssumption DEF Busy
<1>3. \A s \in Busy(n)' : \/ s \in Busy(n) /\ Alike(op'[s], op[s])
                          \/ Relies(op[s])'
  BY <1>1, <1>2
<1>4. QED
  BY <1>1, <1>3, SteadyStep

-----------------------------------------------------------------------------
(* Creations.                                                              *)

LEMMA NotRemoving ==
    ASSUME NEW k, k \notin Removers
    PROVE  k \notin {"undo", "discard", "rm", "rmProject", "forget"} /\ k \notin Takers /\ k \notin Clearers
BY DEF Removers, Takers, Clearers

\* What is no removal relies on no more than what it stands beside.
LEMMA OnlyBystands ==
    ASSUME NEW c, c.kind \notin Removers
    PROVE  Withdraws(c) /\ (Bystands(c) => Relies(c))
BY DEF Withdraws, Undoes, Discards, Removes, Clears, Removers, Takers, Clearers, Relies

LEMMA OneRowOfAKind ==
    ASSUME SoundInv, NEW n \in Names, Owned(n), NEW r \in Of(n), NEW s \in Of(n), r.kind = s.kind
    PROVE  r = s
BY DEF SoundInv, OneKind, Owned, Of

LEMMA BoxIsOf ==
    ASSUME Base, SoundInv, NEW n \in Names, Clean(n),
           \A s \in Busy(n) : op[s].kind \notin Removers,
           NEW r \in Of(n), box[n][r.kind] # Gone
    PROVE  box[n][r.kind].whose = r.id /\ box[n][r.kind].port = r.port
<1>1. ~LeftOver(n)
  BY DEF LeftOver, Clearers, Removers
<1>2. r.kind \in Kinds
  BY RowFacts
<1>3. PICK q \in Of(n) : q.kind = r.kind /\ q.id = box[n][r.kind].whose /\ q.port = box[n][r.kind].port
  BY <1>1, <1>2 DEF Clean, Boxed
<1>4. q = r
  BY <1>3, OneRowOfAKind DEF Clean
<1>5. QED
  BY <1>3, <1>4

LEMMA AnswersIsRight ==
    ASSUME Base, SoundInv, NEW n \in Names, Clean(n),
           \A s \in Busy(n) : op[s].kind \notin Removers,
           NEW r \in Of(n), Answers(r)
    PROVE  Right(r)
<1>1. r.name = n /\ r.kind \in Kinds
  BY RowFacts
<1>2. box[n][r.kind].up /\ box[n][r.kind].port = r.port /\ (r.kind = "db" => data[n] = r.seed)
  BY <1>1 DEF Answers
<1>3. box[n][r.kind] # Gone
  BY <1>2 DEF Gone
<1>4. QED
  BY <1>1, <1>2, <1>3, BoxIsOf DEF Right

LEMMA NoRemoverBeside ==
    ASSUME NEW o \in Slots, NEW n \in Names, Company(n), op[o].name = n, op[o].kind \notin Removers
    PROVE  \A s \in Busy(n) : op[s].kind \notin Removers
BY DEF Company, Busy

\* What an operation that is making something has.
LEMMA ItsOwn ==
    ASSUME Base, SoundInv, NEW o \in Slots, NEW n \in Names, Clean(n), op[o].name = n,
           op[o].kind \in {"create", "wake"} \/ (op[o].kind \in Copiers /\ op[o].at # "clone")
    PROVE  /\ o \in Busy(n) /\ Bystands(op[o]) /\ project[n] # None
           /\ op[o].kind \notin Removers /\ op[o].kind # "idle"
           /\ \A s \in Busy(n) : op[s].kind \notin Removers
           /\ op[o].kind # "wake" => op[o].project = project[n]
<1>1. o \in Busy(n) /\ op[o].kind \notin Removers /\ op[o].kind # "idle"
  BY DEF Busy, Removers, Copiers
<1>2. Bystands(op[o])
  BY <1>1 DEF Clean, Relies
<1>3. CASE op[o].kind = "wake"
  <2>1. PICK r \in Of(n) : r.id = op[o].id
    BY <1>2, <1>3 DEF Bystands, KeepsRow
  <2>2. project[n] # None
    BY <2>1, RowFacts DEF Clean, Owned
  <2>3. QED
    BY <1>1, <1>2, <1>3, <2>2, NoRemoverBeside DEF Clean
<1>4. CASE op[o].kind # "wake"
  <2>1. op[o].kind = "create" \/ Holds(op[o])
    BY <1>4 DEF Holds, Copiers
  <2>2. op[o].project = project[n] /\ op[o].project # None
    BY <1>2, <2>1 DEF Bystands, HasProject
  <2>3. QED
    BY <1>1, <1>2, <1>4, <2>2, NoRemoverBeside DEF Clean
<1>5. QED
  BY <1>3, <1>4

\* The row of one that has written it.
LEMMA ItsRow ==
    ASSUME Base, SoundInv, NEW o \in Slots, NEW n \in Names, Clean(n), op[o].name = n,
           \/ op[o].kind = "create" /\ op[o].at \notin Planned
           \/ op[o].kind = "wake"
           \/ op[o].kind \in Copiers /\ op[o].at \in Rowed
    PROVE  \E r \in Of(n) : /\ r.id = op[o].id /\ r.kind = op[o].res /\ r.port = op[o].port
                            /\ \A q \in rows : q.id = op[o].id => q = r
                            /\ op[o].kind \in Copiers => r.seed = Copied /\ data[n] = Copied /\ r.kind = "db"
                            /\ op[o].kind = "create" /\ op[o].at = "stop" => Right(r)
<1>1. op[o].kind \in Copiers => op[o].at # "clone"
  BY DEF Rowed, Copiers
<1>2. Bystands(op[o])
  BY <1>1, ItsOwn
<1>3. op[o].kind \in Copiers => Holds(op[o])
  BY <1>1 DEF Holds, Copiers
<1>4. PICK r \in Of(n) : r.id = op[o].id /\ r.kind = op[o].res /\ r.port = op[o].port
  BY <1>2, <1>3 DEF Bystands, KeepsRow
<1>5. \A q \in rows : q.id = op[o].id => q = r
  BY <1>4, Given DEF Rows, Of
<1>6. op[o].kind \in Copiers => r.seed = Copied /\ data[n] = Copied /\ r.kind = "db"
  BY <1>1, <1>2, <1>3, <1>4 DEF Bystands, Copies
<1>7. op[o].kind = "create" /\ op[o].at = "stop" => Right(r)
  BY <1>2, <1>4 DEF Bystands, HasBooted
<1>8. QED
  BY <1>4, <1>5, <1>6, <1>7

LEMMA GoRelies ==
    ASSUME Base, SoundInv, NEW o \in Slots, NEW n \in Names, op[o].name = n,
           op[o].kind \notin Removers, Bystands(op[o]), NEW at \in Ats, Go(o, at),
           project'[n] = project[n], RowsKept(n), BoxesKept(n), DataKept(n),
           op[o].at # "clone", at # "clone", at \in Planned \/ op[o].at \notin Planned,
           op[o].kind \in Copiers => op[o].at \in Rowed /\ at \in Rowed,
           op[o].kind = "create" /\ at = "stop" => \A r \in Of(n)' : r.id = op[o].id => Right(r)'
    PROVE  /\ \A s \in Slots \ {o} : op'[s] = op[s]
           /\ op'[o].name = n /\ op'[o].kind = op[o].kind
           /\ Holds(op'[o]) => Holds(op[o])
           /\ Relies(op[o])'
<1> DEFINE c == op[o]
           d == op'[o]
<1>0. /\ \A s \in Slots \ {o} : op'[s] = op[s]
      /\ d.at = at /\ d.kind = c.kind /\ d.id = c.id /\ d.name = n /\ d.res = c.res
      /\ d.todo = c.todo /\ d.project = c.project /\ d.port = c.port
  BY GoesOn
<1>1. (Holds(d) <=> Holds(c)) /\ (Holds(c) => c.kind \in Copiers)
  BY <1>0 DEF Holds, Copiers
<1>2. HasProject(c)'
  BY <1>0, <1>1 DEF Bystands, HasProject, Removers, Clearers
<1>3. KeepsRow(c)'
  <2>1. ASSUME NEW q \in Of(n), q.id = c.id /\ q.kind = c.res /\ q.port = c.port
        PROVE  \E r \in Of(n)' : r.id = d.id /\ r.kind = d.res /\ r.port = d.port
    BY <1>0, <2>1 DEF RowsKept, Twin
  <2>2. QED
    BY <1>0, <1>1, <2>1 DEF Bystands, KeepsRow
<1>4. HasBooted(c)'
  BY <1>0 DEF HasBooted
<1>5. Copies(c)'
  <2>1. d.kind \in Copiers => d.res = "db"
    BY <1>0 DEF Bystands, Copies
  <2>2. ASSUME Holds(d), NEW r \in Of(n)' PROVE r.id = d.id /\ r.seed = Copied /\ d.at \in Rowed
    BY <1>0, <1>1, <2>2 DEF RowsKept, Twin, Bystands, Copies
  <2>3. Holds(d) => data'[n] = Copied
    BY <1>1 DEF Bystands, Copies, DataKept
  <2>4. QED
    BY <1>0, <2>1, <2>2, <2>3 DEF Copies, Holds
<1>6. Ejects(c)'
  <2>1. ASSUME d.kind = "eject", NEW r \in Of(n)', Listed(d, r) PROVE Right(r)'
    <3>1. PICK q \in Of(n) : Twin(r, q)
      BY DEF RowsKept
    <3>2. Listed(c, q)
      BY <1>0, <2>1, <3>1 DEF Listed, Twin
    <3>3. Right(q)
      BY <1>0, <2>1, <3>2 DEF Bystands, Ejects
    <3>4. QED
      BY <3>1, <3>3, RightKept
  <2>2. QED
    BY <1>0, <2>1 DEF Ejects, Listed
<1>7. Bystands(c)'
  BY <1>2, <1>3, <1>4, <1>5, <1>6 DEF Bystands
<1>8. Withdraws(c)'
  BY <1>0 DEF Withdraws, Undoes, Discards, Removes, Clears, Removers, Takers, Clearers
<1>9. QED
  BY <1>0, <1>1, <1>7, <1>8 DEF Relies

\* A box that is what it was but for being up, or that is new and the row's.
LEMMA SameBoxesKept ==
    ASSUME NEW n \in Names, UNCHANGED box
    PROVE  BoxesKept(n)
BY DEF BoxesKept

LEMMA SetBoxIs ==
    ASSUME Base, NEW n \in Names, NEW k, NEW b, SetBox(n, k, b)
    PROVE  /\ \A j \in Kinds : box'[n][j] = IF j = k THEN b ELSE box[n][j]
BY Given DEF SetBox, Boxes

LEMMA BoxFields ==
    ASSUME Base, NEW n \in Names, NEW k \in Kinds
    PROVE  LET on == [box[n][k] EXCEPT !.up = TRUE]  off == [box[n][k] EXCEPT !.up = FALSE] IN
           /\ on.whose = box[n][k].whose /\ on.port = box[n][k].port
           /\ off.whose = box[n][k].whose /\ off.port = box[n][k].port /\ off.up = FALSE
           /\ box[n][k] = Gone => off = Gone
<1> DEFINE b == box[n][k]
<1>0. b \in Box
  BY Given DEF Boxes, BoxOf
<1> HIDE DEF b
<1>1. [b EXCEPT !.up = TRUE].whose = b.whose /\ [b EXCEPT !.up = TRUE].port = b.port
  BY <1>0 DEF Box
<1>2. [b EXCEPT !.up = FALSE].whose = b.whose /\ [b EXCEPT !.up = FALSE].port = b.port
      /\ [b EXCEPT !.up = FALSE].up = FALSE
  BY <1>0 DEF Box
<1>3. b.up = FALSE => [b EXCEPT !.up = FALSE] = b
  BY <1>0 DEF Box
<1>4. Gone.up = FALSE
  BY DEF Gone
<1>5. b = Gone => [b EXCEPT !.up = FALSE] = Gone
  BY <1>3, <1>4
<1>6. QED
  BY <1>1, <1>2, <1>5 DEF b

LEMMA DownKeeps ==
    ASSUME Base, NEW n \in Names, NEW k, Down(n, k)
    PROVE  BoxesKept(n) /\ \A j \in Kinds : /\ j # k => box'[n][j] = box[n][j]
                                            /\ box[n][j] = Gone => box'[n][j] = Gone
<1>1. \A j \in Kinds : box'[n][j] = IF j = k THEN [box[n][k] EXCEPT !.up = FALSE] ELSE box[n][j]
  BY SetBoxIs DEF Down
<1> DEFINE off == [box[n][k] EXCEPT !.up = FALSE]
<1>2. k \in Kinds => /\ off.whose = box[n][k].whose /\ off.port = box[n][k].port
                     /\ box[n][k] = Gone => off = Gone
  BY BoxFields
<1>0. \A j \in Kinds : box'[n][j] = IF j = k THEN off ELSE box[n][j]
  BY <1>1
<1> HIDE DEF off
<1>3. ASSUME NEW j \in Kinds
      PROVE  /\ j # k => box'[n][j] = box[n][j]
             /\ box[n][j] = Gone => box'[n][j] = Gone
             /\ box'[n][j].whose = box[n][j].whose /\ box'[n][j].port = box[n][j].port
  <2>1. CASE j = k
    BY <1>0, <1>2, <2>1
  <2>2. CASE j # k
    BY <1>0, <2>2
  <2>3. QED
    BY <2>1, <2>2
<1>4. QED
  BY <1>3 DEF BoxesKept

LEMMA StartedKeeps ==
    ASSUME Base, NEW n \in Names, NEW k \in Kinds, CanStart(n, k), Started(n, k)
    PROVE  BoxesKept(n) /\ DataKept(n)
<1>1. \A j \in Kinds : box'[n][j] = IF j = k THEN [box[n][k] EXCEPT !.up = TRUE] ELSE box[n][j]
  BY SetBoxIs DEF Started
<1>2. box[n][k] # Gone
  BY DEF CanStart
<1> DEFINE on == [box[n][k] EXCEPT !.up = TRUE]
<1>0. on.whose = box[n][k].whose /\ on.port = box[n][k].port
  BY BoxFields
<1>5. \A j \in Kinds : box'[n][j] = IF j = k THEN on ELSE box[n][j]
  BY <1>1
<1> HIDE DEF on
<1>3. BoxesKept(n)
  BY <1>0, <1>2, <1>5 DEF BoxesKept
<1>4. DataKept(n)
  BY DEF Started, DataKept
<1>6. QED
  BY <1>3, <1>4

\* A creation that fails: a database stays as it is, a service clears up, a branch goes.
LEMMA CleanFails ==
    ASSUME Base, SoundInv, NEW o \in Slots, NEW n \in Names, op[o].name = n, Clean(n),
           n \notin spoiled', Fails(o),
           \/ op[o].kind = "create" /\ op[o].at \notin Planned
           \/ op[o].kind \in Copiers /\ op[o].at \in Rowed,
           project'[n] = project[n], BoxesKept(n), DataKept(n)
    PROVE  Clean(n)'
<1> DEFINE c == op[o]
<1>0. Ops /\ Rows /\ c \in Op
  BY Given
<1>1. op[o].kind \in Copiers => op[o].at # "clone"
  BY DEF Rowed, Copiers
<1>2. /\ o \in Busy(n) /\ Bystands(c) /\ project[n] # None
      /\ c.kind \notin Removers /\ c.kind # "idle" /\ c.project = project[n]
      /\ \A s \in Busy(n) : op[s].kind \notin Removers
  <2>1. c.kind # "wake"
    BY DEF Copiers
  <2>2. QED
    BY <1>1, <2>1, ItsOwn
<1>3. PICK r \in Of(n) : /\ r.id = c.id /\ r.kind = c.res /\ \A q \in rows : q.id = c.id => q = r
                         /\ c.kind \in Copiers => r.kind = "db"
  BY ItsRow
<1>4. rows' = Mark({c.id}, "failed")
  BY DEF Fails
<1>5. /\ RowsKept(n)
      /\ \A q \in Of(n)' : \E u \in Of(n) :
            Twin(q, u) /\ (q = u \/ (u.id = c.id /\ q.state = "failed"))
  BY <1>4, MarkKeepsRows
<1>6. \A q \in Of(n)' : q.state \in InUse => \E u \in Of(n) : Twin(q, u) /\ u.state \in InUse
  BY <1>5 DEF InUse
<1>7. \A q \in Of(n)' : q.id = c.id => q.state = "failed"
  <2>1. ASSUME NEW q \in Of(n)', q.id = c.id PROVE q.state = "failed"
    <3>1. q \in rows'
      BY DEF Of
    <3>2. PICK u \in rows : q = IF u.id = c.id THEN [u EXCEPT !.state = "failed"] ELSE u
      BY <1>4, <3>1 DEF Mark
    <3>3. u.id = c.id => [u EXCEPT !.state = "failed"].state = "failed"
      BY <1>0 DEF Rows, RowOf, Row
    <3>4. u.id = c.id
      BY <2>1, <3>2
    <3>5. QED
      BY <3>2, <3>3, <3>4
  <2>2. QED
    BY <2>1
<1>8. PICK q \in Of(n)' : Twin(q, r)
  BY <1>5 DEF RowsKept
<1>9. q.id = c.id /\ q.kind = c.res /\ q.state = "failed"
  BY <1>3, <1>7, <1>8 DEF Twin
<1>10. CASE op' = [op EXCEPT ![o] = Idle]
  <2>1. op'[o] = Idle /\ \A s \in Slots \ {o} : op'[s] = op[s]
    BY <1>0, <1>10 DEF Ops
  <2>2. QED
    BY <1>2, <1>5, <1>6, <2>1, GoesSteadily
<1>11. ASSUME NEW k \in {"undo", "discard"}, Busy(n) = {o},
              op' = [op EXCEPT ![o] = [c EXCEPT !.kind = k, !.at = "remove"]],
              k = "discard" => c.kind = "branch"
       PROVE  Clean(n)'
  <2> DEFINE d == op'[o]
  <2>1. \A s \in Slots \ {o} : op'[s] = op[s]
    BY <1>0, <1>11 DEF Ops
  <2>2. /\ d.kind = k /\ d.at = "remove" /\ d.name = n /\ d.id = c.id /\ d.res = c.res
        /\ d.project = c.project
    BY <1>0, <1>11 DEF Ops, Op
  <2>3. Bystands(c)'
    <3>1. HasProject(c)'
      BY <1>2, <2>2 DEF HasProject
    <3>2. KeepsRow(c)' /\ HasBooted(c)' /\ Copies(c)' /\ Ejects(c)'
      BY <2>2 DEF KeepsRow, HasBooted, Copies, Ejects, Holds, Copiers
    <3>3. QED
      BY <3>1, <3>2 DEF Bystands
  <2>4. Withdraws(c)'
    <3>1. Undoes(c)'
      BY <1>9, <2>2 DEF Undoes, HasRow
    <3>2. Discards(c)'
      <4>1. ASSUME k = "discard", NEW u \in Of(n)' PROVE u.kind = "db" /\ u.state = "failed"
        <5>1. PICK v \in Of(n) : Twin(u, v)
          BY <1>5 DEF RowsKept
        <5>2. c.kind \in Copiers /\ Holds(c)
          BY <1>11, <4>1 DEF Holds, Copiers
        <5>3. v.id = c.id
          BY <1>2, <5>2 DEF Bystands, Copies
        <5>4. v = r
          BY <1>3, <5>3 DEF Of
        <5>5. QED
          BY <1>3, <1>7, <5>1, <5>2, <5>3, <5>4 DEF Twin
      <4>2. QED
        BY <2>2, <4>1 DEF Discards
    <3>3. Removes(c)' /\ Clears(c)'
      BY <2>2 DEF Removes, Clears, Takers, Clearers
    <3>4. QED
      BY <3>1, <3>2, <3>3 DEF Withdraws
  <2>5. Relies(c)'
    BY <2>3, <2>4 DEF Relies
  <2> HIDE DEF c
  <2>6. Relies(op[o])'
    BY <2>5 DEF c
  <2>7. QED
    BY <1>2, <1>5, <1>6, <1>11, <2>1, <2>2, <2>6, GoesSteadily DEF c
<1>12. QED
  <2>1. \/ op' = [op EXCEPT ![o] = Idle]
        \/ /\ op' = [op EXCEPT ![o] = [c EXCEPT !.kind = "undo", !.at = "remove"]]
           /\ Spoil(n, Busy(n) # {o})
        \/ /\ op' = [op EXCEPT ![o] = [c EXCEPT !.kind = "discard", !.at = "remove"]]
           /\ Spoil(n, Busy(n) # {o}) /\ c.kind = "branch"
    BY DEF Fails
  <2>2. Spoil(n, Busy(n) # {o}) => Busy(n) = {o}
    BY DEF Spoil
  <2>3. QED
    BY <1>10, <1>11, <2>1, <2>2

LEMMA CleanBuild ==
    ASSUME Base, SoundInv, NEW o \in Slots, NEW n \in Names, op[o].name = n, Clean(n),
           n \notin spoiled', Build(o)
    PROVE  Clean(n)'
<1>0. op[o].kind = "create" /\ op[o].at = "build" /\ UNCHANGED <<rows, project, box, data>>
  BY DEF Build, Has, store
<1>1. /\ Bystands(op[o]) /\ project[n] # None /\ op[o].kind \notin Removers
  BY <1>0, ItsOwn
<1>2. /\ RowsKept(n) /\ BoxesKept(n) /\ DataKept(n) /\ project'[n] = project[n]
      /\ \A r \in Of(n)' : r \in Of(n) /\ Twin(r, r)
  BY <1>0, SameRowsKept, SameBoxesKept DEF DataKept
<1>3. CASE Done(o)
  <2>1. op'[o] = Idle /\ \A s \in Slots \ {o} : op'[s] = op[s]
    BY <1>3, Given DEF Done, Ops
  <2>2. QED
    BY <1>1, <1>2, <2>1, GoesSteadily
<1>4. CASE Go(o, "probe")
  <2>1. /\ \A s \in Slots \ {o} : op'[s] = op[s]
        /\ op'[o].name = n /\ op'[o].kind = op[o].kind
        /\ Holds(op'[o]) => Holds(op[o])
        /\ Relies(op[o])'
    BY <1>0, <1>1, <1>2, <1>4, GoRelies DEF Ats, Planned, Copiers
  <2>2. QED
    BY <1>1, <1>2, <2>1, GoesSteadily
<1>5. QED
  BY <1>3, <1>4 DEF Build

LEMMA CleanNetwork ==
    ASSUME Base, SoundInv, NEW o \in Slots, NEW n \in Names, op[o].name = n, Clean(n),
           n \notin spoiled', Network(o)
    PROVE  Clean(n)'
<1>0. /\ op[o].kind \in {"create", "branch", "restore"} /\ op[o].at = "network"
      /\ UNCHANGED <<project, box, data>>
  BY DEF Network, Has
<1>1. /\ Bystands(op[o]) /\ project[n] # None /\ op[o].kind \notin Removers
  BY <1>0, ItsOwn DEF Copiers
<1>2. BoxesKept(n) /\ DataKept(n) /\ project'[n] = project[n]
  BY <1>0, SameBoxesKept DEF DataKept
<1>3. CASE Fails(o)
  BY <1>0, <1>2, <1>3, CleanFails DEF Planned, Copiers, Rowed
<1>4. CASE Go(o, "container") /\ UNCHANGED rows
  <2>0. RowsKept(n) /\ \A r \in Of(n)' : r \in Of(n) /\ Twin(r, r)
    BY <1>4, SameRowsKept
  <2>1. /\ \A s \in Slots \ {o} : op'[s] = op[s]
        /\ op'[o].name = n /\ op'[o].kind = op[o].kind
        /\ Holds(op'[o]) => Holds(op[o])
        /\ Relies(op[o])'
    BY <1>0, <1>1, <1>2, <1>4, <2>0, GoRelies DEF Ats, Planned, Copiers, Rowed
  <2>2. QED
    BY <1>1, <1>2, <2>0, <2>1, GoesSteadily
<1>5. QED
  BY <1>3, <1>4 DEF Network

\* A container that is there already can only be the row's.
LEMMA CleanContainer ==
    ASSUME Base, SoundInv, NEW o \in Slots, NEW n \in Names, op[o].name = n, Clean(n),
           n \notin spoiled', Container(o)
    PROVE  Clean(n)'
<1> DEFINE c == op[o]
           k == op[o].res
           b == IF box[n][k] # Gone THEN box[n][k]
                ELSE [whose |-> c.id, port |-> c.port, up |-> FALSE]
<1>0. /\ c.kind \in {"create", "branch", "restore"} /\ c.at = "container"
      /\ UNCHANGED <<project, data>>
  BY DEF Container, Has
<1>1. /\ Bystands(c) /\ project[n] # None /\ c.kind \notin Removers /\ project'[n] = project[n]
      /\ DataKept(n) /\ \A s \in Busy(n) : op[s].kind \notin Removers
  BY <1>0, ItsOwn DEF Copiers, DataKept
<1>2. PICK r \in Of(n) : /\ r.id = c.id /\ r.kind = k /\ r.port = c.port
                         /\ \A q \in rows : q.id = c.id => q = r
                         /\ c.kind \in Copiers => r.seed = Copied /\ data[n] = Copied
  BY <1>0, ItsRow DEF Planned, Copiers, Rowed
<1>3. r.name = n /\ k \in Kinds /\ r.id # None
  BY <1>2, RowFacts
<1>4. CASE Fails(o) /\ UNCHANGED box
  BY <1>0, <1>1, <1>4, CleanFails, SameBoxesKept DEF Planned, Copiers, Rowed
<1>5. CASE SetBox(n, k, b)
  <2>1. \A j \in Kinds : box'[n][j] = IF j = k THEN b ELSE box[n][j]
    BY <1>5, SetBoxIs
  <2>2. b.whose = c.id /\ b.port = c.port
    <3>1. CASE box[n][k] # Gone
      BY <1>1, <1>2, <3>1, BoxIsOf
    <3>2. CASE box[n][k] = Gone
      BY <3>2
    <3>3. QED
      BY <3>1, <3>2
  <2>3. box[n][k] # Gone => b = box[n][k]
    OBVIOUS
  <2> HIDE DEF b
  <2>4. BoxesKept(n)
    BY <1>2, <2>1, <2>2, <2>3 DEF BoxesKept
  <2>5. CASE c.kind = "create" /\ Go(o, "start") /\ UNCHANGED rows
    <3>0. RowsKept(n) /\ \A q \in Of(n)' : q \in Of(n) /\ Twin(q, q)
      BY <2>5, SameRowsKept
    <3>1. /\ \A s \in Slots \ {o} : op'[s] = op[s]
          /\ op'[o].name = n /\ op'[o].kind = op[o].kind
          /\ Holds(op'[o]) => Holds(op[o])
          /\ Relies(op[o])'
      BY <1>0, <1>1, <2>4, <2>5, <3>0, GoRelies DEF Ats, Planned, Copiers, Rowed
    <3>2. QED
      BY <1>1, <2>4, <3>0, <3>1, GoesSteadily
  <2>6. CASE c.kind # "create" /\ Done(o) /\ rows' = Mark({c.id}, "sleeping")
    <3>1. /\ RowsKept(n)
          /\ \A q \in Of(n)' : \E u \in Of(n) :
                Twin(q, u) /\ (q = u \/ (u.id = c.id /\ q.state = "sleeping"))
      BY <2>6, MarkKeepsRows
    <3>2. op'[o] = Idle /\ \A s \in Slots \ {o} : op'[s] = op[s]
      BY <2>6, Given DEF Done, Ops
    <3>3. ASSUME NEW q, Twin(q, r) PROVE Right(q)'
      <4>1. box'[n][k].whose = c.id /\ box'[n][k].port = c.port /\ data'[n] = Copied /\ r.seed = Copied
        BY <1>0, <1>2, <1>3, <2>1, <2>2, <2>6 DEF Copiers
      <4>2. QED
        BY <1>2, <1>3, <3>3, <4>1 DEF Right, Twin
    <3>4. \A q \in Of(n)' : q.state \in InUse =>
             Right(q)' \/ \E u \in Of(n) : Twin(q, u) /\ u.state \in InUse
      <4>1. ASSUME NEW q \in Of(n)', q.state \in InUse
            PROVE  Right(q)' \/ \E u \in Of(n) : Twin(q, u) /\ u.state \in InUse
        <5>1. PICK u \in Of(n) : Twin(q, u) /\ (q = u \/ (u.id = c.id /\ q.state = "sleeping"))
          BY <3>1
        <5>2. u.id = c.id => u = r
          BY <1>2 DEF Of
        <5>3. QED
          BY <3>3, <4>1, <5>1, <5>2
      <4>2. QED
        BY <4>1
    <3>5. QED
      BY <1>1, <2>4, <3>1, <3>2, <3>4, GoesSteadily
  <2>7. QED
    BY <1>4, <2>5, <2>6 DEF Container
<1>6. QED
  BY <1>4, <1>5 DEF Container

LEMMA CleanStarts ==
    ASSUME Base, SoundInv, NEW o \in Slots, NEW n \in Names, op[o].name = n, Clean(n),
           n \notin spoiled', Starts(o)
    PROVE  Clean(n)'
<1>0. op[o].kind = "create" /\ op[o].at = "start" /\ UNCHANGED project
  BY DEF Starts, Has
<1>1. /\ Bystands(op[o]) /\ project[n] # None /\ op[o].kind \notin Removers /\ project'[n] = project[n]
  BY <1>0, ItsOwn
<1>2. op[o].res \in Kinds
  <2>1. PICK r \in Of(n) : r.kind = op[o].res
    BY <1>0, ItsRow DEF Planned
  <2>2. QED
    BY <2>1, RowFacts
<1>3. CASE Fails(o) /\ UNCHANGED <<box, data>>
  BY <1>0, <1>1, <1>3, CleanFails, SameBoxesKept DEF Planned, DataKept
<1>4. CASE CanStart(n, op[o].res) /\ Started(n, op[o].res) /\ Go(o, "ready") /\ UNCHANGED rows
  <2>0. /\ RowsKept(n) /\ \A q \in Of(n)' : q \in Of(n) /\ Twin(q, q)
        /\ BoxesKept(n) /\ DataKept(n)
    BY <1>2, <1>4, SameRowsKept, StartedKeeps
  <2>1. /\ \A s \in Slots \ {o} : op'[s] = op[s]
        /\ op'[o].name = n /\ op'[o].kind = op[o].kind
        /\ Holds(op'[o]) => Holds(op[o])
        /\ Relies(op[o])'
    BY <1>0, <1>1, <1>4, <2>0, GoRelies DEF Ats, Planned, Copiers, Rowed
  <2>2. QED
    BY <1>1, <2>0, <2>1, GoesSteadily
<1>5. QED
  BY <1>3, <1>4 DEF Starts

\* What answers on the row's port, with the row's password, is the row's.
LEMMA CleanReady ==
    ASSUME Base, SoundInv, NEW o \in Slots, NEW n \in Names, op[o].name = n, Clean(n),
           n \notin spoiled', Ready(o)
    PROVE  Clean(n)'
<1>0. op[o].kind = "create" /\ op[o].at = "ready" /\ UNCHANGED <<project, box, data>>
  BY DEF Ready, Has, world
<1>1. /\ Bystands(op[o]) /\ project[n] # None /\ op[o].kind \notin Removers /\ project'[n] = project[n]
      /\ BoxesKept(n) /\ DataKept(n) /\ \A s \in Busy(n) : op[s].kind \notin Removers
  BY <1>0, ItsOwn, SameBoxesKept DEF DataKept
<1>2. CASE Fails(o)
  BY <1>0, <1>1, <1>2, CleanFails DEF Planned
<1>3. CASE (\A r \in {r \in rows : r.id = op[o].id} : Answers(r)) /\ Go(o, "stop") /\ UNCHANGED rows
  <2>0. RowsKept(n) /\ \A q \in Of(n)' : q \in Of(n) /\ Twin(q, q)
    BY <1>3, SameRowsKept
  <2>1. ASSUME NEW r \in Of(n)', r.id = op[o].id PROVE Right(r)'
    <3>1. r \in Of(n) /\ Answers(r)
      BY <1>3, <2>0, <2>1 DEF Of
    <3>2. Right(r)
      BY <1>1, <3>1, AnswersIsRight
    <3>3. QED
      BY <1>1, <2>0, <3>1, <3>2, RightKept
  <2>2. /\ \A s \in Slots \ {o} : op'[s] = op[s]
        /\ op'[o].name = n /\ op'[o].kind = op[o].kind
        /\ Holds(op'[o]) => Holds(op[o])
        /\ Relies(op[o])'
    BY <1>0, <1>1, <1>3, <2>0, <2>1, GoRelies DEF Ats, Planned, Copiers, Rowed
  <2>3. QED
    BY <1>1, <2>0, <2>2, GoesSteadily
<1>4. QED
  BY <1>2, <1>3 DEF Ready

LEMMA CleanRests ==
    ASSUME Base, SoundInv, NEW o \in Slots, NEW n \in Names, op[o].name = n, Clean(n),
           n \notin spoiled', Rests(o)
    PROVE  Clean(n)'
<1>0. op[o].kind = "create" /\ op[o].at = "stop" /\ UNCHANGED <<project, data>>
  BY DEF Rests, Has
<1>1. /\ Bystands(op[o]) /\ project[n] # None /\ op[o].kind \notin Removers /\ project'[n] = project[n]
      /\ DataKept(n) /\ \A s \in Busy(n) : op[s].kind \notin Removers
  BY <1>0, ItsOwn DEF DataKept
<1>2. CASE Fails(o) /\ UNCHANGED box
  BY <1>0, <1>1, <1>2, CleanFails, SameBoxesKept DEF Planned
<1>3. CASE Down(n, op[o].res) /\ rows' = Mark({op[o].id}, "sleeping") /\ Done(o)
  <2>1. /\ RowsKept(n)
        /\ \A q \in Of(n)' : \E u \in Of(n) :
              Twin(q, u) /\ (q = u \/ (u.id = op[o].id /\ q.state = "sleeping"))
    BY <1>3, MarkKeepsRows
  <2>2. op'[o] = Idle /\ \A s \in Slots \ {o} : op'[s] = op[s]
    BY <1>3, Given DEF Done, Ops
  <2>3. BoxesKept(n)
    BY <1>3, DownKeeps
  <2>4. \A u \in Of(n) : u.id = op[o].id => Right(u)
    BY <1>0, <1>1 DEF Bystands, HasBooted
  <2>5. ASSUME NEW q \in Of(n)', q.state \in InUse
        PROVE  Right(q)' \/ \E u \in Of(n) : Twin(q, u) /\ u.state \in InUse
    <3>1. PICK u \in Of(n) : Twin(q, u) /\ (q = u \/ (u.id = op[o].id /\ q.state = "sleeping"))
      BY <2>1
    <3>2. CASE u.id = op[o].id
      BY <1>1, <2>3, <2>4, <3>1, <3>2, RightKept
    <3>3. CASE q = u
      BY <2>5, <3>1, <3>3
    <3>4. QED
      BY <3>1, <3>2, <3>3
  <2>6. QED
    BY <1>1, <2>1, <2>2, <2>3, <2>5, GoesSteadily
<1>4. QED
  BY <1>2, <1>3 DEF Rests

-----------------------------------------------------------------------------
(* Wakes and ejections.                                                    *)

LEMMA CleanWakeMakes ==
    ASSUME Base, SoundInv, NEW o \in Slots, NEW n \in Names, op[o].name = n, Clean(n), WakeMakes(o)
    PROVE  Clean(n)'
<1> DEFINE c == op[o]
           b == [whose |-> c.id, port |-> c.port, up |-> FALSE]
<1>0. /\ c.kind = "wake" /\ UNCHANGED <<rows, project, data, op>> /\ c.res = "web"
      /\ SetBox(n, "web", b) /\ box[n]["web"] = Gone
  BY DEF WakeMakes, Has, store
<1>1. /\ Bystands(c) /\ project[n] # None /\ project'[n] = project[n]
      /\ DataKept(n) /\ \A s \in Busy(n) : op[s].kind \notin Removers
  BY <1>0, ItsOwn DEF DataKept
<1>2. PICK r \in Of(n) : r.id = c.id /\ r.kind = "web" /\ r.port = c.port
  BY <1>0, ItsRow
<1>3. \A j \in Kinds : box'[n][j] = IF j = "web" THEN b ELSE box[n][j]
  BY <1>0, SetBoxIs
<1>4. b.whose = c.id /\ b.port = c.port
  OBVIOUS
<1> HIDE DEF b
<1>5. BoxesKept(n)
  BY <1>0, <1>2, <1>3, <1>4 DEF BoxesKept
<1>6. RowsKept(n) /\ \A q \in Of(n)' : q \in Of(n) /\ Twin(q, q)
  BY <1>0, SameRowsKept
<1>7. Company(n)' /\ \A s \in Busy(n)' : s \in Busy(n) /\ Alike(op'[s], op[s])
  BY <1>0, AlikeItself DEF Clean, Company, Busy, Holds
<1>8. QED
  BY <1>1, <1>5, <1>6, <1>7, SteadyStep

LEMMA CleanWakeStarts ==
    ASSUME Base, SoundInv, NEW o \in Slots, NEW n \in Names, op[o].name = n, Clean(n), WakeStarts(o)
    PROVE  Clean(n)'
<1>0. op[o].kind = "wake" /\ op[o].at = "start" /\ UNCHANGED project
  BY DEF WakeStarts, Has
<1>1. /\ Bystands(op[o]) /\ project[n] # None /\ op[o].kind \notin Removers /\ project'[n] = project[n]
  BY <1>0, ItsOwn
<1>2. op[o].res \in Kinds
  <2>1. PICK r \in Of(n) : r.kind = op[o].res
    BY <1>0, ItsRow
  <2>2. QED
    BY <2>1, RowFacts
<1>3. CASE Done(o) /\ rows' = Mark({op[o].id}, "failed") /\ UNCHANGED <<box, data>>
  <2>1. /\ RowsKept(n)
        /\ \A q \in Of(n)' : \E u \in Of(n) :
              Twin(q, u) /\ (q = u \/ (u.id \in {op[o].id} /\ q.state = "failed"))
    BY <1>3, MarkKeepsRows
  <2>2. op'[o] = Idle /\ \A s \in Slots \ {o} : op'[s] = op[s]
    BY <1>3, Given DEF Done, Ops
  <2>3. BoxesKept(n) /\ DataKept(n)
    BY <1>3, SameBoxesKept DEF DataKept
  <2>4. \A q \in Of(n)' : q.state \in InUse => \E u \in Of(n) : Twin(q, u) /\ u.state \in InUse
    BY <2>1 DEF InUse
  <2>5. QED
    BY <1>1, <2>1, <2>2, <2>3, <2>4, GoesSteadily
<1>4. CASE CanStart(n, op[o].res) /\ Started(n, op[o].res) /\ Go(o, "ready") /\ UNCHANGED rows
  <2>0. /\ RowsKept(n) /\ \A q \in Of(n)' : q \in Of(n) /\ Twin(q, q)
        /\ BoxesKept(n) /\ DataKept(n)
    BY <1>2, <1>4, SameRowsKept, StartedKeeps
  <2>1. /\ \A s \in Slots \ {o} : op'[s] = op[s]
        /\ op'[o].name = n /\ op'[o].kind = op[o].kind
        /\ Holds(op'[o]) => Holds(op[o])
        /\ Relies(op[o])'
    BY <1>0, <1>1, <1>4, <2>0, GoRelies DEF Ats, Planned, Copiers, Rowed
  <2>2. QED
    BY <1>1, <2>0, <2>1, GoesSteadily
<1>5. QED
  BY <1>3, <1>4 DEF WakeStarts

LEMMA CleanWakeEnds ==
    ASSUME Base, SoundInv, NEW o \in Slots, NEW n \in Names, op[o].name = n, Clean(n), WakeEnds(o)
    PROVE  Clean(n)'
<1>0. op[o].kind = "wake" /\ op[o].at = "ready" /\ UNCHANGED <<project, data>> /\ Done(o)
  BY DEF WakeEnds, Has
<1>1. /\ Bystands(op[o]) /\ project[n] # None /\ op[o].kind \notin Removers /\ project'[n] = project[n]
      /\ DataKept(n) /\ \A s \in Busy(n) : op[s].kind \notin Removers
  BY <1>0, ItsOwn DEF DataKept
<1>2. op'[o] = Idle /\ \A s \in Slots \ {o} : op'[s] = op[s]
  BY <1>0, Given DEF Done, Ops
<1>3. CASE Down(n, op[o].res) /\ rows' = Mark({op[o].id}, "failed")
  <2>1. /\ RowsKept(n)
        /\ \A q \in Of(n)' : \E u \in Of(n) :
              Twin(q, u) /\ (q = u \/ (u.id \in {op[o].id} /\ q.state = "failed"))
    BY <1>3, MarkKeepsRows
  <2>2. BoxesKept(n)
    BY <1>3, DownKeeps
  <2>3. \A q \in Of(n)' : q.state \in InUse => \E u \in Of(n) : Twin(q, u) /\ u.state \in InUse
    BY <2>1 DEF InUse
  <2>4. QED
    BY <1>1, <1>2, <2>1, <2>2, <2>3, GoesSteadily
<1>4. CASE /\ \A r \in {r \in rows : r.id = op[o].id} : Answers(r)
           /\ rows' = Mark({op[o].id}, "running") /\ UNCHANGED box
  <2>1. /\ RowsKept(n)
        /\ \A q \in Of(n)' : \E u \in Of(n) :
              Twin(q, u) /\ (q = u \/ (u.id \in {op[o].id} /\ q.state = "running"))
    BY <1>4, MarkKeepsRows
  <2>2. BoxesKept(n)
    BY <1>4, SameBoxesKept
  <2>3. \A u \in Of(n) : u.id = op[o].id => Right(u)
    <3>1. \A u \in Of(n) : u.id = op[o].id => Answers(u)
      BY <1>4 DEF Of
    <3>2. QED
      BY <1>1, <3>1, AnswersIsRight
  <2>4. ASSUME NEW q \in Of(n)', q.state \in InUse
        PROVE  Right(q)' \/ \E u \in Of(n) : Twin(q, u) /\ u.state \in InUse
    <3>1. PICK u \in Of(n) : Twin(q, u) /\ (q = u \/ (u.id = op[o].id /\ q.state = "running"))
      BY <2>1
    <3>2. CASE u.id = op[o].id
      BY <1>1, <2>2, <2>3, <3>1, <3>2, RightKept
    <3>3. CASE q = u
      BY <2>4, <3>1, <3>3
    <3>4. QED
      BY <3>1, <3>2, <3>3
  <2>5. QED
    BY <1>1, <1>2, <2>1, <2>2, <2>4, GoesSteadily
<1>5. QED
  BY <1>3, <1>4 DEF WakeEnds

\* What an ejection puts to sleep was running when it was listed.
LEMMA CleanEjectStops ==
    ASSUME Base, SoundInv, NEW o \in Slots, NEW n \in Names, op[o].name = n, Clean(n), EjectStops(o)
    PROVE  Clean(n)'
<1> DEFINE T == op[o].todo
           c == Take(op[o], T)
<1>0. op[o].kind = "eject" /\ UNCHANGED <<project, net, dir, data>> /\ Ops /\ Rows /\ made \in Nat
  BY Given DEF EjectStops, Has
<1>1. /\ o \in Busy(n) /\ op[o].kind \notin Removers /\ project'[n] = project[n] /\ DataKept(n)
      /\ dir'[n] = dir[n] /\ data'[n] = data[n] /\ (n \in net' => n \in net)
  BY <1>0 DEF Busy, Removers, DataKept
<1>2. T \in SUBSET ((1..made) \X Kinds) /\ op[o].id \in 0..made /\ op[o].project \in 0..made
  BY OpRange
<1>3. op[o] \in Op
  BY Given
<1>4. /\ c.kind = "eject" /\ c.name = n
      /\ T = {} => c.id = None /\ c.todo = {}
      /\ T # {} => /\ <<c.id, c.res>> \in T /\ c.todo = T \ {<<c.id, c.res>>}
  <2>1. op[o].kind # "idle"
    BY <1>0
  <2>2. op[o].id <= made /\ op[o].project <= made
    BY <1>0, <1>2
  <2> DEFINE d == op[o]
  <2>3. d \in Op /\ d.kind = "eject" /\ d.name = n /\ d.kind # "idle" /\ d.id <= made /\ d.project <= made
    BY <1>0, <1>3, <2>2
  <2> HIDE DEF d, T
  <2>6. made \in Nat /\ T \in SUBSET ((1..made) \X Kinds)
    BY <1>0, <1>2
  <2> DEFINE e == Take(d, T)
  <2>4. /\ OpOf(e, made) /\ e.kind = d.kind /\ e.name = d.name
        /\ T = {} => e.id = None /\ e.todo = {}
        /\ T # {} => <<e.id, e.res>> \in T /\ e.todo = T \ {<<e.id, e.res>>}
    BY <2>3, <2>6, TakeIsOp
  <2>5. QED
    BY <2>3, <2>4 DEF d
<1>5. op' = [op EXCEPT ![o] = IF c.id = None THEN Idle ELSE c]
  BY DEF EjectStops
<1>6. PICK end \in {"sleeping", "failed"} :
         /\ Down(n, op[o].res) \/ UNCHANGED box
         /\ rows' = {IF r.id = op[o].id THEN [r EXCEPT !.state = end]
                     ELSE IF r.id = c.id THEN [r EXCEPT !.state = "stopping"] ELSE r : r \in rows}
  BY DEF EjectStops
<1> HIDE DEF c
<1>7. BoxesKept(n)
  BY <1>6, DownKeeps, SameBoxesKept
<1>8. ASSUME NEW r \in rows
      PROVE  Twin([r EXCEPT !.state = end], r) /\ Twin([r EXCEPT !.state = "stopping"], r) /\ Twin(r, r)
  BY <1>0 DEF Rows, RowOf, Row, Twin
<1>9. ASSUME NEW q \in rows'
      PROVE  \E r \in rows : Twin(q, r) /\ (q = r \/ r.id = op[o].id \/ r.id = c.id)
  BY <1>6, <1>8
<1>10. ASSUME NEW r \in rows PROVE \E q \in rows' : Twin(q, r)
  BY <1>6, <1>8
<1>11. \A q \in Of(n)' : \E r \in Of(n) : Twin(q, r) /\ (q = r \/ r.id = op[o].id \/ r.id = c.id)
  BY <1>9 DEF Of, Twin
<1>12. RowsKept(n)
  BY <1>10, <1>11 DEF RowsKept, Of, Twin
<1>13. ASSUME NEW r \in Of(n), r.id = op[o].id \/ r.id = c.id \/ \E k \in Kinds : <<r.id, k>> \in c.todo
       PROVE  Right(r)
  <2>1. Ejects(op[o])
    BY <1>1 DEF Clean, Relies, Bystands
  <2>2. r.id # None
    BY RowFacts
  <2>3. Listed(op[o], r)
    <3>1. CASE r.id = op[o].id
      BY <3>1 DEF Listed
    <3>2. CASE r.id = c.id
      <4>1. T # {} /\ <<c.id, c.res>> \in T
        BY <1>4, <2>2, <3>2
      <4>2. c.res \in Kinds
        BY <1>2, <4>1
      <4>3. QED
        BY <3>2, <4>1, <4>2 DEF Listed
    <3>3. CASE \E k \in Kinds : <<r.id, k>> \in c.todo
      BY <1>4, <3>3 DEF Listed
    <3>4. QED
      BY <1>13, <3>1, <3>2, <3>3
  <2>4. QED
    BY <1>0, <2>1, <2>3 DEF Ejects, Busy
<1>14. ASSUME NEW q \in Of(n)', q.state \in InUse
       PROVE  Right(q)' \/ \E u \in Of(n) : Twin(q, u) /\ u.state \in InUse
  <2>1. PICK r \in Of(n) : Twin(q, r) /\ (q = r \/ r.id = op[o].id \/ r.id = c.id)
    BY <1>11
  <2>2. CASE q = r
    BY <1>14, <2>1, <2>2
  <2>3. CASE r.id = op[o].id \/ r.id = c.id
    BY <1>1, <1>7, <1>13, <2>1, <2>3, RightKept
  <2>4. QED
    BY <2>1, <2>2, <2>3
<1>15. (op'[o] = Idle \/ op'[o] = c) /\ \A s \in Slots \ {o} : op'[s] = op[s]
  BY <1>0, <1>5 DEF Ops
<1>16. CASE op'[o] = c
  <2>1. Ejects(op[o])'
    <3>1. ASSUME NEW q \in Of(n)', Listed(c, q) PROVE Right(q)'
      <4>1. PICK r \in Of(n) : Twin(q, r)
        BY <1>11
      <4>2. Right(r)
        BY <1>13, <3>1, <4>1 DEF Listed, Twin
      <4>3. QED
        BY <1>1, <1>7, <4>1, <4>2, RightKept
    <3>2. QED
      BY <1>4, <1>16, <3>1 DEF Ejects, Listed
  <2>2. HasProject(op[o])' /\ KeepsRow(op[o])' /\ HasBooted(op[o])' /\ Copies(op[o])'
    BY <1>4, <1>16 DEF HasProject, KeepsRow, HasBooted, Copies, Holds, Clearers, Copiers
  <2>3. Withdraws(op[o])'
    BY <1>4, <1>16 DEF Withdraws, Undoes, Discards, Removes, Clears, Takers, Clearers
  <2>4. Relies(op[o])' /\ op'[o].name = n /\ op'[o].kind = op[o].kind /\ ~Holds(op'[o])
    BY <1>0, <1>4, <1>16, <2>1, <2>2, <2>3 DEF Relies, Bystands, Holds
  <2>5. QED
    BY <1>1, <1>7, <1>12, <1>14, <1>15, <2>4, GoesSteadily
<1>17. CASE op'[o] = Idle
  BY <1>1, <1>7, <1>12, <1>14, <1>15, <1>17, GoesSteadily
<1>18. QED
  BY <1>15, <1>16, <1>17

-----------------------------------------------------------------------------
(* New rows, projects and operations.                                      *)

\* A name that is free gets a project; what is under way there neither has nor makes one.
LEMMA BareStep ==
    ASSUME Base, SoundInv, NEW n \in Names, Clean(n), project[n] = None, project'[n] # None,
           UNCHANGED <<rows, box>>, Company(n)', \A s \in Busy(n) : op[s].kind \notin Removers,
           \A s \in Busy(n)' : (s \in Busy(n) /\ Alike(op'[s], op[s])) \/ Relies(op[s])'
    PROVE  Clean(n)'
<1>1. Of(n) = {} /\ Of(n)' = {}
  BY NoRows DEF Clean, Of
<1>2. \A k \in Kinds : box'[n][k] = Gone
  BY <1>1 DEF Clean, Boxed, LeftOver, Clearers, Removers
<1>3. ASSUME NEW s \in Busy(n)' PROVE Relies(op[s])'
  <2>1. CASE Relies(op[s])'
    BY <2>1
  <2>2. CASE s \in Busy(n) /\ Alike(op'[s], op[s])
    <3> DEFINE c == op[s]
               d == op'[s]
    <3>0. Bystands(c) /\ c.kind \notin Removers /\ c.name = n /\ d.name = n /\ d.kind = c.kind
          /\ (Holds(d) <=> Holds(c))
      BY <2>2 DEF Clean, Relies, Busy, Alike, Holds
    <3>1. ~(c.kind = "create") /\ ~Holds(c)
      BY <3>0 DEF Bystands, HasProject
    <3>2. c.kind # "wake"
      BY <1>1, <3>0 DEF Bystands, KeepsRow
    <3>3. Withdraws(c)'
      BY <3>0 DEF Withdraws, Undoes, Discards, Removes, Clears, Removers, Takers, Clearers
    <3>4. HasProject(c)'
      BY <3>0, <3>1 DEF HasProject, Removers, Clearers
    <3>5. KeepsRow(c)' /\ HasBooted(c)'
      BY <3>0, <3>1, <3>2 DEF KeepsRow, HasBooted
    <3>6. Copies(c)'
      BY <2>2, <3>0, <3>1 DEF Copies, Alike, Bystands
    <3>7. Ejects(c)'
      BY <1>1, <3>0 DEF Ejects
    <3>8. QED
      BY <3>3, <3>4, <3>5, <3>6, <3>7 DEF Relies, Bystands
  <2>3. QED
    BY <1>3, <2>1, <2>2
<1>4. Owned(n)' /\ Usable(n)'
  BY <1>1 DEF Owned, Usable
<1>5. Boxed(n)' /\ Bare(n)'
  BY <1>2 DEF Boxed, Bare
<1>6. QED
  BY <1>3, <1>4, <1>5 DEF Clean

LEMMA CleanNewProject ==
    ASSUME Base, SoundInv, NEW n \in Names, Clean(n), n \notin spoiled', NewProject(n)
    PROVE  Clean(n)'
<1>1. /\ project[n] = None /\ UNCHANGED <<rows, box, op>> /\ Busy(n) = {}
  BY DEF NewProject, Spoil, world
<1>2. project'[n] # None
  <2>1. project' = [project EXCEPT ![n] = made + 1] /\ made \in Nat /\ project \in [Names -> 0..made]
    BY Given DEF NewProject, Count
  <2>2. project'[n] = made + 1
    BY <2>1
  <2>3. QED
    BY <2>1, <2>2
<1>3. Busy(n)' = {}
  BY <1>1 DEF Busy
<1>4. Company(n)'
  BY <1>3 DEF Company
<1>5. QED
  BY <1>1, <1>2, <1>3, <1>4, BareStep

\* The new row is the operation's, and nobody else's yet.
LEMMA CleanInserts ==
    ASSUME Base, SoundInv, NEW o \in Slots, NEW n \in Names, op[o].name = n, Clean(n), Inserts(o)
    PROVE  Clean(n)'
<1> DEFINE c == op[o]
           i == made + 1
           new == [id |-> made + 1, project |-> c.project, name |-> c.name, kind |-> c.res,
                   state |-> "creating", port |-> c.port,
                   seed |-> IF c.kind = "create" THEN made + 1 ELSE Copied]
<1>0. /\ c.kind \in {"create", "branch", "restore"} /\ c.at = "probe"
      /\ UNCHANGED <<project, box, net, data>> /\ made \in Nat /\ Ops /\ c \in Op
  BY Given DEF Inserts, Has
<1>1. /\ o \in Busy(n) /\ Bystands(c) /\ project[n] # None /\ c.kind \notin Removers
      /\ c.project = project[n] /\ project'[n] = project[n]
      /\ BoxesKept(n) /\ DataKept(n) /\ \A s \in Busy(n) : op[s].kind \notin Removers
  BY <1>0, ItsOwn, SameBoxesKept DEF Copiers, DataKept
<1>2. CASE Done(o) /\ UNCHANGED rows
  <2>1. op'[o] = Idle /\ \A s \in Slots \ {o} : op'[s] = op[s]
    BY <1>0, <1>2 DEF Done, Ops
  <2>2. RowsKept(n) /\ \A q \in Of(n)' : q \in Of(n) /\ Twin(q, q)
    BY <1>2, SameRowsKept
  <2>3. QED
    BY <1>1, <2>1, <2>2, GoesSteadily
<1>3. CASE /\ rows' = rows \cup {new}
           /\ op' = [s \in Slots |->
               IF s = o THEN [op[s] EXCEPT !.at = "network", !.id = made + 1]
               ELSE [op[s] EXCEPT !.beside = @ \/ op[s].at \in {"build", "probe"}]]
  <2>1. /\ new.id = i /\ new.project = project[n] /\ new.name = n /\ new.kind = c.res
        /\ new.state = "creating" /\ new.port = c.port
        /\ c.kind # "create" => new.seed = Copied
    BY <1>1
  <2> HIDE DEF new
  <2>2. Of(n)' = Of(n) \cup {new}
    BY <1>3, <2>1 DEF Of
  <2>3. /\ op'[o].id = i /\ op'[o].name = n /\ op'[o].res = c.res /\ op'[o].at = "network"
        /\ op'[o].todo = c.todo /\ op'[o].project = c.project /\ op'[o].kind = c.kind
        /\ op'[o].port = c.port
    BY <1>0, <1>3 DEF Op
  <2>4. ASSUME NEW s \in Slots, s # o PROVE Alike(op'[s], op[s])
    BY <1>3, <2>4, Given DEF Op, Alike
  <2>5. ASSUME NEW s \in Slots PROVE op[s].id # i /\ \A k \in Kinds : <<i, k>> \notin op[s].todo
    <3> DEFINE j == op[s].id
               T == op[s].todo
    <3>1. j \in 0..made /\ T \in SUBSET ((1..made) \X Kinds)
      BY OpRange
    <3> HIDE DEF j, T
    <3>2. QED
      BY <1>0, <3>1 DEF j, T
  <2>6. \A r \in Of(n) : r.id # i
    <3>1. ASSUME NEW r \in Of(n) PROVE r.id # i
      <4>1. r.id \in 1..made
        BY RowFacts
      <4>2. QED
        BY <1>0, <4>1
    <3>2. QED
      BY <3>1
  <2>7. \A r : Right(r)' <=> Right(r)
    BY <1>0 DEF Right
  <2> HIDE DEF i, c
  <2>8. Busy(n)' = Busy(n)
    BY <1>1, <2>3, <2>4 DEF Busy, Alike
  <2>9. Holds(op'[o]) <=> Holds(op[o])
    BY <1>0, <2>3 DEF Holds, c
  <2>10. Company(n)'
    <3>1. \A s \in Busy(n) : op'[s].kind = op[s].kind /\ (Holds(op'[s]) <=> Holds(op[s]))
      BY <2>3, <2>4, <2>9 DEF c, Busy, Alike, Holds
    <3>2. QED
      BY <2>8, <3>1 DEF Clean, Company
  <2>11. ASSUME NEW s \in Busy(n), s # o PROVE Relies(op[s])'
    <3> DEFINE b == op[s]
               d == op'[s]
    <3>0. /\ Alike(d, b) /\ b.name = n /\ d.name = n /\ (Holds(d) <=> Holds(b)) /\ Bystands(b)
          /\ b.kind \notin Removers
      BY <1>1, <2>4, <2>11 DEF Clean, Relies, Alike, Holds, Busy
    <3>1. HasProject(b)'
      BY <1>1, <3>0 DEF Bystands, HasProject, Alike
    <3>2. KeepsRow(b)'
      <4>1. ASSUME NEW q \in Of(n), q.id = b.id /\ q.kind = b.res /\ q.port = b.port
            PROVE  \E r \in Of(n)' : r.id = d.id /\ r.kind = d.res /\ r.port = d.port
        BY <2>2, <3>0, <4>1 DEF Alike
      <4>2. QED
        BY <3>0, <4>1 DEF Bystands, KeepsRow, Alike
    <3>3. HasBooted(b)'
      <4>1. ASSUME d.kind = "create", d.at = "stop", NEW r \in Of(n)', r.id = d.id PROVE Right(r)'
        <5>1. r \in Of(n)
          BY <2>1, <2>2, <2>5, <3>0, <4>1 DEF Alike, Busy
        <5>2. QED
          BY <2>7, <3>0, <4>1, <5>1 DEF Bystands, HasBooted, Alike
      <4>2. QED
        BY <3>0, <4>1 DEF HasBooted
    <3>4. Copies(b)'
      <4>1. ~Holds(b)
        <5>1. CASE op[o].kind = "create"
          BY <1>1, <2>11, <5>1 DEF Clean, Company, Holds, Copiers
        <5>2. CASE op[o].kind # "create"
          <6>1. Holds(op[o])
            BY <1>0, <5>2 DEF Holds, c
          <6>2. QED
            BY <1>1, <2>11, <6>1 DEF Clean, Company
        <5>3. QED
          BY <5>1, <5>2
      <4>2. QED
        BY <3>0, <4>1 DEF Copies, Bystands, Alike
    <3>5. Ejects(b)'
      <4>1. ASSUME d.kind = "eject", NEW r \in Of(n)', Listed(d, r) PROVE Right(r)'
        <5>1. r # new
          BY <2>1, <2>5, <3>0, <4>1 DEF Alike, Listed, Busy
        <5>2. r \in Of(n) /\ Listed(b, r)
          BY <2>2, <3>0, <4>1, <5>1 DEF Alike, Listed
        <5>3. QED
          BY <2>7, <3>0, <4>1, <5>2 DEF Bystands, Ejects, Alike
      <4>2. QED
        BY <3>0, <4>1 DEF Ejects, Listed
    <3>6. Bystands(b)'
      BY <3>1, <3>2, <3>3, <3>4, <3>5 DEF Bystands
    <3>7. d.kind \notin Removers
      BY <3>0 DEF Alike
    <3>8. Withdraws(b)'
      BY <3>7 DEF Withdraws, Undoes, Discards, Removes, Clears, Removers, Takers, Clearers
    <3>9. QED
      BY <3>6, <3>8 DEF Relies
  <2>12. Relies(op[o])'
    <3> DEFINE d == op'[o]
    <3>0. /\ d.id = i /\ d.name = n /\ d.res = c.res /\ d.at = "network" /\ d.project = project'[n]
          /\ d.kind \in {"create", "branch", "restore"} /\ d.kind = c.kind /\ d.port = c.port
          /\ (Holds(d) <=> Holds(c))
      BY <1>0, <1>1, <2>3, <2>9 DEF c
    <3>1. HasProject(op[o])'
      BY <1>1, <3>0 DEF HasProject
    <3>2. KeepsRow(op[o])'
      <4>1. new \in Of(n)' /\ new.id = d.id /\ new.kind = d.res /\ new.port = d.port
        BY <2>1, <2>2, <3>0
      <4>2. QED
        BY <3>0, <4>1 DEF KeepsRow
    <3>3. HasBooted(op[o])' /\ Ejects(op[o])'
      BY <3>0 DEF HasBooted, Ejects
    <3>4. Copies(op[o])'
      <4>1. d.kind \in Copiers => d.res = "db"
        BY <1>1, <3>0 DEF Bystands, Copies
      <4>2. ASSUME Holds(d) PROVE (\A r \in Of(n)' : r = new) /\ c.kind # "create" /\ data'[n] = Copied
        <5>1. Holds(c) /\ c.at = "probe" /\ c.name = n /\ c.kind # "create"
          BY <1>0, <3>0, <4>2 DEF c, Holds
        <5>2. Of(n) = {} /\ data[n] = Copied
          BY <1>1, <5>1 DEF Bystands, Copies, Rowed
        <5>3. QED
          BY <1>0, <2>2, <5>1, <5>2
      <4>3. QED
        BY <2>1, <3>0, <4>1, <4>2 DEF Copies, Rowed, Holds
    <3>5. Bystands(op[o])'
      BY <3>1, <3>2, <3>3, <3>4 DEF Bystands
    <3>6. Withdraws(op[o])'
      BY <3>0 DEF Withdraws, Undoes, Discards, Removes, Clears, Takers, Clearers
    <3>7. QED
      BY <3>5, <3>6 DEF Relies
  <2>13. Owned(n)'
    BY <1>1, <2>1, <2>2 DEF Clean, Owned
  <2>14. Boxed(n)'
    <3>1. ~LeftOver(n)
      BY <1>1 DEF LeftOver, Clearers, Removers
    <3>2. QED
      BY <1>0, <2>2, <3>1 DEF Clean, Boxed
  <2>15. Usable(n)'
    <3>1. ASSUME NEW r \in Of(n)', r.state \in {"sleeping", "running", "stopping"} PROVE Right(r)'
      <4>1. r \in Of(n)
        BY <2>1, <2>2, <3>1
      <4>2. QED
        BY <2>7, <3>1, <4>1 DEF Clean, Usable
    <3>2. QED
      BY <3>1 DEF Usable
  <2>16. Bare(n)'
    BY <1>1 DEF Bare
  <2>17. QED
    BY <2>8, <2>10, <2>11, <2>12, <2>13, <2>14, <2>15, <2>16 DEF Clean
<1>4. QED
  BY <1>2, <1>3 DEF Inserts

\* A copy that has been made: what there is under its name is the copy's alone.
LEMMA CleanCloned ==
    ASSUME Base, SoundInv, NEW o \in Slots, NEW n \in Names, op[o].name = n, Clean(n),
           n \notin spoiled', Cloned(o)
    PROVE  Clean(n)'
<1> DEFINE c == op[o]
<1>0. /\ c.kind \in {"branch", "restore"} /\ c.at = "clone" /\ UNCHANGED <<rows, box, net>>
      /\ Ops /\ c \in Op /\ made \in Nat /\ project \in [Names -> 0..made]
      /\ data \in [Names -> (0..made) \cup {Copied}]
  BY Given DEF Cloned, Has, Disk, Count
<1>1. /\ o \in Busy(n) /\ Bystands(c) /\ c.kind \notin Removers /\ c.res = "db"
      /\ \A s \in Busy(n) : op[s].kind \notin Removers
  <2>1. o \in Busy(n) /\ c.kind \notin Removers
    BY <1>0 DEF Busy, Removers
  <2>2. Bystands(c)
    BY <2>1 DEF Clean, Relies
  <2>3. c.res = "db"
    BY <1>0, <2>2 DEF Bystands, Copies, Copiers
  <2>4. QED
    BY <2>1, <2>2, <2>3, NoRemoverBeside DEF Clean
<1>2. RowsKept(n) /\ BoxesKept(n) /\ \A q \in Of(n)' : q \in Of(n) /\ Twin(q, q)
  BY <1>0, SameRowsKept, SameBoxesKept
<1>3. c.kind = "branch" => /\ Of(n) = {} /\ Of(n)' = {} /\ project[n] # None /\ c.project = project[n]
                           /\ Holds(c)
  <2>1. c.kind = "branch" => Holds(c) /\ c.name = n
    BY DEF Holds
  <2>2. c.kind = "branch" => Of(n) = {} /\ project[n] # None /\ c.project = project[n]
    BY <1>0, <1>1, <2>1 DEF Bystands, Copies, HasProject, Rowed
  <2>3. QED
    BY <1>2, <2>1, <2>2
<1>4. ASSUME NEW p, op' = [op EXCEPT ![o].at = "probe", ![o].project = p, ![o].port = Least(Free)]
      PROVE  /\ \A s \in Slots \ {o} : op'[s] = op[s]
             /\ op'[o].project = p /\ op'[o].name = n /\ op'[o].at = "probe"
             /\ op'[o].kind = c.kind /\ op'[o].id = c.id /\ op'[o].res = "db" /\ op'[o].todo = c.todo
  BY <1>0, <1>1, <1>4 DEF Ops, Op
<1>5. ASSUME NEW p, op'[o].project = p, p # None, op'[o].name = n, op'[o].at = "probe",
             op'[o].kind = c.kind, op'[o].res = "db",
             project'[n] = p, data'[n] = Copied, Of(n)' = {}
      PROVE  Relies(op[o])'
  <2> DEFINE d == op'[o]
  <2>1. HasProject(c)'
    BY <1>0, <1>5 DEF HasProject
  <2>2. KeepsRow(c)' /\ HasBooted(c)' /\ Ejects(c)'
    BY <1>0, <1>5 DEF KeepsRow, HasBooted, Ejects, Rowed
  <2>3. Copies(c)'
    BY <1>5 DEF Copies
  <2>4. Withdraws(c)'
    BY <1>0, <1>5 DEF Withdraws, Undoes, Discards, Removes, Clears, Takers, Clearers
  <2>5. QED
    BY <2>1, <2>2, <2>3, <2>4 DEF Relies, Bystands
<1>6. ASSUME c.kind = "branch",
             op' = [op EXCEPT ![o].at = "probe", ![o].project = c.project, ![o].port = Least(Free)],
             data' = [data EXCEPT ![n] = Copied], UNCHANGED project
      PROVE  Clean(n)'
  <2>1. data'[n] = Copied
    BY <1>0, <1>6
  <2>2. /\ \A s \in Slots \ {o} : op'[s] = op[s]
        /\ op'[o].project = c.project /\ op'[o].name = n /\ op'[o].at = "probe"
        /\ op'[o].kind = c.kind /\ op'[o].res = "db"
    BY <1>4, <1>6
  <2>3. Relies(op[o])'
    BY <1>3, <1>5, <1>6, <2>1, <2>2
  <2>4. DataKept(n) /\ project'[n] = project[n]
    BY <1>3, <1>6, <2>1 DEF DataKept
  <2>5. QED
    BY <1>1, <1>2, <1>3, <1>6, <2>2, <2>3, <2>4, GoesSteadily
<1>7. ASSUME c.kind = "restore", project[n] = None,
             op' = [op EXCEPT ![o].at = "probe", ![o].project = made + 1, ![o].port = Least(Free)],
             data' = [data EXCEPT ![n] = Copied], project' = [project EXCEPT ![n] = made + 1]
      PROVE  Clean(n)'
  <2>1. data'[n] = Copied /\ project'[n] = made + 1 /\ made + 1 # None
    BY <1>0, <1>7
  <2>2. /\ \A s \in Slots \ {o} : op'[s] = op[s]
        /\ op'[o].project = made + 1 /\ op'[o].name = n /\ op'[o].at = "probe"
        /\ op'[o].kind = c.kind /\ op'[o].res = "db"
    BY <1>4, <1>7
  <2>3. Of(n)' = {}
    BY <1>2, <1>7, NoRows DEF Clean
  <2>4. Relies(op[o])'
    BY <1>5, <2>1, <2>2, <2>3
  <2>5. \A s \in Busy(n) : ~Holds(op[s]) /\ op[s].kind # "create"
    <3>1. ASSUME NEW s \in Busy(n) PROVE ~Holds(op[s]) /\ op[s].kind # "create"
      <4>1. Bystands(op[s]) /\ op[s].name = n
        BY DEF Clean, Relies, Busy
      <4>2. QED
        BY <1>7, <4>1 DEF Bystands, HasProject
    <3>2. QED
      BY <3>1
  <2>6. \A s \in Busy(n)' : s = o \/ (s \in Busy(n) /\ Alike(op'[s], op[s]) /\ op'[s] = op[s])
    <3>1. ASSUME NEW s \in Slots \ {o}, op'[s].name = n
          PROVE  s \in Busy(n) /\ Alike(op'[s], op[s]) /\ op'[s] = op[s]
      BY <2>2, <3>1, AlikeItself DEF Busy
    <3>2. QED
      BY <3>1 DEF Busy
  <2>7. Company(n)'
    <3>1. \A s \in Busy(n)' : /\ op'[s].kind \notin Removers /\ op'[s].kind # "create"
                              /\ Holds(op'[s]) => s = o
      BY <1>0, <1>1, <2>2, <2>5, <2>6
    <3>2. QED
      BY <3>1 DEF Company
  <2>8. QED
    BY <1>0, <1>1, <1>7, <2>1, <2>4, <2>6, <2>7, BareStep
<1>8. ASSUME c.kind = "branch", Busy(n) = {o}, UNCHANGED <<project, data>>,
             op' = [op EXCEPT ![o] = [c EXCEPT !.kind = "discard", !.at = "remove"]]
      PROVE  Clean(n)'
  <2>1. /\ \A s \in Slots \ {o} : op'[s] = op[s]
        /\ op'[o].kind = "discard" /\ op'[o].at = "remove" /\ op'[o].name = n
        /\ op'[o].project = c.project
    BY <1>0, <1>8 DEF Ops, Op
  <2>2. HasProject(op[o])'
    BY <1>3, <1>8, <2>1 DEF HasProject
  <2>3. KeepsRow(op[o])' /\ HasBooted(op[o])' /\ Copies(op[o])' /\ Ejects(op[o])'
    BY <2>1 DEF KeepsRow, HasBooted, Copies, Ejects, Holds, Copiers
  <2>4. Withdraws(op[o])'
    BY <1>3, <1>8, <2>1 DEF Withdraws, Undoes, Discards, Removes, Clears, Takers, Clearers
  <2>5. Relies(op[o])'
    BY <2>2, <2>3, <2>4 DEF Relies, Bystands
  <2>6. DataKept(n) /\ project'[n] = project[n]
    BY <1>8 DEF DataKept
  <2>7. QED
    BY <1>1, <1>2, <1>3, <1>8, <2>1, <2>5, <2>6, GoesSteadily
<1>9. Spoil(n, TRUE) => FALSE
  BY DEF Spoil
<1>10. Spoil(n, c.kind = "restore" \/ Busy(n) # {o}) => c.kind # "restore" /\ Busy(n) = {o}
  BY DEF Spoil
<1>11. QED
  BY <1>0, <1>6, <1>7, <1>8, <1>9, <1>10 DEF Cloned

-----------------------------------------------------------------------------
(* Beginnings.                                                             *)

LEMMA RowsOfIts ==
    ASSUME Base, SoundInv, NEW n \in Names, project[n] # None, NEW r \in RowsOf(project[n])
    PROVE  r \in Of(n)
<1>1. r \in rows /\ r.project = project[n] /\ r.name \in Names /\ project[n] \in Nat
  BY Given DEF RowsOf, Rows, RowOf, Row, Count
<1>2. Claims(project[n], n) /\ Claims(project[n], r.name)
  BY <1>1 DEF Claims
<1>3. r.name = n
  BY <1>1, <1>2 DEF SoundInv, OneName
<1>4. QED
  BY <1>1, <1>3 DEF Of

\* What begins on a name that is not spoiled by it begins beside what it may.
LEMMA Beside ==
    ASSUME Base, NEW o \in Slots, NEW n \in Names, Clean(n), n \notin spoiled', Begun(o, n),
           op'[o].kind \in Copiers => project[n] = None
    PROVE  /\ Company(n)'
           /\ \A s \in Busy(n) : op[s].kind \notin Removers
           /\ \A s \in Busy(n)' : s = o \/ (s \in Busy(n) /\ Alike(op'[s], op[s]))
           /\ op'[o].kind \in Removers => Busy(n) = {}
<1>1. \A s \in Busy(n) : ~Clash(op'[o].kind, op[s].kind)
  BY DEF Begun
<1>2. \A s \in Busy(n) : op[s].kind \notin Removers /\ op'[o].kind \notin Removers
  BY <1>1 DEF Clash
<1>3. \A s \in Busy(n)' : s = o \/ (s \in Busy(n) /\ Alike(op'[s], op[s]) /\ op'[s] = op[s])
  <2>1. ASSUME NEW s \in Slots \ {o}, op'[s].name = n
        PROVE  s \in Busy(n) /\ Alike(op'[s], op[s]) /\ op'[s] = op[s]
    BY <2>1, AlikeItself DEF Begun, Busy
  <2>2. QED
    BY <2>1 DEF Busy
<1>4. Company(n)'
  <2>1. CASE Busy(n) = {}
    <3>1. Busy(n)' \subseteq {o}
      BY <1>3, <2>1
    <3>2. QED
      BY <3>1 DEF Company, Copiers
  <2>2. CASE op'[o].kind \in Copiers
    <3>1. \A s \in Busy(n) : ~Holds(op[s]) /\ op[s].kind # "create"
      <4>1. ASSUME NEW s \in Busy(n) PROVE ~Holds(op[s]) /\ op[s].kind # "create"
        <5>1. Bystands(op[s]) /\ op[s].name = n
          BY DEF Clean, Relies, Busy
        <5>2. QED
          BY <2>2, <5>1 DEF Bystands, HasProject
      <4>2. QED
        BY <4>1
    <3>2. \A s \in Busy(n)' : /\ op'[s].kind # "create"
                              /\ op'[s].kind \in Removers => Busy(n) = {}
                              /\ Holds(op'[s]) => s = o
      BY <1>2, <1>3, <2>2, <3>1 DEF Copiers
    <3>3. QED
      BY <2>1, <3>2 DEF Company
  <2>3. CASE Busy(n) # {} /\ op'[o].kind \notin Copiers
    <3>1. ~Holds(op'[o])
      BY <2>3 DEF Holds, Copiers
    <3>2. op'[o].kind = "create" => \A s \in Busy(n) : op[s].kind \notin Copiers
      BY <1>1 DEF Clash
    <3>3. op'[o].kind \notin Removers
      BY <1>2, <2>3
    <3>4. ASSUME NEW s \in Busy(n)', NEW u \in Busy(n)'
          PROVE  /\ op'[s].kind \in Removers => u = s
                 /\ Holds(op'[s]) /\ Holds(op'[u]) => u = s
                 /\ ~(op'[s].kind = "create" /\ op'[u].kind \in Copiers)
      <4>1. CASE s = o
        BY <1>3, <2>3, <3>1, <3>2, <3>3, <4>1
      <4>2. CASE s # o /\ u = o
        BY <1>2, <1>3, <2>3, <3>1, <4>2
      <4>3. CASE s # o /\ u # o
        BY <1>3, <4>3 DEF Clean, Company
      <4>4. QED
        BY <4>1, <4>2, <4>3
    <3>5. QED
      BY <3>4 DEF Company
  <2>4. QED
    BY <2>1, <2>2, <2>3
<1>5. QED
  BY <1>2, <1>3, <1>4

LEMMA CleanCreateBegins ==
    ASSUME Base, SoundInv, NEW o \in Slots, NEW n \in Names, Clean(n), n \notin spoiled',
           \E k \in Kinds : CreateBegins(o, n, k)
    PROVE  Clean(n)'
<1> DEFINE d == op'[o]
<1>1. /\ Begun(o, n) /\ UNCHANGED <<rows, project>> /\ project[n] # None
      /\ d.kind = "create" /\ d.at \in {"build", "probe"}
      /\ d.project = project[n]
  BY CreateBegun
<1>2. d.name = n /\ UNCHANGED <<box, data>> /\ project'[n] = project[n]
  BY <1>1 DEF Begun, world
<1>3. /\ Company(n)' /\ \A s \in Busy(n) : op[s].kind \notin Removers
      /\ \A s \in Busy(n)' : s = o \/ (s \in Busy(n) /\ Alike(op'[s], op[s]))
  BY <1>1, Beside DEF Copiers
<1>4. Relies(op[o])'
  <2>1. HasProject(op[o])'
    BY <1>1, <1>2 DEF HasProject
  <2>2. KeepsRow(op[o])' /\ HasBooted(op[o])' /\ Copies(op[o])' /\ Ejects(op[o])'
    BY <1>1 DEF KeepsRow, Planned, HasBooted, Copies, Ejects, Holds, Copiers
  <2>3. Withdraws(op[o])'
    BY <1>1 DEF Withdraws, Undoes, Discards, Removes, Clears, Takers, Clearers
  <2>4. QED
    BY <2>1, <2>2, <2>3 DEF Relies, Bystands
<1>5. RowsKept(n) /\ BoxesKept(n) /\ DataKept(n) /\ \A q \in Of(n)' : q \in Of(n) /\ Twin(q, q)
  BY <1>1, <1>2, SameRowsKept, SameBoxesKept DEF DataKept
<1>6. \A s \in Busy(n)' : (s \in Busy(n) /\ Alike(op'[s], op[s])) \/ Relies(op[s])'
  BY <1>3, <1>4
<1>7. QED
  BY <1>1, <1>2, <1>3, <1>5, <1>6, SteadyStep

LEMMA CleanRestoreBegins ==
    ASSUME Base, SoundInv, NEW o \in Slots, NEW n \in Names, Clean(n), n \notin spoiled',
           RestoreBegins(o, n)
    PROVE  Clean(n)'
<1> DEFINE d == op'[o]
<1>1. /\ Begun(o, n) /\ UNCHANGED <<rows, project>> /\ project[n] = None
      /\ d.kind = "restore" /\ d.at = "clone" /\ d.res = "db"
  BY RestoreBegun
<1>2. d.name = n /\ UNCHANGED <<box, data, dir, net>> /\ project'[n] = project[n]
  BY <1>1 DEF Begun, world
<1>3. /\ Company(n)' /\ \A s \in Busy(n) : op[s].kind \notin Removers
      /\ \A s \in Busy(n)' : s = o \/ (s \in Busy(n) /\ Alike(op'[s], op[s]))
  BY <1>1, Beside
<1>4. Relies(op[o])'
  <2>1. ~Holds(d)
    BY <1>1 DEF Holds
  <2>2. HasProject(op[o])' /\ KeepsRow(op[o])' /\ HasBooted(op[o])' /\ Copies(op[o])' /\ Ejects(op[o])'
    BY <1>1, <2>1 DEF HasProject, KeepsRow, HasBooted, Copies, Ejects, Clearers
  <2>3. Withdraws(op[o])'
    BY <1>1 DEF Withdraws, Undoes, Discards, Removes, Clears, Takers, Clearers
  <2>4. QED
    BY <2>2, <2>3 DEF Relies, Bystands
<1>5. RowsKept(n) /\ BoxesKept(n) /\ DataKept(n) /\ \A q \in Of(n)' : q \in Of(n) /\ Twin(q, q)
  BY <1>1, <1>2, SameRowsKept, SameBoxesKept DEF DataKept
<1>6. \A s \in Busy(n)' : (s \in Busy(n) /\ Alike(op'[s], op[s])) \/ Relies(op[s])'
  BY <1>3, <1>4
<1>7. QED
  BY <1>1, <1>2, <1>3, <1>5, <1>6, SteadyStep

LEMMA CleanBranchBegins ==
    ASSUME Base, SoundInv, NEW o \in Slots, NEW n \in Names, Clean(n), n \notin spoiled',
           \E a \in Names : BranchBegins(o, a, n)
    PROVE  Clean(n)'
<1> DEFINE d == op'[o]
<1>1. /\ Begun(o, n) /\ UNCHANGED rows /\ project[n] = None
      /\ project' = [project EXCEPT ![n] = made + 1]
      /\ d.kind = "branch" /\ d.at = "clone" /\ d.res = "db" /\ d.project = made + 1
  BY BranchBegun
<1>2. d.name = n /\ UNCHANGED box
  BY <1>1 DEF Begun, world
<1>3. project'[n] = made + 1 /\ project'[n] # None
  <2>1. made \in Nat /\ project \in [Names -> 0..made]
    BY Given DEF Count
  <2>2. project'[n] = made + 1
    BY <1>1, <2>1
  <2>3. QED
    BY <2>1, <2>2
<1>4. /\ Company(n)' /\ \A s \in Busy(n) : op[s].kind \notin Removers
      /\ \A s \in Busy(n)' : s = o \/ (s \in Busy(n) /\ Alike(op'[s], op[s]))
  BY <1>1, Beside
<1>5. Of(n)' = {}
  BY <1>1, NoRows DEF Clean, Of
<1>6. Relies(op[o])'
  <2>1. HasProject(op[o])'
    BY <1>1, <1>2, <1>3 DEF HasProject
  <2>2. KeepsRow(op[o])' /\ HasBooted(op[o])' /\ Ejects(op[o])'
    BY <1>1 DEF KeepsRow, HasBooted, Ejects, Rowed
  <2>3. Copies(op[o])'
    BY <1>1, <1>2, <1>5 DEF Copies
  <2>4. Withdraws(op[o])'
    BY <1>1 DEF Withdraws, Undoes, Discards, Removes, Clears, Takers, Clearers
  <2>5. QED
    BY <2>1, <2>2, <2>3, <2>4 DEF Relies, Bystands
<1>7. \A s \in Busy(n)' : (s \in Busy(n) /\ Alike(op'[s], op[s])) \/ Relies(op[s])'
  BY <1>4, <1>6
<1>8. QED
  BY <1>1, <1>2, <1>3, <1>4, <1>7, BareStep

\* The row that is marked is in that state then.
LEMMA MarkedIs ==
    ASSUME Base, NEW n \in Names, NEW r \in Of(n), NEW s, rows' = Mark({r.id}, s)
    PROVE  \E u \in Of(n)' : Twin(u, r) /\ u.state = s
<1> DEFINE u == [r EXCEPT !.state = s]
<1>1. r \in rows /\ r.name = n
  BY DEF Of
<1>2. u \in rows'
  BY <1>1 DEF Mark
<1>3. Twin(u, r) /\ u.state = s
  BY <1>1, Given DEF Rows, RowOf, Row, Twin
<1> HIDE DEF u
<1>4. QED
  BY <1>1, <1>2, <1>3 DEF Of, Twin

LEMMA CleanRmBegins ==
    ASSUME Base, SoundInv, NEW o \in Slots, NEW n \in Names, Clean(n), n \notin spoiled',
           NEW r \in rows, RmBegins(o, n, r)
    PROVE  Clean(n)'
<1> DEFINE d == op'[o]
<1>1. /\ Begun(o, n) /\ rows' = Mark({d.id}, "destroying") /\ UNCHANGED project
      /\ project[n] # None /\ r \in RowsOf(project[n])
      /\ d.kind = "rm" /\ d.at = "stop" /\ d.id = r.id /\ d.res = r.kind
  BY RmBegun
<1>2. d.name = n /\ UNCHANGED <<box, data>> /\ project'[n] = project[n]
  BY <1>1 DEF Begun, world
<1>3. r \in Of(n)
  BY <1>1, RowsOfIts
<1>4. /\ Company(n)' /\ \A s \in Busy(n) : op[s].kind \notin Removers
      /\ \A s \in Busy(n)' : s = o \/ (s \in Busy(n) /\ Alike(op'[s], op[s]))
  BY <1>1, Beside DEF Copiers
<1>5. PICK u \in Of(n)' : Twin(u, r) /\ u.state = "destroying"
  BY <1>1, <1>3, MarkedIs
<1>6. Relies(op[o])'
  <2>1. ~Holds(d)
    BY <1>1 DEF Holds
  <2>2. HasProject(op[o])' /\ KeepsRow(op[o])' /\ HasBooted(op[o])' /\ Copies(op[o])' /\ Ejects(op[o])'
    BY <1>1, <2>1 DEF HasProject, KeepsRow, HasBooted, Copies, Ejects, Clearers, Copiers
  <2>3. Removes(op[o])'
    BY <1>1, <1>2, <1>5 DEF Removes, HasRow, Twin
  <2>4. Withdraws(op[o])'
    BY <1>1, <2>3 DEF Withdraws, Undoes, Discards, Clears, Clearers
  <2>5. QED
    BY <2>2, <2>4 DEF Relies, Bystands
<1>7. /\ RowsKept(n)
      /\ \A q \in Of(n)' : \E v \in Of(n) :
            Twin(q, v) /\ (q = v \/ (v.id \in {d.id} /\ q.state = "destroying"))
  BY <1>1, MarkKeepsRows
<1>8. \A q \in Of(n)' : q.state \in InUse => \E v \in Of(n) : Twin(q, v) /\ v.state \in InUse
  BY <1>7 DEF InUse
<1>9. BoxesKept(n) /\ DataKept(n)
  BY <1>2, SameBoxesKept DEF DataKept
<1>10. \A s \in Busy(n)' : (s \in Busy(n) /\ Alike(op'[s], op[s])) \/ Relies(op[s])'
  BY <1>4, <1>6
<1>11. QED
  BY <1>1, <1>2, <1>4, <1>7, <1>8, <1>9, <1>10, SteadyStep

LEMMA CleanWakeBegins ==
    ASSUME Base, SoundInv, NEW o \in Slots, NEW n \in Names, Clean(n), n \notin spoiled',
           NEW r \in rows, WakeBegins(o, n, r)
    PROVE  Clean(n)'
<1> DEFINE d == op'[o]
<1>1. /\ Begun(o, n) /\ rows' = Mark({d.id}, "starting") /\ UNCHANGED project
      /\ project[n] # None /\ r \in RowsOf(project[n])
      /\ d.kind = "wake" /\ d.at = "start" /\ d.id = r.id /\ d.res = r.kind /\ d.port = r.port
  BY WakeBegun
<1>2. d.name = n /\ UNCHANGED <<box, data>> /\ project'[n] = project[n]
  BY <1>1 DEF Begun, world
<1>3. r \in Of(n)
  BY <1>1, RowsOfIts
<1>4. /\ Company(n)' /\ \A s \in Busy(n) : op[s].kind \notin Removers
      /\ \A s \in Busy(n)' : s = o \/ (s \in Busy(n) /\ Alike(op'[s], op[s]))
  BY <1>1, Beside DEF Copiers
<1>5. PICK u \in Of(n)' : Twin(u, r)
  BY <1>1, <1>3, MarkedIs
<1>6. Relies(op[o])'
  <2>1. ~Holds(d)
    BY <1>1 DEF Holds
  <2>2. HasProject(op[o])' /\ HasBooted(op[o])' /\ Copies(op[o])' /\ Ejects(op[o])'
    BY <1>1, <2>1 DEF HasProject, HasBooted, Copies, Ejects, Clearers, Copiers
  <2>3. KeepsRow(op[o])'
    BY <1>1, <1>2, <1>5 DEF KeepsRow, Twin
  <2>4. Withdraws(op[o])'
    BY <1>1 DEF Withdraws, Undoes, Discards, Removes, Clears, Takers, Clearers
  <2>5. QED
    BY <2>2, <2>3, <2>4 DEF Relies, Bystands
<1>7. /\ RowsKept(n)
      /\ \A q \in Of(n)' : \E v \in Of(n) :
            Twin(q, v) /\ (q = v \/ (v.id \in {d.id} /\ q.state = "starting"))
  BY <1>1, MarkKeepsRows
<1>8. \A q \in Of(n)' : q.state \in InUse => \E v \in Of(n) : Twin(q, v) /\ v.state \in InUse
  BY <1>7 DEF InUse
<1>9. BoxesKept(n) /\ DataKept(n)
  BY <1>2, SameBoxesKept DEF DataKept
<1>10. \A s \in Busy(n)' : (s \in Busy(n) /\ Alike(op'[s], op[s])) \/ Relies(op[s])'
  BY <1>4, <1>6
<1>11. QED
  BY <1>1, <1>2, <1>4, <1>7, <1>8, <1>9, <1>10, SteadyStep


LEMMA CleanRmProjectBegins ==
    ASSUME Base, SoundInv, NEW o \in Slots, NEW n \in Names, Clean(n), n \notin spoiled',
           RmProjectBegins(o, n)
    PROVE  Clean(n)'
<1> DEFINE d == op'[o]
           R == RowsOf(project[n])
           T == {<<r.id, r.kind>> : r \in R}
<1>1. /\ Begun(o, n) /\ rows' = Mark({d.id}, "destroying") /\ UNCHANGED project
      /\ project[n] # None /\ d.kind \in Clearers /\ d.project = project[n] /\ Takes(d, T)
  BY RmProjectBegun
<1>2. d.name = n /\ UNCHANGED <<box, data>> /\ project'[n] = project[n]
  BY <1>1 DEF Begun, world
<1>3. d.kind \in Removers /\ d.kind \notin Copiers /\ d.kind \notin {"create", "wake", "eject", "undo", "discard"}
  BY <1>1 DEF Clearers, Removers, Copiers
<1>4. /\ Company(n)' /\ \A s \in Busy(n) : op[s].kind \notin Removers
      /\ \A s \in Busy(n)' : s = o \/ (s \in Busy(n) /\ Alike(op'[s], op[s]))
  BY <1>1, <1>3, Beside
<1>5. /\ \A i, k : <<i, k>> \in T => \E r \in Of(n) : r.id = i /\ r.kind = k
      /\ \A t \in T : \E r \in Of(n) : t = <<r.id, r.kind>>
      /\ \A r \in Of(n) : <<r.id, r.kind>> \in T
  <2>1. \A r \in R : r \in Of(n)
    BY <1>1, RowsOfIts
  <2>2. \A r \in Of(n) : r \in R
    BY DEF Clean, Owned, Of, RowsOf
  <2> HIDE DEF R
  <2>3. QED
    BY <2>1, <2>2
<1> HIDE DEF T, R
<1>6. /\ RowsKept(n)
      /\ \A q \in Of(n)' : \E v \in Of(n) :
            Twin(q, v) /\ (q = v \/ (v.id \in {d.id} /\ q.state = "destroying"))
  BY <1>1, MarkKeepsRows
<1>7. \A r, q \in Of(n) : r.id = q.id => r = q
  BY Given DEF Of, Rows
<1>8. Removes(op[o])'
  <2>1. CASE T = {}
    BY <1>1, <2>1 DEF Takes, Removes
  <2>2. CASE T # {}
    <3>1. d.at = "stop" /\ <<d.id, d.res>> \in T
      BY <1>1, <2>2 DEF Takes
    <3>2. PICK r \in Of(n) : r.id = d.id /\ r.kind = d.res
      BY <1>5, <3>1
    <3>3. PICK u \in Of(n)' : Twin(u, r) /\ u.state = "destroying"
      BY <1>1, <3>2, MarkedIs
    <3>4. QED
      BY <1>2, <3>1, <3>2, <3>3 DEF Removes, HasRow, Twin
  <2>3. QED
    BY <2>1, <2>2
<1>9. Clears(op[o])'
  <2>1. ASSUME NEW r \in Of(n)' PROVE Listed(d, r)
    <3>1. PICK q \in Of(n) : Twin(r, q)
      BY <1>6
    <3>2. <<q.id, q.kind>> \in T /\ q.kind \in Kinds
      BY <1>5, RowFacts
    <3>3. d.todo = T \ {<<d.id, d.res>>}
      BY <1>1, <3>2 DEF Takes
    <3>4. CASE <<q.id, q.kind>> = <<d.id, d.res>>
      BY <3>1, <3>4 DEF Twin, Listed
    <3>5. CASE <<q.id, q.kind>> # <<d.id, d.res>>
      BY <3>1, <3>2, <3>3, <3>5 DEF Twin, Listed
    <3>6. QED
      BY <3>4, <3>5
  <2>2. ASSUME NEW t \in d.todo PROVE t[1] # d.id /\ \E r \in Of(n)' : r.id = t[1]
    <3>1. T # {} /\ d.todo = T \ {<<d.id, d.res>>} /\ <<d.id, d.res>> \in T
      BY <1>1, <2>2 DEF Takes
    <3>2. PICK q \in Of(n) : t = <<q.id, q.kind>>
      BY <1>5, <3>1
    <3>3. PICK v \in Of(n) : v.id = d.id /\ v.kind = d.res
      BY <1>5, <3>1
    <3>4. q.id # d.id
      <4>1. q.id = d.id => q = v
        BY <1>7, <3>3
      <4>2. t # <<d.id, d.res>>
        BY <3>1
      <4>3. QED
        BY <3>2, <3>3, <4>1, <4>2
    <3>5. PICK r \in Of(n)' : Twin(r, q)
      BY <1>6 DEF RowsKept
    <3>6. QED
      BY <3>2, <3>4, <3>5 DEF Twin
  <2>3. d.at \in {"network", "directory"} => Of(n)' = {} /\ d.at # "directory"
    <3>1. T = {} => Of(n)' = {} /\ d.at = "network"
      BY <1>1, <1>5, <1>6 DEF Takes
    <3>2. T # {} => d.at = "stop"
      BY <1>1 DEF Takes
    <3>3. QED
      BY <3>1, <3>2
  <2>4. QED
    BY <1>2, <2>1, <2>2, <2>3 DEF Clears
<1>10. Relies(op[o])'
  <2>1. ~Holds(d)
    BY <1>3 DEF Holds, Copiers
  <2>2. HasProject(op[o])'
    BY <1>1, <1>2 DEF HasProject
  <2>3. KeepsRow(op[o])' /\ HasBooted(op[o])' /\ Copies(op[o])' /\ Ejects(op[o])'
    BY <1>3, <2>1 DEF KeepsRow, HasBooted, Copies, Ejects
  <2>4. Withdraws(op[o])'
    BY <1>3, <1>8, <1>9 DEF Withdraws, Undoes, Discards
  <2>5. QED
    BY <2>2, <2>3, <2>4 DEF Relies, Bystands
<1>11. \A q \in Of(n)' : q.state \in InUse => \E v \in Of(n) : Twin(q, v) /\ v.state \in InUse
  BY <1>6 DEF InUse
<1>12. BoxesKept(n) /\ DataKept(n)
  BY <1>2, SameBoxesKept DEF DataKept
<1>13. \A s \in Busy(n)' : (s \in Busy(n) /\ Alike(op'[s], op[s])) \/ Relies(op[s])'
  BY <1>4, <1>10
<1>14. QED
  BY <1>1, <1>2, <1>4, <1>6, <1>11, <1>12, <1>13, SteadyStep

\* What an ejection lists is running, and so it is right.
LEMMA CleanEjectBegins ==
    ASSUME Base, SoundInv, NEW o \in Slots, NEW n \in Names, Clean(n), n \notin spoiled',
           EjectBegins(o, n)
    PROVE  Clean(n)'
<1>1. CASE UNCHANGED <<rows, op>>
  <2>1. UNCHANGED <<project, world, rows, op>>
    BY <1>1 DEF EjectBegins
  <2>2. Same(n)
    BY <2>1, AlikeItself DEF Same, world, Of, Busy
  <2>3. QED
    BY <2>2, CleanSame
<1>2. CASE ~UNCHANGED <<rows, op>>
  <2> DEFINE d == op'[o]
             R == {x \in RowsOf(project[n]) : x.state = "running"}
             T == {<<r.id, r.kind>> : r \in R}
  <2>1. /\ Begun(o, n) /\ rows' = Mark({d.id}, "stopping") /\ UNCHANGED project
        /\ project[n] # None /\ d.kind = "eject" /\ <<d.id, d.res>> \in T /\ d.todo \subseteq T
    BY <1>2, EjectBegun
  <2>2. d.name = n /\ UNCHANGED <<box, data>> /\ project'[n] = project[n]
    BY <2>1 DEF Begun, world
  <2>3. /\ Company(n)' /\ \A s \in Busy(n) : op[s].kind \notin Removers
        /\ \A s \in Busy(n)' : s = o \/ (s \in Busy(n) /\ Alike(op'[s], op[s]))
    BY <2>1, Beside DEF Copiers
  <2>4. \A t \in T : \E r \in Of(n) : r.state = "running" /\ t = <<r.id, r.kind>>
    <3>1. \A r \in R : r \in Of(n) /\ r.state = "running"
      BY <2>1, RowsOfIts
    <3> HIDE DEF R
    <3>2. QED
      BY <3>1
  <2> HIDE DEF T, R
  <2>5. /\ RowsKept(n)
        /\ \A q \in Of(n)' : \E v \in Of(n) :
              Twin(q, v) /\ (q = v \/ (v.id \in {d.id} /\ q.state = "stopping"))
    BY <2>1, MarkKeepsRows
  <2>6. \A r, q \in Of(n) : r.id = q.id => r = q
    BY Given DEF Of, Rows
  <2>7. BoxesKept(n) /\ DataKept(n)
    BY <2>2, SameBoxesKept DEF DataKept
  <2>8. \A q \in Of(n) : Listed(d, q) => q.state = "running"
    <3>1. ASSUME NEW q \in Of(n), NEW k, <<q.id, k>> \in T PROVE q.state = "running"
      <4>1. PICK r \in Of(n) : r.state = "running" /\ <<q.id, k>> = <<r.id, r.kind>>
        BY <2>4, <3>1
      <4>2. QED
        BY <2>6, <4>1
    <3>2. ASSUME NEW q \in Of(n), Listed(d, q) PROVE \E k : <<q.id, k>> \in T
      BY <2>1, <3>2 DEF Listed
    <3>3. QED
      BY <3>1, <3>2
  <2>9. Ejects(op[o])'
    <3>1. ASSUME NEW r \in Of(n)', Listed(d, r) PROVE Right(r)'
      <4>1. PICK q \in Of(n) : Twin(r, q)
        BY <2>5
      <4>2. Listed(d, q)
        BY <3>1, <4>1 DEF Listed, Twin
      <4>3. Right(q)
        BY <2>8, <4>2 DEF Clean, Usable
      <4>4. QED
        BY <2>7, <4>1, <4>3, RightKept
    <3>2. QED
      BY <2>2, <3>1 DEF Ejects, Listed
  <2>10. Relies(op[o])'
    <3>1. ~Holds(d)
      BY <2>1 DEF Holds
    <3>2. HasProject(op[o])' /\ KeepsRow(op[o])' /\ HasBooted(op[o])' /\ Copies(op[o])'
      BY <2>1, <3>1 DEF HasProject, KeepsRow, HasBooted, Copies, Clearers, Copiers
    <3>3. Withdraws(op[o])'
      BY <2>1 DEF Withdraws, Undoes, Discards, Removes, Clears, Takers, Clearers
    <3>4. QED
      BY <2>9, <3>2, <3>3 DEF Relies, Bystands
  <2>11. \A q \in Of(n)' : q.state \in InUse => \E v \in Of(n) : Twin(q, v) /\ v.state \in InUse
    <3>1. ASSUME NEW q \in Of(n)', q.state \in InUse PROVE \E v \in Of(n) : Twin(q, v) /\ v.state \in InUse
      <4>1. PICK v \in Of(n) : Twin(q, v) /\ (q = v \/ v.id = d.id)
        BY <2>5
      <4>2. v.id = d.id => v.state = "running"
        BY <2>8 DEF Listed
      <4>3. QED
        BY <3>1, <4>1, <4>2 DEF InUse
    <3>2. QED
      BY <3>1
  <2>12. \A s \in Busy(n)' : (s \in Busy(n) /\ Alike(op'[s], op[s])) \/ Relies(op[s])'
    BY <2>3, <2>10
  <2>13. QED
    BY <2>1, <2>2, <2>3, <2>5, <2>7, <2>11, <2>12, SteadyStep
<1>3. QED
  BY <1>1, <1>2

LEMMA CleanBegins ==
    ASSUME Base, SoundInv, NEW o \in Slots, NEW n \in Names, Clean(n), n \notin spoiled',
           BeginsOn(o, n)
    PROVE  Clean(n)'
BY CleanRmProjectBegins, CleanEjectBegins, CleanRestoreBegins, CleanCreateBegins, CleanRmBegins,
   CleanWakeBegins, CleanBranchBegins DEF BeginsOn

-----------------------------------------------------------------------------
(* Removals: each is alone on its name.                                    *)

LEMMA Alone ==
    ASSUME Base, NEW o \in Slots, NEW n \in Names, Clean(n), op[o].name = n, op[o].kind \in Removers
    PROVE  /\ o \in Busy(n) /\ Busy(n) = {o} /\ Bystands(op[o]) /\ Withdraws(op[o])
           /\ op[o].kind \notin Copiers /\ op[o].kind \notin {"create", "wake", "eject"}
           /\ ~Holds(op[o])
<1>1. o \in Busy(n)
  BY DEF Busy
<1>2. Busy(n) = {o}
  BY <1>1 DEF Clean, Company
<1>3. op[o].kind \notin Copiers /\ op[o].kind \notin {"create", "wake", "eject"} /\ ~Holds(op[o])
  BY DEF Removers, Copiers, Holds
<1>4. QED
  BY <1>1, <1>2, <1>3 DEF Clean, Relies

LEMMA AloneStep ==
    ASSUME Base, NEW o \in Slots, NEW n \in Names, Busy(n) = {o},
           \A s \in Slots \ {o} : op'[s] = op[s],
           op'[o] = Idle \/ Relies(op[o])',
           Owned(n)', Boxed(n)', Usable(n)', Bare(n)'
    PROVE  Clean(n)'
<1>1. Busy(n)' \subseteq {o}
  BY DEF Busy
<1>2. op'[o] = Idle => o \notin Busy(n)'
  BY IdleIsOp, ProjectsAssumption DEF Busy
<1>3. Company(n)'
  BY <1>1 DEF Company, Copiers
<1>4. \A s \in Busy(n)' : Relies(op[s])'
  BY <1>1, <1>2
<1>5. QED
  BY <1>3, <1>4 DEF Clean

LEMMA DoneAlone ==
    ASSUME Base, NEW o \in Slots, Done(o)
    PROVE  op'[o] = Idle /\ \A s \in Slots \ {o} : op'[s] = op[s]
BY Given DEF Done, Ops

\* Rows that stay are still of their project, and right while their boxes and data stay.
LEMMA SameRows ==
    ASSUME NEW n \in Names, UNCHANGED rows
    PROVE  Of(n)' = Of(n)
BY DEF Of

LEMMA RightStays ==
    ASSUME Base, SoundInv, NEW n \in Names, NEW r \in Of(n), Right(r),
           box'[n][r.kind] = box[n][r.kind], r.kind = "db" => data'[n] = data[n]
    PROVE  Right(r)'
<1>1. r.name = n
  BY RowFacts
<1>2. QED
  BY <1>1 DEF Right

\* The one row of a kind is in use, or it is not.
LEMMA OfItsKind ==
    ASSUME SoundInv, NEW n \in Names, Owned(n), NEW c, c.name = n, NEW s, HasRow(c, s), s \notin InUse,
           NEW r \in Of(n), r.state \in InUse
    PROVE  r.kind # c.res
<1>1. PICK v \in Of(n) : v.kind = c.res /\ v.state = s
  BY DEF HasRow
<1>2. r.kind = c.res => r = v
  BY <1>1, OneRowOfAKind
<1>3. QED
  BY <1>1, <1>2

\* removeContainerQuietly: the row has failed, and so is not in use.
LEMMA CleanUndo ==
    ASSUME Base, SoundInv, NEW o \in Slots, NEW n \in Names, op[o].name = n, Clean(n),
           n \notin spoiled', Undo(o)
    PROVE  Clean(n)'
<1> DEFINE c == op[o]
<1>0. c.kind = "undo" /\ Done(o) /\ UNCHANGED <<rows, project, net, dir, data>>
  BY DEF Undo, Has, store
<1>1. Busy(n) = {o} /\ Withdraws(c)
  BY <1>0, Alone DEF Removers
<1>2. SetBox(n, c.res, Gone)
  BY DEF Undo, Spoil
<1>3. \A j \in Kinds : box'[n][j] = IF j = c.res THEN Gone ELSE box[n][j]
  BY <1>2, SetBoxIs
<1>4. Of(n)' = Of(n) /\ project'[n] = project[n]
  BY <1>0, SameRows
<1>5. ~LeftOver(n)
  BY <1>0, <1>1 DEF LeftOver, Clearers
<1>6. Owned(n)'
  BY <1>4 DEF Clean, Owned
<1>7. Boxed(n)'
  BY <1>3, <1>4, <1>5 DEF Clean, Boxed
<1>8. Usable(n)'
  <2>1. HasRow(c, "failed")
    BY <1>0, <1>1 DEF Withdraws, Undoes
  <2>2. ASSUME NEW r \in Of(n), r.state \in InUse PROVE Right(r)'
    <3>1. r.kind # c.res
      BY <2>1, <2>2, OfItsKind DEF Clean, InUse
    <3>2. r.kind \in Kinds /\ Right(r)
      BY <2>2, RowFacts DEF Clean, Usable, InUse
    <3>3. box'[n][r.kind] = box[n][r.kind]
      BY <1>3, <3>1, <3>2
    <3>4. QED
      BY <1>0, <3>2, <3>3, RightStays
  <2>3. QED
    BY <1>4, <2>2 DEF Usable, InUse
<1>9. Bare(n)'
  BY <1>0, <1>1 DEF Clean, Bare
<1>10. QED
  BY <1>0, <1>1, <1>6, <1>7, <1>8, <1>9, DoneAlone, AloneStep

-----------------------------------------------------------------------------
(* Removals of one resource or of all.                                     *)

LEMMA TakerHas ==
    ASSUME Base, SoundInv, NEW o \in Slots, NEW n \in Names, Clean(n), op[o].name = n,
           op[o].kind \in Takers, op[o].at \in {"stop", "remove", "wipe"}
    PROVE  /\ Busy(n) = {o} /\ project[n] # None /\ op[o].kind \in Removers
           /\ HasRow(op[o], "destroying") /\ Withdraws(op[o]) /\ HasProject(op[o])
           /\ LeftOver(n) => op[o].kind \in Clearers /\ op[o].bad
           /\ \A r \in Of(n) : r.state \in InUse => r.kind # op[o].res /\ Right(r)
           /\ \E v \in Of(n) : v.id = op[o].id /\ v.kind = op[o].res
<1>1. op[o].kind \in Removers
  BY DEF Takers, Removers
<1>2. Busy(n) = {o} /\ Withdraws(op[o]) /\ Bystands(op[o])
  BY <1>1, Alone
<1>3. HasRow(op[o], "destroying")
  BY <1>2 DEF Withdraws, Removes
<1>4. PICK v \in Of(n) : v.id = op[o].id /\ v.kind = op[o].res
  BY <1>3 DEF HasRow
<1>5. project[n] # None
  BY <1>4, RowFacts DEF Clean, Owned
<1>6. LeftOver(n) => op[o].kind \in Clearers /\ op[o].bad
  BY <1>2 DEF LeftOver
<1>7. \A r \in Of(n) : r.state \in InUse => r.kind # op[o].res /\ Right(r)
  BY <1>3, OfItsKind DEF Clean, Usable, InUse
<1>8. HasProject(op[o])
  BY <1>2 DEF Bystands
<1>9. QED
  BY <1>1, <1>2, <1>3, <1>4, <1>5, <1>6, <1>7, <1>8

\* Another step at the same resource.
LEMMA CleanHit ==
    ASSUME Base, SoundInv, NEW o \in Slots, NEW n \in Names, Clean(n), op[o].name = n,
           op[o].kind \in Takers, op[o].at \in {"stop", "remove"},
           NEW at \in {"remove", "wipe"}, NEW b \in BOOLEAN, Hit(o, at, b),
           UNCHANGED <<rows, project, data>>,
           \A k \in Kinds \ {op[o].res} : box'[n][k] = box[n][k],
           \A k \in Kinds : box'[n][k] # Gone =>
               /\ box[n][k] # Gone
               /\ box'[n][k].whose = box[n][k].whose /\ box'[n][k].port = box[n][k].port,
           at = "wipe" /\ ~b => box'[n][op[o].res] = Gone
    PROVE  Clean(n)'
<1> DEFINE c == op[o]
           d == op'[o]
<1>0. /\ Busy(n) = {o} /\ project[n] # None /\ c.kind \in Removers
      /\ HasRow(c, "destroying") /\ Withdraws(c) /\ HasProject(c)
      /\ LeftOver(n) => c.kind \in Clearers /\ c.bad
      /\ \A r \in Of(n) : r.state \in InUse => r.kind # c.res /\ Right(r)
      /\ c.kind \notin {"undo", "discard", "create"}
  BY TakerHas DEF Takers
<1>1. /\ \A s \in Slots \ {o} : op'[s] = op[s]
      /\ d.at = at /\ d.kind = c.kind /\ d.id = c.id /\ d.name = n /\ d.res = c.res
      /\ d.todo = c.todo /\ d.project = c.project
      /\ c.bad => d.bad
      /\ b => d.bad
  <2>1. c \in Op /\ Ops /\ at \in Ats
    BY Given DEF Ats
  <2>2. op'[o].bad = (op[o].bad \/ b) /\ \A s \in Slots \ {o} : op'[s] = op[s]
    BY <2>1 DEF Hit, Ops, Op
  <2>3. /\ d.at = at /\ d.kind = c.kind /\ d.id = c.id /\ d.name = n /\ d.res = c.res
        /\ d.todo = c.todo /\ d.project = c.project
    BY <2>1 DEF Hit, Ops, Op
  <2>4. QED
    BY <2>2, <2>3
<1>2. Of(n)' = Of(n) /\ project'[n] = project[n] /\ data'[n] = data[n]
  BY SameRows
<1>3. Relies(op[o])'
  <2>1. HasProject(op[o])'
    BY <1>0, <1>1, <1>2 DEF HasProject, Holds
  <2>2. Bystands(op[o])'
    BY <1>0, <1>1, <2>1 DEF Bystands, KeepsRow, HasBooted, Copies, Ejects, Holds,
       Removers, Copiers
  <2>3. HasRow(op[o], "destroying")'
    BY <1>0, <1>1, <1>2 DEF HasRow
  <2>4. Removes(op[o])'
    BY <1>1, <2>3 DEF Removes
  <2>5. Clears(op[o])'
    BY <1>0, <1>1, <1>2 DEF Withdraws, Clears, Listed
  <2>6. Undoes(op[o])' /\ Discards(op[o])'
    BY <1>0, <1>1 DEF Undoes, Discards
  <2>7. QED
    BY <2>2, <2>4, <2>5, <2>6 DEF Relies, Withdraws
<1>4. Owned(n)' /\ Bare(n)'
  BY <1>0, <1>2 DEF Clean, Owned, Bare
<1>5. Boxed(n)'
  <2>1. LeftOver(n) => LeftOver(n)'
    <3>1. o \in Busy(n)'
      BY <1>1 DEF Busy
    <3>2. QED
      BY <1>0, <1>1, <3>1 DEF LeftOver
  <2>2. QED
    BY <1>2, <2>1 DEF Clean, Boxed
<1>6. Usable(n)'
  <2>1. ASSUME NEW r \in Of(n), r.state \in InUse PROVE Right(r)'
    <3>1. r.kind # c.res /\ Right(r) /\ r.kind \in Kinds
      BY <1>0, <2>1, RowFacts
    <3>2. QED
      BY <1>2, <3>1, RightStays
  <2>2. QED
    BY <1>2, <2>1 DEF Usable, InUse
<1>7. QED
  BY <1>0, <1>1, <1>3, <1>4, <1>5, <1>6, AloneStep

LEMMA NextTaken ==
    ASSUME Base, NEW o \in Slots, op[o].kind # "idle", op[o].name \in Names, NEW b \in BOOLEAN
    PROVE  LET t == Take([op[o] EXCEPT !.bad = b], op[o].todo) IN
           /\ t.kind = op[o].kind /\ t.name = op[o].name /\ t.project = op[o].project /\ t.bad = b
           /\ Takes(t, op[o].todo)
<1> DEFINE c == op[o]
           T == c.todo
           e == [c EXCEPT !.bad = b]
           t == Take(e, T)
<1>1. /\ c \in Op /\ c.id \in 0..made /\ c.project \in 0..made
      /\ T \in SUBSET ((1..made) \X Kinds) /\ made \in Nat
  BY Given, OpRange
<1>2. c.id <= made /\ c.project <= made
  BY <1>1
<1>3. e \in Op /\ e.kind = c.kind /\ e.name = c.name /\ e.project = c.project /\ e.id = c.id
  BY <1>1 DEF Op
<1>4. e.bad = b
  BY <1>1 DEF Op
<1>5. /\ e \in Op /\ e.kind # "idle" /\ e.name \in Names /\ e.id <= made /\ e.project <= made
      /\ made \in Nat /\ T \in SUBSET ((1..made) \X Kinds)
  BY <1>1, <1>2, <1>3
<1> HIDE DEF e, T, c
<1>6. /\ OpOf(t, made) /\ t.kind = e.kind /\ t.name = e.name /\ t.project = e.project /\ t.bad = e.bad
      /\ T = {} => t.at = "network" /\ t.id = None /\ t.todo = {}
      /\ T # {} => /\ t.at = "stop" /\ t.id # None /\ <<t.id, t.res>> \in T
                   /\ t.todo = T \ {<<t.id, t.res>>}
  BY <1>5, TakeIsOp
<1> HIDE DEF t
<1>7. Takes(t, T)
  BY <1>6 DEF Takes
<1>8. QED
  BY <1>3, <1>4, <1>6, <1>7 DEF t, e, T, c

\* A resource is done with, and the next is taken: whatever is left of it is counted.
LEMMA CleanRowGoes ==
    ASSUME Base, SoundInv, NEW o \in Slots, NEW n \in Names, Clean(n), op[o].name = n,
           n \notin spoiled',
           op[o].kind \in Takers, op[o].at \in {"stop", "remove", "wipe"},
           NEW b \in BOOLEAN, RowGoes(o, b), op[o].bad => b, UNCHANGED project,
           \A k \in Kinds \ {op[o].res} : box'[n][k] = box[n][k],
           b \/ box'[n][op[o].res] = Gone,
           op[o].res = "db" \/ data'[n] = data[n]
    PROVE  Clean(n)'
<1> DEFINE c == op[o]
           T == c.todo
           e == [c EXCEPT !.bad = b]
           t == Take(e, T)
           one == c.kind = "rm"
           d == op'[o]
<1>0. /\ Busy(n) = {o} /\ project[n] # None /\ c.kind \in Removers
      /\ Withdraws(c) /\ HasProject(c)
      /\ LeftOver(n) => c.kind \in Clearers /\ c.bad
      /\ \A r \in Of(n) : r.state \in InUse => r.kind # c.res /\ Right(r)
  BY TakerHas
<1>1. PICK v \in Of(n) : v.id = c.id /\ v.kind = c.res
  BY TakerHas
<1>2. /\ rows' = {r \in (IF one THEN rows ELSE Mark({t.id}, "destroying")) : r.id # c.id}
      /\ op' = [op EXCEPT ![o] = IF one THEN Idle ELSE t]
      /\ one => ~b
  BY DEF RowGoes, Spoil
<1>3. /\ t.kind = c.kind /\ t.name = n /\ t.project = c.project /\ t.bad = b /\ Takes(t, T)
  <2>1. c.kind # "idle"
    BY <1>0 DEF Removers
  <2>2. QED
    BY <2>1, NextTaken
<1> HIDE DEF t, e
<1>4. /\ \A s \in Slots \ {o} : op'[s] = op[s]
      /\ d = IF one THEN Idle ELSE t
  BY <1>2, Given DEF Ops
<1>5. \A q \in Of(n) : q.id # c.id <=> q.kind # c.res
  <2>1. \A q \in Of(n) : q.id = c.id => q = v
    BY <1>1, Given DEF Of, Rows
  <2>2. \A q \in Of(n) : q.kind = c.res => q = v
    BY <1>1, OneRowOfAKind DEF Clean
  <2>3. QED
    BY <1>1, <2>1, <2>2
<1>6. ASSUME NEW r \in Of(n)'
      PROVE  \E q \in Of(n) : Twin(r, q) /\ q.id # c.id /\ (r = q \/ r.state = "destroying")
  <2>1. r \in rows' /\ r.name = n
    BY <1>6 DEF Of
  <2>2. CASE one
    BY <1>2, <2>1, <2>2 DEF Of, Twin
  <2>3. CASE ~one
    <3>1. r \in Mark({t.id}, "destroying") /\ r.id # c.id
      BY <1>2, <2>1, <2>3
    <3>2. PICK q \in rows : r = IF q.id \in {t.id} THEN [q EXCEPT !.state = "destroying"] ELSE q
      BY <3>1 DEF Mark
    <3>3. LET u == [q EXCEPT !.state = "destroying"] IN Twin(u, q) /\ u.state = "destroying"
      BY Given DEF Rows, RowOf, Row, Twin
    <3>4. Twin(r, q) /\ (r = q \/ r.state = "destroying")
      BY <3>2, <3>3 DEF Twin
    <3>5. QED
      BY <2>1, <3>1, <3>4 DEF Of, Twin
  <2>4. QED
    BY <2>2, <2>3
<1>7. ASSUME NEW q \in Of(n), q.id # c.id
      PROVE  \E r \in Of(n)' : Twin(r, q) /\ (~one /\ q.id = t.id => r.state = "destroying")
  <2>1. q \in rows /\ q.name = n
    BY <1>7 DEF Of
  <2>2. CASE one
    BY <1>2, <1>7, <2>1, <2>2 DEF Of, Twin
  <2>3. CASE ~one
    <3> DEFINE u == [q EXCEPT !.state = "destroying"]
               r == IF q.id \in {t.id} THEN u ELSE q
    <3>1. Twin(u, q) /\ u.state = "destroying"
      BY <2>1, Given DEF Rows, RowOf, Row, Twin
    <3>2. Twin(r, q) /\ (q.id = t.id => r.state = "destroying")
      BY <3>1 DEF Twin
    <3>3. r \in Mark({t.id}, "destroying")
      BY <2>1 DEF Mark
    <3> HIDE DEF r
    <3>4. r \in rows' /\ r.name = n
      BY <1>2, <1>7, <2>1, <2>3, <3>2, <3>3 DEF Twin
    <3>5. QED
      BY <3>2, <3>4 DEF Of
  <2>4. QED
    BY <2>2, <2>3
<1>8. Owned(n)'
  BY <1>6 DEF Clean, Owned, Twin
<1>9. Bare(n)'
  BY <1>0 DEF Bare
<1>10. Usable(n)'
  <2>1. ASSUME NEW r \in Of(n)', r.state \in InUse PROVE Right(r)'
    <3>1. PICK q \in Of(n) : q.id # c.id /\ r = q
      BY <1>6, <2>1 DEF InUse
    <3>2. q.kind # c.res /\ Right(q) /\ q.kind \in Kinds
      BY <1>0, <2>1, <3>1, RowFacts
    <3>3. box'[n][q.kind] = box[n][q.kind]
      BY <3>2
    <3>4. q.kind = "db" => data'[n] = data[n]
      BY <3>2
    <3>5. QED
      BY <3>1, <3>2, <3>3, <3>4, RightStays
  <2>2. QED
    BY <2>1 DEF Usable, InUse
<1>11. b => LeftOver(n)'
  <2>1. ASSUME b PROVE LeftOver(n)'
    <3>1. ~one /\ c.kind \in Clearers
      BY <1>2, <2>1 DEF Takers, Clearers
    <3>2. o \in Busy(n)' /\ op'[o].kind \in Clearers /\ op'[o].bad
      BY <1>3, <1>4, <2>1, <3>1 DEF Busy
    <3>3. QED
      BY <3>2 DEF LeftOver
  <2>2. QED
    BY <2>1
<1>12. Boxed(n)'
  <2>1. ASSUME NEW k \in Kinds, box'[n][k] # Gone, ~b
        PROVE  \E r \in Of(n)' : r.kind = k /\ r.id = box'[n][k].whose /\ r.port = box'[n][k].port
    <3>1. k # c.res /\ box'[n][k] = box[n][k] /\ ~LeftOver(n)
      BY <1>0, <2>1
    <3>2. PICK q \in Of(n) : q.kind = k /\ q.id = box[n][k].whose /\ q.port = box[n][k].port
      BY <2>1, <3>1 DEF Clean, Boxed
    <3>3. PICK r \in Of(n)' : Twin(r, q)
      BY <1>5, <1>7, <3>1, <3>2
    <3>4. QED
      BY <3>1, <3>2, <3>3 DEF Twin
  <2>2. QED
    BY <1>11, <2>1 DEF Boxed
<1>13. CASE one
  <2>1. d = Idle
    BY <1>4, <1>13
  <2>2. QED
    BY <1>0, <1>4, <1>8, <1>9, <1>10, <1>12, <2>1, AloneStep
<1>14. CASE ~one
  <2>0. /\ d = t /\ c.kind \in Clearers /\ d.kind \in Removers
        /\ d.kind \notin {"undo", "discard", "create", "wake", "eject", "rm"} /\ d.kind \notin Copiers
    BY <1>3, <1>4, <1>14 DEF Takers, Clearers, Copiers, Removers
  <2>1. Clears(c)
    BY <1>0 DEF Withdraws
  <2>2. /\ \A r \in Of(n) : Listed(c, r)
        /\ \A x \in T : x[1] # c.id /\ \E r \in Of(n) : r.id = x[1]
    BY <2>0, <2>1 DEF Clears
  <2>3. T \in SUBSET ((1..made) \X Kinds)
    BY OpRange
  <2>4. \A q \in Of(n), k \in Kinds : <<q.id, k>> \in T => q.kind = k
    BY DEF SoundInv, Naming, Named, Of
  <2> HIDE DEF T, c
  <2>5. HasProject(op[o])'
    BY <1>0, <1>3, <2>0 DEF HasProject, c
  <2>6. Bystands(op[o])'
    BY <2>0, <2>5 DEF Bystands, KeepsRow, HasBooted, Copies, Ejects, Holds, Copiers
  <2>7. Removes(op[o])'
    <3>1. CASE T = {}
      BY <1>3, <2>0, <3>1 DEF Takes, Removes
    <3>2. CASE T # {}
      <4>1. t.at = "stop" /\ <<t.id, t.res>> \in T
        BY <1>3, <3>2 DEF Takes
      <4>2. t.res \in Kinds /\ t.id # c.id /\ \E q \in Of(n) : q.id = t.id
        BY <2>2, <2>3, <4>1
      <4>3. PICK q \in Of(n) : q.id = t.id
        BY <4>2
      <4>4. q.kind = t.res /\ q.id # c.id
        BY <2>4, <4>1, <4>2, <4>3
      <4>5. PICK r \in Of(n)' : Twin(r, q) /\ r.state = "destroying"
        BY <1>7, <1>14, <4>3, <4>4 DEF c
      <4>6. HasRow(op[o], "destroying")'
        BY <1>3, <2>0, <4>3, <4>4, <4>5 DEF HasRow, Twin
      <4>7. QED
        BY <2>0, <4>1, <4>6 DEF Removes
    <3>3. QED
      BY <3>1, <3>2
  <2>8. \A r \in Of(n)' : Listed(t, r)
    <3>1. ASSUME NEW r \in Of(n)' PROVE Listed(t, r)
      <4>1. PICK q \in Of(n) : Twin(r, q) /\ q.id # c.id
        BY <1>6 DEF c
      <4>2. PICK k \in Kinds : <<q.id, k>> \in T
        BY <2>2, <4>1 DEF Listed, T
      <4>3. t.todo = T \ {<<t.id, t.res>>}
        BY <1>3, <4>2 DEF Takes
      <4>4. CASE <<q.id, k>> = <<t.id, t.res>>
        BY <4>1, <4>4 DEF Twin, Listed
      <4>5. CASE <<q.id, k>> # <<t.id, t.res>>
        BY <4>1, <4>2, <4>3, <4>5 DEF Twin, Listed
      <4>6. QED
        BY <4>4, <4>5
    <3>2. QED
      BY <3>1
  <2>9. ASSUME NEW x \in t.todo PROVE x[1] # t.id /\ \E r \in Of(n)' : r.id = x[1]
    <3>1. <<t.id, t.res>> \in T /\ x \in T /\ x # <<t.id, t.res>>
      BY <1>3, <2>9 DEF Takes
    <3>2. PICK i \in 1..made, k \in Kinds : x = <<i, k>>
      BY <2>3, <3>1
    <3>3. PICK q \in Of(n) : q.id = i
      BY <2>2, <3>1, <3>2
    <3>4. q.id # c.id
      BY <2>2, <3>1, <3>2, <3>3
    <3>5. q.kind = k
      BY <2>4, <3>1, <3>2, <3>3
    <3>6. t.res \in Kinds
      BY <2>3, <3>1
    <3>7. i # t.id
      <4>1. i = t.id => q.kind = t.res
        BY <2>4, <3>1, <3>3, <3>6
      <4>2. QED
        BY <3>1, <3>2, <3>5, <4>1
    <3>8. PICK r \in Of(n)' : Twin(r, q)
      BY <1>7, <3>4 DEF c
    <3>9. QED
      BY <3>2, <3>3, <3>7, <3>8 DEF Twin
  <2>10. t.at \in {"network", "directory"} => Of(n)' = {} /\ t.at # "directory"
    <3>1. T # {} => t.at = "stop"
      BY <1>3 DEF Takes
    <3>2. T = {} => t.at = "network" /\ t.todo = {} /\ t.id = None
      BY <1>3 DEF Takes
    <3>3. ASSUME T = {}, NEW r \in Of(n)' PROVE FALSE
      <4>1. PICK q \in Of(n) : q.id # c.id
        BY <1>6 DEF c
      <4>2. QED
        BY <2>2, <3>3, <4>1 DEF Listed, T
    <3>4. QED
      BY <3>1, <3>2, <3>3
  <2>11. Clears(op[o])'
    BY <1>3, <2>0, <2>8, <2>9, <2>10 DEF Clears
  <2>12. Undoes(op[o])' /\ Discards(op[o])'
    BY <2>0 DEF Undoes, Discards
  <2>13. Relies(op[o])'
    BY <2>6, <2>7, <2>11, <2>12 DEF Relies, Withdraws
  <2>14. QED
    BY <1>0, <1>4, <1>8, <1>9, <1>10, <1>12, <2>13, AloneStep
<1>15. QED
  BY <1>13, <1>14

LEMMA CleanStopBox ==
    ASSUME Base, SoundInv, NEW o \in Slots, NEW n \in Names, op[o].name = n, Clean(n),
           n \notin spoiled', op[o].kind \in Takers, StopBox(o)
    PROVE  Clean(n)'
<1>0. op[o].at = "stop" /\ UNCHANGED <<project, data>>
  BY DEF StopBox, Has
<1>1. CASE Down(n, op[o].res) /\ Hit(o, "remove", FALSE) /\ UNCHANGED rows
  <2>1. /\ BoxesKept(n)
        /\ \A j \in Kinds : /\ j # op[o].res => box'[n][j] = box[n][j]
                            /\ box[n][j] = Gone => box'[n][j] = Gone
    BY <1>1, DownKeeps
  <2>2. \A k \in Kinds : box'[n][k] # Gone =>
               /\ box[n][k] # Gone
               /\ box'[n][k].whose = box[n][k].whose /\ box'[n][k].port = box[n][k].port
    BY <2>1 DEF BoxesKept
  <2>3. QED
    BY <1>0, <1>1, <2>1, <2>2, CleanHit
<1>2. CASE UNCHANGED box /\ Hit(o, "remove", TRUE) /\ UNCHANGED rows
  BY <1>0, <1>2, CleanHit
<1>3. CASE UNCHANGED box /\ RowGoes(o, TRUE)
  BY <1>0, <1>3, CleanRowGoes
<1>4. QED
  BY <1>1, <1>2, <1>3 DEF StopBox

LEMMA CleanRemoveBox ==
    ASSUME Base, SoundInv, NEW o \in Slots, NEW n \in Names, op[o].name = n, Clean(n),
           n \notin spoiled', RemoveBox(o)
    PROVE  Clean(n)'
<1> DEFINE k == op[o].res
<1>0. op[o].kind \in Takers /\ op[o].at = "remove" /\ UNCHANGED <<project, data>> /\ op[o].bad \in BOOLEAN
  BY Given, OpFields DEF RemoveBox, Has, Takers
<1>1. PICK fails \in BOOLEAN :
        /\ (~fails /\ SetBox(n, k, Gone)) \/ (fails /\ UNCHANGED box)
        /\ \/ RowGoes(o, op[o].bad \/ fails)
           \/ Hit(o, "wipe", fails) /\ UNCHANGED rows
  BY DEF RemoveBox
<1>2. SetBox(n, k, Gone) => \A j \in Kinds : box'[n][j] = IF j = k THEN Gone ELSE box[n][j]
  BY SetBoxIs
<1>3. k \in Kinds
  <2>1. \E v \in Of(n) : v.kind = k
    BY <1>0, TakerHas
  <2>2. QED
    BY <2>1, RowFacts
<1>4. /\ \A j \in Kinds \ {k} : box'[n][j] = box[n][j]
      /\ \A j \in Kinds : box'[n][j] # Gone =>
               /\ box[n][j] # Gone
               /\ box'[n][j].whose = box[n][j].whose /\ box'[n][j].port = box[n][j].port
      /\ fails \/ box'[n][k] = Gone
  <2>1. CASE SetBox(n, k, Gone)
    <3>1. \A j \in Kinds : box'[n][j] = IF j = k THEN Gone ELSE box[n][j]
      BY <1>2, <2>1
    <3>2. \A j \in Kinds : box'[n][j] # Gone => box'[n][j] = box[n][j]
      BY <3>1
    <3>3. QED
      BY <1>3, <3>1, <3>2
  <2>2. CASE fails /\ UNCHANGED box
    BY <2>2
  <2>3. QED
    BY <1>1, <2>1, <2>2
<1>5. CASE RowGoes(o, op[o].bad \/ fails)
  <2> DEFINE b == op[o].bad \/ fails
  <2>1. b \in BOOLEAN /\ RowGoes(o, b) /\ (op[o].bad => b) /\ (b \/ box'[n][k] = Gone)
    BY <1>4, <1>5
  <2> HIDE DEF b
  <2>2. QED
    BY <1>0, <1>4, <2>1, CleanRowGoes
<1>6. CASE Hit(o, "wipe", fails) /\ UNCHANGED rows
  BY <1>0, <1>4, <1>6, CleanHit
<1>7. QED
  BY <1>1, <1>5, <1>6

LEMMA CleanWipe ==
    ASSUME Base, SoundInv, NEW o \in Slots, NEW n \in Names, op[o].name = n, Clean(n),
           n \notin spoiled', Wipe(o)
    PROVE  Clean(n)'
<1>0. /\ op[o].kind \in Takers /\ op[o].at = "wipe" /\ UNCHANGED <<project, box>>
      /\ op[o].bad \in BOOLEAN
  BY Given, OpFields DEF Wipe, Has, Takers
<1>1. op[o].res = "db" \/ data'[n] = data[n]
  BY DEF Wipe
<1>2. op[o].bad \/ box'[n][op[o].res] = Gone
  <2>1. Withdraws(op[o])
    BY <1>0, TakerHas
  <2>2. QED
    BY <1>0, <2>1 DEF Withdraws, Removes
<1>3. PICK b \in BOOLEAN : RowGoes(o, b) /\ (op[o].bad => b)
  BY <1>0 DEF Wipe
<1>4. b \/ box'[n][op[o].res] = Gone
  BY <1>2, <1>3
<1>5. QED
  BY <1>0, <1>1, <1>3, <1>4, CleanRowGoes

LEMMA CleanRemoveNetwork ==
    ASSUME Base, SoundInv, NEW o \in Slots, NEW n \in Names, op[o].name = n, Clean(n),
           n \notin spoiled', RemoveNetwork(o)
    PROVE  Clean(n)'
<1> DEFINE c == op[o]
           d == op'[o]
<1>0. c.kind \in Clearers /\ c.at = "network" /\ UNCHANGED <<box, dir, data>> /\ c.kind \in Removers
  BY DEF RemoveNetwork, Has, Clearers, Removers
<1>1. Busy(n) = {o} /\ Bystands(c) /\ Withdraws(c)
  BY <1>0, Alone
<1>2. c.project = project[n] /\ project[n] # None
  BY <1>0, <1>1 DEF Bystands, HasProject
<1>3. Of(n) = {} /\ c.todo = {}
  <2>1. Of(n) = {}
    BY <1>0, <1>1 DEF Withdraws, Clears
  <2>2. \A x \in c.todo : FALSE
    BY <1>0, <1>1, <2>1 DEF Withdraws, Clears
  <2>3. QED
    BY <2>1, <2>2
<1>4. PICK fails \in BOOLEAN :
        /\ (~fails /\ net' = net \ {n}) \/ fails
        /\ c.kind = "rmProject" /\ Hit(o, "directory", fails) /\ UNCHANGED store
  BY DEF RemoveNetwork, Spoil
<1>5. /\ \A s \in Slots \ {o} : op'[s] = op[s]
      /\ d.at = "directory" /\ d.kind = "rmProject" /\ d.id = c.id /\ d.name = n /\ d.res = c.res
      /\ d.todo = {} /\ d.project = c.project
      /\ (c.bad => d.bad) /\ (~d.bad => n \notin net')
  <2>1. c \in Op /\ Ops
    BY Given
  <2>2. op'[o].bad = (op[o].bad \/ fails) /\ \A s \in Slots \ {o} : op'[s] = op[s]
    BY <1>4, <2>1 DEF Hit, Ops, Op
  <2>3. /\ d.at = "directory" /\ d.kind = c.kind /\ d.id = c.id /\ d.name = n /\ d.res = c.res
        /\ d.todo = c.todo /\ d.project = c.project
    BY <1>4, <2>1 DEF Hit, Ops, Op
  <2>4. QED
    BY <1>3, <1>4, <2>2, <2>3
<1>6. Of(n)' = {} /\ project'[n] = project[n]
  BY <1>3, <1>4 DEF store, Of
<1>7. Relies(op[o])'
  <2>1. HasProject(op[o])'
    BY <1>2, <1>5, <1>6 DEF HasProject
  <2>2. Bystands(op[o])'
    BY <1>5, <2>1 DEF Bystands, KeepsRow, HasBooted, Copies, Ejects, Holds, Copiers
  <2>3. Removes(op[o])' /\ Undoes(op[o])' /\ Discards(op[o])'
    BY <1>5 DEF Removes, Undoes, Discards
  <2>4. Clears(op[o])'
    BY <1>5, <1>6 DEF Clears
  <2>5. QED
    BY <2>2, <2>3, <2>4 DEF Relies, Withdraws
<1>8. Owned(n)' /\ Usable(n)' /\ Bare(n)'
  BY <1>2, <1>6 DEF Owned, Usable, Bare
<1>9. Boxed(n)'
  <2>1. LeftOver(n) => LeftOver(n)'
    <3>1. o \in Busy(n)' /\ op'[o].kind \in Clearers
      BY <1>5 DEF Busy, Clearers
    <3>2. QED
      BY <1>1, <1>5, <3>1 DEF LeftOver
  <2>2. \A k \in Kinds : box[n][k] # Gone => LeftOver(n)
    BY <1>3 DEF Clean, Boxed
  <2>3. QED
    BY <1>0, <2>1, <2>2 DEF Boxed
<1>10. QED
  BY <1>1, <1>5, <1>7, <1>8, <1>9, AloneStep

\* The project goes, and with it whatever it still had.
LEMMA DeletedProject ==
    ASSUME Base, NEW n \in Names, Owned(n), DeleteProject(n, project[n])
    PROVE  project'[n] = None /\ Of(n)' = {}
<1>1. project \in [Names -> 0..made]
  BY Given DEF Count
<1>2. project'[n] = None
  BY <1>1 DEF DeleteProject
<1>3. rows' = {r \in rows : r.project # project[n]}
  BY DEF DeleteProject, RowsOf
<1>4. QED
  BY <1>2, <1>3 DEF Owned, Of

LEMMA CleanRemoveDirectory ==
    ASSUME Base, SoundInv, NEW o \in Slots, NEW n \in Names, op[o].name = n, Clean(n),
           n \notin spoiled', RemoveDirectory(o)
    PROVE  Clean(n)'
<1> DEFINE c == op[o]
<1>0. /\ c.kind = "rmProject" /\ c.at = "directory" /\ UNCHANGED <<box, net>> /\ Done(o)
      /\ c.kind \in Clearers /\ c.kind \in Removers /\ DeleteProject(n, c.project)
  BY DEF RemoveDirectory, Has, Clearers, Removers
<1>1. Busy(n) = {o} /\ Bystands(c) /\ Withdraws(c)
  BY <1>0, Alone
<1>2. c.project = project[n] /\ project[n] # None /\ Of(n) = {} /\ (~c.bad => n \notin net)
  BY <1>0, <1>1 DEF Bystands, HasProject, Withdraws, Clears
<1>3. ~c.bad /\ dir' = [dir EXCEPT ![n] = {}] /\ data' = [data EXCEPT ![n] = None]
  BY DEF RemoveDirectory, Spoil
<1>4. dir'[n] = {} /\ data'[n] = None
  BY <1>3, Given DEF Disk
<1>5. project'[n] = None /\ Of(n)' = {}
  BY <1>0, <1>2, DeletedProject DEF Clean
<1>6. Owned(n)' /\ Usable(n)' /\ Bare(n)'
  BY <1>0, <1>2, <1>3, <1>4, <1>5 DEF Owned, Usable, Bare
<1>7. Boxed(n)'
  <2>1. ~LeftOver(n)
    BY <1>1, <1>3 DEF LeftOver
  <2>2. \A k \in Kinds : box[n][k] = Gone
    BY <1>2, <2>1 DEF Clean, Boxed
  <2>3. QED
    BY <1>0, <2>2 DEF Boxed
<1>8. QED
  BY <1>0, <1>1, <1>6, <1>7, DoneAlone, AloneStep

-----------------------------------------------------------------------------
(* A branch that is discarded.                                             *)

LEMMA DiscardHas ==
    ASSUME Base, SoundInv, NEW o \in Slots, NEW n \in Names, Clean(n), op[o].name = n,
           op[o].kind = "discard"
    PROVE  /\ Busy(n) = {o} /\ ~LeftOver(n) /\ op[o].kind \in Removers
           /\ \A r \in Of(n) : r.kind = "db" /\ r.state = "failed"
           /\ op[o].at # "remove" => \A k \in Kinds : box[n][k] = Gone
           /\ op[o].at = "directory" => n \notin net /\ project[n] = None
           /\ op[o].at # "directory" => op[o].project = project[n] /\ project[n] # None
<1>1. op[o].kind \in Removers
  BY DEF Removers
<1>2. Busy(n) = {o} /\ Bystands(op[o]) /\ Withdraws(op[o])
  BY <1>1, Alone
<1>3. ~LeftOver(n)
  BY <1>2 DEF LeftOver, Clearers
<1>4. op[o].at # "directory" => op[o].project = project[n] /\ project[n] # None
  BY <1>2 DEF Bystands, HasProject
<1>5. Discards(op[o])
  BY <1>2 DEF Withdraws
<1>6. QED
  BY <1>1, <1>2, <1>3, <1>4, <1>5 DEF Discards

\* The next step of a discarded branch.
LEMMA DiscardRelies ==
    ASSUME NEW o \in Slots, NEW n \in Names, op'[o].kind = "discard", op'[o].name = n,
           op'[o].at # "remove",
           op'[o].at # "directory" => op'[o].project = project'[n] /\ project'[n] # None,
           op'[o].at = "directory" => n \notin net' /\ project'[n] = None,
           \A r \in Of(n)' : r.kind = "db" /\ r.state = "failed",
           \A k \in Kinds : box'[n][k] = Gone
    PROVE  Relies(op[o])'
<1>1. HasProject(op[o])'
  BY DEF HasProject, Holds, Clearers
<1>2. Bystands(op[o])'
  BY <1>1 DEF Bystands, KeepsRow, HasBooted, Copies, Ejects, Holds, Copiers
<1>3. Removes(op[o])' /\ Undoes(op[o])' /\ Clears(op[o])'
  BY DEF Removes, Undoes, Clears, Takers, Clearers
<1>4. Discards(op[o])'
  BY DEF Discards
<1>5. QED
  BY <1>2, <1>3, <1>4 DEF Relies, Withdraws

LEMMA CleanDiscardBox ==
    ASSUME Base, SoundInv, NEW o \in Slots, NEW n \in Names, op[o].name = n, Clean(n),
           n \notin spoiled', DiscardBox(o)
    PROVE  Clean(n)'
<1> DEFINE c == op[o]
           d == op'[o]
           R == {r \in RowsOf(c.project) : r.kind = "db"}
<1>0. c.kind = "discard" /\ c.at = "remove" /\ UNCHANGED <<rows, project, net, dir, data>> /\ Go(o, "network")
  BY DEF DiscardBox, Has, store
<1>1. /\ Busy(n) = {o} /\ ~LeftOver(n) /\ c.kind \in Removers
      /\ \A r \in Of(n) : r.kind = "db" /\ r.state = "failed"
      /\ c.project = project[n] /\ project[n] # None
  BY <1>0, DiscardHas
<1>2. /\ \A s \in Slots \ {o} : op'[s] = op[s]
      /\ d.at = "network" /\ d.kind = c.kind /\ d.name = n /\ d.project = c.project
  BY <1>0, GoesOn DEF Ats
<1>3. SetBox(n, "db", Gone) \/ (R = {} /\ UNCHANGED box)
  BY DEF DiscardBox, Spoil
<1>4. \A k \in Kinds : box[n][k] # Gone => k = "db" /\ R # {}
  <2>1. ASSUME NEW k \in Kinds, box[n][k] # Gone PROVE k = "db" /\ R # {}
    <3>1. PICK r \in Of(n) : r.kind = k
      BY <1>1, <2>1 DEF Clean, Boxed
    <3>2. r \in R
      BY <1>1 DEF Clean, Owned, Of, RowsOf
    <3>3. QED
      BY <1>1, <3>1, <3>2
  <2>2. QED
    BY <2>1
<1>5. \A k \in Kinds : box'[n][k] = Gone
  <2>1. CASE SetBox(n, "db", Gone)
    <3>1. \A j \in Kinds : box'[n][j] = IF j = "db" THEN Gone ELSE box[n][j]
      BY <2>1, SetBoxIs
    <3>2. QED
      BY <1>4, <3>1
  <2>2. CASE R = {} /\ UNCHANGED box
    BY <1>4, <2>2
  <2>3. QED
    BY <1>3, <2>1, <2>2
<1>6. Of(n)' = Of(n) /\ project'[n] = project[n]
  BY <1>0, SameRows
<1>7. Relies(op[o])'
  BY <1>0, <1>1, <1>2, <1>5, <1>6, DiscardRelies
<1>8. Owned(n)' /\ Usable(n)' /\ Bare(n)' /\ Boxed(n)'
  BY <1>1, <1>5, <1>6 DEF Clean, Owned, Usable, Bare, Boxed
<1>9. QED
  BY <1>1, <1>2, <1>7, <1>8, AloneStep

LEMMA CleanDiscardNetwork ==
    ASSUME Base, SoundInv, NEW o \in Slots, NEW n \in Names, op[o].name = n, Clean(n),
           n \notin spoiled', DiscardNetwork(o)
    PROVE  Clean(n)'
<1> DEFINE c == op[o]
           d == op'[o]
<1>0. /\ c.kind = "discard" /\ c.at = "network" /\ UNCHANGED <<box, dir, data>> /\ Go(o, "directory")
      /\ DeleteProject(n, c.project)
  BY DEF DiscardNetwork, Has
<1>1. /\ Busy(n) = {o} /\ c.project = project[n] /\ \A k \in Kinds : box[n][k] = Gone
  BY <1>0, DiscardHas
<1>2. /\ \A s \in Slots \ {o} : op'[s] = op[s]
      /\ d.at = "directory" /\ d.kind = c.kind /\ d.name = n
  BY <1>0, GoesOn DEF Ats
<1>3. net' = net \ {n}
  BY DEF DiscardNetwork, Spoil
<1>4. project'[n] = None /\ Of(n)' = {}
  BY <1>0, <1>1, DeletedProject DEF Clean
<1>5. Relies(op[o])'
  BY <1>0, <1>1, <1>2, <1>3, <1>4, DiscardRelies
<1>6. Owned(n)' /\ Usable(n)' /\ Boxed(n)'
  BY <1>0, <1>1, <1>4 DEF Owned, Usable, Boxed
<1>7. Bare(n)'
  <2>1. o \in Busy(n)' /\ op'[o].kind = "discard"
    BY <1>0, <1>2 DEF Busy
  <2>2. QED
    BY <1>3, <2>1 DEF Bare
<1>8. QED
  BY <1>1, <1>2, <1>5, <1>6, <1>7, AloneStep

LEMMA CleanDiscardDirectory ==
    ASSUME Base, SoundInv, NEW o \in Slots, NEW n \in Names, op[o].name = n, Clean(n),
           n \notin spoiled', DiscardDirectory(o)
    PROVE  Clean(n)'
<1> DEFINE c == op[o]
<1>0. c.kind = "discard" /\ c.at = "directory" /\ UNCHANGED <<rows, project, box, net>> /\ Done(o)
  BY DEF DiscardDirectory, Has, store
<1>1. /\ Busy(n) = {o} /\ n \notin net /\ project[n] = None /\ \A k \in Kinds : box[n][k] = Gone
  BY <1>0, DiscardHas
<1>2. dir' = [dir EXCEPT ![n] = {}] /\ data' = [data EXCEPT ![n] = None]
  BY DEF DiscardDirectory, Spoil
<1>3. dir'[n] = {} /\ data'[n] = None
  BY <1>2, Given DEF Disk
<1>4. Of(n)' = {}
  BY <1>0, <1>1, NoRows, SameRows DEF Clean
<1>5. Owned(n)' /\ Usable(n)' /\ Boxed(n)' /\ Bare(n)'
  BY <1>0, <1>1, <1>3, <1>4 DEF Owned, Usable, Boxed, Bare
<1>6. QED
  BY <1>0, <1>1, <1>5, DoneAlone, AloneStep

-----------------------------------------------------------------------------
(* The daemon dies; every step; the theorem.                               *)

\* Reconcile says of a row only what its container, its port and its data bear out.
LEMMA RelabelIsRight ==
    ASSUME Base, SoundInv, NEW n \in Names, Clean(n), ~LeftOver(n), NEW q \in Of(n),
           Relabel(q).state \in InUse
    PROVE  Right(q)
<1> DEFINE b == box[q.name][q.kind]
<1>1. q.name = n /\ q.kind \in Kinds /\ q \in rows
  BY RowFacts
<1>2. CASE q.state \in InUse
  BY <1>2 DEF Clean, Usable, InUse
<1>3. CASE q.state \notin InUse
  <2>1. ~(project[q.name] = q.project /\ q.name \in released)
    BY <1>3 DEF Relabel
  <2>2. Relabel(q) = [q EXCEPT !.state =
            CASE b = Gone            -> "failed"
              [] b.up /\ Answers(q)  -> "running"
              [] b.up /\ ~Answers(q) -> "starting"
              [] OTHER -> IF q.state \in {"sleeping", "stopping"} THEN "sleeping" ELSE "failed"]
    BY <2>1 DEF Relabel
  <2>3. \A s : [q EXCEPT !.state = s].state = s
    BY <1>1, Given DEF Rows, RowOf, Row
  <2>4. b # Gone /\ b.up /\ Answers(q)
    <3> DEFINE st == Relabel(q).state
    <3>1. q.state \notin {"sleeping", "stopping"}
      BY <1>3 DEF InUse
    <3>2. b = Gone => st = "failed"
      <4>1. Gone.up = FALSE
        BY DEF Gone
      <4>2. ASSUME b = Gone PROVE ~b.up
        BY <4>1, <4>2
      <4>3. QED
        BY <2>2, <2>3, <4>2
    <3>3. b # Gone /\ ~b.up => st = "failed"
      BY <2>2, <2>3, <3>1
    <3>4. b # Gone /\ b.up /\ ~Answers(q) => st = "starting"
      BY <2>2, <2>3
    <3>5. st # "failed" /\ st # "starting"
      BY DEF InUse
    <3> HIDE DEF st
    <3>6. QED
      BY <3>2, <3>3, <3>4, <3>5
  <2>5. PICK v \in Of(n) : v.kind = q.kind /\ v.id = b.whose /\ v.port = b.port
    BY <1>1, <2>4 DEF Clean, Boxed
  <2>6. v = q
    BY <2>5, OneRowOfAKind DEF Clean
  <2>7. QED
    BY <1>1, <2>4, <2>5, <2>6 DEF Right, Answers
<1>4. QED
  BY <1>2, <1>3

LEMMA CleanDies ==
    ASSUME Base, SoundInv, NEW n \in Names, Clean(n), n \notin spoiled', DaemonDies
    PROVE  Clean(n)'
<1> DEFINE doomed == {r \in rows : r.state = "destroying"}
           Doomed(m, k) == \E r \in doomed : r.name = m /\ r.kind = k
<1>0. /\ op' = [o \in Slots |-> Idle]
      /\ rows' = {Relabel(r) : r \in rows \ doomed}
      /\ box' = [m \in Names |-> [k \in Kinds |-> IF Doomed(m, k) THEN Gone ELSE box[m][k]]]
      /\ data' = [m \in Names |-> IF Doomed(m, "db") THEN None ELSE data[m]]
      /\ spoiled' = spoiled \cup {op[o].name : o \in {s \in Slots :
                     op[s].bad \/ op[s].kind \in {"restore", "discard"}}}
      /\ UNCHANGED <<project, net, dir>>
  BY DEF DaemonDies
<1>1. \A s \in Busy(n) : ~op[s].bad /\ op[s].kind # "discard"
  BY <1>0 DEF Busy
<1>2. ~LeftOver(n)
  BY <1>1 DEF LeftOver
<1>3. Busy(n)' = {}
  BY <1>0, IdleIsOp, ProjectsAssumption DEF Busy
<1>4. /\ \A k \in Kinds : box'[n][k] = IF Doomed(n, k) THEN Gone ELSE box[n][k]
      /\ data'[n] = IF Doomed(n, "db") THEN None ELSE data[n]
      /\ project'[n] = project[n]
  BY <1>0
<1>5. \A q \in Of(n) : q \notin doomed => ~Doomed(n, q.kind)
  <2>1. ASSUME NEW q \in Of(n), q \notin doomed, NEW r \in doomed, r.name = n, r.kind = q.kind PROVE FALSE
    <3>1. r \in Of(n)
      BY <2>1 DEF Of
    <3>2. r = q
      BY <2>1, <3>1, OneRowOfAKind DEF Clean
    <3>3. QED
      BY <2>1, <3>2
  <2>2. QED
    BY <2>1
<1>6. \A r \in Of(n)' : \E q \in Of(n) : q \notin doomed /\ r = Relabel(q) /\ Twin(r, q)
  BY <1>0, RelabelKeeps DEF Of, Twin
<1>7. \A q \in Of(n) : q \notin doomed => \E r \in Of(n)' : Twin(r, q)
  BY <1>0, RelabelKeeps DEF Of, Twin
<1>8. Owned(n)'
  BY <1>4, <1>6 DEF Clean, Owned, Twin
<1>9. Boxed(n)'
  <2>1. ASSUME NEW k \in Kinds, box'[n][k] # Gone
        PROVE  \E r \in Of(n)' : r.kind = k /\ r.id = box'[n][k].whose /\ r.port = box'[n][k].port
    <3>1. ~Doomed(n, k) /\ box'[n][k] = box[n][k]
      BY <1>4, <2>1
    <3>2. PICK q \in Of(n) : q.kind = k /\ q.id = box[n][k].whose /\ q.port = box[n][k].port
      BY <1>2, <2>1, <3>1 DEF Clean, Boxed
    <3>3. q \notin doomed
      BY <3>1, <3>2 DEF Of
    <3>4. PICK r \in Of(n)' : Twin(r, q)
      BY <1>7, <3>3
    <3>5. QED
      BY <3>1, <3>2, <3>4 DEF Twin
  <2>2. QED
    BY <2>1 DEF Boxed
<1>10. Usable(n)'
  <2>1. ASSUME NEW r \in Of(n)', r.state \in InUse PROVE Right(r)'
    <3>1. PICK q \in Of(n) : q \notin doomed /\ r = Relabel(q) /\ Twin(r, q)
      BY <1>6
    <3>2. Right(q)
      BY <1>2, <2>1, <3>1, RelabelIsRight
    <3>3. ~Doomed(n, q.kind) /\ q.kind \in Kinds /\ q.name = n
      BY <1>5, <3>1, RowFacts
    <3>4. box'[n][q.kind] = box[n][q.kind] /\ (q.kind = "db" => data'[n] = data[n])
      BY <1>4, <3>3
    <3>5. Right(q)'
      BY <3>2, <3>4, RightStays
    <3>6. QED
      BY <3>1, <3>5 DEF Right, Twin
  <2>2. QED
    BY <2>1 DEF Usable, InUse
<1>11. Bare(n)'
  <2>1. ASSUME project[n] = None
        PROVE  n \notin net' /\ dir'[n] = {} /\ data'[n] = None
    <3>1. n \notin net /\ dir[n] = {} /\ data[n] = None
      BY <1>1, <2>1 DEF Clean, Bare
    <3>2. QED
      BY <1>0, <1>4, <3>1
  <2>2. QED
    BY <1>4, <2>1 DEF Bare
<1>12. QED
  BY <1>3, <1>8, <1>9, <1>10, <1>11 DEF Clean, Company

\* A container that an undo or a discard would stop: the model has none, and it would do no harm.
LEMMA CleanStopsOther ==
    ASSUME Base, SoundInv, NEW o \in Slots, NEW n \in Names, op[o].name = n, Clean(n),
           n \notin spoiled', op[o].kind \in {"undo", "discard"}, StopBox(o)
    PROVE  Clean(n)'
<1> DEFINE c == op[o]
           d == op'[o]
<1>0. c.at = "stop" /\ c.kind \in Removers /\ c.kind \notin Takers /\ UNCHANGED <<project, net, dir, data>>
  BY DEF StopBox, Has, Removers, Takers
<1>1. Busy(n) = {o} /\ Bystands(c) /\ Withdraws(c)
  BY <1>0, Alone
<1>2. PICK b \in BOOLEAN : Hit(o, "remove", b) /\ UNCHANGED rows /\ (Down(n, c.res) \/ UNCHANGED box)
  BY DEF StopBox
<1>3. /\ \A s \in Slots \ {o} : op'[s] = op[s]
      /\ d.at = "remove" /\ d.kind = c.kind /\ d.id = c.id /\ d.name = n /\ d.res = c.res
      /\ d.project = c.project
  <2>1. c \in Op /\ Ops
    BY Given
  <2>2. QED
    BY <1>2, <2>1 DEF Hit, Ops, Op
<1>4. Of(n)' = Of(n) /\ project'[n] = project[n] /\ data'[n] = data[n]
  BY <1>0, <1>2, SameRows
<1>5. /\ \A j \in Kinds \ {c.res} : box'[n][j] = box[n][j]
      /\ \A j \in Kinds : box'[n][j] # Gone =>
               /\ box[n][j] # Gone
               /\ box'[n][j].whose = box[n][j].whose /\ box'[n][j].port = box[n][j].port
      /\ \A j \in Kinds : /\ box'[n][j].whose = box[n][j].whose
                          /\ box'[n][j].port = box[n][j].port
  <2>1. CASE UNCHANGED box
    BY <2>1
  <2>2. CASE Down(n, c.res)
    <3>1. /\ BoxesKept(n)
          /\ \A j \in Kinds : /\ j # op[o].res => box'[n][j] = box[n][j]
                              /\ box[n][j] = Gone => box'[n][j] = Gone
      BY <2>2, DownKeeps
    <3>2. QED
      BY <3>1 DEF BoxesKept
  <2>3. QED
    BY <1>2, <2>1, <2>2
<1>6. ~LeftOver(n)
  BY <1>0, <1>1 DEF LeftOver, Clearers, Takers
<1>7. Relies(op[o])'
  <2>1. HasProject(op[o])'
    BY <1>0, <1>1, <1>3, <1>4 DEF Bystands, HasProject, Holds, Clearers
  <2>2. Bystands(op[o])'
    BY <1>3, <2>1 DEF Bystands, KeepsRow, HasBooted, Copies, Ejects, Holds, Copiers
  <2>3. Removes(op[o])' /\ Clears(op[o])'
    BY <1>3 DEF Removes, Clears, Takers, Clearers
  <2>4. Undoes(op[o])'
    BY <1>1, <1>3, <1>4 DEF Withdraws, Undoes, HasRow
  <2>5. Discards(op[o])'
    BY <1>1, <1>3, <1>4 DEF Withdraws, Discards
  <2>6. QED
    BY <2>2, <2>3, <2>4, <2>5 DEF Relies, Withdraws
<1>8. Owned(n)'
  BY <1>4 DEF Clean, Owned
<1>9. Boxed(n)'
  BY <1>4, <1>5, <1>6 DEF Clean, Boxed
<1>10. Usable(n)'
  <2>1. ASSUME NEW r \in Of(n), r.state \in InUse PROVE Right(r)'
    <3>1. Right(r) /\ r.kind \in Kinds /\ r.name = n
      BY <2>1, RowFacts DEF Clean, Usable, InUse
    <3>2. QED
      BY <1>4, <1>5, <3>1 DEF Right
  <2>2. QED
    BY <1>4, <2>1 DEF Usable, InUse
<1>11. Bare(n)'
  <2>1. c.kind = "discard" => o \in Busy(n)' /\ op'[o].kind = "discard"
    BY <1>3 DEF Busy
  <2>2. QED
    BY <1>0, <1>1, <1>4, <2>1 DEF Clean, Bare
<1>12. QED
  BY <1>1, <1>3, <1>7, <1>8, <1>9, <1>10, <1>11, AloneStep

LEMMA CleanGoes ==
    ASSUME Base, SoundInv, NEW o \in Slots, NEW n \in Names, op[o].name = n, Clean(n),
           n \notin spoiled', Goes(o)
    PROVE  Clean(n)'
<1>1. StopBox(o) => op[o].kind \in Takers \/ op[o].kind \in {"undo", "discard"}
  BY DEF StopBox, Has, Removers, Takers
<1>2. QED
  BY <1>1, CleanBuild, CleanInserts, CleanNetwork, CleanContainer, CleanStarts, CleanReady,
     CleanRests, CleanUndo, CleanCloned, CleanStopBox, CleanStopsOther, CleanRemoveBox, CleanWipe,
     CleanRemoveNetwork, CleanRemoveDirectory, CleanDiscardBox, CleanDiscardNetwork,
     CleanDiscardDirectory, CleanEjectStops, CleanWakeMakes, CleanWakeStarts, CleanWakeEnds DEF Goes

\* Steps that touch no operation at all.
LEMMA ProjectElsewhere ==
    ASSUME Base, NEW n \in Names, NewProject(n), NEW m \in Names \ {n}
    PROVE  Same(m)
<1>1. OnlyWorld(n)
  BY Given DEF NewProject, world, OnlyWorld, Count
<1>2. OnlyRows(n) /\ OnlyOps(n)
  BY AlikeItself DEF NewProject, OnlyRows, OnlyOps
<1>3. QED
  BY <1>1, <1>2, Elsewhere

LEMMA NothingMoves ==
    ASSUME NEW n \in Names, UNCHANGED <<project, rows, world, op>>
    PROVE  Same(n)
BY AlikeItself DEF world, Same, Of, Busy

LEMMA StepClean ==
    ASSUME Base, SoundInv, CleanInv, [Next]_vars
    PROVE  CleanInv'
<1> SUFFICES ASSUME NEW n \in Names, n \notin spoiled' PROVE Clean(n)'
  BY DEF CleanInv
<1>1. n \notin spoiled
  BY SpoiledStays
<1>2. Clean(n)
  BY <1>1 DEF CleanInv
<1>3. Same(n) => Clean(n)'
  BY <1>2, CleanSame
<1>4. ASSUME NEW o \in Slots, Goes(o) PROVE Clean(n)'
  BY <1>2, <1>3, <1>4, CleanGoes, GoesElsewhere
<1>5. ASSUME NEW o \in Slots, Begins(o) PROVE Clean(n)'
  <2>1. PICK m \in Names : BeginsOn(o, m)
    BY <1>5, BeginsOnAName
  <2>2. QED
    BY <1>2, <1>3, <2>1, CleanBegins, BeginsElsewhere
<1>6. ASSUME NEW m \in Names, NewProject(m) PROVE Clean(n)'
  BY <1>2, <1>3, <1>6, CleanNewProject, ProjectElsewhere
<1>7. CASE DaemonDies
  BY <1>2, <1>7, CleanDies
<1>8. CASE UNCHANGED <<project, rows, world, op>>
  BY <1>3, <1>8, NothingMoves
<1>9. (\E m \in Names : Adopt(m)) \/ UNCHANGED vars => UNCHANGED <<project, rows, world, op>>
  BY DEF Adopt, vars, store
<1>10. QED
  BY <1>4, <1>5, <1>6, <1>7, <1>8, <1>9 DEF Next

LEMMA InitClean == Init => CleanInv
<1> SUFFICES ASSUME Init, NEW n \in Names PROVE Clean(n)
  BY DEF CleanInv
<1>1. Busy(n) = {} /\ Of(n) = {}
  BY IdleIsOp, ProjectsAssumption DEF Init, Busy, Of
<1>2. project[n] = None /\ net = {} /\ dir[n] = {} /\ data[n] = None /\ \A k \in Kinds : box[n][k] = Gone
  BY DEF Init
<1>3. QED
  BY <1>1, <1>2 DEF Clean, Company, Owned, Boxed, Usable, Bare

\* Once nothing is under way nobody is busy, and what Clean says of a name is all there is.
LEMMA QuietIsClean ==
    ASSUME Base, CleanInv, Quiet
    PROVE  NothingIsLost /\ RestingIsUsable
<1>1. ASSUME NEW n \in Names \ spoiled
      PROVE  /\ \A r \in Of(n) : r.project = project[n]
             /\ \A k \in Kinds : box[n][k] # Gone =>
                    \E r \in Of(n) : r.kind = k /\ r.id = box[n][k].whose
             /\ \A r \in Of(n) : r.state \in {"sleeping", "running"} => Right(r)
             /\ project[n] = None => n \notin net /\ dir[n] = {} /\ data[n] = None
  <2>1. Clean(n)
    BY DEF CleanInv
  <2>2. Busy(n) = {}
    BY IdleIsOp, ProjectsAssumption DEF Quiet, Busy
  <2>3. QED
    BY <2>1, <2>2 DEF Clean, Owned, Boxed, LeftOver, Usable, Bare
<1>2. NothingIsLost
  BY <1>1 DEF NothingIsLost, Of
<1>3. RestingIsUsable
  <2>1. ASSUME NEW r \in rows, r.name \notin spoiled, r.state \in {"sleeping", "running"}
        PROVE  Right(r)
    <3>1. r.name \in Names \ spoiled
      BY <2>1, Given DEF Rows, RowOf, Row
    <3>2. QED
      BY <1>1, <2>1, <3>1 DEF Of
  <2>2. QED
    BY <2>1 DEF RestingIsUsable, Right
<1>4. QED
  BY <1>2, <1>3

\* Whatever creates, branches, restores, wakes and removals have failed, been retried or been
\* cut off by a restart: once nothing is under way, everything on the box belongs to a row of
\* its project, a name that is free has left nothing behind, what can be used has its own
\* container, port and data, no row reads as under way, and no two rows share a port but for
\* those that were chosen at the same time.
THEOREM ResourcesAccountedFor == Spec => []ResourcesAreAccountedFor
<1>1. Base /\ SoundInv /\ CleanInv /\ [Next]_vars => CleanInv'
  BY StepClean
<1>2. Base /\ CleanInv => NothingIsLost /\ RestingIsUsable
  BY QuietIsClean DEF NothingIsLost, RestingIsUsable
<1>3. TypeOK /\ NothingIsLost /\ RestingIsUsable /\ NothingStaysBetween /\ PortsAreShared
         => ResourcesAreAccountedFor
  BY DEF ResourcesAreAccountedFor
<1>4. QED
  BY BaseHolds, NumbersAreSound, InitClean, ProjectsTypeCorrect, PortsNotGivenTwice,
     NothingIsStuckBetween, <1>1, <1>2, <1>3, PTL DEF Spec
=============================================================================
