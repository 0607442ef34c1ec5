-------------------------- MODULE ResourcesProofs --------------------------
(***************************************************************************)
(* Theorems about Bindings and Commands, as Resources has them: for any    *)
(* workers, queues and manifests, and any number of users and commands,    *)
(* however they overlap.                                                   *)
(***************************************************************************)
EXTENDS Resources, FiniteSetTheorems, TLAPS

(* The bindings of workers and queues (Bindings): the inductive invariant. *)

BindCode   == BindManifests \cup {Binding!NoCode}
BindStates == {"creating", "undeployed", "sleeping", "failed"}
BindPast   == [state : BindStates, manifest : BindCode]

\* What a row is, and what a create or deploy is at.
BindRow(r) ==
    \/ r = Binding!NoRow
    \/ \E id \in 1..bindings_made, s \in BindStates, m \in BindCode :
          r = Binding!Worker(id, s, m)
    \/ \E who \in 0..bindings_made, dead \in SUBSET Binding!Resources :
          r = Binding!Queue(who, dead)

BindDeploy(c) ==
    \/ c = Binding!Idle
    \/ c.at = "creating" /\ c.name \in BindWorkers /\ c.manifest \in BindManifests
    \/ /\ c.at = "building" /\ c.id \in 1..bindings_made
       /\ c.manifest \in BindManifests /\ c.before \in BindPast
    \/ c.at = "proving" /\ c.id \in 1..bindings_made /\ c.before \in BindPast

BindTypes ==
    /\ bindings_made \in 0..BindMaxRows /\ bindings_begun \in 0..BindMaxBegun
    /\ bindings_row = [n \in Binding!Resources |-> bindings_row[n]]
    /\ \A n \in Binding!Resources : BindRow(bindings_row[n])
    /\ bindings_deploy = [d \in BindDeploys |-> bindings_deploy[d]]
    /\ \A d \in BindDeploys : BindDeploy(bindings_deploy[d])
    /\ bindings_torn \subseteq 1..bindings_made
    /\ bindings_unwound \subseteq 1..bindings_made
    /\ bindings_late \in BOOLEAN

\* Workers have their own ids.
BindIds ==
    \A v, w \in Binding!Resources :
       /\ Binding!IsWorker(v) /\ Binding!IsWorker(w)
       /\ bindings_row[v].id = bindings_row[w].id
       => v = w

Proves(d, id) == bindings_deploy[d].at = "proving" /\ bindings_deploy[d].id = id
Claimed(id)   ==
    {q \in Binding!Resources : Binding!IsQueue(q) /\ bindings_row[q].consumer = id}

\* As long as no deploy of it proves itself, a worker has what its manifest says, and
\* whoever builds for it would go back to that; of one that proves itself alone, it has
\* what that one would go back to.
BindStands(w, id) ==
    /\ (\A d \in BindDeploys : ~Proves(d, id)) =>
          /\ Claimed(id) = bindings_row[w].manifest.consumes
          /\ \A d \in BindDeploys :
                Binding!At(d, id) => bindings_deploy[d].before = Binding!Past(bindings_row[w])
          /\ id \notin bindings_unwound =>
                \A n \in Binding!Referred(bindings_row[w].manifest) : Binding!IsQueue(n)
    /\ \A d \in BindDeploys :
          Proves(d, id) /\ (\A o \in BindDeploys \ {d} : ~Proves(o, id)) =>
             \/ bindings_deploy[d].before.state = "creating"
             \/ Claimed(id) = bindings_deploy[d].before.manifest.consumes

BindInv ==
    /\ BindTypes
    /\ BindIds
    /\ \A w \in Binding!Resources, id \in 1..bindings_made :
          Binding!IsWorker(w) /\ bindings_row[w].id = id /\ id \notin bindings_torn =>
             BindStands(w, id)

-----------------------------------------------------------------------------
(* The bindings: the steps.                                                *)

LEMMA BindIsWorker ==
    ASSUME BindTypes, NEW n \in Binding!Resources, Binding!IsWorker(n)
    PROVE  /\ bindings_row[n].id \in 1..bindings_made /\ bindings_row[n].state \in BindStates
           /\ bindings_row[n].manifest \in BindCode
           /\ bindings_row[n] = Binding!Worker(bindings_row[n].id, bindings_row[n].state,
                bindings_row[n].manifest)
BY DEF BindTypes, BindRow, Binding!IsWorker, Binding!NoRow, Binding!Worker, Binding!Queue

LEMMA BindIsQueue ==
    ASSUME BindTypes, NEW n \in Binding!Resources, Binding!IsQueue(n)
    PROVE  /\ bindings_row[n].consumer \in 0..bindings_made
                /\ bindings_row[n].dead \subseteq Binding!Resources
           /\ bindings_row[n] = Binding!Queue(bindings_row[n].consumer, bindings_row[n].dead)
BY DEF BindTypes, BindRow, Binding!IsQueue, Binding!NoRow, Binding!Worker, Binding!Queue

LEMMA BindNames ==
    ASSUME NEW m \in BindCode
    PROVE  /\ m.consumes \subseteq Binding!Resources /\ m.dead \subseteq Binding!Resources
           /\ Binding!Referred(m) \subseteq Binding!Resources
                /\ m.consumes \subseteq Binding!Referred(m)
<1>1. CASE m = Binding!NoCode
  BY <1>1 DEF Binding!NoCode, Binding!Referred
<1>2. CASE m \in BindManifests
  BY <1>2, ManifestNames DEF Binding!Referred, Binding!Resources
<1>3. QED
  BY <1>1, <1>2 DEF BindCode

LEMMA BindNumbers == BindTypes => bindings_made \in Nat /\ bindings_begun \in Nat
BY BindingBounds DEF BindTypes

LEMMA BindSound == BindInv => Binding!TypeOK /\ Binding!ClaimsAreDeclared
  /\ Binding!BoundQueuesExist
<1> SUFFICES ASSUME BindInv PROVE Binding!TypeOK /\ Binding!ClaimsAreDeclared
                    /\ Binding!BoundQueuesExist
  OBVIOUS
<1>1. BindTypes
  BY DEF BindInv
<1>2. \A n \in Binding!Resources : bindings_row[n] = Binding!NoRow \/ Binding!IsWorker(n)
        \/ Binding!IsQueue(n)
  BY <1>1 DEF BindTypes, BindRow, Binding!IsWorker, Binding!IsQueue, Binding!Worker,
              Binding!Queue
<1>3. \A d \in BindDeploys : bindings_deploy[d].at \in {"idle", "creating",
        "building", "proving"}
  BY <1>1 DEF BindTypes, BindDeploy, Binding!Idle
<1>4. Binding!TypeOK
  BY <1>1, <1>2, <1>3, BindIsWorker, BindIsQueue DEF Binding!TypeOK, BindTypes, BindStates,
                                                     BindCode
<1>5. ASSUME NEW w \in Binding!Resources, Binding!AtRest(w),
             bindings_row[w].id \notin bindings_torn
      PROVE  /\ bindings_row[w].manifest.consumes
                            = {q \in Binding!Resources : Binding!IsQueue(q)
                              /\ bindings_row[q].consumer = bindings_row[w].id}
             /\ bindings_row[w].id \notin bindings_unwound
                  => \A n \in Binding!Referred(bindings_row[w].manifest) : Binding!IsQueue(n)
  <2> DEFINE id == bindings_row[w].id
  <2>1. id \in 1..bindings_made /\ Binding!IsWorker(w)
    BY <1>1, <1>5, BindIsWorker DEF Binding!AtRest
  <2>2. \A d \in BindDeploys : ~Proves(d, id)
    BY <1>5 DEF Binding!AtRest, Binding!At, Proves
  <2>3. BindStands(w, id)
    BY <1>5, <2>1 DEF BindInv
  <2> HIDE DEF id
  <2>4. QED
    BY <2>2, <2>3 DEF BindStands, Claimed, id
<1>6. QED
  BY <1>4, <1>5 DEF Binding!ClaimsAreDeclared, Binding!BoundQueuesExist

LEMMA BindInit == Binding!Init => BindInv
<1> SUFFICES ASSUME Binding!Init PROVE BindInv
  OBVIOUS
<1>1. BindTypes
  <2>1. \A n \in Binding!Resources : BindRow(bindings_row[n])
    BY DEF Binding!Init, BindRow
  <2>2. \A d \in BindDeploys : BindDeploy(bindings_deploy[d])
    BY DEF Binding!Init, BindDeploy
  <2>3. bindings_row = [n \in Binding!Resources |-> bindings_row[n]]
          /\ bindings_deploy = [d \in BindDeploys |-> bindings_deploy[d]]
    BY DEF Binding!Init
  <2>4. bindings_made = 0 /\ bindings_begun = 0 /\ bindings_torn = {} /\ bindings_unwound = {}
          /\ bindings_late \in BOOLEAN
    BY DEF Binding!Init
  <2>5. bindings_made \in 0..BindMaxRows /\ bindings_begun \in 0..BindMaxBegun
    BY <2>4, BindingBounds
  <2>6. bindings_torn \subseteq 1..bindings_made /\ bindings_unwound \subseteq 1..bindings_made
    BY <2>4
  <2>7. QED
    BY <2>1, <2>2, <2>3, <2>4, <2>5, <2>6 DEF BindTypes
<1>2. \A n \in Binding!Resources : ~Binding!IsWorker(n)
  BY DEF Binding!Init, Binding!IsWorker, Binding!NoRow
<1>3. QED
  BY <1>1, <1>2 DEF BindInv, BindIds

\* A worker that a step is not about.
LEMMA BindOther ==
    ASSUME BindInv, NEW v \in Binding!Resources, NEW id \in 1..bindings_made,
           Binding!IsWorker(v), bindings_row[v].id = id,
           bindings_row'[v] = bindings_row[v], Claimed(id)' = Claimed(id),
           \A d \in BindDeploys : bindings_deploy'[d] = bindings_deploy[d]
             \/ (~Binding!At(d, id) /\ ~Binding!At(d, id)'),
           \A n \in Binding!Resources : Binding!IsQueue(n)
             /\ n \in Binding!Referred(bindings_row[v].manifest) => Binding!IsQueue(n)',
           id \in bindings_torn => id \in bindings_torn', id \in bindings_unwound
             => id \in bindings_unwound',
           id \notin bindings_torn'
    PROVE  BindStands(v, id)'
<1>1. BindStands(v, id)
  BY DEF BindInv
<1>2. \A d \in BindDeploys : (Binding!At(d, id)' <=> Binding!At(d, id))
        /\ (Proves(d, id)' <=> Proves(d, id))
  BY DEF Binding!At, Proves
<1>3. \A d \in BindDeploys : Binding!At(d, id) => bindings_deploy'[d] = bindings_deploy[d]
  OBVIOUS
<1>4. \A d \in BindDeploys : Proves(d, id) => Binding!At(d, id)
  BY DEF Proves, Binding!At
<1>5. bindings_row[v].manifest \in BindCode
  BY BindIsWorker DEF BindInv
<1>6. Binding!Referred(bindings_row[v].manifest) \subseteq Binding!Resources
        /\ Binding!Past(bindings_row[v])' = Binding!Past(bindings_row[v])
  BY <1>5, BindNames DEF Binding!Past
<1>7. ASSUME \A d \in BindDeploys : ~Proves(d, id)'
      PROVE  /\ Claimed(id)' = bindings_row'[v].manifest.consumes
             /\ \A d \in BindDeploys : Binding!At(d, id)'
                  => bindings_deploy'[d].before = Binding!Past(bindings_row[v])'
             /\ id \notin bindings_unwound'
                  => \A n \in Binding!Referred(bindings_row[v].manifest)' : Binding!IsQueue(n)'
  <2>1. \A d \in BindDeploys : ~Proves(d, id)
    BY <1>2, <1>7
  <2>2. /\ Claimed(id) = bindings_row[v].manifest.consumes
        /\ \A d \in BindDeploys : Binding!At(d, id)
             => bindings_deploy[d].before = Binding!Past(bindings_row[v])
        /\ id \notin bindings_unwound
             => \A n \in Binding!Referred(bindings_row[v].manifest) : Binding!IsQueue(n)
    BY <1>1, <2>1 DEF BindStands
  <2>3. Binding!Referred(bindings_row[v].manifest)' = Binding!Referred(bindings_row[v].manifest)
    BY DEF Binding!Referred
  <2>4. QED
    BY <1>2, <1>3, <1>6, <2>2, <2>3
<1>8. ASSUME NEW d \in BindDeploys, Proves(d, id)', \A o \in BindDeploys \ {d} : ~Proves(o, id)'
      PROVE  \/ bindings_deploy'[d].before.state = "creating"
             \/ Claimed(id)' = bindings_deploy'[d].before.manifest.consumes
  <2>1. Proves(d, id) /\ \A o \in BindDeploys \ {d} : ~Proves(o, id)
    BY <1>2, <1>8
  <2>2. \/ bindings_deploy[d].before.state = "creating"
        \/ Claimed(id) = bindings_deploy[d].before.manifest.consumes
    BY <1>1, <2>1 DEF BindStands
  <2>3. QED
    BY <1>3, <1>4, <2>1, <2>2
<1>9. QED
  BY <1>7, <1>8 DEF BindStands

LEMMA BindKept ==
    ASSUME BindTypes, bindings_made' \in bindings_made..BindMaxRows,
           bindings_begun' \in 0..BindMaxBegun, bindings_late' \in BOOLEAN,
           bindings_row' = [n \in Binding!Resources |-> bindings_row'[n]],
           \A n \in Binding!Resources : bindings_row'[n] = bindings_row[n]
             \/ BindRow(bindings_row[n])',
           bindings_deploy' = [d \in BindDeploys |-> bindings_deploy'[d]],
           \A d \in BindDeploys : bindings_deploy'[d] = bindings_deploy[d]
             \/ BindDeploy(bindings_deploy[d])',
           bindings_torn' \subseteq 1..bindings_made',
             bindings_unwound' \subseteq 1..bindings_made'
    PROVE  BindTypes'
<1>1. bindings_made \in Nat /\ bindings_made' \in Nat /\ bindings_made <= bindings_made'
        /\ bindings_made' \in 0..BindMaxRows
  BY BindNumbers, BindingBounds DEF BindTypes
<1>2. 1..bindings_made \subseteq 1..bindings_made'
        /\ 0..bindings_made \subseteq 0..bindings_made'
  BY <1>1
<1>3. ASSUME NEW n \in Binding!Resources, bindings_row'[n] = bindings_row[n]
             PROVE BindRow(bindings_row[n])'
  <2>1. BindRow(bindings_row[n])
    BY DEF BindTypes
  <2>2. QED
    BY <1>2, <1>3, <2>1 DEF BindRow
<1>4. ASSUME NEW d \in BindDeploys, bindings_deploy'[d] = bindings_deploy[d]
             PROVE BindDeploy(bindings_deploy[d])'
  <2>1. BindDeploy(bindings_deploy[d])
    BY DEF BindTypes
  <2>2. QED
    BY <1>2, <1>4, <2>1 DEF BindDeploy
<1>5. QED
  BY <1>1, <1>3, <1>4 DEF BindTypes

\* A row that comes or goes, and is nobody's queue.
LEMMA BindNewRow ==
    ASSUME BindInv, NEW n \in Binding!Resources,
           \A k \in Binding!Resources \ {n} : bindings_row'[k] = bindings_row[k],
           ~(Binding!IsQueue(n)' /\ bindings_row'[n].consumer # Binding!Nobody),
             Binding!IsQueue(n) => ~Binding!Bound(n),
           UNCHANGED <<bindings_torn, bindings_unwound>>,
           \A d \in BindDeploys :
              bindings_deploy'[d] = bindings_deploy[d]
                \/ (\A k \in 1..bindings_made : ~Binding!At(d, k) /\ ~Binding!At(d, k)'),
           NEW v \in Binding!Resources \ {n}, NEW id \in 1..bindings_made, Binding!IsWorker(v),
             bindings_row[v].id = id,
           id \notin bindings_torn
    PROVE  BindStands(v, id)'
<1>1. BindTypes
  BY DEF BindInv
<1>2. bindings_made \in Nat /\ id # Binding!Nobody
  BY <1>1, BindNumbers DEF Binding!Nobody
<1>3. id \in Binding!Living
  BY DEF Binding!Living, Binding!NameOf
<1>4. n \notin Claimed(id) /\ n \notin Claimed(id)'
  BY <1>2, <1>3 DEF Claimed, Binding!Bound
<1>5. \A k \in Binding!Resources \ {n} : k \in Claimed(id)' <=> k \in Claimed(id)
  BY DEF Claimed, Binding!IsQueue
<1>6. Claimed(id)' = Claimed(id)
  <2>1. Claimed(id) \subseteq Binding!Resources /\ Claimed(id)' \subseteq Binding!Resources
    BY DEF Claimed, Binding!Resources
  <2>2. QED
    BY <1>4, <1>5, <2>1
<1>7. \A k \in Binding!Resources : Binding!IsQueue(k)
        /\ k \in Binding!Referred(bindings_row[v].manifest) => Binding!IsQueue(k)'
  BY DEF Binding!Bound, Binding!IsQueue
<1>8. bindings_row'[v] = bindings_row[v] /\ id \notin bindings_torn'
        /\ (id \in bindings_unwound => id \in bindings_unwound')
  OBVIOUS
<1>9. \A d \in BindDeploys : bindings_deploy'[d] = bindings_deploy[d]
        \/ (~Binding!At(d, id) /\ ~Binding!At(d, id)')
  OBVIOUS
<1>10. QED
  BY <1>6, <1>7, <1>8, <1>9, BindOther

\* Only a worker's row moves, of one id, and only what is done for that id.
LEMMA BindOwn ==
    ASSUME BindInv, NEW i \in 1..bindings_made,
           \A n \in Binding!Resources :
              \/ bindings_row'[n] = bindings_row[n]
              \/ Binding!IsWorker(n) /\ Binding!IsWorker(n)' /\ bindings_row[n].id = i
                   /\ bindings_row'[n].id = i,
           \A d \in BindDeploys :
              \/ bindings_deploy'[d] = bindings_deploy[d]
              \/ (\A id \in 1..bindings_made \ {i} : ~Binding!At(d, id) /\ ~Binding!At(d, id)'),
           \A id \in 1..bindings_made \ {i} :
              /\ id \in bindings_torn' <=> id \in bindings_torn
              /\ id \in bindings_unwound' <=> id \in bindings_unwound,
           UNCHANGED bindings_made, BindTypes',
           \A w \in Binding!Resources :
              Binding!IsWorker(w) /\ bindings_row[w].id = i /\ i \notin bindings_torn'
                => BindStands(w, i)'
    PROVE  BindInv'
<1>1. BindTypes
  BY DEF BindInv
<1>2. \A n \in Binding!Resources : /\ Binding!IsWorker(n)' <=> Binding!IsWorker(n)
                                   /\ Binding!IsWorker(n)
                                        => bindings_row'[n].id = bindings_row[n].id
                                   /\ Binding!IsQueue(n)' <=> Binding!IsQueue(n)
                                   /\ Binding!IsQueue(n) => bindings_row'[n] = bindings_row[n]
  BY DEF Binding!IsWorker, Binding!IsQueue
<1>3. BindIds'
  BY <1>2 DEF BindInv, BindIds
<1>4. \A id \in Nat : Claimed(id)' = Claimed(id)
  BY <1>2 DEF Claimed, Binding!Resources
<1>5. ASSUME NEW v \in Binding!Resources, NEW id \in 1..bindings_made, Binding!IsWorker(v)',
             bindings_row'[v].id = id, id \notin bindings_torn'
      PROVE  BindStands(v, id)'
  <2>1. Binding!IsWorker(v) /\ bindings_row[v].id = id
    BY <1>2, <1>5
  <2>2. CASE id = i
    BY <1>5, <2>1, <2>2
  <2>3. CASE id # i
    <3>1. bindings_row'[v] = bindings_row[v]
      BY <2>1, <2>3
    <3>2. ASSUME NEW d \in BindDeploys, bindings_deploy'[d] # bindings_deploy[d]
                 PROVE ~Binding!At(d, id) /\ ~Binding!At(d, id)'
      <4>1. id \in 1..bindings_made \ {i}
        BY <2>3
      <4>2. QED
        BY <3>2, <4>1
    <3>3. Claimed(id)' = Claimed(id)
      BY <1>1, <1>4, BindNumbers
    <3>4. \A n \in Binding!Resources : Binding!IsQueue(n)
            /\ n \in Binding!Referred(bindings_row[v].manifest) => Binding!IsQueue(n)'
      BY <1>2
    <3>5. (id \in bindings_torn => id \in bindings_torn')
            /\ (id \in bindings_unwound => id \in bindings_unwound')
      BY <2>3
    <3>6. QED
      BY <1>5, <2>1, <3>1, <3>2, <3>3, <3>4, <3>5, BindOther
  <2>4. QED
    BY <2>2, <2>3
<1>6. QED
  BY <1>3, <1>5 DEF BindInv

\* Nothing moves but a create or deploy that holds no row.
LEMMA BindStill ==
    ASSUME BindInv, BindTypes',
           UNCHANGED <<bindings_row, bindings_made, bindings_torn, bindings_unwound>>,
           \A d \in BindDeploys :
              bindings_deploy'[d] = bindings_deploy[d]
                \/ (\A id \in 1..bindings_made : ~Binding!At(d, id) /\ ~Binding!At(d, id)')
    PROVE  BindInv'
<1>1. BindIds'
  BY DEF BindInv, BindIds, Binding!IsWorker
<1>2. ASSUME NEW v \in Binding!Resources, NEW id \in 1..bindings_made, Binding!IsWorker(v),
             bindings_row[v].id = id,
             id \notin bindings_torn
      PROVE  BindStands(v, id)'
  <2>1. bindings_row'[v] = bindings_row[v] /\ Claimed(id)' = Claimed(id)
    BY DEF Claimed, Binding!IsQueue
  <2>2. \A d \in BindDeploys : bindings_deploy'[d] = bindings_deploy[d]
          \/ (~Binding!At(d, id) /\ ~Binding!At(d, id)')
    OBVIOUS
  <2>3. \A n \in Binding!Resources : Binding!IsQueue(n)
          /\ n \in Binding!Referred(bindings_row[v].manifest) => Binding!IsQueue(n)'
    BY DEF Binding!IsQueue
  <2>4. (id \in bindings_torn => id \in bindings_torn')
          /\ (id \in bindings_unwound => id \in bindings_unwound') /\ id \notin bindings_torn'
    BY <1>2
  <2>5. QED
    BY <1>2, <2>1, <2>2, <2>3, <2>4, BindOther
<1>3. \A v \in Binding!Resources : Binding!IsWorker(v)' <=> Binding!IsWorker(v)
  BY DEF Binding!IsWorker
<1>4. QED
  BY <1>1, <1>2, <1>3 DEF BindInv

LEMMA BindCreateBegins ==
    ASSUME BindInv, NEW d \in BindDeploys, NEW w \in BindWorkers, NEW m \in BindManifests,
           Binding!CreateBegins(d, w, m)
    PROVE  BindInv'
<1> DEFINE c == [at |-> "creating", name |-> w, manifest |-> m]
<1>1. BindTypes /\ bindings_made \in Nat
  BY BindNumbers DEF BindInv
<1>2. bindings_deploy[d] = Binding!Idle /\ bindings_deploy' = [bindings_deploy EXCEPT ![d] = c]
      /\ UNCHANGED <<bindings_row, bindings_made, bindings_torn, bindings_unwound,
           bindings_late>>
  BY DEF Binding!CreateBegins
<1>3. bindings_begun' \in 0..BindMaxBegun
  BY <1>1, BindNumbers, BindingBounds DEF Binding!CreateBegins
<1>4. bindings_deploy'[d] = c /\ \A e \in BindDeploys \ {d} : bindings_deploy'[e]
        = bindings_deploy[e]
  BY <1>1, <1>2 DEF BindTypes
<1>5. BindDeploy(c)'
  BY DEF BindDeploy
<1>6. bindings_deploy' = [e \in BindDeploys |-> bindings_deploy'[e]]
  BY <1>1, <1>2 DEF BindTypes
<1>7. BindTypes'
  <2>1. \A e \in BindDeploys : bindings_deploy'[e] = bindings_deploy[e]
          \/ BindDeploy(bindings_deploy[e])'
    BY <1>4, <1>5
  <2>2. bindings_row' = [n \in Binding!Resources |-> bindings_row'[n]]
          /\ \A n \in Binding!Resources : bindings_row'[n] = bindings_row[n]
    BY <1>1, <1>2 DEF BindTypes
  <2>3. /\ bindings_made' \in bindings_made..BindMaxRows /\ bindings_late' \in BOOLEAN
        /\ bindings_torn' \subseteq 1..bindings_made'
             /\ bindings_unwound' \subseteq 1..bindings_made'
    BY <1>1, <1>2, BindingBounds DEF BindTypes
  <2>4. QED
    BY <1>1, <1>3, <1>6, <2>1, <2>2, <2>3, BindKept
<1>8. \A id \in 1..bindings_made : ~Binding!At(d, id) /\ ~Binding!At(d, id)'
  BY <1>2, <1>4 DEF Binding!At, Binding!Idle
<1>9. QED
  BY <1>2, <1>4, <1>7, <1>8, BindStill

\* What a step does to types when its row and deploy are given.
LEMMA BindFinish ==
    ASSUME BindTypes, NEW d \in BindDeploys, Binding!Finish(d)
    PROVE  /\ bindings_deploy' = [e \in BindDeploys |-> bindings_deploy'[e]]
           /\ bindings_deploy'[d] = Binding!Idle
                /\ \A e \in BindDeploys \ {d} : bindings_deploy'[e] = bindings_deploy[e]
           /\ \A e \in BindDeploys : bindings_deploy'[e] = bindings_deploy[e]
                \/ BindDeploy(bindings_deploy[e])'
           /\ \A id : ~Binding!At(d, id)'
<1>1. /\ bindings_deploy' = [e \in BindDeploys |-> bindings_deploy'[e]]
      /\ bindings_deploy'[d] = Binding!Idle
           /\ \A e \in BindDeploys \ {d} : bindings_deploy'[e] = bindings_deploy[e]
  BY DEF BindTypes, Binding!Finish
<1>2. QED
  BY <1>1 DEF Binding!At, Binding!Idle, BindDeploy

LEMMA BindBuildFails ==
    ASSUME BindInv, NEW d \in BindDeploys, Binding!BuildFails(d)
    PROVE  BindInv'
<1>1. BindTypes /\ bindings_made \in Nat
  BY BindNumbers DEF BindInv
<1>2. Binding!Finish(d) /\ UNCHANGED <<bindings_row, bindings_made, bindings_begun,
        bindings_torn, bindings_unwound, bindings_late>>
  BY DEF Binding!BuildFails
<1>3. /\ bindings_deploy' = [e \in BindDeploys |-> bindings_deploy'[e]]
      /\ bindings_deploy'[d] = Binding!Idle
           /\ \A e \in BindDeploys \ {d} : bindings_deploy'[e] = bindings_deploy[e]
      /\ \A e \in BindDeploys : bindings_deploy'[e] = bindings_deploy[e]
           \/ BindDeploy(bindings_deploy[e])'
      /\ \A id : ~Binding!At(d, id)'
  BY <1>1, <1>2, BindFinish
<1>4. BindTypes'
  <2>1. bindings_row' = [n \in Binding!Resources |-> bindings_row'[n]]
          /\ \A n \in Binding!Resources : bindings_row'[n] = bindings_row[n]
    BY <1>1, <1>2 DEF BindTypes
  <2>2. /\ bindings_made' \in bindings_made..BindMaxRows /\ bindings_late' \in BOOLEAN
             /\ bindings_begun' \in 0..BindMaxBegun
        /\ bindings_torn' \subseteq 1..bindings_made'
             /\ bindings_unwound' \subseteq 1..bindings_made'
    BY <1>1, <1>2, BindingBounds DEF BindTypes
  <2>3. QED
    BY <1>1, <1>3, <2>1, <2>2, BindKept
<1>5. CASE bindings_deploy[d].at = "creating"
  <2>1. \A id \in 1..bindings_made : ~Binding!At(d, id) /\ ~Binding!At(d, id)'
    BY <1>3, <1>5 DEF Binding!At
  <2>2. QED
    BY <1>2, <1>3, <1>4, <2>1, BindStill
<1>6. CASE bindings_deploy[d].at = "building"
  <2>1. PICK i \in 1..bindings_made : bindings_deploy[d].id = i
    BY <1>1, <1>6 DEF BindTypes, BindDeploy, Binding!Idle
  <2>2. \A id \in 1..bindings_made \ {i} : ~Binding!At(d, id) /\ ~Binding!At(d, id)'
    BY <1>3, <2>1 DEF Binding!At
  <2>3. ASSUME NEW w \in Binding!Resources, Binding!IsWorker(w), bindings_row[w].id = i,
               i \notin bindings_torn'
        PROVE  BindStands(w, i)'
    <3>1. BindStands(w, i)
      BY <1>2, <2>1, <2>3 DEF BindInv
    <3>2. \A e \in BindDeploys : Proves(e, i)' <=> Proves(e, i)
      BY <1>3, <1>6 DEF Proves, Binding!Idle
    <3>3. \A e \in BindDeploys : Binding!At(e, i)'
            => Binding!At(e, i) /\ bindings_deploy'[e] = bindings_deploy[e]
      BY <1>3 DEF Binding!At, Binding!Idle
    <3>4. /\ bindings_row'[w] = bindings_row[w] /\ Claimed(i)' = Claimed(i)
               /\ Binding!Past(bindings_row[w])' = Binding!Past(bindings_row[w])
          /\ bindings_unwound' = bindings_unwound
               /\ \A n : Binding!IsQueue(n)' <=> Binding!IsQueue(n)
      BY <1>2 DEF Claimed, Binding!IsQueue, Binding!Past
    <3>5. Binding!Referred(bindings_row[w].manifest)'
            = Binding!Referred(bindings_row[w].manifest)
      BY <3>4 DEF Binding!Referred
    <3>6. \A e \in BindDeploys : Proves(e, i)' => bindings_deploy'[e] = bindings_deploy[e]
      BY <3>3 DEF Proves, Binding!At
    <3>7. QED
      BY <3>1, <3>2, <3>3, <3>4, <3>5, <3>6 DEF BindStands
  <2>4. \A id \in 1..bindings_made \ {i} :
           /\ id \in bindings_torn' <=> id \in bindings_torn
           /\ id \in bindings_unwound' <=> id \in bindings_unwound
    BY <1>2
  <2>5. \A n \in Binding!Resources :
           \/ bindings_row'[n] = bindings_row[n]
           \/ Binding!IsWorker(n) /\ Binding!IsWorker(n)' /\ bindings_row[n].id = i
                /\ bindings_row'[n].id = i
    BY <1>2
  <2>6. \A e \in BindDeploys :
           \/ bindings_deploy'[e] = bindings_deploy[e]
           \/ (\A id \in 1..bindings_made \ {i} : ~Binding!At(e, id) /\ ~Binding!At(e, id)')
    BY <1>3, <2>2
  <2>7. QED
    BY <1>2, <1>4, <2>1, <2>3, <2>4, <2>5, <2>6, BindOwn
<1>7. QED
  BY <1>5, <1>6 DEF Binding!BuildFails

LEMMA BindDeployBegins ==
    ASSUME BindInv, NEW d \in BindDeploys, NEW w \in BindWorkers, NEW m \in BindManifests,
           Binding!DeployBegins(d, w, m)
    PROVE  BindInv'
<1>1. BindTypes /\ bindings_made \in Nat /\ w \in Binding!Resources
  BY BindNumbers DEF BindInv, Binding!Resources
<1>0. PICK i \in 1..bindings_made : bindings_row[w].id = i
  BY <1>1, BindIsWorker DEF Binding!DeployBegins
<1> DEFINE c == [at |-> "building", id |-> i, manifest |-> m,
      before |-> Binding!Past(bindings_row[w])]
<1>2. bindings_deploy[d] = Binding!Idle /\ bindings_deploy' = [bindings_deploy EXCEPT ![d] = c]
        /\ Binding!IsWorker(w)
      /\ UNCHANGED <<bindings_row, bindings_made, bindings_torn, bindings_unwound,
           bindings_late>>
  BY <1>0 DEF Binding!DeployBegins
<1>3. bindings_begun' \in 0..BindMaxBegun
  BY <1>1, BindNumbers, BindingBounds DEF Binding!DeployBegins
<1>4. bindings_deploy'[d] = c /\ \A e \in BindDeploys \ {d} : bindings_deploy'[e]
        = bindings_deploy[e]
  BY <1>1, <1>2 DEF BindTypes
<1>5. i \in 1..bindings_made /\ Binding!Past(bindings_row[w]) \in BindPast
  BY <1>1, <1>2, BindIsWorker DEF BindPast, Binding!Past
<1>6. BindDeploy(bindings_deploy[d])'
  BY <1>2, <1>4, <1>5 DEF BindDeploy
<1>7. bindings_deploy' = [e \in BindDeploys |-> bindings_deploy'[e]]
  BY <1>1, <1>2 DEF BindTypes
<1>8. BindTypes'
  <2>1. \A e \in BindDeploys : bindings_deploy'[e] = bindings_deploy[e]
          \/ BindDeploy(bindings_deploy[e])'
    BY <1>4, <1>6
  <2>2. bindings_row' = [n \in Binding!Resources |-> bindings_row'[n]]
          /\ \A n \in Binding!Resources : bindings_row'[n] = bindings_row[n]
    BY <1>1, <1>2 DEF BindTypes
  <2>3. /\ bindings_made' \in bindings_made..BindMaxRows /\ bindings_late' \in BOOLEAN
        /\ bindings_torn' \subseteq 1..bindings_made'
             /\ bindings_unwound' \subseteq 1..bindings_made'
    BY <1>1, <1>2, BindingBounds DEF BindTypes
  <2>4. QED
    BY <1>1, <1>3, <1>7, <2>1, <2>2, <2>3, BindKept
<1>9. \A id : ~Binding!At(d, id) /\ (Binding!At(d, id)' => id = i)
  BY <1>2, <1>4 DEF Binding!At, Binding!Idle
<1>10. ASSUME NEW v \in Binding!Resources, Binding!IsWorker(v), bindings_row[v].id = i,
              i \notin bindings_torn'
       PROVE  BindStands(v, i)'
  <2>1. BindStands(v, i) /\ v = w
    BY <1>0, <1>1, <1>2, <1>5, <1>10 DEF BindInv, BindIds
  <2>2. \A e \in BindDeploys : Proves(e, i)' <=> Proves(e, i)
    BY <1>2, <1>4 DEF Proves, Binding!Idle
  <2>3. \A e \in BindDeploys : Binding!At(e, i)' =>
           \/ Binding!At(e, i) /\ bindings_deploy'[e] = bindings_deploy[e]
           \/ bindings_deploy'[e].before = Binding!Past(bindings_row[v])
    BY <1>4, <2>1 DEF Binding!At
  <2>4. /\ bindings_row'[v] = bindings_row[v] /\ Claimed(i)' = Claimed(i)
             /\ Binding!Past(bindings_row[v])' = Binding!Past(bindings_row[v])
        /\ bindings_unwound' = bindings_unwound
             /\ \A n : Binding!IsQueue(n)' <=> Binding!IsQueue(n)
    BY <1>2 DEF Claimed, Binding!IsQueue, Binding!Past
  <2>5. Binding!Referred(bindings_row[v].manifest)' = Binding!Referred(bindings_row[v].manifest)
    BY <2>4 DEF Binding!Referred
  <2>6. \A e \in BindDeploys : Proves(e, i)' => bindings_deploy'[e] = bindings_deploy[e]
    BY <1>4 DEF Proves
  <2>7. QED
    BY <2>1, <2>2, <2>3, <2>4, <2>5, <2>6 DEF BindStands
<1>11. \A id \in 1..bindings_made \ {i} :
          /\ id \in bindings_torn' <=> id \in bindings_torn
          /\ id \in bindings_unwound' <=> id \in bindings_unwound
  BY <1>2
<1>12. \A n \in Binding!Resources :
          \/ bindings_row'[n] = bindings_row[n]
          \/ Binding!IsWorker(n) /\ Binding!IsWorker(n)' /\ bindings_row[n].id = i
               /\ bindings_row'[n].id = i
  BY <1>2, <1>0
<1>13. \A e \in BindDeploys :
          \/ bindings_deploy'[e] = bindings_deploy[e]
          \/ (\A id \in 1..bindings_made \ {i} : ~Binding!At(e, id) /\ ~Binding!At(e, id)')
  BY <1>4, <1>9
<1> HIDE DEF c
<1>14. QED
  BY <1>2, <1>5, <1>8, <1>10, <1>11, <1>12, <1>13, BindOwn

LEMMA BindDeployBuilt ==
    ASSUME BindInv, NEW d \in BindDeploys, Binding!DeployBuilt(d)
    PROVE  BindInv'
<1>1. BindTypes /\ bindings_made \in Nat
  BY BindNumbers DEF BindInv
<1>2. PICK i \in 1..bindings_made : bindings_deploy[d].id = i
  BY <1>1 DEF BindTypes, BindDeploy, Binding!Idle, Binding!DeployBuilt
<1>3. /\ bindings_deploy[d].at = "building" /\ bindings_deploy[d].manifest \in BindManifests
      /\ bindings_deploy[d].before \in BindPast
  BY <1>1 DEF BindTypes, BindDeploy, Binding!Idle, Binding!DeployBuilt
<1>4. /\ bindings_deploy'[d] = [at |-> "proving", id |-> i,
           before |-> bindings_deploy[d].before]
      /\ \A e \in BindDeploys \ {d} : bindings_deploy'[e] = bindings_deploy[e]
      /\ bindings_deploy' = [e \in BindDeploys |-> bindings_deploy'[e]]
      /\ UNCHANGED <<bindings_made, bindings_begun, bindings_torn, bindings_unwound,
           bindings_late>>
  BY <1>1, <1>2 DEF BindTypes, Binding!DeployBuilt
<1>5. /\ \A n \in Binding!Resources : bindings_row'[n] = IF Binding!IsWorker(n)
           /\ bindings_row[n].id = i
                                                         THEN [bindings_row[n] EXCEPT !.manifest
                                                           = bindings_deploy[d].manifest]
                                                         ELSE bindings_row[n]
      /\ bindings_row' = [n \in Binding!Resources |-> bindings_row'[n]]
  BY <1>2 DEF Binding!DeployBuilt, Binding!NameOf
<1>6. ASSUME NEW n \in Binding!Resources, Binding!IsWorker(n), bindings_row[n].id = i
      PROVE  bindings_row'[n] = Binding!Worker(i, bindings_row[n].state,
               bindings_deploy[d].manifest) /\ bindings_row[n].state \in BindStates
  <2>1. bindings_row[n] = Binding!Worker(i, bindings_row[n].state, bindings_row[n].manifest)
          /\ bindings_row[n].state \in BindStates
    BY <1>1, <1>6, BindIsWorker
  <2>2. bindings_row'[n] = [bindings_row[n] EXCEPT !.manifest = bindings_deploy[d].manifest]
    BY <1>5, <1>6
  <2>3. QED
    BY <2>1, <2>2 DEF Binding!Worker
<1>7. ASSUME NEW n \in Binding!Resources, bindings_row'[n] # bindings_row[n]
      PROVE  Binding!IsWorker(n) /\ Binding!IsWorker(n)' /\ bindings_row[n].id = i
               /\ bindings_row'[n].id = i
  <2>1. Binding!IsWorker(n) /\ bindings_row[n].id = i
    BY <1>5, <1>7
  <2>2. bindings_row'[n] = Binding!Worker(i, bindings_row[n].state, bindings_deploy[d].manifest)
    BY <1>6, <2>1
  <2>3. QED
    BY <2>1, <2>2 DEF Binding!IsWorker, Binding!Worker
<1>8. BindTypes'
  <2>1. \A e \in BindDeploys : bindings_deploy'[e] = bindings_deploy[e]
          \/ BindDeploy(bindings_deploy[e])'
    BY <1>3, <1>4 DEF BindDeploy
  <2>2. \A n \in Binding!Resources : bindings_row'[n] = bindings_row[n]
          \/ BindRow(bindings_row[n])'
    BY <1>3, <1>4, <1>6, <1>7 DEF BindRow, BindCode
  <2>3. /\ bindings_made' \in bindings_made..BindMaxRows /\ bindings_late' \in BOOLEAN
             /\ bindings_begun' \in 0..BindMaxBegun
        /\ bindings_torn' \subseteq 1..bindings_made'
             /\ bindings_unwound' \subseteq 1..bindings_made'
    BY <1>1, <1>4, BindingBounds DEF BindTypes
  <2>4. QED
    BY <1>1, <1>4, <1>5, <2>1, <2>2, <2>3, BindKept
<1>9. ASSUME NEW w \in Binding!Resources, Binding!IsWorker(w), bindings_row[w].id = i,
             i \notin bindings_torn'
      PROVE  BindStands(w, i)'
  <2>1. BindStands(w, i)
    BY <1>2, <1>4, <1>9 DEF BindInv
  <2>2. Proves(d, i)' /\ ~Proves(d, i) /\ Binding!At(d, i)
    BY <1>2, <1>3, <1>4 DEF Proves, Binding!At
  <2>3. Claimed(i)' = Claimed(i)
    BY <1>7 DEF Claimed, Binding!IsQueue, Binding!IsWorker
  <2>4. ASSUME NEW e \in BindDeploys, Proves(e, i)', \A o \in BindDeploys \ {e} : ~Proves(o, i)'
        PROVE  Claimed(i)' = bindings_deploy'[e].before.manifest.consumes
    <3>1. e = d
      BY <2>2, <2>4
    <3>2. \A o \in BindDeploys : ~Proves(o, i)
      <4>1. \A o \in BindDeploys \ {d} : ~Proves(o, i)
        BY <1>4, <2>4, <3>1 DEF Proves
      <4>2. QED
        BY <2>2, <4>1
    <3>3. Claimed(i) = bindings_row[w].manifest.consumes
            /\ bindings_deploy[d].before = Binding!Past(bindings_row[w])
      BY <2>1, <2>2, <3>2 DEF BindStands
    <3>4. bindings_deploy'[e].before.manifest.consumes = bindings_row[w].manifest.consumes
      BY <1>4, <3>1, <3>3 DEF Binding!Past
    <3>5. QED
      BY <2>3, <3>3, <3>4
  <2>5. QED
    BY <2>2, <2>4 DEF BindStands
<1>10. \A id \in 1..bindings_made \ {i} :
          /\ id \in bindings_torn' <=> id \in bindings_torn
          /\ id \in bindings_unwound' <=> id \in bindings_unwound
  BY <1>4
<1>11. \A id \in 1..bindings_made \ {i} : ~Binding!At(d, id) /\ ~Binding!At(d, id)'
  BY <1>2, <1>4 DEF Binding!At
<1>12. \A e \in BindDeploys :
          \/ bindings_deploy'[e] = bindings_deploy[e]
          \/ (\A id \in 1..bindings_made \ {i} : ~Binding!At(e, id) /\ ~Binding!At(e, id)')
  BY <1>4, <1>11
<1>13. \A n \in Binding!Resources :
          \/ bindings_row'[n] = bindings_row[n]
          \/ Binding!IsWorker(n) /\ Binding!IsWorker(n)' /\ bindings_row[n].id = i
               /\ bindings_row'[n].id = i
  BY <1>7
<1>14. QED
  BY <1>4, <1>8, <1>9, <1>10, <1>12, <1>13, BindOwn

LEMMA BindProveFails ==
    ASSUME BindInv, NEW d \in BindDeploys, Binding!ProveFails(d)
    PROVE  BindInv'
<1>1. BindTypes /\ bindings_made \in Nat
  BY BindNumbers DEF BindInv
<1>2. PICK i \in 1..bindings_made : bindings_deploy[d].id = i
  BY <1>1 DEF BindTypes, BindDeploy, Binding!Idle, Binding!ProveFails
<1>3. PICK before \in BindPast : bindings_deploy[d].before = before
  BY <1>1 DEF BindTypes, BindDeploy, Binding!Idle, Binding!ProveFails
<1>4. /\ bindings_deploy' = [e \in BindDeploys |-> bindings_deploy'[e]]
      /\ bindings_deploy'[d] = Binding!Idle
           /\ \A e \in BindDeploys \ {d} : bindings_deploy'[e] = bindings_deploy[e]
      /\ \A e \in BindDeploys : bindings_deploy'[e] = bindings_deploy[e]
           \/ BindDeploy(bindings_deploy[e])'
      /\ \A id : ~Binding!At(d, id)'
  BY <1>1, BindFinish DEF Binding!ProveFails
<1>5. Proves(d, i) /\ UNCHANGED <<bindings_made, bindings_begun, bindings_late>>
  BY <1>2 DEF Binding!ProveFails, Proves
<1>6. /\ \A n \in Binding!Resources : bindings_row'[n] = IF Binding!IsWorker(n)
           /\ bindings_row[n].id = i
                                                         THEN Binding!Unwound(n, before)
                                                           ELSE bindings_row[n]
      /\ bindings_row' = [n \in Binding!Resources |-> bindings_row'[n]]
  BY <1>2, <1>3 DEF Binding!ProveFails, Binding!NameOf
<1>7. \/ /\ before.state = "sleeping" /\ bindings_unwound' = bindings_unwound \cup {i}
         /\ bindings_torn' = IF \E o \in BindDeploys \ {d} : Binding!At(o, i)
              THEN bindings_torn \cup {i} ELSE bindings_torn
      \/ before.state # "sleeping" /\ bindings_torn' = bindings_torn \cup {i}
           /\ bindings_unwound' = bindings_unwound
  BY <1>2, <1>3 DEF Binding!ProveFails
<1>8. before.state \in BindStates /\ before.manifest \in BindCode
  BY <1>3 DEF BindPast
<1>9. ASSUME NEW n \in Binding!Resources, Binding!IsWorker(n), bindings_row[n].id = i
      PROVE  /\ \E s \in BindStates, m \in BindCode : bindings_row'[n] = Binding!Worker(i, s, m)
             /\ before.state = "sleeping" => bindings_row'[n].manifest = before.manifest
  <2>1. /\ bindings_row[n] = Binding!Worker(i, bindings_row[n].state, bindings_row[n].manifest)
             /\ bindings_row[n].state \in BindStates
        /\ bindings_row[n].manifest \in BindCode
    BY <1>1, <1>9, BindIsWorker
  <2>2. bindings_row'[n] = Binding!Unwound(n, before)
    BY <1>6, <1>9
  <2>3. CASE before.state = "sleeping"
    <3>1. bindings_row'[n] = [bindings_row[n] EXCEPT !.manifest = before.manifest,
            !.state = "sleeping"]
      BY <2>2, <2>3 DEF Binding!Unwound
    <3>2. PICK st, old : bindings_row[n] = Binding!Worker(i, st, old)
      BY <2>1
    <3>3. bindings_row'[n] = Binding!Worker(i, "sleeping", before.manifest)
      <4>1. bindings_row'[n] = [[bindings_row[n] EXCEPT !.manifest
              = before.manifest] EXCEPT !.state = "sleeping"]
        BY <3>1
      <4>2. [Binding!Worker(i, st, old) EXCEPT !.manifest = before.manifest]
               = Binding!Worker(i, st, before.manifest)
        BY DEF Binding!Worker
      <4>3. [Binding!Worker(i, st, before.manifest) EXCEPT !.state = "sleeping"]
               = Binding!Worker(i, "sleeping", before.manifest)
        BY DEF Binding!Worker
      <4>4. QED
        BY <3>2, <4>1, <4>2, <4>3
    <3>4. QED
      BY <1>8, <3>3 DEF Binding!Worker, BindStates
  <2>4. CASE before.state # "sleeping"
    <3>1. PICK s \in {"undeployed",
                 "failed"} : bindings_row'[n] = [bindings_row[n] EXCEPT !.state = s]
      BY <2>2, <2>4 DEF Binding!Unwound
    <3>2. bindings_row'[n] = Binding!Worker(i, s, bindings_row[n].manifest)
      BY <2>1, <3>1 DEF Binding!Worker
    <3>3. QED
      BY <2>1, <2>4, <3>2 DEF BindStates
  <2>5. QED
    BY <2>3, <2>4
<1>10. ASSUME NEW n \in Binding!Resources, bindings_row'[n] # bindings_row[n]
       PROVE  Binding!IsWorker(n) /\ Binding!IsWorker(n)' /\ bindings_row[n].id = i
                /\ bindings_row'[n].id = i
  <2>1. Binding!IsWorker(n) /\ bindings_row[n].id = i
    BY <1>6, <1>10
  <2>2. PICK s \in BindStates, m \in BindCode : bindings_row'[n] = Binding!Worker(i, s, m)
    BY <1>9, <2>1
  <2>3. QED
    BY <2>1, <2>2 DEF Binding!IsWorker, Binding!Worker
<1>11. BindTypes'
  <2>1. \A n \in Binding!Resources : bindings_row'[n] = bindings_row[n]
          \/ BindRow(bindings_row[n])'
    BY <1>5, <1>9, <1>10 DEF BindRow
  <2>2. bindings_torn' \subseteq 1..bindings_made'
          /\ bindings_unwound' \subseteq 1..bindings_made'
    BY <1>1, <1>5, <1>7 DEF BindTypes
  <2>3. bindings_made' \in bindings_made..BindMaxRows /\ bindings_late' \in BOOLEAN
          /\ bindings_begun' \in 0..BindMaxBegun
    BY <1>1, <1>5, BindingBounds DEF BindTypes
  <2>4. QED
    BY <1>1, <1>4, <1>6, <2>1, <2>2, <2>3, BindKept
<1>12. ASSUME NEW w \in Binding!Resources, Binding!IsWorker(w), bindings_row[w].id = i,
              i \notin bindings_torn'
       PROVE  BindStands(w, i)'
  <2>1. /\ before.state = "sleeping" /\ bindings_unwound' = bindings_unwound \cup {i}
        /\ (\A o \in BindDeploys \ {d} : ~Binding!At(o, i)) /\ bindings_torn' = bindings_torn
    BY <1>7, <1>12
  <2>2. BindStands(w, i)
    BY <1>2, <1>12, <2>1 DEF BindInv
  <2>3. \A o \in BindDeploys \ {d} : ~Proves(o, i)
    BY <2>1 DEF Binding!At, Proves
  <2>4. Claimed(i) = before.manifest.consumes
    BY <1>3, <1>5, <2>1, <2>2, <2>3 DEF BindStands
  <2>5. Claimed(i)' = Claimed(i)
    BY <1>10 DEF Claimed, Binding!IsQueue, Binding!IsWorker
  <2>6. \A e \in BindDeploys : ~Binding!At(e, i)' /\ ~Proves(e, i)'
    BY <1>4, <2>1 DEF Binding!At, Proves
  <2>7. bindings_row'[w].manifest = before.manifest
    BY <1>9, <1>12, <2>1
  <2>8. QED
    BY <2>1, <2>4, <2>5, <2>6, <2>7 DEF BindStands
<1>13. \A id \in 1..bindings_made \ {i} :
          /\ id \in bindings_torn' <=> id \in bindings_torn
          /\ id \in bindings_unwound' <=> id \in bindings_unwound
  BY <1>7
<1>14. \A id \in 1..bindings_made \ {i} : ~Binding!At(d, id) /\ ~Binding!At(d, id)'
  BY <1>2, <1>4 DEF Binding!At
<1>15. \A e \in BindDeploys :
          \/ bindings_deploy'[e] = bindings_deploy[e]
          \/ (\A id \in 1..bindings_made \ {i} : ~Binding!At(e, id) /\ ~Binding!At(e, id)')
  BY <1>4, <1>14
<1>16. \A n \in Binding!Resources :
          \/ bindings_row'[n] = bindings_row[n]
          \/ Binding!IsWorker(n) /\ Binding!IsWorker(n)' /\ bindings_row[n].id = i
               /\ bindings_row'[n].id = i
  BY <1>10
<1>17. QED
  BY <1>5, <1>11, <1>12, <1>13, <1>15, <1>16, BindOwn

\* What a join does to the rows.
LEMMA BindJoined ==
    ASSUME BindTypes, NEW w \in Binding!Resources, Binding!IsWorker(w),
           NEW i \in 1..bindings_made, bindings_row[w].id = i,
           NEW m \in BindCode, bindings_row[w].manifest = m, Binding!Legal(i, m),
             UNCHANGED bindings_made,
           \A n \in Binding!Resources : bindings_row'[n] = IF n = w
             THEN [bindings_row[w] EXCEPT !.state = "sleeping"]
                                                           ELSE Binding!Joined(i, m, n)
    PROVE  /\ bindings_row'[w] = Binding!Worker(i, "sleeping", m)
           /\ \A n \in Binding!Resources : Binding!IsWorker(n) /\ n # w
                => bindings_row'[n] = bindings_row[n]
           /\ \A n \in Binding!Resources : BindRow(bindings_row[n])'
           /\ \A n \in Binding!Resources : Binding!IsWorker(n)' <=> Binding!IsWorker(n)
           /\ \A n \in Binding!Resources : Binding!IsQueue(n) \/ n \in Binding!Referred(m)
                => Binding!IsQueue(n)'
           /\ \A n \in Binding!Resources :
                 Binding!IsQueue(n)' /\ bindings_row'[n].consumer = i <=> n \in m.consumes
           /\ \A n \in Binding!Resources, id \in 1..bindings_made \ {i} :
                 Binding!IsQueue(n)' /\ bindings_row'[n].consumer = id <=> Binding!IsQueue(n)
                   /\ bindings_row[n].consumer = id
           /\ \A n \in Binding!Resources :
                 Binding!IsQueue(n) /\ bindings_row[n].consumer # Binding!Nobody
                    => bindings_row'[n].consumer \in {bindings_row[n].consumer, Binding!Nobody}
<1>1. bindings_made \in Nat /\ i # Binding!Nobody
  BY BindNumbers DEF Binding!Nobody
<1>2. bindings_row'[w] = Binding!Worker(i, "sleeping", m)
  <2>1. bindings_row[w] = Binding!Worker(i, bindings_row[w].state, m)
    BY BindIsWorker
  <2>2. bindings_row'[w] = [bindings_row[w] EXCEPT !.state = "sleeping"]
    OBVIOUS
  <2>3. QED
    BY <2>1, <2>2 DEF Binding!Worker
<1>3. m.consumes \subseteq Binding!Referred(m) /\ m.dead \subseteq Binding!Resources
  BY BindNames
<1>4. w \notin Binding!Referred(m)
  BY DEF Binding!Legal
<1>5. ASSUME NEW n \in Binding!Resources \ {w}
      PROVE  /\ Binding!IsWorker(n) => bindings_row'[n] = bindings_row[n]
             /\ BindRow(bindings_row[n])'
             /\ Binding!IsWorker(n)' => Binding!IsWorker(n)
             /\ Binding!IsQueue(n) \/ n \in Binding!Referred(m) => Binding!IsQueue(n)'
             /\ Binding!IsQueue(n)' /\ bindings_row'[n].consumer = i <=> n \in m.consumes
             /\ \A id \in 1..bindings_made \ {i} :
                   Binding!IsQueue(n)' /\ bindings_row'[n].consumer = id <=> Binding!IsQueue(n)
                     /\ bindings_row[n].consumer = id
             /\ Binding!IsQueue(n) /\ bindings_row[n].consumer # Binding!Nobody
                   => bindings_row'[n].consumer \in {bindings_row[n].consumer, Binding!Nobody}
  <2>1. bindings_row'[n] = Binding!Joined(i, m, n)
    OBVIOUS
  <2>2. BindRow(bindings_row[n])
    BY DEF BindTypes
  <2>3. BindRow(Binding!Queue(i, m.dead))' /\ BindRow(Binding!Queue(Binding!Nobody, {}))'
    <3>1. i \in 0..bindings_made' /\ 0 \in 0..bindings_made'
            /\ m.dead \in SUBSET Binding!Resources
      BY <1>1, <1>3
    <3>2. QED
      BY <3>1 DEF BindRow, Binding!Nobody
  <2>4. CASE n \in m.consumes
    <3>1. bindings_row'[n] = Binding!Queue(i, m.dead)
      BY <2>1, <2>4 DEF Binding!Joined
    <3>2. ~Binding!IsWorker(n)
            /\ (Binding!IsQueue(n) => bindings_row[n].consumer \in {Binding!Nobody, i})
      BY <1>3, <2>4 DEF Binding!Legal
    <3>3. Binding!IsQueue(n)' /\ bindings_row'[n].consumer = i /\ ~Binding!IsWorker(n)'
      BY <3>1 DEF Binding!IsQueue, Binding!IsWorker, Binding!Queue
    <3>4. \A id \in 1..bindings_made \ {i} : id # Binding!Nobody
      BY <1>1 DEF Binding!Nobody
    <3>5. QED
      BY <2>3, <2>4, <3>1, <3>2, <3>3, <3>4
  <2>5. CASE n \in Binding!Referred(m) \ m.consumes /\ ~Binding!IsQueue(n)
    <3>1. bindings_row'[n] = Binding!Queue(Binding!Nobody, {})
      BY <2>1, <2>5 DEF Binding!Joined
    <3>2. ~Binding!IsWorker(n)
      BY <2>5 DEF Binding!Legal
    <3>3. Binding!IsQueue(n)' /\ bindings_row'[n].consumer = Binding!Nobody
            /\ ~Binding!IsWorker(n)'
      BY <3>1 DEF Binding!IsQueue, Binding!IsWorker, Binding!Queue
    <3>4. \A id \in 1..bindings_made \ {i} : id # Binding!Nobody
      BY <1>1 DEF Binding!Nobody
    <3>5. QED
      BY <1>1, <2>3, <2>5, <3>1, <3>2, <3>3, <3>4
  <2>6. CASE Binding!IsQueue(n) /\ n \notin m.consumes /\ bindings_row[n].consumer = i
    <3>1. bindings_row'[n] = Binding!Queue(Binding!Nobody, bindings_row[n].dead)
      BY <2>1, <2>6 DEF Binding!Joined
    <3>2. bindings_row[n].dead \in SUBSET Binding!Resources
      BY <2>6, BindIsQueue
    <3>3. BindRow(bindings_row[n])'
      BY <1>1, <3>1, <3>2 DEF BindRow, Binding!Nobody
    <3>4. Binding!IsQueue(n)' /\ bindings_row'[n].consumer = Binding!Nobody
            /\ ~Binding!IsWorker(n)' /\ ~Binding!IsWorker(n)
      BY <2>6, <3>1 DEF Binding!IsQueue, Binding!IsWorker, Binding!Queue
    <3>5. \A id \in 1..bindings_made \ {i} : id # Binding!Nobody
      BY <1>1 DEF Binding!Nobody
    <3>6. QED
      BY <1>1, <2>6, <3>3, <3>4, <3>5
  <2>7. CASE /\ n \notin m.consumes /\ (n \in Binding!Referred(m) => Binding!IsQueue(n))
             /\ (Binding!IsQueue(n) => bindings_row[n].consumer # i)
    <3>1. bindings_row'[n] = bindings_row[n]
      BY <2>1, <2>7 DEF Binding!Joined
    <3>2. BindRow(bindings_row[n])'
      BY <2>2, <3>1 DEF BindRow
    <3>3. (Binding!IsQueue(n)' <=> Binding!IsQueue(n))
            /\ (Binding!IsWorker(n)' <=> Binding!IsWorker(n))
      BY <3>1 DEF Binding!IsQueue, Binding!IsWorker
    <3>4. QED
      BY <2>7, <3>1, <3>2, <3>3
  <2>8. QED
    BY <2>4, <2>5, <2>6, <2>7
<1>6. /\ Binding!IsWorker(w)' /\ ~Binding!IsQueue(w)' /\ ~Binding!IsQueue(w)
           /\ BindRow(bindings_row[w])'
      /\ w \notin m.consumes
  <2>1. Binding!IsWorker(w)' /\ ~Binding!IsQueue(w)' /\ ~Binding!IsQueue(w)
    BY <1>2 DEF Binding!IsWorker, Binding!IsQueue, Binding!Worker
  <2>2. BindRow(bindings_row[w])'
    BY <1>2 DEF BindRow, BindStates
  <2>3. QED
    BY <1>3, <1>4, <2>1, <2>2
<1>7. \A n \in Binding!Resources :
         /\ Binding!IsWorker(n) /\ n # w => bindings_row'[n] = bindings_row[n]
         /\ BindRow(bindings_row[n])'
         /\ Binding!IsWorker(n)' <=> Binding!IsWorker(n)
         /\ Binding!IsQueue(n) \/ n \in Binding!Referred(m) => Binding!IsQueue(n)'
         /\ Binding!IsQueue(n)' /\ bindings_row'[n].consumer = i <=> n \in m.consumes
         /\ Binding!IsQueue(n) /\ bindings_row[n].consumer # Binding!Nobody
               => bindings_row'[n].consumer \in {bindings_row[n].consumer, Binding!Nobody}
  <2>1. TAKE n \in Binding!Resources
  <2>2. CASE n = w
    BY <1>4, <1>6, <2>2
  <2>3. CASE n # w
    <3>1. Binding!IsWorker(n) => Binding!IsWorker(n)'
      BY <1>5, <2>3 DEF Binding!IsWorker
    <3>2. QED
      BY <1>5, <2>3, <3>1
  <2>4. QED
    BY <2>2, <2>3
<1>8. ASSUME NEW n \in Binding!Resources, NEW id \in 1..bindings_made \ {i}
      PROVE  Binding!IsQueue(n)' /\ bindings_row'[n].consumer = id <=> Binding!IsQueue(n)
               /\ bindings_row[n].consumer = id
  <2>1. CASE n = w
    BY <1>6, <2>1
  <2>2. CASE n # w
    BY <1>5, <2>2
  <2>3. QED
    BY <2>1, <2>2
<1>9. QED
  BY <1>2, <1>7, <1>8

LEMMA BindProved ==
    ASSUME BindInv, NEW d \in BindDeploys, Binding!Proved(d)
    PROVE  BindInv'
<1>1. BindTypes /\ bindings_made \in Nat
  BY BindNumbers DEF BindInv
<1>2. PICK i \in 1..bindings_made : bindings_deploy[d].id = i
  BY <1>1 DEF BindTypes, BindDeploy, Binding!Idle, Binding!Proved
<1>3. /\ bindings_deploy' = [e \in BindDeploys |-> bindings_deploy'[e]]
      /\ bindings_deploy'[d] = Binding!Idle
           /\ \A e \in BindDeploys \ {d} : bindings_deploy'[e] = bindings_deploy[e]
      /\ \A e \in BindDeploys : bindings_deploy'[e] = bindings_deploy[e]
           \/ BindDeploy(bindings_deploy[e])'
      /\ \A id : ~Binding!At(d, id)'
  BY <1>1, BindFinish DEF Binding!Proved
<1>4. Proves(d, i) /\ UNCHANGED <<bindings_made, bindings_begun, bindings_unwound>>
  BY <1>2 DEF Binding!Proved, Proves
<1>5. \A id \in 1..bindings_made \ {i} : ~Binding!At(d, id) /\ ~Binding!At(d, id)'
  BY <1>2, <1>3 DEF Binding!At
<1>6. \A e \in BindDeploys :
         \/ bindings_deploy'[e] = bindings_deploy[e]
         \/ (\A id \in 1..bindings_made \ {i} : ~Binding!At(e, id) /\ ~Binding!At(e, id)')
  BY <1>3, <1>5
<1>7. bindings_made' \in bindings_made..BindMaxRows /\ bindings_begun' \in 0..BindMaxBegun
        /\ bindings_unwound' \subseteq 1..bindings_made'
  BY <1>1, <1>4, BindingBounds DEF BindTypes
<1>8. CASE Binding!NameOf(i) = {} /\ UNCHANGED <<bindings_row, bindings_torn, bindings_late>>
  <2>1. \A w \in Binding!Resources : ~(Binding!IsWorker(w) /\ bindings_row[w].id = i)
    BY <1>8 DEF Binding!NameOf
  <2>2. bindings_row' = [n \in Binding!Resources |-> bindings_row'[n]]
          /\ bindings_late' \in BOOLEAN /\ bindings_torn' \subseteq 1..bindings_made'
        /\ \A n \in Binding!Resources : bindings_row'[n] = bindings_row[n]
    BY <1>1, <1>4, <1>8 DEF BindTypes
  <2>3. BindTypes'
    BY <1>1, <1>3, <1>7, <2>2, BindKept
  <2>4. \A id \in 1..bindings_made \ {i} :
           /\ id \in bindings_torn' <=> id \in bindings_torn
           /\ id \in bindings_unwound' <=> id \in bindings_unwound
    BY <1>4, <1>8
  <2>5. QED
    BY <1>4, <1>6, <2>1, <2>2, <2>3, <2>4, BindOwn
<1>9. CASE \E w \in Binding!NameOf(i) : Binding!Join(d, w, bindings_row[w].id,
             bindings_row[w].manifest)
  <2>1. PICK w \in Binding!NameOf(i) : Binding!Join(d, w, bindings_row[w].id,
               bindings_row[w].manifest)
    BY <1>9
  <2>2. w \in Binding!Resources /\ Binding!IsWorker(w) /\ bindings_row[w].id = i
    BY <2>1 DEF Binding!NameOf
  <2>3. PICK m \in BindCode : bindings_row[w].manifest = m
    BY <1>1, <2>2, BindIsWorker
  <2>4. Binding!Join(d, w, i, m)
    BY <2>1, <2>2, <2>3
  <2>5. bindings_row[w] = Binding!Worker(i, bindings_row[w].state, m)
    BY <1>1, <2>2, <2>3, BindIsWorker
  <2>6. \A v \in Binding!Resources : Binding!IsWorker(v) /\ bindings_row[v].id = i => v = w
    BY <2>2 DEF BindInv, BindIds
  <2>7. CASE ~Binding!Legal(i, m)
    <3>1. bindings_row' = [bindings_row EXCEPT ![w]
            = [bindings_row[w] EXCEPT !.state = "sleeping"]]
          /\ bindings_torn' = bindings_torn \cup {i} /\ bindings_late' = TRUE
      BY <2>4, <2>7 DEF Binding!Join
    <3>2. /\ bindings_row'[w] = Binding!Worker(i, "sleeping", m)
               /\ \A n \in Binding!Resources \ {w} : bindings_row'[n] = bindings_row[n]
          /\ bindings_row' = [n \in Binding!Resources |-> bindings_row'[n]]
      <4>1. bindings_row = [n \in Binding!Resources |-> bindings_row[n]]
        BY <1>1 DEF BindTypes
      <4>2. bindings_row'[w] = [bindings_row[w] EXCEPT !.state = "sleeping"]
        BY <2>2, <3>1, <4>1
      <4>3. [bindings_row[w] EXCEPT !.state = "sleeping"] = Binding!Worker(i, "sleeping", m)
        BY <2>5 DEF Binding!Worker
      <4>4. QED
        BY <2>2, <3>1, <4>1, <4>2, <4>3
    <3>3. BindRow(bindings_row[w])' /\ Binding!IsWorker(w)' /\ bindings_row'[w].id = i
      BY <1>4, <3>2 DEF BindRow, BindStates, Binding!IsWorker, Binding!Worker
    <3>4. bindings_torn' \subseteq 1..bindings_made' /\ bindings_late' \in BOOLEAN
      BY <1>1, <1>4, <3>1 DEF BindTypes
    <3>5. BindTypes'
      <4>1. \A n \in Binding!Resources : bindings_row'[n] = bindings_row[n]
              \/ BindRow(bindings_row[n])'
        BY <3>2, <3>3
      <4>2. QED
        BY <1>1, <1>3, <1>7, <3>2, <3>4, <4>1, BindKept
    <3>6. \A id \in 1..bindings_made \ {i} :
             /\ id \in bindings_torn' <=> id \in bindings_torn
             /\ id \in bindings_unwound' <=> id \in bindings_unwound
      BY <1>4, <3>1
    <3>7. \A n \in Binding!Resources :
             \/ bindings_row'[n] = bindings_row[n]
             \/ Binding!IsWorker(n) /\ Binding!IsWorker(n)' /\ bindings_row[n].id = i
                  /\ bindings_row'[n].id = i
      BY <2>2, <3>2, <3>3
    <3>8. i \in bindings_torn'
      BY <3>1
    <3>9. QED
      BY <1>4, <1>6, <3>5, <3>6, <3>7, <3>8, BindOwn
  <2>8. CASE Binding!Legal(i, m)
    <3>1. /\ bindings_row' = [n \in Binding!Resources |-> IF n = w
               THEN [bindings_row[w] EXCEPT !.state = "sleeping"]
                                                          ELSE Binding!Joined(i, m, n)]
          /\ bindings_torn' = IF \A o \in BindDeploys \ {d} : ~Binding!At(o, i)
               THEN bindings_torn \ {i} ELSE bindings_torn \cup {i}
          /\ bindings_late' = bindings_late
      BY <2>4, <2>8 DEF Binding!Join
    <3>2. /\ \A n \in Binding!Resources :
                bindings_row'[n] = IF n = w THEN [bindings_row[w] EXCEPT !.state = "sleeping"]
                                   ELSE Binding!Joined(i, m, n)
          /\ bindings_row' = [n \in Binding!Resources |-> bindings_row'[n]]
               /\ bindings_made' = bindings_made
      BY <1>4, <3>1
    <3>3. /\ bindings_row'[w] = Binding!Worker(i, "sleeping", m)
          /\ \A n \in Binding!Resources : Binding!IsWorker(n) /\ n # w
               => bindings_row'[n] = bindings_row[n]
          /\ \A n \in Binding!Resources : BindRow(bindings_row[n])'
          /\ \A n \in Binding!Resources : Binding!IsWorker(n)' <=> Binding!IsWorker(n)
          /\ \A n \in Binding!Resources : Binding!IsQueue(n) \/ n \in Binding!Referred(m)
               => Binding!IsQueue(n)'
          /\ \A n \in Binding!Resources :
                Binding!IsQueue(n)' /\ bindings_row'[n].consumer = i <=> n \in m.consumes
          /\ \A n \in Binding!Resources, id \in 1..bindings_made \ {i} :
                Binding!IsQueue(n)' /\ bindings_row'[n].consumer = id <=> Binding!IsQueue(n)
                  /\ bindings_row[n].consumer = id
      BY <1>1, <2>2, <2>3, <2>8, <3>2, BindJoined
    <3>4. BindTypes'
      <4>1. bindings_torn' \subseteq 1..bindings_made' /\ bindings_late' \in BOOLEAN
        BY <1>1, <1>4, <3>1 DEF BindTypes
      <4>2. QED
        BY <1>1, <1>3, <1>7, <3>2, <3>3, <4>1, BindKept
    <3>5. bindings_row'[w].id = i /\ bindings_row'[w].manifest = m
      BY <3>3 DEF Binding!Worker
    <3>6. BindIds'
      <4>1. \A v \in Binding!Resources : Binding!IsWorker(v)'
              => Binding!IsWorker(v) /\ bindings_row'[v].id = bindings_row[v].id
        BY <2>2, <3>3, <3>5
      <4>2. QED
        BY <4>1 DEF BindInv, BindIds
    <3>7. ASSUME NEW v \in Binding!Resources, NEW id \in 1..bindings_made, Binding!IsWorker(v)',
                 bindings_row'[v].id = id,
                 id \notin bindings_torn'
          PROVE  BindStands(v, id)'
      <4>1. CASE v = w
        <5>1. id = i
          BY <3>5, <3>7, <4>1
        <5>2. \A o \in BindDeploys \ {d} : ~Binding!At(o, i)
          BY <3>1, <3>7, <5>1
        <5>3. \A o \in BindDeploys : ~Binding!At(o, i)' /\ ~Proves(o, i)'
          BY <1>3, <5>2 DEF Binding!At, Proves
        <5>4. Claimed(i)' = m.consumes
          <6>1. m.consumes \subseteq Binding!Resources
            BY BindNames
          <6>2. QED
            BY <3>3, <6>1 DEF Claimed, Binding!Resources
        <5>5. \A n \in Binding!Referred(m) : Binding!IsQueue(n)'
          BY <3>3, BindNames
        <5>6. Binding!Referred(bindings_row[w].manifest)' = Binding!Referred(m)
          BY <3>5 DEF Binding!Referred
        <5>7. QED
          BY <3>5, <4>1, <5>1, <5>3, <5>4, <5>5, <5>6 DEF BindStands
      <4>2. CASE v # w
        <5>1. Binding!IsWorker(v) /\ bindings_row'[v] = bindings_row[v]
                /\ bindings_row[v].id = id /\ id # i
          BY <2>6, <3>3, <3>7, <4>2
        <5>2. Claimed(id)' = Claimed(id)
          BY <3>3, <5>1 DEF Claimed, Binding!Resources
        <5>3. \A e \in BindDeploys : bindings_deploy'[e] = bindings_deploy[e]
                \/ (~Binding!At(e, id) /\ ~Binding!At(e, id)')
          BY <1>6, <5>1
        <5>4. \A n \in Binding!Resources : Binding!IsQueue(n)
                /\ n \in Binding!Referred(bindings_row[v].manifest) => Binding!IsQueue(n)'
          BY <3>3
        <5>5. (id \in bindings_torn => id \in bindings_torn')
                /\ (id \in bindings_unwound => id \in bindings_unwound')
          BY <1>4, <3>1, <5>1
        <5>6. QED
          BY <3>7, <5>1, <5>2, <5>3, <5>4, <5>5, BindOther
      <4>3. QED
        BY <4>1, <4>2
    <3>8. QED
      BY <1>4, <3>4, <3>6, <3>7 DEF BindInv
  <2>9. QED
    BY <2>7, <2>8
<1>10. QED
  BY <1>2, <1>8, <1>9 DEF Binding!Proved

\* A row that comes or goes when no deploy moves, or one that starts to prove the new row.
LEMMA BindCreateBuilt ==
    ASSUME BindInv, NEW d \in BindDeploys, Binding!CreateBuilt(d)
    PROVE  BindInv'
<1>1. BindTypes /\ bindings_made \in Nat
  BY BindNumbers DEF BindInv
<1>2. /\ bindings_deploy[d].at = "creating" /\ bindings_deploy[d].name \in Binding!Resources
      /\ bindings_deploy[d].manifest \in BindManifests
  BY <1>1 DEF BindTypes, BindDeploy, Binding!Idle, Binding!CreateBuilt, Binding!Resources
<1>3. UNCHANGED <<bindings_begun, bindings_torn, bindings_unwound, bindings_late>>
  BY DEF Binding!CreateBuilt
<1>4. CASE Binding!Finish(d) /\ UNCHANGED <<bindings_row, bindings_made>>
  <2>1. /\ bindings_deploy' = [e \in BindDeploys |-> bindings_deploy'[e]]
        /\ bindings_deploy'[d] = Binding!Idle
             /\ \A e \in BindDeploys \ {d} : bindings_deploy'[e] = bindings_deploy[e]
        /\ \A e \in BindDeploys : bindings_deploy'[e] = bindings_deploy[e]
             \/ BindDeploy(bindings_deploy[e])'
        /\ \A id : ~Binding!At(d, id)'
    BY <1>1, <1>4, BindFinish
  <2>2. bindings_row' = [n \in Binding!Resources |-> bindings_row'[n]]
          /\ \A n \in Binding!Resources : bindings_row'[n] = bindings_row[n]
    BY <1>1, <1>4 DEF BindTypes
  <2>3. /\ bindings_made' \in bindings_made..BindMaxRows /\ bindings_late' \in BOOLEAN
             /\ bindings_begun' \in 0..BindMaxBegun
        /\ bindings_torn' \subseteq 1..bindings_made'
             /\ bindings_unwound' \subseteq 1..bindings_made'
    BY <1>1, <1>3, <1>4, BindingBounds DEF BindTypes
  <2>4. BindTypes'
    BY <1>1, <2>1, <2>2, <2>3, BindKept
  <2>5. \A id \in 1..bindings_made : ~Binding!At(d, id) /\ ~Binding!At(d, id)'
    BY <1>2, <2>1 DEF Binding!At
  <2>6. QED
    BY <1>3, <1>4, <2>1, <2>4, <2>5, BindStill
<1>5. CASE bindings_row[bindings_deploy[d].name].kind = "none"
             /\ bindings_made' = bindings_made + 1
  <2>1. PICK w \in Binding!Resources : bindings_deploy[d].name = w
    BY <1>2
  <2>2. PICK m \in BindManifests : bindings_deploy[d].manifest = m
    BY <1>2
  <2>3. PICK i \in Nat : i = bindings_made + 1
    BY <1>1
  <2>4. bindings_made' = i /\ i \in 1..i /\ bindings_made < BindMaxRows
          /\ i \notin 1..bindings_made
    BY <1>1, <1>5, <2>3 DEF Binding!CreateBuilt
  <2>5. bindings_row' = [bindings_row EXCEPT ![w] = Binding!Worker(i, "creating", m)]
          /\ bindings_row[w].kind = "none"
    BY <1>1, <1>5, <2>1, <2>2, <2>3 DEF Binding!CreateBuilt
  <2>6. bindings_deploy' = [bindings_deploy EXCEPT ![d] = [at |-> "proving", id |-> i,
          before |-> Binding!Past(bindings_row'[w])]]
    BY <1>1, <1>5, <2>1, <2>2, <2>3 DEF Binding!CreateBuilt
  <2>7. /\ bindings_row'[w] = Binding!Worker(i, "creating", m)
             /\ \A n \in Binding!Resources \ {w} : bindings_row'[n] = bindings_row[n]
        /\ bindings_row' = [n \in Binding!Resources |-> bindings_row'[n]]
    BY <1>1, <2>5 DEF BindTypes
  <2>8. /\ bindings_deploy'[d] = [at |-> "proving", id |-> i,
             before |-> Binding!Past(bindings_row'[w])]
        /\ \A e \in BindDeploys \ {d} : bindings_deploy'[e] = bindings_deploy[e]
        /\ bindings_deploy' = [e \in BindDeploys |-> bindings_deploy'[e]]
    BY <1>1, <2>6 DEF BindTypes
  <2>9. Binding!Past(bindings_row'[w]) = [state |-> "creating", manifest |-> m]
    BY <2>7 DEF Binding!Past, Binding!Worker
  <2>10. BindTypes'
    <3>1. \A n \in Binding!Resources : bindings_row'[n] = bindings_row[n]
            \/ BindRow(bindings_row[n])'
      BY <2>4, <2>7 DEF BindRow, BindCode, BindStates
    <3>2. \A e \in BindDeploys : bindings_deploy'[e] = bindings_deploy[e]
            \/ BindDeploy(bindings_deploy[e])'
      <4>1. Binding!Past(bindings_row'[w]) \in BindPast
        BY <2>9 DEF BindPast, BindStates, BindCode
      <4>2. BindDeploy(bindings_deploy[d])'
        BY <2>4, <2>8, <4>1 DEF BindDeploy
      <4>3. QED
        BY <2>8, <4>2
    <3>3. bindings_made' \in bindings_made..BindMaxRows
      BY <1>1, <2>3, <2>4, BindingBounds
    <3>4. bindings_torn' \subseteq 1..bindings_made'
            /\ bindings_unwound' \subseteq 1..bindings_made'
      BY <1>1, <1>3, <2>3, <2>4 DEF BindTypes
    <3>5. bindings_late' \in BOOLEAN /\ bindings_begun' \in 0..BindMaxBegun
      BY <1>1, <1>3 DEF BindTypes
    <3>6. QED
      BY <1>1, <2>7, <2>8, <3>1, <3>2, <3>3, <3>4, <3>5, BindKept
  <2>11. ~Binding!IsWorker(w) /\ ~Binding!IsQueue(w) /\ Binding!IsWorker(w)'
           /\ ~Binding!IsQueue(w)' /\ bindings_row'[w].id = i
    BY <2>5, <2>7 DEF Binding!IsWorker, Binding!IsQueue, Binding!Worker
  <2>12. ASSUME NEW v \in Binding!Resources \ {w}
         PROVE  /\ Binding!IsWorker(v)' <=> Binding!IsWorker(v)
                /\ Binding!IsWorker(v)
                     => bindings_row'[v].id \in 1..bindings_made
                       /\ bindings_row'[v].id = bindings_row[v].id
    BY <1>1, <2>7, BindIsWorker DEF Binding!IsWorker
  <2>13. BindIds'
    BY <2>4, <2>11, <2>12 DEF BindInv, BindIds
  <2>14. \A e \in BindDeploys : bindings_deploy'[e] = bindings_deploy[e]
           \/ (\A k \in 1..bindings_made : ~Binding!At(e, k) /\ ~Binding!At(e, k)')
    BY <1>2, <2>4, <2>8 DEF Binding!At
  <2>15. i \notin bindings_torn /\ \A e \in BindDeploys : ~Proves(e, i)
    BY <1>1, <2>4 DEF BindTypes, BindDeploy, Binding!Idle, Proves
  <2>16. BindStands(w, i)'
    <3>1. Proves(d, i)' /\ bindings_deploy'[d].before.state = "creating"
      BY <2>8, <2>9 DEF Proves
    <3>2. \A e \in BindDeploys : (\A o \in BindDeploys \ {e} : ~Proves(o, i)') => e = d
      BY <3>1
    <3>3. QED
      BY <3>1, <3>2 DEF BindStands
  <2>17. ASSUME NEW v \in Binding!Resources, NEW id \in 1..bindings_made', Binding!IsWorker(v)',
                bindings_row'[v].id = id,
                id \notin bindings_torn'
         PROVE  BindStands(v, id)'
    <3>1. CASE v = w
      BY <2>11, <2>16, <2>17, <3>1
    <3>2. CASE v # w
      <4>1. Binding!IsWorker(v) /\ bindings_row[v].id = id /\ id \in 1..bindings_made
              /\ id \notin bindings_torn /\ v \in Binding!Resources \ {w}
        BY <1>3, <2>12, <2>17, <3>2
      <4>2. ~(Binding!IsQueue(w)' /\ bindings_row'[w].consumer # Binding!Nobody)
              /\ (Binding!IsQueue(w) => ~Binding!Bound(w))
        BY <2>11
      <4>3. \A k \in Binding!Resources \ {w} : bindings_row'[k] = bindings_row[k]
        BY <2>7
      <4>4. QED
        BY <1>3, <2>14, <4>1, <4>2, <4>3, BindNewRow
    <3>3. QED
      BY <3>1, <3>2
  <2>18. QED
    BY <2>10, <2>13, <2>17 DEF BindInv
<1>6. QED
  BY <1>4, <1>5 DEF Binding!CreateBuilt

LEMMA BindCreateBare ==
    ASSUME BindInv, NEW w \in BindWorkers, Binding!CreateBare(w)
    PROVE  BindInv'
<1>1. BindTypes /\ bindings_made \in Nat /\ w \in Binding!Resources
  BY BindNumbers DEF BindInv, Binding!Resources
<1>2. PICK i \in Nat : i = bindings_made + 1
  BY <1>1
<1>3. /\ bindings_made' = i /\ i \in 1..i /\ bindings_made < BindMaxRows
           /\ i \notin 1..bindings_made /\ i \notin 0..bindings_made
      /\ bindings_row' = [bindings_row EXCEPT ![w] = Binding!Worker(i, "undeployed",
           Binding!NoCode)] /\ bindings_row[w].kind = "none"
      /\ UNCHANGED <<bindings_deploy, bindings_begun, bindings_torn, bindings_unwound,
           bindings_late>>
  BY <1>1, <1>2 DEF Binding!CreateBare
<1>4. /\ bindings_row'[w] = Binding!Worker(i, "undeployed", Binding!NoCode)
      /\ \A n \in Binding!Resources \ {w} : bindings_row'[n] = bindings_row[n]
      /\ bindings_row' = [n \in Binding!Resources |-> bindings_row'[n]]
  BY <1>1, <1>3 DEF BindTypes
<1>5. BindTypes'
  <2>1. \A n \in Binding!Resources : bindings_row'[n] = bindings_row[n]
          \/ BindRow(bindings_row[n])'
    BY <1>3, <1>4 DEF BindRow, BindCode, BindStates
  <2>2. /\ \A e \in BindDeploys : bindings_deploy'[e] = bindings_deploy[e]
        /\ bindings_deploy' = [e \in BindDeploys |-> bindings_deploy'[e]]
    BY <1>1, <1>3 DEF BindTypes
  <2>3. bindings_made' \in bindings_made..BindMaxRows
    BY <1>1, <1>2, <1>3, BindingBounds
  <2>4. bindings_torn' \subseteq 1..bindings_made'
          /\ bindings_unwound' \subseteq 1..bindings_made'
    BY <1>1, <1>2, <1>3 DEF BindTypes
  <2>5. bindings_late' \in BOOLEAN /\ bindings_begun' \in 0..BindMaxBegun
    BY <1>1, <1>3 DEF BindTypes
  <2>6. QED
    BY <1>1, <1>4, <2>1, <2>2, <2>3, <2>4, <2>5, BindKept
<1>6. /\ ~Binding!IsWorker(w) /\ ~Binding!IsQueue(w) /\ Binding!IsWorker(w)'
           /\ ~Binding!IsQueue(w)'
      /\ bindings_row'[w].id = i /\ bindings_row'[w].manifest = Binding!NoCode
  BY <1>3, <1>4 DEF Binding!IsWorker, Binding!IsQueue, Binding!Worker
<1>7. ASSUME NEW v \in Binding!Resources \ {w}
      PROVE  /\ Binding!IsWorker(v)' <=> Binding!IsWorker(v)
             /\ Binding!IsWorker(v)
                  => bindings_row'[v].id \in 1..bindings_made
                    /\ bindings_row'[v].id = bindings_row[v].id
  BY <1>1, <1>4, BindIsWorker DEF Binding!IsWorker
<1>8. BindIds'
  BY <1>3, <1>6, <1>7 DEF BindInv, BindIds
<1>9. \A e \in BindDeploys : ~Binding!At(e, i)' /\ ~Proves(e, i)'
  <2>1. \A e \in BindDeploys : bindings_deploy'[e] = bindings_deploy[e]
          /\ BindDeploy(bindings_deploy[e])
    BY <1>1, <1>3 DEF BindTypes
  <2>2. QED
    BY <1>3, <2>1 DEF BindDeploy, Binding!Idle, Binding!At, Proves
<1>10. Claimed(i)' = {}
  <2>1. ASSUME NEW q \in Binding!Resources, Binding!IsQueue(q)',
               bindings_row'[q].consumer = i PROVE FALSE
    <3>1. q # w /\ bindings_row'[q] = bindings_row[q] /\ Binding!IsQueue(q)
      BY <1>4, <1>6, <2>1 DEF Binding!IsQueue
    <3>2. QED
      BY <1>1, <1>3, <2>1, <3>1, BindIsQueue
  <2>2. QED
    BY <2>1 DEF Claimed
<1>11. BindStands(w, i)'
  <2>1. Binding!NoCode.consumes = {} /\ Binding!Referred(Binding!NoCode) = {}
    BY DEF Binding!NoCode, Binding!Referred
  <2>2. Binding!Referred(bindings_row[w].manifest)' = {}
    BY <1>6, <2>1 DEF Binding!Referred
  <2>3. QED
    BY <1>6, <1>9, <1>10, <2>1, <2>2 DEF BindStands
<1>12. ASSUME NEW v \in Binding!Resources, NEW id \in 1..bindings_made', Binding!IsWorker(v)',
              bindings_row'[v].id = id,
              id \notin bindings_torn'
       PROVE  BindStands(v, id)'
  <2>1. CASE v = w
    BY <1>6, <1>11, <1>12, <2>1
  <2>2. CASE v # w
    <3>1. Binding!IsWorker(v) /\ bindings_row[v].id = id /\ id \in 1..bindings_made
            /\ id \notin bindings_torn /\ v \in Binding!Resources \ {w}
      BY <1>3, <1>7, <1>12, <2>2
    <3>2. ~(Binding!IsQueue(w)' /\ bindings_row'[w].consumer # Binding!Nobody)
            /\ (Binding!IsQueue(w) => ~Binding!Bound(w))
      BY <1>6
    <3>3. /\ \A k \in Binding!Resources \ {w} : bindings_row'[k] = bindings_row[k]
          /\ \A e \in BindDeploys :
                bindings_deploy'[e] = bindings_deploy[e]
                  \/ (\A k \in 1..bindings_made : ~Binding!At(e, k) /\ ~Binding!At(e, k)')
      BY <1>3, <1>4
    <3>4. QED
      BY <1>1, <1>3, <3>1, <3>2, <3>3, BindNewRow
  <2>3. QED
    BY <2>1, <2>2
<1>13. QED
  BY <1>5, <1>8, <1>12 DEF BindInv

\* A row of no worker takes the place of what was no bound queue.
LEMMA BindReplaced ==
    ASSUME BindInv, NEW n \in Binding!Resources, NEW r,
           bindings_row' = [bindings_row EXCEPT ![n] = r],
           r \in {Binding!NoRow, Binding!Queue(Binding!Nobody, {})}, Binding!IsQueue(n)
             => ~Binding!Bound(n),
           UNCHANGED <<bindings_deploy, bindings_made, bindings_begun, bindings_torn,
             bindings_unwound, bindings_late>>
    PROVE  BindInv'
<1>1. BindTypes /\ bindings_made \in Nat
  BY BindNumbers DEF BindInv
<1>2. /\ bindings_row'[n] = r /\ \A k \in Binding!Resources \ {n} : bindings_row'[k]
           = bindings_row[k]
      /\ bindings_row' = [k \in Binding!Resources |-> bindings_row'[k]]
  BY <1>1 DEF BindTypes
<1>3. BindTypes'
  <2>1. BindRow(bindings_row[n])'
    <3>1. CASE r = Binding!NoRow
      BY <1>2, <3>1 DEF BindRow
    <3>2. CASE r = Binding!Queue(Binding!Nobody, {})
      BY <1>1, <1>2, <3>2 DEF BindRow, Binding!Nobody
    <3>3. QED
      BY <3>1, <3>2
  <2>2. \A k \in Binding!Resources : bindings_row'[k] = bindings_row[k]
          \/ BindRow(bindings_row[k])'
    BY <1>2, <2>1
  <2>3. /\ \A e \in BindDeploys : bindings_deploy'[e] = bindings_deploy[e]
        /\ bindings_deploy' = [e \in BindDeploys |-> bindings_deploy'[e]]
    BY <1>1 DEF BindTypes
  <2>4. /\ bindings_made' \in bindings_made..BindMaxRows /\ bindings_late' \in BOOLEAN
             /\ bindings_begun' \in 0..BindMaxBegun
        /\ bindings_torn' \subseteq 1..bindings_made'
             /\ bindings_unwound' \subseteq 1..bindings_made'
    BY <1>1, BindingBounds DEF BindTypes
  <2>5. QED
    BY <1>1, <1>2, <2>2, <2>3, <2>4, BindKept
<1>4. ~Binding!IsWorker(n)' /\ ~(Binding!IsQueue(n)'
        /\ bindings_row'[n].consumer # Binding!Nobody)
  BY <1>2 DEF Binding!IsWorker, Binding!IsQueue, Binding!NoRow, Binding!Queue
<1>5. ASSUME NEW v \in Binding!Resources, Binding!IsWorker(v)'
             PROVE v # n /\ Binding!IsWorker(v) /\ bindings_row'[v] = bindings_row[v]
  BY <1>2, <1>4, <1>5 DEF Binding!IsWorker
<1>6. BindIds'
  BY <1>5 DEF BindInv, BindIds
<1>7. ASSUME NEW v \in Binding!Resources, NEW id \in 1..bindings_made', Binding!IsWorker(v)',
             bindings_row'[v].id = id,
             id \notin bindings_torn'
      PROVE  BindStands(v, id)'
  <2>1. v \in Binding!Resources \ {n} /\ Binding!IsWorker(v) /\ bindings_row[v].id = id
          /\ id \in 1..bindings_made /\ id \notin bindings_torn
    BY <1>5, <1>7
  <2>2. \A e \in BindDeploys :
           bindings_deploy'[e] = bindings_deploy[e]
             \/ (\A k \in 1..bindings_made : ~Binding!At(e, k) /\ ~Binding!At(e, k)')
    OBVIOUS
  <2>3. QED
    BY <1>2, <1>4, <2>1, <2>2, BindNewRow
<1>8. QED
  BY <1>3, <1>6, <1>7 DEF BindInv

LEMMA BindDestroyWorker ==
    ASSUME BindInv, NEW w \in BindWorkers, Binding!DestroyWorker(w) PROVE BindInv'
BY BindReplaced DEF Binding!DestroyWorker, Binding!IsWorker, Binding!IsQueue, Binding!Resources

LEMMA BindCreateQueue ==
    ASSUME BindInv, NEW q \in BindQueues, Binding!CreateQueue(q) PROVE BindInv'
BY BindReplaced DEF Binding!CreateQueue, Binding!IsQueue, Binding!Resources

LEMMA BindDestroyQueue ==
    ASSUME BindInv, NEW q \in Binding!Resources, Binding!DestroyQueue(q) PROVE BindInv'
BY BindReplaced DEF Binding!DestroyQueue

LEMMA BindStep == BindInv /\ [Binding!Next]_(Binding!vars) => BindInv'
<1> SUFFICES ASSUME BindInv, [Binding!Next]_(Binding!vars) PROVE BindInv'
  OBVIOUS
<1>1. ASSUME NEW d \in BindDeploys, NEW w \in BindWorkers, NEW m \in BindManifests,
             Binding!CreateBegins(d, w, m) \/ Binding!DeployBegins(d, w, m)
      PROVE  BindInv'
  BY <1>1, BindCreateBegins, BindDeployBegins
<1>2. ASSUME NEW d \in BindDeploys,
             Binding!CreateBuilt(d) \/ Binding!DeployBuilt(d) \/ Binding!BuildFails(d)
               \/ Binding!Proved(d) \/ Binding!ProveFails(d)
      PROVE  BindInv'
  BY <1>2, BindCreateBuilt, BindDeployBuilt, BindBuildFails, BindProved, BindProveFails
<1>3. ASSUME NEW w \in BindWorkers, Binding!CreateBare(w) \/ Binding!DestroyWorker(w)
             PROVE BindInv'
  BY <1>3, BindCreateBare, BindDestroyWorker
<1>4. ASSUME NEW q \in BindQueues, Binding!CreateQueue(q) PROVE BindInv'
  BY <1>4, BindCreateQueue
<1>5. ASSUME NEW q \in Binding!Resources, Binding!DestroyQueue(q) PROVE BindInv'
  BY <1>5, BindDestroyQueue
<1>6. CASE UNCHANGED Binding!vars
  <2>1. UNCHANGED <<bindings_row, bindings_deploy, bindings_made, bindings_begun, bindings_torn,
          bindings_unwound, bindings_late>>
    BY <1>6 DEF Binding!vars
  <2>2. BindTypes'
    BY <2>1 DEF BindInv, BindTypes, BindRow, BindDeploy
  <2>3. QED
    BY <2>1, <2>2, BindStill
<1>7. QED
  BY <1>1, <1>2, <1>3, <1>4, <1>5, <1>6 DEF Binding!Next

\* What a step does to a claim that a living worker has.
BindClaim(q) ==
    bindings_row[q].kind = "queue" /\ bindings_row[q].consumer \in Binding!Living
      /\ bindings_row'[q].kind = "queue" =>
                \/ bindings_row'[q].consumer \in {bindings_row[q].consumer, Binding!Nobody}
                \/ bindings_row[q].consumer \notin Binding!Living'

LEMMA BindClaims ==
    ASSUME BindInv, [Binding!Next]_(Binding!vars), NEW q \in Binding!Resources
           PROVE BindClaim(q)
<1> SUFFICES ASSUME Binding!IsQueue(q), bindings_row'[q].kind = "queue",
                    bindings_row[q].consumer \in Binding!Living
             PROVE  bindings_row'[q].consumer \in {bindings_row[q].consumer, Binding!Nobody}
  BY DEF BindClaim, Binding!IsQueue
<1>1. BindTypes /\ bindings_made \in Nat
  BY BindNumbers DEF BindInv
<1>2. bindings_row[q].consumer # Binding!Nobody
  BY <1>1 DEF Binding!Living, Binding!Nobody
<1>3. bindings_row = [n \in Binding!Resources |-> bindings_row[n]]
  BY <1>1 DEF BindTypes
<1>4. ASSUME bindings_row' = bindings_row
             PROVE bindings_row'[q].consumer = bindings_row[q].consumer
  BY <1>4
<1>5. ASSUME NEW n \in Binding!Resources, NEW r, bindings_row' = [bindings_row EXCEPT ![n] = r],
             n = q => r.kind # "queue" \/ r.consumer = Binding!Nobody
      PROVE  bindings_row'[q].consumer \in {bindings_row[q].consumer, Binding!Nobody}
  BY <1>3, <1>5
<1>6. ASSUME NEW d \in BindDeploys, Binding!Proved(d)
      PROVE  bindings_row'[q].consumer \in {bindings_row[q].consumer, Binding!Nobody}
  <2>1. CASE UNCHANGED bindings_row
    BY <2>1
  <2>2. CASE \E w \in Binding!NameOf(bindings_deploy[d].id) : Binding!Join(d, w,
               bindings_row[w].id, bindings_row[w].manifest)
    <3>1. PICK w \in Binding!NameOf(bindings_deploy[d].id) : Binding!Join(d, w,
                 bindings_row[w].id, bindings_row[w].manifest)
      BY <2>2
    <3>2. w \in Binding!Resources /\ Binding!IsWorker(w)
      BY <3>1 DEF Binding!NameOf
    <3>3. PICK i \in 1..bindings_made, m \in BindCode : bindings_row[w].id = i
                 /\ bindings_row[w].manifest = m
      BY <1>1, <3>2, BindIsWorker
    <3>4. Binding!Join(d, w, i, m) /\ w # q
      BY <3>1, <3>2, <3>3 DEF Binding!IsWorker, Binding!IsQueue
    <3>5. CASE Binding!Legal(i, m)
      <4>1. \A n \in Binding!Resources :
               bindings_row'[n] = IF n = w THEN [bindings_row[w] EXCEPT !.state = "sleeping"]
                                  ELSE Binding!Joined(i, m, n)
        BY <3>4, <3>5 DEF Binding!Join
      <4>2. UNCHANGED bindings_made
        BY <1>6 DEF Binding!Proved
      <4>3. \A n \in Binding!Resources :
               Binding!IsQueue(n) /\ bindings_row[n].consumer # Binding!Nobody
                  => bindings_row'[n].consumer \in {bindings_row[n].consumer, Binding!Nobody}
        BY <1>1, <3>2, <3>3, <3>5, <4>1, <4>2, BindJoined
      <4>4. QED
        BY <1>2, <4>3
    <3>6. CASE ~Binding!Legal(i, m)
      <4>1. bindings_row' = [bindings_row EXCEPT ![w]
              = [bindings_row[w] EXCEPT !.state = "sleeping"]]
        BY <3>4, <3>6 DEF Binding!Join
      <4>2. QED
        BY <1>3, <3>2, <3>4, <4>1
    <3>7. QED
      BY <3>5, <3>6
  <2>3. QED
    BY <1>6, <2>1, <2>2 DEF Binding!Proved
<1>7. ASSUME NEW d \in BindDeploys, Binding!DeployBuilt(d) \/ Binding!ProveFails(d)
      PROVE  bindings_row'[q].consumer = bindings_row[q].consumer
  <2>1. \A id : q \notin Binding!NameOf(id)
    BY DEF Binding!NameOf, Binding!IsWorker, Binding!IsQueue
  <2>2. bindings_row'[q] = bindings_row[q]
    BY <1>7, <2>1 DEF Binding!DeployBuilt, Binding!ProveFails
  <2>3. QED
    BY <2>2
<1>8. ASSUME NEW d \in BindDeploys, Binding!CreateBuilt(d)
      PROVE  bindings_row'[q].consumer \in {bindings_row[q].consumer, Binding!Nobody}
  <2>1. bindings_deploy[d].name \in Binding!Resources
    BY <1>1, <1>8 DEF BindTypes, BindDeploy, Binding!Idle, Binding!CreateBuilt,
                      Binding!Resources
  <2>2. CASE UNCHANGED bindings_row
    BY <2>2
  <2>3. CASE bindings_row' = [bindings_row EXCEPT ![bindings_deploy[d].name] =
                                                 Binding!Worker(bindings_made + 1, "creating",
                                                   bindings_deploy[d].manifest)]
    BY <1>5, <2>1, <2>3 DEF Binding!Worker
  <2>4. QED
    BY <1>8, <2>2, <2>3 DEF Binding!CreateBuilt
<1>9. ASSUME NEW w \in BindWorkers, Binding!CreateBare(w) \/ Binding!DestroyWorker(w)
      PROVE  bindings_row'[q].consumer \in {bindings_row[q].consumer, Binding!Nobody}
  <2>1. w \in Binding!Resources
    BY DEF Binding!Resources
  <2>2. CASE Binding!CreateBare(w)
    BY <1>5, <2>1, <2>2 DEF Binding!CreateBare, Binding!Worker
  <2>3. CASE Binding!DestroyWorker(w)
    BY <1>5, <2>1, <2>3 DEF Binding!DestroyWorker, Binding!NoRow
  <2>4. QED
    BY <1>9, <2>2, <2>3
<1>10. ASSUME NEW p \in BindQueues, Binding!CreateQueue(p)
       PROVE  bindings_row'[q].consumer \in {bindings_row[q].consumer, Binding!Nobody}
  <2>1. p \in Binding!Resources
    BY DEF Binding!Resources
  <2>2. QED
    BY <1>5, <1>10, <2>1 DEF Binding!CreateQueue, Binding!Queue
<1>11. ASSUME NEW p \in Binding!Resources, Binding!DestroyQueue(p)
       PROVE  bindings_row'[q].consumer \in {bindings_row[q].consumer, Binding!Nobody}
  BY <1>5, <1>11 DEF Binding!DestroyQueue, Binding!NoRow
<1>12. ASSUME NEW d \in BindDeploys, NEW w \in BindWorkers, NEW m \in BindManifests,
              Binding!CreateBegins(d, w, m) \/ Binding!DeployBegins(d, w, m)
       PROVE  bindings_row'[q].consumer = bindings_row[q].consumer
  BY <1>4, <1>12 DEF Binding!CreateBegins, Binding!DeployBegins
<1>13. ASSUME NEW d \in BindDeploys, Binding!BuildFails(d)
              PROVE bindings_row'[q].consumer = bindings_row[q].consumer
  BY <1>4, <1>13 DEF Binding!BuildFails
<1>14. CASE UNCHANGED Binding!vars
  BY <1>4, <1>14 DEF Binding!vars
<1>15. QED
  BY <1>6, <1>7, <1>8, <1>9, <1>10, <1>11, <1>12, <1>13, <1>14 DEF Binding!Next

\* The bindings stand.
LEMMA BindHolds == Binding!Spec => Binding!BindingsStand
<1>1. BindInv /\ [Binding!Next]_(Binding!vars) =>
         [\A q \in Binding!Resources :
            bindings_row[q].kind = "queue" /\ bindings_row[q].consumer \in Binding!Living
              /\ bindings_row'[q].kind = "queue" =>
                        \/ bindings_row'[q].consumer \in {bindings_row[q].consumer,
                             Binding!Nobody}
                        \/ bindings_row[q].consumer \notin Binding!Living']_(Binding!vars)
  BY BindClaims DEF BindClaim
<1>2. QED
  BY <1>1, BindInit, BindStep, BindSound, PTL DEF Binding!Spec, Binding!BindingsStand,
                                                  Binding!NoClaimIsStolen

-----------------------------------------------------------------------------
(* The verbs of the command line (Commands): the inductive invariant.      *)

CmdPlaces == {"make", "look", "asked", "fill", "call", "resolve", "building", "redeploy",
              "connect", "roll back", "look again", "use", "env", "rm"}
CmdOwners == {"make", "look", "look again", "roll back"}
CmdMakes  == {"fill", "building", "connect", "roll back", "look again"}
CmdVerbs == {a.verb : a \in CmdAsks}
CmdRecs == [verb : CmdVerbs, res : {a.res : a \in CmdAsks}, kind : {a.kind : a \in CmdAsks},
            id : Nat, made : Nat, mark : Nat, at : CmdPlaces]
CmdLast == [verb : CmdVerbs \cup {"none"}, code : {0, 1}, made : Nat,
            told : BOOLEAN, late : BOOLEAN, kept : BOOLEAN]

\* What the store has is of the project that has the name.
CmdStore ==
    /\ commands_ids \in 0 .. CmdMaxIds /\ commands_lost \in 0 .. CmdMaxLost
    /\ commands_project \in 0 .. commands_ids
    /\ \A r \in commands_rows :
          /\ r.of = commands_project /\ commands_project # Cmd!None
          /\ r.id \in 1 .. commands_ids
    /\ \A r, s \in commands_rows : r.name = s.name => r = s

\* What a command knows was so: a project is of its making where it still may undo it, and
\* a roll back of a deploy looked when there was nothing.
CmdKnows(c) ==
    \/ c = Cmd!Off
    \/ /\ c \in CmdRecs
       /\ c.id <= commands_ids /\ c.made <= commands_ids /\ c.mark <= commands_ids
       /\ c.made # Cmd!None \/ c.at \in CmdOwners => c.verb \in {"new", "deploy"}
       /\ c.made # Cmd!None => c.at \in CmdMakes
       /\ c.at \in {"asked", "rm"} /\ c.verb = "queue rm" => c.id <= c.mark
       /\ c.at = "roll back" /\ c.verb = "deploy" => \A r \in commands_rows : r.id > c.mark

\* What a command that has ended tells of what it made.
CmdEnd(l) ==
    /\ l \in CmdLast /\ l.made <= commands_ids
    /\ l.code = 1 /\ l.made # Cmd!None /\ l.made = commands_project =>
          l.told \/ l.late \/ l.kept

CmdInv ==
    /\ CmdStore
    /\ commands_cmd = [u \in CmdUsers |-> commands_cmd[u]]
    /\ \A u \in CmdUsers : CmdKnows(commands_cmd[u])
    /\ commands_last = [u \in CmdUsers |-> commands_last[u]]
    /\ \A u \in CmdUsers : CmdEnd(commands_last[u])
    /\ Cmd!OnlyTheKnownIsRemoved

-----------------------------------------------------------------------------
(* The commands: the steps.                                                *)

LEMMA CmdSound == CmdInv => Cmd!CommandsKeepTheirWord
BY DEF CmdInv, Cmd!CommandsKeepTheirWord, Cmd!TypeOK, Cmd!FailedLeavesNothing, CmdStore, CmdEnd

LEMMA CmdInit == Cmd!Init => CmdInv
<1> SUFFICES ASSUME Cmd!Init PROVE CmdInv
  OBVIOUS
<1>1. CmdStore
  BY CommandBounds DEF Cmd!Init, CmdStore, Cmd!None
<1>2. \A u \in CmdUsers : commands_cmd[u] = Cmd!Off /\ commands_last[u] = Cmd!Ended
  BY DEF Cmd!Init
<1>3. CmdEnd(Cmd!Ended)
  BY DEF Cmd!Init, CmdEnd, CmdLast, Cmd!Ended, Cmd!None
<1>4. QED
  BY <1>1, <1>2, <1>3 DEF Cmd!Init, CmdInv, CmdKnows, Cmd!OnlyTheKnownIsRemoved

\* What a step does to the numbers: what is new in the store has a new one.
CmdGrows ==
    /\ CmdStore' /\ commands_ids' \in {commands_ids, commands_ids + 1}
    /\ commands_project' \in {commands_project, Cmd!None} \/ commands_project' > commands_ids
    /\ \A r \in commands_rows' : r \in commands_rows \/ r.id > commands_ids

LEMMA CmdNumbers ==
    ASSUME CmdStore, CmdGrows
    PROVE  commands_ids \in Nat /\ commands_ids' \in Nat /\ commands_ids <= commands_ids'
             /\ \A r \in commands_rows' : r.id \in Nat
BY DEF CmdGrows, CmdStore

LEMMA CmdLater ==
    \A m, n, i \in Nat : m <= n => (i > n => i > m) /\ (n <= i => m <= i)
OBVIOUS

\* What a user knew, and how a command ended, stays true in a step that does not touch it.
LEMMA CmdKnowsKept ==
    ASSUME CmdStore, CmdGrows, NEW v \in CmdUsers, CmdKnows(commands_cmd[v]),
           commands_cmd'[v] = commands_cmd[v]
    PROVE  CmdKnows(commands_cmd[v])'
<1> SUFFICES ASSUME commands_cmd[v] # Cmd!Off PROVE CmdKnows(commands_cmd[v])'
  BY DEF CmdKnows
<1> DEFINE c == commands_cmd[v]
<1>1. /\ c \in CmdRecs /\ c.id <= commands_ids /\ c.made <= commands_ids
           /\ c.mark <= commands_ids
      /\ c.made # Cmd!None \/ c.at \in CmdOwners => c.verb \in {"new", "deploy"}
      /\ c.made # Cmd!None => c.at \in CmdMakes
      /\ c.at \in {"asked", "rm"} /\ c.verb = "queue rm" => c.id <= c.mark
      /\ c.at = "roll back" /\ c.verb = "deploy" => \A r \in commands_rows : r.id > c.mark
  BY DEF CmdKnows
<1>2. c.id \in Nat /\ c.made \in Nat /\ c.mark \in Nat /\ c' = c
  BY <1>1 DEF CmdRecs
<1>3. commands_ids \in Nat /\ commands_ids' \in Nat /\ commands_ids <= commands_ids'
        /\ \A r \in commands_rows' : r.id \in Nat
  BY CmdNumbers
<1>4. \A r \in commands_rows' : r \in commands_rows \/ r.id > commands_ids
  BY DEF CmdGrows
<1> HIDE DEF c
<1>5. c.id <= commands_ids /\ c.made <= commands_ids /\ c.mark <= commands_ids
  BY <1>1
<1>6. c.id <= commands_ids' /\ c.made <= commands_ids' /\ c.mark <= commands_ids'
  BY <1>2, <1>3, <1>5
<1>7. c.at = "roll back" /\ c.verb = "deploy" => \A r \in commands_rows' : r.id > c.mark
  <2> SUFFICES ASSUME c.at = "roll back", c.verb = "deploy", NEW r \in commands_rows'
                      PROVE r.id > c.mark
    OBVIOUS
  <2>1. CASE r \in commands_rows
    BY <1>1, <2>1
  <2>2. CASE r.id > commands_ids
    BY <1>2, <1>3, <1>5, <2>2, CmdLater
  <2>3. QED
    BY <1>4, <2>1, <2>2
<1>8. QED
  BY <1>1, <1>2, <1>6, <1>7 DEF CmdKnows, c

LEMMA CmdEndKept ==
    ASSUME CmdStore, CmdGrows, NEW v \in CmdUsers, CmdEnd(commands_last[v]),
           commands_last'[v] = commands_last[v]
    PROVE  CmdEnd(commands_last[v])'
<1> DEFINE l == commands_last[v]
<1>1. /\ l \in CmdLast /\ l.made <= commands_ids
      /\ l.code = 1 /\ l.made # Cmd!None /\ l.made = commands_project
           => l.told \/ l.late \/ l.kept
  BY DEF CmdEnd
<1>2. l.made \in Nat /\ l' = l
  BY <1>1 DEF CmdLast
<1>3. /\ commands_ids \in Nat /\ commands_ids' \in Nat /\ commands_ids <= commands_ids'
      /\ commands_project' = commands_project \/ commands_project' = Cmd!None
           \/ commands_project' > commands_ids
  BY DEF CmdGrows, CmdStore
<1> HIDE DEF l
<1>4. l.made <= commands_ids' /\ (l.made # Cmd!None /\ l.made = commands_project'
        => l.made = commands_project)
  BY <1>1, <1>2, <1>3
<1>5. QED
  BY <1>1, <1>2, <1>4 DEF CmdEnd, l

\* A step of u's command.
LEMMA CmdMoves ==
    ASSUME CmdInv, NEW u \in CmdUsers, CmdGrows, Cmd!OnlyTheKnownIsRemoved',
           commands_cmd' = [commands_cmd EXCEPT ![u] = commands_cmd'[u]],
             CmdKnows(commands_cmd[u])',
           commands_last' = [commands_last EXCEPT ![u] = commands_last'[u]],
             CmdEnd(commands_last[u])'
    PROVE  CmdInv'
<1>1. /\ commands_cmd' = [v \in CmdUsers |-> commands_cmd'[v]]
           /\ \A v \in CmdUsers \ {u} : commands_cmd'[v] = commands_cmd[v]
      /\ commands_last' = [v \in CmdUsers |-> commands_last'[v]]
           /\ \A v \in CmdUsers \ {u} : commands_last'[v] = commands_last[v]
  BY DEF CmdInv
<1>2. \A v \in CmdUsers \ {u} : CmdKnows(commands_cmd[v])'
  BY <1>1, CmdKnowsKept DEF CmdInv
<1>3. \A v \in CmdUsers \ {u} : CmdEnd(commands_last[v])'
  BY <1>1, CmdEndKept DEF CmdInv
<1>4. QED
  BY <1>1, <1>2, <1>3 DEF CmdInv, CmdGrows

\* Nothing in the store moves.
LEMMA CmdStill ==
    ASSUME CmdInv, UNCHANGED Cmd!Store, commands_lost' \in 0 .. CmdMaxLost
    PROVE  CmdGrows
BY DEF CmdInv, CmdStore, CmdGrows, Cmd!Store

LEMMA CmdOne == ASSUME CmdInv, NEW u \in CmdUsers
  PROVE CmdKnows(commands_cmd[u]) /\ CmdEnd(commands_last[u])
BY DEF CmdInv

\* A command that is under way.
LEMMA CmdBusy ==
    ASSUME CmdInv, NEW u \in CmdUsers, commands_cmd[u].at # "off"
    PROVE  /\ commands_cmd[u] \in CmdRecs /\ commands_cmd[u].id <= commands_ids
                /\ commands_cmd[u].made <= commands_ids /\ commands_cmd[u].mark <= commands_ids
           /\ commands_cmd[u].id \in Nat /\ commands_cmd[u].made \in Nat
                /\ commands_cmd[u].mark \in Nat
           /\ commands_cmd[u].made # Cmd!None \/ commands_cmd[u].at \in CmdOwners =>
                          commands_cmd[u].verb \in {"new", "deploy"}
           /\ commands_cmd[u].made # Cmd!None => commands_cmd[u].at \in CmdMakes
           /\ commands_cmd[u].at \in {"asked", "rm"} /\ commands_cmd[u].verb = "queue rm" =>
                          commands_cmd[u].id <= commands_cmd[u].mark
           /\ commands_cmd[u].at = "roll back" /\ commands_cmd[u].verb = "deploy" =>
                          \A r \in commands_rows : r.id > commands_cmd[u].mark
<1>1. commands_cmd[u] # Cmd!Off /\ CmdKnows(commands_cmd[u])
  BY DEF CmdInv, Cmd!Off
<1>2. commands_cmd[u] \in CmdRecs
  BY <1>1 DEF CmdKnows
<1>3. commands_cmd[u].id \in Nat /\ commands_cmd[u].made \in Nat /\ commands_cmd[u].mark \in Nat
  BY <1>2 DEF CmdRecs
<1>4. QED
  BY <1>1, <1>3 DEF CmdKnows

LEMMA CmdUnmade ==
    ASSUME CmdInv, NEW u \in CmdUsers, commands_cmd[u].at # "off",
           commands_cmd[u].at \notin CmdMakes
    PROVE  commands_cmd[u].made = Cmd!None
BY CmdBusy

\* A command that ends: what it made is gone or is spoken of.
LEMMA CmdExits ==
    ASSUME CmdInv, NEW u \in CmdUsers, commands_cmd[u].at # "off", CmdGrows,
           Cmd!OnlyTheKnownIsRemoved',
           NEW code \in {0, 1}, NEW told \in BOOLEAN, Cmd!Exit(u, code, told),
           code = 1 /\ commands_cmd[u].made # Cmd!None
             /\ commands_cmd[u].made = commands_project' =>
               told \/ commands_cmd[u].at = "connect"
                 \/ (commands_cmd[u].at = "look again" /\ Cmd!Here # {})
    PROVE  CmdInv'
<1>1. /\ commands_cmd' = [commands_cmd EXCEPT ![u] = commands_cmd'[u]]
           /\ commands_cmd'[u] = Cmd!Off
      /\ commands_last' = [commands_last EXCEPT ![u] = commands_last'[u]]
      /\ commands_last'[u] = [verb |-> commands_cmd[u].verb, code |-> code,
           made |-> commands_cmd[u].made, told |-> told,
                              late |-> commands_cmd[u].at = "connect",
                              kept |-> commands_cmd[u].at = "look again" /\ Cmd!Here # {}]
  BY DEF Cmd!Exit, CmdInv
<1>2. commands_cmd[u].verb \in CmdVerbs /\ commands_cmd[u].made \in Nat
        /\ commands_cmd[u].made <= commands_ids'
  <2>1. commands_cmd[u] \in CmdRecs /\ commands_cmd[u].made \in Nat
          /\ commands_cmd[u].made <= commands_ids
    BY CmdBusy
  <2>2. CmdStore
    BY DEF CmdInv
  <2>3. commands_ids \in Nat /\ commands_ids' \in Nat /\ commands_ids <= commands_ids'
    BY <2>2, CmdNumbers
  <2>4. commands_cmd[u].verb \in CmdVerbs
    BY <2>1 DEF CmdRecs
  <2>5. QED
    BY <2>1, <2>3, <2>4, CmdLater
<1>3. CmdEnd(commands_last[u])'
  <2> DEFINE l == commands_last'[u]
             late == commands_cmd[u].at = "connect"
             kept == commands_cmd[u].at = "look again" /\ Cmd!Here # {}
  <2>1. late \in BOOLEAN /\ kept \in BOOLEAN
    OBVIOUS
  <2>2. l = [verb |-> commands_cmd[u].verb, code |-> code, made |-> commands_cmd[u].made,
          told |-> told,
             late |-> late, kept |-> kept]
    BY <1>1 DEF late, kept
  <2> HIDE DEF l, late, kept
  <2>3. l \in CmdLast
    BY <1>2, <2>1, <2>2 DEF CmdLast
  <2>4. l.code = code /\ l.made = commands_cmd[u].made /\ l.told = told /\ l.late = late
          /\ l.kept = kept
    BY <2>2
  <2>5. l.code = 1 /\ l.made # Cmd!None /\ l.made = commands_project'
          => l.told \/ l.late \/ l.kept
    BY <2>4 DEF late, kept
  <2>6. QED
    BY <1>2, <2>3, <2>4, <2>5 DEF CmdEnd, l
<1>4. CmdEnd(commands_last[u])' /\ CmdKnows(commands_cmd[u])'
  BY <1>1, <1>3 DEF CmdEnd, CmdKnows
<1>5. QED
  BY <1>1, <1>4, CmdMoves

LEMMA CmdExitsWell ==
    ASSUME CmdInv, NEW u \in CmdUsers, commands_cmd[u].at # "off", CmdGrows,
           Cmd!OnlyTheKnownIsRemoved',
           Cmd!Exit(u, 0, FALSE)
    PROVE  CmdInv'
<1>1. ~(0 = 1)
  OBVIOUS
<1>2. 0 \in {0, 1} /\ FALSE \in BOOLEAN
  OBVIOUS
<1>3. QED
  BY <1>1, <1>2, CmdExits

\* A command that goes on, and what it knows then.
LEMMA CmdGoesOn ==
    ASSUME CmdInv, NEW u \in CmdUsers, CmdGrows, Cmd!OnlyTheKnownIsRemoved',
           UNCHANGED commands_last,
           commands_cmd' = [commands_cmd EXCEPT ![u] = commands_cmd'[u]],
             CmdKnows(commands_cmd[u])'
    PROVE  CmdInv'
<1>1. commands_last' = [commands_last EXCEPT ![u] = commands_last'[u]]
        /\ commands_last'[u] = commands_last[u] /\ CmdStore /\ CmdEnd(commands_last[u])
  BY DEF CmdInv
<1>2. CmdEnd(commands_last[u])'
  BY <1>1, CmdEndKept
<1>3. QED
  BY <1>1, <1>2, CmdMoves

LEMMA CmdUnspilt == ASSUME CmdInv, UNCHANGED commands_spilt PROVE Cmd!OnlyTheKnownIsRemoved'
BY DEF CmdInv, Cmd!OnlyTheKnownIsRemoved

LEMMA CmdHeard == ASSUME CmdInv, Cmd!Heard \/ Cmd!Unheard
  PROVE commands_lost' \in 0 .. CmdMaxLost
BY CommandBounds DEF CmdInv, CmdStore, Cmd!Heard, Cmd!Unheard

\* Neither the store nor what was taken from it moves.
LEMMA CmdQuiet ==
    ASSUME CmdInv, UNCHANGED <<Cmd!Store, commands_spilt>>, Cmd!Heard \/ Cmd!Unheard
    PROVE  CmdGrows /\ Cmd!OnlyTheKnownIsRemoved'
BY CmdStill, CmdUnspilt, CmdHeard

LEMMA CmdBegin == ASSUME CmdInv, NEW u \in CmdUsers, NEW a \in CmdAsks, Cmd!Begin(u, a)
  PROVE CmdInv'
<1> DEFINE where == CASE a.verb = "new" -> "make" [] a.verb = "deploy" -> "look"
                      [] a.verb \in Cmd!AsksFirst -> "asked" [] a.verb = "create" -> "fill"
                      [] a.verb = "snapshot" -> "call" [] OTHER -> "resolve"
           c == [verb |-> a.verb, res |-> a.res, kind |-> a.kind, id |-> Cmd!None,
                 made |-> Cmd!None, mark |-> commands_ids, at |-> where]
<1>1. commands_cmd' = [commands_cmd EXCEPT ![u] = c]
        /\ UNCHANGED <<Cmd!Store, commands_last, commands_lost, commands_spilt>>
  BY DEF Cmd!Begin
<1>2. commands_cmd'[u] = c /\ commands_cmd' = [commands_cmd EXCEPT ![u] = commands_cmd'[u]]
  BY <1>1 DEF CmdInv
<1>3. /\ where \in CmdPlaces \ {"rm", "roll back"}
      /\ (where = "asked" => a.verb # "queue rm")
      /\ (where \in CmdOwners => a.verb \in {"new", "deploy"})
  BY DEF CmdPlaces, Cmd!AsksFirst, CmdOwners
<1>4. CmdGrows /\ Cmd!OnlyTheKnownIsRemoved' /\ UNCHANGED commands_ids
  BY <1>1, CmdQuiet DEF Cmd!Heard, Cmd!Store
<1>5. CmdStore
  BY DEF CmdInv
<1>6. commands_ids \in Nat
  BY <1>4, <1>5, CmdNumbers
<1> HIDE DEF where
<1>7. c \in CmdRecs
  BY <1>3, <1>6 DEF CmdRecs, CmdVerbs, Cmd!None
<1>8. c.id <= commands_ids' /\ c.made <= commands_ids' /\ c.mark <= commands_ids'
  BY <1>4, <1>6 DEF Cmd!None
<1>9. c.at = where /\ c.verb = a.verb /\ c.made = Cmd!None
  OBVIOUS
<1> HIDE DEF c
<1>10. CmdKnows(commands_cmd[u])'
  BY <1>2, <1>3, <1>7, <1>8, <1>9 DEF CmdKnows
<1>11. QED
  BY <1>1, <1>2, <1>4, <1>10, CmdGoesOn

\* A command goes to another place in its code, with no more than the store moved.
LEMMA CmdGoes ==
    ASSUME CmdInv, NEW u \in CmdUsers, commands_cmd[u].at # "off", CmdGrows,
           Cmd!OnlyTheKnownIsRemoved',
           UNCHANGED commands_last, NEW where \in CmdPlaces, Cmd!Go(u, where),
           where \in CmdOwners => commands_cmd[u].verb \in {"new", "deploy"},
           commands_cmd[u].made # Cmd!None => where \in CmdMakes,
           where \in {"asked", "rm"} /\ commands_cmd[u].verb = "queue rm"
             => commands_cmd[u].id <= commands_cmd[u].mark,
           where = "roll back" => commands_cmd[u].verb # "deploy"
    PROVE  CmdInv'
<1> DEFINE c == commands_cmd[u]
           d == [c EXCEPT !.at = where]
<1>1. commands_cmd' = [commands_cmd EXCEPT ![u] = d]
  BY DEF Cmd!Go
<1>2. commands_cmd'[u] = d /\ commands_cmd' = [commands_cmd EXCEPT ![u] = commands_cmd'[u]]
  BY <1>1 DEF CmdInv
<1>3. c \in CmdRecs /\ c.id <= commands_ids /\ c.made <= commands_ids /\ c.mark <= commands_ids
  BY CmdBusy
<1>4. c.made # Cmd!None => c.verb \in {"new", "deploy"}
  BY CmdBusy
<1>5. c.id \in Nat /\ c.made \in Nat /\ c.mark \in Nat
  BY CmdBusy
<1>6. CmdStore
  BY DEF CmdInv
<1>7. c.id <= commands_ids' /\ c.made <= commands_ids' /\ c.mark <= commands_ids'
  BY <1>3, <1>5, <1>6, CmdNumbers, CmdLater
<1>8. /\ d \in CmdRecs /\ d.at = where /\ d.verb = c.verb
      /\ d.id = c.id /\ d.made = c.made /\ d.mark = c.mark
  BY <1>3 DEF CmdRecs
<1> HIDE DEF d
<1>9. CmdKnows(commands_cmd[u])'
  BY <1>2, <1>4, <1>7, <1>8 DEF CmdKnows
<1>10. QED
  BY <1>2, <1>9, CmdGoesOn

\* The catch: it takes back what it made, or says so, or has made nothing.
LEMMA CmdCatch ==
    ASSUME CmdInv, NEW u \in CmdUsers, commands_cmd[u].at # "off", CmdGrows,
           Cmd!OnlyTheKnownIsRemoved',
           Cmd!Fails(u)
    PROVE  CmdInv'
<1>1. CASE commands_cmd[u].verb = "new"
  <2>1. Cmd!Go(u, "roll back") /\ UNCHANGED commands_last
    BY <1>1 DEF Cmd!Fails
  <2>2. QED
    BY <1>1, <2>1, CmdGoes DEF CmdPlaces, CmdMakes, CmdOwners
<1>2. CASE commands_cmd[u].verb = "deploy" /\ commands_cmd[u].made # Cmd!None
  <2>1. Cmd!Go(u, "look again") /\ UNCHANGED commands_last
    BY <1>2 DEF Cmd!Fails
  <2>2. QED
    BY <1>2, <2>1, CmdGoes DEF CmdPlaces, CmdMakes, CmdOwners
<1>3. CASE ~(commands_cmd[u].verb = "new")
             /\ ~(commands_cmd[u].verb = "deploy" /\ commands_cmd[u].made # Cmd!None)
  <2>1. Cmd!Exit(u, 1, FALSE)
    BY <1>3 DEF Cmd!Fails
  <2>2. commands_cmd[u].made = Cmd!None
    BY <1>3, CmdBusy
  <2>3. QED
    BY <2>1, <2>2, CmdExits
<1>4. QED
  BY <1>1, <1>2, <1>3

LEMMA CmdLook == ASSUME CmdInv, NEW u \in CmdUsers, Cmd!Look(u) PROVE CmdInv'
<1>1. commands_cmd[u].at = "look" /\ UNCHANGED <<Cmd!Store, commands_lost, commands_spilt>>
  BY DEF Cmd!Look, Cmd!At
<1>2. CmdGrows /\ Cmd!OnlyTheKnownIsRemoved' /\ commands_cmd[u].made = Cmd!None
        /\ UNCHANGED commands_ids
  <2>1. commands_cmd[u].made = Cmd!None
    BY <1>1, CmdUnmade DEF CmdMakes
  <2>2. QED
    BY <1>1, <2>1, CmdQuiet DEF Cmd!Heard, Cmd!Store
<1>3. CASE Cmd!Exit(u, 1, FALSE)
  BY <1>1, <1>2, <1>3, CmdExits
<1>4. CASE ~Cmd!Exit(u, 1, FALSE)
  <2> DEFINE where == IF commands_project = Cmd!None THEN "make"
                      ELSE IF Cmd!Named(commands_cmd[u].res) # {} THEN "redeploy" ELSE "fill"
             id == IF Cmd!Named(commands_cmd[u].res) = {} THEN Cmd!None
                   ELSE (CHOOSE r \in Cmd!Named(commands_cmd[u].res) : TRUE).id
             c == commands_cmd[u]
             d == [c EXCEPT !.at = where, !.id = id]
  <2>1. commands_cmd' = [commands_cmd EXCEPT ![u].at = where, ![u].id = id]
          /\ UNCHANGED commands_last
    <3> HIDE DEF where, id
    <3> QED
      BY <1>4 DEF Cmd!Look, where, id
  <2>2. where \in {"make", "redeploy", "fill"}
    OBVIOUS
  <2>3. CmdStore
    BY DEF CmdInv
  <2>4. id \in Nat /\ id <= commands_ids
    <3>1. CASE Cmd!Named(c.res) = {}
      BY <2>3, <3>1 DEF Cmd!None, CmdStore
    <3>2. CASE Cmd!Named(c.res) # {}
      <4>1. (CHOOSE r \in Cmd!Named(c.res) : TRUE) \in commands_rows
        BY <3>2 DEF Cmd!Named, Cmd!Here
      <4>2. QED
        BY <2>3, <3>2, <4>1 DEF CmdStore
    <3>3. QED
      BY <3>1, <3>2
  <2> HIDE DEF where, id
  <2>5. commands_cmd' = [commands_cmd EXCEPT ![u] = d] /\ commands_cmd'[u] = d
          /\ commands_cmd' = [commands_cmd EXCEPT ![u] = commands_cmd'[u]]
    BY <2>1 DEF CmdInv
  <2>6. /\ c \in CmdRecs /\ c.made <= commands_ids /\ c.mark <= commands_ids
        /\ c.verb \in {"new", "deploy"}
    BY <1>1, CmdBusy DEF CmdOwners
  <2>7. /\ d \in CmdRecs /\ d.at = where /\ d.made = c.made /\ d.id = id /\ d.mark = c.mark
        /\ d.verb = c.verb
    BY <2>2, <2>4, <2>6 DEF CmdRecs, CmdPlaces
  <2> HIDE DEF d
  <2>8. CmdKnows(commands_cmd[u])'
    BY <1>2, <2>2, <2>4, <2>5, <2>6, <2>7 DEF CmdKnows
  <2>9. QED
    BY <1>2, <2>1, <2>5, <2>8, CmdGoesOn
<1>5. QED
  BY <1>3, <1>4

LEMMA CmdMakeProject == ASSUME CmdInv, NEW u \in CmdUsers, Cmd!MakeProject(u) PROVE CmdInv'
<1>0. commands_cmd[u].at = "make" /\ UNCHANGED commands_spilt
  BY DEF Cmd!MakeProject, Cmd!At
<1>1. commands_cmd[u].at = "make" /\ UNCHANGED commands_spilt /\ commands_cmd[u].made = Cmd!None
  BY <1>0, CmdUnmade DEF CmdMakes
<1>2. CASE UNCHANGED <<Cmd!Store, commands_lost>> /\ Cmd!Exit(u, 1, FALSE)
  BY <1>1, <1>2, CmdQuiet, CmdExits DEF Cmd!Heard
<1>3. CASE ~(UNCHANGED <<Cmd!Store, commands_lost>> /\ Cmd!Exit(u, 1, FALSE))
  <2>1. /\ commands_project = Cmd!None /\ commands_ids < CmdMaxIds
             /\ commands_ids' = commands_ids + 1 /\ commands_project' = commands_ids'
        /\ UNCHANGED commands_rows
        /\ \/ /\ Cmd!Heard /\ UNCHANGED commands_last
              /\ commands_cmd' = [commands_cmd EXCEPT ![u].at = "fill",
                   ![u].made = commands_ids', ![u].mark = commands_ids']
           \/ Cmd!Unheard /\ Cmd!Exit(u, 1, TRUE)
    BY <1>3 DEF Cmd!MakeProject
  <2>2. CmdStore /\ commands_lost' \in 0 .. CmdMaxLost
    BY <2>1, CmdHeard DEF CmdInv
  <2>3. commands_ids \in Nat /\ commands_ids' \in 0 .. CmdMaxIds /\ commands_rows = {}
          /\ commands_rows' = {}
    BY <2>1, <2>2, CommandBounds DEF CmdStore
  <2>4. CmdGrows
    BY <2>1, <2>2, <2>3 DEF CmdGrows, CmdStore
  <2>5. Cmd!OnlyTheKnownIsRemoved'
    BY <1>1, CmdUnspilt
  <2>6. CASE Cmd!Unheard /\ Cmd!Exit(u, 1, TRUE)
    BY <1>1, <2>4, <2>5, <2>6, CmdExits
  <2>7. CASE /\ Cmd!Heard /\ UNCHANGED commands_last
             /\ commands_cmd' = [commands_cmd EXCEPT ![u].at = "fill", ![u].made = commands_ids',
                  ![u].mark = commands_ids']
    <3> DEFINE c == commands_cmd[u]
               d == [c EXCEPT !.at = "fill", !.made = commands_ids', !.mark = commands_ids']
    <3>1. commands_cmd' = [commands_cmd EXCEPT ![u] = d] /\ commands_cmd'[u] = d
            /\ commands_cmd' = [commands_cmd EXCEPT ![u] = commands_cmd'[u]]
      BY <2>7 DEF CmdInv
    <3>2. c \in CmdRecs /\ c.id \in Nat /\ c.id <= commands_ids
      BY <1>1, CmdBusy
    <3>3. commands_ids' \in Nat /\ c.id <= commands_ids'
      BY <2>2, <2>4, <3>2, CmdNumbers, CmdLater
    <3>4. c.verb \in {"new", "deploy"}
      BY <1>1, CmdBusy DEF CmdOwners
    <3>5. /\ d \in CmdRecs /\ d.at = "fill" /\ d.verb = c.verb /\ d.made = commands_ids'
          /\ d.mark = commands_ids' /\ d.id = c.id
      BY <3>2, <3>3 DEF CmdRecs, CmdPlaces
    <3> HIDE DEF d
    <3>6. d.id <= commands_ids' /\ d.made <= commands_ids' /\ d.mark <= commands_ids'
      BY <3>3, <3>5
    <3>7. CmdKnows(commands_cmd[u])'
      BY <3>1, <3>4, <3>5, <3>6 DEF CmdKnows, CmdMakes, CmdOwners
    <3>8. QED
      BY <2>4, <2>5, <2>7, <3>1, <3>7, CmdGoesOn
  <2>8. QED
    BY <2>1, <2>6, <2>7
<1>4. QED
  BY <1>2, <1>3

LEMMA CmdStartCreate == ASSUME CmdInv, NEW u \in CmdUsers, Cmd!StartCreate(u) PROVE CmdInv'
<1>1. commands_cmd[u].at = "fill" /\ UNCHANGED <<commands_lost, commands_spilt>>
  BY DEF Cmd!StartCreate, Cmd!At
<1>2. CASE Cmd!Fails(u) /\ UNCHANGED Cmd!Store
  BY <1>1, <1>2, CmdQuiet, CmdCatch DEF Cmd!Heard
<1>3. CASE ~(Cmd!Fails(u) /\ UNCHANGED Cmd!Store)
  <2> DEFINE new == [id |-> commands_ids', of |-> commands_project, name |-> commands_cmd[u].res,
        kind |-> commands_cmd[u].kind,
                     by |-> u]
  <2>1. /\ commands_project # Cmd!None /\ Cmd!Named(commands_cmd[u].res) = {}
             /\ commands_ids < CmdMaxIds
        /\ commands_ids' = commands_ids + 1 /\ UNCHANGED <<commands_project, commands_last>>
        /\ commands_rows' = commands_rows \cup {new}
        /\ commands_cmd' = [commands_cmd EXCEPT ![u].at = "building", ![u].id = commands_ids']
    BY <1>3 DEF Cmd!StartCreate
  <2>2. CmdStore
    BY DEF CmdInv
  <2>3. new.id = commands_ids + 1 /\ new.of = commands_project /\ new.name = commands_cmd[u].res
    BY <2>1
  <2> HIDE DEF new
  <2>4. commands_ids \in Nat /\ commands_ids' \in 0 .. CmdMaxIds
          /\ commands_project' \in 0 .. commands_ids'
    BY <2>1, <2>2, CommandBounds DEF CmdStore
  <2>5. \A r \in commands_rows' : r.of = commands_project' /\ commands_project' # Cmd!None
          /\ r.id \in 1 .. commands_ids'
    BY <2>1, <2>2, <2>3, <2>4 DEF CmdStore
  <2>6. \A r \in commands_rows : r.name # new.name
    BY <2>1, <2>2, <2>3 DEF Cmd!Named, Cmd!Here, CmdStore
  <2>7. \A r, s \in commands_rows' : r.name = s.name => r = s
    BY <2>1, <2>2, <2>6 DEF CmdStore
  <2>8. CmdGrows
    BY <1>1, <2>1, <2>2, <2>3, <2>4, <2>5, <2>7 DEF CmdGrows, CmdStore
  <2>9. Cmd!OnlyTheKnownIsRemoved'
    BY <1>1, CmdUnspilt
  <2>10. CmdKnows(commands_cmd[u])'
    <3> DEFINE c == commands_cmd[u]
               d == [c EXCEPT !.at = "building", !.id = commands_ids']
    <3>1. commands_cmd'[u] = d
      BY <2>1 DEF CmdInv
    <3>2. c \in CmdRecs /\ c.made \in Nat /\ c.made <= commands_ids /\ c.mark \in Nat
            /\ c.mark <= commands_ids
      BY <1>1, CmdBusy
    <3>3. c.made # Cmd!None => c.verb \in {"new", "deploy"}
      BY <1>1, CmdBusy
    <3>4. commands_ids' \in Nat /\ c.made <= commands_ids' /\ c.mark <= commands_ids'
      BY <2>2, <2>8, <3>2, CmdNumbers, CmdLater
    <3>5. /\ d \in CmdRecs /\ d.at = "building" /\ d.verb = c.verb /\ d.made = c.made
          /\ d.mark = c.mark /\ d.id = commands_ids'
      BY <3>2, <3>4 DEF CmdRecs, CmdPlaces
    <3> HIDE DEF d
    <3>6. d.id <= commands_ids' /\ d.made <= commands_ids' /\ d.mark <= commands_ids'
      BY <3>4, <3>5
    <3>7. QED
      BY <3>1, <3>3, <3>5, <3>6 DEF CmdKnows, CmdMakes, CmdOwners
  <2>11. commands_cmd' = [commands_cmd EXCEPT ![u] = commands_cmd'[u]]
    BY <2>1 DEF CmdInv
  <2>12. QED
    BY <2>1, <2>8, <2>9, <2>10, <2>11, CmdGoesOn
<1>4. QED
  BY <1>2, <1>3

LEMMA CmdEndCreate == ASSUME CmdInv, NEW u \in CmdUsers, Cmd!EndCreate(u) PROVE CmdInv'
<1>1. commands_cmd[u].at = "building" /\ UNCHANGED <<Cmd!Store, commands_spilt>>
        /\ (Cmd!Heard \/ Cmd!Unheard)
  BY DEF Cmd!EndCreate, Cmd!At
<1>2. CmdGrows /\ Cmd!OnlyTheKnownIsRemoved'
  BY <1>1, CmdQuiet
<1>3. CASE Cmd!Fails(u)
  BY <1>1, <1>2, <1>3, CmdCatch
<1>4. CASE commands_cmd[u].verb = "new" /\ Cmd!Go(u, "connect") /\ UNCHANGED commands_last
  BY <1>1, <1>2, <1>4, CmdGoes DEF CmdPlaces, CmdMakes, CmdOwners
<1>5. CASE Cmd!Exit(u, 0, FALSE)
  BY <1>1, <1>2, <1>5, CmdExitsWell
<1>6. QED
  BY <1>3, <1>4, <1>5 DEF Cmd!EndCreate

\* What has made no project, or reads the connection string of what is there.
LEMMA CmdById ==
    ASSUME CmdInv, NEW u \in CmdUsers,
           commands_cmd[u].at \in {"redeploy", "connect", "use", "env"}, Cmd!ById(u)
    PROVE  CmdInv'
<1>1. UNCHANGED <<Cmd!Store, commands_spilt>> /\ (Cmd!Heard \/ Cmd!Unheard)
  BY DEF Cmd!ById
<1>2. CmdGrows /\ Cmd!OnlyTheKnownIsRemoved'
  BY <1>1, CmdQuiet
<1>3. commands_cmd[u].made # Cmd!None => commands_cmd[u].at = "connect"
  BY CmdUnmade DEF CmdMakes
<1>4. CASE Cmd!Exit(u, 1, FALSE)
  BY <1>2, <1>3, <1>4, CmdExits
<1>5. CASE Cmd!Exit(u, 1, TRUE)
  BY <1>2, <1>5, CmdExits
<1>6. CASE Cmd!Exit(u, 0, FALSE)
  BY <1>2, <1>6, CmdExitsWell
<1>7. QED
  BY <1>4, <1>5, <1>6 DEF Cmd!ById

LEMMA CmdByName == ASSUME CmdInv, NEW u \in CmdUsers, Cmd!ByName(u) PROVE CmdInv'
<1>1. commands_cmd[u].at = "call" /\ UNCHANGED <<Cmd!Store, commands_spilt>>
        /\ (Cmd!Heard \/ Cmd!Unheard)
  BY DEF Cmd!ByName, Cmd!At
<1>2. CmdGrows /\ Cmd!OnlyTheKnownIsRemoved'
  BY <1>1, CmdQuiet
<1>3. commands_cmd[u].made = Cmd!None
  BY <1>1, CmdUnmade DEF CmdMakes
<1>4. CASE Cmd!Exit(u, 1, FALSE)
  BY <1>1, <1>2, <1>3, <1>4, CmdExits
<1>5. CASE Cmd!Exit(u, 1, TRUE)
  BY <1>1, <1>2, <1>5, CmdExits
<1>6. CASE Cmd!Exit(u, 0, FALSE)
  BY <1>1, <1>2, <1>6, CmdExitsWell
<1>7. QED
  BY <1>4, <1>5, <1>6 DEF Cmd!ByName

LEMMA CmdLookAgain == ASSUME CmdInv, NEW u \in CmdUsers, Cmd!LookAgain(u) PROVE CmdInv'
<1>1. commands_cmd[u].at = "look again"
        /\ UNCHANGED <<Cmd!Store, commands_lost, commands_spilt>>
  BY DEF Cmd!LookAgain, Cmd!At
<1>2. CmdGrows /\ Cmd!OnlyTheKnownIsRemoved'
  BY <1>1, CmdQuiet DEF Cmd!Heard
<1>3. CASE Cmd!Exit(u, 1, TRUE)
  BY <1>1, <1>2, <1>3, CmdExits
<1>4. CASE Cmd!Here # {} /\ Cmd!Exit(u, 1, FALSE)
  BY <1>1, <1>2, <1>4, CmdExits
<1>5. CASE /\ commands_project # Cmd!None /\ Cmd!Here = {} /\ UNCHANGED commands_last
           /\ commands_cmd' = [commands_cmd EXCEPT ![u].at = "roll back",
                ![u].mark = commands_ids]
  <2> DEFINE c == commands_cmd[u]
             d == [c EXCEPT !.at = "roll back", !.mark = commands_ids]
  <2>1. commands_cmd'[u] = d /\ commands_cmd' = [commands_cmd EXCEPT ![u] = commands_cmd'[u]]
    BY <1>5 DEF CmdInv
  <2>2. /\ c \in CmdRecs /\ c.made \in Nat /\ c.made <= commands_ids /\ c.id \in Nat
             /\ c.id <= commands_ids
        /\ c.verb \in {"new", "deploy"}
    BY <1>1, CmdBusy DEF CmdOwners
  <2>3. CmdStore
    BY DEF CmdInv
  <2>4. commands_ids \in Nat /\ commands_rows' = {} /\ commands_ids' = commands_ids
    <3>1. commands_rows' = commands_rows /\ commands_ids' = commands_ids
      BY <1>1 DEF Cmd!Store
    <3>2. commands_rows = {}
      BY <1>5, <2>3 DEF CmdStore, Cmd!Here
    <3>3. commands_ids \in Nat
      BY <2>3 DEF CmdStore
    <3>4. QED
      BY <3>1, <3>2, <3>3
  <2>5. /\ d \in CmdRecs /\ d.at = "roll back" /\ d.verb = c.verb /\ d.made = c.made
        /\ d.mark = commands_ids /\ d.id = c.id
    BY <2>2, <2>4 DEF CmdRecs, CmdPlaces
  <2> HIDE DEF d
  <2>6. d.id <= commands_ids' /\ d.made <= commands_ids' /\ d.mark <= commands_ids'
    <3>1. c.made <= commands_ids /\ c.id <= commands_ids /\ commands_ids <= commands_ids
      BY <2>2, <2>4
    <3>2. QED
      BY <2>4, <2>5, <3>1
  <2>7. CmdKnows(commands_cmd[u])'
    BY <2>1, <2>2, <2>4, <2>5, <2>6 DEF CmdKnows, CmdMakes, CmdOwners
  <2>8. QED
    BY <1>2, <1>5, <2>1, <2>7, CmdGoesOn
<1>6. QED
  BY <1>3, <1>4, <1>5 DEF Cmd!LookAgain

\* A project goes, with everything in it.
LEMMA CmdRemoves ==
    ASSUME CmdInv, Cmd!RemoveProject, Cmd!Heard \/ Cmd!Unheard
    PROVE  CmdGrows /\ commands_project' = Cmd!None
<1>1. CmdStore /\ commands_lost' \in 0 .. CmdMaxLost
  BY CmdHeard DEF CmdInv
<1>2. commands_project' = Cmd!None /\ commands_ids' = commands_ids /\ commands_rows' = {}
  BY <1>1 DEF Cmd!RemoveProject, Cmd!Here, CmdStore
<1>3. commands_ids \in 0 .. CmdMaxIds /\ Cmd!None \in 0 .. commands_ids
  BY <1>1, CommandBounds DEF CmdStore, Cmd!None
<1>4. QED
  BY <1>1, <1>2, <1>3 DEF CmdGrows, CmdStore

LEMMA CmdRollBack == ASSUME CmdInv, NEW u \in CmdUsers, Cmd!RollBack(u) PROVE CmdInv'
<1>1. commands_cmd[u].at = "roll back"
  BY DEF Cmd!RollBack, Cmd!At
<1>2. CASE UNCHANGED <<Cmd!Store, commands_lost, commands_spilt>> /\ Cmd!Exit(u, 1, TRUE)
  BY <1>1, <1>2, CmdQuiet, CmdExits DEF Cmd!Heard
<1>3. CASE ~(UNCHANGED <<Cmd!Store, commands_lost, commands_spilt>> /\ Cmd!Exit(u, 1, TRUE))
  <2>1. /\ Cmd!RemoveProject /\ Cmd!Log(u, Cmd!Here)
        /\ \/ Cmd!Heard /\ Cmd!Exit(u, 1, FALSE)
           \/ Cmd!Unheard /\ Cmd!Exit(u, 1, TRUE)
    BY <1>3 DEF Cmd!RollBack
  <2>2. CmdGrows /\ commands_project' = Cmd!None
    BY <2>1, CmdRemoves
  <2>3. /\ commands_cmd[u].verb = "deploy"
             => \A r \in commands_rows : r.id > commands_cmd[u].mark
        /\ commands_cmd[u].verb \in CmdVerbs
    BY <1>1, CmdBusy DEF CmdRecs
  <2>4. commands_cmd[u].verb # "queue rm"
    BY <1>1, CmdBusy DEF CmdOwners
  <2>5. Cmd!OnlyTheKnownIsRemoved
    BY DEF CmdInv
  <2>6. Cmd!OnlyTheKnownIsRemoved'
    <3> SUFFICES ASSUME NEW s \in commands_spilt'
                 PROVE  /\ s.verb = "queue rm" => s.row.id <= s.mark
                        /\ s.verb = "deploy" => s.row.id > s.mark
      BY DEF Cmd!OnlyTheKnownIsRemoved
    <3>1. CASE s \in commands_spilt
      BY <2>5, <3>1 DEF Cmd!OnlyTheKnownIsRemoved
    <3>2. CASE s \notin commands_spilt
      <4>1. PICK r \in Cmd!Here : s = [verb |-> commands_cmd[u].verb,
                   mark |-> commands_cmd[u].mark, row |-> r]
        BY <2>1, <3>2 DEF Cmd!Log
      <4>2. s.verb = commands_cmd[u].verb /\ s.mark = commands_cmd[u].mark /\ s.row = r
              /\ r \in commands_rows
        BY <4>1 DEF Cmd!Here
      <4>3. QED
        BY <2>3, <2>4, <4>2
    <3>3. QED
      BY <3>1, <3>2
  <2>7. CASE Cmd!Exit(u, 1, FALSE)
    BY <1>1, <2>2, <2>6, <2>7, CmdExits
  <2>8. CASE Cmd!Exit(u, 1, TRUE)
    BY <1>1, <2>2, <2>6, <2>8, CmdExits
  <2>9. QED
    BY <2>1, <2>7, <2>8
<1>4. QED
  BY <1>2, <1>3

LEMMA CmdResolve == ASSUME CmdInv, NEW u \in CmdUsers, Cmd!Resolve(u) PROVE CmdInv'
<1>1. commands_cmd[u].at = "resolve" /\ UNCHANGED <<Cmd!Store, commands_lost, commands_spilt>>
  BY DEF Cmd!Resolve, Cmd!At
<1>2. CmdGrows /\ Cmd!OnlyTheKnownIsRemoved' /\ commands_cmd[u].made = Cmd!None
  BY <1>1, CmdQuiet, CmdUnmade DEF Cmd!Heard, CmdMakes
<1>3. CASE Cmd!Exit(u, 1, FALSE)
  BY <1>1, <1>2, <1>3, CmdExits
<1>4. CASE ~Cmd!Exit(u, 1, FALSE)
  <2>1. PICK r \in Cmd!Named(commands_cmd[u].res) :
            /\ commands_cmd' = [commands_cmd EXCEPT ![u].id = r.id,
                 ![u].mark = IF commands_cmd[u].verb \in Cmd!AsksFirst THEN commands_cmd[u].mark
                   ELSE commands_ids,
                 ![u].at = CASE commands_cmd[u].verb \in {"use", "env"} -> commands_cmd[u].verb
                             [] commands_cmd[u].verb \in Cmd!AsksFirst -> "rm" [] OTHER -> "asked"]
            /\ UNCHANGED commands_last
    BY <1>4 DEF Cmd!Resolve
  <2> DEFINE c == commands_cmd[u]
             mark == IF c.verb \in Cmd!AsksFirst THEN c.mark ELSE commands_ids
             where == CASE c.verb \in {"use", "env"} -> c.verb
                        [] c.verb \in Cmd!AsksFirst -> "rm" [] OTHER -> "asked"
             d == [c EXCEPT !.id = r.id, !.mark = mark, !.at = where]
  <2>2. commands_cmd' = [commands_cmd EXCEPT ![u].id = r.id, ![u].mark = mark, ![u].at = where]
    BY <2>1
  <2>3. c \in CmdRecs /\ c.made = Cmd!None /\ c.mark \in Nat /\ c.mark <= commands_ids
    BY <1>1, <1>2, CmdBusy
  <2>4. CmdStore /\ UNCHANGED commands_ids
    BY <1>1 DEF CmdInv, Cmd!Store
  <2>5. commands_ids \in Nat /\ r.id \in Nat /\ r.id <= commands_ids
    BY <2>1, <2>4 DEF CmdStore, Cmd!Named, Cmd!Here
  <2>6. mark \in Nat /\ mark <= commands_ids /\ (c.verb = "queue rm" => mark = commands_ids)
    <3>1. CASE c.verb \in Cmd!AsksFirst
      BY <2>3, <3>1 DEF Cmd!AsksFirst
    <3>2. CASE c.verb \notin Cmd!AsksFirst
      BY <2>5, <3>2
    <3>3. QED
      BY <3>1, <3>2
  <2>7. where \in {"use", "env", "rm", "asked"}
    OBVIOUS
  <2> HIDE DEF mark, where
  <2>8. commands_cmd' = [commands_cmd EXCEPT ![u] = d] /\ commands_cmd'[u] = d
          /\ commands_cmd' = [commands_cmd EXCEPT ![u] = commands_cmd'[u]]
    BY <2>2 DEF CmdInv
  <2>9. /\ d \in CmdRecs /\ d.at = where /\ d.verb = c.verb /\ d.made = Cmd!None
        /\ d.mark = mark /\ d.id = r.id
    BY <2>3, <2>5, <2>6, <2>7 DEF CmdRecs, CmdPlaces
  <2> HIDE DEF d
  <2>10. d.id <= commands_ids' /\ d.made <= commands_ids' /\ d.mark <= commands_ids'
    <3>1. Cmd!None <= commands_ids
      BY <2>5 DEF Cmd!None
    <3>2. commands_ids' = commands_ids
      BY <2>4
    <3>3. QED
      BY <2>5, <2>6, <2>9, <3>1, <3>2
  <2>11. d.at \in {"asked", "rm"} /\ d.verb = "queue rm" => d.id <= d.mark
    BY <2>5, <2>6, <2>9
  <2>12. CmdKnows(commands_cmd[u])'
    BY <2>7, <2>8, <2>9, <2>10, <2>11 DEF CmdKnows, CmdOwners
  <2>13. QED
    BY <1>2, <2>1, <2>8, <2>12, CmdGoesOn
<1>5. QED
  BY <1>3, <1>4

LEMMA CmdAnswer == ASSUME CmdInv, NEW u \in CmdUsers, Cmd!Answer(u) PROVE CmdInv'
<1>1. commands_cmd[u].at = "asked" /\ UNCHANGED <<Cmd!Store, commands_lost, commands_spilt>>
  BY DEF Cmd!Answer, Cmd!At
<1>2. CmdGrows /\ Cmd!OnlyTheKnownIsRemoved' /\ commands_cmd[u].made = Cmd!None
  BY <1>1, CmdQuiet, CmdUnmade DEF Cmd!Heard, CmdMakes
<1>3. CASE Cmd!Exit(u, 1, FALSE)
  BY <1>1, <1>2, <1>3, CmdExits
<1>4. CASE Cmd!Confirm(u) /\ UNCHANGED commands_last
  <2>1. commands_cmd[u].verb = "queue rm" => commands_cmd[u].id <= commands_cmd[u].mark
    BY <1>1, CmdBusy
  <2>2. CASE Cmd!Go(u, "resolve")
    BY <1>1, <1>2, <1>4, <2>2, CmdGoes DEF CmdPlaces, CmdOwners
  <2>3. CASE Cmd!Go(u, "rm")
    BY <1>1, <1>2, <1>4, <2>1, <2>3, CmdGoes DEF CmdPlaces, CmdOwners
  <2>4. QED
    BY <1>4, <2>2, <2>3 DEF Cmd!Confirm
<1>5. QED
  BY <1>3, <1>4 DEF Cmd!Answer

LEMMA CmdRemove == ASSUME CmdInv, NEW u \in CmdUsers, Cmd!Remove(u) PROVE CmdInv'
<1>1. commands_cmd[u].at = "rm"
  BY DEF Cmd!Remove, Cmd!At
<1>2. commands_cmd[u].made = Cmd!None
        /\ (commands_cmd[u].verb = "queue rm" => commands_cmd[u].id <= commands_cmd[u].mark)
  BY <1>1, CmdBusy, CmdUnmade DEF CmdMakes
<1>3. CASE UNCHANGED <<Cmd!Store, commands_lost, commands_spilt>> /\ Cmd!Exit(u, 1, FALSE)
  BY <1>1, <1>2, <1>3, CmdQuiet, CmdExits DEF Cmd!Heard
<1>4. CASE ~(UNCHANGED <<Cmd!Store, commands_lost, commands_spilt>> /\ Cmd!Exit(u, 1, FALSE))
  <2>1. /\ IF commands_cmd[u].verb = "rm" THEN Cmd!RemoveProject /\ UNCHANGED commands_spilt
           ELSE /\ Cmd!Exists(commands_cmd[u].id)
             /\ UNCHANGED <<commands_project, commands_ids>>
                /\ commands_rows' = {r \in commands_rows : r.id # commands_cmd[u].id}
                /\ IF commands_cmd[u].verb = "queue rm"
                     THEN Cmd!Log(u, {r \in commands_rows : r.id = commands_cmd[u].id})
                   ELSE UNCHANGED commands_spilt
        /\ (Cmd!Heard /\ Cmd!Exit(u, 0, FALSE)) \/ (Cmd!Unheard /\ Cmd!Exit(u, 1, TRUE))
    BY <1>4 DEF Cmd!Remove
  <2>2. CmdGrows /\ Cmd!OnlyTheKnownIsRemoved'
    <3>1. CASE commands_cmd[u].verb = "rm"
      BY <2>1, <3>1, CmdRemoves, CmdUnspilt
    <3>2. CASE commands_cmd[u].verb # "rm"
      <4>1. /\ UNCHANGED <<commands_project, commands_ids>>
                 /\ commands_rows' = {r \in commands_rows : r.id # commands_cmd[u].id}
            /\ (commands_cmd[u].verb = "queue rm"
                 /\ Cmd!Log(u, {r \in commands_rows : r.id = commands_cmd[u].id}))
                 \/ UNCHANGED commands_spilt
        BY <2>1, <3>2
      <4>2. CmdStore /\ commands_lost' \in 0 .. CmdMaxLost /\ Cmd!OnlyTheKnownIsRemoved
        BY <2>1, CmdHeard DEF CmdInv
      <4>3. CmdGrows
        BY <4>1, <4>2 DEF CmdGrows, CmdStore
      <4>4. CASE UNCHANGED commands_spilt
        BY <4>3, <4>4, CmdUnspilt
      <4>5. CASE commands_cmd[u].verb = "queue rm"
                   /\ Cmd!Log(u, {r \in commands_rows : r.id = commands_cmd[u].id})
        <5>1. Cmd!OnlyTheKnownIsRemoved'
          <6> SUFFICES ASSUME NEW s \in commands_spilt'
                       PROVE  /\ s.verb = "queue rm" => s.row.id <= s.mark
                              /\ s.verb = "deploy" => s.row.id > s.mark
            BY DEF Cmd!OnlyTheKnownIsRemoved
          <6>1. CASE s \in commands_spilt
            BY <4>2, <6>1 DEF Cmd!OnlyTheKnownIsRemoved
          <6>2. CASE s \notin commands_spilt
            <7>1. PICK r \in commands_rows :
                     /\ r.id = commands_cmd[u].id
                     /\ s = [verb |-> commands_cmd[u].verb,
                          mark |-> commands_cmd[u].mark, row |-> r]
              BY <4>5, <6>2 DEF Cmd!Log
            <7>2. s.verb = "queue rm" /\ s.mark = commands_cmd[u].mark
                    /\ s.row.id = commands_cmd[u].id
              BY <4>5, <7>1
            <7>3. QED
              BY <1>2, <4>5, <7>2
          <6>3. QED
            BY <6>1, <6>2
        <5>2. QED
          BY <4>3, <5>1
      <4>6. QED
        BY <4>1, <4>4, <4>5
    <3>3. QED
      BY <3>1, <3>2
  <2>3. CASE Cmd!Exit(u, 0, FALSE)
    BY <1>1, <2>2, <2>3, CmdExitsWell
  <2>4. CASE Cmd!Exit(u, 1, TRUE)
    BY <1>1, <2>2, <2>4, CmdExits
  <2>5. QED
    BY <2>1, <2>3, <2>4
<1>5. QED
  BY <1>3, <1>4

LEMMA CmdStep == CmdInv /\ [Cmd!Next]_(Cmd!vars) => CmdInv'
<1> SUFFICES ASSUME CmdInv, [Cmd!Next]_(Cmd!vars) PROVE CmdInv'
  OBVIOUS
<1>1. CASE UNCHANGED Cmd!vars
  BY <1>1 DEF Cmd!vars, CmdInv, CmdStore, CmdKnows, CmdEnd, Cmd!OnlyTheKnownIsRemoved
<1>2. CASE Cmd!Next
  <2>1. PICK u \in CmdUsers :
            \/ \E a \in CmdAsks : Cmd!Begin(u, a)
            \/ Cmd!Look(u) \/ Cmd!MakeProject(u) \/ Cmd!StartCreate(u) \/ Cmd!EndCreate(u)
            \/ Cmd!Redeploy(u) \/ Cmd!Connection(u) \/ Cmd!Use(u) \/ Cmd!SetEnv(u)
                 \/ Cmd!ByName(u)
            \/ Cmd!LookAgain(u) \/ Cmd!RollBack(u) \/ Cmd!Resolve(u) \/ Cmd!Answer(u)
                 \/ Cmd!Remove(u)
    BY <1>2 DEF Cmd!Next
  <2>2. CASE \E a \in CmdAsks : Cmd!Begin(u, a)
    BY <2>2, CmdBegin
  <2>3. CASE Cmd!Redeploy(u) \/ Cmd!Connection(u) \/ Cmd!Use(u) \/ Cmd!SetEnv(u)
    BY <2>3, CmdById DEF Cmd!Redeploy, Cmd!Connection, Cmd!Use, Cmd!SetEnv, Cmd!At
  <2>4. CASE \/ Cmd!Look(u) \/ Cmd!MakeProject(u) \/ Cmd!StartCreate(u) \/ Cmd!EndCreate(u)
                  \/ Cmd!ByName(u)
             \/ Cmd!LookAgain(u) \/ Cmd!RollBack(u) \/ Cmd!Resolve(u) \/ Cmd!Answer(u)
                  \/ Cmd!Remove(u)
    BY <2>4, CmdLook, CmdMakeProject, CmdStartCreate, CmdEndCreate, CmdByName, CmdLookAgain,
       CmdRollBack, CmdResolve, CmdAnswer, CmdRemove
  <2>5. QED
    BY <2>1, <2>2, <2>3, <2>4
<1>3. QED
  BY <1>1, <1>2

\* Whatever several users do at once, and whichever answers are lost.
LEMMA CmdHolds == Cmd!Spec => []Cmd!CommandsKeepTheirWord
BY CmdInit, CmdStep, CmdSound, PTL DEF Cmd!Spec

-----------------------------------------------------------------------------
(* Theorems about the bindings and the commands.                           *)

\* The components take their steps side by side.
LEMMA ResourcesStep ==
    ASSUME [EveryNext]_everything
    PROVE  [Binding!Next]_(Binding!vars) /\ [Cmd!Next]_(Cmd!vars)
<1>1. CASE UNCHANGED everything
  BY <1>1 DEF everything, bindingsVars, commandsVars, Binding!vars, Cmd!vars
<1>2. CASE EveryNext
  BY <1>2 DEF EveryNext, bindingsVars, commandsVars, Binding!vars, Cmd!vars
<1>3. QED
  BY <1>1, <1>2

\* The queues a worker's stored manifest says it consumes are those delivered to it, the
\* queues it names exist, and none is taken from a living worker by another, unless a deploy
\* was cut short of its join or overlapped another of the same worker (deployResource,
\* syncWorkerQueueBindings), for any workers, queues, manifests and deploys.
THEOREM BindingsKept == SpecResources => BindingsStand
<1>1. EveryInit => Binding!Init
  BY DEF EveryInit
<1>2. SpecResources => Binding!Spec
  BY <1>1, ResourcesStep, PTL DEF SpecResources, Binding!Spec
<1>3. QED
  BY <1>2, BindHolds DEF BindingsStand

\* A `new` or `deploy` that fails leaves no project of its making that it does not tell of, a
\* deploy's roll back removes nothing that was there when it looked, and the answer to a
\* question removes no queue made after it was asked (commands.ts), for any number of users
\* and commands of one project, however they overlap and wherever an answer is lost.
THEOREM CommandsKept == SpecResources => []CommandsKeepTheirWord
<1>1. EveryInit => Cmd!Init
  BY DEF EveryInit
<1>2. SpecResources => Cmd!Spec
  BY <1>1, ResourcesStep, PTL DEF SpecResources, Cmd!Spec
<1>3. Cmd!CommandsKeepTheirWord => CommandsKeepTheirWord
  BY DEF CommandsKeepTheirWord, At
<1>4. QED
  BY <1>2, <1>3, CmdHolds, PTL
====
