--------------------------- MODULE ServicesProofs ---------------------------
(***************************************************************************)
(* Theorems about eight parts of the daemon: the gate before its routes,   *)
(* the certificate of the proxy, the file of API tokens, the enqueue       *)
(* listener, the operator's logins and sessions, the lock, every address   *)
(* that is written down, and the listeners from start to exit.  Each has   *)
(* an invariant of its own; the last section puts them side by side.       *)
(***************************************************************************)
EXTENDS Services, FiniteSetTheorems, WellFoundedInduction, TLAPS

(* The gate before the daemon's routes: what a request is answered, and by *)
(* whom, follows from the path as it is split once.                        *)

\* Who may answer.
GateVoices == {"idle", "nobody", "studio", "file", "index", "static", "gate", "app"}

\* A request that is answered by whoever may.
GateSays(by) ==
    /\ gate_answer'.by = by
    /\ \/ by = "app" /\ gate_credential = "right"
       \/ by = "app" /\ Gate!Segments \in Gate!Unauthenticated
       \/ by \in {"file", "static"} /\ ~Gate!IsControlPlane
       \/ by = "index" /\ ~Gate!IsControlPlane /\ ~Gate!Missing
       \/ by \in {"studio", "gate"}

LEMMA GateHandles == Gate!Handle => \E by \in GateVoices \ {"idle", "nobody"} : GateSays(by)
<1> SUFFICES ASSUME Gate!Handle
             PROVE  \E by \in GateVoices \ {"idle", "nobody"} : GateSays(by)
  OBVIOUS
<1> USE DEF GateSays, GateVoices, Gate!Say
<1>1. CASE Gate!Own
  <2>1. Gate!Say("studio", 200)
    BY <1>1 DEF Gate!Handle
  <2>2. GateSays("studio") /\ "studio" \in GateVoices \ {"idle", "nobody"}
    BY <2>1
  <2>3. QED
    BY <2>2
<1>2. CASE ~Gate!Own /\ ~Gate!IsControlPlane /\ gate_method = "GET"
  <2>1. Gate!ServeStatic
    BY <1>2 DEF Gate!Handle
  <2>2. \/ Gate!Say("file", 200) \/ Gate!Say("static", 404)
        \/ Gate!Say("index", 200) /\ ~Gate!Missing
    <3> HIDE DEF Gate!Say
    <3> QED
      BY <2>1 DEF Gate!ServeStatic
  <2>3. GateSays("file") \/ GateSays("static") \/ GateSays("index")
    BY <1>2, <2>2
  <2>4. QED
    BY <2>3
<1>3. CASE ~Gate!Own /\ ~(~Gate!IsControlPlane /\ gate_method = "GET")
             /\ Gate!Segments \in Gate!Unauthenticated
  <2>1. Gate!Say("app", 200)
    BY <1>3 DEF Gate!Handle
  <2>2. GateSays("app")
    BY <1>3, <2>1
  <2>3. QED
    BY <2>2
<1>4. CASE ~Gate!Own /\ ~(~Gate!IsControlPlane /\ gate_method = "GET")
             /\ Gate!Segments \notin Gate!Unauthenticated
  <2>1. Gate!Gate
    BY <1>4 DEF Gate!Handle
  <2>2. (Gate!Say("app", 200) /\ gate_credential = "right") \/ Gate!Say("gate", 429)
          \/ Gate!Say("gate", 401)
    <3> HIDE DEF Gate!Say
    <3> QED
      BY <2>1 DEF Gate!Gate
  <2>3. GateSays("app") \/ GateSays("gate")
    BY <2>2
  <2>4. QED
    BY <2>3
<1>5. QED
  BY <1>1, <1>2, <1>3, <1>4

LEMMA GateInit == Gate!Init => Gate!GateIsSound
BY DEF Gate!Init, Gate!GateIsSound, Gate!TypeOK, Gate!GateReadsAsDispatchDoes,
       Gate!StaleAssetsAreMissing, Gate!Credentials

LEMMA GateStep == Gate!GateIsSound /\ [Gate!Next]_(Gate!vars) => Gate!GateIsSound'
<1> SUFFICES ASSUME Gate!GateIsSound, [Gate!Next]_(Gate!vars) PROVE Gate!GateIsSound'
  OBVIOUS
<1>1. CASE Gate!Arrive
  <2>1. gate_answer'.by = "nobody" /\ gate_method' \in {"GET", "POST"}
          /\ gate_credential' \in Gate!Credentials
        /\ gate_built' = gate_built
    BY <1>1 DEF Gate!Arrive
  <2>2. QED
    BY <2>1 DEF Gate!GateIsSound, Gate!TypeOK, Gate!GateReadsAsDispatchDoes,
                Gate!StaleAssetsAreMissing
<1>2. CASE Gate!Handle
  <2>1. PICK by \in GateVoices \ {"idle", "nobody"} : GateSays(by)
    BY <1>2, GateHandles
  <2>2. UNCHANGED <<gate_path, gate_method, gate_credential, gate_built>>
    BY <1>2 DEF Gate!Handle
  <2>3. Gate!TypeOK'
    BY <2>1, <2>2 DEF Gate!GateIsSound, Gate!TypeOK, GateSays, GateVoices
  <2>4. Gate!GateReadsAsDispatchDoes'
    BY <2>1, <2>2 DEF GateSays, GateVoices, Gate!GateReadsAsDispatchDoes, Gate!Segments,
                      Gate!IsControlPlane
  <2>5. Gate!StaleAssetsAreMissing'
    BY <2>1, <2>2 DEF GateSays, GateVoices, Gate!StaleAssetsAreMissing, Gate!Missing,
                      Gate!Segments
  <2>6. QED
    BY <2>3, <2>4, <2>5 DEF Gate!GateIsSound
<1>3. CASE UNCHANGED Gate!vars
  BY <1>3 DEF Gate!vars, Gate!GateIsSound, Gate!TypeOK, Gate!GateReadsAsDispatchDoes,
              Gate!StaleAssetsAreMissing, Gate!Segments
<1>4. QED
  BY <1>1, <1>2, <1>3 DEF Gate!Next

\* Every path, of any length and of any pieces, is read by the gate as by the routes
\* behind it (handle, serveStudioStatic).
LEMMA GateHolds == Gate!Spec => []Gate!GateIsSound
BY GateInit, GateStep, PTL DEF Gate!Spec

-----------------------------------------------------------------------------
(* The certificate of the proxy.                                           *)

\* The files: what the renewal has not got to is older than the newest version, and the
\* rest is of it.
CertFiles ==
    /\ tls_version \in Nat \ {0} /\ tls_renewing \subseteq Cert!Files
    /\ tls_disk \in [Cert!Files -> 0 .. tls_version]
    /\ \A f \in Cert!Files : f \notin tls_renewing => tls_disk[f] = tls_version

\* A stamp is not newer than the file.
CertPairs == [Cert!Files -> 0 .. tls_version]
CertOld(stamp) == \A f \in Cert!Files : tls_disk[f] # 0 => stamp[f] <= tls_disk[f]
CertAhead(stamp, pair) == \A f \in Cert!Files : stamp[f] <= pair[f]

\* What the event loop is at: a pair is read after its stamps.
CertTurn ==
    /\ tls_turn \in [at : {"idle", "look", "build", "listen"}, done : 0 .. 4,
                     stamp : CertPairs, pair : CertPairs]
    /\ tls_turn.at \in {"build", "listen"} => CertOld(tls_turn.stamp)
    /\ tls_turn.at = "build" => tls_turn.done < 4
    /\ tls_turn.at = "build" /\ tls_turn.done = 3
         => tls_turn.stamp["cert"] <= tls_turn.pair["cert"]
    /\ tls_turn.at = "listen" => tls_turn.done = 4
         /\ CertAhead(tls_turn.stamp, tls_turn.pair)
    /\ tls_turn.at = "look" => tls_current # Cert!None
    /\ tls_rebuilding \in BOOLEAN
    /\ tls_rebuilding => tls_turn.at \in {"build", "listen"}
    /\ tls_current # Cert!None /\ tls_turn.at \in {"build", "listen"} => tls_rebuilding

\* The servers: the one in service, and one that is about to be.
CertServers ==
    /\ tls_ids \in Nat /\ tls_closed \in BOOLEAN
    /\ tls_current \in [id : 0 .. tls_ids, stamp : CertPairs, pair : CertPairs]
    /\ tls_current # Cert!None
         => tls_current.id # 0 /\ CertAhead(tls_current.stamp, tls_current.pair)
    /\ tls_turn.at = "listen" => tls_ids # 0 /\ tls_current.id # tls_ids
    /\ tls_accepting = (IF tls_closed \/ tls_current = Cert!None THEN {}
                        ELSE {tls_current.id})
                       \cup (IF tls_turn.at = "listen" THEN {tls_ids} ELSE {})

\* The connections that have to be served the newest version: what they wait for has
\* read it as far as it has come.
CertSessions ==
    /\ tls_client \in [CertClients -> [at : {"none", "waiting", "dialled", "served", "gone"},
                                       id : Nat, pair : [Cert!Files -> Nat]]]
    /\ tls_due \in [CertClients -> 0 .. tls_version]
    /\ \A c \in CertClients : tls_due[c] # 0
         => tls_due[c] = tls_version /\ tls_renewing = {}
    /\ \A c \in CertClients : tls_due[c] # 0 /\ tls_client[c].at = "waiting" =>
          /\ tls_turn.at # "idle"
          /\ tls_turn.at = "look" => tls_turn.stamp["cert"] = tls_version
          /\ tls_turn.at \in {"build", "listen"} /\ tls_turn.done >= 3
               => tls_turn.pair["cert"] = tls_version
          /\ tls_turn.at = "listen" => tls_turn.pair["key"] = tls_version

CertInv == CertFiles /\ CertTurn /\ CertServers /\ CertSessions /\ Cert!RenewalsAreServed

-----------------------------------------------------------------------------

\* While a connection has to be served the newest version, the files stay.
LEMMA CertQuiet ==
    ASSUME CertInv, NEW c \in CertClients, tls_due[c] # 0
    PROVE  tls_disk = Cert!Both(tls_version) /\ tls_due[c] = tls_version
<1>1. tls_renewing = {} /\ tls_due[c] = tls_version
  BY DEF CertInv, CertSessions
<1>2. tls_disk \in [Cert!Files -> 0 .. tls_version]
        /\ \A f \in Cert!Files : tls_disk[f] = tls_version
  BY <1>1 DEF CertInv, CertFiles
<1>3. QED
  BY <1>1, <1>2 DEF Cert!Both

LEMMA CertStamps == CertInv => Cert!StampsAreHonest
<1> SUFFICES ASSUME CertInv, tls_current # Cert!None, tls_disk = tls_current.stamp,
                    tls_renewing = {}
             PROVE  tls_disk = tls_current.pair
  BY DEF Cert!StampsAreHonest
<1>1. \A f \in Cert!Files : tls_disk[f] = tls_version
  BY DEF CertInv, CertFiles
<1>2. tls_current.pair \in [Cert!Files -> 0 .. tls_version] /\ tls_version \in Nat
      /\ \A f \in Cert!Files : tls_current.stamp[f] <= tls_current.pair[f]
  BY DEF CertInv, CertFiles, CertServers, CertAhead, CertPairs
<1>3. \A f \in Cert!Files : tls_current.pair[f] = tls_disk[f]
  BY <1>1, <1>2
<1>4. tls_disk \in [Cert!Files -> 0 .. tls_version]
  BY DEF CertInv, CertFiles
<1>5. QED
  BY <1>2, <1>3, <1>4

LEMMA CertSound == CertInv => Cert!TlsIsSound
<1> SUFFICES ASSUME CertInv PROVE Cert!TlsIsSound
  OBVIOUS
<1>1. Cert!TypeOK
  <2>1. /\ tls_ids \in Nat /\ tls_current.id \in 0 .. tls_ids /\ tls_current # Cert!None
             => tls_current.id # 0
        /\ tls_turn.at = "listen" => tls_ids # 0
    BY DEF CertInv, CertServers
  <2>2. tls_accepting \subseteq 1 .. tls_ids
    BY <2>1 DEF CertInv, CertServers
  <2>3. QED
    BY <2>2 DEF Cert!TypeOK, CertInv, CertFiles, CertTurn, CertSessions
<1>2. Cert!NoneIsLeft
  <2>1. CASE tls_turn.at = "listen"
    BY <2>1 DEF Cert!NoneIsLeft, CertInv, CertServers
  <2>2. CASE tls_turn.at # "listen"
    BY <2>2 DEF Cert!NoneIsLeft, CertInv, CertServers
  <2>3. QED
    BY <2>1, <2>2
<1>3. QED
  BY <1>1, <1>2, CertStamps DEF Cert!TlsIsSound, CertInv

-----------------------------------------------------------------------------

LEMMA CertInit == Cert!Init => CertInv
<1> SUFFICES ASSUME Cert!Init PROVE CertInv
  OBVIOUS
<1>1. /\ tls_disk = Cert!Both(1) /\ tls_version = 1 /\ tls_renewing = {} /\ tls_ids = 0
      /\ tls_accepting = {}
      /\ tls_turn = [at |-> "build", done |-> 0, stamp |-> Cert!Both(0),
           pair |-> Cert!Both(0)]
      /\ tls_current = [id |-> 0, stamp |-> Cert!Both(0), pair |-> Cert!Both(0)]
      /\ tls_current = Cert!None
      /\ tls_rebuilding \in BOOLEAN /\ ~tls_rebuilding /\ tls_closed \in BOOLEAN
      /\ ~tls_closed
      /\ tls_due = [c \in CertClients |-> 0]
      /\ tls_client = [c \in CertClients |-> [at |-> "none", id |-> 0,
           pair |-> Cert!Both(0)]]
  BY DEF Cert!Init, Cert!Idle, Cert!None
<1>2. Cert!Both(0) \in CertPairs /\ Cert!Both(0) \in [Cert!Files -> Nat]
        /\ Cert!Both(1) \in [Cert!Files -> 0 .. tls_version]
  BY <1>1 DEF CertPairs, Cert!Both
<1>3. CertFiles
  BY <1>1, <1>2 DEF CertFiles, Cert!Both
<1>4. CertTurn
  <2>1. CertOld(tls_turn.stamp)
    BY <1>1 DEF CertOld, Cert!Both
  <2>2. tls_turn \in [at : {"idle", "look", "build", "listen"}, done : 0 .. 4,
                     stamp : CertPairs, pair : CertPairs]
    BY <1>1, <1>2
  <2>3. QED
    BY <1>1, <2>1, <2>2 DEF CertTurn
<1>5. CertServers
  BY <1>1, <1>2 DEF CertServers
<1>6. CertSessions
  BY <1>1, <1>2 DEF CertSessions
<1>7. Cert!RenewalsAreServed
  BY <1>1 DEF Cert!RenewalsAreServed
<1>8. QED
  BY <1>3, <1>4, <1>5, <1>6, <1>7 DEF CertInv

\* The renewal takes a file away: nobody has to be served the newest any more.
LEMMA CertTakeAway == ASSUME CertInv, NEW f \in Cert!Files, Cert!TakeAway(f) PROVE CertInv'
<1> USE DEF CertInv
<1>1. tls_version' \in Nat \ {0} /\ tls_version <= tls_version'
  BY DEF Cert!TakeAway, CertFiles
<1>2. CertFiles'
  <2>1. tls_disk' \in [Cert!Files -> 0 .. tls_version']
    BY <1>1 DEF Cert!TakeAway, CertFiles
  <2>2. tls_renewing' \subseteq Cert!Files /\ f \in tls_renewing'
    BY DEF Cert!TakeAway, CertFiles
  <2>3. \A g \in Cert!Files : g \notin tls_renewing' => tls_disk'[g] = tls_version'
    BY DEF Cert!TakeAway, CertFiles
  <2>4. QED
    BY <1>1, <2>1, <2>2, <2>3 DEF CertFiles
<1>3. \A s \in CertPairs : s \in CertPairs'
  BY <1>1 DEF CertPairs, CertFiles
<1>4. CertTurn'
  <2>1. tls_turn.at \in {"build", "listen"} => CertOld(tls_turn.stamp)'
    BY DEF Cert!TakeAway, CertFiles, CertTurn, CertOld
  <2>2. QED
    BY <1>3, <2>1 DEF Cert!TakeAway, CertTurn, CertAhead
<1>5. CertServers'
  BY <1>3 DEF Cert!TakeAway, CertServers, CertAhead
<1>6. CertSessions'
  BY <1>1 DEF Cert!TakeAway, CertSessions
<1>7. Cert!RenewalsAreServed'
  BY DEF Cert!TakeAway, Cert!RenewalsAreServed
<1>8. QED
  BY <1>2, <1>4, <1>5, <1>6, <1>7

LEMMA CertPutBack == ASSUME CertInv, NEW f \in Cert!Files, Cert!PutBack(f) PROVE CertInv'
<1> USE DEF CertInv
<1>1. CertFiles'
  BY DEF Cert!PutBack, CertFiles
<1>2. CertPairs' = CertPairs
  BY DEF Cert!PutBack, CertPairs
<1>3. CertTurn'
  <2>1. tls_turn.at \in {"build", "listen"} => CertOld(tls_turn.stamp)'
    BY DEF Cert!PutBack, CertFiles, CertTurn, CertOld, CertPairs
  <2>2. QED
    BY <1>2, <2>1 DEF Cert!PutBack, CertTurn, CertAhead
<1>4. CertServers'
  BY <1>2 DEF Cert!PutBack, CertServers, CertAhead
<1>5. CertSessions'
  BY DEF Cert!PutBack, CertSessions
<1>6. Cert!RenewalsAreServed'
  BY DEF Cert!PutBack, Cert!RenewalsAreServed
<1>7. QED
  BY <1>1, <1>3, <1>4, <1>5, <1>6

LEMMA CertRelay == ASSUME CertInv, NEW c \in CertClients, Cert!Relay(c) PROVE CertInv'
<1> USE DEF CertInv
<1>1. CertFiles'
  BY DEF Cert!Relay, Cert!certbot, CertFiles
<1>2. CertPairs' = CertPairs
  BY DEF Cert!Relay, Cert!certbot, CertPairs
<1>3. CASE tls_rebuilding
  <2>1. tls_turn.at = "listen" /\ tls_turn' = tls_turn
    BY <1>3 DEF Cert!Relay, Cert!Free, CertTurn
  <2>2. CertTurn'
    BY <1>2, <2>1 DEF Cert!Relay, Cert!certbot, CertTurn, CertOld, CertAhead
  <2>3. CertServers'
    BY <1>2, <2>1 DEF Cert!Relay, Cert!certbot, CertServers, CertAhead
  <2>4. tls_due' = [tls_due EXCEPT ![c] = 0]
    BY <1>3 DEF Cert!Relay
  <2>5. CertSessions'
    BY <2>1, <2>4, <1>1 DEF Cert!Relay, Cert!certbot, CertSessions, CertFiles
  <2>6. Cert!RenewalsAreServed'
    BY <2>4 DEF Cert!Relay, Cert!RenewalsAreServed, CertSessions
  <2>7. QED
    BY <1>1, <2>2, <2>3, <2>5, <2>6
<1>4. CASE ~tls_rebuilding
  <2>1. tls_turn.at = "idle" /\ tls_turn' = [Cert!Idle EXCEPT !.at = "look",
          !.stamp["cert"] = tls_disk["cert"]]
    BY <1>4 DEF Cert!Relay, Cert!Free, CertTurn
  <2>2. /\ tls_turn'.at = "look" /\ tls_turn'.done = 0 /\ tls_turn'.pair = Cert!Both(0)
        /\ tls_turn'.stamp = [Cert!Both(0) EXCEPT !["cert"] = tls_disk["cert"]]
        /\ tls_turn' = [at |-> "look", done |-> 0, stamp |-> tls_turn'.stamp,
             pair |-> Cert!Both(0)]
    BY <2>1 DEF Cert!Idle
  <2>3. tls_turn'.stamp \in CertPairs /\ Cert!Both(0) \in CertPairs
          /\ tls_turn'.stamp["cert"] = tls_disk["cert"]
    BY <2>2 DEF Cert!Both, CertPairs, CertFiles, Cert!Files
  <2>4. CertTurn'
    <3>1. tls_turn' \in [at : {"idle", "look", "build", "listen"}, done : 0 .. 4,
                        stamp : CertPairs, pair : CertPairs]
      BY <2>2, <2>3
    <3>2. tls_rebuilding' = tls_rebuilding /\ tls_current' = tls_current
            /\ tls_current # Cert!None
          /\ tls_rebuilding \in BOOLEAN /\ ~tls_rebuilding
      BY <1>4 DEF Cert!Relay, CertTurn
    <3>3. QED
      BY <1>2, <2>2, <3>1, <3>2 DEF CertTurn
  <2>5. CertServers'
    BY <1>2, <2>1, <2>2 DEF Cert!Relay, Cert!certbot, CertServers, CertAhead
  <2>6. tls_due' = [tls_due EXCEPT ![c] = IF tls_renewing # {} THEN 0 ELSE tls_version]
    BY <1>4 DEF Cert!Relay
  <2>7. tls_renewing = {} => tls_disk["cert"] = tls_version
    BY DEF CertFiles, Cert!Files
  <2>8. \A d \in CertClients : tls_due'[d] # 0
          => tls_due'[d] = tls_version /\ tls_renewing = {}
    BY <2>6 DEF CertSessions
  <2>9. \A d \in CertClients : d # c => tls_due[d] = 0 \/ tls_client[d].at # "waiting"
    BY <2>1 DEF CertSessions
  <2>10. CertSessions'
    <3>1. tls_due' \in [CertClients -> 0 .. tls_version]
      BY <2>6 DEF CertSessions, CertFiles
    <3>2. tls_client' \in [CertClients -> [at : {"none", "waiting", "dialled",
            "served", "gone"},
                                       id : Nat, pair : [Cert!Files -> Nat]]]
      BY DEF Cert!Relay, CertSessions
    <3>3. QED
      BY <2>2, <2>3, <2>7, <2>8, <2>9, <3>1, <3>2 DEF Cert!Relay, Cert!certbot, CertSessions
  <2>11. Cert!RenewalsAreServed'
    BY <2>6 DEF Cert!Relay, Cert!RenewalsAreServed, CertSessions
  <2>12. QED
    BY <1>1, <2>4, <2>5, <2>10, <2>11
<1>5. QED
  BY <1>3, <1>4 DEF CertTurn

LEMMA CertAccept == ASSUME CertInv, NEW c \in CertClients, Cert!Accept(c) PROVE CertInv'
<1> USE DEF CertInv
<1>1. CertFiles' /\ CertTurn' /\ CertServers'
  BY DEF Cert!Accept, Cert!certbot, CertFiles, CertTurn, CertServers, CertOld, CertAhead,
         CertPairs
<1>2. /\ tls_client' \in [CertClients -> [at : {"none", "waiting", "dialled",
           "served", "gone"},
                                         id : Nat, pair : [Cert!Files -> Nat]]]
      /\ tls_client[c].at = "dialled" /\ tls_client'[c].at \in {"served", "gone"}
      /\ tls_client'[c].pair = tls_client[c].pair
      /\ \A d \in CertClients : d # c => tls_client'[d] = tls_client[d]
  BY DEF Cert!Accept, CertSessions
<1>3. CertSessions'
  BY <1>2 DEF Cert!Accept, Cert!certbot, CertSessions
<1>4. Cert!RenewalsAreServed'
  BY <1>2 DEF Cert!Accept, Cert!RenewalsAreServed
<1>5. QED
  BY <1>1, <1>3, <1>4

LEMMA CertClose == ASSUME CertInv, Cert!Close PROVE CertInv'
<1> USE DEF CertInv
<1>1. CertFiles' /\ CertTurn' /\ CertSessions'
  BY DEF Cert!Close, Cert!certbot, CertFiles, CertTurn, CertSessions, CertOld, CertAhead,
         CertPairs
<1>2. CertServers'
  <2>1. tls_current # Cert!None /\ tls_current.id # 0
          /\ (tls_turn.at = "listen" => tls_current.id # tls_ids)
    BY DEF Cert!Close, CertServers
  <2>2. tls_accepting' = IF tls_turn.at = "listen" THEN {tls_ids} ELSE {}
    BY <2>1 DEF Cert!Close, CertServers
  <2>3. QED
    BY <2>2 DEF Cert!Close, Cert!certbot, CertServers, CertAhead, CertPairs
<1>3. Cert!RenewalsAreServed'
  BY DEF Cert!Close, Cert!RenewalsAreServed
<1>4. QED
  BY <1>1, <1>2, <1>3

\* What has waited goes to a server that serves the newest version, where it has to.
LEMMA CertDialled ==
    ASSUME CertInv, NEW server, server.id \in Nat, server.pair \in [Cert!Files -> Nat],
           Cert!Dial(server), UNCHANGED Cert!certbot, tls_closed => tls_closed',
           \A c \in CertClients : tls_due'[c] \in {0, tls_due[c]},
              tls_due' \in [CertClients -> 0 .. tls_version],
           \A c \in CertClients : tls_due'[c] # 0 /\ tls_client[c].at = "waiting"
             /\ ~tls_closed' =>
                server.pair = Cert!Both(tls_version)
    PROVE  CertSessions' /\ Cert!RenewalsAreServed'
<1> USE DEF CertInv
<1>1. /\ tls_client' \in [CertClients -> [at : {"none", "waiting", "dialled",
           "served", "gone"},
                                         id : Nat, pair : [Cert!Files -> Nat]]]
      /\ \A c \in CertClients : tls_client[c].at = "waiting" =>
            tls_client'[c].at = "dialled" /\ tls_client'[c].pair = server.pair
      /\ \A c \in CertClients : tls_client[c].at # "waiting"
           => tls_client'[c] = tls_client[c]
  BY DEF Cert!Dial, CertSessions
<1>2. \A c \in CertClients : tls_due'[c] # 0
        => tls_due'[c] = tls_version /\ tls_renewing = {} /\ tls_due[c] = tls_version
  BY DEF CertSessions
<1>3. \A c \in CertClients : tls_client'[c].at # "waiting"
  BY <1>1
<1>4. CertSessions'
  BY <1>1, <1>2, <1>3 DEF CertSessions, Cert!certbot
<1>5. Cert!RenewalsAreServed'
  <2> SUFFICES ASSUME NEW c \in CertClients, tls_client'[c].at \in {"dialled", "served"},
                      tls_due'[c] # 0,
                      ~tls_closed'
               PROVE  tls_client'[c].pair = Cert!Both(tls_due'[c])
    BY DEF Cert!RenewalsAreServed, Cert!Both
  <2>1. CASE tls_client[c].at = "waiting"
    BY <1>1, <1>2, <2>1
  <2>2. CASE tls_client[c].at # "waiting"
    BY <1>1, <1>2, <2>2 DEF Cert!RenewalsAreServed
  <2>3. QED
    BY <2>1, <2>2
<1>6. QED
  BY <1>4, <1>5

LEMMA CertLook == ASSUME CertInv, Cert!Look PROVE CertInv'
<1> USE DEF CertInv
<1> DEFINE stamp == [tls_turn.stamp EXCEPT !["key"] = tls_disk["key"]]
           changed == 0 \notin {stamp[f] : f \in Cert!Files} /\ stamp # tls_current.stamp
<1>1. /\ tls_turn.at = "look" /\ tls_current # Cert!None /\ ~tls_rebuilding
      /\ tls_rebuilding \in BOOLEAN
      /\ UNCHANGED <<Cert!certbot, tls_current, tls_accepting, tls_ids, tls_closed,
           tls_faults, tls_due>>
      /\ UNCHANGED <<tls_disk, tls_version, tls_renewing>>
  BY DEF Cert!Look, CertTurn, Cert!certbot
<1>2. CertFiles' /\ CertPairs' = CertPairs
  BY <1>1 DEF CertFiles, CertPairs
<1>3. Cert!Both(0) \in CertPairs /\ Cert!Both(0) \in [Cert!Files -> Nat]
  BY DEF CertPairs, Cert!Both, CertFiles
<1>4. CASE changed
  <2>1. tls_rebuilding' = TRUE /\ tls_turn' = [Cert!Idle EXCEPT !.at = "build"]
          /\ tls_client' = tls_client
    BY <1>4 DEF Cert!Look
  <2>2. tls_turn' = [at |-> "build", done |-> 0, stamp |-> Cert!Both(0),
          pair |-> Cert!Both(0)]
    BY <2>1 DEF Cert!Idle
  <2>3. CertOld(tls_turn.stamp)'
    BY <1>1, <2>2 DEF CertOld, Cert!Both, CertFiles
  <2>4. CertTurn'
    <3>1. tls_turn' \in [at : {"idle", "look", "build", "listen"}, done : 0 .. 4,
                        stamp : CertPairs, pair : CertPairs]
      BY <1>3, <2>2
    <3>2. QED
      BY <1>2, <2>1, <2>2, <2>3, <3>1 DEF CertTurn
  <2>5. CertServers'
    BY <1>1, <1>2, <2>2 DEF CertServers, CertAhead
  <2>6. CertSessions'
    BY <1>1, <2>1, <2>2 DEF CertSessions
  <2>7. Cert!RenewalsAreServed'
    BY <1>1, <2>1 DEF Cert!RenewalsAreServed
  <2>8. QED
    BY <1>2, <2>4, <2>5, <2>6, <2>7
<1>5. CASE ~changed
  <2>1. tls_turn' = Cert!Idle /\ Cert!Dial(tls_current) /\ tls_rebuilding' = tls_rebuilding
    BY <1>5 DEF Cert!Look
  <2>2. tls_turn' = [at |-> "idle", done |-> 0, stamp |-> Cert!Both(0),
          pair |-> Cert!Both(0)]
    BY <2>1 DEF Cert!Idle
  <2>3. CertTurn'
    <3>1. tls_turn' \in [at : {"idle", "look", "build", "listen"}, done : 0 .. 4,
                        stamp : CertPairs, pair : CertPairs]
      BY <1>3, <2>2
    <3>2. QED
      BY <1>1, <1>2, <2>1, <2>2, <3>1 DEF CertTurn
  <2>4. CertServers'
    BY <1>1, <1>2, <2>2 DEF CertServers, CertAhead
  <2>5. tls_current.id \in Nat /\ tls_current.pair \in [Cert!Files -> Nat]
    BY DEF CertServers, CertPairs, CertFiles
  <2>6. ASSUME NEW c \in CertClients, tls_due[c] # 0, tls_client[c].at = "waiting"
        PROVE  tls_current.pair = Cert!Both(tls_version)
    <3>1. tls_disk = Cert!Both(tls_version) /\ tls_version # 0 /\ tls_renewing = {}
      BY <2>6, CertQuiet DEF CertFiles, CertSessions
    <3>2. tls_turn.stamp["cert"] = tls_version
            /\ tls_turn.stamp \in [Cert!Files -> 0 .. tls_version]
      BY <1>1, <2>6 DEF CertSessions, CertTurn, CertPairs
    <3>3. tls_disk["key"] = tls_version
      BY <3>1 DEF Cert!Both, Cert!Files
    <3>4. \A f \in Cert!Files : stamp[f] = tls_version
      BY <3>2, <3>3 DEF Cert!Files
    <3>5. stamp = tls_disk
      BY <3>1, <3>2, <3>4 DEF Cert!Both
    <3>6. stamp = tls_current.stamp
      BY <1>5, <3>1, <3>4
    <3>7. QED
      BY <1>1, <3>1, <3>5, <3>6, CertStamps DEF Cert!StampsAreHonest
  <2>7. tls_due' \in [CertClients -> 0 .. tls_version]
          /\ \A c \in CertClients : tls_due'[c] \in {0, tls_due[c]}
    BY <1>1 DEF CertSessions
  <2>8. CertSessions' /\ Cert!RenewalsAreServed'
    <3> HIDE DEF CertInv
    <3> QED
      BY <1>1, <2>1, <2>5, <2>6, <2>7, CertDialled
  <2>9. QED
    BY <1>2, <2>3, <2>4, <2>8
<1>6. QED
  BY <1>4, <1>5

\* The event loop with one more of the files looked at or read.
CertRead(f, next) ==
    /\ f \in Cert!Files /\ next.at = "build" /\ next.done = tls_turn.done + 1
    /\ next \in [at : {"build"}, done : 0 .. 4, stamp : CertPairs, pair : CertPairs]
    /\ \/ /\ tls_turn.done < 2 /\ next.stamp = [tls_turn.stamp EXCEPT ![f] = tls_disk[f]]
          /\ next.pair = tls_turn.pair
       \/ /\ tls_turn.done >= 2 /\ next.pair = [tls_turn.pair EXCEPT ![f] = tls_disk[f]]
          /\ next.stamp = tls_turn.stamp /\ f = IF tls_turn.done = 2 THEN "cert" ELSE "key"

\* Then a pair is not older than its stamp, and it is the newest where it has to be.
LEMMA CertReads ==
    ASSUME CertInv, tls_turn.at = "build", NEW f, NEW next, CertRead(f, next),
           tls_disk[f] # 0
    PROVE  /\ CertOld(next.stamp)
           /\ next.done = 3 => next.stamp["cert"] <= next.pair["cert"]
           /\ next.done = 4 => CertAhead(next.stamp, next.pair)
           /\ \A c \in CertClients : tls_due[c] # 0 /\ tls_client[c].at = "waiting" =>
                /\ next.done >= 3 => next.pair["cert"] = tls_version
                /\ next.done = 4 => next.pair["key"] = tls_version
<1> USE DEF CertInv
<1>1. /\ f \in Cert!Files /\ next.done = tls_turn.done + 1
      /\ \/ /\ tls_turn.done < 2 /\ next.stamp = [tls_turn.stamp EXCEPT ![f] = tls_disk[f]]
            /\ next.pair = tls_turn.pair
         \/ /\ tls_turn.done >= 2 /\ next.pair = [tls_turn.pair EXCEPT ![f] = tls_disk[f]]
            /\ next.stamp = tls_turn.stamp
            /\ f = IF tls_turn.done = 2 THEN "cert" ELSE "key"
  BY DEF CertRead
<1>2. /\ tls_turn.stamp \in [Cert!Files -> 0 .. tls_version]
      /\ tls_turn.pair \in [Cert!Files -> 0 .. tls_version]
      /\ tls_disk \in [Cert!Files -> 0 .. tls_version] /\ tls_version \in Nat
      /\ tls_turn.done \in 0 .. 3
      /\ \A g \in Cert!Files : tls_disk[g] # 0 => tls_turn.stamp[g] <= tls_disk[g]
      /\ tls_turn.done = 3 => tls_turn.stamp["cert"] <= tls_turn.pair["cert"]
  BY DEF CertTurn, CertPairs, CertFiles, CertOld
<1>3. CertOld(next.stamp)
  BY <1>1, <1>2 DEF CertOld
<1>4. ASSUME next.done = 3 PROVE next.stamp["cert"] <= next.pair["cert"]
  BY <1>1, <1>2, <1>4
<1>5. ASSUME next.done = 4 PROVE CertAhead(next.stamp, next.pair)
  BY <1>1, <1>2, <1>5 DEF CertAhead, Cert!Files
<1>6. ASSUME NEW c \in CertClients, tls_due[c] # 0, tls_client[c].at = "waiting"
      PROVE  /\ next.done >= 3 => next.pair["cert"] = tls_version
             /\ next.done = 4 => next.pair["key"] = tls_version
  <2>1. \A g \in Cert!Files : tls_disk[g] = tls_version
    BY <1>6, CertQuiet DEF Cert!Both
  <2>2. tls_turn.done >= 3 => tls_turn.pair["cert"] = tls_version
    BY <1>6 DEF CertSessions
  <2>3. QED
    BY <1>1, <1>2, <2>1, <2>2 DEF Cert!Files
<1>7. QED
  BY <1>3, <1>4, <1>5, <1>6

\* That is what the next stat or read does.
LEMMA CertNext ==
    ASSUME CertInv, tls_turn.at = "build"
    PROVE  CertRead(Cert!Order[tls_turn.done + 1][2],
                    [tls_turn EXCEPT ![Cert!Order[tls_turn.done + 1][1]]
                                      [Cert!Order[tls_turn.done + 1][2]] =
                        tls_disk[Cert!Order[tls_turn.done + 1][2]], !.done = @ + 1])
<1> DEFINE Put(field, f) == [tls_turn EXCEPT ![field][f] = tls_disk[f], !.done = @ + 1]
<1>1. /\ tls_turn \in [at : {"build"}, done : 0 .. 3, stamp : CertPairs, pair : CertPairs]
      /\ tls_disk["cert"] \in 0 .. tls_version /\ tls_disk["key"] \in 0 .. tls_version
      /\ tls_version \in Nat
  BY DEF CertInv, CertTurn, CertFiles, Cert!Files
<1>2. \A s \in CertPairs, g \in Cert!Files : [s EXCEPT ![g] = tls_disk[g]] \in CertPairs
  BY <1>1 DEF CertPairs, Cert!Files
<1>3. ASSUME NEW f \in Cert!Files, tls_turn.done < 2 PROVE CertRead(f, Put("stamp", f))
  <2>0. Put("stamp", f) = [tls_turn EXCEPT !.stamp[f] = tls_disk[f], !.done = @ + 1]
    OBVIOUS
  <2>1. [tls_turn.stamp EXCEPT ![f] = tls_disk[f]] \in CertPairs
    BY <1>1, <1>2
  <2>2. /\ Put("stamp", f).at = "build" /\ Put("stamp", f).done = tls_turn.done + 1
        /\ Put("stamp", f).stamp = [tls_turn.stamp EXCEPT ![f] = tls_disk[f]]
        /\ Put("stamp", f).pair = tls_turn.pair
    BY <1>1, <2>0
  <2>3. Put("stamp", f) \in [at : {"build"}, done : 0 .. 4, stamp : CertPairs,
          pair : CertPairs]
    <3>1. \A s \in CertPairs, d \in 0 .. 4 :
             [tls_turn EXCEPT !.stamp = s, !.done = d] \in
                [at : {"build"}, done : 0 .. 4, stamp : CertPairs, pair : CertPairs]
      BY <1>1
    <3>2. tls_turn.done + 1 \in 0 .. 4
      BY <1>1
    <3>3. Put("stamp", f) = [tls_turn EXCEPT !.stamp
            = [tls_turn.stamp EXCEPT ![f] = tls_disk[f]], !.done = @ + 1]
      BY <2>0
    <3>4. QED
      BY <2>1, <3>1, <3>2, <3>3
  <2> HIDE DEF Put
  <2>4. QED
    BY <1>1, <1>3, <2>2, <2>3 DEF CertRead
<1>4. ASSUME NEW f \in Cert!Files, tls_turn.done >= 2,
             f = IF tls_turn.done = 2 THEN "cert" ELSE "key"
      PROVE  CertRead(f, Put("pair", f))
  <2>0. Put("pair", f) = [tls_turn EXCEPT !.pair[f] = tls_disk[f], !.done = @ + 1]
    OBVIOUS
  <2>1. [tls_turn.pair EXCEPT ![f] = tls_disk[f]] \in CertPairs
    BY <1>1, <1>2
  <2>2. /\ Put("pair", f).at = "build" /\ Put("pair", f).done = tls_turn.done + 1
        /\ Put("pair", f).pair = [tls_turn.pair EXCEPT ![f] = tls_disk[f]]
        /\ Put("pair", f).stamp = tls_turn.stamp
    BY <1>1, <2>0
  <2>3. Put("pair", f) \in [at : {"build"}, done : 0 .. 4, stamp : CertPairs,
          pair : CertPairs]
    <3>1. \A s \in CertPairs, d \in 0 .. 4 :
             [tls_turn EXCEPT !.pair = s, !.done = d] \in
                [at : {"build"}, done : 0 .. 4, stamp : CertPairs, pair : CertPairs]
      BY <1>1
    <3>2. tls_turn.done + 1 \in 0 .. 4
      BY <1>1
    <3>3. Put("pair", f) = [tls_turn EXCEPT !.pair
            = [tls_turn.pair EXCEPT ![f] = tls_disk[f]], !.done = @ + 1]
      BY <2>0
    <3>4. QED
      BY <2>1, <3>1, <3>2, <3>3
  <2> HIDE DEF Put
  <2>4. QED
    BY <1>1, <1>4, <2>2, <2>3 DEF CertRead
<1> HIDE DEF Put
<1>5. CertRead(Cert!Order[tls_turn.done + 1][2],
        Put(Cert!Order[tls_turn.done + 1][1], Cert!Order[tls_turn.done + 1][2]))
  <2>1. tls_turn.done \in {0, 1, 2, 3}
    BY <1>1
  <2>2. CASE tls_turn.done = 0
    BY <1>3, <2>2 DEF Cert!Order, Cert!Files
  <2>3. CASE tls_turn.done = 1
    BY <1>3, <2>3 DEF Cert!Order, Cert!Files
  <2>4. CASE tls_turn.done = 2
    BY <1>4, <2>4 DEF Cert!Order, Cert!Files
  <2>5. CASE tls_turn.done = 3
    BY <1>4, <2>5 DEF Cert!Order, Cert!Files
  <2>6. QED
    BY <2>1, <2>2, <2>3, <2>4, <2>5
<1>6. QED
  BY <1>5 DEF Put

\* A server that cannot be made: nobody waits for it who has to be served the newest.
LEMMA CertFails ==
    ASSUME CertInv, Cert!Fails, \A c \in CertClients : tls_client[c].at = "waiting"
           => tls_due'[c] = 0,
           tls_turn.at \in {"build", "listen"}, UNCHANGED <<Cert!certbot, tls_current>>,
           tls_ids' \in Nat, tls_ids <= tls_ids',
           tls_accepting' = IF tls_closed
             \/ tls_current = Cert!None THEN {} ELSE {tls_current.id},
           \A c \in CertClients : tls_due'[c] \in {0, tls_due[c]},
             tls_due' \in [CertClients -> 0 .. tls_version]
    PROVE  CertInv'
<1> USE DEF CertInv
<1>1. UNCHANGED <<tls_disk, tls_version, tls_renewing, tls_current>>
  BY DEF Cert!certbot
<1>2. CertFiles' /\ CertPairs' = CertPairs
  BY <1>1 DEF CertFiles, CertPairs
<1>3. /\ tls_turn' = [at |-> "idle", done |-> 0, stamp |-> Cert!Both(0),
           pair |-> Cert!Both(0)]
      /\ tls_rebuilding' = FALSE /\ tls_closed' = (tls_closed \/ tls_current = Cert!None)
           /\ Cert!Dial(tls_current)
  BY DEF Cert!Fails, Cert!Idle
<1>4. Cert!Both(0) \in CertPairs
  BY DEF CertPairs, Cert!Both, CertFiles
<1>5. CertTurn'
  <2>1. tls_turn' \in [at : {"idle", "look", "build", "listen"}, done : 0 .. 4,
                      stamp : CertPairs, pair : CertPairs]
    BY <1>3, <1>4
  <2>2. QED
    BY <1>1, <1>2, <1>3, <2>1 DEF CertTurn
<1>6. CertServers'
  <2>1. tls_closed' \in BOOLEAN
          /\ tls_current' \in [id : 0 .. tls_ids', stamp : CertPairs, pair : CertPairs]
    BY <1>1, <1>3 DEF CertServers
  <2>2. tls_accepting' = IF tls_closed'
          \/ tls_current = Cert!None THEN {} ELSE {tls_current.id}
    BY <1>3 DEF CertServers
  <2>3. QED
    BY <1>1, <1>2, <1>3, <2>1, <2>2 DEF CertServers, CertAhead
<1>7. tls_current.id \in Nat /\ tls_current.pair \in [Cert!Files -> Nat]
  BY DEF CertServers, CertPairs, CertFiles
<1>8. CertSessions' /\ Cert!RenewalsAreServed'
  <2>1. tls_closed \in BOOLEAN /\ (tls_closed => tls_closed')
    BY <1>3 DEF CertServers
  <2> HIDE DEF CertInv
  <2>2. QED
    BY <1>3, <1>7, <2>1, CertDialled
<1>9. QED
  BY <1>2, <1>5, <1>6, <1>8

\* One more is read, and there is more to read.
LEMMA CertGoesOn ==
    ASSUME CertInv, tls_turn.at = "build", NEW f, NEW next, CertRead(f, next),
           tls_disk[f] # 0,
           next.done < 4, tls_turn' = next,
             UNCHANGED <<tls_disk, tls_version, tls_renewing>>,
           UNCHANGED <<tls_rebuilding, tls_closed, tls_client, tls_accepting, tls_ids,
             tls_current, tls_due>>
    PROVE  CertInv'
<1> USE DEF CertInv
<1>1. /\ tls_turn'.at = "build" /\ tls_turn'.done < 4 /\ CertOld(tls_turn'.stamp)
      /\ tls_turn'.done = 3 => tls_turn'.stamp["cert"] <= tls_turn'.pair["cert"]
      /\ \A c \in CertClients : tls_due[c] # 0 /\ tls_client[c].at = "waiting"
           /\ tls_turn'.done >= 3 =>
            tls_turn'.pair["cert"] = tls_version
      /\ tls_turn' \in [at : {"idle", "look", "build", "listen"}, done : 0 .. 4,
                        stamp : CertPairs, pair : CertPairs]
  <2> HIDE DEF CertInv
  <2>1. /\ next.at = "build"
        /\ next \in [at : {"build"}, done : 0 .. 4, stamp : CertPairs, pair : CertPairs]
    BY DEF CertRead
  <2>2. /\ CertOld(next.stamp)
        /\ next.done = 3 => next.stamp["cert"] <= next.pair["cert"]
        /\ \A c \in CertClients : tls_due[c] # 0 /\ tls_client[c].at = "waiting"
             /\ next.done >= 3 =>
             next.pair["cert"] = tls_version
    BY CertReads
  <2>3. QED
    BY <2>1, <2>2
<1>2. CertFiles' /\ CertPairs' = CertPairs
  BY DEF CertFiles, CertPairs
<1>3. CertTurn'
  <2>1. CertOld(tls_turn.stamp)'
    BY <1>1 DEF CertOld
  <2>2. QED
    BY <1>1, <1>2, <2>1 DEF CertTurn
<1>4. CertServers'
  BY <1>1, <1>2 DEF CertServers, CertAhead
<1>5. CertSessions'
  BY <1>1 DEF CertSessions
<1>6. Cert!RenewalsAreServed'
  BY DEF Cert!RenewalsAreServed
<1>7. QED
  BY <1>2, <1>3, <1>4, <1>5, <1>6

\* The last is read, and the new server begins to listen.
LEMMA CertListen ==
    ASSUME CertInv, tls_turn.at = "build", NEW f, NEW next, CertRead(f, next),
           tls_disk[f] # 0,
           next.done = 4, tls_turn' = [next EXCEPT !.at = "listen"],
           UNCHANGED <<tls_disk, tls_version, tls_renewing>>, tls_ids' = tls_ids + 1,
           tls_accepting' = tls_accepting \cup {tls_ids'},
           UNCHANGED <<tls_rebuilding, tls_closed, tls_client, tls_current, tls_due>>
    PROVE  CertInv'
<1> USE DEF CertInv
<1>1. /\ tls_turn'.at = "listen" /\ tls_turn'.done = 4 /\ CertOld(tls_turn'.stamp)
      /\ CertAhead(tls_turn'.stamp, tls_turn'.pair)
      /\ \A c \in CertClients : tls_due[c] # 0 /\ tls_client[c].at = "waiting" =>
            tls_turn'.pair["cert"] = tls_version /\ tls_turn'.pair["key"] = tls_version
      /\ tls_turn' \in [at : {"idle", "look", "build", "listen"}, done : 0 .. 4,
                        stamp : CertPairs, pair : CertPairs]
  <2> HIDE DEF CertInv
  <2>1. next \in [at : {"build"}, done : 0 .. 4, stamp : CertPairs, pair : CertPairs]
    BY DEF CertRead
  <2>2. tls_turn'.stamp = next.stamp /\ tls_turn'.pair = next.pair
          /\ tls_turn'.at = "listen"
        /\ tls_turn'.done = next.done
        /\ tls_turn' \in [at : {"idle", "look", "build", "listen"}, done : 0 .. 4,
                          stamp : CertPairs, pair : CertPairs]
    BY <2>1
  <2>3. QED
    BY <2>2, CertReads
<1>2. CertFiles' /\ CertPairs' = CertPairs
  BY DEF CertFiles, CertPairs
<1>3. CertTurn'
  <2>1. CertOld(tls_turn.stamp)' /\ CertAhead(tls_turn.stamp, tls_turn.pair)'
    BY <1>1 DEF CertOld, CertAhead
  <2>2. QED
    BY <1>1, <1>2, <2>1 DEF CertTurn
<1>4. CertServers'
  <2>1. tls_ids \in Nat /\ tls_current.id \in 0 .. tls_ids
        /\ tls_accepting = IF tls_closed
             \/ tls_current = Cert!None THEN {} ELSE {tls_current.id}
    BY DEF CertServers
  <2>2. QED
    BY <1>1, <1>2, <2>1 DEF CertServers, CertAhead
<1>5. CertSessions'
  BY <1>1 DEF CertSessions
<1>6. Cert!RenewalsAreServed'
  BY DEF Cert!RenewalsAreServed
<1>7. QED
  BY <1>2, <1>3, <1>4, <1>5, <1>6

LEMMA CertBuild == ASSUME CertInv, Cert!Build PROVE CertInv'
<1> DEFINE f    == Cert!Order[tls_turn.done + 1][2]
           next == [tls_turn EXCEPT ![Cert!Order[tls_turn.done + 1][1]][f] = tls_disk[f],
             !.done = @ + 1]
<1>1. Len(Cert!Order) = 4
  BY DEF Cert!Order
<1>2. /\ tls_turn.at = "build"
      /\ UNCHANGED <<Cert!certbot, tls_current, tls_faults, tls_due>>
      /\ UNCHANGED <<tls_disk, tls_version, tls_renewing>>
  BY DEF Cert!Build, Cert!certbot
<1>3. CertRead(f, next)
  BY <1>2, CertNext
<1>4. IF tls_disk[f] = 0 \/ (next.done = Len(Cert!Order) /\ ~Cert!Matches(next.pair))
      THEN Cert!Fails /\ UNCHANGED <<tls_accepting, tls_ids>>
      ELSE IF next.done < Len(Cert!Order)
      THEN tls_turn' = next /\ UNCHANGED <<tls_rebuilding, tls_closed, tls_client,
        tls_accepting, tls_ids>>
      ELSE /\ tls_turn' = [next EXCEPT !.at = "listen"]
           /\ tls_ids' = tls_ids + 1 /\ tls_accepting' = tls_accepting \cup {tls_ids'}
           /\ UNCHANGED <<tls_rebuilding, tls_closed, tls_client>>
  BY DEF Cert!Build
<1>5. CASE tls_disk[f] = 0 \/ (next.done = Len(Cert!Order) /\ ~Cert!Matches(next.pair))
  <2>1. Cert!Fails /\ UNCHANGED <<tls_accepting, tls_ids>>
    BY <1>5, <1>4
  <2>2. ASSUME NEW c \in CertClients, tls_due[c] # 0,
               tls_client[c].at = "waiting" PROVE FALSE
    <3>1. f \in Cert!Files /\ tls_disk = Cert!Both(tls_version) /\ tls_version # 0
      BY <1>3, <2>2, CertQuiet DEF CertRead, CertInv, CertFiles
    <3>2. tls_disk[f] # 0
      BY <3>1 DEF Cert!Both
    <3>3. next.done = 4
      BY <1>5, <3>2 DEF Cert!Order
    <3> HIDE DEF f, next
    <3>4. next.pair["key"] = tls_version /\ next.pair["cert"] = tls_version
      BY <1>2, <1>3, <2>2, <3>2, <3>3, CertReads
    <3>5. QED
      BY <1>5, <3>2, <3>4 DEF Cert!Matches
  <2>3. /\ tls_ids' \in Nat /\ tls_ids <= tls_ids' /\ tls_due' = tls_due
        /\ tls_due \in [CertClients -> 0 .. tls_version]
        /\ tls_accepting' = IF tls_closed
             \/ tls_current = Cert!None THEN {} ELSE {tls_current.id}
    BY <1>2, <2>1 DEF CertInv, CertServers, CertSessions
  <2>4. QED
    BY <1>2, <2>1, <2>2, <2>3, CertFails
<1>6. CASE ~(tls_disk[f] = 0 \/ (next.done = Len(Cert!Order) /\ ~Cert!Matches(next.pair)))
  <2>1. tls_disk[f] # 0 /\ f \in Cert!Files /\ next.done \in 0 .. 4
    BY <1>3, <1>6 DEF CertRead
  <2>2. CASE next.done < 4
    <3>1. tls_turn' = next /\ UNCHANGED <<tls_rebuilding, tls_closed, tls_client,
            tls_accepting, tls_ids>>
      BY <1>1, <1>6, <1>4, <2>2
    <3> HIDE DEF f, next
    <3>2. QED
      BY <1>2, <1>3, <2>1, <2>2, <3>1, CertGoesOn
  <2>3. CASE next.done = 4
    <3>1. /\ tls_turn' = [next EXCEPT !.at = "listen"]
          /\ UNCHANGED <<tls_rebuilding, tls_closed, tls_client>>
          /\ tls_ids' = tls_ids + 1 /\ tls_accepting' = tls_accepting \cup {tls_ids'}
      <4> HIDE DEF f, next
      <4> QED
        BY <1>1, <1>6, <1>4, <2>3
    <3> HIDE DEF f, next
    <3>2. QED
      BY <1>2, <1>3, <2>1, <2>3, <3>1, CertListen
  <2>4. QED
    BY <2>1, <2>2, <2>3
<1>7. QED
  BY <1>5, <1>6

LEMMA CertListenFails == ASSUME CertInv, Cert!ListenFails PROVE CertInv'
<1>1. /\ tls_turn.at = "listen" /\ tls_accepting' = tls_accepting \ {tls_ids} /\ Cert!Fails
      /\ tls_due' = [c \in CertClients |-> 0] /\ UNCHANGED <<Cert!certbot, tls_current>>
      /\ tls_ids' = tls_ids
  BY DEF Cert!ListenFails
<1>2. tls_ids \in Nat /\ tls_current.id # tls_ids /\ tls_version \in Nat
  BY <1>1 DEF CertInv, CertServers, CertFiles
<1>3. tls_accepting' = IF tls_closed
        \/ tls_current = Cert!None THEN {} ELSE {tls_current.id}
  BY <1>1, <1>2 DEF CertInv, CertServers
<1>4. tls_due' \in [CertClients -> 0 .. tls_version]
  BY <1>1, <1>2
<1>5. \A c \in CertClients : tls_due'[c] = 0
  BY <1>1
<1>6. QED
  BY <1>1, <1>2, <1>3, <1>4, <1>5, CertFails

LEMMA CertListens == ASSUME CertInv, Cert!Listens PROVE CertInv'
<1> USE DEF CertInv
<1> DEFINE next == [id |-> tls_ids, stamp |-> tls_turn.stamp, pair |-> tls_turn.pair]
<1>1. /\ tls_turn.at = "listen" /\ Cert!AfterListen(next) /\ tls_turn' = Cert!Idle
      /\ tls_rebuilding' = FALSE
      /\ Cert!Dial(tls_current')
      /\ UNCHANGED <<Cert!certbot, tls_ids, tls_closed, tls_faults, tls_due>>
      /\ UNCHANGED <<tls_disk, tls_version, tls_renewing>>
  BY DEF Cert!Listens, Cert!certbot
<1>2. CertFiles' /\ CertPairs' = CertPairs
  BY <1>1 DEF CertFiles, CertPairs
<1>3. /\ tls_ids \in Nat /\ tls_ids # 0 /\ tls_current.id # tls_ids
      /\ tls_closed \in BOOLEAN
      /\ CertAhead(tls_turn.stamp, tls_turn.pair) /\ tls_turn.stamp \in CertPairs
      /\ tls_turn.pair \in CertPairs
      /\ tls_current \in [id : 0 .. tls_ids, stamp : CertPairs, pair : CertPairs]
      /\ tls_accepting = (IF tls_closed
           \/ tls_current = Cert!None THEN {} ELSE {tls_current.id}) \cup {tls_ids}
  BY <1>1 DEF CertServers, CertTurn
<1>4. next \in [id : 0 .. tls_ids, stamp : CertPairs, pair : CertPairs] /\ next # Cert!None
  BY <1>3 DEF Cert!None
<1>5. tls_turn' = [at |-> "idle", done |-> 0, stamp |-> Cert!Both(0), pair |-> Cert!Both(0)]
  BY <1>1 DEF Cert!Idle
<1>6. CertTurn'
  <2>1. Cert!Both(0) \in CertPairs
    BY DEF CertPairs, Cert!Both, CertFiles
  <2>2. tls_turn' \in [at : {"idle", "look", "build", "listen"}, done : 0 .. 4,
                      stamp : CertPairs, pair : CertPairs]
    BY <1>5, <2>1
  <2>3. tls_rebuilding' \in BOOLEAN /\ ~tls_rebuilding'
    BY <1>1
  <2>4. tls_turn'.at = "idle"
    BY <1>5
  <2> HIDE DEF CertInv
  <2>5. QED
    BY <1>2, <2>2, <2>3, <2>4 DEF CertTurn
<1>7. CertServers'
  <2>1. CASE tls_closed
    <3>1. tls_accepting' = {} /\ tls_current' = tls_current
      BY <1>1, <1>3, <2>1 DEF Cert!AfterListen
    <3>2. QED
      BY <1>1, <1>2, <1>5, <2>1, <3>1 DEF CertServers, CertAhead
  <2>2. CASE ~tls_closed
    <3>1. tls_current' = next /\ tls_accepting' = tls_accepting \ {tls_current.id}
      BY <1>1, <2>2 DEF Cert!AfterListen
    <3>2. tls_accepting' = {tls_ids}
      <4>1. tls_current = Cert!None => tls_current.id = 0
        BY DEF Cert!None
      <4>2. QED
        BY <1>3, <2>2, <3>1, <4>1
    <3>3. tls_current'.id = tls_ids /\ tls_current'.stamp = tls_turn.stamp
            /\ tls_current'.pair = tls_turn.pair
      BY <3>1
    <3> HIDE DEF next
    <3>4. CertAhead(tls_current.stamp, tls_current.pair)'
      BY <1>3, <3>3 DEF CertAhead
    <3>5. QED
      BY <1>1, <1>2, <1>3, <1>4, <1>5, <2>2, <3>1, <3>2, <3>3, <3>4 DEF CertServers
  <2>3. QED
    BY <2>1, <2>2 DEF CertServers
<1>8. CertSessions' /\ Cert!RenewalsAreServed'
  <2>1. tls_current'.id \in Nat /\ tls_current'.pair \in [Cert!Files -> Nat]
    BY <1>1, <1>2, <1>7 DEF CertServers, CertPairs, CertFiles
  <2>2. ASSUME NEW c \in CertClients, tls_due[c] # 0,
               tls_client[c].at = "waiting", ~tls_closed
        PROVE  tls_current'.pair = Cert!Both(tls_version)
    <3>1. tls_current'.pair = tls_turn.pair
      BY <1>1, <2>2 DEF Cert!AfterListen
    <3>2. tls_turn.pair["cert"] = tls_version /\ tls_turn.pair["key"] = tls_version
      BY <1>1, <2>2 DEF CertSessions, CertTurn
    <3>3. tls_turn.pair \in [Cert!Files -> 0 .. tls_version]
      BY <1>3 DEF CertPairs
    <3>4. QED
      BY <3>1, <3>2, <3>3 DEF Cert!Both, Cert!Files
  <2>3. tls_due' = tls_due /\ tls_due \in [CertClients -> 0 .. tls_version]
          /\ tls_closed' = tls_closed
    BY <1>1 DEF CertSessions
  <2> HIDE DEF CertInv
  <2>4. QED
    BY <1>1, <2>1, <2>2, <2>3, CertDialled
<1>9. QED
  BY <1>2, <1>6, <1>7, <1>8

LEMMA CertStep == CertInv /\ [Cert!Next]_(Cert!vars) => CertInv'
<1> SUFFICES ASSUME CertInv, [Cert!Next]_(Cert!vars) PROVE CertInv'
  OBVIOUS
<1>1. CASE UNCHANGED Cert!vars
  <2>1. UNCHANGED <<tls_disk, tls_version, tls_renewing, tls_turn, tls_rebuilding,
          tls_current, tls_accepting, tls_ids, tls_closed,
                    tls_client, tls_due>>
    BY <1>1 DEF Cert!vars
  <2>2. QED
    BY <2>1 DEF CertInv, CertFiles, CertTurn, CertServers, CertSessions,
                Cert!RenewalsAreServed,
                CertPairs, CertOld, CertAhead
<1>2. CASE Cert!Next
  BY <1>2, CertTakeAway, CertPutBack, CertRelay, CertAccept, CertLook, CertBuild,
     CertListenFails, CertListens, CertClose DEF Cert!Next
<1>3. QED
  BY <1>1, <1>2

\* For any number of connections, however often the certificate is renewed and listens
\* fail (startPgProxy, startInner, refresh).
LEMMA CertHolds == Cert!Spec => []Cert!TlsIsSound
<1>1. CertInv /\ [Cert!Next]_(Cert!vars) => CertInv'
  BY CertStep
<1>2. QED
  BY <1>1, CertInit, CertSound, PTL DEF Cert!Spec

-----------------------------------------------------------------------------
(* The file of API tokens.                                                 *)

\* What a process is doing.
TokenRecs == [name : TokenNames, secret : Tokens!Secrets, keyed : BOOLEAN]
TokenHashes == [at : {"hash"}, name : TokenNames, secret : Tokens!Secrets,
  read : SUBSET TokenRecs]
TokenWriters == [at : {"write", "fill"}, what : {"create", "revoke", "rekey"},
                 secrets : SUBSET Tokens!Secrets, text : SUBSET TokenRecs]
TokenChecks == [at : {"keyed", "legacy"}, secret : Tokens!Secrets, text : SUBSET TokenRecs,
                ever : BOOLEAN, always : BOOLEAN]
TokenSaid == [at : {"done"}, said : {"taken", "unknown", "ok", "yes"}]
TokenJudged == [at : {"done"}, said : {"yes", "no"}, ever : BOOLEAN, always : BOOLEAN]
TokenOp(o) == \/ o = Tokens!Idle \/ o \in TokenHashes \/ o \in TokenWriters
              \/ o \in TokenChecks \/ o \in TokenSaid \/ o \in TokenJudged

TokenTypes ==
    /\ tokens_file \in SUBSET TokenRecs /\ tokens_torn \in BOOLEAN
    /\ tokens_spoiled \in BOOLEAN
    /\ tokens_op = [p \in Tokens!Procs |-> tokens_op[p]]
    /\ \A p \in Tokens!Procs : TokenOp(tokens_op[p])
    /\ tokens_minted \in Tokens!Secrets /\ tokens_known \in SUBSET Tokens!Secrets
    /\ tokens_revoked \in SUBSET Tokens!Secrets

\* What a check has seen agrees with what it tries: it has begun with the file.
TokenSeen(text, s) == \E r \in text : r.secret = s
TokenVerdict(o) ==
    /\ o.at \in {"keyed", "legacy"} =>
          /\ TokenSeen(o.text, o.secret) => o.ever
          /\ o.always => TokenSeen(o.text, o.secret)
    /\ o.at = "legacy" => ~Tokens!Tries(o.text, o.secret, TRUE)
    /\ o.at = "done" /\ o.said \in {"yes", "no"} /\ "ever" \in DOMAIN o =>
          /\ o.said = "yes" => o.ever
          /\ o.said = "no" => ~o.always

\* As long as nothing has crossed: one process at most is between a read and its write,
TokenLone == \A p, q \in Tokens!Procs : Tokens!Inside(p) /\ Tokens!Inside(q) => p = q
TokenTorn == tokens_torn <=> \E p \in Tokens!Procs : tokens_op[p].at = "fill"

\* every secret has one name, and was minted,
TokenNamed == \A r, s \in tokens_file : r.secret = s.secret => r.name = s.name
TokenGiven == Tokens!Stored \cup tokens_known
  \cup tokens_revoked \subseteq 0 .. tokens_minted

\* what is being minted is new,
TokenPending(o, s) ==
    \/ o.at = "hash" /\ s = o.secret
    \/ o.at \in {"write", "fill"} /\ o.what = "create" /\ s \in o.secrets
TokenFresh ==
    \A p \in Tokens!Procs, s \in Tokens!Secrets : TokenPending(tokens_op[p], s) =>
        /\ s <= tokens_minted /\ s \notin Tokens!Stored \cup tokens_known
             \cup tokens_revoked
        /\ \A q \in Tokens!Procs : TokenPending(tokens_op[q], s) => q = p

\* what is about to be written is the file with one change,
TokenCreates(o) ==
    \E n \in TokenNames, s \in Tokens!Secrets :
        /\ o.secrets = {s}
        /\ o.text = tokens_file \cup {[name |-> n, secret |-> s, keyed |-> TRUE]}
TokenRevokes(o) ==
    \E n \in TokenNames :
        /\ o.text = {r \in tokens_file : r.name # n}
        /\ o.secrets = {r.secret : r \in {r \in tokens_file : r.name = n}}
TokenRekeys(o) ==
    /\ \A r \in o.text : \E q \in tokens_file : q.name = r.name /\ q.secret = r.secret
    /\ \A r \in tokens_file : \E q \in o.text : q.name = r.name /\ q.secret = r.secret
TokenWrites(o) ==
    \/ o.what = "create" /\ TokenCreates(o)
    \/ o.what = "revoke" /\ TokenRevokes(o)
    \/ o.what = "rekey" /\ TokenRekeys(o)

\* and what was given is on file until it is revoked.
TokenKept == tokens_known \ tokens_revoked \subseteq Tokens!Stored
  /\ Tokens!Stored \cap tokens_revoked = {}

TokenClean ==
    /\ TokenLone /\ TokenTorn /\ TokenNamed /\ TokenGiven /\ TokenFresh /\ TokenKept
    /\ \A p \in Tokens!Procs : Tokens!Inside(p) => TokenWrites(tokens_op[p])

TokenInv ==
    /\ TokenTypes
    /\ \A p \in Tokens!Procs : TokenVerdict(tokens_op[p])
    /\ ~tokens_spoiled => TokenClean

-----------------------------------------------------------------------------

LEMMA TokenNumbers ==
    /\ Tokens!Secrets \subseteq Nat /\ 0 \in Tokens!Secrets /\ TokenMaxSecrets \in Nat
    /\ \A s \in Tokens!Secrets : s < TokenMaxSecrets => s + 1 \in Tokens!Secrets
BY TokenBound DEF Tokens!Secrets

LEMMA TokenSound == TokenInv => Tokens!TokensAreSound
<1> SUFFICES ASSUME TokenInv PROVE Tokens!TokensAreSound
  OBVIOUS
<1>1. Tokens!TypeOK
  <2>1. \A p \in Tokens!Procs : tokens_op[p].at \in {"idle", "hash", "write", "fill",
          "keyed", "legacy", "done"}
    BY DEF TokenInv, TokenTypes, TokenOp, Tokens!Idle, TokenHashes, TokenWriters,
           TokenChecks,
           TokenSaid, TokenJudged
  <2>2. QED
    BY <2>1 DEF Tokens!TypeOK, TokenInv, TokenTypes, TokenRecs
<1>2. Tokens!GivenTokensStay /\ Tokens!RevokedStaysGone
  BY DEF Tokens!GivenTokensStay, Tokens!RevokedStaysGone, TokenInv, TokenClean, TokenKept
<1>3. Tokens!VerdictsAreTrue
  BY DEF Tokens!VerdictsAreTrue, TokenInv, TokenVerdict, Tokens!Procs
<1>4. QED
  BY <1>1, <1>2, <1>3 DEF Tokens!TokensAreSound

LEMMA TokenUnjudged ==
    ASSUME NEW o, o.at \notin {"keyed", "legacy", "done"}
    PROVE  TokenVerdict(o)
BY DEF TokenVerdict

LEMMA TokenInit == Tokens!Init => TokenInv
<1> SUFFICES ASSUME Tokens!Init PROVE TokenInv
  OBVIOUS
<1>1. PICK n \in TokenNames : tokens_file = {[name |-> n, secret |-> 0, keyed |-> FALSE]}
  BY DEF Tokens!Init
<1>2. /\ tokens_torn = FALSE /\ tokens_op = [p \in Tokens!Procs |-> Tokens!Idle]
      /\ tokens_minted = 0 /\ tokens_known = {0}
      /\ tokens_revoked = {} /\ tokens_spoiled = FALSE
  BY DEF Tokens!Init
<1>3. \A p \in Tokens!Procs : tokens_op[p] = [at |-> "idle"]
  BY <1>2 DEF Tokens!Idle
<1>4. Tokens!Stored = {0}
  BY <1>1 DEF Tokens!Stored
<1>5. TokenTypes
  <2>1. \A p \in Tokens!Procs : TokenOp(tokens_op[p])
    BY <1>2 DEF TokenOp
  <2>2. tokens_file \in SUBSET TokenRecs
    BY <1>1, TokenNumbers DEF TokenRecs
  <2>3. tokens_torn \in BOOLEAN /\ tokens_spoiled \in BOOLEAN
    BY <1>2
  <2>4. tokens_op = [p \in Tokens!Procs |-> tokens_op[p]]
    BY <1>2
  <2>5. tokens_minted \in Tokens!Secrets /\ tokens_known \in SUBSET Tokens!Secrets
          /\ tokens_revoked \in SUBSET Tokens!Secrets
    BY <1>2, TokenNumbers
  <2>6. QED
    BY <2>1, <2>2, <2>3, <2>4, <2>5 DEF TokenTypes
<1>6. \A p \in Tokens!Procs : TokenVerdict(tokens_op[p])
  BY <1>3, TokenUnjudged
<1>7. TokenClean
  <2>1. TokenLone /\ TokenFresh /\ \A p \in Tokens!Procs : ~Tokens!Inside(p)
    BY <1>3 DEF TokenLone, TokenFresh, TokenPending, Tokens!Inside
  <2>2. TokenTorn
    BY <1>2, <1>3 DEF TokenTorn
  <2>3. TokenNamed /\ TokenKept
    BY <1>1, <1>2, <1>4 DEF TokenNamed, TokenKept
  <2>4. TokenGiven
    BY <1>2, <1>4 DEF TokenGiven
  <2>5. QED
    BY <2>1, <2>2, <2>3, <2>4 DEF TokenClean
<1>8. QED
  BY <1>5, <1>6, <1>7 DEF TokenInv

\* A step of p alone that leaves the file as it is.
LEMMA TokenMoves ==
    ASSUME TokenInv, NEW p \in Tokens!Procs,
           UNCHANGED <<tokens_file, tokens_known, tokens_revoked>>,
           tokens_minted' \in Tokens!Secrets,
             tokens_minted' \in {tokens_minted, tokens_minted + 1},
           tokens_torn' \in BOOLEAN, tokens_spoiled' \in BOOLEAN, tokens_spoiled
             => tokens_spoiled',
           tokens_op' = [tokens_op EXCEPT ![p] = tokens_op'[p]], TokenOp(tokens_op'[p]),
             TokenVerdict(tokens_op'[p]),
           ~tokens_spoiled' =>
               (tokens_torn' <=> \/ tokens_op'[p].at = "fill"
                                 \/ \E q \in Tokens!Procs \ {p} : tokens_op[q].at = "fill"),
           ~tokens_spoiled' /\ tokens_op'[p].at \in {"write", "fill"} =>
               TokenWrites(tokens_op'[p])
                 /\ \A q \in Tokens!Procs \ {p} : ~Tokens!Inside(q),
           \A s \in Tokens!Secrets : TokenPending(tokens_op'[p], s) =>
               TokenPending(tokens_op[p], s)
                 \/ (s = tokens_minted' /\ tokens_minted' = tokens_minted + 1)
    PROVE  TokenInv'
<1>1. tokens_op'[p] = tokens_op'[p]
        /\ \A q \in Tokens!Procs \ {p} : tokens_op'[q] = tokens_op[q]
  BY DEF TokenInv, TokenTypes
<1>2. tokens_op' = [q \in Tokens!Procs |-> tokens_op'[q]]
  BY DEF TokenInv, TokenTypes
<1>3. TokenTypes'
  BY <1>1, <1>2 DEF TokenInv, TokenTypes
<1>4. \A q \in Tokens!Procs : TokenVerdict(tokens_op'[q])
  BY <1>1 DEF TokenInv
<1>5. ASSUME ~tokens_spoiled' PROVE TokenClean'
  <2>1. ~tokens_spoiled /\ TokenClean
    BY <1>5 DEF TokenInv
  <2>2. Tokens!Stored' = Tokens!Stored /\ tokens_minted \in Nat
    BY TokenNumbers DEF Tokens!Stored, TokenInv, TokenTypes
  <2>3. TokenLone'
    BY <1>1, <1>5, <2>1 DEF TokenClean, TokenLone, Tokens!Inside
  <2>4. TokenTorn'
    BY <1>1, <1>5 DEF TokenTorn
  <2>5. TokenNamed' /\ TokenKept'
    BY <2>1, <2>2 DEF TokenClean, TokenNamed, TokenKept
  <2>6. TokenGiven'
    BY <2>1, <2>2 DEF TokenClean, TokenGiven
  <2>7. TokenFresh'
    <3> SUFFICES ASSUME NEW q \in Tokens!Procs, NEW s \in Tokens!Secrets,
                        TokenPending(tokens_op'[q], s)
                 PROVE  /\ s <= tokens_minted'
                        /\ s \notin Tokens!Stored \cup tokens_known \cup tokens_revoked
                        /\ \A r \in Tokens!Procs : TokenPending(tokens_op'[r], s) => r = q
      BY <2>2 DEF TokenFresh, TokenPending
    <3>1. tokens_minted <= tokens_minted' /\ s \in Nat
      BY <2>2, TokenNumbers
    <3>2. \A r \in Tokens!Procs : TokenPending(tokens_op[r], s) =>
            /\ s <= tokens_minted
            /\ s \notin Tokens!Stored \cup tokens_known \cup tokens_revoked
            /\ \A t \in Tokens!Procs : TokenPending(tokens_op[t], s) => t = r
      BY <2>1 DEF TokenClean, TokenFresh
    <3>3. \A r \in Tokens!Procs : TokenPending(tokens_op'[r], s) =>
            TokenPending(tokens_op[r], s)
              \/ (s = tokens_minted + 1 /\ s = tokens_minted' /\ r = p)
      BY <1>1
    <3>4. CASE s = tokens_minted + 1 /\ s = tokens_minted'
      <4>1. s \notin Tokens!Stored \cup tokens_known \cup tokens_revoked
              /\ \A r \in Tokens!Procs : ~TokenPending(tokens_op[r], s)
        BY <2>1, <2>2, <3>2, <3>4 DEF TokenClean, TokenGiven
      <4>2. QED
        BY <3>1, <3>3, <3>4, <4>1
    <3>5. CASE ~(s = tokens_minted + 1 /\ s = tokens_minted')
      <4>1. \A r \in Tokens!Procs : TokenPending(tokens_op'[r], s)
              => TokenPending(tokens_op[r], s)
        BY <3>3, <3>5
      <4>2. QED
        BY <2>2, <3>1, <3>2, <4>1
    <3>6. QED
      BY <3>4, <3>5
  <2>8. \A q \in Tokens!Procs : Tokens!Inside(q)' => TokenWrites(tokens_op[q])'
    <3>1. ASSUME NEW q \in Tokens!Procs, Tokens!Inside(q)' PROVE TokenWrites(tokens_op'[q])
      <4>1. CASE q = p
        BY <1>5, <3>1, <4>1 DEF Tokens!Inside
      <4>2. CASE q # p
        BY <1>1, <2>1, <3>1, <4>2 DEF Tokens!Inside, TokenClean
      <4>3. QED
        BY <4>1, <4>2
    <3>2. \A q \in Tokens!Procs : TokenWrites(tokens_op'[q]) => TokenWrites(tokens_op[q])'
      BY DEF TokenWrites, TokenCreates, TokenRevokes, TokenRekeys
    <3>3. QED
      BY <3>1, <3>2
  <2>9. QED
    BY <2>3, <2>4, <2>5, <2>6, <2>7, <2>8 DEF TokenClean
<1>6. QED
  BY <1>3, <1>4, <1>5 DEF TokenInv, TokenVerdict

\* What is read is what the file has, unless something has crossed.
LEMMA TokenText ==
    ASSUME TokenInv
    PROVE  /\ Tokens!Text \in SUBSET TokenRecs
           /\ ~tokens_torn => Tokens!Text = tokens_file
           /\ ~tokens_spoiled => TokenClean
           /\ TokenOp(Tokens!Idle)
BY DEF TokenInv, TokenTypes, Tokens!Text, TokenOp

\* Nobody else writes while p has not crossed anybody: a handler has the thread, and
\* a command of another process would be a crossing.
LEMMA TokenAlone ==
    ASSUME NEW p \in Tokens!Procs, Tokens!Turn(p), ~Tokens!Crossing(p)
    PROVE  ~tokens_spoiled /\ \A q \in Tokens!Procs \ {p} : ~Tokens!Inside(q)
BY DEF Tokens!Turn, Tokens!Crossing, Tokens!Procs

LEMMA TokenWhole ==
    ASSUME TokenInv, NEW p \in Tokens!Procs, Tokens!Turn(p), ~Tokens!Crossing(p),
           tokens_op[p].at # "fill"
    PROVE  Tokens!Text = tokens_file /\ TokenClean
BY TokenAlone, TokenText DEF TokenClean, TokenTorn, Tokens!Inside

LEMMA TokenCreateBegins ==
    ASSUME TokenInv, NEW p \in Tokens!Procs, NEW n \in TokenNames, Tokens!CreateBegins(p, n)
    PROVE  TokenInv'
<1> DEFINE taken == [at |-> "done", said |-> "taken"]
           hash == [at |-> "hash", name |-> n, secret |-> tokens_minted + 1,
             read |-> Tokens!Text]
<1>1. /\ UNCHANGED <<tokens_file, tokens_torn, tokens_known, tokens_revoked,
           tokens_spoiled>> /\ tokens_minted' = tokens_minted + 1
      /\ tokens_op[p].at \in {"idle", "done"} /\ tokens_minted < TokenMaxSecrets
      /\ Tokens!Set(p, IF \E r \in Tokens!Text : r.name = n THEN taken ELSE hash)
  BY DEF Tokens!CreateBegins, Tokens!Begin
<1>2. tokens_minted \in Tokens!Secrets /\ tokens_minted + 1 \in Tokens!Secrets
  BY <1>1, TokenNumbers DEF TokenInv, TokenTypes
<1>3. tokens_op' = [tokens_op EXCEPT ![p] = taken]
        \/ tokens_op' = [tokens_op EXCEPT ![p] = hash]
  BY <1>1 DEF Tokens!Set
<1>4. TokenOp(taken) /\ TokenOp(hash)
  BY <1>2, TokenText DEF TokenOp, TokenSaid, TokenHashes
<1>5. TokenVerdict(taken) /\ TokenVerdict(hash)
  BY DEF TokenVerdict
<1>6. tokens_op'[p] = taken \/ tokens_op'[p] = hash
  BY <1>3 DEF TokenInv, TokenTypes
<1>7. tokens_op' = [tokens_op EXCEPT ![p] = tokens_op'[p]]
  BY <1>3, <1>6 DEF TokenInv, TokenTypes
<1>8. tokens_op'[p].at \notin {"write", "fill"}
  BY <1>6
<1>9. \A s \in Tokens!Secrets : TokenPending(tokens_op'[p], s)
        => s = tokens_minted' /\ tokens_minted' = tokens_minted + 1
  BY <1>1, <1>6 DEF TokenPending
<1>10. tokens_torn \in BOOLEAN /\ tokens_spoiled \in BOOLEAN
  BY DEF TokenInv, TokenTypes
<1>11. ~tokens_spoiled => (tokens_torn <=> \E q \in Tokens!Procs \ {p} : tokens_op[q].at
         = "fill")
  BY <1>1, TokenText DEF TokenClean, TokenTorn
<1>12. QED
  BY <1>1, <1>2, <1>4, <1>5, <1>6, <1>7, <1>8, <1>9, <1>10, <1>11, TokenMoves

\* The records that TokenMoves asks for, and what is torn while nobody begins to write.
LEMMA TokenRest ==
    ASSUME TokenInv
    PROVE  /\ tokens_torn \in BOOLEAN /\ tokens_spoiled \in BOOLEAN
           /\ tokens_minted \in Tokens!Secrets
           /\ \A p \in Tokens!Procs : tokens_op[p].at # "fill" /\ ~tokens_spoiled =>
                (tokens_torn <=> \E q \in Tokens!Procs \ {p} : tokens_op[q].at = "fill")
           /\ \A p \in Tokens!Procs : \A o : tokens_op' = [tokens_op EXCEPT ![p] = o] =>
                tokens_op'[p] = o /\ tokens_op' = [tokens_op EXCEPT ![p] = tokens_op'[p]]
BY DEF TokenInv, TokenTypes, TokenClean, TokenTorn

LEMMA TokenHashed ==
    ASSUME TokenInv, NEW p \in Tokens!Procs, Tokens!Hashed(p)
    PROVE  TokenInv'
<1> DEFINE rec == [name |-> tokens_op[p].name, secret |-> tokens_op[p].secret,
      keyed |-> TRUE]
           new == [at |-> "write", what |-> "create", secrets |-> {tokens_op[p].secret},
                   text |-> Tokens!Text \cup {rec}]
<1>1. /\ UNCHANGED <<tokens_file, tokens_torn, tokens_known, tokens_revoked, tokens_minted>>
      /\ tokens_spoiled' = Tokens!Crossing(p)
      /\ tokens_op[p].at = "hash" /\ Tokens!Turn(p)
      /\ tokens_op' = [tokens_op EXCEPT ![p] = new]
  BY DEF Tokens!Hashed, Tokens!Set, Tokens!ListNow
<1>2. tokens_op[p] \in TokenHashes
  BY <1>1 DEF TokenInv, TokenTypes, TokenOp, Tokens!Idle, TokenWriters, TokenChecks,
              TokenSaid, TokenJudged
<1>3. tokens_op[p].name \in TokenNames /\ tokens_op[p].secret \in Tokens!Secrets
  BY <1>2 DEF TokenHashes
<1>4. TokenOp(new)
  <2>1. rec \in TokenRecs
    BY <1>3 DEF TokenRecs
  <2>2. new \in TokenWriters
    BY <1>3, <2>1, TokenText DEF TokenWriters
  <2>3. QED
    BY <2>2 DEF TokenOp
<1>5. TokenVerdict(new)
  BY DEF TokenVerdict
<1>6. tokens_op'[p] = new /\ tokens_op' = [tokens_op EXCEPT ![p] = tokens_op'[p]]
  BY <1>1, TokenRest
<1>7. ASSUME ~tokens_spoiled' PROVE TokenWrites(new)
             /\ \A q \in Tokens!Procs \ {p} : ~Tokens!Inside(q)
  <2>1. Tokens!Text = tokens_file /\ \A q \in Tokens!Procs \ {p} : ~Tokens!Inside(q)
    BY <1>1, <1>7, TokenWhole, TokenAlone
  <2>2. TokenCreates(new)
    BY <1>3, <2>1 DEF TokenCreates
  <2>3. QED
    BY <2>1, <2>2 DEF TokenWrites
<1>8. \A s \in Tokens!Secrets : TokenPending(new, s) => TokenPending(tokens_op[p], s)
  BY <1>1 DEF TokenPending
<1>9. tokens_spoiled => tokens_spoiled'
  BY <1>1 DEF Tokens!Crossing
<1>10. new.at # "fill" /\ new.at # "idle"
  OBVIOUS
<1>11. tokens_spoiled' \in BOOLEAN /\ tokens_minted' = tokens_minted
         /\ tokens_torn' = tokens_torn
  BY <1>1 DEF Tokens!Crossing
<1> HIDE DEF new
<1>12. ~tokens_spoiled' => (tokens_torn <=> \E q \in Tokens!Procs \ {p} : tokens_op[q].at
         = "fill")
  BY <1>1, <1>9, TokenRest
<1>13. TokenOp(tokens_op'[p]) /\ TokenVerdict(tokens_op'[p]) /\ tokens_op'[p].at # "fill"
  BY <1>4, <1>5, <1>6, <1>10
<1>14. ~tokens_spoiled' => TokenWrites(tokens_op'[p])
         /\ \A q \in Tokens!Procs \ {p} : ~Tokens!Inside(q)
  BY <1>6, <1>7
<1>15. \A s \in Tokens!Secrets : TokenPending(tokens_op'[p], s)
         => TokenPending(tokens_op[p], s)
  BY <1>6, <1>8
<1>16. tokens_torn' \in BOOLEAN /\ tokens_minted' \in Tokens!Secrets
         /\ UNCHANGED <<tokens_file, tokens_known, tokens_revoked>>
  BY <1>1, <1>11, TokenRest
<1>17. ~tokens_spoiled' => (tokens_torn' <=> \/ tokens_op'[p].at = "fill"
         \/ \E q \in Tokens!Procs \ {p} : tokens_op[q].at = "fill")
  BY <1>11, <1>12, <1>13
<1>18. QED
  BY <1>6, <1>9, <1>11, <1>13, <1>14, <1>15, <1>16, <1>17, TokenMoves

LEMMA TokenRevokeBegins ==
    ASSUME TokenInv, NEW p \in Tokens!Procs, NEW n \in TokenNames, Tokens!RevokeBegins(p, n)
    PROVE  TokenInv'
<1> DEFINE mine == {r \in Tokens!Text : r.name = n}
           said == [at |-> "done", said |-> "unknown"]
           new == [at |-> "write", what |-> "revoke", text |-> Tokens!Text \ mine,
                   secrets |-> {r.secret : r \in mine}]
<1>1. /\ UNCHANGED <<tokens_file, tokens_torn, tokens_known, tokens_revoked, tokens_minted>>
      /\ tokens_spoiled' = Tokens!Crossing(p)
      /\ tokens_op[p].at \in {"idle", "done"} /\ Tokens!Turn(p)
      /\ tokens_op' = [tokens_op EXCEPT ![p] = IF mine = {} THEN said ELSE new]
  BY DEF Tokens!RevokeBegins, Tokens!Set, Tokens!Begin
<1>2. tokens_op' = [tokens_op EXCEPT ![p] = said]
        \/ tokens_op' = [tokens_op EXCEPT ![p] = new]
  BY <1>1
<1>3. (tokens_op'[p] = said \/ tokens_op'[p] = new)
        /\ tokens_op' = [tokens_op EXCEPT ![p] = tokens_op'[p]]
  BY <1>2, TokenRest
<1>4. TokenOp(said) /\ TokenOp(new)
  <2>1. \A r \in Tokens!Text : r.secret \in Tokens!Secrets
    BY TokenText DEF TokenRecs
  <2>2. new \in TokenWriters
    BY <2>1, TokenText DEF TokenWriters
  <2>3. QED
    BY <2>2 DEF TokenOp, TokenSaid
<1>5. TokenVerdict(said) /\ TokenVerdict(new)
  BY DEF TokenVerdict
<1>6. ASSUME ~tokens_spoiled' PROVE TokenWrites(new)
             /\ \A q \in Tokens!Procs \ {p} : ~Tokens!Inside(q)
  <2>1. Tokens!Text = tokens_file /\ \A q \in Tokens!Procs \ {p} : ~Tokens!Inside(q)
    BY <1>1, <1>6, TokenWhole, TokenAlone
  <2>2. TokenRevokes(new)
    BY <2>1 DEF TokenRevokes
  <2>3. QED
    BY <2>1, <2>2 DEF TokenWrites
<1>7. \A s \in Tokens!Secrets : ~TokenPending(said, s) /\ ~TokenPending(new, s)
  BY DEF TokenPending
<1>8. tokens_spoiled => tokens_spoiled'
  BY <1>1 DEF Tokens!Crossing
<1>9. new.at = "write" /\ said.at = "done"
  OBVIOUS
<1>10. tokens_spoiled' \in BOOLEAN /\ tokens_minted' = tokens_minted
         /\ tokens_torn' = tokens_torn
  BY <1>1 DEF Tokens!Crossing
<1> HIDE DEF new, said
<1>11. ~tokens_spoiled' => (tokens_torn <=> \E q \in Tokens!Procs \ {p} : tokens_op[q].at
         = "fill")
  BY <1>1, <1>8, TokenRest
<1>12. TokenOp(tokens_op'[p]) /\ TokenVerdict(tokens_op'[p]) /\ tokens_op'[p].at # "fill"
  BY <1>3, <1>4, <1>5, <1>9
<1>13. ~tokens_spoiled' /\ tokens_op'[p].at \in {"write", "fill"} =>
           TokenWrites(tokens_op'[p]) /\ \A q \in Tokens!Procs \ {p} : ~Tokens!Inside(q)
  BY <1>3, <1>6, <1>9
<1>14. \A s \in Tokens!Secrets : ~TokenPending(tokens_op'[p], s)
  BY <1>3, <1>7
<1>15. tokens_torn' \in BOOLEAN /\ tokens_minted' \in Tokens!Secrets
         /\ UNCHANGED <<tokens_file, tokens_known, tokens_revoked>>
  BY <1>1, <1>10, TokenRest
<1>16. ~tokens_spoiled' => (tokens_torn' <=> \/ tokens_op'[p].at = "fill"
         \/ \E q \in Tokens!Procs \ {p} : tokens_op[q].at = "fill")
  BY <1>10, <1>11, <1>12
<1>17. QED
  BY <1>3, <1>8, <1>10, <1>12, <1>13, <1>14, <1>15, <1>16, TokenMoves

\* A writer that opens the file: nothing about what it will write changes.
LEMMA TokenTruncates ==
    ASSUME TokenInv, NEW p \in Tokens!Procs, Tokens!Truncates(p)
    PROVE  TokenInv'
<1> DEFINE new == [tokens_op[p] EXCEPT !.at = "fill"]
<1>1. /\ UNCHANGED <<tokens_file, tokens_known, tokens_revoked, tokens_minted>>
      /\ tokens_spoiled' = Tokens!Crossing(p) /\ tokens_torn' = TRUE
      /\ tokens_op[p].at = "write"
      /\ tokens_op' = [q \in Tokens!Procs |-> IF q = p THEN new ELSE tokens_op[q]]
  BY DEF Tokens!Truncates
<1>2. tokens_op' = [tokens_op EXCEPT ![p] = new]
  BY <1>1 DEF TokenInv, TokenTypes
<1>3. tokens_op'[p] = new /\ tokens_op' = [tokens_op EXCEPT ![p] = tokens_op'[p]]
  BY <1>2, TokenRest
<1>4. tokens_op[p] \in TokenWriters
  BY <1>1 DEF TokenInv, TokenTypes, TokenOp, Tokens!Idle, TokenHashes, TokenChecks,
              TokenSaid, TokenJudged
<1>5. /\ new.at = "fill" /\ new.what = tokens_op[p].what
      /\ new.secrets = tokens_op[p].secrets
      /\ new.text = tokens_op[p].text
  BY <1>4 DEF TokenWriters
<1>6. TokenOp(new)
  BY <1>4 DEF TokenOp, TokenWriters
<1>7. tokens_spoiled' \in BOOLEAN /\ (tokens_spoiled => tokens_spoiled')
  BY <1>1 DEF Tokens!Crossing
<1> HIDE DEF new
<1>8. TokenVerdict(new)
  BY <1>5, TokenUnjudged
<1>9. ASSUME ~tokens_spoiled' PROVE TokenWrites(new)
             /\ \A q \in Tokens!Procs \ {p} : ~Tokens!Inside(q)
  <2>1. TokenWrites(tokens_op[p]) /\ \A q \in Tokens!Procs \ {p} : ~Tokens!Inside(q)
    BY <1>1, <1>7, <1>9 DEF TokenInv, TokenClean, TokenLone, Tokens!Inside
  <2>2. TokenWrites(new)
    BY <1>5, <2>1 DEF TokenWrites, TokenCreates, TokenRevokes, TokenRekeys
  <2>3. QED
    BY <2>1, <2>2
<1>10. \A s \in Tokens!Secrets : TokenPending(new, s) => TokenPending(tokens_op[p], s)
  BY <1>1, <1>5 DEF TokenPending
<1>11. /\ TokenOp(tokens_op'[p]) /\ TokenVerdict(tokens_op'[p]) /\ tokens_op'[p].at = "fill"
       /\ tokens_torn' = TRUE
       /\ tokens_minted' = tokens_minted
  BY <1>1, <1>3, <1>5, <1>6, <1>8
<1>12. /\ ~tokens_spoiled' => TokenWrites(tokens_op'[p])
            /\ \A q \in Tokens!Procs \ {p} : ~Tokens!Inside(q)
       /\ \A s \in Tokens!Secrets : TokenPending(tokens_op'[p], s)
            => TokenPending(tokens_op[p], s)
  BY <1>3, <1>9, <1>10
<1>13. QED
  BY <1>1, <1>3, <1>7, <1>11, <1>12, TokenRest, TokenMoves

LEMMA TokenVerifyBegins ==
    ASSUME TokenInv, NEW p \in Tokens!Procs, NEW s \in Tokens!Secrets,
           Tokens!VerifyBegins(p, s)
    PROVE  TokenInv'
<1> DEFINE new == [at |-> "keyed", secret |-> s, text |-> Tokens!Text,
                   ever |-> \E r \in tokens_file : r.secret = s,
                   always |-> ~tokens_torn /\ \E r \in tokens_file : r.secret = s]
<1>1. /\ UNCHANGED <<tokens_file, tokens_torn, tokens_known, tokens_revoked, tokens_minted>>
      /\ tokens_spoiled' = Tokens!Crossing(p)
      /\ tokens_op[p].at \in {"idle", "done"} /\ tokens_op' = [tokens_op EXCEPT ![p] = new]
  BY DEF Tokens!VerifyBegins, Tokens!Set, Tokens!Begin
<1>2. tokens_op'[p] = new /\ tokens_op' = [tokens_op EXCEPT ![p] = tokens_op'[p]]
  BY <1>1, TokenRest
<1>3. TokenOp(new)
  <2>1. new \in TokenChecks
    BY TokenText DEF TokenChecks
  <2>2. QED
    BY <2>1 DEF TokenOp
<1>4. /\ new.at = "keyed" /\ new.secret = s /\ new.text = Tokens!Text
      /\ (new.ever <=> \E r \in tokens_file : r.secret = s)
      /\ (new.always <=> ~tokens_torn /\ \E r \in tokens_file : r.secret = s)
  OBVIOUS
<1>5. tokens_spoiled' \in BOOLEAN /\ (tokens_spoiled => tokens_spoiled')
  BY <1>1 DEF Tokens!Crossing
<1> HIDE DEF new
<1>6. TokenVerdict(new)
  BY <1>4 DEF TokenVerdict, TokenSeen, Tokens!Text
<1>7. \A t \in Tokens!Secrets : ~TokenPending(new, t)
  BY <1>4 DEF TokenPending
<1>8. ~tokens_spoiled' => (tokens_torn <=> \E q \in Tokens!Procs \ {p} : tokens_op[q].at
        = "fill")
  BY <1>1, <1>5, TokenRest
<1>9. /\ TokenOp(tokens_op'[p]) /\ TokenVerdict(tokens_op'[p])
      /\ tokens_op'[p].at \notin {"write", "fill"}
      /\ \A t \in Tokens!Secrets : ~TokenPending(tokens_op'[p], t)
  BY <1>2, <1>3, <1>4, <1>6, <1>7
<1>10. QED
  BY <1>1, <1>2, <1>5, <1>8, <1>9, TokenRest, TokenMoves

LEMMA TokenKeyedTried ==
    ASSUME TokenInv, NEW p \in Tokens!Procs, Tokens!KeyedTried(p)
    PROVE  TokenInv'
<1> DEFINE yes == [at |-> "done", said |-> "yes", ever |-> tokens_op[p].ever,
      always |-> tokens_op[p].always]
           next == [tokens_op[p] EXCEPT !.at = "legacy"]
           found == Tokens!Tries(tokens_op[p].text, tokens_op[p].secret, TRUE)
<1>1. /\ UNCHANGED <<tokens_file, tokens_torn, tokens_known, tokens_revoked, tokens_minted,
           tokens_spoiled>> /\ tokens_op[p].at = "keyed"
      /\ tokens_op' = [tokens_op EXCEPT ![p] = IF found THEN yes ELSE next]
  BY DEF Tokens!KeyedTried, Tokens!Set
<1>2. (found /\ tokens_op' = [tokens_op EXCEPT ![p] = yes])
        \/ (~found /\ tokens_op' = [tokens_op EXCEPT ![p] = next])
  BY <1>1
<1>3. ((found /\ tokens_op'[p] = yes) \/ (~found /\ tokens_op'[p] = next))
        /\ tokens_op' = [tokens_op EXCEPT ![p] = tokens_op'[p]]
  BY <1>2, TokenRest
<1>4. tokens_op[p] \in TokenChecks
  BY <1>1 DEF TokenInv, TokenTypes, TokenOp, Tokens!Idle, TokenHashes, TokenWriters,
              TokenSaid, TokenJudged
<1>5. TokenOp(yes) /\ TokenOp(next)
  BY <1>4 DEF TokenOp, TokenChecks, TokenJudged
<1>6. /\ yes.at = "done" /\ yes.said = "yes" /\ yes.ever = tokens_op[p].ever
      /\ next.at = "legacy" /\ next.ever = tokens_op[p].ever
      /\ next.always = tokens_op[p].always
      /\ next.text = tokens_op[p].text /\ next.secret = tokens_op[p].secret
  BY <1>4 DEF TokenChecks
<1>7. TokenVerdict(tokens_op[p])
  BY DEF TokenInv
<1> HIDE DEF yes, next
<1>8. found => TokenVerdict(yes)
  BY <1>1, <1>6, <1>7 DEF TokenVerdict, TokenSeen, Tokens!Tries
<1>9. ~found => TokenVerdict(next)
  BY <1>1, <1>6, <1>7 DEF TokenVerdict, TokenSeen
<1>10. \A s \in Tokens!Secrets : ~TokenPending(yes, s) /\ ~TokenPending(next, s)
  BY <1>6 DEF TokenPending
<1> HIDE DEF found
<1>11. /\ TokenOp(tokens_op'[p]) /\ TokenVerdict(tokens_op'[p])
       /\ tokens_op'[p].at \notin {"write", "fill"}
       /\ \A s \in Tokens!Secrets : ~TokenPending(tokens_op'[p], s)
  BY <1>3, <1>5, <1>6, <1>8, <1>9, <1>10
<1>12. ~tokens_spoiled' => (tokens_torn <=> \E q \in Tokens!Procs \ {p} : tokens_op[q].at
         = "fill")
  BY <1>1, TokenRest
<1>13. QED
  BY <1>1, <1>3, <1>11, <1>12, TokenRest, TokenMoves

LEMMA TokenLegacyTried ==
    ASSUME TokenInv, NEW p \in Tokens!Procs, Tokens!LegacyTried(p)
    PROVE  TokenInv'
<1> DEFINE no == [at |-> "done", said |-> "no", ever |-> tokens_op[p].ever,
      always |-> tokens_op[p].always]
           new == [at |-> "write", what |-> "rekey", secrets |-> {},
             text |-> Tokens!Rekeyed(p)]
<1>1. /\ UNCHANGED <<tokens_file, tokens_torn, tokens_known, tokens_revoked, tokens_minted>>
      /\ tokens_op[p].at = "legacy" /\ Tokens!Turn(p)
      /\ \/ tokens_op' = [tokens_op EXCEPT ![p] = new]
              /\ tokens_spoiled' = Tokens!Crossing(p)
         \/ ~Tokens!Legacy(p) /\ tokens_op' = [tokens_op EXCEPT ![p] = no]
              /\ UNCHANGED tokens_spoiled
  BY DEF Tokens!LegacyTried, Tokens!Set
<1>2. tokens_op[p] \in TokenChecks
  BY <1>1 DEF TokenInv, TokenTypes, TokenOp, Tokens!Idle, TokenHashes, TokenWriters,
              TokenSaid, TokenJudged
<1>3. TokenVerdict(tokens_op[p])
  BY DEF TokenInv
<1>4. CASE tokens_op' = [tokens_op EXCEPT ![p] = new]
             /\ tokens_spoiled' = Tokens!Crossing(p)
  <2>1. tokens_op'[p] = new /\ tokens_op' = [tokens_op EXCEPT ![p] = tokens_op'[p]]
    BY <1>4, TokenRest
  <2>2. new.at = "write" /\ new.what = "rekey" /\ new.secrets = {}
          /\ new.text = Tokens!Rekeyed(p)
    OBVIOUS
  <2>3. Tokens!Rekeyed(p) \in SUBSET TokenRecs
    BY TokenText DEF Tokens!Rekeyed, TokenRecs
  <2>4. new \in TokenWriters
    BY <2>3 DEF TokenWriters
  <2>5. TokenOp(new)
    BY <2>4 DEF TokenOp
  <2>6. tokens_spoiled' \in BOOLEAN /\ (tokens_spoiled => tokens_spoiled')
    BY <1>4 DEF Tokens!Crossing
  <2> HIDE DEF new
  <2>7. ASSUME ~tokens_spoiled'
               PROVE TokenWrites(new) /\ \A q \in Tokens!Procs \ {p} : ~Tokens!Inside(q)
    <3>1. Tokens!Text = tokens_file /\ \A q \in Tokens!Procs \ {p} : ~Tokens!Inside(q)
      BY <1>1, <1>4, <2>7, TokenWhole, TokenAlone
    <3>2. tokens_file \in SUBSET TokenRecs
      BY DEF TokenInv, TokenTypes
    <3>3. \A r \in tokens_file : LET k == [r EXCEPT !.keyed = @
            \/ r.secret = tokens_op[p].secret]
                                 IN  k.name = r.name /\ k.secret = r.secret
      BY <3>2 DEF TokenRecs
    <3>4. TokenRekeys(new)
      <4> DEFINE keyed(r) == [r EXCEPT !.keyed = @ \/ r.secret = tokens_op[p].secret]
      <4>1. new.text = {keyed(r) : r \in tokens_file}
        BY <2>2, <3>1 DEF Tokens!Rekeyed
      <4>2. \A r \in tokens_file : keyed(r).name = r.name /\ keyed(r).secret = r.secret
        BY <3>3
      <4> HIDE DEF keyed
      <4>3. QED
        BY <4>1, <4>2 DEF TokenRekeys
    <3>5. QED
      BY <2>2, <3>1, <3>4 DEF TokenWrites
  <2>8. TokenVerdict(new) /\ \A s \in Tokens!Secrets : ~TokenPending(new, s)
    BY <2>2 DEF TokenVerdict, TokenPending
  <2>9. ~tokens_spoiled' => (tokens_torn <=> \E q \in Tokens!Procs \ {p} : tokens_op[q].at
          = "fill")
    BY <1>1, <2>6, TokenRest
  <2>10. /\ TokenOp(tokens_op'[p]) /\ TokenVerdict(tokens_op'[p])
         /\ tokens_op'[p].at # "fill"
         /\ ~tokens_spoiled' => TokenWrites(tokens_op'[p])
              /\ \A q \in Tokens!Procs \ {p} : ~Tokens!Inside(q)
         /\ \A s \in Tokens!Secrets : ~TokenPending(tokens_op'[p], s)
    BY <2>1, <2>2, <2>5, <2>7, <2>8
  <2>11. QED
    BY <1>1, <2>1, <2>6, <2>9, <2>10, TokenRest, TokenMoves
<1>5. CASE ~Tokens!Legacy(p) /\ tokens_op' = [tokens_op EXCEPT ![p] = no]
             /\ UNCHANGED tokens_spoiled
  <2>1. tokens_op'[p] = no /\ tokens_op' = [tokens_op EXCEPT ![p] = tokens_op'[p]]
    BY <1>5, TokenRest
  <2>2. TokenOp(no)
    BY <1>2 DEF TokenOp, TokenChecks, TokenJudged
  <2>3. no.at = "done" /\ no.said = "no" /\ no.always = tokens_op[p].always
    OBVIOUS
  <2> HIDE DEF no
  <2>4. ~TokenSeen(tokens_op[p].text, tokens_op[p].secret)
    <3>1. \A r \in tokens_op[p].text : r.keyed \in BOOLEAN
      BY <1>2 DEF TokenChecks, TokenRecs
    <3>2. ~Tokens!Tries(tokens_op[p].text, tokens_op[p].secret, TRUE)
            /\ ~Tokens!Tries(tokens_op[p].text, tokens_op[p].secret, FALSE)
      BY <1>1, <1>3, <1>5 DEF TokenVerdict, Tokens!Legacy
    <3>3. QED
      BY <3>1, <3>2 DEF Tokens!Tries, TokenSeen
  <2>5. TokenVerdict(no)
    BY <1>1, <1>3, <2>3, <2>4 DEF TokenVerdict
  <2>6. \A s \in Tokens!Secrets : ~TokenPending(no, s)
    BY <2>3 DEF TokenPending
  <2>7. ~tokens_spoiled' => (tokens_torn <=> \E q \in Tokens!Procs \ {p} : tokens_op[q].at
          = "fill")
    BY <1>1, <1>5, TokenRest
  <2>8. /\ TokenOp(tokens_op'[p]) /\ TokenVerdict(tokens_op'[p])
        /\ tokens_op'[p].at \notin {"write", "fill"}
        /\ \A s \in Tokens!Secrets : ~TokenPending(tokens_op'[p], s)
    BY <2>1, <2>2, <2>3, <2>5, <2>6
  <2>9. QED
    BY <1>1, <1>5, <2>1, <2>7, <2>8, TokenRest, TokenMoves
<1>6. QED
  BY <1>1, <1>4, <1>5

\* What a write of p does to the others: a check sees the new file.
LEMMA TokenWatch ==
    ASSUME NEW o, NEW recs \in SUBSET TokenRecs, TokenOp(o), TokenVerdict(o)
    PROVE  /\ TokenOp(Tokens!Watch(o, recs)) /\ TokenVerdict(Tokens!Watch(o, recs))
           /\ Tokens!Watch(o, recs).at = o.at
           /\ \A s : TokenPending(Tokens!Watch(o, recs), s) <=> TokenPending(o, s)
<1>1. CASE o.at \notin {"keyed", "legacy"}
  BY <1>1 DEF Tokens!Watch
<1>2. CASE o.at \in {"keyed", "legacy"}
  <2> DEFINE seen == \E r \in recs : r.secret = o.secret
             new == [o EXCEPT !.ever = @ \/ seen, !.always = @ /\ seen]
  <2>1. o \in TokenChecks
    BY <1>2 DEF TokenOp, Tokens!Idle, TokenHashes, TokenWriters, TokenSaid, TokenJudged
  <2>2. Tokens!Watch(o, recs) = new
    BY <1>2 DEF Tokens!Watch
  <2>3. seen \in BOOLEAN
    OBVIOUS
  <2> HIDE DEF seen
  <2>4. /\ new.at = o.at /\ new.text = o.text /\ new.secret = o.secret
        /\ new.ever = (o.ever \/ seen) /\ new.always = (o.always /\ seen)
    BY <2>1 DEF TokenChecks
  <2>5. new \in TokenChecks
    BY <2>1, <2>3 DEF TokenChecks
  <2> HIDE DEF new
  <2>6. o.ever \in BOOLEAN /\ o.always \in BOOLEAN
    BY <2>1 DEF TokenChecks
  <2>7. (o.ever => new.ever) /\ (new.always => o.always)
    BY <2>3, <2>4, <2>6
  <2>8. TokenVerdict(new)
    BY <1>2, <2>4, <2>7 DEF TokenVerdict
  <2>9. \A s : ~TokenPending(o, s) /\ ~TokenPending(new, s)
    BY <1>2, <2>4 DEF TokenPending
  <2>10. QED
    BY <2>2, <2>4, <2>5, <2>8, <2>9 DEF TokenOp
<1>3. QED
  BY <1>1, <1>2

\* What a write that nothing crossed makes of the file and of what is known of it.
LEMMA TokenFilled ==
    ASSUME TokenInv, TokenClean, NEW p \in Tokens!Procs, tokens_op[p].at = "fill",
           tokens_op[p] \in TokenWriters,
           tokens_file' = tokens_op[p].text,
           tokens_known' = IF tokens_op[p].what = "create"
             THEN tokens_known \cup tokens_op[p].secrets ELSE tokens_known,
           tokens_revoked' = IF tokens_op[p].what = "revoke"
             THEN tokens_revoked \cup tokens_op[p].secrets ELSE tokens_revoked
    PROVE  /\ TokenNamed' /\ TokenKept'
           /\ \A s \in Tokens!Secrets : s \in Tokens!Stored' \cup tokens_known'
                \cup tokens_revoked' =>
                s \in Tokens!Stored \cup tokens_known \cup tokens_revoked
                  \/ TokenPending(tokens_op[p], s)
           /\ Tokens!Stored' \cup tokens_known'
                \cup tokens_revoked' \subseteq Tokens!Secrets
<1>1. TokenWrites(tokens_op[p]) /\ TokenNamed /\ TokenKept
  BY DEF TokenClean, Tokens!Inside
<1>2. /\ Tokens!Stored \cup tokens_known \cup tokens_revoked \subseteq Tokens!Secrets
      /\ Tokens!Stored = {r.secret : r \in tokens_file}
      /\ Tokens!Stored' = {r.secret : r \in tokens_file'}
           /\ \A r \in tokens_file : r.secret \in Tokens!Stored
  BY DEF TokenInv, TokenTypes, TokenRecs, Tokens!Stored
<1>3. CASE tokens_op[p].what = "create" /\ TokenCreates(tokens_op[p])
  <2>1. PICK n \in TokenNames, s \in Tokens!Secrets :
           /\ tokens_op[p].secrets = {s}
           /\ tokens_op[p].text = tokens_file
                \cup {[name |-> n, secret |-> s, keyed |-> TRUE]}
    BY <1>3 DEF TokenCreates
  <2>2. TokenPending(tokens_op[p], s)
    BY <1>3, <2>1 DEF TokenPending
  <2>3. s \notin Tokens!Stored \cup tokens_known \cup tokens_revoked
    BY <2>2 DEF TokenClean, TokenFresh
  <2>4. tokens_known' = tokens_known \cup {s} /\ tokens_revoked' = tokens_revoked
    BY <1>3, <2>1
  <2>5. Tokens!Stored' = Tokens!Stored \cup {s}
    <3> DEFINE rec == [name |-> n, secret |-> s, keyed |-> TRUE]
    <3>1. rec.secret = s /\ tokens_file' = tokens_file \cup {rec}
      BY <2>1
    <3> HIDE DEF rec
    <3>2. QED
      BY <1>2, <3>1
  <2>6. TokenNamed'
    BY <1>1, <1>2, <2>1, <2>3 DEF TokenNamed
  <2>7. TokenKept'
    BY <1>1, <2>3, <2>4, <2>5 DEF TokenKept
  <2>8. QED
    BY <1>2, <2>2, <2>4, <2>5, <2>6, <2>7
<1>4. CASE tokens_op[p].what = "revoke" /\ TokenRevokes(tokens_op[p])
  <2>1. PICK n \in TokenNames :
           /\ tokens_op[p].text = {r \in tokens_file : r.name # n}
           /\ tokens_op[p].secrets = {r.secret : r \in {r \in tokens_file : r.name = n}}
    BY <1>4 DEF TokenRevokes
  <2>2. tokens_known' = tokens_known
          /\ tokens_revoked' = tokens_revoked \cup tokens_op[p].secrets
    BY <1>4
  <2>3. Tokens!Stored' = Tokens!Stored \ tokens_op[p].secrets
    BY <1>1, <1>2, <2>1 DEF TokenNamed
  <2>4. tokens_op[p].secrets \subseteq Tokens!Stored
    BY <1>2, <2>1
  <2>5. TokenNamed'
    BY <1>1, <2>1 DEF TokenNamed
  <2>6. TokenKept'
    BY <1>1, <2>2, <2>3 DEF TokenKept
  <2>7. QED
    BY <1>2, <2>2, <2>3, <2>4, <2>5, <2>6
<1>5. CASE tokens_op[p].what = "rekey" /\ TokenRekeys(tokens_op[p])
  <2>1. tokens_known' = tokens_known /\ tokens_revoked' = tokens_revoked
    BY <1>5
  <2>2. Tokens!Stored' = Tokens!Stored
    BY <1>2, <1>5 DEF TokenRekeys
  <2>3. TokenNamed'
    BY <1>1, <1>5 DEF TokenNamed, TokenRekeys
  <2>4. TokenKept'
    BY <1>1, <2>1, <2>2 DEF TokenKept
  <2>5. QED
    BY <1>2, <2>1, <2>2, <2>3, <2>4
<1>6. QED
  BY <1>1, <1>3, <1>4, <1>5 DEF TokenWrites

LEMMA TokenFills ==
    ASSUME TokenInv, NEW p \in Tokens!Procs, Tokens!Fills(p)
    PROVE  TokenInv'
<1> DEFINE said == [at |-> "done", said |-> IF tokens_op[p].what = "rekey"
      THEN "yes" ELSE "ok"]
<1>1. /\ tokens_op[p].at = "fill" /\ tokens_torn' = FALSE
      /\ tokens_file' = tokens_op[p].text /\ tokens_minted' = tokens_minted
      /\ tokens_op' = [q \in Tokens!Procs |-> IF q = p THEN said
           ELSE Tokens!Watch(tokens_op[q], tokens_op[p].text)]
      /\ tokens_known' = IF tokens_op[p].what = "create"
           THEN tokens_known \cup tokens_op[p].secrets ELSE tokens_known
      /\ tokens_revoked' = IF tokens_op[p].what = "revoke"
           THEN tokens_revoked \cup tokens_op[p].secrets ELSE tokens_revoked
      /\ tokens_spoiled' = Tokens!Crossing(p)
  BY DEF Tokens!Fills
<1>2. tokens_op[p] \in TokenWriters
  BY <1>1 DEF TokenInv, TokenTypes, TokenOp, Tokens!Idle, TokenHashes, TokenChecks,
              TokenSaid, TokenJudged
<1>3. tokens_op[p].text \in SUBSET TokenRecs
        /\ tokens_op[p].secrets \in SUBSET Tokens!Secrets
  BY <1>2 DEF TokenWriters
<1>4. /\ TokenOp(said) /\ TokenVerdict(said) /\ said.at = "done"
      /\ \A s \in Tokens!Secrets : ~TokenPending(said, s)
  <2>1. said.said \in {"yes", "ok"} /\ said.at = "done" /\ DOMAIN said = {"at", "said"}
    OBVIOUS
  <2>2. said \in TokenSaid
    BY DEF TokenSaid
  <2> HIDE DEF said
  <2>3. TokenVerdict(said)
    BY <2>1 DEF TokenVerdict
  <2>4. QED
    BY <2>1, <2>2, <2>3 DEF TokenOp, TokenPending
<1> HIDE DEF said
<1>5. tokens_op'[p] = said /\ \A q \in Tokens!Procs \ {p} : tokens_op'[q]
        = Tokens!Watch(tokens_op[q], tokens_op[p].text)
  BY <1>1
<1>6. tokens_op' = [q \in Tokens!Procs |-> tokens_op'[q]]
  BY <1>1, <1>5
<1>7. \A q \in Tokens!Procs \ {p} :
        /\ TokenOp(tokens_op'[q]) /\ TokenVerdict(tokens_op'[q])
        /\ tokens_op'[q].at = tokens_op[q].at
        /\ \A s \in Tokens!Secrets : TokenPending(tokens_op'[q],
             s) <=> TokenPending(tokens_op[q], s)
  BY <1>3, <1>5, TokenWatch DEF TokenInv, TokenTypes
<1>8. \A q \in Tokens!Procs : TokenOp(tokens_op'[q]) /\ TokenVerdict(tokens_op'[q])
  BY <1>4, <1>5, <1>7
<1>9. TokenTypes'
  <2>1. tokens_known' \in SUBSET Tokens!Secrets /\ tokens_revoked' \in SUBSET Tokens!Secrets
    BY <1>1, <1>3 DEF TokenInv, TokenTypes
  <2>2. tokens_torn' \in BOOLEAN /\ tokens_spoiled' \in BOOLEAN
    BY <1>1 DEF Tokens!Crossing
  <2>3. tokens_file' \in SUBSET TokenRecs /\ tokens_minted' \in Tokens!Secrets
    BY <1>1, <1>3 DEF TokenInv, TokenTypes
  <2>4. \A q \in Tokens!Procs : TokenOp(tokens_op[q])'
    BY <1>8 DEF TokenOp
  <2>5. QED
    BY <1>6, <2>1, <2>2, <2>3, <2>4 DEF TokenTypes
<1>10. ASSUME ~tokens_spoiled' PROVE TokenClean'
  <2>1. TokenClean /\ \A q \in Tokens!Procs \ {p} : tokens_op[q].at \notin {"write", "fill"}
    BY <1>1, <1>10, TokenText DEF Tokens!Crossing, TokenClean, TokenLone, Tokens!Inside
  <2>2. /\ TokenNamed' /\ TokenKept'
        /\ \A s \in Tokens!Secrets : s \in Tokens!Stored' \cup tokens_known'
             \cup tokens_revoked' =>
             s \in Tokens!Stored \cup tokens_known \cup tokens_revoked
               \/ TokenPending(tokens_op[p], s)
        /\ Tokens!Stored' \cup tokens_known' \cup tokens_revoked' \subseteq Tokens!Secrets
    BY <1>1, <1>2, <2>1, TokenFilled
  <2>3. \A q \in Tokens!Procs : tokens_op'[q].at \notin {"write", "fill"}
    BY <1>4, <1>5, <1>7, <2>1
  <2>4. TokenLone' /\ TokenTorn' /\ \A q \in Tokens!Procs : ~Tokens!Inside(q)'
    BY <1>1, <2>3 DEF TokenLone, TokenTorn, Tokens!Inside
  <2>5. \A s \in Tokens!Secrets : TokenPending(tokens_op[p], s) => s <= tokens_minted
    BY <2>1 DEF TokenClean, TokenFresh
  <2>6. TokenGiven'
    <3>1. \A s \in Tokens!Secrets : s \in Tokens!Stored \cup tokens_known
            \cup tokens_revoked => s <= tokens_minted
      BY <2>1, TokenNumbers DEF TokenClean, TokenGiven, TokenInv, TokenTypes
    <3>2. \A s \in Tokens!Stored' \cup tokens_known'
            \cup tokens_revoked' : s \in Tokens!Secrets /\ s <= tokens_minted'
      BY <1>1, <2>2, <2>5, <3>1
    <3>3. tokens_minted' \in Nat /\ \A s \in Tokens!Secrets : s \in Nat
      BY <1>1, TokenNumbers DEF TokenInv, TokenTypes
    <3>4. \A s \in Tokens!Secrets : s <= tokens_minted' => s \in 0 .. tokens_minted'
      BY <3>3
    <3>5. QED
      BY <3>2, <3>4 DEF TokenGiven
  <2>7. TokenFresh'
    <3> SUFFICES ASSUME NEW q \in Tokens!Procs, NEW s \in Tokens!Secrets,
                        TokenPending(tokens_op'[q], s)
                 PROVE  /\ s <= tokens_minted'
                        /\ s \notin Tokens!Stored' \cup tokens_known'
                                  \cup tokens_revoked'
                        /\ \A r \in Tokens!Procs : TokenPending(tokens_op'[r], s) => r = q
      BY DEF TokenFresh, TokenPending
    <3>1. q # p /\ TokenPending(tokens_op[q], s)
      BY <1>4, <1>5, <1>7
    <3>2. /\ s <= tokens_minted
          /\ s \notin Tokens!Stored \cup tokens_known \cup tokens_revoked
          /\ \A r \in Tokens!Procs : TokenPending(tokens_op[r], s) => r = q
      BY <2>1, <3>1 DEF TokenClean, TokenFresh
    <3>3. \A r \in Tokens!Procs : TokenPending(tokens_op'[r], s)
            => TokenPending(tokens_op[r], s)
      BY <1>4, <1>5, <1>7
    <3>4. QED
      BY <1>1, <2>2, <3>1, <3>2, <3>3
  <2>8. QED
    BY <2>2, <2>4, <2>6, <2>7 DEF TokenClean
<1>11. QED
  BY <1>8, <1>9, <1>10 DEF TokenInv, TokenVerdict

LEMMA TokenKilled ==
    ASSUME TokenInv, NEW p \in Tokens!Procs, Tokens!Killed(p)
    PROVE  TokenInv'
<1>1. /\ UNCHANGED <<tokens_file, tokens_torn, tokens_minted, tokens_known, tokens_revoked>>
      /\ tokens_op' = [q \in Tokens!Procs |-> IF q = p
           \/ {p, q} \subseteq TokenHandlers THEN Tokens!Idle ELSE tokens_op[q]]
      /\ tokens_spoiled' = (tokens_spoiled
           \/ \E q \in Tokens!Procs : tokens_op[q].at = "fill" /\ tokens_op'[q].at = "idle")
  BY DEF Tokens!Killed
<1>2. \A q \in Tokens!Procs : tokens_op'[q] = Tokens!Idle \/ tokens_op'[q] = tokens_op[q]
  BY <1>1
<1>3. tokens_op' = [q \in Tokens!Procs |-> tokens_op'[q]]
  BY <1>1
<1>4. Tokens!Idle.at = "idle" /\ TokenOp(Tokens!Idle) /\ TokenVerdict(Tokens!Idle)
        /\ \A s : ~TokenPending(Tokens!Idle, s)
  BY DEF Tokens!Idle, TokenOp, TokenVerdict, TokenPending
<1>5. \A q \in Tokens!Procs : TokenOp(tokens_op'[q]) /\ TokenVerdict(tokens_op'[q])
  BY <1>2, <1>4 DEF TokenInv, TokenTypes
<1>6. TokenTypes'
  <2>1. tokens_spoiled' \in BOOLEAN
    BY <1>1 DEF TokenInv, TokenTypes
  <2>2. \A q \in Tokens!Procs : TokenOp(tokens_op[q])'
    BY <1>5 DEF TokenOp
  <2>3. QED
    BY <1>1, <1>3, <2>1, <2>2 DEF TokenInv, TokenTypes
<1>7. ASSUME ~tokens_spoiled' PROVE TokenClean'
  <2>1. ~tokens_spoiled /\ TokenClean /\ \A q \in Tokens!Procs : tokens_op[q].at = "fill"
          => tokens_op'[q].at # "idle"
    BY <1>1, <1>7 DEF TokenInv
  <2>2. \A q \in Tokens!Procs : tokens_op'[q].at \in {"write", "fill"}
          => tokens_op'[q] = tokens_op[q]
    BY <1>2, <1>4
  <2>3. \A q \in Tokens!Procs : tokens_op[q].at = "fill" <=> tokens_op'[q].at = "fill"
    BY <1>2, <1>4, <2>1
  <2>4. TokenLone'
    BY <2>1, <2>2 DEF TokenClean, TokenLone, Tokens!Inside
  <2>5. TokenTorn'
    BY <1>1, <2>1, <2>3 DEF TokenClean, TokenTorn
  <2>6. Tokens!Stored' = Tokens!Stored /\ TokenNamed' /\ TokenKept' /\ TokenGiven'
    BY <1>1, <2>1 DEF TokenClean, TokenNamed, TokenKept, TokenGiven, Tokens!Stored
  <2>7. \A q \in Tokens!Procs, s \in Tokens!Secrets : TokenPending(tokens_op'[q], s)
          => TokenPending(tokens_op[q], s)
    BY <1>2, <1>4
  <2>8. TokenFresh'
    <3> SUFFICES ASSUME NEW q \in Tokens!Procs, NEW s \in Tokens!Secrets,
                        TokenPending(tokens_op'[q], s)
                 PROVE  /\ s <= tokens_minted
                        /\ s \notin Tokens!Stored \cup tokens_known \cup tokens_revoked
                        /\ \A r \in Tokens!Procs : TokenPending(tokens_op'[r], s) => r = q
      BY <1>1, <2>6 DEF TokenFresh, TokenPending
    <3>1. QED
      BY <2>1, <2>7 DEF TokenClean, TokenFresh
  <2>9. \A q \in Tokens!Procs : Tokens!Inside(q)' => TokenWrites(tokens_op[q])'
    <3>1. \A q \in Tokens!Procs : Tokens!Inside(q)'
            => Tokens!Inside(q) /\ tokens_op'[q] = tokens_op[q]
      BY <2>2 DEF Tokens!Inside
    <3>2. \A q \in Tokens!Procs : tokens_op'[q] = tokens_op[q] /\ TokenWrites(tokens_op[q])
            => TokenWrites(tokens_op[q])'
      BY <1>1 DEF TokenWrites, TokenCreates, TokenRevokes, TokenRekeys
    <3>3. QED
      BY <2>1, <3>1, <3>2 DEF TokenClean
  <2>10. QED
    BY <2>4, <2>5, <2>6, <2>8, <2>9 DEF TokenClean
<1>8. QED
  BY <1>5, <1>6, <1>7 DEF TokenInv, TokenVerdict

LEMMA TokenStep == TokenInv /\ [Tokens!Next]_(Tokens!vars) => TokenInv'
<1> SUFFICES ASSUME TokenInv, [Tokens!Next]_(Tokens!vars) PROVE TokenInv'
  OBVIOUS
<1>1. CASE UNCHANGED Tokens!vars
  <2>1. UNCHANGED <<tokens_file, tokens_torn, tokens_op, tokens_minted, tokens_known,
          tokens_revoked, tokens_spoiled>>
    BY <1>1 DEF Tokens!vars
  <2>2. TokenTypes'
    BY <2>1 DEF TokenInv, TokenTypes
  <2>3. \A p \in Tokens!Procs : TokenVerdict(tokens_op'[p])
    BY <2>1 DEF TokenInv
  <2>4. TokenClean => TokenClean'
    <3>1. \A p \in Tokens!Procs : (Tokens!Inside(p) <=> Tokens!Inside(p)')
            /\ (TokenWrites(tokens_op[p]) => TokenWrites(tokens_op[p])')
      BY <2>1 DEF Tokens!Inside, TokenWrites, TokenCreates, TokenRevokes, TokenRekeys
    <3>2. Tokens!Stored' = Tokens!Stored
      BY <2>1 DEF Tokens!Stored
    <3>3. TokenLone => TokenLone'
      BY <3>1 DEF TokenLone
    <3>4. (TokenTorn => TokenTorn') /\ (TokenNamed => TokenNamed')
      BY <2>1 DEF TokenTorn, TokenNamed
    <3>5. (TokenGiven => TokenGiven') /\ (TokenKept => TokenKept')
      BY <2>1, <3>2 DEF TokenGiven, TokenKept
    <3>6. TokenFresh => TokenFresh'
      BY <2>1, <3>2 DEF TokenFresh, TokenPending
    <3>7. QED
      BY <3>1, <3>3, <3>4, <3>5, <3>6 DEF TokenClean
  <2>5. QED
    BY <2>1, <2>2, <2>3, <2>4 DEF TokenInv, TokenVerdict
<1>2. CASE Tokens!Next
  <2>1. PICK p \in Tokens!Procs :
          \/ \E n \in TokenNames : Tokens!CreateBegins(p, n) \/ Tokens!RevokeBegins(p, n)
          \/ \E s \in Tokens!Secrets : Tokens!VerifyBegins(p, s)
          \/ Tokens!Hashed(p) \/ Tokens!Truncates(p) \/ Tokens!Fills(p)
               \/ Tokens!KeyedTried(p) \/ Tokens!LegacyTried(p) \/ Tokens!Killed(p)
    BY <1>2 DEF Tokens!Next
  <2>2. QED
    BY <2>1, TokenCreateBegins, TokenRevokeBegins, TokenVerifyBegins, TokenHashed,
       TokenTruncates,
       TokenFills, TokenKeyedTried, TokenLegacyTried, TokenKilled
<1>3. QED
  BY <1>1, <1>2

\* Whatever is minted, revoked and checked together, and whoever is killed.
LEMMA TokenHolds == Tokens!Spec => []Tokens!TokensAreSound
BY TokenInit, TokenStep, TokenSound, PTL DEF Tokens!Spec

-----------------------------------------------------------------------------
(* The enqueue listener.                                                   *)

SendReqs == {[at |-> "idle"]} \cup [at : {"body"}, of : Send!Ids,
  project : Send!Ids, was : Nat]

SendTypes ==
    /\ enqueue_projects \in 0 .. SendMaxProjects /\ enqueue_queues \in Nat
    /\ enqueue_project \in [SendNames -> 0 .. enqueue_projects]
    /\ enqueue_worker \in [Send!Ids -> 0 .. enqueue_projects]
    /\ enqueue_queue \in [Send!Ids -> 0 .. enqueue_queues]
    /\ enqueue_file \in [SendNames -> [there : BOOLEAN, from : SUBSET Send!Ids]]
    /\ enqueue_removal \in [SendNames -> {"none", "resources", "directory", "row"}]
    /\ enqueue_req \in [SendRequests -> SendReqs]

\* A project has one name, and a worker's token is its own project's: a request is of the
\* project whose worker sent it.
SendTokens ==
    /\ \A n, m \in SendNames : enqueue_project[n] = enqueue_project[m]
         /\ enqueue_project[n] # Send!None => n = m
    /\ \A id \in Send!Ids : enqueue_worker[id] \in {Send!None, id}
    /\ \A r \in SendRequests : enqueue_req[r].at = "body"
         => enqueue_req[r].project = enqueue_req[r].of

\* How far a removal is, the queue it has left, and the file under the name.
SendFiles ==
    /\ \A n \in SendNames : enqueue_removal[n] # "none" => enqueue_project[n] # Send!None
    /\ \A n \in SendNames : ~enqueue_file[n].there => enqueue_file[n].from = {}
    /\ \A n \in SendNames \ enqueue_raced :
          enqueue_removal[n] \in {"directory", "row"}
            => enqueue_queue[enqueue_project[n]] = Send!None
    /\ Send!MessagesStayHome
    /\ Send!FilesAreOfQueues

SendInv == SendTypes /\ SendTokens /\ SendFiles

-----------------------------------------------------------------------------

LEMMA SendSound == SendInv => Send!SendsAreSound
<1> SUFFICES ASSUME SendInv PROVE Send!SendsAreSound
  OBVIOUS
<1>1. Send!TypeOK
  <2>1. \A r \in SendRequests : enqueue_req[r].at \in {"idle", "body"}
    BY DEF SendInv, SendTypes, SendReqs
  <2>2. QED
    BY <2>1 DEF Send!TypeOK, SendInv, SendTypes
<1>2. QED
  BY <1>1 DEF Send!SendsAreSound, SendInv, SendFiles

LEMMA SendIds == Send!None = 0 /\ Send!None \notin Send!Ids /\ Send!Ids \subseteq Nat
BY SendBound DEF Send!None, Send!Ids

LEMMA SendLiving ==
    ASSUME SendInv
    PROVE  \A n \in SendNames : enqueue_project[n] # Send!None
             => enqueue_project[n] \in Send!Ids
BY SendBound DEF Send!None, Send!Ids, SendInv, SendTypes

LEMMA SendInit == Send!Init => SendInv
<1> SUFFICES ASSUME Send!Init PROVE SendInv
  OBVIOUS
<1>1. Send!NoFile \in [there : BOOLEAN, from : SUBSET Send!Ids] /\ ~Send!NoFile.there
        /\ Send!NoFile.from = {}
  BY DEF Send!NoFile
<1>2. SendTypes
  BY <1>1, SendBound DEF Send!Init, SendTypes, SendReqs, Send!None
<1>3. SendTokens
  BY DEF Send!Init, SendTokens
<1>4. SendFiles
  BY <1>1 DEF Send!Init, SendFiles, Send!MessagesStayHome, Send!FilesAreOfQueues
<1>5. QED
  BY <1>2, <1>3, <1>4 DEF SendInv

\* openQueueDb leaves what is in the file.
LEMMA SendOpened ==
    ASSUME SendTypes, NEW n \in SendNames
    PROVE  /\ Send!Opened(n) \in [SendNames -> [there : BOOLEAN, from : SUBSET Send!Ids]]
           /\ Send!Opened(n)[n].there /\ Send!Opened(n)[n].from = enqueue_file[n].from
           /\ \A m \in SendNames \ {n} : Send!Opened(n)[m] = enqueue_file[m]
<1> DEFINE new == [enqueue_file[n] EXCEPT !.there = TRUE]
<1>1. enqueue_file[n] \in [there : BOOLEAN, from : SUBSET Send!Ids]
  BY DEF SendTypes
<1>2. new.there /\ new.from = enqueue_file[n].from
        /\ new \in [there : BOOLEAN, from : SUBSET Send!Ids]
  BY <1>1
<1>3. Send!Opened(n) = [enqueue_file EXCEPT ![n] = new]
  BY DEF Send!Opened
<1> HIDE DEF new
<1>4. QED
  BY <1>2, <1>3 DEF SendTypes

LEMMA SendCreated ==
    ASSUME SendInv, NEW n \in SendNames, Send!Created(n, enqueue_projects + 1)
    PROVE  SendInv'
<1> DEFINE id == enqueue_projects + 1
<1>1. /\ id <= SendMaxProjects /\ enqueue_project[n] = Send!None /\ enqueue_projects' = id
      /\ enqueue_queues' = enqueue_queues + 1
      /\ enqueue_project' = [enqueue_project EXCEPT ![n] = id]
      /\ enqueue_worker' = [enqueue_worker EXCEPT ![id] = id]
      /\ enqueue_queue' = [enqueue_queue EXCEPT ![id] = enqueue_queues + 1]
      /\ enqueue_file' = Send!Opened(n)
      /\ UNCHANGED <<enqueue_removal, enqueue_req, enqueue_raced>>
  BY DEF Send!Created
<1>2. /\ enqueue_projects \in Nat /\ id \in Send!Ids /\ id \in 0 .. SendMaxProjects
      /\ 0 .. enqueue_projects \subseteq 0 .. id
      /\ enqueue_queues + 1 \in Nat
      /\ 0 .. enqueue_queues \subseteq 0 .. (enqueue_queues + 1) /\ id \in 0 .. id
      /\ enqueue_queues + 1 \in 0 .. (enqueue_queues + 1) /\ enqueue_queues + 1 # Send!None
      /\ id # Send!None
  BY <1>1, SendBound DEF SendInv, SendTypes, Send!Ids, Send!None
<1>3. \A m \in SendNames : enqueue_project[m] # id
  BY <1>2 DEF SendInv, SendTypes
<1>4. /\ enqueue_project'[n] = id
      /\ \A m \in SendNames \ {n} : enqueue_project'[m] = enqueue_project[m]
      /\ enqueue_worker'[id] = id
      /\ \A i \in Send!Ids \ {id} : enqueue_worker'[i] = enqueue_worker[i]
      /\ enqueue_queue'[id] = enqueue_queues + 1
      /\ \A i \in Send!Ids \ {id} : enqueue_queue'[i] = enqueue_queue[i]
  BY <1>1, <1>2 DEF SendInv, SendTypes
<1>5. /\ enqueue_file' \in [SendNames -> [there : BOOLEAN, from : SUBSET Send!Ids]]
      /\ enqueue_file'[n].there /\ enqueue_file'[n].from = enqueue_file[n].from
      /\ \A m \in SendNames \ {n} : enqueue_file'[m] = enqueue_file[m]
  BY <1>1, SendOpened DEF SendInv
<1> HIDE DEF id
<1>6. SendTypes'
  <2>1. enqueue_project' \in [SendNames -> 0 .. id]
          /\ enqueue_worker' \in [Send!Ids -> 0 .. id]
    BY <1>1, <1>2 DEF SendInv, SendTypes
  <2>2. enqueue_queue' \in [Send!Ids -> 0 .. (enqueue_queues + 1)]
    BY <1>1, <1>2 DEF SendInv, SendTypes
  <2>3. QED
    BY <1>1, <1>2, <1>5, <2>1, <2>2 DEF SendInv, SendTypes
<1>7. SendTokens'
  BY <1>1, <1>3, <1>4 DEF SendInv, SendTokens
<1>8. enqueue_file[n].from \subseteq Send!Ids
        /\ (n \notin enqueue_raced => enqueue_file[n].from = {})
  BY <1>1, SendIds, SendLiving DEF SendInv, SendTypes, SendFiles, Send!MessagesStayHome
<1>9. SendFiles'
  <2>1. Send!MessagesStayHome'
    BY <1>1, <1>4, <1>5, <1>8 DEF SendInv, SendFiles, Send!MessagesStayHome
  <2>2. Send!FilesAreOfQueues'
    BY <1>1, <1>2, <1>3, <1>4, <1>5, SendIds, SendLiving DEF SendInv, SendFiles,
                                                             Send!FilesAreOfQueues
  <2>3. \A m \in SendNames : enqueue_removal[m] # "none" => enqueue_project'[m] # Send!None
    BY <1>2, <1>4 DEF SendInv, SendFiles
  <2>4. enqueue_removal[n] = "none"
    BY <1>1 DEF SendInv, SendFiles
  <2>5. \A m \in SendNames \ enqueue_raced : enqueue_removal[m] \in {"directory", "row"}
          => enqueue_queue'[enqueue_project'[m]] = Send!None
    <3>1. \A m \in SendNames : enqueue_removal[m] \in {"directory", "row"} =>
            m # n /\ enqueue_project[m] \in Send!Ids \ {id}
      BY <1>3, <2>4, SendIds, SendLiving DEF SendInv, SendFiles
    <3>2. QED
      BY <1>4, <3>1 DEF SendInv, SendFiles
  <2>6. \A m \in SendNames : ~enqueue_file'[m].there => enqueue_file'[m].from = {}
    BY <1>5 DEF SendInv, SendFiles
  <2>7. QED
    BY <1>1, <2>1, <2>2, <2>3, <2>5, <2>6 DEF SendFiles
<1>10. QED
  BY <1>6, <1>7, <1>9 DEF SendInv

LEMMA SendCreateQueue ==
    ASSUME SendInv, NEW n \in SendNames, Send!CreateQueue(n)
    PROVE  SendInv'
<1>1. /\ enqueue_project[n] # Send!None /\ enqueue_queues' = enqueue_queues + 1
      /\ enqueue_file' = Send!Opened(n)
      /\ enqueue_queue' = [enqueue_queue EXCEPT ![enqueue_project[n]] = enqueue_queues + 1]
      /\ enqueue_raced' = (IF enqueue_removal[n] = "none" THEN enqueue_raced
           ELSE enqueue_raced \cup {n})
      /\ UNCHANGED <<enqueue_project, enqueue_worker, enqueue_removal, enqueue_req,
           enqueue_projects>>
  BY DEF Send!CreateQueue
<1>2. /\ enqueue_project[n] \in Send!Ids /\ enqueue_queues + 1 \in Nat
      /\ 0 .. enqueue_queues \subseteq 0 .. (enqueue_queues + 1)
      /\ enqueue_queues + 1 \in 0 .. (enqueue_queues + 1) /\ enqueue_queues + 1 # Send!None
  BY <1>1, SendIds, SendLiving DEF SendInv, SendTypes
<1>3. enqueue_queue'[enqueue_project[n]] = enqueue_queues + 1
        /\ \A i \in Send!Ids \ {enqueue_project[n]} : enqueue_queue'[i] = enqueue_queue[i]
  BY <1>1, <1>2 DEF SendInv, SendTypes
<1>4. /\ enqueue_file' \in [SendNames -> [there : BOOLEAN, from : SUBSET Send!Ids]]
      /\ enqueue_file'[n].there /\ enqueue_file'[n].from = enqueue_file[n].from
      /\ \A m \in SendNames \ {n} : enqueue_file'[m] = enqueue_file[m]
  BY <1>1, SendOpened DEF SendInv
<1>5. SendTypes'
  <2>1. enqueue_queue' \in [Send!Ids -> 0 .. (enqueue_queues + 1)]
    BY <1>1, <1>2 DEF SendInv, SendTypes
  <2>2. QED
    BY <1>1, <1>2, <1>4, <2>1 DEF SendInv, SendTypes
<1>6. SendTokens'
  BY <1>1 DEF SendInv, SendTokens
<1>7. SendFiles'
  <2>1. \A m \in SendNames : enqueue_removal[m] # "none" => enqueue_project[m] # Send!None
    BY DEF SendInv, SendFiles
  <2>2. \A m \in SendNames : ~enqueue_file'[m].there => enqueue_file'[m].from = {}
    BY <1>4 DEF SendInv, SendFiles
  <2>3. \A m \in SendNames \ {n} : enqueue_project[m] # Send!None
          => enqueue_project[m] # enqueue_project[n] /\ enqueue_project[m] \in Send!Ids
    BY <1>1, SendIds, SendLiving DEF SendInv, SendTokens
  <2>4. enqueue_raced \subseteq enqueue_raced'
          /\ (n \notin enqueue_raced' => enqueue_removal[n] = "none")
    BY <1>1
  <2>5. \A m \in SendNames \ enqueue_raced' : enqueue_removal[m] \in {"directory", "row"}
          => enqueue_queue'[enqueue_project[m]] = Send!None
    BY <1>3, <2>1, <2>3, <2>4 DEF SendInv, SendFiles
  <2>6. Send!MessagesStayHome'
    BY <1>1, <1>4, <2>4 DEF SendInv, SendFiles, Send!MessagesStayHome
  <2>7. Send!FilesAreOfQueues'
    BY <1>1, <1>2, <1>3, <1>4, <2>3, <2>4 DEF SendInv, SendFiles, Send!FilesAreOfQueues
  <2>8. QED
    BY <1>1, <2>1, <2>2, <2>5, <2>6, <2>7 DEF SendFiles
<1>8. QED
  BY <1>5, <1>6, <1>7 DEF SendInv

\* A step that takes the file under one name away, the row of its queue with it or not,
\* and leaves the removal of that name where it may be.
LEMMA SendLoses ==
    ASSUME SendInv, NEW n \in SendNames, enqueue_project[n] # Send!None,
           enqueue_file' = [enqueue_file EXCEPT ![n] = Send!NoFile],
           enqueue_queue' \in {enqueue_queue,
             [enqueue_queue EXCEPT ![enqueue_project[n]] = Send!None]},
           enqueue_removal' \in {enqueue_removal,
             [enqueue_removal EXCEPT ![n] = "directory"],
                                 [enqueue_removal EXCEPT ![n] = "row"]},
           n \notin enqueue_raced /\ enqueue_removal'[n] \in {"directory", "row"}
             => enqueue_queue'[enqueue_project[n]] = Send!None,
           UNCHANGED <<enqueue_project, enqueue_worker, enqueue_req, enqueue_projects,
             enqueue_queues, enqueue_raced>>
    PROVE  SendInv'
<1>1. enqueue_project[n] \in Send!Ids
  BY SendIds, SendLiving DEF SendInv
<1>2. \A i \in Send!Ids : enqueue_queue'[i] = enqueue_queue[i]
        \/ enqueue_queue'[i] = Send!None
  BY <1>1 DEF SendInv, SendTypes
<1>3. \A i \in Send!Ids \ {enqueue_project[n]} : enqueue_queue'[i] = enqueue_queue[i]
  BY <1>1 DEF SendInv, SendTypes
<1>4. Send!NoFile \in [there : BOOLEAN, from : SUBSET Send!Ids] /\ ~Send!NoFile.there
        /\ Send!NoFile.from = {}
  BY DEF Send!NoFile
<1>5. /\ enqueue_file'[n] = Send!NoFile
      /\ \A m \in SendNames \ {n} : enqueue_file'[m] = enqueue_file[m]
      /\ enqueue_file' \in [SendNames -> [there : BOOLEAN, from : SUBSET Send!Ids]]
  BY <1>4 DEF SendInv, SendTypes
<1>6. \A m \in SendNames \ {n} : enqueue_removal'[m] = enqueue_removal[m]
  BY DEF SendInv, SendTypes
<1>7. \A m \in SendNames \ {n} : enqueue_project[m] # Send!None
        => enqueue_project[m] # enqueue_project[n] /\ enqueue_project[m] \in Send!Ids
  BY SendIds, SendLiving DEF SendInv, SendTokens
<1>8. SendTypes'
  <2>1. enqueue_queue' \in [Send!Ids -> 0 .. enqueue_queues]
    BY <1>1 DEF SendInv, SendTypes, Send!None
  <2>2. enqueue_removal' \in [SendNames -> {"none", "resources", "directory", "row"}]
    BY DEF SendInv, SendTypes
  <2>3. QED
    BY <1>5, <2>1, <2>2 DEF SendInv, SendTypes
<1>9. SendTokens'
  BY DEF SendInv, SendTokens
<1>10. SendFiles'
  <2>1. \A m \in SendNames : enqueue_removal'[m] # "none" => enqueue_project[m] # Send!None
    BY <1>6 DEF SendInv, SendFiles
  <2>2. \A m \in SendNames : ~enqueue_file'[m].there => enqueue_file'[m].from = {}
    BY <1>4, <1>5 DEF SendInv, SendFiles
  <2>3. \A m \in SendNames \ enqueue_raced : enqueue_removal'[m] \in {"directory", "row"}
          => enqueue_queue'[enqueue_project[m]] = Send!None
    BY <1>3, <1>6, <1>7, <2>1 DEF SendInv, SendFiles
  <2>4. Send!MessagesStayHome'
    BY <1>4, <1>5 DEF SendInv, SendFiles, Send!MessagesStayHome
  <2>5. Send!FilesAreOfQueues'
    BY <1>3, <1>4, <1>5, <1>7 DEF SendInv, SendFiles, Send!FilesAreOfQueues
  <2>6. QED
    BY <2>1, <2>2, <2>3, <2>4, <2>5 DEF SendFiles
<1>11. QED
  BY <1>8, <1>9, <1>10 DEF SendInv

\* A step of which only a worker's token, a removal's beginning or a request is told.
LEMMA SendQuiet ==
    ASSUME SendInv, UNCHANGED <<enqueue_project, enqueue_queue, enqueue_file,
           enqueue_projects, enqueue_queues, enqueue_raced>>,
           enqueue_worker' \in [Send!Ids -> 0 .. enqueue_projects],
             \A id \in Send!Ids : enqueue_worker'[id] \in {Send!None, enqueue_worker[id]},
           \/ enqueue_removal' = enqueue_removal
           \/ \E n \in SendNames : enqueue_project[n] # Send!None
                /\ enqueue_removal' = [enqueue_removal EXCEPT ![n] = "resources"],
           enqueue_req' \in [SendRequests -> SendReqs],
           \A r \in SendRequests : enqueue_req'[r].at = "body"
             => enqueue_req'[r].project = enqueue_req'[r].of
    PROVE  SendInv'
<1>1. enqueue_removal' \in [SendNames -> {"none", "resources", "directory", "row"}]
  BY DEF SendInv, SendTypes
<1>2. SendTypes'
  BY <1>1 DEF SendInv, SendTypes
<1>3. SendTokens'
  BY DEF SendInv, SendTokens
<1>4. \A m \in SendNames : enqueue_removal'[m] # "none" => enqueue_project[m] # Send!None
  BY DEF SendInv, SendTypes, SendFiles
<1>5. \A m \in SendNames \ enqueue_raced : enqueue_removal'[m] \in {"directory", "row"}
        => enqueue_queue[enqueue_project[m]] = Send!None
  BY DEF SendInv, SendTypes, SendFiles
<1>6. Send!MessagesStayHome' /\ Send!FilesAreOfQueues'
  BY DEF SendInv, SendFiles, Send!MessagesStayHome, Send!FilesAreOfQueues
<1>7. SendFiles'
  BY <1>4, <1>5, <1>6 DEF SendInv, SendFiles
<1>8. QED
  BY <1>2, <1>3, <1>7 DEF SendInv

LEMMA SendUnworked ==
    ASSUME SendInv, NEW n \in SendNames, enqueue_project[n] # Send!None,
           enqueue_worker' = [enqueue_worker EXCEPT ![enqueue_project[n]] = Send!None],
           UNCHANGED <<enqueue_project, enqueue_queue, enqueue_file, enqueue_removal,
             enqueue_req, enqueue_projects, enqueue_queues, enqueue_raced>>
    PROVE  SendInv'
<1>1. enqueue_project[n] \in Send!Ids
  BY SendIds, SendLiving DEF SendInv
<1>2. enqueue_worker' \in [Send!Ids -> 0 .. enqueue_projects]
        /\ \A id \in Send!Ids : enqueue_worker'[id] \in {Send!None, enqueue_worker[id]}
  BY <1>1 DEF SendInv, SendTypes, Send!None
<1>3. QED
  BY <1>2, SendQuiet DEF SendInv, SendTypes, SendTokens

LEMMA SendRmRow ==
    ASSUME SendInv, NEW n \in SendNames, Send!RmRow(n)
    PROVE  SendInv'
<1>1. /\ enqueue_removal[n] = "row"
      /\ enqueue_queue' = [enqueue_queue EXCEPT ![enqueue_project[n]] = Send!None]
      /\ enqueue_project' = [enqueue_project EXCEPT ![n] = Send!None]
      /\ enqueue_removal' = [enqueue_removal EXCEPT ![n] = "none"]
      /\ UNCHANGED <<enqueue_worker, enqueue_file, enqueue_req, enqueue_projects,
           enqueue_queues, enqueue_raced>>
  BY DEF Send!RmRow
<1>2. enqueue_project[n] # Send!None /\ enqueue_project[n] \in Send!Ids
  BY <1>1, SendIds, SendLiving DEF SendInv, SendFiles
<1>3. /\ enqueue_project'[n] = Send!None
      /\ \A m \in SendNames \ {n} : enqueue_project'[m] = enqueue_project[m]
      /\ enqueue_removal'[n] = "none"
      /\ \A m \in SendNames \ {n} : enqueue_removal'[m] = enqueue_removal[m]
      /\ \A i \in Send!Ids \ {enqueue_project[n]} : enqueue_queue'[i] = enqueue_queue[i]
  BY <1>1 DEF SendInv, SendTypes
<1>4. n \notin enqueue_raced => ~enqueue_file[n].there /\ enqueue_file[n].from = {}
  BY <1>1 DEF SendInv, SendFiles, Send!FilesAreOfQueues
<1>5. \A m \in SendNames \ {n} : enqueue_project[m] # Send!None
        => enqueue_project[m] # enqueue_project[n] /\ enqueue_project[m] \in Send!Ids
  BY <1>2, SendIds, SendLiving DEF SendInv, SendTokens
<1>6. SendTypes'
  <2>0. Send!None \in 0 .. enqueue_projects /\ Send!None \in 0 .. enqueue_queues
    BY DEF SendInv, SendTypes, Send!None
  <2>1. enqueue_project' \in [SendNames -> 0 .. enqueue_projects]
          /\ enqueue_queue' \in [Send!Ids -> 0 .. enqueue_queues]
    BY <1>1, <2>0 DEF SendInv, SendTypes
  <2>2. enqueue_removal' \in [SendNames -> {"none", "resources", "directory", "row"}]
    BY <1>1 DEF SendInv, SendTypes
  <2>3. QED
    BY <1>1, <2>1, <2>2 DEF SendInv, SendTypes
<1>7. SendTokens'
  BY <1>1, <1>3 DEF SendInv, SendTokens
<1>8. SendFiles'
  <2>1. \A m \in SendNames : enqueue_removal'[m] # "none" => enqueue_project'[m] # Send!None
    BY <1>3 DEF SendInv, SendFiles
  <2>2. \A m \in SendNames \ enqueue_raced : enqueue_removal'[m] \in {"directory", "row"}
          => enqueue_queue'[enqueue_project'[m]] = Send!None
    BY <1>3, <1>5, <2>1 DEF SendInv, SendFiles
  <2>3. Send!MessagesStayHome'
    BY <1>1, <1>3, <1>4 DEF SendInv, SendFiles, Send!MessagesStayHome
  <2>4. Send!FilesAreOfQueues'
    BY <1>1, <1>3, <1>4, <1>5 DEF SendInv, SendFiles, Send!FilesAreOfQueues
  <2>5. QED
    BY <1>1, <2>1, <2>2, <2>3, <2>4 DEF SendInv, SendFiles
<1>9. QED
  BY <1>6, <1>7, <1>8 DEF SendInv

\* queueTokenFor: a token leads to the project whose worker has it.
LEMMA SendTokenFor ==
    ASSUME SendInv, NEW id \in Send!Ids, enqueue_worker[id] # Send!None
    PROVE  Send!TokenFor(enqueue_worker[id]) = id
<1>1. enqueue_worker[id] = id /\ \A i \in Send!Ids : enqueue_worker[i] = enqueue_worker[id]
        => i = id
  BY DEF SendInv, SendTokens
<1>2. {i \in Send!Ids : enqueue_worker[i] = enqueue_worker[id]
        /\ enqueue_worker[id] # Send!None} = {id}
  BY <1>1
<1>3. id <= id
  BY SendIds
<1>4. \A i \in {id} : (\A o \in {id} : i <= o) => i = id
  OBVIOUS
<1>5. (CHOOSE i \in {id} : \A o \in {id} : i <= o) = id
  BY <1>3, <1>4
<1>6. QED
  BY <1>2, <1>5 DEF Send!TokenFor

LEMMA SendAuthenticate ==
    ASSUME SendInv, NEW r \in SendRequests, NEW id \in Send!Ids, Send!Authenticate(r, id)
    PROVE  SendInv'
<1> DEFINE new == [at |-> "body", of |-> id, project |-> id, was |-> enqueue_queue[id]]
<1>1. /\ enqueue_worker[id] # Send!None
      /\ UNCHANGED <<enqueue_project, enqueue_worker, enqueue_queue, enqueue_file,
           enqueue_removal, enqueue_projects, enqueue_queues, enqueue_raced>>
  BY DEF Send!Authenticate
<1>2. enqueue_req' = [enqueue_req EXCEPT ![r] = new]
  BY <1>1, SendTokenFor DEF Send!Authenticate
<1>3. new \in SendReqs
  BY DEF SendReqs, SendInv, SendTypes
<1>4. new.project = new.of
  OBVIOUS
<1> HIDE DEF new
<1>5. /\ enqueue_req' \in [SendRequests -> SendReqs]
      /\ \A q \in SendRequests : enqueue_req'[q].at = "body"
           => enqueue_req'[q].project = enqueue_req'[q].of
  BY <1>2, <1>3, <1>4 DEF SendInv, SendTypes, SendTokens
<1>6. QED
  BY <1>1, <1>5, SendQuiet DEF SendInv, SendTypes

LEMMA SendBodyCame ==
    ASSUME SendInv, NEW r \in SendRequests, Send!BodyCame(r)
    PROVE  SendInv'
<1> DEFINE idle == [at |-> "idle"]
           id == enqueue_req[r].project
<1>1. /\ enqueue_req[r].at = "body" /\ enqueue_req' = [enqueue_req EXCEPT ![r] = idle]
      /\ UNCHANGED <<enqueue_project, enqueue_worker, enqueue_queue, enqueue_removal,
           enqueue_projects, enqueue_queues, enqueue_raced>>
      /\ \/ /\ enqueue_queue[id] # Send!None
            /\ \E n \in Send!NameOf(id) : enqueue_file'
                 = [Send!Opened(n) EXCEPT ![n].from = @ \cup {enqueue_req[r].of}]
         \/ UNCHANGED enqueue_file
  BY DEF Send!BodyCame, Send!QueueNow
<1>2. /\ enqueue_req' \in [SendRequests -> SendReqs]
      /\ \A q \in SendRequests : enqueue_req'[q].at = "body"
           => enqueue_req'[q].project = enqueue_req'[q].of
  BY <1>1 DEF SendInv, SendTypes, SendTokens, SendReqs
<1>3. CASE UNCHANGED enqueue_file
  BY <1>1, <1>2, <1>3, SendQuiet DEF SendInv, SendTypes
<1>4. ASSUME enqueue_queue[id] # Send!None, NEW n \in Send!NameOf(id),
             enqueue_file' = [Send!Opened(n) EXCEPT ![n].from = @ \cup {enqueue_req[r].of}]
      PROVE  SendInv'
  <2>1. n \in SendNames /\ enqueue_project[n] = id
    BY <1>4 DEF Send!NameOf
  <2>2. enqueue_req[r].of = id /\ id \in Send!Ids
    <3>1. enqueue_req[r] \in SendReqs
      BY DEF SendInv, SendTypes
    <3>2. QED
      BY <1>1, <3>1 DEF SendReqs, SendInv, SendTokens
  <2> HIDE DEF id
  <2> DEFINE new == [Send!Opened(n)[n] EXCEPT !.from = @ \cup {id}]
  <2>3. /\ Send!Opened(n) \in [SendNames -> [there : BOOLEAN, from : SUBSET Send!Ids]]
        /\ Send!Opened(n)[n].there /\ Send!Opened(n)[n].from = enqueue_file[n].from
        /\ \A m \in SendNames \ {n} : Send!Opened(n)[m] = enqueue_file[m]
    BY <2>1, SendOpened DEF SendInv
  <2>4. enqueue_file' = [Send!Opened(n) EXCEPT ![n] = new]
    BY <1>4, <2>2
  <2>5. new.there /\ new.from = enqueue_file[n].from \cup {id}
          /\ new \in [there : BOOLEAN, from : SUBSET Send!Ids]
    <3>1. Send!Opened(n)[n] \in [there : BOOLEAN, from : SUBSET Send!Ids]
      BY <2>1, <2>3
    <3>2. QED
      BY <2>2, <2>3, <3>1
  <2> HIDE DEF new
  <2>6. /\ enqueue_file' \in [SendNames -> [there : BOOLEAN, from : SUBSET Send!Ids]]
        /\ enqueue_file'[n] = new
        /\ \A m \in SendNames \ {n} : enqueue_file'[m] = enqueue_file[m]
    BY <2>1, <2>3, <2>4, <2>5
  <2>7. SendTypes'
    BY <1>1, <1>2, <2>6 DEF SendInv, SendTypes
  <2>8. SendTokens'
    BY <1>1, <1>2 DEF SendInv, SendTokens
  <2>9. Send!MessagesStayHome'
    BY <1>1, <2>1, <2>5, <2>6 DEF SendInv, SendFiles, Send!MessagesStayHome
  <2>10. Send!FilesAreOfQueues'
    BY <1>1, <1>4, <2>1, <2>2, <2>6, SendIds, SendLiving DEF SendInv, SendFiles,
                                                             Send!FilesAreOfQueues
  <2>11. \A m \in SendNames : ~enqueue_file'[m].there => enqueue_file'[m].from = {}
    BY <2>5, <2>6 DEF SendInv, SendFiles
  <2>12. SendFiles'
    BY <1>1, <2>9, <2>10, <2>11 DEF SendInv, SendFiles
  <2>13. QED
    BY <2>7, <2>8, <2>12 DEF SendInv
<1>5. QED
  BY <1>1, <1>3, <1>4

LEMMA SendNamed ==
    ASSUME SendInv, NEW n \in SendNames,
           \/ Send!CreateProject(n) \/ Send!CreateQueue(n) \/ Send!DestroyQueue(n)
                \/ Send!DestroyWorker(n)
           \/ Send!RmBegins(n) \/ Send!RmWorker(n) \/ Send!RmQueue(n) \/ Send!RmDirectory(n)
                \/ Send!RmRow(n)
           \/ \E s \in SendNames : Send!CopyProject(s, n)
    PROVE  SendInv'
<1>1. CASE Send!CreateProject(n) \/ \E s \in SendNames : Send!CopyProject(s, n)
  BY <1>1, SendCreated DEF Send!CreateProject, Send!CopyProject, Send!TokenMinted
<1>2. CASE Send!CreateQueue(n)
  BY <1>2, SendCreateQueue
<1>3. CASE Send!DestroyQueue(n)
  BY <1>3, SendLoses DEF Send!DestroyQueue, Send!Gone
<1>4. CASE Send!DestroyWorker(n)
  BY <1>4, SendUnworked DEF Send!DestroyWorker
<1>5. CASE Send!RmBegins(n)
  BY <1>5, SendQuiet DEF Send!RmBegins, SendInv, SendTypes, SendTokens
<1>6. CASE Send!RmWorker(n)
  BY <1>6, SendUnworked DEF Send!RmWorker, SendInv, SendFiles
<1>7. CASE Send!RmQueue(n)
  <2>1. /\ enqueue_removal[n] = "resources"
        /\ enqueue_removal' = [enqueue_removal EXCEPT ![n] = "directory"]
        /\ enqueue_queue' = [enqueue_queue EXCEPT ![enqueue_project[n]] = Send!None]
        /\ enqueue_file' = [enqueue_file EXCEPT ![n] = Send!NoFile]
        /\ UNCHANGED <<enqueue_project, enqueue_worker, enqueue_req, enqueue_projects,
             enqueue_queues, enqueue_raced>>
    BY <1>7 DEF Send!RmQueue, Send!Gone
  <2>2. enqueue_project[n] # Send!None
    BY <2>1 DEF SendInv, SendFiles
  <2>3. enqueue_queue'[enqueue_project[n]] = Send!None
    BY <2>1, <2>2, SendIds, SendLiving DEF SendInv, SendTypes
  <2>4. QED
    BY <2>1, <2>2, <2>3, SendLoses
<1>8. CASE Send!RmDirectory(n)
  <2>1. /\ enqueue_removal[n] = "directory"
        /\ enqueue_removal' = [enqueue_removal EXCEPT ![n] = "row"]
        /\ enqueue_file' = [enqueue_file EXCEPT ![n] = Send!NoFile]
        /\ UNCHANGED <<enqueue_project, enqueue_worker, enqueue_queue, enqueue_req,
             enqueue_projects, enqueue_queues, enqueue_raced>>
    BY <1>8 DEF Send!RmDirectory
  <2>2. enqueue_project[n] # Send!None
          /\ (n \notin enqueue_raced => enqueue_queue[enqueue_project[n]] = Send!None)
    BY <2>1 DEF SendInv, SendFiles
  <2>3. QED
    BY <2>1, <2>2, SendLoses
<1>9. CASE Send!RmRow(n)
  BY <1>9, SendRmRow
<1>10. QED
  BY <1>1, <1>2, <1>3, <1>4, <1>5, <1>6, <1>7, <1>8, <1>9

LEMMA SendStep == SendInv /\ [Send!Next]_(Send!vars) => SendInv'
<1> SUFFICES ASSUME SendInv, [Send!Next]_(Send!vars) PROVE SendInv'
  OBVIOUS
<1>1. CASE UNCHANGED Send!vars
  BY <1>1, SendQuiet DEF Send!vars, SendInv, SendTypes, SendTokens
<1>2. CASE Send!Next
  BY <1>2, SendNamed, SendBodyCame, SendAuthenticate DEF Send!Next
<1>3. QED
  BY <1>1, <1>2

\* Whatever goes and comes back while a body is awaited.
LEMMA SendHolds == Send!Spec => []Send!SendsAreSound
BY SendInit, SendStep, SendSound, PTL DEF Send!Spec
-----------------------------------------------------------------------------
(* The operator's logins and sessions: what a request may still be         *)
(* answered, what a session is due, and what the throttle remembers of an  *)
(* address, each against its history.                                      *)

SignStates ==
    {Sign!Free, [at |-> "done", answer |-> "wait"]}
    \cup [at : {"done"}, answer : {"ok", "no"}, ever : BOOLEAN, always : BOOLEAN]
    \cup [at : {"body", "hash"}, kind : {"login", "token", "bearer"}, addr : SignInAddresses,
          given : 0..SignInMaxPasswords, seen : 0..SignInMaxPasswords, ever : BOOLEAN,
            always : BOOLEAN]

\* A session, as history has it.
SignRow == [born : Nat, last : Nat, over : BOOLEAN]

SignTypes ==
    /\ signin_now \in 0..SignInMaxTime /\ signin_password \in 0..SignInMaxPasswords
    /\ signin_sessions \subseteq [id : Nat, issued : Nat, used : Nat]
    /\ signin_life \in Seq(SignRow)
    /\ signin_tracked \in Seq(SignInAddresses) /\ signin_dropped \subseteq SignInAddresses
    /\ signin_wait \in [SignInAddresses -> [failures : Nat, until : Nat]]
    /\ signin_streak \in [SignInAddresses -> [fails : Nat, at : Nat]]
    /\ signin_req \in [SignInRequests -> SignStates]

\* A password that is being judged was on file once if it is the one that is read, and is
\* the one that is read if it was on file throughout.
SignJudged(q, p) ==
    q.at \in {"body", "hash"} =>
        IF q.kind = "bearer" THEN q.at = "hash"
        ELSE /\ q.given # Sign!Unset
             /\ q.always => q.given = p
             /\ q.given = p => q.ever
             /\ q.at = "hash" => /\ q.given = q.seen => q.ever
                                 /\ q.always => q.given = q.seen
SignTold(q) ==
    q.at = "done" => /\ q.answer = "ok" => q.ever
                     /\ q.answer = "no" => ~q.always

SignJudgements ==
    \A r \in SignInRequests : SignJudged(signin_req[r], signin_password) /\ SignTold(signin_req[r])

\* The store has a session as it was issued and last used, and has each that is due.
SignSessions ==
    /\ \A s, t \in signin_sessions : s.id = t.id => s = t
    /\ \A s \in signin_sessions :
          /\ s.id \in DOMAIN signin_life /\ ~signin_life[s.id].over
          /\ s.issued = signin_life[s.id].born /\ s.used = signin_life[s.id].last
          /\ s.issued <= s.used /\ s.used <= signin_now
    /\ \A id \in DOMAIN signin_life : Sign!Due(id) => \E s \in signin_sessions : s.id = id

\* Every address is in the table once, and it is there with its failures unless it has
\* none or was forgotten.
Once(seq) == \A i, j \in DOMAIN seq : seq[i] = seq[j] => i = j
Waits(a)  ==
    signin_wait[a].until =
        signin_streak[a].at + Sign!Least(2 ^ (signin_streak[a].fails - 1), SignInMaxDelay)
SignThrottle ==
    /\ Once(signin_tracked) /\ Len(signin_tracked) <= SignInMaxTracked
    /\ \A a \in SignInAddresses :
          /\ Sign!Holds(signin_tracked, a) =>
                /\ a \notin signin_dropped /\ Waits(a)
                /\ signin_wait[a].failures = signin_streak[a].fails
          /\ signin_streak[a].fails > 0 /\ a \notin signin_dropped =>
                Sign!Holds(signin_tracked, a)

SignInv == SignTypes /\ SignJudgements /\ SignSessions /\ SignThrottle

\* The lesser of anything and a number is a number.
LEMMA LeastIsNumber == ASSUME NEW n, NEW cap \in Nat PROVE Sign!Least(n, cap) \in Nat
BY DEF Sign!Least

LEMMA WithoutKeeps ==
    ASSUME NEW S, NEW seq \in Seq(S), NEW x, Once(seq)
    PROVE  /\ Sign!Without(seq, x) \in Seq(S) /\ Once(Sign!Without(seq, x))
           /\ Len(Sign!Without(seq, x)) <= Len(seq)
           /\ \A y : Sign!Holds(Sign!Without(seq, x), y) <=> Sign!Holds(seq, y) /\ y # x
<1>1. CASE ~Sign!Holds(seq, x)
  BY <1>1 DEF Sign!Without, Sign!Holds
<1>2. CASE Sign!Holds(seq, x)
  <2> DEFINE out == Sign!Without(seq, x)
  <2>1. PICK at \in DOMAIN seq :
           seq[at] = x /\ out = [i \in 1..Len(seq) - 1 |-> seq[IF i < at THEN i ELSE i + 1]]
    BY <1>2 DEF Sign!Without, Sign!Holds
  <2> HIDE DEF out
  <2>2. at \in 1..Len(seq) /\ DOMAIN seq = 1..Len(seq) /\ Len(seq) \in Nat
    BY <2>1
  <2>3. \A i \in 1..Len(seq) - 1 : out[i] = (IF i < at THEN seq[i] ELSE seq[i + 1])
          /\ out[i] \in S
    BY <2>1, <2>2
  <2>4. out \in Seq(S) /\ Len(out) = Len(seq) - 1 /\ DOMAIN out = 1..Len(seq) - 1
    <3>1. out \in [1..Len(seq) - 1 -> S]
      BY <2>1, <2>2, <2>3
    <3>2. Len(seq) - 1 \in Nat
      BY <2>2
    <3>3. QED
      BY <3>1, <3>2
  <2>5. Once(out)
    <3> SUFFICES ASSUME NEW i \in 1..Len(seq) - 1, NEW j \in 1..Len(seq) - 1, out[i] = out[j]
                 PROVE  i = j
      BY <2>4 DEF Once
    <3> DEFINE k == IF i < at THEN i ELSE i + 1
    <3> DEFINE l == IF j < at THEN j ELSE j + 1
    <3>1. k \in 1..Len(seq) /\ l \in 1..Len(seq) /\ out[i] = seq[k] /\ out[j] = seq[l]
      BY <2>2, <2>3
    <3>2. k = l => i = j
      BY <2>2
    <3> HIDE DEF k, l
    <3>3. QED
      BY <3>1, <3>2, <2>2 DEF Once
  <2>6. ASSUME NEW y PROVE Sign!Holds(out, y) <=> Sign!Holds(seq, y) /\ y # x
    <3>1. ASSUME NEW i \in DOMAIN out, out[i] = y PROVE Sign!Holds(seq, y) /\ y # x
      BY <3>1, <2>1, <2>2, <2>3, <2>4 DEF Once, Sign!Holds
    <3>2. ASSUME NEW j \in DOMAIN seq, seq[j] = y, y # x PROVE Sign!Holds(out, y)
      <4>1. CASE j < at
        <5>1. j \in 1..Len(seq) - 1 /\ out[j] = y
          BY <4>1, <3>2, <2>2, <2>3
        <5>2. QED
          BY <5>1, <2>4 DEF Sign!Holds
      <4>2. CASE j > at
        <5>1. j - 1 \in 1..Len(seq) - 1 /\ out[j - 1] = y
          BY <4>2, <3>2, <2>2, <2>3
        <5>2. QED
          BY <5>1, <2>4 DEF Sign!Holds
      <4>3. QED
        BY <4>1, <4>2, <3>2, <2>1, <2>2
    <3>3. QED
      BY <3>1, <3>2 DEF Sign!Holds
  <2>7. QED
    BY <2>2, <2>4, <2>5, <2>6 DEF out
<1>3. QED
  BY <1>1, <1>2

LEMMA AppendKeeps ==
    ASSUME NEW S, NEW seq \in Seq(S), NEW x \in S, Once(seq), ~Sign!Holds(seq, x)
    PROVE  /\ Append(seq, x) \in Seq(S) /\ Once(Append(seq, x))
           /\ Len(Append(seq, x)) = Len(seq) + 1
           /\ \A y : Sign!Holds(Append(seq, x), y) <=> y = x \/ Sign!Holds(seq, y)
<1> DEFINE out == Append(seq, x)
<1>1. out \in Seq(S) /\ Len(out) = Len(seq) + 1 /\ out[Len(seq) + 1] = x
  OBVIOUS
<1>2. \A i \in 1..Len(seq) : out[i] = seq[i]
  OBVIOUS
<1> HIDE DEF out
<1>3. DOMAIN out = 1..Len(seq) + 1 /\ Len(seq) \in Nat
  BY <1>1
<1>4. Once(out)
  BY <1>1, <1>2, <1>3 DEF Once, Sign!Holds
<1>5. \A y : Sign!Holds(out, y) <=> y = x \/ Sign!Holds(seq, y)
  BY <1>1, <1>2, <1>3 DEF Sign!Holds
<1>6. QED
  BY <1>1, <1>4, <1>5 DEF out

LEMMA TailKeeps ==
    ASSUME NEW S, NEW seq \in Seq(S), seq # <<>>, Once(seq)
    PROVE  /\ Tail(seq) \in Seq(S) /\ Once(Tail(seq)) /\ seq[1] \in S
           /\ Len(Tail(seq)) = Len(seq) - 1 /\ Sign!Holds(seq, seq[1])
           /\ \A y : Sign!Holds(Tail(seq), y) <=> Sign!Holds(seq, y) /\ y # seq[1]
<1> DEFINE out == Tail(seq)
<1>1. out \in Seq(S) /\ Len(out) = Len(seq) - 1
  OBVIOUS
<1>2. \A i \in 1..Len(seq) - 1 : out[i] = seq[i + 1]
  OBVIOUS
<1>3. DOMAIN out = 1..Len(seq) - 1 /\ Len(seq) \in Nat \ {0} /\ DOMAIN seq = 1..Len(seq)
  BY <1>1
<1> HIDE DEF out
<1>4. Once(out)
  <2> SUFFICES ASSUME NEW i \in 1..Len(seq) - 1, NEW j \in 1..Len(seq) - 1, out[i] = out[j]
               PROVE  i = j
    BY <1>3 DEF Once
  <2>1. i + 1 \in 1..Len(seq) /\ j + 1 \in 1..Len(seq) /\ seq[i + 1] = seq[j + 1]
    BY <1>2, <1>3
  <2>2. i + 1 = j + 1
    BY <2>1, <1>3 DEF Once
  <2>3. QED
    BY <2>2
<1>5. ASSUME NEW y PROVE Sign!Holds(out, y) <=> Sign!Holds(seq, y) /\ y # seq[1]
  <2>1. ASSUME NEW i \in 1..Len(seq) - 1, out[i] = y PROVE Sign!Holds(seq, y) /\ y # seq[1]
    <3>1. i + 1 \in 1..Len(seq) /\ seq[i + 1] = y /\ 1 \in 1..Len(seq) /\ i + 1 # 1
      BY <2>1, <1>2, <1>3
    <3>2. QED
      BY <3>1, <1>3 DEF Sign!Holds, Once
  <2>2. ASSUME NEW j \in 1..Len(seq), seq[j] = y, y # seq[1] PROVE Sign!Holds(out, y)
    <3>1. j - 1 \in 1..Len(seq) - 1 /\ out[j - 1] = y
      BY <2>2, <1>2, <1>3
    <3>2. QED
      BY <3>1, <1>3 DEF Sign!Holds
  <2>3. QED
    BY <2>1, <2>2, <1>3 DEF Sign!Holds
<1>6. seq[1] \in S /\ Sign!Holds(seq, seq[1])
  BY <1>3 DEF Sign!Holds
<1>7. QED
  BY <1>1, <1>4, <1>5, <1>6 DEF out

\* The table when it has failed, and whom that makes it forget.
SignKept(a) == IF Sign!Holds(Sign!Room(a), a) THEN Sign!Room(a) ELSE Append(Sign!Room(a), a)
SignLost(a) ==
    IF ~Sign!Holds(signin_tracked, a) /\ Len(signin_tracked) >= SignInMaxTracked
    THEN {signin_tracked[1]} ELSE {}

\* A full table makes room by its oldest, and by nothing else.
LEMMA RoomMade ==
    ASSUME signin_tracked \in Seq(SignInAddresses), Once(signin_tracked),
           Len(signin_tracked) <= SignInMaxTracked,
           NEW a \in SignInAddresses
    PROVE  /\ SignKept(a) \in Seq(SignInAddresses) /\ Once(SignKept(a))
                /\ Len(SignKept(a)) <= SignInMaxTracked
           /\ SignLost(a) \subseteq SignInAddresses \ {a}
           /\ \A b \in SignInAddresses :
                 Sign!Holds(SignKept(a), b) <=> b = a
                   \/ (Sign!Holds(signin_tracked, b) /\ b \notin SignLost(a))
<1> USE SignInNumbers
<1>1. CASE Sign!Holds(signin_tracked, a)
  <2>1. SignKept(a) = signin_tracked /\ SignLost(a) = {}
    BY <1>1 DEF Sign!Room, SignKept, SignLost
  <2>2. QED
    BY <1>1, <2>1
<1>2. CASE ~Sign!Holds(signin_tracked, a) /\ ~(Len(signin_tracked) >= SignInMaxTracked)
  <2>1. SignKept(a) = Append(signin_tracked, a) /\ SignLost(a) = {}
    BY <1>2 DEF Sign!Room, SignKept, SignLost
  <2>2. Len(signin_tracked) + 1 <= SignInMaxTracked
    BY <1>2
  <2>3. /\ Append(signin_tracked, a) \in Seq(SignInAddresses) /\ Once(Append(signin_tracked, a))
        /\ Len(Append(signin_tracked, a)) = Len(signin_tracked) + 1
        /\ \A y : Sign!Holds(Append(signin_tracked, a), y) <=> y = a
             \/ Sign!Holds(signin_tracked, y)
    BY <1>2, AppendKeeps
  <2>4. SignKept(a) \in Seq(SignInAddresses) /\ Once(SignKept(a))
    BY <2>1, <2>3
  <2>5. Len(SignKept(a)) <= SignInMaxTracked
    BY <2>1, <2>2, <2>3
  <2>6. \A b \in SignInAddresses : Sign!Holds(SignKept(a), b) <=> b = a
          \/ (Sign!Holds(signin_tracked, b) /\ b \notin SignLost(a))
    BY <2>1, <2>3
  <2>7. QED
    BY <2>1, <2>4, <2>5, <2>6
<1>3. CASE ~Sign!Holds(signin_tracked, a) /\ Len(signin_tracked) >= SignInMaxTracked
  <2> DEFINE rest == Tail(signin_tracked)
  <2>1. signin_tracked # <<>> /\ Len(signin_tracked) = SignInMaxTracked
    BY <1>3
  <2>2. /\ rest \in Seq(SignInAddresses) /\ Once(rest) /\ signin_tracked[1] \in SignInAddresses
        /\ Len(rest) + 1 = SignInMaxTracked /\ Sign!Holds(signin_tracked, signin_tracked[1])
        /\ \A y : Sign!Holds(rest, y) <=> Sign!Holds(signin_tracked, y) /\ y # signin_tracked[1]
    BY <2>1, TailKeeps
  <2>3. ~Sign!Holds(rest, a) /\ signin_tracked[1] # a
    BY <1>3, <2>2
  <2>4. Sign!Room(a) = rest /\ SignKept(a) = Append(rest, a)
          /\ SignLost(a) = {signin_tracked[1]}
    BY <1>3, <2>3 DEF Sign!Room, SignKept, SignLost
  <2> HIDE DEF rest
  <2>5. /\ Append(rest, a) \in Seq(SignInAddresses) /\ Once(Append(rest, a))
        /\ Len(Append(rest, a)) = Len(rest) + 1
        /\ \A y : Sign!Holds(Append(rest, a), y) <=> y = a \/ Sign!Holds(rest, y)
    BY <2>2, <2>3, AppendKeeps
  <2>6. SignKept(a) \in Seq(SignInAddresses) /\ Once(SignKept(a))
    BY <2>4, <2>5
  <2>7. Len(SignKept(a)) <= SignInMaxTracked
    BY <2>2, <2>4, <2>5
  <2>8. \A b \in SignInAddresses : Sign!Holds(SignKept(a), b) <=> b = a
          \/ (Sign!Holds(signin_tracked, b) /\ b \notin SignLost(a))
    BY <2>2, <2>4, <2>5
  <2>9. SignLost(a) \subseteq SignInAddresses \ {a}
    BY <2>2, <2>3, <2>4
  <2>10. QED
    BY <2>6, <2>7, <2>8, <2>9
<1>4. QED
  BY <1>1, <1>2, <1>3

LEMMA SignInit == Sign!Init => SignInv
<1> SUFFICES ASSUME Sign!Init PROVE SignInv
  OBVIOUS
<1> USE SignInNumbers DEF Sign!Init
<1>1. SignTypes
  BY DEF SignTypes, SignStates, Sign!Unset, Sign!Free
<1>2. SignJudgements
  BY DEF SignJudgements, SignJudged, SignTold, Sign!Free
<1>3. SignSessions
  BY DEF SignSessions
<1>4. SignThrottle
  BY DEF SignThrottle, Once, Sign!Holds
<1>5. QED
  BY <1>1, <1>2, <1>3, <1>4 DEF SignInv

\* Failing counts for the address and makes it wait; what it makes the table forget is
\* noted.
LEMMA SignFails ==
    ASSUME SignTypes, SignThrottle, NEW a \in SignInAddresses, Sign!Fail(a)
    PROVE  /\ signin_tracked' \in Seq(SignInAddresses)
                /\ signin_dropped' \subseteq SignInAddresses
           /\ signin_wait' \in [SignInAddresses -> [failures : Nat, until : Nat]]
           /\ signin_streak' \in [SignInAddresses -> [fails : Nat, at : Nat]]
           /\ SignThrottle'
<1> DEFINE n == Sign!Failures(a) + 1
<1>1. /\ signin_wait' = [signin_wait EXCEPT ![a] = [failures |-> n,
                                                   until |-> signin_now + Sign!Least(2 ^ (n - 1),
                                                     SignInMaxDelay)]]
      /\ signin_tracked' = SignKept(a)
      /\ signin_streak' = [signin_streak EXCEPT ![a] = [at |-> signin_now,
                       fails |-> IF a \in signin_dropped THEN 1
                         ELSE signin_streak[a].fails + 1]]
      /\ signin_dropped' = (signin_dropped \ {a}) \cup SignLost(a)
  BY DEF Sign!Fail, SignKept, SignLost
<1>2. Sign!Failures(a) \in Nat /\ signin_streak[a].fails \in Nat /\ signin_now \in Nat
  BY SignInNumbers DEF SignTypes, Sign!Failures
<1>3. Sign!Failures(a) = IF a \in signin_dropped THEN 0 ELSE signin_streak[a].fails
  BY <1>2 DEF SignTypes, SignThrottle, Sign!Failures
<1>4. /\ signin_tracked' \in Seq(SignInAddresses) /\ Once(signin_tracked)'
           /\ Len(signin_tracked') <= SignInMaxTracked
      /\ SignLost(a) \subseteq SignInAddresses \ {a}
      /\ \A b \in SignInAddresses :
            Sign!Holds(signin_tracked, b)' <=> b = a
              \/ (Sign!Holds(signin_tracked, b) /\ b \notin SignLost(a))
  <2>1. Once(signin_tracked) /\ Len(signin_tracked) <= SignInMaxTracked
          /\ signin_tracked \in Seq(SignInAddresses)
    BY DEF SignThrottle, SignTypes
  <2>2. /\ SignKept(a) \in Seq(SignInAddresses) /\ Once(SignKept(a))
             /\ Len(SignKept(a)) <= SignInMaxTracked
        /\ SignLost(a) \subseteq SignInAddresses \ {a}
        /\ \A b \in SignInAddresses :
              Sign!Holds(SignKept(a), b) <=> b = a
                \/ (Sign!Holds(signin_tracked, b) /\ b \notin SignLost(a))
    BY <2>1, RoomMade
  <2>3. QED
    BY <1>1, <2>2 DEF Once, Sign!Holds
<1>5. n \in Nat /\ n = (IF a \in signin_dropped THEN 1 ELSE signin_streak[a].fails + 1)
  BY <1>2, <1>3
<1> HIDE DEF n
<1>6. signin_now + Sign!Least(2 ^ (n - 1), SignInMaxDelay) \in Nat
  <2> DEFINE d == 2 ^ (n - 1)
  <2> HIDE DEF d
  <2>1. Sign!Least(d, SignInMaxDelay) \in Nat
    BY LeastIsNumber, SignInNumbers
  <2>2. QED
    BY <1>2, <2>1 DEF d
<1> DEFINE new == signin_now + Sign!Least(2 ^ (n - 1), SignInMaxDelay)
<1>7. /\ signin_wait'[a] = [failures |-> n, until |-> new]
      /\ signin_streak'[a] = [at |-> signin_now, fails |-> n]
      /\ \A b \in SignInAddresses \ {a} : signin_wait'[b] = signin_wait[b]
           /\ signin_streak'[b] = signin_streak[b]
  BY <1>1, <1>5 DEF SignTypes
<1>8. signin_wait'[a].until = signin_now + Sign!Least(2 ^ (n - 1), SignInMaxDelay)
  BY <1>7
<1> HIDE DEF new
<1>9. /\ signin_dropped' \subseteq SignInAddresses /\ a \notin signin_dropped'
      /\ \A b \in SignInAddresses \ {a} : b \in signin_dropped' <=> b \in signin_dropped
           \/ b \in SignLost(a)
  BY <1>1, <1>4 DEF SignTypes
<1>10. signin_wait' \in [SignInAddresses -> [failures : Nat, until : Nat]]
  <2>1. [failures |-> n, until |-> new] \in [failures : Nat, until : Nat]
    BY <1>5, <1>6 DEF new
  <2>2. signin_wait' = [signin_wait EXCEPT ![a] = [failures |-> n, until |-> new]]
    BY <1>1 DEF new
  <2>3. QED
    BY <2>1, <2>2 DEF SignTypes
<1>11. signin_streak' \in [SignInAddresses -> [fails : Nat, at : Nat]]
  BY <1>1, <1>2, <1>5 DEF SignTypes
<1>12. Waits(a)' /\ signin_wait'[a].failures = signin_streak'[a].fails
  BY <1>7, <1>8 DEF Waits
<1>13. ASSUME NEW b \in SignInAddresses \ {a} PROVE Waits(b) => Waits(b)'
  BY <1>7 DEF Waits
<1>14. ASSUME NEW b \in SignInAddresses
       PROVE  /\ Sign!Holds(signin_tracked, b)' =>
                    b \notin signin_dropped'
                      /\ signin_wait'[b].failures = signin_streak'[b].fails /\ Waits(b)'
              /\ signin_streak'[b].fails > 0 /\ b \notin signin_dropped'
                   => Sign!Holds(signin_tracked, b)'
  <2>1. CASE b = a
    BY <2>1, <1>4, <1>9, <1>12
  <2>2. CASE b # a
    <3>1. /\ Sign!Holds(signin_tracked, b) =>
                b \notin signin_dropped
                  /\ signin_wait[b].failures = signin_streak[b].fails /\ Waits(b)
          /\ signin_streak[b].fails > 0 /\ b \notin signin_dropped
               => Sign!Holds(signin_tracked, b)
      BY DEF SignThrottle
    <3>2. signin_wait'[b] = signin_wait[b] /\ signin_streak'[b] = signin_streak[b]
            /\ (Waits(b) => Waits(b)')
      BY <2>2, <1>7, <1>13
    <3>3. (b \in signin_dropped' <=> b \in signin_dropped \/ b \in SignLost(a))
          /\ (Sign!Holds(signin_tracked, b)' <=> Sign!Holds(signin_tracked, b)
               /\ b \notin SignLost(a))
      BY <2>2, <1>4, <1>9
    <3>4. QED
      BY <3>1, <3>2, <3>3
  <2>3. QED
    BY <2>1, <2>2
<1>15. SignThrottle'
  BY <1>4, <1>14 DEF SignThrottle
<1>16. QED
  BY <1>4, <1>9, <1>10, <1>11, <1>15

\* Succeeding takes the address out of the table, and no other.
LEMMA SignSucceeds ==
    ASSUME SignTypes, SignThrottle, NEW a \in SignInAddresses, Sign!Succeed(a)
    PROVE  /\ signin_tracked' \in Seq(SignInAddresses)
                /\ signin_dropped' \subseteq SignInAddresses
           /\ signin_wait' \in [SignInAddresses -> [failures : Nat, until : Nat]]
           /\ signin_streak' \in [SignInAddresses -> [fails : Nat, at : Nat]]
           /\ SignThrottle'
<1>1. signin_tracked' = Sign!Without(signin_tracked, a)
        /\ signin_streak' = [signin_streak EXCEPT ![a] = [fails |-> 0, at |-> 0]]
      /\ signin_dropped' = signin_dropped \ {a} /\ signin_wait' = signin_wait
  BY DEF Sign!Succeed
<1>2. signin_tracked \in Seq(SignInAddresses) /\ Once(signin_tracked)
        /\ Len(signin_tracked) <= SignInMaxTracked
      /\ Len(signin_tracked) \in Nat
  BY DEF SignTypes, SignThrottle
<1>3. /\ Sign!Without(signin_tracked, a) \in Seq(SignInAddresses)
           /\ Once(Sign!Without(signin_tracked, a))
      /\ Len(Sign!Without(signin_tracked, a)) <= Len(signin_tracked)
      /\ \A b : Sign!Holds(Sign!Without(signin_tracked, a), b) <=> Sign!Holds(signin_tracked, b)
           /\ b # a
  BY <1>2, WithoutKeeps
<1>4. /\ signin_tracked' \in Seq(SignInAddresses) /\ Once(signin_tracked)'
           /\ Len(signin_tracked') <= SignInMaxTracked
      /\ \A b : Sign!Holds(signin_tracked, b)' <=> Sign!Holds(signin_tracked, b) /\ b # a
  <2>1. Len(Sign!Without(signin_tracked, a)) \in Nat
    BY <1>3
  <2>2. Len(Sign!Without(signin_tracked, a)) <= SignInMaxTracked
    BY <2>1, <1>2, <1>3, SignInNumbers
  <2>3. QED
    BY <2>2, <1>1, <1>3 DEF Once, Sign!Holds
<1>5. signin_streak' \in [SignInAddresses -> [fails : Nat, at : Nat]]
        /\ signin_streak'[a].fails = 0
      /\ \A b \in SignInAddresses \ {a} : signin_streak'[b] = signin_streak[b]
  BY <1>1 DEF SignTypes
<1>6. ASSUME NEW b \in SignInAddresses
      PROVE  /\ Sign!Holds(signin_tracked, b)' =>
                   b \notin signin_dropped'
                     /\ signin_wait'[b].failures = signin_streak'[b].fails /\ Waits(b)'
             /\ signin_streak'[b].fails > 0 /\ b \notin signin_dropped'
                  => Sign!Holds(signin_tracked, b)'
  <2>1. CASE b = a
    BY <2>1, <1>4, <1>5
  <2>2. CASE b # a
    <3>1. /\ Sign!Holds(signin_tracked, b) =>
                b \notin signin_dropped
                  /\ signin_wait[b].failures = signin_streak[b].fails /\ Waits(b)
          /\ signin_streak[b].fails > 0 /\ b \notin signin_dropped
               => Sign!Holds(signin_tracked, b)
      BY DEF SignThrottle
    <3>2. signin_wait'[b] = signin_wait[b] /\ signin_streak'[b] = signin_streak[b]
            /\ (Waits(b) => Waits(b)')
      BY <2>2, <1>1, <1>5 DEF Waits
    <3>3. QED
      BY <2>2, <3>1, <3>2, <1>1, <1>4
  <2>3. QED
    BY <2>1, <2>2
<1>7. SignThrottle'
  BY <1>4, <1>6 DEF SignThrottle
<1>8. QED
  BY <1>1, <1>4, <1>5, <1>7 DEF SignTypes

LEMMA SignRows ==
    ASSUME SignTypes
    PROVE  /\ signin_now \in Nat /\ signin_life \in Seq(SignRow)
                /\ DOMAIN signin_life = 1..Len(signin_life)
           /\ Len(signin_life) \in Nat
           /\ \A i \in DOMAIN signin_life :
                 /\ signin_life[i] \in SignRow /\ signin_life[i].born \in Nat
                      /\ signin_life[i].last \in Nat
                 /\ signin_life[i].over \in BOOLEAN
<1>1. /\ signin_now \in Nat /\ signin_life \in Seq(SignRow)
           /\ DOMAIN signin_life = 1..Len(signin_life)
      /\ Len(signin_life) \in Nat
  BY SignInNumbers DEF SignTypes
<1>2. \A i \in DOMAIN signin_life : signin_life[i] \in SignRow
  BY <1>1
<1>3. \A l \in SignRow : l.born \in Nat /\ l.last \in Nat /\ l.over \in BOOLEAN
  BY DEF SignRow
<1>4. QED
  BY <1>1, <1>2, <1>3

\* What a part of the invariant says depends on nothing else.
LEMMA SignSame ==
    /\ UNCHANGED <<signin_req, signin_password>> /\ SignJudgements => SignJudgements'
    /\ UNCHANGED <<signin_sessions, signin_life, signin_now>> /\ SignSessions => SignSessions'
    /\ UNCHANGED <<signin_tracked, signin_wait, signin_streak, signin_dropped>> /\ SignThrottle
         => SignThrottle'
<1>1. UNCHANGED <<signin_req, signin_password>> /\ SignJudgements => SignJudgements'
  BY DEF SignJudgements
<1>2. UNCHANGED <<signin_sessions, signin_life, signin_now>> /\ SignSessions => SignSessions'
  BY DEF SignSessions, Sign!Due
<1>3. UNCHANGED <<signin_tracked, signin_wait, signin_streak, signin_dropped>> /\ SignThrottle
        => SignThrottle'
  BY DEF SignThrottle, Once, Sign!Holds, Waits
<1>4. QED
  BY <1>1, <1>2, <1>3

\* A request begins: at the throttle, which may turn it away, or with its body to come.
LEMMA SignBegins ==
    ASSUME SignInv, NEW r \in SignInRequests, NEW a \in SignInAddresses,
           NEW kind \in {"login", "token", "bearer"}, NEW p \in 0..SignInMaxPasswords,
           kind # "bearer" => p # Sign!Unset, Sign!Begin(r, a, kind, p)
    PROVE  SignInv'
<1> DEFINE new == IF Sign!Throttled(a) THEN [at |-> "done", answer |-> "wait"]
                  ELSE [at |-> IF kind = "bearer" THEN "hash" ELSE "body",
                        kind |-> kind, addr |-> a, given |-> p, seen |-> Sign!Unset,
                        ever |-> p = signin_password, always |-> p = signin_password]
<1>1. signin_req' = [signin_req EXCEPT ![r] = new]
      /\ UNCHANGED <<signin_now, signin_password, signin_sessions, signin_tracked, signin_wait,
           signin_life, signin_streak, signin_dropped>>
  BY DEF Sign!Begin
<1>2. new \in SignStates
  <2>1. CASE Sign!Throttled(a)
    BY <2>1 DEF SignStates
  <2>2. CASE ~Sign!Throttled(a)
    <3>1. (p = signin_password) \in BOOLEAN /\ Sign!Unset \in 0..SignInMaxPasswords
      BY SignInNumbers DEF Sign!Unset
    <3>2. (IF kind = "bearer" THEN "hash" ELSE "body") \in {"body", "hash"}
      OBVIOUS
    <3>3. QED
      BY <2>2, <3>1, <3>2 DEF SignStates
  <2>3. QED
    BY <2>1, <2>2
<1>3. SignJudged(new, signin_password) /\ SignTold(new)
  BY DEF SignJudged, SignTold, Sign!Unset
<1> HIDE DEF new
<1>4. SignTypes'
  BY <1>1, <1>2 DEF SignInv, SignTypes
<1>5. SignJudgements'
  BY <1>1, <1>3 DEF SignInv, SignTypes, SignJudgements
<1>6. QED
  BY <1>1, <1>4, <1>5, SignSame DEF SignInv

\* The password on file is read when the body has come.
LEMMA SignReads == ASSUME SignInv, NEW r \in SignInRequests, Sign!BodyCame(r) PROVE SignInv'
<1> DEFINE q == signin_req[r]
<1>1. q.at = "body" /\ q \in SignStates /\ SignJudged(q, signin_password)
        /\ signin_password \in 0..SignInMaxPasswords
  BY DEF Sign!BodyCame, SignInv, SignTypes, SignJudgements
<1>2. q \in [at : {"body", "hash"}, kind : {"login", "token", "bearer"}, addr : SignInAddresses,
             given : 0..SignInMaxPasswords, seen : 0..SignInMaxPasswords, ever : BOOLEAN,
               always : BOOLEAN]
  BY <1>1 DEF SignStates, Sign!Free
<1> DEFINE new == [q EXCEPT !.at = "hash", !.seen = signin_password]
<1>3. signin_req' = [signin_req EXCEPT ![r] = new]
      /\ UNCHANGED <<signin_now, signin_password, signin_sessions, signin_tracked, signin_wait,
           signin_life, signin_streak, signin_dropped>>
  BY DEF Sign!BodyCame, Sign!Stored, SignInv, SignTypes
<1>4. new \in SignStates
  BY <1>1, <1>2 DEF SignStates
<1>5. /\ new.at = "hash" /\ new.seen = signin_password /\ new.kind = q.kind
           /\ new.given = q.given
      /\ new.ever = q.ever /\ new.always = q.always
  BY <1>2
<1>6. SignJudged(new, signin_password) /\ SignTold(new)
  BY <1>1, <1>5 DEF SignJudged, SignTold
<1> HIDE DEF new
<1>7. SignTypes'
  BY <1>3, <1>4 DEF SignInv, SignTypes
<1>8. SignJudgements'
  BY <1>3, <1>6 DEF SignInv, SignTypes, SignJudgements
<1>9. QED
  BY <1>3, <1>7, <1>8, SignSame DEF SignInv

\* A session that is issued is new and due.
LEMMA SignIssues ==
    ASSUME SignTypes, SignSessions, Sign!Issue, UNCHANGED signin_now
    PROVE  /\ signin_sessions' \subseteq [id : Nat, issued : Nat, used : Nat]
           /\ signin_life' \in Seq(SignRow) /\ SignSessions'
<1> DEFINE n == Len(signin_life) + 1
<1> DEFINE s0 == [id |-> n, issued |-> signin_now, used |-> signin_now]
<1> DEFINE l0 == [born |-> signin_now, last |-> signin_now, over |-> FALSE]
<1>1. signin_sessions' = signin_sessions \cup {s0} /\ signin_life' = Append(signin_life, l0)
        /\ signin_now' = signin_now /\ signin_now \in Nat
  BY SignInNumbers DEF Sign!Issue, SignTypes
<1>2. Len(signin_life) \in Nat /\ DOMAIN signin_life = 1..Len(signin_life)
  BY DEF SignTypes
<1>3. l0 \in SignRow /\ s0 \in [id : Nat, issued : Nat, used : Nat]
  BY <1>1, <1>2 DEF SignRow
<1>4. signin_life' \in Seq(SignRow)
  BY <1>1, <1>3 DEF SignTypes
<1>5. DOMAIN signin_life' = 1..n /\ signin_life'[n] = l0
        /\ \A i \in DOMAIN signin_life : signin_life'[i] = signin_life[i]
  BY <1>1, <1>2, <1>3 DEF SignTypes
<1>6. signin_sessions' \subseteq [id : Nat, issued : Nat, used : Nat]
  BY <1>1, <1>3 DEF SignTypes
<1>7. \A s \in signin_sessions : s.id \in DOMAIN signin_life /\ s.id # n
  BY <1>2 DEF SignSessions
<1>8. \A s, t \in signin_sessions' : s.id = t.id => s = t
  BY <1>1, <1>7 DEF SignSessions
<1>9. ASSUME NEW s \in signin_sessions'
      PROVE  /\ s.id \in DOMAIN signin_life' /\ ~signin_life'[s.id].over
             /\ s.issued = signin_life'[s.id].born /\ s.used = signin_life'[s.id].last
             /\ s.issued <= s.used /\ s.used <= signin_now'
  <2>1. CASE s = s0
    BY <2>1, <1>1, <1>2, <1>5
  <2>2. CASE s \in signin_sessions
    BY <2>2, <1>1, <1>2, <1>5 DEF SignSessions
  <2>3. QED
    BY <2>1, <2>2, <1>1
<1>10. ASSUME NEW i \in DOMAIN signin_life', Sign!Due(i)'
              PROVE \E s \in signin_sessions' : s.id = i
  <2>1. CASE i = n
    <3>1. s0 \in signin_sessions' /\ s0.id = n
      BY <1>1
    <3>2. QED
      BY <2>1, <3>1
  <2>2. CASE i \in DOMAIN signin_life
    <3>1. Sign!Due(i)
      BY <2>2, <1>1, <1>5, <1>10 DEF Sign!Due
    <3>2. QED
      BY <2>2, <3>1, <1>1 DEF SignSessions
  <2>3. QED
    BY <2>1, <2>2, <1>2, <1>5
<1>11. SignSessions'
  BY <1>8, <1>9, <1>10 DEF SignSessions
<1>12. QED
  BY <1>4, <1>6, <1>11

\* A request is answered, and the throttle hears of it.
LEMMA SignVerifies == ASSUME SignInv, NEW r \in SignInRequests, Sign!Verified(r) PROVE SignInv'
<1> DEFINE q == signin_req[r]
<1>1. q.at = "hash" /\ q \in SignStates /\ SignJudged(q, signin_password)
  BY DEF Sign!Verified, SignInv, SignTypes, SignJudgements
<1>2. q \in [at : {"body", "hash"}, kind : {"login", "token", "bearer"}, addr : SignInAddresses,
             given : 0..SignInMaxPasswords, seen : 0..SignInMaxPasswords, ever : BOOLEAN,
               always : BOOLEAN]
  BY <1>1 DEF SignStates, Sign!Free
<1> DEFINE new == [at |-> "done", answer |-> IF Sign!Right(q) THEN "ok" ELSE "no",
                   ever |-> q.ever \/ q.kind = "bearer",
                   always |-> q.always /\ q.kind # "bearer"]
<1>3. signin_req' = [signin_req EXCEPT ![r] = new] /\ UNCHANGED <<signin_now, signin_password>>
  BY DEF Sign!Verified
<1>4. new \in SignStates
  <2>1. (q.ever \/ q.kind = "bearer") \in BOOLEAN /\ (q.always /\ q.kind # "bearer") \in BOOLEAN
    BY <1>2
  <2>2. (IF Sign!Right(q) THEN "ok" ELSE "no") \in {"ok", "no"}
    OBVIOUS
  <2>3. QED
    BY <2>1, <2>2 DEF SignStates
<1>5. SignJudged(new, signin_password) /\ SignTold(new)
  <2>1. /\ new.at = "done" /\ new.answer = (IF Sign!Right(q) THEN "ok" ELSE "no")
        /\ (new.ever <=> q.ever \/ q.kind = "bearer")
        /\ (new.always <=> q.always /\ q.kind # "bearer")
    OBVIOUS
  <2>2. Sign!Right(q) => q.ever \/ q.kind = "bearer"
    BY <1>1 DEF Sign!Right, SignJudged
  <2>3. ~Sign!Right(q) => ~(q.always /\ q.kind # "bearer")
    BY <1>1 DEF Sign!Right, SignJudged
  <2> HIDE DEF new
  <2>4. QED
    BY <2>1, <2>2, <2>3 DEF SignJudged, SignTold
<1> HIDE DEF new
<1>6. /\ signin_tracked' \in Seq(SignInAddresses) /\ signin_dropped' \subseteq SignInAddresses
      /\ signin_wait' \in [SignInAddresses -> [failures : Nat, until : Nat]]
      /\ signin_streak' \in [SignInAddresses -> [fails : Nat, at : Nat]]
      /\ SignThrottle'
  <2>1. q.addr \in SignInAddresses
    BY <1>2
  <2>2. Sign!Succeed(q.addr) \/ Sign!Fail(q.addr)
    BY DEF Sign!Verified
  <2>3. QED
    BY <2>1, <2>2, SignFails, SignSucceeds DEF SignInv
<1>7. /\ signin_sessions' \subseteq [id : Nat, issued : Nat, used : Nat]
      /\ signin_life' \in Seq(SignRow) /\ SignSessions'
  <2>1. Sign!Issue \/ UNCHANGED <<signin_sessions, signin_life>>
    BY DEF Sign!Verified
  <2>2. CASE Sign!Issue
    BY <2>2, <1>3, SignIssues DEF SignInv
  <2>3. CASE UNCHANGED <<signin_sessions, signin_life>>
    BY <2>3, <1>3, SignSame DEF SignInv, SignTypes
  <2>4. QED
    BY <2>1, <2>2, <2>3
<1>8. SignTypes'
  BY <1>3, <1>4, <1>6, <1>7 DEF SignInv, SignTypes
<1>9. SignJudgements'
  BY <1>3, <1>5 DEF SignInv, SignTypes, SignJudgements
<1>10. QED
  BY <1>6, <1>7, <1>8, <1>9 DEF SignInv

\* A new password: what is being judged notes it.
LEMMA SignChanges == ASSUME SignInv, Sign!SetPassword PROVE SignInv'
<1> DEFINE Noted(q) ==
      IF q.at \in {"body", "hash"} /\ q.kind # "bearer"
      THEN [q EXCEPT !.ever = q.ever
        \/ q.given = signin_password', !.always = q.always /\ q.given = signin_password']
      ELSE q
<1>1. /\ signin_password' \in 0..SignInMaxPasswords
           /\ signin_req' = [r \in SignInRequests |-> Noted(signin_req[r])]
      /\ UNCHANGED <<signin_now, signin_sessions, signin_tracked, signin_wait, signin_life,
           signin_streak, signin_dropped>>
  <2>1. signin_password' \in 0..SignInMaxPasswords
    <3>1. signin_password < SignInMaxPasswords /\ signin_password' = signin_password + 1
      BY Zenon DEF Sign!SetPassword
    <3>2. signin_password \in 0..SignInMaxPasswords
      BY DEF SignInv, SignTypes
    <3>3. QED
      BY <3>1, <3>2, SignInNumbers
  <2>2. signin_req' = [r \in SignInRequests |-> Noted(signin_req[r])]
    BY Zenon DEF Sign!SetPassword
  <2>3. QED
    BY <2>1, <2>2 DEF Sign!SetPassword
<1>2. ASSUME NEW r \in SignInRequests
      PROVE  Noted(signin_req[r]) \in SignStates
               /\ SignJudged(Noted(signin_req[r]), signin_password')
             /\ SignTold(Noted(signin_req[r]))
  <2> DEFINE q == signin_req[r]
  <2>1. q \in SignStates /\ SignJudged(q, signin_password) /\ SignTold(q)
    BY DEF SignInv, SignTypes, SignJudgements
  <2>2. CASE q.at \in {"body", "hash"} /\ q.kind # "bearer"
    <3>1. q \in [at : {"body", "hash"}, kind : {"login", "token", "bearer"},
            addr : SignInAddresses,
                 given : 0..SignInMaxPasswords, seen : 0..SignInMaxPasswords, ever : BOOLEAN,
                   always : BOOLEAN]
      BY <2>1, <2>2 DEF SignStates, Sign!Free
    <3> DEFINE new == [q EXCEPT !.ever = q.ever \/ q.given = signin_password',
                                !.always = q.always /\ q.given = signin_password']
    <3>2. new \in SignStates
      <4>1. (q.ever \/ q.given = signin_password') \in BOOLEAN
            /\ (q.always /\ q.given = signin_password') \in BOOLEAN
        BY <3>1
      <4>2. QED
        BY <3>1, <4>1 DEF SignStates
    <3>3. /\ new.at = q.at /\ new.kind = q.kind /\ new.given = q.given /\ new.seen = q.seen
          /\ (new.ever <=> q.ever \/ q.given = signin_password')
          /\ (new.always <=> q.always /\ q.given = signin_password')
      BY <3>1
    <3>4. Noted(q) = new
      BY <2>2
    <3> HIDE DEF new
    <3>5. SignJudged(new, signin_password') /\ SignTold(new)
      BY <2>1, <2>2, <3>3 DEF SignJudged, SignTold
    <3>6. QED
      BY <3>2, <3>4, <3>5
  <2>3. CASE ~(q.at \in {"body", "hash"} /\ q.kind # "bearer")
    <3>1. Noted(q) = q
      BY <2>3
    <3>2. SignJudged(q, signin_password')
      BY <2>1, <2>3 DEF SignJudged
    <3>3. QED
      BY <2>1, <3>1, <3>2
  <2>4. QED
    BY <2>2, <2>3
<1> HIDE DEF Noted
<1>3. SignTypes'
  BY <1>1, <1>2 DEF SignInv, SignTypes
<1>4. SignJudgements'
  BY <1>1, <1>2 DEF SignJudgements
<1>5. QED
  BY <1>1, <1>3, <1>4, SignSame DEF SignInv

\* A cookie is looked up: what is due was there, and is used now.
LEMMA SignUses == ASSUME SignInv, NEW id \in DOMAIN signin_life, Sign!UseCookie(id)
  PROVE SignInv'
<1> DEFINE mine == {s \in Sign!Swept : s.id = id}
<1>1. /\ signin_sessions' = (Sign!Swept \ mine) \cup {Sign!Refreshed(s) : s \in mine}
      /\ signin_life' = IF Sign!Due(id) THEN [signin_life EXCEPT ![id].last = signin_now]
           ELSE signin_life
      /\ UNCHANGED <<signin_now, signin_password, signin_tracked, signin_wait, signin_req,
           signin_streak, signin_dropped>>
  BY DEF Sign!UseCookie
<1>2. /\ signin_now \in Nat /\ signin_life \in Seq(SignRow)
           /\ signin_sessions \subseteq [id : Nat, issued : Nat, used : Nat]
      /\ DOMAIN signin_life = 1..Len(signin_life)
  BY SignInNumbers DEF SignInv, SignTypes
<1>3. signin_life[id] \in SignRow
  BY SignRows DEF SignInv
<1>4. /\ DOMAIN signin_life' = DOMAIN signin_life /\ signin_life' \in Seq(SignRow)
      /\ \A i \in DOMAIN signin_life : i # id \/ ~Sign!Due(id)
           => signin_life'[i] = signin_life[i]
      /\ Sign!Due(id) => /\ signin_life'[id].last = signin_now
           /\ signin_life'[id].born = signin_life[id].born
                         /\ signin_life'[id].over = signin_life[id].over
  <2>1. CASE Sign!Due(id)
    <3> DEFINE new == [signin_life[id] EXCEPT !.last = signin_now]
    <3>1. new \in SignRow /\ new.last = signin_now /\ new.born = signin_life[id].born
            /\ new.over = signin_life[id].over
      BY <1>2, <1>3 DEF SignRow
    <3>2. signin_life' = [signin_life EXCEPT ![id] = new]
      BY <1>1, <2>1
    <3> HIDE DEF new
    <3>3. QED
      BY <1>2, <2>1, <3>1, <3>2
  <2>2. CASE ~Sign!Due(id)
    BY <1>1, <1>2, <2>2
  <2>3. QED
    BY <2>1, <2>2
<1>5. \A s \in Sign!Swept : s \in signin_sessions /\ Sign!Due(s.id)
  <2> SUFFICES ASSUME NEW s \in signin_sessions, ~Sign!Expired(s) PROVE Sign!Due(s.id)
    BY DEF Sign!Swept
  <2>1. s.issued \in Nat /\ s.used \in Nat
    BY <1>2
  <2>2. ~signin_life[s.id].over /\ s.issued = signin_life[s.id].born
          /\ s.used = signin_life[s.id].last
    BY DEF SignInv, SignSessions
  <2>3. QED
    BY <1>2, <2>1, <2>2, SignInNumbers DEF Sign!Expired, Sign!Due
<1>6. \A i \in DOMAIN signin_life : Sign!Due(i) => \E s \in Sign!Swept : s.id = i
  <2> SUFFICES ASSUME NEW i \in DOMAIN signin_life, Sign!Due(i)
                      PROVE \E s \in Sign!Swept : s.id = i
    OBVIOUS
  <2>1. PICK s \in signin_sessions : s.id = i
    BY DEF SignInv, SignSessions
  <2>2. s.issued \in Nat /\ s.used \in Nat /\ s.issued = signin_life[i].born
          /\ s.used = signin_life[i].last
    BY <1>2, <2>1 DEF SignInv, SignSessions
  <2>3. ~Sign!Expired(s)
    BY <1>2, <2>2, SignInNumbers DEF Sign!Expired, Sign!Due
  <2>4. QED
    BY <2>1, <2>3 DEF Sign!Swept
<1>7. ASSUME NEW s \in mine
      PROVE  /\ Sign!Refreshed(s) \in [id : Nat, issued : Nat, used : Nat]
             /\ Sign!Refreshed(s).id = id /\ Sign!Refreshed(s).issued = s.issued
                  /\ Sign!Refreshed(s).used = signin_now
  BY <1>2, <1>5 DEF Sign!Refreshed
<1>8. ASSUME NEW t \in signin_sessions'
      PROVE  \E s \in Sign!Swept :
                /\ s.id = t.id /\ t.issued = s.issued
                     /\ t \in [id : Nat, issued : Nat, used : Nat]
                /\ IF s.id = id THEN t = Sign!Refreshed(s) /\ t.used = signin_now ELSE t = s
  <2>1. CASE t \in Sign!Swept \ mine
    BY <2>1, <1>2, <1>5
  <2>2. CASE t \in {Sign!Refreshed(s) : s \in mine}
    <3>1. PICK s \in mine : t = Sign!Refreshed(s)
      BY <2>2
    <3>2. s \in Sign!Swept /\ s.id = id
      BY <3>1
    <3>3. QED
      BY <3>1, <3>2, <1>7
  <2>3. QED
    BY <2>1, <2>2, <1>1
<1>9. ASSUME NEW s \in Sign!Swept PROVE \E t \in signin_sessions' : t.id = s.id
  <2>1. CASE s.id = id
    <3>1. s \in mine
      BY <2>1
    <3>2. Sign!Refreshed(s) \in signin_sessions' /\ Sign!Refreshed(s).id = id
      BY <3>1, <1>1, <1>7
    <3>3. QED
      BY <2>1, <3>2
  <2>2. CASE s.id # id
    <3>1. s \in signin_sessions'
      BY <2>2, <1>1
    <3>2. QED
      BY <3>1
  <2>3. QED
    BY <2>1, <2>2
<1> HIDE DEF mine
<1>10. \A s, t \in signin_sessions' : s.id = t.id => s = t
  <2> SUFFICES ASSUME NEW t1 \in signin_sessions', NEW t2 \in signin_sessions', t1.id = t2.id
                      PROVE t1 = t2
    OBVIOUS
  <2>1. PICK s1 \in Sign!Swept : s1.id = t1.id
               /\ IF s1.id = id THEN t1 = Sign!Refreshed(s1) ELSE t1 = s1
    BY <1>8
  <2>2. PICK s2 \in Sign!Swept : s2.id = t2.id
               /\ IF s2.id = id THEN t2 = Sign!Refreshed(s2) ELSE t2 = s2
    BY <1>8
  <2>3. s1 = s2
    BY <2>1, <2>2, <1>5 DEF SignInv, SignSessions
  <2>4. QED
    BY <2>1, <2>2, <2>3
<1>11. ASSUME NEW t \in signin_sessions'
       PROVE  /\ t.id \in DOMAIN signin_life' /\ ~signin_life'[t.id].over
              /\ t.issued = signin_life'[t.id].born /\ t.used = signin_life'[t.id].last
              /\ t.issued <= t.used /\ t.used <= signin_now'
  <2>1. PICK s \in Sign!Swept : s.id = t.id /\ t.issued = s.issued
                               /\ IF s.id = id THEN t = Sign!Refreshed(s)
                                    /\ t.used = signin_now ELSE t = s
    BY <1>8
  <2>2. /\ s.id \in DOMAIN signin_life /\ ~signin_life[s.id].over
             /\ s.issued = signin_life[s.id].born
        /\ s.used = signin_life[s.id].last /\ s.issued <= s.used /\ s.used <= signin_now
        /\ s.issued \in Nat /\ s.used \in Nat /\ Sign!Due(s.id)
    BY <1>2, <1>5 DEF SignInv, SignSessions
  <2>3. CASE s.id = id
    <3>1. t.used = signin_now /\ t.issued = s.issued /\ t.id = id /\ Sign!Due(id)
      BY <2>1, <2>2, <2>3
    <3>2. signin_life'[id].last = signin_now /\ signin_life'[id].born = signin_life[id].born
            /\ signin_life'[id].over = signin_life[id].over
      BY <3>1, <1>4
    <3>3. QED
      BY <3>1, <3>2, <2>2, <2>3, <1>1, <1>2, <1>4
  <2>4. CASE s.id # id
    BY <2>1, <2>2, <2>4, <1>1, <1>4
  <2>5. QED
    BY <2>3, <2>4
<1>12. ASSUME NEW i \in DOMAIN signin_life', Sign!Due(i)'
              PROVE \E s \in signin_sessions' : s.id = i
  <2>1. Sign!Due(i)
    <3>1. CASE i = id /\ Sign!Due(id)
      BY <3>1
    <3>2. CASE ~(i = id /\ Sign!Due(id))
      <4>1. signin_life'[i] = signin_life[i]
        BY <3>2, <1>4
      <4>2. QED
        BY <4>1, <1>1, <1>12 DEF Sign!Due
    <3>3. QED
      BY <3>1, <3>2
  <2>2. PICK s \in Sign!Swept : s.id = i
    BY <2>1, <1>4, <1>6
  <2>3. QED
    BY <2>2, <1>9
<1>13. SignSessions'
  BY <1>10, <1>11, <1>12 DEF SignSessions
<1>14. signin_sessions' \subseteq [id : Nat, issued : Nat, used : Nat]
  BY <1>8
<1>15. SignTypes'
  BY <1>1, <1>4, <1>14 DEF SignInv, SignTypes
<1>16. QED
  BY <1>1, <1>13, <1>15, SignSame DEF SignInv

LEMMA SignLeaves == ASSUME SignInv, NEW id \in DOMAIN signin_life, Sign!Logout(id)
  PROVE SignInv'
<1>1. /\ signin_sessions' = {s \in signin_sessions : s.id # id}
           /\ signin_life' = [signin_life EXCEPT ![id].over = TRUE]
      /\ UNCHANGED <<signin_now, signin_password, signin_tracked, signin_wait, signin_req,
           signin_streak, signin_dropped>>
  BY DEF Sign!Logout
<1>2. signin_life \in Seq(SignRow) /\ DOMAIN signin_life = 1..Len(signin_life)
        /\ signin_life[id] \in SignRow
  BY SignRows DEF SignInv
<1>3. /\ DOMAIN signin_life' = DOMAIN signin_life /\ signin_life' \in Seq(SignRow)
           /\ signin_life'[id].over
      /\ \A i \in DOMAIN signin_life : i # id => signin_life'[i] = signin_life[i]
  <2> DEFINE new == [signin_life[id] EXCEPT !.over = TRUE]
  <2>1. new \in SignRow /\ new.over /\ signin_life' = [signin_life EXCEPT ![id] = new]
    BY <1>1, <1>2 DEF SignRow
  <2> HIDE DEF new
  <2>2. QED
    BY <1>2, <2>1
<1>4. SignTypes'
  BY <1>1, <1>3 DEF SignInv, SignTypes
<1>5. ASSUME NEW i \in DOMAIN signin_life', Sign!Due(i)'
             PROVE \E s \in signin_sessions' : s.id = i
  <2>1. i # id
    BY <1>3, <1>5 DEF Sign!Due
  <2>2. Sign!Due(i)
    BY <2>1, <1>1, <1>3, <1>5 DEF Sign!Due
  <2>3. QED
    BY <2>1, <2>2, <1>1, <1>3 DEF SignInv, SignSessions
<1>6. ASSUME NEW s \in signin_sessions'
      PROVE  /\ s.id \in DOMAIN signin_life' /\ ~signin_life'[s.id].over
             /\ s.issued = signin_life'[s.id].born /\ s.used = signin_life'[s.id].last
             /\ s.issued <= s.used /\ s.used <= signin_now'
  BY <1>1, <1>3 DEF SignInv, SignSessions
<1>7. \A s, t \in signin_sessions' : s.id = t.id => s = t
  BY <1>1 DEF SignInv, SignSessions
<1>8. SignSessions'
  BY <1>5, <1>6, <1>7 DEF SignSessions
<1>9. QED
  BY <1>1, <1>4, <1>8, SignSame DEF SignInv

LEMMA SignTicks == ASSUME SignInv, Sign!Tick PROVE SignInv'
<1>1. /\ signin_now' = signin_now + 1 /\ signin_now' \in 0..SignInMaxTime /\ signin_now \in Nat
      /\ UNCHANGED <<signin_password, signin_sessions, signin_tracked, signin_wait, signin_req,
           signin_life, signin_streak, signin_dropped>>
  BY SignInNumbers DEF Sign!Tick, SignInv, SignTypes
<1>2. SignTypes'
  BY <1>1 DEF SignInv, SignTypes
<1>3. ASSUME NEW i \in DOMAIN signin_life, Sign!Due(i)' PROVE Sign!Due(i)
  <2>1. signin_life[i].born \in Nat /\ signin_life[i].last \in Nat
    BY SignRows DEF SignInv
  <2>2. ~signin_life[i].over /\ signin_now + 1 - signin_life[i].born <= SignInAbsolute
          /\ signin_now + 1 - signin_life[i].last <= SignInIdle
    <3>1. ~signin_life[i].over
      BY <1>1, <1>3 DEF Sign!Due
    <3>2. signin_now' - signin_life[i].born <= SignInAbsolute
            /\ signin_now' - signin_life[i].last <= SignInIdle
      BY <1>1, <1>3 DEF Sign!Due
    <3>3. signin_now' = signin_now + 1
      BY <1>1
    <3>4. signin_now + 1 - signin_life[i].born <= SignInAbsolute
            /\ signin_now + 1 - signin_life[i].last <= SignInIdle
      BY <1>1, <2>1, <3>2, <3>3
    <3>5. QED
      BY <3>1, <3>4
  <2>3. QED
    BY <1>1, <2>1, <2>2, SignInNumbers DEF Sign!Due
<1>4. SignSessions'
  <2>1. \A s \in signin_sessions : s.used \in Nat
    BY DEF SignInv, SignTypes
  <2>2. \A s \in signin_sessions : s.used <= signin_now => s.used <= signin_now'
    BY <1>1, <2>1
  <2>3. QED
    BY <1>1, <1>3, <2>2 DEF SignInv, SignSessions
<1>5. QED
  BY <1>1, <1>2, <1>4, SignSame DEF SignInv

\* A daemon that starts again remembers nobody, and every session is over.
LEMMA SignRestarts == ASSUME SignInv, Sign!Restart PROVE SignInv'
<1>1. /\ signin_sessions' = {} /\ signin_tracked' = <<>> /\ signin_dropped' = {}
           /\ signin_req' = [r \in SignInRequests |-> Sign!Free]
      /\ signin_life' = [i \in DOMAIN signin_life |-> [signin_life[i] EXCEPT !.over = TRUE]]
      /\ signin_streak' = [a \in SignInAddresses |-> [fails |-> 0, at |-> 0]]
      /\ UNCHANGED <<signin_now, signin_password, signin_wait>>
  BY DEF Sign!Restart
<1>2. signin_life \in Seq(SignRow) /\ DOMAIN signin_life = 1..Len(signin_life)
        /\ Len(signin_life) \in Nat
  BY SignRows DEF SignInv
<1>3. \A i \in DOMAIN signin_life : signin_life'[i] \in SignRow /\ signin_life'[i].over
  <2> SUFFICES ASSUME NEW i \in DOMAIN signin_life
                      PROVE signin_life'[i] \in SignRow /\ signin_life'[i].over
    OBVIOUS
  <2>1. signin_life[i] \in SignRow /\ signin_life'[i] = [signin_life[i] EXCEPT !.over = TRUE]
    BY <1>1, SignRows DEF SignInv
  <2>2. QED
    BY <2>1 DEF SignRow
<1>4. DOMAIN signin_life' = DOMAIN signin_life /\ signin_life' \in Seq(SignRow)
  <2>1. signin_life' = [i \in 1..Len(signin_life) |-> signin_life'[i]]
          /\ DOMAIN signin_life' = DOMAIN signin_life
    BY <1>1, <1>2
  <2>2. signin_life' \in [1..Len(signin_life) -> SignRow]
    BY <1>2, <1>3, <2>1
  <2>3. QED
    BY <1>2, <2>1, <2>2
<1>5. SignTypes'
  BY <1>1, <1>4 DEF SignInv, SignTypes, SignStates
<1>6. SignJudgements'
  BY <1>1 DEF SignJudgements, SignJudged, SignTold, Sign!Free
<1>7. SignSessions'
  BY <1>1, <1>3, <1>4 DEF SignSessions, Sign!Due
<1>8. SignThrottle'
  BY <1>1, SignInNumbers DEF SignThrottle, Once, Sign!Holds
<1>9. QED
  BY <1>5, <1>6, <1>7, <1>8 DEF SignInv

LEMMA SignStep == SignInv /\ [Sign!Next]_(Sign!vars) => SignInv'
<1> SUFFICES ASSUME SignInv, [Sign!Next]_(Sign!vars) PROVE SignInv'
  OBVIOUS
<1>1. CASE UNCHANGED Sign!vars
  BY <1>1, SignSame DEF Sign!vars, SignInv, SignTypes
<1>2. ASSUME NEW r \in SignInRequests, NEW a \in SignInAddresses, Sign!Ask(r, a) PROVE SignInv'
  <2>1. ASSUME NEW p \in 1..SignInMaxPasswords, NEW kind \in {"login", "token"},
               Sign!Begin(r, a, kind, p)
        PROVE  SignInv'
    <3>1. p \in 0..SignInMaxPasswords /\ p # Sign!Unset
      BY SignInNumbers DEF Sign!Unset
    <3>2. QED
      BY <2>1, <3>1, SignBegins
  <2>2. ASSUME NEW good \in BOOLEAN,
               Sign!Begin(r, a, "bearer", IF good THEN signin_password ELSE Sign!Unset)
        PROVE  SignInv'
    <3>1. (IF good THEN signin_password ELSE Sign!Unset) \in 0..SignInMaxPasswords
      BY SignInNumbers DEF SignInv, SignTypes, Sign!Unset
    <3>2. QED
      BY <2>2, <3>1, SignBegins
  <2>3. QED
    BY <1>2, <2>1, <2>2 DEF Sign!Ask
<1>3. CASE \E r \in SignInRequests : Sign!BodyCame(r) \/ Sign!Verified(r)
  BY <1>3, SignReads, SignVerifies
<1>4. CASE \E id \in DOMAIN signin_life : Sign!UseCookie(id) \/ Sign!Logout(id)
  BY <1>4, SignUses, SignLeaves
<1>5. CASE Sign!SetPassword \/ Sign!Tick \/ Sign!Restart
  BY <1>5, SignChanges, SignTicks, SignRestarts
<1>6. QED
  BY <1>1, <1>2, <1>3, <1>4, <1>5 DEF Sign!Next

LEMMA SignImplies == SignInv => Sign!SignInsAreSound
<1> SUFFICES ASSUME SignInv PROVE Sign!SignInsAreSound
  OBVIOUS
<1>1. Sign!TypeOK
  <2>1. \A r \in SignInRequests : signin_req[r].at \in {"free", "body", "hash", "done"}
    BY DEF SignInv, SignTypes, SignStates, Sign!Free
  <2>2. QED
    BY <2>1, SignInNumbers DEF SignInv, SignTypes, SignSessions, SignThrottle, Once, Sign!TypeOK
<1>2. Sign!SignInsAreCurrent
  BY DEF SignInv, SignJudgements, SignTold, Sign!SignInsAreCurrent
<1>3. Sign!SessionsEndOnTime
  <2> SUFFICES ASSUME NEW id \in DOMAIN signin_life
               PROVE  (\E s \in Sign!Swept : s.id = id) = Sign!Due(id)
    BY DEF Sign!SessionsEndOnTime
  <2>1. (\E s \in Sign!Swept : s.id = id) => Sign!Due(id)
    <3> SUFFICES ASSUME NEW s \in Sign!Swept, s.id = id PROVE Sign!Due(id)
      OBVIOUS
    <3>1. s \in signin_sessions /\ ~Sign!Expired(s) /\ s.issued \in Nat /\ s.used \in Nat
            /\ signin_now \in Nat
      BY SignInNumbers DEF Sign!Swept, SignInv, SignTypes
    <3>2. ~signin_life[id].over /\ s.issued = signin_life[id].born
            /\ s.used = signin_life[id].last
      BY <3>1 DEF SignInv, SignSessions
    <3>3. QED
      BY <3>1, <3>2, SignInNumbers DEF Sign!Expired, Sign!Due
  <2>2. Sign!Due(id) => \E s \in Sign!Swept : s.id = id
    <3> SUFFICES ASSUME Sign!Due(id) PROVE \E s \in Sign!Swept : s.id = id
      OBVIOUS
    <3>1. PICK s \in signin_sessions : s.id = id
      BY DEF SignInv, SignSessions
    <3>2. s.issued \in Nat /\ s.used \in Nat /\ signin_now \in Nat
      BY SignInNumbers DEF SignInv, SignTypes
    <3>3. s.issued = signin_life[id].born /\ s.used = signin_life[id].last
      BY <3>1 DEF SignInv, SignSessions
    <3>4. ~Sign!Expired(s)
      BY <3>2, <3>3, SignInNumbers DEF Sign!Expired, Sign!Due
    <3>5. QED
      BY <3>1, <3>4 DEF Sign!Swept
  <2>3. Sign!Due(id) \in BOOLEAN
    BY DEF Sign!Due
  <2>4. QED
    BY <2>1, <2>2, <2>3
<1>4. Sign!WaitsAreServed
  BY DEF SignInv, SignThrottle, Waits, Sign!WaitsAreServed
<1>5. Sign!TableIsBounded
  BY DEF SignInv, SignThrottle, Sign!TableIsBounded
<1>6. QED
  BY <1>1, <1>2, <1>3, <1>4, <1>5 DEF Sign!SignInsAreSound

LEMMA SignHolds == Sign!Spec => []Sign!SignInsAreSound
BY SignInit, SignStep, SignImplies, PTL DEF Sign!Spec

-----------------------------------------------------------------------------
(* The daemon's lock, as long as no two processes are at it at once.       *)

\* A process has a pid exactly while it runs.
LockHasPid == \A p \in LockProcs : lock_pid[p] = LockNobody <=> lock_pc[p] = "out"

\* The second attempt is the last.
LockTried == \A p \in LockProcs : lock_attempt[p] = 2 => lock_pc[p] = "out"

\* Nobody has company at the lock.
LockAlone ==
    \A p, q \in LockProcs :
        lock_pc[p] \in Lock!AtTheLock /\ lock_pc[q] \in Lock!AtTheLock => p = q

\* The file belongs to whoever wrote it and is still there.
LockOwned ==
    /\ \A p \in LockProcs : lock_pc[p] \in Lock!Serving \cup Lock!Releasing =>
          lock_at = p /\ lock_written[p] = lock_pid[p]
    /\ \A p \in LockProcs : lock_pc[p] = "writing" => lock_at = p

\* Next to a daemon that serves, nobody gets past the judging of its record.
LockKept ==
    \A p, q \in LockProcs : lock_pc[p] \in Lock!Serving /\ p # q =>
        \/ lock_pc[q] \in {"out", "opening", "reading"}
        \/ lock_pc[q] = "judging" /\ lock_seen[q] = lock_pid[p]

LoneInv ==
    /\ Lock!TypeOK /\ LockHasPid /\ LockTried
    /\ (~lock_contended => LockAlone /\ LockOwned /\ LockKept)

\* The initial state has nobody at the lock.
LEMMA LoneInit == Lock!Init => LoneInv
<1> SUFFICES ASSUME Lock!Init PROVE LoneInv
  OBVIOUS
<1> USE DEF Lock!Init, Lock!AtTheLock, Lock!Acquiring, Lock!Releasing, Lock!Serving, Lock!States
<1>1. Lock!TypeOK
  <2>1. lock_pc \in [LockProcs -> Lock!States] /\ lock_attempt \in [LockProcs -> 0 .. 2]
    BY DEF Lock!States
  <2>2. lock_at \in LockProcs \cup {LockNobody} /\ lock_others \subseteq LockPids
    OBVIOUS
  <2>3. /\ lock_written \in [LockProcs -> LockPids \cup {LockNobody}]
        /\ lock_pid \in [LockProcs -> LockPids \cup {LockNobody}]
        /\ lock_seen \in [LockProcs -> LockPids \cup {LockNobody}]
    OBVIOUS
  <2>4. lock_contended \in BOOLEAN /\ lock_misread \in BOOLEAN
    OBVIOUS
  <2> QED
    BY <2>1, <2>2, <2>3, <2>4 DEF Lock!TypeOK
<1>2. LockHasPid /\ LockTried
  BY DEF LockHasPid, LockTried
<1>3. LockAlone /\ LockOwned /\ LockKept
  BY DEF LockAlone, LockOwned, LockKept
<1> QED
  BY <1>1, <1>2, <1>3 DEF LoneInv

\* Every step of a process, or of another program, keeps the invariant.
LEMMA LoneStep == LoneInv /\ [Lock!Next]_(Lock!vars) => LoneInv'
<1> SUFFICES ASSUME LoneInv, [Lock!Next]_(Lock!vars) PROVE LoneInv'
  OBVIOUS
<1> USE LockAbsence DEF LoneInv, Lock!AtTheLock, Lock!Acquiring, Lock!Releasing, Lock!Serving,
                        Lock!States
<1>0. CASE UNCHANGED Lock!vars
  BY <1>0 DEF Lock!vars, Lock!TypeOK, LockHasPid, LockTried, LockAlone, LockOwned, LockKept
<1>1. CASE Lock!OtherProgram
  BY <1>1 DEF Lock!OtherProgram, Lock!TypeOK, LockHasPid, LockTried, LockAlone, LockOwned,
              LockKept, Lock!Alive
<1>2. ASSUME NEW p \in LockProcs, Lock!Daemon(p) PROVE LoneInv'
  <2>1. CASE Lock!Start(p)
    <3> USE <2>1 DEF Lock!Start, Lock!Alive, Lock!Goto, Lock!Noting
    <3>1. Lock!TypeOK' /\ LockHasPid' /\ LockTried'
      BY DEF Lock!TypeOK, LockHasPid, LockTried
    <3>2. ASSUME ~lock_contended' PROVE LockAlone'
      BY <3>2 DEF Lock!TypeOK, LockAlone
    <3>3. ASSUME ~lock_contended' PROVE LockOwned'
      BY <3>2, <3>3 DEF Lock!TypeOK, LockAlone, LockOwned, LockKept
    <3>4. ASSUME ~lock_contended' PROVE LockKept'
      BY <3>2, <3>4 DEF Lock!TypeOK, LockHasPid, LockAlone, LockOwned, LockKept
    <3> QED
      BY <3>1, <3>2, <3>3, <3>4
  <2>2. CASE Lock!Open(p)
    BY <1>2, <2>2 DEF Lock!Open, Lock!TypeOK, LockHasPid, LockTried, LockAlone, LockOwned,
                      LockKept, Lock!Goto, Lock!Noting
  <2>3. CASE Lock!ReadRecord(p)
    BY <1>2, <2>3 DEF Lock!ReadRecord, Lock!Read, Lock!TypeOK, LockHasPid, LockTried,
                      LockAlone, LockOwned, LockKept, Lock!Goto, Lock!Noting
  <2>4. CASE Lock!Judge(p)
    BY <1>2, <2>4 DEF Lock!Judge, Lock!Exit, Lock!Alive, Lock!TypeOK, LockHasPid, LockTried,
                      LockAlone, LockOwned, LockKept, Lock!Goto, Lock!Noting
  <2>5. CASE Lock!UnlinkStale(p)
    <3> USE <2>5 DEF Lock!UnlinkStale, Lock!Exit, Lock!MayUnlink, Lock!Goto, Lock!Noting
    <3>1. Lock!TypeOK' /\ LockHasPid' /\ LockTried'
      BY DEF Lock!TypeOK, LockHasPid, LockTried
    <3>2. ASSUME ~lock_contended' PROVE LockAlone'
      BY <3>2 DEF Lock!TypeOK, LockAlone
    <3>3. ASSUME ~lock_contended' PROVE LockOwned'
      BY <3>2, <3>3 DEF Lock!TypeOK, LockAlone, LockOwned, LockKept
    <3>4. ASSUME ~lock_contended' PROVE LockKept'
      BY <3>2, <3>4 DEF Lock!TypeOK, LockHasPid, LockAlone, LockOwned, LockKept
    <3> QED
      BY <3>1, <3>2, <3>3, <3>4
  <2>6. CASE Lock!Write(p)
    BY <1>2, <2>6 DEF Lock!Write, Lock!TypeOK, LockHasPid, LockTried, LockAlone, LockOwned,
                      LockKept, Lock!Goto, Lock!Noting
  <2>7. CASE Lock!Serve(p)
    BY <1>2, <2>7 DEF Lock!Serve, Lock!TypeOK, LockHasPid, LockTried, LockAlone, LockOwned,
                      LockKept, Lock!Goto, Lock!Noting
  <2>8. CASE Lock!Release(p)
    <3> USE <2>8 DEF Lock!Release, Lock!Goto, Lock!Noting
    <3>1. Lock!TypeOK' /\ LockHasPid' /\ LockTried'
      BY DEF Lock!TypeOK, LockHasPid, LockTried
    <3>2. ASSUME ~lock_contended' PROVE LockAlone'
      BY <3>2 DEF Lock!TypeOK, LockAlone
    <3>3. ASSUME ~lock_contended' PROVE LockOwned'
      BY <3>2, <3>3 DEF Lock!TypeOK, LockAlone, LockOwned, LockKept
    <3>4. ASSUME ~lock_contended' PROVE LockKept'
      BY <3>2, <3>4 DEF Lock!TypeOK, LockHasPid, LockAlone, LockOwned, LockKept
    <3> QED
      BY <3>1, <3>2, <3>3, <3>4
  <2>9. CASE Lock!Reread(p)
    BY <1>2, <2>9 DEF Lock!Reread, Lock!Read, Lock!Exit, Lock!TypeOK, LockHasPid, LockTried,
                      LockAlone, LockOwned, LockKept, Lock!Goto, Lock!Noting
  <2>10. CASE Lock!Remove(p)
    BY <1>2, <2>10 DEF Lock!Remove, Lock!Exit, Lock!MayUnlink, Lock!TypeOK, LockHasPid,
                       LockTried, LockAlone, LockOwned, LockKept, Lock!Goto, Lock!Noting
  <2>11. CASE Lock!Crash(p)
    BY <1>2, <2>11 DEF Lock!Crash, Lock!Exit, Lock!TypeOK, LockHasPid, LockTried, LockAlone,
                       LockOwned, LockKept, Lock!Goto, Lock!Noting
  <2> QED
    BY <1>2, <2>1, <2>2, <2>3, <2>4, <2>5, <2>6, <2>7, <2>8, <2>9, <2>10, <2>11
       DEF Lock!Daemon, Lock!Acquire
<1> QED
  BY <1>0, <1>1, <1>2 DEF Lock!Next

LEMMA LoneAlways == Lock!Spec => []LoneInv
BY LoneInit, LoneStep, PTL DEF Lock!Spec

-----------------------------------------------------------------------------
(* The addresses of everything (Addresses): what is in the store, the      *)
(* containers beside it, and what a copy on its way may rely on.           *)

AddrWords == Seq(STRING) \ {Address!NoName}
AddrRecord ==
    [id : Nat, of : Nat, kind : {"postgres", "app", "worker"}, name : AddrWords,
     ports : Seq(AddressPorts) \ {<<>>}, box : Seq(STRING), host : Seq(Seq(STRING)),
     bound : Nat, db : AddrWords \cup {Address!NoName}, token : Nat,
     state : {"making", "resting", "undeployed"}]

\* What a row, and what is kept of one, says of itself.
AddrRow ==
    {r \in AddrRecord :
        IF r.kind = "postgres" THEN r.state = "resting" ELSE r.db = Address!NoName}

PortsOf(r) == {r.ports[i] : i \in DOMAIN r.ports}

\* Ids count up, and a project is older than what is in it.
AddrTypes ==
    /\ addresses_ids \in Nat
    /\ addresses_projects \subseteq
         [id : 1..addresses_ids, name : AddressProjectNames, released : BOOLEAN]
    /\ addresses_rows \subseteq AddrRow /\ IsFiniteSet(addresses_rows)
    /\ \A r \in addresses_rows :
         r.of < r.id /\ r.id <= addresses_ids /\ r.bound <= addresses_ids

\* Who has which name and number.
AddrNames ==
    /\ \A p, q \in addresses_projects : p.id = q.id \/ p.name = q.name => p = q
    /\ \A r \in addresses_rows : \E p \in addresses_projects : p.id = r.of
    /\ \A r, s \in addresses_rows : r.id = s.id \/ (r.of = s.of /\ r.name = s.name) => r = s
    /\ \A r, d \in addresses_rows : d.id = r.bound => d.kind = "postgres"

\* What a row says of itself when it is not a copy that has still to be rewritten.
AddrRows ==
    /\ \A r \in addresses_rows, p \in addresses_projects : r.state # "making" /\ p.id = r.of =>
          /\ r.box = Address!BoxName(p.name, r.name) /\ r.token = r.id
          /\ r.kind # "postgres" => r.host = Address!Hostname(p.name, r.name)
    /\ \A r, s \in addresses_rows : r.state # "making" /\ s.state # "making" /\ r # s =>
          PortsOf(r) \cap PortsOf(s) = {}

\* A container whose name was never another's is its row's.
AddrBox(b, r) ==
    /\ r.state # "making" /\ b.name = r.box
    /\ b.of = r.id /\ b.net = r.of /\ b.ports = r.ports
    /\ \A d \in addresses_rows, p \in addresses_projects :
          d.id = r.bound /\ p.id = d.of => b.url = Address!KeyFor(p.name, d.name)

AddrBoxes ==
    /\ \A b, c \in addresses_boxes : b.name = c.name => b = c
    /\ \A r \in addresses_rows : r.state = "making" => r.box \in addresses_shared
    /\ \A r, s \in addresses_rows : r # s /\ r.box = s.box => r.box \in addresses_shared
    /\ \A b \in addresses_boxes :
         b.name \in addresses_shared \/ \E r \in addresses_rows : AddrBox(b, r)

AddrStore == AddrTypes /\ AddrNames /\ AddrRows /\ AddrBoxes

\* The rows of one project, as they were at some time before.
AddrKept(S, n) ==
    /\ S \subseteq AddrRow
    /\ \A e \in S : 0 < e.id /\ e.id < n /\ e.bound < n
    /\ \A e \in S, f \in S \cup addresses_rows : f.id = e.bound => f.kind = "postgres"

AddrCopyRecord ==
    [verb : {"none", "branch", "restore"}, of : Nat, todo : SUBSET AddrRow,
     map : SUBSET (Nat \X Nat), pending : SUBSET [id : Nat, entry : AddrRow]]

AddrToCopy == addresses_copy.todo \cup {x.entry : x \in addresses_copy.pending}

\* What a copy has still to rewrite.
AddrPending ==
    /\ \A x, y \in addresses_copy.pending : x.id = y.id => x = y
    /\ \A x \in addresses_copy.pending :
          /\ addresses_copy.of < x.id /\ x.id <= addresses_ids /\ x.entry.kind # "postgres"
          /\ \A r \in addresses_rows : r.id = x.id =>
                r.of = addresses_copy.of /\ r.name = x.entry.name /\ r.state = "making"

\* What it has made, and of what.
AddrMapped ==
    \A m \in addresses_copy.map :
      /\ 0 < m[1] /\ m[1] < addresses_copy.of
      /\ addresses_copy.of < m[2] /\ m[2] <= addresses_ids
      /\ \A r \in addresses_rows : r.id = m[2] =>
            /\ r.of = addresses_copy.of
            /\ \/ \E x \in addresses_copy.pending : x.id = r.id
               \/ r.bound = Address!None \/ addresses_copy.of < r.bound
            /\ \A e \in AddrToCopy : e.bound = m[1] => r.kind = "postgres"

AddrCopy ==
    /\ addresses_copy \in AddrCopyRecord /\ addresses_copy.of <= addresses_ids
    /\ AddrKept(addresses_snapshot, addresses_ids + 1)
    /\ AddrKept(AddrToCopy, addresses_copy.of)
    /\ AddrPending /\ AddrMapped

AddrInv == AddrStore /\ AddrCopy

-----------------------------------------------------------------------------

\* The least of some numbers is one of them.
LEMMA AddrLeast ==
    ASSUME NEW S \in SUBSET Nat, S # {}
    PROVE  \E i \in S : \A j \in S : i <= j
<1>1. PICK i \in S : \A j \in S : ~(<<j, i>> \in OpToRel(<, Nat))
  BY NatLessThanWellFounded, WFMin
<1>2. OpToRel(<, Nat) = {p \in Nat \X Nat : p[1] < p[2]}
  BY DEF OpToRel
<1>3. \A j \in S : ~(j < i)
  <2>1. \A j \in S : <<j, i>> \in Nat \X Nat
    OBVIOUS
  <2>2. QED
    BY <1>1, <1>2, <2>1
<1>4. \A j \in S : i <= j
  BY <1>3
<1>5. QED
  BY <1>4

LEMMA AddrMin ==
    ASSUME NEW S \in SUBSET Nat, S # {}
    PROVE  Address!Min(S) \in S
BY AddrLeast DEF Address!Min

\* The first of some rows is one of them.
LEMMA AddrFirst ==
    ASSUME NEW S, S # {}, \A r \in S : r.id \in Nat
    PROVE  Address!First(S) \in S
<1>1. PICK i \in {r.id : r \in S} : \A j \in {r.id : r \in S} : i <= j
  BY AddrLeast
<1>2. PICK r \in S : r.id = i
  OBVIOUS
<1>3. \A s \in S : r.id <= s.id
  BY <1>1, <1>2
<1>4. QED
  BY <1>3 DEF Address!First

\* The numbers of things that Addresses counts are those the library has facts of.
LEMMA AddrCount ==
    ASSUME NEW S
    PROVE  Address!Cardinality(S) = Cardinality(S)
BY DEF Address!Cardinality, Cardinality

\* The ports that allocatePort finds are nobody's.
LEMMA AddrPorts ==
    ASSUME NEW kind, Address!Enough(kind), NEW ps, ps = Address!FreePorts(kind)
    PROVE  /\ ps \in Seq(AddressPorts) /\ ps # <<>>
           /\ {ps[i] : i \in DOMAIN ps} \cap Address!Taken = {}
<1> DEFINE free == AddressPorts \ Address!Taken
           one == Address!Min(free)
           two == Address!Min(free \ {one})
<1>1. IsFiniteSet(free) /\ free \subseteq Nat
  BY AddressShape, FS_Subset
<1>2. free # {}
  BY FS_EmptySet, AddrCount DEF Address!Enough
<1>3. one \in free
  BY <1>1, <1>2, AddrMin
<1>4. ASSUME kind = "worker" PROVE two \in free
  <2>1. Cardinality(free) >= 2
    BY <1>4, AddrCount DEF Address!Enough
  <2>2. Cardinality(free \ {one}) = Cardinality(free) - 1 /\ Cardinality(free) \in Nat
    BY <1>1, <1>3, FS_RemoveElement, FS_CardinalityType
  <2>3. free \ {one} # {}
    <3>1. ASSUME free \ {one} = {} PROVE FALSE
      <4>1. Cardinality(free \ {one}) = 0
        BY <3>1, FS_EmptySet
      <4>2. QED
        BY <4>1, <2>1, <2>2
    <3>2. QED
      BY <3>1
  <2>4. QED
    BY <1>1, <2>3, AddrMin
<1>5. ps = IF kind = "worker" THEN <<one, two>> ELSE <<one>>
  BY DEF Address!FreePorts
<1> HIDE DEF two, one
<1>6. CASE kind = "worker"
  <2>1. ps = <<one, two>> /\ one \in AddressPorts /\ two \in AddressPorts
    BY <1>3, <1>4, <1>5, <1>6
  <2>2. \A i \in DOMAIN ps : ps[i] = one \/ ps[i] = two
    BY <2>1
  <2>3. QED
    BY <1>3, <1>4, <1>6, <2>1, <2>2
<1>7. CASE kind # "worker"
  BY <1>3, <1>5, <1>7
<1>8. QED
  BY <1>6, <1>7

LEMMA AddrProject ==
    ASSUME AddrNames, NEW p \in addresses_projects
    PROVE  Address!Project(p.id) = p
BY DEF AddrNames, Address!Project

LEMMA AddrRowIs ==
    ASSUME AddrNames, NEW r \in addresses_rows
    PROVE  Address!Row(r.id) = r /\ Address!Exists(r.id)
BY DEF AddrNames, Address!Row, Address!Exists

\* Docker's name for one thing of one project is not that of another in it.
LEMMA AddrBoxName ==
    ASSUME NEW p \in AddrWords, NEW n \in AddrWords, NEW m \in AddrWords,
           Address!BoxName(p, n) = Address!BoxName(p, m)
    PROVE  n = m
<1>1. p \in Seq(STRING) /\ n \in Seq(STRING) /\ m \in Seq(STRING)
  BY DEF AddrWords
<1>2. Len(n) = Len(m)
  BY <1>1 DEF Address!BoxName
<1>3. \A i \in 1..Len(n) : n[i] = (p \o n)[Len(p) + i]
  BY <1>1
<1>4. \A i \in 1..Len(n) : m[i] = (p \o m)[Len(p) + i]
  BY <1>1, <1>2
<1>5. \A i \in 1..Len(n) : n[i] = m[i]
  BY <1>3, <1>4 DEF Address!BoxName
<1>6. QED
  BY <1>1, <1>2, <1>5

-----------------------------------------------------------------------------
(* What follows from the invariant.                                        *)

\* The project of a row, and all of its name.
LEMMA AddrHome ==
    ASSUME AddrTypes, AddrNames, NEW r \in addresses_rows
    PROVE  \E p \in addresses_projects :
              /\ p.id = r.of /\ Address!Project(r.of) = p /\ p.name \in AddrWords
              /\ {q \in addresses_projects : q.name = p.name} = {p}
<1>1. PICK p \in addresses_projects : p.id = r.of
  BY DEF AddrNames
<1>2. Address!Project(r.of) = p
  BY <1>1, AddrProject
<1>3. p.name \in AddrWords
  BY AddressShape DEF AddrTypes, AddrWords, Address!NoName
<1>4. {q \in addresses_projects : q.name = p.name} = {p}
  BY DEF AddrNames
<1>5. QED
  BY <1>1, <1>2, <1>3, <1>4

\* The first of one is that one.
LEMMA AddrOnly ==
    ASSUME NEW r, r.id \in Nat
    PROVE  Address!First({r}) = r
BY AddrFirst

LEMMA AddrKeysLead == AddrTypes /\ AddrNames => Address!KeysLead
<1> SUFFICES ASSUME AddrTypes, AddrNames, NEW r \in addresses_rows, r.kind = "postgres"
             PROVE  Address!Resolve(Address!ConnectionString(r)) =
                      IF Address!Project(r.of).released THEN Address!Refused
                      ELSE [row |-> r.id, database |-> r.db]
  BY DEF Address!KeysLead
<1>1. PICK p \in addresses_projects : /\ p.id = r.of /\ Address!Project(r.of) = p
             /\ p.name \in AddrWords
                                      /\ {q \in addresses_projects : q.name = p.name} = {p}
  BY AddrHome
<1>2. r.id \in Nat /\ r.name \in AddrWords
  BY DEF AddrTypes, AddrRow, AddrRecord
<1> DEFINE key == Address!ConnectionString(r)
           dbs == Address!Databases(p.id)
           by(n) == {d \in dbs : d.name = n}
<1>3. key = [project |-> p.name, segment |-> IF r.name = Address!Default
        THEN Address!NoName ELSE r.name]
  BY <1>1 DEF Address!ConnectionString, Address!KeyFor
<1>4. {q \in addresses_projects : q.name = key.project} = {p} /\ key.project = p.name
  BY <1>1, <1>3
<1>5. UNION {Address!Databases(q.id) : q \in {p}} = dbs
  OBVIOUS
<1>6. r \in dbs /\ by(r.name) = {r} /\ by(Address!NoName) = {}
  <2>1. r \in dbs
    BY <1>1 DEF Address!Databases, Address!RowsOf
  <2>2. \A d \in dbs : d.name = r.name => d = r
    BY <1>1 DEF Address!Databases, Address!RowsOf, AddrNames
  <2>3. \A d \in dbs : d.name # Address!NoName
    BY DEF Address!Databases, Address!RowsOf, AddrTypes, AddrRow, AddrRecord, AddrWords
  <2>4. QED
    BY <2>1, <2>2, <2>3
<1>7. IsFiniteSet(dbs)
  BY FS_Subset DEF AddrTypes, Address!Databases, Address!RowsOf
<1>8. Address!To(r, Address!NoName) = [row |-> r.id, database |-> r.db]
        /\ Address!First({r}) = r
  BY <1>2, AddrOnly DEF Address!To
<1> DEFINE end == IF by(key.segment) # {}
      THEN Address!To(Address!First(by(key.segment)), Address!NoName)
                  ELSE IF Cardinality(dbs) = 1 THEN Address!To(Address!First(dbs), key.segment)
                  ELSE IF by(Address!Default) # {}
                    THEN Address!To(Address!First(by(Address!Default)), key.segment)
                  ELSE Address!Refused
<1>9. Address!Resolve(key) = IF p.released THEN Address!Refused ELSE end
  <2>1. dbs # {}
    BY <1>6
  <2> HIDE DEF dbs, key
  <2>2. Address!Resolve(key) =
          CASE \E q \in {p} : q.released -> Address!Refused
            [] ~(\E q \in {p} : q.released) /\ dbs = {} -> Address!Nowhere
            [] OTHER -> end
    BY <1>4, <1>5, AddrCount DEF Address!Resolve
  <2> HIDE DEF end
  <2>3. CASE p.released
    BY <2>1, <2>2, <2>3
  <2>4. CASE ~p.released
    BY <2>1, <2>2, <2>4
  <2>5. QED
    BY <2>3, <2>4
<1>10. end = Address!To(r, Address!NoName)
  <2>1. CASE r.name # Address!Default
    BY <1>3, <1>6, <1>8, <2>1
  <2>2. CASE r.name = Address!Default
    <3>1. key.segment = Address!NoName /\ by(Address!Default) = {r}
      BY <1>3, <1>6, <2>2
    <3>2. CASE Cardinality(dbs) = 1
      <4>1. dbs = {r}
        BY <1>6, <1>7, <3>2, FS_Singleton
      <4>2. QED
        BY <1>6, <1>8, <3>1, <3>2, <4>1
    <3>3. CASE Cardinality(dbs) # 1
      BY <1>6, <1>8, <3>1, <3>3
    <3>4. QED
      BY <3>2, <3>3
  <2>3. QED
    BY <2>1, <2>2
<1> HIDE DEF end
<1>11. QED
  BY <1>1, <1>8, <1>9, <1>10

LEMMA AddrHostsLead == AddrTypes /\ AddrNames /\ AddrRows => Address!HostsLead
<1> SUFFICES ASSUME AddrTypes, AddrNames, AddrRows,
                    NEW r \in addresses_rows, r.state # "making", r.kind # "postgres"
             PROVE  /\ r.host = Address!Hostname(Address!Project(r.of).name, r.name)
                    /\ Address!ResolveHost(r.host) =
                         IF Address!Project(r.of).released
                           \/ r.state = "undeployed" THEN Address!Refused
                         ELSE [row |-> r.id, database |-> Address!NoName]
  BY DEF Address!HostsLead, Address!Settled
<1>1. PICK p \in addresses_projects : /\ p.id = r.of /\ Address!Project(r.of) = p
             /\ p.name \in AddrWords
                                      /\ {q \in addresses_projects : q.name = p.name} = {p}
  BY AddrHome
<1>2. r.host = Address!Hostname(p.name, r.name)
  BY <1>1 DEF AddrRows
<1>3. Len(r.host) = 2 /\ r.host[1] = r.name /\ r.host[2] = p.name
  BY <1>2 DEF Address!Hostname
<1> DEFINE ps == {q \in addresses_projects : Len(r.host) = 2 /\ q.name = r.host[2]}
           found == {s \in addresses_rows : \E q \in ps : s.of = q.id /\ s.name = r.host[1]}
<1>4. ps = {p}
  BY <1>1, <1>3
<1>5. found = {r}
  BY <1>1, <1>3, <1>4 DEF AddrNames
<1>6. Address!First({r}) = r
  BY AddrOnly DEF AddrTypes, AddrRow, AddrRecord
<1>7. Address!ResolveHost(r.host) =
        IF \E q \in ps : q.released THEN Address!Refused
        ELSE IF \A s \in found : s.kind = "postgres" THEN Address!Nowhere
        ELSE IF \E s \in found : s.state = "undeployed" THEN Address!Refused
        ELSE Address!To(Address!First(found), Address!NoName)
  BY DEF Address!ResolveHost
<1> HIDE DEF ps, found
<1>8. /\ (\E q \in ps : q.released) <=> p.released
      /\ ~\A s \in found : s.kind = "postgres"
      /\ (\E s \in found : s.state = "undeployed") <=> r.state = "undeployed"
  BY <1>4, <1>5
<1>9. Address!To(Address!First(found), Address!NoName) = [row |-> r.id,
        database |-> Address!NoName]
  <2>1. Address!First(found) = r /\ r.db = Address!NoName
    BY <1>5, <1>6 DEF AddrTypes, AddrRow
  <2>2. QED
    BY <2>1 DEF Address!To
<1>10. Address!Project(r.of) = p /\ Address!Project(r.of).name = p.name
  BY <1>1
<1> HIDE DEF Address!Refused
<1>11. CASE p.released
  BY <1>2, <1>7, <1>8, <1>10, <1>11
<1>12. CASE ~p.released /\ r.state = "undeployed"
  BY <1>2, <1>7, <1>8, <1>10, <1>12
<1>13. CASE ~p.released /\ r.state # "undeployed"
  BY <1>2, <1>7, <1>8, <1>9, <1>10, <1>13
<1>14. QED
  BY <1>11, <1>12, <1>13

LEMMA AddrPortsLead == AddrStore => Address!PortsLead
<1> SUFFICES ASSUME AddrStore PROVE Address!PortsLead
  OBVIOUS
<1> USE DEF AddrStore
<1>1. ASSUME NEW r \in Address!Settled, NEW s \in Address!Settled, r # s
      PROVE  /\ r.token # s.token
             /\ {r.ports[i] : i \in DOMAIN r.ports} \cap {s.ports[i] : i \in DOMAIN s.ports}
                  = {}
             /\ r.box = s.box => /\ Address!Project(r.of).name # Address!Project(s.of).name
                                 /\ Address!Project(r.of).name \o r.name
                                      = Address!Project(s.of).name \o s.name
  <2>1. r \in addresses_rows /\ s \in addresses_rows /\ r.state # "making" /\ s.state # "making"
    BY DEF Address!Settled
  <2>2. PICK p \in addresses_projects : p.id = r.of /\ Address!Project(r.of) = p
               /\ p.name \in AddrWords
    BY <2>1, AddrHome
  <2>3. PICK q \in addresses_projects : q.id = s.of /\ Address!Project(s.of) = q
    BY <2>1, AddrHome
  <2>4. /\ r.token = r.id /\ r.box = Address!BoxName(p.name, r.name)
        /\ s.token = s.id /\ s.box = Address!BoxName(q.name, s.name)
    BY <2>1, <2>2, <2>3 DEF AddrRows
  <2>5. r.token # s.token
    BY <1>1, <2>1, <2>4 DEF AddrNames
  <2>6. PortsOf(r) \cap PortsOf(s) = {}
    BY <1>1, <2>1 DEF AddrRows
  <2>7. ASSUME r.box = s.box PROVE p.name # q.name
    <3>1. SUFFICES ASSUME p.name = q.name PROVE FALSE
      OBVIOUS
    <3>2. p = q
      BY <3>1 DEF AddrNames
    <3>3. r.name \in AddrWords /\ s.name \in AddrWords
      BY <2>1 DEF AddrTypes, AddrRow, AddrRecord
    <3>4. r.name = s.name
      BY <2>2, <2>4, <2>7, <3>2, <3>3, AddrBoxName
    <3>5. QED
      BY <1>1, <2>1, <2>2, <2>3, <3>2, <3>4 DEF AddrNames
  <2>8. r.box = s.box => p.name \o r.name = q.name \o s.name
    BY <2>4 DEF Address!BoxName
  <2>9. QED
    BY <2>2, <2>3, <2>5, <2>6, <2>7, <2>8 DEF PortsOf
<1>2. ASSUME NEW r \in Address!Settled, NEW b \in addresses_boxes, b.name = r.box,
             Address!Undisturbed(r)
      PROVE  b.of = r.id /\ b.net = r.of /\ b.ports = r.ports
  <2>1. PICK s \in addresses_rows : AddrBox(b, s)
    BY <1>2 DEF AddrBoxes, Address!Undisturbed
  <2>2. s = r
    BY <1>2, <2>1 DEF AddrBoxes, AddrBox, Address!Undisturbed, Address!Settled
  <2>3. QED
    BY <2>1, <2>2 DEF AddrBox
<1>3. QED
  BY <1>1, <1>2 DEF Address!PortsLead

LEMMA AddrUrlsLead == AddrInv => Address!UrlsLead
<1> SUFFICES ASSUME AddrInv PROVE Address!UrlsLead
  OBVIOUS
<1> USE DEF AddrInv, AddrStore
<1>1. ASSUME NEW r \in Address!Settled, NEW b \in addresses_boxes, b.name = r.box,
             Address!Undisturbed(r), Address!Exists(r.bound)
      PROVE  Address!Resolve(b.url) = IF Address!Project(Address!Row(r.bound).of).released
               THEN Address!Refused
                                      ELSE [row |-> r.bound,
                                        database |-> Address!Row(r.bound).db]
  <2>1. PICK s \in addresses_rows : AddrBox(b, s)
    BY <1>1 DEF AddrBoxes, Address!Undisturbed
  <2>2. s = r /\ r \in addresses_rows
    BY <1>1, <2>1 DEF AddrBoxes, AddrBox, Address!Undisturbed, Address!Settled
  <2>3. PICK d \in addresses_rows : d.id = r.bound
    BY <1>1 DEF Address!Exists
  <2>4. Address!Row(r.bound) = d
    BY <2>3, AddrRowIs
  <2>5. PICK p \in addresses_projects : p.id = d.of /\ Address!Project(d.of) = p
    BY AddrHome
  <2>6. d.kind = "postgres"
    BY <2>2, <2>3 DEF AddrNames
  <2>7. b.url = Address!ConnectionString(d)
    BY <2>1, <2>2, <2>3, <2>5 DEF AddrBox, Address!ConnectionString
  <2>8. Address!Resolve(Address!ConnectionString(d)) =
          IF Address!Project(d.of).released THEN Address!Refused
            ELSE [row |-> d.id, database |-> d.db]
    BY <2>6, AddrKeysLead DEF Address!KeysLead
  <2>9. QED
    BY <2>3, <2>4, <2>7, <2>8
<1>2. ASSUME NEW m \in addresses_copy.map, NEW n \in addresses_copy.map,
             Address!Exists(m[2]), m[2] \notin {x.id : x \in addresses_copy.pending}
      PROVE  Address!Row(m[2]).bound # n[1]
  <2>1. PICK r \in addresses_rows : r.id = m[2]
    BY <1>2 DEF Address!Exists
  <2>2. Address!Row(m[2]) = r
    BY <2>1, AddrRowIs
  <2>3. r.bound = Address!None \/ addresses_copy.of < r.bound
    BY <1>2, <2>1 DEF AddrCopy, AddrMapped
  <2>4. 0 < n[1] /\ n[1] < addresses_copy.of
    BY DEF AddrCopy, AddrMapped
  <2>5. n[1] \in Nat /\ addresses_copy.of \in Nat /\ r.bound \in Nat
    BY DEF AddrCopy, AddrCopyRecord, AddrTypes, AddrRow, AddrRecord
  <2>6. QED
    BY <2>2, <2>3, <2>4, <2>5 DEF Address!None
<1>3. QED
  BY <1>1, <1>2 DEF Address!UrlsLead

\* What is deployed has a service of its name and port.
LEMMA AddrServed ==
    ASSUME NEW rs \in SUBSET AddrRow, NEW r \in rs, r.state # "undeployed"
    PROVE  \E s \in Address!Services(rs) :
              /\ s.name = r.name /\ s.port = r.ports[1]
              /\ s.database = IF r.kind = "postgres" THEN Address!NoName
                   ELSE Address!BoundService(r.bound, rs)
<1>1. r.kind \in {"postgres", "app", "worker"}
  BY DEF AddrRow, AddrRecord
<1>2. CASE r.kind = "postgres"
  <2> DEFINE s == [name |-> r.name, port |-> r.ports[1], database |-> Address!NoName]
  <2>1. s \in Address!DatabaseServices(rs)
    BY <1>2 DEF Address!DatabaseServices
  <2>2. s \in Address!Services(rs)
    BY <2>1 DEF Address!Services
  <2>3. QED
    BY <1>2, <2>2
<1>3. CASE r.kind = "app"
  <2> DEFINE s == [name |-> r.name, port |-> r.ports[1],
        database |-> Address!BoundService(r.bound, rs)]
  <2>1. s \in Address!AppServices(rs)
    BY <1>3 DEF Address!AppServices, Address!Deployed
  <2>2. s \in Address!Services(rs)
    BY <2>1 DEF Address!Services
  <2>3. QED
    BY <1>3, <2>2
<1>4. CASE r.kind = "worker"
  <2> DEFINE s == [name |-> r.name, port |-> r.ports[1],
        database |-> Address!BoundService(r.bound, rs)]
  <2>1. s \in Address!WorkerServices(rs)
    BY <1>4 DEF Address!WorkerServices, Address!Deployed
  <2>2. s \in Address!Services(rs)
    BY <2>1 DEF Address!Services
  <2>3. QED
    BY <1>4, <2>2
<1>5. QED
  BY <1>1, <1>2, <1>3, <1>4

LEMMA AddrHandoversLead == AddrStore => Address!HandoversLead
<1> SUFFICES ASSUME AddrStore, NEW p \in addresses_projects,
                    \A r \in Address!RowsOf(p.id) : r.state # "making"
             PROVE  /\ \A site \in Address!Sites(Address!RowsOf(p.id)) :
                          \E s \in Address!Services(Address!RowsOf(p.id)) : s.port = site.port
                            /\ s.name = site.host[1]
                    /\ \A r \in Address!Deployed(Address!RowsOf(p.id)) : r.kind # "postgres" =>
                          \A d \in Address!RowsOf(p.id) : d.id = r.bound =>
                             \E s, t \in Address!Services(Address!RowsOf(p.id)) :
                                 s.name = r.name /\ s.database = t.name /\ t.port = d.ports[1]
  BY DEF Address!HandoversLead
<1> USE DEF AddrStore
<1> DEFINE rs == Address!RowsOf(p.id)
<1>1. rs \in SUBSET AddrRow /\ rs \subseteq addresses_rows /\ \A r \in rs : r.of = p.id
  BY DEF Address!RowsOf, AddrTypes
<1>2. ASSUME NEW site \in Address!Sites(rs)
      PROVE  \E s \in Address!Services(rs) : s.port = site.port /\ s.name = site.host[1]
  <2>1. PICK r \in Address!Deployed(rs) :
           r.kind # "postgres" /\ site = [host |-> r.host, port |-> r.ports[1]]
    BY DEF Address!Sites
  <2>2. r \in rs /\ r.state # "undeployed" /\ r.state # "making"
    BY DEF Address!Deployed
  <2>3. r.host = Address!Hostname(p.name, r.name)
    BY <1>1, <2>1, <2>2 DEF AddrRows
  <2>4. site.host[1] = r.name /\ site.port = r.ports[1]
    BY <2>1, <2>3 DEF Address!Hostname
  <2>5. QED
    BY <1>1, <2>2, <2>4, AddrServed
<1>3. ASSUME NEW r \in Address!Deployed(rs), r.kind # "postgres", NEW d \in rs, d.id = r.bound
      PROVE  \E s, t \in Address!Services(rs) :
                s.name = r.name /\ s.database = t.name /\ t.port = d.ports[1]
  <2>1. r \in rs /\ r.state # "undeployed"
    BY DEF Address!Deployed
  <2>2. d.kind = "postgres" /\ d.state = "resting"
    BY <1>1, <1>3, <2>1 DEF AddrNames, AddrRow
  <2>3. Address!BoundService(r.bound, rs) = d.name
    <3>1. {e \in rs : e.id = r.bound /\ e.kind = "postgres"} = {d}
      BY <1>1, <1>3, <2>2 DEF AddrNames
    <3>2. QED
      BY <3>1 DEF Address!BoundService
  <2>4. PICK s \in Address!Services(rs) : s.name = r.name
               /\ s.database = Address!BoundService(r.bound, rs)
    BY <1>1, <1>3, <2>1, AddrServed
  <2>5. PICK t \in Address!Services(rs) : t.name = d.name /\ t.port = d.ports[1]
    BY <1>1, <2>2, AddrServed
  <2>6. QED
    BY <2>3, <2>4, <2>5
<1>4. QED
  BY <1>2, <1>3

LEMMA AddrLead == AddrInv => Address!AddressesLead
<1> SUFFICES ASSUME AddrInv PROVE Address!AddressesLead
  OBVIOUS
<1>1. Address!TypeOK
  <2>1. ASSUME NEW r \in addresses_rows PROVE r.id \in 1..addresses_ids
    BY DEF AddrInv, AddrStore, AddrTypes, AddrRow, AddrRecord
  <2>2. QED
    BY <2>1 DEF Address!TypeOK, AddrInv, AddrStore, AddrTypes, AddrNames, AddrBoxes
<1>2. QED
  BY <1>1, AddrKeysLead, AddrHostsLead, AddrPortsLead, AddrUrlsLead, AddrHandoversLead
     DEF Address!AddressesLead, AddrInv, AddrStore

-----------------------------------------------------------------------------
(* The store goes on.                                                      *)

LEMMA AddrInit == Address!Init => AddrInv
<1> SUFFICES ASSUME Address!Init PROVE AddrInv
  OBVIOUS
<1> USE DEF Address!Init, Address!NoCopy, Address!None
<1>1. AddrTypes
  BY FS_EmptySet DEF AddrTypes
<1>2. AddrNames /\ AddrRows /\ AddrBoxes
  BY DEF AddrNames, AddrRows, AddrBoxes
<1>3. addresses_copy \in AddrCopyRecord /\ addresses_copy.of <= addresses_ids
  BY DEF AddrCopyRecord
<1>4. AddrToCopy = {}
  BY DEF AddrToCopy
<1>5. AddrKept({}, addresses_ids + 1) /\ AddrKept({}, addresses_copy.of)
  BY DEF AddrKept
<1>6. AddrPending /\ AddrMapped
  BY DEF AddrPending, AddrMapped
<1>7. QED
  BY <1>1, <1>2, <1>3, <1>4, <1>5, <1>6 DEF AddrInv, AddrStore, AddrCopy

\* What is said of the projects, when there are others of them.
LEMMA AddrProjects ==
    ASSUME AddrStore, addresses_rows' = addresses_rows, addresses_boxes' = addresses_boxes,
           addresses_shared' = addresses_shared,
           addresses_ids' \in Nat, addresses_ids <= addresses_ids',
           addresses_projects' \subseteq [id : 1..addresses_ids', name : AddressProjectNames,
             released : BOOLEAN],
           \A p, q \in addresses_projects' : p.id = q.id \/ p.name = q.name => p = q,
           \A r \in addresses_rows : \E p \in addresses_projects' : p.id = r.of,
           \A r \in addresses_rows, p \in addresses_projects' : p.id = r.of =>
              \E q \in addresses_projects : q.id = r.of /\ q.name = p.name
    PROVE  AddrStore'
<1> USE DEF AddrStore
<1>1. AddrTypes'
  BY DEF AddrTypes, AddrRow, AddrRecord
<1>2. AddrNames'
  BY DEF AddrNames
<1>3. AddrRows'
  BY DEF AddrRows, PortsOf
<1>4. AddrBoxes'
  <2>1. ASSUME NEW b \in addresses_boxes, b.name \notin addresses_shared
               PROVE \E r \in addresses_rows : AddrBox(b, r)'
    <3>1. PICK r \in addresses_rows : AddrBox(b, r)
      BY <2>1 DEF AddrBoxes
    <3>2. AddrBox(b, r)'
      BY <3>1 DEF AddrBox
    <3>3. QED
      BY <3>2
  <2>2. QED
    BY <2>1 DEF AddrBoxes
<1>5. QED
  BY <1>1, <1>2, <1>3, <1>4

\* A project gets a new id and a new name.
LEMMA AddrProjectAdded ==
    ASSUME AddrStore, NEW n \in AddressProjectNames, \A p \in addresses_projects : p.name # n,
           addresses_ids' = addresses_ids + 1,
           addresses_projects' = addresses_projects
             \cup {[id |-> addresses_ids', name |-> n, released |-> FALSE]},
           addresses_rows' = addresses_rows, addresses_boxes' = addresses_boxes,
             addresses_shared' = addresses_shared
    PROVE  AddrStore'
<1> DEFINE new == [id |-> addresses_ids + 1, name |-> n, released |-> FALSE]
<1>1. addresses_ids \in Nat /\ addresses_ids' \in Nat /\ addresses_ids <= addresses_ids'
  BY DEF AddrStore, AddrTypes
<1>2. addresses_projects' = addresses_projects \cup {new}
  OBVIOUS
<1>3. addresses_projects' \subseteq [id : 1..addresses_ids', name : AddressProjectNames,
        released : BOOLEAN]
  <2>1. new \in [id : 1..addresses_ids', name : AddressProjectNames, released : BOOLEAN]
    BY <1>1
  <2>2. ASSUME NEW p \in addresses_projects
        PROVE  p \in [id : 1..addresses_ids', name : AddressProjectNames, released : BOOLEAN]
    <3>1. p \in [id : 1..addresses_ids, name : AddressProjectNames, released : BOOLEAN]
      BY DEF AddrStore, AddrTypes
    <3>2. QED
      BY <1>1, <3>1
  <2>3. QED
    BY <1>2, <2>1, <2>2
<1>4. \A p \in addresses_projects : p.id # new.id /\ p.name # new.name
  BY <1>1 DEF AddrStore, AddrTypes
<1>5. \A p, q \in addresses_projects' : p.id = q.id \/ p.name = q.name => p = q
  BY <1>2, <1>4 DEF AddrStore, AddrNames
<1>6. \A r \in addresses_rows : r.of # new.id
  BY <1>1 DEF AddrStore, AddrTypes, AddrRow, AddrRecord
<1>7. \A r \in addresses_rows : \E p \in addresses_projects' : p.id = r.of
  BY <1>2 DEF AddrStore, AddrNames
<1>8. \A r \in addresses_rows, p \in addresses_projects' : p.id = r.of =>
        \E q \in addresses_projects : q.id = r.of /\ q.name = p.name
  BY <1>2, <1>6
<1>9. QED
  BY <1>1, <1>3, <1>5, <1>7, <1>8, AddrProjects

\* A project is released, or is not any more.
LEMMA AddrProjectTurned ==
    ASSUME AddrStore, NEW p \in addresses_projects, NEW on \in BOOLEAN,
           addresses_projects' = (addresses_projects \ {p}) \cup {[p EXCEPT !.released = on]},
           addresses_rows' = addresses_rows, addresses_boxes' = addresses_boxes,
             addresses_shared' = addresses_shared, addresses_ids' = addresses_ids
    PROVE  AddrStore'
<1> DEFINE new == [p EXCEPT !.released = on]
<1>1. addresses_ids \in Nat
  BY DEF AddrStore, AddrTypes
<1>2. new \in [id : 1..addresses_ids, name : AddressProjectNames, released : BOOLEAN]
      /\ new.id = p.id /\ new.name = p.name
  BY DEF AddrStore, AddrTypes
<1> HIDE DEF new
<1>3. addresses_projects' = (addresses_projects \ {p}) \cup {new}
  BY DEF new
<1>4. addresses_projects' \subseteq [id : 1..addresses_ids', name : AddressProjectNames,
        released : BOOLEAN]
  BY <1>2, <1>3 DEF AddrStore, AddrTypes
<1>5. \A q, t \in addresses_projects' : q.id = t.id \/ q.name = t.name => q = t
  BY <1>2, <1>3 DEF AddrStore, AddrNames
<1>6. \A r \in addresses_rows : \E q \in addresses_projects' : q.id = r.of
  BY <1>2, <1>3 DEF AddrStore, AddrNames
<1>7. \A r \in addresses_rows, q \in addresses_projects' : q.id = r.of =>
        \E t \in addresses_projects : t.id = r.of /\ t.name = q.name
  BY <1>2, <1>3
<1>8. QED
  BY <1>1, <1>4, <1>5, <1>6, <1>7, AddrProjects

\* Rows go, with the containers of their names; and projects without rows may go too.
LEMMA AddrLoses ==
    ASSUME AddrStore, NEW D, addresses_rows' = addresses_rows \ D,
           addresses_boxes' = Address!Without(D), Address!Note, addresses_ids' = addresses_ids,
           addresses_projects' \subseteq addresses_projects,
           \A r \in addresses_rows \ D : \E p \in addresses_projects' : p.id = r.of
    PROVE  AddrStore'
<1> USE DEF AddrStore
<1>1. addresses_shared \subseteq addresses_shared' /\ addresses_boxes' \subseteq addresses_boxes
        /\ addresses_rows' \subseteq addresses_rows
  BY DEF Address!Note, Address!Without
<1>2. AddrTypes'
  BY <1>1, FS_Subset DEF AddrTypes, AddrRow, AddrRecord
<1>3. AddrNames'
  BY <1>1 DEF AddrNames
<1>4. AddrRows'
  BY <1>1 DEF AddrRows, PortsOf
<1>5. AddrBoxes'
  <2>1. \A b, c \in addresses_boxes' : b.name = c.name => b = c
    BY <1>1 DEF AddrBoxes
  <2>2. \A r \in addresses_rows' : r.state = "making" => r.box \in addresses_shared'
    BY <1>1 DEF AddrBoxes
  <2>3. \A r, s \in addresses_rows' : r # s /\ r.box = s.box => r.box \in addresses_shared'
    BY <1>1 DEF AddrBoxes
  <2>4. ASSUME NEW b \in addresses_boxes', b.name \notin addresses_shared'
               PROVE \E r \in addresses_rows' : AddrBox(b, r)'
    <3>1. PICK r \in addresses_rows : AddrBox(b, r)
      BY <1>1, <2>4 DEF AddrBoxes
    <3>2. r \in addresses_rows'
      BY <3>1 DEF AddrBox, Address!Without
    <3>3. AddrBox(b, r)'
      BY <1>1, <3>1 DEF AddrBox
    <3>4. QED
      BY <3>2, <3>3
  <2>5. QED
    BY <2>1, <2>2, <2>3, <2>4 DEF AddrBoxes
<1>6. QED
  BY <1>2, <1>3, <1>4, <1>5

\* The url that a container gets is that of the database its row is bound to.
LEMMA AddrUrl ==
    ASSUME AddrStore, NEW bound, NEW d \in addresses_rows, d.id = bound, d.kind = "postgres",
           NEW p \in addresses_projects, p.id = d.of
    PROVE  Address!UrlOf(bound) = Address!KeyFor(p.name, d.name)
<1>1. Address!Row(bound) = d /\ Address!Exists(bound)
  BY AddrRowIs DEF AddrStore
<1>2. Address!Project(d.of) = p
  BY AddrProject DEF AddrStore
<1>3. QED
  BY <1>1, <1>2 DEF Address!UrlOf

\* What a container says of its row goes on being so: rows of other ids come, and a row
\* that is written again keeps what others say of it.
AddrSays(old, new) ==
    \A d \in new : \A r \in old :
       d.id = r.bound => \E e \in old : e.id = d.id /\ e.of = d.of /\ e.name = d.name

LEMMA AddrBoxOn ==
    ASSUME AddrStore, addresses_projects' = addresses_projects,
           AddrSays(addresses_rows, addresses_rows'),
           NEW b, NEW r \in addresses_rows, AddrBox(b, r)
    PROVE  AddrBox(b, r)'
<1>1. ASSUME NEW d \in addresses_rows', NEW p \in addresses_projects,
             d.id = r.bound, p.id = d.of
      PROVE  b.url = Address!KeyFor(p.name, d.name)
  <2>1. PICK e \in addresses_rows : e.id = d.id /\ e.of = d.of /\ e.name = d.name
    BY <1>1 DEF AddrSays
  <2>2. QED
    BY <1>1, <2>1 DEF AddrBox
<1>2. QED
  BY <1>1 DEF AddrBox

\* A container that is made for a row.
LEMMA AddrBoxMade ==
    ASSUME AddrStore, addresses_projects' = addresses_projects, NEW r, r.state # "making",
           \A d \in addresses_rows' : d.id = r.bound => \E e \in addresses_rows :
              e.id = d.id /\ e.of = d.of /\ e.name = d.name /\ e.kind = "postgres",
           NEW b, b = Address!BoxFor(r)
    PROVE  AddrBox(b, r)'
<1>1. b.name = r.box /\ b.of = r.id /\ b.net = r.of /\ b.ports = r.ports
        /\ b.url = Address!UrlOf(r.bound)
  BY DEF Address!BoxFor
<1>2. ASSUME NEW d \in addresses_rows', NEW p \in addresses_projects,
             d.id = r.bound, p.id = d.of
      PROVE  b.url = Address!KeyFor(p.name, d.name)
  <2>1. PICK e \in addresses_rows : e.id = d.id /\ e.of = d.of /\ e.name = d.name
               /\ e.kind = "postgres"
    BY <1>2
  <2>2. Address!UrlOf(r.bound) = Address!KeyFor(p.name, e.name)
    BY <1>2, <2>1, AddrUrl
  <2>3. QED
    BY <1>1, <2>1, <2>2
<1>3. QED
  BY <1>1, <1>2 DEF AddrBox

\* A row comes, of a project that has none of its name.
LEMMA AddrAdds ==
    ASSUME AddrStore, NEW p \in addresses_projects, NEW r \in AddrRow,
           r.id = addresses_ids + 1, r.of = p.id, Address!Named(p.id, r.name) = {},
             r.bound <= addresses_ids,
           \A d \in addresses_rows : d.id = r.bound => d.kind = "postgres",
           r.state # "making" =>
              /\ r.box = Address!BoxName(p.name, r.name) /\ r.token = r.id
              /\ r.kind # "postgres" => r.host = Address!Hostname(p.name, r.name)
              /\ PortsOf(r) \cap Address!Taken = {},
           addresses_ids' = addresses_ids + 1, addresses_rows' = addresses_rows \cup {r},
             addresses_projects' = addresses_projects,
           addresses_boxes' = addresses_boxes
             \/ (r.state # "making" /\ addresses_boxes' = Address!WithBox(r)), Address!Note
    PROVE  AddrStore'
<1> USE DEF AddrStore
<1>1. addresses_ids \in Nat /\ r.id \in Nat /\ r.of \in Nat /\ r.bound \in Nat /\ r.of < r.id
  BY DEF AddrTypes, AddrRow, AddrRecord
<1>2. \A s \in addresses_rows : s.id \in Nat /\ s.of \in Nat /\ s.bound \in Nat
        /\ s.id <= addresses_ids /\ s.bound <= addresses_ids
  BY DEF AddrTypes, AddrRow, AddrRecord
<1>3. \A s \in addresses_rows : s.id # r.id /\ s.bound # r.id /\ s # r
  BY <1>1, <1>2
<1>4. AddrTypes'
  <2>1. IsFiniteSet(addresses_rows')
    BY FS_AddElement DEF AddrTypes
  <2>2. addresses_ids' \in Nat
    BY <1>1
  <2>3. addresses_projects' \subseteq [id : 1..addresses_ids', name : AddressProjectNames,
          released : BOOLEAN]
    <3>1. ASSUME NEW q \in addresses_projects
          PROVE  q \in [id : 1..addresses_ids', name : AddressProjectNames, released : BOOLEAN]
      <4>1. q \in [id : 1..addresses_ids, name : AddressProjectNames, released : BOOLEAN]
        BY DEF AddrTypes
      <4>2. QED
        BY <1>1, <4>1
    <3>2. QED
      BY <3>1
  <2>4. \A s \in addresses_rows' : s.of < s.id /\ s.id <= addresses_ids'
          /\ s.bound <= addresses_ids'
    BY <1>1, <1>2 DEF AddrTypes
  <2>5. addresses_rows' \subseteq AddrRow
    BY DEF AddrTypes
  <2>6. QED
    BY <2>1, <2>2, <2>3, <2>4, <2>5 DEF AddrTypes, AddrRow, AddrRecord
<1>5. AddrNames'
  <2>1. \A s \in addresses_rows' : \E q \in addresses_projects' : q.id = s.of
    BY DEF AddrNames
  <2>2. \A s \in addresses_rows : ~(s.of = r.of /\ s.name = r.name)
    BY DEF Address!Named, Address!RowsOf
  <2>3. \A s, t \in addresses_rows' : s.id = t.id \/ (s.of = t.of /\ s.name = t.name) => s = t
    BY <1>3, <2>2 DEF AddrNames
  <2>4. \A s, d \in addresses_rows' : d.id = s.bound => d.kind = "postgres"
    <3>1. r.id # r.bound
      BY <1>1
    <3>2. QED
      BY <1>3, <3>1 DEF AddrNames
  <2>5. QED
    BY <2>1, <2>3, <2>4 DEF AddrNames
<1>6. AddrRows'
  <2>1. \A s \in addresses_rows', q \in addresses_projects : s.state # "making"
          /\ q.id = s.of =>
          /\ s.box = Address!BoxName(q.name, s.name) /\ s.token = s.id
          /\ s.kind # "postgres" => s.host = Address!Hostname(q.name, s.name)
    <3>1. \A q \in addresses_projects : q.id = r.of => q = p
      BY DEF AddrNames
    <3>2. QED
      BY <3>1 DEF AddrRows
  <2>2. \A s \in addresses_rows : PortsOf(s) \subseteq Address!Taken
    BY DEF PortsOf, Address!Taken
  <2>3. \A s, t \in addresses_rows' : s.state # "making" /\ t.state # "making" /\ s # t =>
          PortsOf(s) \cap PortsOf(t) = {}
    <3>1. ASSUME NEW s \in addresses_rows, r.state # "making"
          PROVE  PortsOf(s) \cap PortsOf(r) = {} /\ PortsOf(r) \cap PortsOf(s) = {}
      BY <2>2, <3>1
    <3>2. QED
      BY <3>1 DEF AddrRows
  <2>4. QED
    BY <2>1, <2>3 DEF AddrRows, PortsOf
<1>7. AddrSays(addresses_rows, addresses_rows')
  BY <1>3 DEF AddrSays
<1>8. addresses_shared \subseteq addresses_shared'
  BY DEF Address!Note
<1>9. \A s \in addresses_rows' : s.state = "making" => s.box \in addresses_shared'
  BY DEF Address!Note
<1>10. \A s, t \in addresses_rows' : s # t /\ s.box = t.box => s.box \in addresses_shared'
  BY DEF Address!Note
<1>11. ASSUME NEW b \in addresses_boxes, b.name \notin addresses_shared'
              PROVE \E s \in addresses_rows' : AddrBox(b, s)'
  <2>1. PICK s \in addresses_rows : AddrBox(b, s)
    BY <1>8, <1>11 DEF AddrBoxes
  <2>2. AddrBox(b, s)'
    BY <1>7, <2>1, AddrBoxOn
  <2>3. QED
    BY <2>2
<1>12. CASE addresses_boxes' = addresses_boxes
  <2>1. AddrBoxes'
    BY <1>9, <1>10, <1>11, <1>12 DEF AddrBoxes
  <2>2. QED
    BY <1>4, <1>5, <1>6, <2>1
<1>13. CASE r.state # "making" /\ addresses_boxes' = addresses_boxes \cup {Address!BoxFor(r)}
              /\ \A b \in addresses_boxes : b.name # r.box
  <2>1. Address!BoxFor(r).name = r.box
    BY DEF Address!BoxFor
  <2>2. \A b, c \in addresses_boxes' : b.name = c.name => b = c
    BY <1>13, <2>1 DEF AddrBoxes
  <2>3. \A d \in addresses_rows' : d.id = r.bound => \E e \in addresses_rows :
          e.id = d.id /\ e.of = d.of /\ e.name = d.name /\ e.kind = "postgres"
    BY <1>1
  <2>4. PICK c : c = Address!BoxFor(r)
    OBVIOUS
  <2>5. AddrBox(c, r)'
    <3>1. r.state # "making"
      BY <1>13
    <3> HIDE DEF AddrStore
    <3>2. QED
      BY <2>3, <2>4, <3>1, AddrBoxMade
  <2>6. addresses_boxes' = addresses_boxes \cup {c}
    BY <1>13, <2>4
  <2>7. AddrBoxes'
    BY <1>9, <1>10, <1>11, <2>2, <2>5, <2>6 DEF AddrBoxes
  <2>8. QED
    BY <1>4, <1>5, <1>6, <2>7
<1>14. QED
  BY <1>12, <1>13 DEF Address!WithBox

\* A row is written again.
LEMMA AddrWrites ==
    ASSUME AddrStore, NEW r \in addresses_rows, NEW t \in AddrRow,
           t.id = r.id, t.of = r.of, t.name = r.name, r.kind = "postgres"
             => t.kind = "postgres",
           t.bound <= addresses_ids, \A d \in addresses_rows : d.id = t.bound
             => d.kind = "postgres",
           addresses_ids' = addresses_ids, addresses_rows' = (addresses_rows \ {r}) \cup {t},
             addresses_projects' = addresses_projects
    PROVE  AddrTypes' /\ AddrNames' /\ AddrSays(addresses_rows, addresses_rows')
<1> USE DEF AddrStore
<1>1. AddrTypes'
  <2>1. IsFiniteSet(addresses_rows \ {r})
    BY FS_RemoveElement DEF AddrTypes
  <2>2. IsFiniteSet(addresses_rows')
    BY <2>1, FS_AddElement
  <2>3. addresses_rows' \subseteq AddrRow
    BY DEF AddrTypes
  <2>4. \A s \in addresses_rows' : s.of < s.id /\ s.id <= addresses_ids'
          /\ s.bound <= addresses_ids'
    BY DEF AddrTypes
  <2>5. QED
    BY <2>2, <2>3, <2>4 DEF AddrTypes, AddrRow, AddrRecord
<1>2. AddrNames'
  <2>1. \A s \in addresses_rows' : \E q \in addresses_projects' : q.id = s.of
    BY DEF AddrNames
  <2>2. \A s \in addresses_rows \ {r} : s.id # t.id /\ ~(s.of = t.of /\ s.name = t.name)
    BY DEF AddrNames
  <2>3. \A s, u \in addresses_rows' : s.id = u.id \/ (s.of = u.of /\ s.name = u.name) => s = u
    BY <2>2 DEF AddrNames
  <2>4. ASSUME NEW s \in addresses_rows', NEW d \in addresses_rows', d.id = s.bound
               PROVE d.kind = "postgres"
    <3>1. PICK e \in addresses_rows : e.id = d.id
                 /\ (e.kind = "postgres" => d.kind = "postgres")
      OBVIOUS
    <3>2. e.kind = "postgres"
      BY <2>4, <3>1 DEF AddrNames
    <3>3. QED
      BY <3>1, <3>2
  <2>5. QED
    BY <2>1, <2>3, <2>4 DEF AddrNames
<1>3. AddrSays(addresses_rows, addresses_rows')
  BY DEF AddrSays
<1>4. QED
  BY <1>1, <1>2, <1>3

\* What a deployment writes.
AddrTo(r, bound) ==
    [r EXCEPT !.bound = bound, !.state = IF r.state = "making" THEN @ ELSE "resting"]

LEMMA AddrDeployed ==
    ASSUME NEW r \in AddrRow, r.kind # "postgres", NEW bound \in Nat, NEW t,
           t = AddrTo(r, bound)
    PROVE  /\ t \in AddrRow /\ t.id = r.id /\ t.of = r.of /\ t.kind = r.kind /\ t.name = r.name
           /\ t.ports = r.ports /\ t.box = r.box /\ t.host = r.host /\ t.token = r.token
           /\ t.bound = bound /\ (t.state = "making" <=> r.state = "making")
<1> DEFINE u == [r EXCEPT !.bound = bound]
           state == IF r.state = "making" THEN "making" ELSE "resting"
<1>1. /\ r \in AddrRecord /\ r.db = Address!NoName
  BY DEF AddrRow
<1>2. /\ u \in AddrRecord /\ u.id = r.id /\ u.of = r.of /\ u.kind = r.kind /\ u.name = r.name
      /\ u.ports = r.ports /\ u.box = r.box /\ u.host = r.host /\ u.token = r.token
      /\ u.db = r.db /\ u.bound = bound
  BY <1>1 DEF AddrRecord
<1>3. t = [u EXCEPT !.state = state]
  BY <1>1 DEF AddrTo, AddrRecord
<1>4. state \in {"making", "resting", "undeployed"} /\ (state = "making" <=> r.state = "making")
  OBVIOUS
<1> HIDE DEF u, state
<1>5. /\ t \in AddrRecord /\ t.id = u.id /\ t.of = u.of /\ t.kind = u.kind /\ t.name = u.name
      /\ t.ports = u.ports /\ t.box = u.box /\ t.host = u.host /\ t.token = u.token
      /\ t.db = u.db /\ t.bound = u.bound /\ t.state = state
  BY <1>2, <1>3, <1>4 DEF AddrRecord
<1>6. t \in AddrRow
  BY <1>1, <1>2, <1>5 DEF AddrRow
<1>7. QED
  BY <1>2, <1>4, <1>5, <1>6

LEMMA AddrDeploys ==
    ASSUME AddrStore, NEW r \in addresses_rows,
           NEW bound \in {r.bound, Address!None} \cup {d.id : d \in Address!Databases(r.of)},
             Address!Deploy(r, bound)
    PROVE  AddrStore'
<1> USE DEF AddrStore
<1>1. r \in AddrRow /\ addresses_ids \in Nat /\ r.bound \in Nat /\ r.bound <= addresses_ids
  BY DEF AddrTypes, AddrRow, AddrRecord
<1>2. \A d \in addresses_rows : d.id \in Nat /\ 0 < d.id /\ d.id <= addresses_ids
  BY DEF AddrTypes, AddrRow, AddrRecord
<1>3. bound \in Nat /\ bound <= addresses_ids
  BY <1>1, <1>2 DEF Address!None, Address!Databases, Address!RowsOf
<1>4. \A d \in addresses_rows : d.id = bound => d.kind = "postgres"
  <2>1. CASE bound = r.bound
    BY <2>1 DEF AddrNames
  <2>2. CASE bound = Address!None
    BY <1>2, <2>2 DEF Address!None
  <2>3. CASE \E d \in Address!Databases(r.of) : bound = d.id
    BY <2>3 DEF Address!Databases, Address!RowsOf, AddrNames
  <2>4. QED
    BY <2>1, <2>2, <2>3
<1>5. PICK t : t = AddrTo(r, bound)
  OBVIOUS
<1>6. /\ r.kind # "postgres" /\ addresses_rows' = (addresses_rows \ {r}) \cup {t}
      /\ addresses_boxes' = Address!Without({r}) \cup {Address!BoxFor(t)}
      /\ Address!Note /\ addresses_projects' = addresses_projects
           /\ addresses_ids' = addresses_ids
  BY <1>5 DEF Address!Deploy, AddrTo
<1>7. /\ t \in AddrRow /\ t.id = r.id /\ t.of = r.of /\ t.kind = r.kind /\ t.name = r.name
      /\ t.ports = r.ports /\ t.box = r.box /\ t.host = r.host /\ t.token = r.token
      /\ t.bound = bound /\ (t.state = "making" <=> r.state = "making")
  BY <1>1, <1>3, <1>5, <1>6, AddrDeployed
<1>8. AddrTypes' /\ AddrNames' /\ AddrSays(addresses_rows, addresses_rows')
  <2>1. t.bound <= addresses_ids /\ \A d \in addresses_rows : d.id = t.bound
          => d.kind = "postgres"
    BY <1>3, <1>4, <1>7
  <2>2. QED
    BY <1>6, <1>7, <2>1, AddrWrites
<1>9. AddrRows'
  <2>1. \A s \in addresses_rows', q \in addresses_projects : s.state # "making"
          /\ q.id = s.of =>
          /\ s.box = Address!BoxName(q.name, s.name) /\ s.token = s.id
          /\ s.kind # "postgres" => s.host = Address!Hostname(q.name, s.name)
    BY <1>6, <1>7 DEF AddrRows
  <2>2. PortsOf(t) = PortsOf(r)
    BY <1>7 DEF PortsOf
  <2>3. \A s, u \in addresses_rows' : s.state # "making" /\ u.state # "making" /\ s # u =>
          PortsOf(s) \cap PortsOf(u) = {}
    BY <1>6, <1>7, <2>2 DEF AddrRows
  <2>4. QED
    BY <1>6, <2>1, <2>3 DEF AddrRows, PortsOf
<1>10. PICK c : c = Address!BoxFor(t)
  OBVIOUS
<1>11. c.name = r.box /\ addresses_boxes' = Address!Without({r}) \cup {c}
  BY <1>6, <1>7, <1>10 DEF Address!BoxFor
<1>12. AddrBoxes'
  <2>1. \A b, d \in addresses_boxes' : b.name = d.name => b = d
    BY <1>11 DEF AddrBoxes, Address!Without
  <2>2. \A s \in addresses_rows' : s.state = "making" => s.box \in addresses_shared'
    BY <1>6 DEF Address!Note
  <2>3. \A s, u \in addresses_rows' : s # u /\ s.box = u.box => s.box \in addresses_shared'
    BY <1>6 DEF Address!Note
  <2>4. ASSUME NEW b \in addresses_boxes, b.name # r.box, b.name \notin addresses_shared'
        PROVE  \E s \in addresses_rows' : AddrBox(b, s)'
    <3>1. PICK s \in addresses_rows : AddrBox(b, s)
      BY <1>6, <2>4 DEF AddrBoxes, Address!Note
    <3>2. s \in addresses_rows'
      BY <1>6, <2>4, <3>1 DEF AddrBox
    <3>3. AddrBox(b, s)'
      BY <1>6, <1>8, <3>1, AddrBoxOn
    <3>4. QED
      BY <3>2, <3>3
  <2>5. ASSUME c.name \notin addresses_shared' PROVE t \in addresses_rows' /\ AddrBox(c, t)'
    <3>1. t \in addresses_rows' /\ t.state # "making"
      BY <1>6, <1>7, <1>11, <2>2, <2>5
    <3>2. \A d \in addresses_rows' : d.id = t.bound => \E e \in addresses_rows :
             e.id = d.id /\ e.of = d.of /\ e.name = d.name /\ e.kind = "postgres"
      BY <1>4, <1>6, <1>7
    <3> HIDE DEF AddrStore
    <3>3. AddrBox(c, t)'
      BY <1>6, <1>10, <3>1, <3>2, AddrBoxMade
    <3>4. QED
      BY <3>1, <3>3
  <2>6. ASSUME NEW b \in addresses_boxes', b.name \notin addresses_shared'
               PROVE \E s \in addresses_rows' : AddrBox(b, s)'
    <3>1. CASE b = c
      BY <2>5, <2>6, <3>1
    <3>2. CASE b # c
      <4>1. b \in addresses_boxes /\ b.name # r.box
        BY <1>11, <3>2 DEF Address!Without
      <4>2. QED
        BY <2>4, <2>6, <4>1
    <3>3. QED
      BY <3>1, <3>2
  <2>7. QED
    BY <2>1, <2>2, <2>3, <2>6 DEF AddrBoxes
<1>13. QED
  BY <1>8, <1>9, <1>12

LEMMA AddrStarts ==
    ASSUME AddrStore, NEW r \in addresses_rows, Address!Start(r)
    PROVE  AddrStore'
<1> USE DEF AddrStore
<1>1. /\ addresses_rows' = addresses_rows /\ addresses_projects' = addresses_projects
           /\ addresses_ids' = addresses_ids /\ addresses_shared' = addresses_shared
      /\ addresses_boxes' = addresses_boxes
           \/ (addresses_boxes' = addresses_boxes \cup {Address!BoxFor(r)}
                /\ \A b \in addresses_boxes : b.name # r.box)
  BY DEF Address!Start, Address!WithBox
<1>2. AddrTypes' /\ AddrNames' /\ AddrRows'
  BY <1>1 DEF AddrTypes, AddrNames, AddrRows, PortsOf, AddrRow, AddrRecord
<1>3. ASSUME NEW b \in addresses_boxes, b.name \notin addresses_shared
             PROVE \E s \in addresses_rows : AddrBox(b, s)'
  <2>1. PICK s \in addresses_rows : AddrBox(b, s)
    BY <1>3 DEF AddrBoxes
  <2>2. AddrSays(addresses_rows, addresses_rows')
    BY <1>1 DEF AddrSays
  <2>3. AddrBox(b, s)'
    BY <1>1, <2>1, <2>2, AddrBoxOn
  <2>4. QED
    BY <2>3
<1>4. CASE addresses_boxes' = addresses_boxes
  <2>1. AddrBoxes'
    BY <1>1, <1>3, <1>4 DEF AddrBoxes
  <2>2. QED
    BY <1>2, <2>1
<1>5. CASE addresses_boxes' = addresses_boxes \cup {Address!BoxFor(r)}
             /\ \A b \in addresses_boxes : b.name # r.box
  <2>1. PICK c : c = Address!BoxFor(r)
    OBVIOUS
  <2>2. c.name = r.box /\ addresses_boxes' = addresses_boxes \cup {c}
    BY <1>5, <2>1 DEF Address!BoxFor
  <2>3. ASSUME r.box \notin addresses_shared PROVE AddrBox(c, r)'
    <3>1. r.state # "making"
      BY <2>3 DEF AddrBoxes
    <3>2. \A d \in addresses_rows' : d.id = r.bound => \E e \in addresses_rows :
             e.id = d.id /\ e.of = d.of /\ e.name = d.name /\ e.kind = "postgres"
      BY <1>1 DEF AddrNames
    <3> HIDE DEF AddrStore
    <3>3. QED
      BY <1>1, <2>1, <3>1, <3>2, AddrBoxMade
  <2>4. AddrBoxes'
    BY <1>1, <1>3, <1>5, <2>2, <2>3 DEF AddrBoxes
  <2>5. QED
    BY <1>2, <2>4
<1>6. QED
  BY <1>1, <1>4, <1>5

\* What the second pass writes.
LEMMA AddrRewritten ==
    ASSUME NEW e \in AddrRow, e.kind # "postgres", NEW r, r.id \in Nat,
           addresses_copy.of \in Nat,
           NEW ps \in Seq(AddressPorts) \ {<<>>}, ps = Address!FreePorts(e.kind),
           NEW called \in Seq(STRING), called = Address!BoxName(Address!Target.name, e.name),
           NEW host \in Seq(Seq(STRING)), host = Address!Hostname(Address!Target.name, e.name),
           NEW bound \in Nat,
           bound = (IF e.bound = Address!None THEN Address!None
             ELSE CHOOSE m \in Address!Mapped(e.bound) : TRUE)
    PROVE  /\ Address!Rewritten(e, r) \in AddrRow
           /\ Address!Rewritten(e, r).id = r.id
                /\ Address!Rewritten(e, r).of = addresses_copy.of
           /\ Address!Rewritten(e, r).kind = e.kind /\ Address!Rewritten(e, r).name = e.name
           /\ Address!Rewritten(e, r).ports = ps /\ Address!Rewritten(e, r).box = called
           /\ Address!Rewritten(e, r).host = host /\ Address!Rewritten(e, r).token = r.id
           /\ Address!Rewritten(e, r).bound = bound
<1> DEFINE state == IF e.state = "undeployed" THEN e.state ELSE "resting"
           t == [e EXCEPT !.id = r.id, !.of = addresses_copy.of, !.box = called, !.ports = ps,
             !.host = host,
                          !.token = r.id, !.bound = bound, !.state = state]
<1>1. Address!Rewritten(e, r) = t
  BY DEF Address!Rewritten
<1>2. e \in AddrRecord /\ e.db = Address!NoName
  BY DEF AddrRow
<1>3. state \in {"making", "resting", "undeployed"}
  OBVIOUS
<1> HIDE DEF state
<1>4. /\ t.id = r.id /\ t.of = addresses_copy.of /\ t.kind = e.kind /\ t.name = e.name
      /\ t.ports = ps /\ t.box = called /\ t.host = host /\ t.bound = bound
      /\ t.db = e.db /\ t.token = r.id /\ t.state = state
  BY <1>2 DEF AddrRecord
<1>5. t \in AddrRecord
  BY <1>2, <1>3 DEF AddrRecord
<1>6. t \in AddrRow
  BY <1>2, <1>4, <1>5 DEF AddrRow
<1>7. QED
  BY <1>1, <1>4, <1>6

LEMMA AddrNewRow ==
    ASSUME AddrStore, NEW kind \in {"postgres", "app", "worker"}, NEW p \in addresses_projects,
           NEW n \in AddrWords, NEW bound \in Nat, NEW db \in AddrWords \cup {Address!NoName},
           NEW state \in {"making", "resting", "undeployed"},
           IF kind = "postgres" THEN state = "resting" ELSE db = Address!NoName,
           Address!Enough(kind), NEW r, r = Address!NewRow(kind, p, n, bound, db, state)
    PROVE  /\ r \in AddrRow /\ r.id = addresses_ids + 1 /\ r.of = p.id /\ r.kind = kind
                /\ r.name = n
           /\ r.bound = bound /\ r.state = state /\ r.token = r.id
           /\ r.box = Address!BoxName(p.name, r.name)
           /\ r.kind # "postgres" => r.host = Address!Hostname(p.name, r.name)
           /\ PortsOf(r) \cap Address!Taken = {}
<1>1. addresses_ids \in Nat /\ p.id \in Nat /\ p.name \in AddrWords
  BY AddressShape DEF AddrStore, AddrTypes, AddrWords, Address!NoName
<1>2. PICK ps : ps = Address!FreePorts(kind)
  OBVIOUS
<1>3. ps \in Seq(AddressPorts) \ {<<>>} /\ {ps[i] : i \in DOMAIN ps} \cap Address!Taken = {}
  BY <1>2, AddrPorts
<1>4. PICK called : called = Address!BoxName(p.name, n)
  OBVIOUS
<1>5. called \in Seq(STRING)
  <2>1. p.name \in Seq(STRING) /\ n \in Seq(STRING)
    BY <1>1 DEF AddrWords
  <2>2. QED
    BY <1>4, <2>1 DEF Address!BoxName
<1>6. PICK host : host = IF kind = "postgres" THEN Address!NoName
             ELSE Address!Hostname(p.name, n)
  OBVIOUS
<1>7. host \in Seq(Seq(STRING))
  <2>1. p.name \in Seq(STRING) /\ n \in Seq(STRING)
    BY <1>1 DEF AddrWords
  <2>2. Address!NoName \in Seq(Seq(STRING)) /\ Address!Hostname(p.name, n) \in Seq(Seq(STRING))
    BY <2>1 DEF Address!NoName, Address!Hostname
  <2>3. QED
    BY <1>6, <2>2
<1>8. r = [id |-> addresses_ids + 1, of |-> p.id, kind |-> kind, name |-> n, ports |-> ps,
        box |-> called,
           host |-> host, bound |-> bound, db |-> db, token |-> addresses_ids + 1,
             state |-> state]
  BY <1>2, <1>4, <1>6 DEF Address!NewRow
<1>9. r \in AddrRecord
  BY <1>1, <1>3, <1>5, <1>7, <1>8 DEF AddrRecord
<1>10. r \in AddrRow
  BY <1>8, <1>9 DEF AddrRow
<1>11. PortsOf(r) \cap Address!Taken = {}
  BY <1>3, <1>8 DEF PortsOf
<1>12. r.kind # "postgres" => r.host = Address!Hostname(p.name, r.name)
  BY <1>6, <1>8
<1>13. QED
  BY <1>4, <1>8, <1>10, <1>11, <1>12

LEMMA AddrCreatesDatabase ==
    ASSUME AddrStore, NEW p \in addresses_projects, NEW n \in AddressDatabaseNames,
           Address!CreateDatabase(p, n)
    PROVE  AddrStore'
<1>1. PICK r : r = Address!NewRow("postgres", p, n, Address!None, p.name, "resting")
  OBVIOUS
<1>2. /\ Address!Named(p.id, n) = {} /\ Address!Enough("postgres")
           /\ addresses_ids' = addresses_ids + 1
      /\ addresses_rows' = addresses_rows \cup {r} /\ addresses_boxes' = Address!WithBox(r)
           /\ Address!Note /\ addresses_projects' = addresses_projects
  BY <1>1 DEF Address!CreateDatabase
<1>3. n \in AddrWords /\ p.name \in AddrWords /\ addresses_ids \in Nat
  BY AddressShape DEF AddrStore, AddrTypes, AddrWords, Address!NoName
<1>4. /\ r \in AddrRow /\ r.id = addresses_ids + 1 /\ r.of = p.id /\ r.kind = "postgres"
           /\ r.name = n
      /\ r.bound = Address!None /\ r.state = "resting" /\ r.token = r.id
      /\ r.box = Address!BoxName(p.name, r.name) /\ PortsOf(r) \cap Address!Taken = {}
  <2>1. Address!None \in Nat
    BY DEF Address!None
  <2>2. QED
    BY <1>1, <1>2, <1>3, <2>1, AddrNewRow
<1>5. r.bound <= addresses_ids /\ \A d \in addresses_rows : d.id = r.bound
        => d.kind = "postgres"
  BY <1>3, <1>4 DEF Address!None, AddrStore, AddrTypes, AddrRow, AddrRecord
<1>6. QED
  BY <1>2, <1>4, <1>5, AddrAdds

LEMMA AddrCreatesCompute ==
    ASSUME AddrStore, NEW p \in addresses_projects, NEW kind \in {"app", "worker"},
           NEW n \in AddressComputeNames,
           NEW b \in {Address!None}
             \cup {r.id : r \in {r \in addresses_rows : r.kind = "postgres"}},
           Address!CreateCompute(p, kind, n, b)
    PROVE  AddrStore'
<1>1. PICK r : r = Address!NewRow(kind, p, n, b, Address!NoName, "undeployed")
  OBVIOUS
<1>2. /\ Address!Named(p.id, n) = {} /\ Address!Enough(kind)
           /\ addresses_ids' = addresses_ids + 1
      /\ addresses_rows' = addresses_rows \cup {r} /\ addresses_boxes' = addresses_boxes
           /\ Address!Note /\ addresses_projects' = addresses_projects
  BY <1>1 DEF Address!CreateCompute
<1>3. n \in AddrWords /\ addresses_ids \in Nat
  BY AddressShape DEF AddrStore, AddrTypes, AddrWords, Address!NoName
<1>4. b \in Nat /\ b <= addresses_ids /\ \A d \in addresses_rows : d.id = b
        => d.kind = "postgres"
  <2>1. CASE b = Address!None
    BY <1>3, <2>1 DEF Address!None, AddrStore, AddrTypes, AddrRow, AddrRecord
  <2>2. CASE b # Address!None
    <3>1. PICK d \in addresses_rows : d.id = b /\ d.kind = "postgres"
      BY <2>2
    <3>2. QED
      BY <3>1 DEF AddrStore, AddrTypes, AddrNames, AddrRow, AddrRecord
  <2>3. QED
    BY <2>1, <2>2
<1>5. /\ r \in AddrRow /\ r.id = addresses_ids + 1 /\ r.of = p.id /\ r.kind = kind /\ r.name = n
      /\ r.bound = b /\ r.token = r.id
      /\ r.box = Address!BoxName(p.name, r.name) /\ PortsOf(r) \cap Address!Taken = {}
      /\ r.host = Address!Hostname(p.name, r.name)
  BY <1>1, <1>2, <1>3, <1>4, AddrNewRow
<1>6. QED
  BY <1>2, <1>4, <1>5, AddrAdds

\* The store keeps to the invariant in every step but a copy's.
LEMMA AddrRemoves ==
    ASSUME AddrStore, NEW r \in addresses_rows, Address!Remove(r)
    PROVE  AddrStore'
<1>1. /\ addresses_rows' = addresses_rows \ {r} /\ addresses_boxes' = Address!Without({r})
           /\ Address!Note
      /\ addresses_projects' = addresses_projects /\ addresses_ids' = addresses_ids
  BY DEF Address!Remove
<1>2. \A s \in addresses_rows \ {r} : \E p \in addresses_projects' : p.id = s.of
  BY <1>1 DEF AddrStore, AddrNames
<1>3. QED
  BY <1>1, <1>2, AddrLoses

LEMMA AddrProjectGoes ==
    ASSUME AddrStore, NEW p \in addresses_projects,
           addresses_projects' = addresses_projects \ {p},
           addresses_rows' = addresses_rows \ Address!RowsOf(p.id),
             addresses_boxes' = Address!Without(Address!RowsOf(p.id)), Address!Note,
               addresses_ids' = addresses_ids
    PROVE  AddrStore'
<1>1. \A s \in addresses_rows \ Address!RowsOf(p.id) : \E q \in addresses_projects' : q.id
        = s.of
  <2>1. SUFFICES ASSUME NEW s \in addresses_rows \ Address!RowsOf(p.id)
                        PROVE \E q \in addresses_projects' : q.id = s.of
    OBVIOUS
  <2>2. PICK q \in addresses_projects : q.id = s.of
    BY DEF AddrStore, AddrNames
  <2>3. q # p
    BY <2>2 DEF Address!RowsOf
  <2>4. QED
    BY <2>2, <2>3
<1>2. QED
  BY <1>1, AddrLoses

-----------------------------------------------------------------------------
(* The copy, and what the others do meanwhile.                             *)

\* Rows of old ids are what they were, to whoever has noted them.
AddrStays(old, new) ==
    \A d \in new : addresses_ids < d.id \/ \E s \in old :
       s.id = d.id /\ (s.kind = "postgres" => d.kind = "postgres")

LEMMA AddrKeptOn ==
    ASSUME NEW S, NEW n, AddrKept(S, n), n \in Nat, n <= addresses_ids + 1,
           addresses_ids \in Nat,
           NEW T \in SUBSET S, NEW m \in Nat, n <= m, AddrStays(addresses_rows, addresses_rows')
    PROVE  AddrKept(T, m)'
<1>1. T \subseteq AddrRow /\ \A e \in T : e.id \in Nat /\ e.bound \in Nat
  BY DEF AddrKept, AddrRow, AddrRecord
<1>2. \A e \in T : 0 < e.id /\ e.id < m /\ e.bound < m
  BY <1>1 DEF AddrKept
<1>3. ASSUME NEW e \in T, NEW f \in T \cup addresses_rows', f.id = e.bound
             PROVE f.kind = "postgres"
  <2>1. CASE f \in T
    BY <1>3, <2>1 DEF AddrKept
  <2>2. CASE f \in addresses_rows'
    <3>1. ~(addresses_ids < f.id)
      BY <1>1, <1>3 DEF AddrKept
    <3>2. PICK s \in addresses_rows : s.id = f.id
                 /\ (s.kind = "postgres" => f.kind = "postgres")
      BY <2>2, <3>1 DEF AddrStays
    <3>3. QED
      BY <1>3, <3>2 DEF AddrKept
  <2>3. QED
    BY <2>1, <2>2
<1>4. AddrRow' = AddrRow
  BY DEF AddrRow, AddrRecord
<1>5. QED
  BY <1>1, <1>2, <1>3, <1>4 DEF AddrKept

\* The rows of a project, kept.
LEMMA AddrKeeps ==
    ASSUME AddrStore, NEW S \in SUBSET addresses_rows, addresses_rows' = addresses_rows
    PROVE  AddrKept(S, addresses_ids + 1) /\ AddrStays(addresses_rows, addresses_rows')
<1>1. S \subseteq AddrRow /\ addresses_ids \in Nat
  BY DEF AddrStore, AddrTypes
<1>2. \A e \in S : 0 < e.id /\ e.id < addresses_ids + 1 /\ e.bound < addresses_ids + 1
  BY DEF AddrStore, AddrTypes, AddrRow, AddrRecord
<1>3. \A e \in S, f \in S \cup addresses_rows : f.id = e.bound => f.kind = "postgres"
  BY DEF AddrStore, AddrNames
<1>4. QED
  BY <1>1, <1>2, <1>3 DEF AddrKept, AddrStays

LEMMA AddrCopyOn ==
    ASSUME AddrInv, addresses_copy' = addresses_copy, addresses_snapshot' = addresses_snapshot,
           addresses_ids' \in Nat, addresses_ids <= addresses_ids',
           \A d \in addresses_rows' : addresses_ids < d.id \/ \E s \in addresses_rows :
              /\ s.id = d.id /\ s.of = d.of /\ s.name = d.name /\ s.kind = d.kind
              /\ s.state = "making" => d.state = "making"
              /\ d.bound = s.bound \/ d.bound = Address!None \/ d.of < d.bound
    PROVE  AddrCopy'
<1> USE DEF AddrInv
<1>1. addresses_ids \in Nat /\ addresses_copy \in AddrCopyRecord /\ addresses_copy.of \in Nat
        /\ addresses_copy.of <= addresses_ids
  BY DEF AddrStore, AddrTypes, AddrCopy, AddrCopyRecord
<1>2. AddrStays(addresses_rows, addresses_rows')
  BY DEF AddrStays
<1>3. AddrKept(addresses_snapshot, addresses_ids + 1)'
  <2>1. ASSUME NEW m, m = addresses_ids' + 1 PROVE AddrKept(addresses_snapshot, m)'
    <3>1. ASSUME NEW S, S = addresses_snapshot PROVE AddrKept(S, m)'
      <4>1. AddrKept(S, addresses_ids + 1)
        BY <3>1 DEF AddrCopy
      <4>2. QED
        BY <1>1, <1>2, <2>1, <4>1, AddrKeptOn
    <3>2. QED
      BY <3>1
  <2>2. QED
    BY <2>1
<1>4. AddrKept(AddrToCopy, addresses_copy.of)'
  <2>1. AddrToCopy' = AddrToCopy
    BY DEF AddrToCopy
  <2>2. ASSUME NEW S, S = AddrToCopy, NEW m, m = addresses_copy.of PROVE AddrKept(S, m)'
    <3>1. AddrKept(S, m)
      BY <2>2 DEF AddrCopy
    <3>2. QED
      BY <1>1, <1>2, <2>2, <3>1, AddrKeptOn
  <2>3. QED
    BY <2>1, <2>2
<1>5. addresses_copy' \in AddrCopyRecord' /\ addresses_copy'.of <= addresses_ids'
  <2>1. AddrCopyRecord' = AddrCopyRecord
    BY DEF AddrCopyRecord, AddrRow, AddrRecord
  <2>2. QED
    BY <1>1, <2>1
<1>6. AddrPending'
  <2>1. ASSUME NEW x \in addresses_copy.pending
        PROVE  /\ addresses_copy.of < x.id /\ x.id <= addresses_ids'
                    /\ x.entry.kind # "postgres"
               /\ \A d \in addresses_rows' : d.id = x.id =>
                     d.of = addresses_copy.of /\ d.name = x.entry.name /\ d.state = "making"
    <3>1. addresses_copy.of < x.id /\ x.id <= addresses_ids /\ x.entry.kind # "postgres"
            /\ x.id \in Nat
      BY <1>1 DEF AddrCopy, AddrPending, AddrCopyRecord
    <3>2. ASSUME NEW d \in addresses_rows', d.id = x.id
          PROVE  d.of = addresses_copy.of /\ d.name = x.entry.name /\ d.state = "making"
      <4>1. PICK s \in addresses_rows : /\ s.id = d.id /\ s.of = d.of /\ s.name = d.name
                                        /\ s.state = "making" => d.state = "making"
        BY <1>1, <3>1, <3>2
      <4>2. QED
        BY <3>2, <4>1 DEF AddrCopy, AddrPending
    <3>3. QED
      BY <1>1, <3>1, <3>2
  <2>2. QED
    BY <2>1 DEF AddrPending, AddrCopy
<1>7. AddrMapped'
  <2>1. ASSUME NEW m \in addresses_copy.map
        PROVE  /\ 0 < m[1] /\ m[1] < addresses_copy.of /\ addresses_copy.of < m[2]
                    /\ m[2] <= addresses_ids'
               /\ \A d \in addresses_rows' : d.id = m[2] =>
                     /\ d.of = addresses_copy.of
                     /\ \/ \E x \in addresses_copy.pending : x.id = d.id
                        \/ d.bound = Address!None \/ addresses_copy.of < d.bound
                     /\ \A e \in AddrToCopy : e.bound = m[1] => d.kind = "postgres"
    <3>1. /\ 0 < m[1] /\ m[1] < addresses_copy.of /\ addresses_copy.of < m[2]
               /\ m[2] <= addresses_ids /\ m[2] \in Nat
      BY <1>1 DEF AddrCopy, AddrMapped, AddrCopyRecord
    <3>2. ASSUME NEW d \in addresses_rows', d.id = m[2]
          PROVE  /\ d.of = addresses_copy.of
                 /\ \/ \E x \in addresses_copy.pending : x.id = d.id
                    \/ d.bound = Address!None \/ addresses_copy.of < d.bound
                 /\ \A e \in AddrToCopy : e.bound = m[1] => d.kind = "postgres"
      <4>1. PICK s \in addresses_rows : /\ s.id = d.id /\ s.of = d.of /\ s.kind = d.kind
                                        /\ d.bound = s.bound \/ d.bound = Address!None
                                             \/ d.of < d.bound
        BY <1>1, <3>1, <3>2
      <4>2. /\ s.of = addresses_copy.of
            /\ \/ \E x \in addresses_copy.pending : x.id = s.id
               \/ s.bound = Address!None \/ addresses_copy.of < s.bound
            /\ \A e \in AddrToCopy : e.bound = m[1] => s.kind = "postgres"
        BY <3>2, <4>1 DEF AddrCopy, AddrMapped
      <4>3. QED
        BY <4>1, <4>2
    <3>3. QED
      BY <1>1, <3>1, <3>2
  <2>2. QED
    BY <2>1 DEF AddrMapped, AddrToCopy
<1>8. QED
  BY <1>3, <1>4, <1>5, <1>6, <1>7 DEF AddrCopy

\* As it is for most calls: rows stay, or go, or come with ids of their own.
LEMMA AddrCopyKept ==
    ASSUME AddrInv, addresses_copy' = addresses_copy, addresses_snapshot' = addresses_snapshot,
           addresses_ids' \in Nat, addresses_ids <= addresses_ids',
           NEW new, addresses_rows' \subseteq addresses_rows \cup {new}, addresses_ids < new.id
    PROVE  AddrCopy'
<1>1. ASSUME NEW d \in addresses_rows'
      PROVE  addresses_ids < d.id \/ \E s \in addresses_rows :
                          /\ s.id = d.id /\ s.of = d.of /\ s.name = d.name /\ s.kind = d.kind
                          /\ s.state = "making" => d.state = "making"
                          /\ d.bound = s.bound \/ d.bound = Address!None \/ d.of < d.bound
  BY <1>1
<1>2. QED
  BY <1>1, AddrCopyOn

\* There is no copy.
LEMMA AddrCopyNone ==
    ASSUME AddrInv, addresses_copy' = Address!NoCopy, addresses_snapshot' = addresses_snapshot,
           addresses_ids' = addresses_ids, addresses_rows' \subseteq addresses_rows
    PROVE  AddrCopy'
<1> USE DEF AddrInv, Address!NoCopy, Address!None
<1>1. addresses_ids \in Nat
  BY DEF AddrStore, AddrTypes
<1>2. AddrKept(addresses_snapshot, addresses_ids + 1)'
  <2>1. AddrStays(addresses_rows, addresses_rows')
    BY DEF AddrStays
  <2>2. ASSUME NEW S, S = addresses_snapshot, NEW m, m = addresses_ids + 1 PROVE AddrKept(S, m)'
    <3>1. AddrKept(S, m)
      BY <2>2 DEF AddrCopy
    <3>2. QED
      BY <1>1, <2>1, <2>2, <3>1, AddrKeptOn
  <2>3. QED
    BY <2>2
<1>3. addresses_copy' \in AddrCopyRecord' /\ addresses_copy'.of <= addresses_ids'
  BY <1>1 DEF AddrCopyRecord
<1>4. AddrToCopy' = {}
  BY DEF AddrToCopy
<1>5. AddrKept(AddrToCopy, addresses_copy.of)'
  BY <1>4 DEF AddrKept
<1>6. AddrPending' /\ AddrMapped'
  BY DEF AddrPending, AddrMapped
<1>7. QED
  BY <1>2, <1>3, <1>5, <1>6 DEF AddrCopy

LEMMA AddrSnaps ==
    ASSUME AddrInv, NEW p \in addresses_projects, Address!TakeSnapshot(p)
    PROVE  AddrInv'
<1> USE DEF AddrInv
<1>1. /\ addresses_snapshot' = Address!RowsOf(p.id) /\ addresses_projects' = addresses_projects
           /\ addresses_rows' = addresses_rows /\ addresses_boxes' = addresses_boxes
      /\ addresses_copy' = addresses_copy /\ addresses_ids' = addresses_ids
           /\ addresses_shared' = addresses_shared
  BY DEF Address!TakeSnapshot
<1>2. AddrStore'
  <2>1. addresses_ids \in Nat /\ addresses_projects \subseteq [id : 1..addresses_ids,
          name : AddressProjectNames, released : BOOLEAN]
    BY DEF AddrStore, AddrTypes
  <2>2. /\ \A q, t \in addresses_projects : q.id = t.id \/ q.name = t.name => q = t
        /\ \A r \in addresses_rows : \E q \in addresses_projects : q.id = r.of
    BY DEF AddrStore, AddrNames
  <2>3. QED
    BY <1>1, <2>1, <2>2, AddrProjects
<1>3. AddrKept(Address!RowsOf(p.id), addresses_ids + 1)
  BY <1>1, AddrKeeps DEF Address!RowsOf
<1>4. AddrKept(addresses_snapshot, addresses_ids + 1)'
  BY <1>1, <1>3 DEF AddrKept, AddrRow, AddrRecord
<1>5. AddrToCopy' = AddrToCopy
  BY <1>1 DEF AddrToCopy
<1>6. AddrKept(AddrToCopy, addresses_copy.of)'
  BY <1>1, <1>5 DEF AddrCopy, AddrKept, AddrRow, AddrRecord
<1>7. addresses_copy' \in AddrCopyRecord' /\ addresses_copy'.of <= addresses_ids'
  BY <1>1 DEF AddrCopy, AddrCopyRecord, AddrRow, AddrRecord
<1>8. AddrPending' /\ AddrMapped'
  BY <1>1, <1>5 DEF AddrCopy, AddrPending, AddrMapped
<1>9. QED
  BY <1>2, <1>4, <1>6, <1>7, <1>8 DEF AddrCopy

LEMMA AddrBegins ==
    ASSUME AddrInv, NEW verb \in {"branch", "restore"}, NEW entries,
           NEW n \in AddressProjectNames,
           AddrKept(entries, addresses_ids + 1), Address!Begin(verb, entries, n)
    PROVE  AddrInv'
<1> USE DEF AddrInv
<1>1. /\ addresses_ids' = addresses_ids + 1 /\ \A p \in addresses_projects : p.name # n
      /\ addresses_projects' = addresses_projects
           \cup {[id |-> addresses_ids', name |-> n, released |-> FALSE]}
      /\ addresses_copy' = [verb |-> verb, of |-> addresses_ids', todo |-> entries, map |-> {},
           pending |-> {}]
      /\ addresses_rows' = addresses_rows /\ addresses_boxes' = addresses_boxes
           /\ addresses_snapshot' = addresses_snapshot /\ addresses_shared' = addresses_shared
  BY DEF Address!Begin
<1>2. AddrStore'
  BY <1>1, AddrProjectAdded
<1>3. addresses_ids \in Nat /\ addresses_ids' \in Nat
  BY <1>1 DEF AddrStore, AddrTypes
<1>4. AddrStays(addresses_rows, addresses_rows')
  BY <1>1 DEF AddrStays
<1>5. AddrKept(addresses_snapshot, addresses_ids + 1)'
  <2>1. ASSUME NEW S, S = addresses_snapshot, NEW m, m = addresses_ids' + 1
               PROVE AddrKept(S, m)'
    <3>1. AddrKept(S, addresses_ids + 1)
      BY <2>1 DEF AddrCopy
    <3>2. QED
      BY <1>1, <1>3, <1>4, <2>1, <3>1, AddrKeptOn
  <2>2. QED
    BY <1>1, <2>1
<1>6. AddrToCopy' = entries
  BY <1>1 DEF AddrToCopy
<1>7. AddrKept(AddrToCopy, addresses_copy.of)'
  <2>1. ASSUME NEW m, m = addresses_ids + 1 PROVE AddrKept(entries, m)'
    BY <1>3, <1>4, <2>1, AddrKeptOn
  <2>2. QED
    BY <1>1, <1>6, <2>1
<1>8. addresses_copy' \in AddrCopyRecord' /\ addresses_copy'.of <= addresses_ids'
  <2>1. entries \subseteq AddrRow /\ AddrRow' = AddrRow
    BY DEF AddrKept, AddrRow, AddrRecord
  <2>2. QED
    BY <1>1, <1>3, <2>1 DEF AddrCopyRecord
<1>9. AddrPending' /\ AddrMapped'
  BY <1>1 DEF AddrPending, AddrMapped
<1>10. QED
  BY <1>2, <1>5, <1>7, <1>8, <1>9 DEF AddrCopy

LEMMA AddrDiscards ==
    ASSUME AddrInv, Address!Discard
    PROVE  AddrInv'
<1> USE DEF AddrInv
<1>1. PICK p \in addresses_projects : p.id = addresses_copy.of
  BY DEF Address!Discard, Address!InCopy
<1>2. Address!Target = p
  BY <1>1, AddrProject DEF Address!Target, AddrStore
<1>3. /\ addresses_copy' = Address!NoCopy /\ addresses_projects' = addresses_projects \ {p}
           /\ addresses_rows' = addresses_rows \ Address!RowsOf(p.id)
      /\ addresses_boxes' = Address!Without(Address!RowsOf(p.id)) /\ Address!Note
           /\ addresses_snapshot' = addresses_snapshot /\ addresses_ids' = addresses_ids
  BY <1>1, <1>2 DEF Address!Discard
<1>4. AddrStore'
  BY <1>3, AddrProjectGoes
<1>5. AddrCopy'
  BY <1>3, AddrCopyNone
<1>6. QED
  BY <1>4, <1>5

\* A row as the snapshot has it, before it is rewritten.
AddrMade(e, id, of) == [e EXCEPT !.id = id, !.of = of, !.state = "making"]

LEMMA AddrMaking ==
    ASSUME NEW e \in AddrRow, e.kind # "postgres", NEW id \in Nat, NEW of \in Nat,
           NEW r, r = AddrMade(e, id, of)
    PROVE  /\ r \in AddrRow /\ r.id = id /\ r.of = of /\ r.state = "making"
           /\ r.kind = e.kind /\ r.name = e.name /\ r.bound = e.bound
<1>1. e \in AddrRecord /\ e.db = Address!NoName
  BY DEF AddrRow
<1>2. /\ r.id = id /\ r.of = of /\ r.state = "making" /\ r.kind = e.kind /\ r.name = e.name
      /\ r.bound = e.bound /\ r.db = e.db
  BY <1>1 DEF AddrMade, AddrRecord
<1>3. r \in AddrRecord
  BY <1>1 DEF AddrMade, AddrRecord
<1>4. QED
  BY <1>1, <1>2, <1>3 DEF AddrRow

LEMMA AddrCopies ==
    ASSUME AddrInv, Address!CopyNext
    PROVE  AddrInv'
<1> USE DEF AddrInv
<1>1. PICK p \in addresses_projects : p.id = addresses_copy.of
  BY DEF Address!CopyNext, Address!InCopy
<1>2. Address!Target = p
  BY <1>1, AddrProject DEF Address!Target, AddrStore
<1>3. addresses_ids \in Nat /\ addresses_copy \in AddrCopyRecord /\ addresses_copy.of \in Nat
        /\ addresses_copy.of <= addresses_ids
  BY DEF AddrStore, AddrTypes, AddrCopy, AddrCopyRecord
<1>4. PICK e : e = Address!First(addresses_copy.todo)
  OBVIOUS
<1>5. e \in addresses_copy.todo /\ e \in AddrToCopy /\ e \in AddrRow
  <2>1. addresses_copy.todo # {} /\ addresses_copy.todo \subseteq AddrRow
    BY <1>3 DEF Address!CopyNext, AddrCopyRecord
  <2>2. \A s \in addresses_copy.todo : s.id \in Nat
    BY <2>1 DEF AddrRow, AddrRecord
  <2>3. e \in addresses_copy.todo
    BY <1>4, <2>1, <2>2, AddrFirst
  <2>4. QED
    BY <2>1, <2>3 DEF AddrToCopy
<1>6. PICK r : r = IF e.kind = "postgres" THEN Address!Cloned(e)
                   ELSE [e EXCEPT !.id = addresses_ids + 1, !.of = addresses_copy.of,
                     !.state = "making"]
  OBVIOUS
<1>7. PICK to : to = [addresses_copy EXCEPT !.todo = @ \ {e},
             !.map = @ \cup {<<e.id, addresses_ids + 1>>},
                        !.pending = IF e.kind = "postgres" THEN @
                                    ELSE @ \cup {[id |-> addresses_ids + 1, entry |-> e]}]
  OBVIOUS
<1>8. /\ Address!Named(p.id, e.name) = {} /\ Address!Enough("postgres")
           /\ addresses_ids' = addresses_ids + 1
      /\ addresses_rows' = addresses_rows \cup {r}
           /\ addresses_boxes' = IF e.kind = "postgres" THEN Address!WithBox(r)
                ELSE addresses_boxes
      /\ addresses_copy' = to /\ Address!Note /\ addresses_projects' = addresses_projects
           /\ addresses_snapshot' = addresses_snapshot
  BY <1>1, <1>4, <1>6, <1>7 DEF Address!CopyNext
<1>9. /\ e.id \in Nat /\ e.bound \in Nat /\ e.name \in AddrWords
           /\ e.kind \in {"postgres", "app", "worker"}
      /\ e.db \in AddrWords \cup {Address!NoName}
  BY <1>5 DEF AddrRow, AddrRecord
<1>10. /\ 0 < e.id /\ e.id < addresses_copy.of /\ e.bound < addresses_copy.of
       /\ \A f \in AddrToCopy \cup addresses_rows : f.id = e.bound => f.kind = "postgres"
       /\ \A f \in AddrToCopy : e.id = f.bound => e.kind = "postgres"
  BY <1>5 DEF AddrCopy, AddrKept
<1>11. ASSUME e.kind = "postgres"
       PROVE  /\ r \in AddrRow /\ r.id = addresses_ids + 1 /\ r.of = p.id /\ r.kind = "postgres"
              /\ r.name = e.name /\ r.bound = Address!None /\ r.state = "resting"
                   /\ r.token = r.id
              /\ r.box = Address!BoxName(p.name, r.name) /\ PortsOf(r) \cap Address!Taken = {}
  <2>1. r = Address!NewRow("postgres", p, e.name, Address!None, e.db, "resting")
          /\ Address!None \in Nat
    BY <1>2, <1>6, <1>11 DEF Address!Cloned, Address!None
  <2>2. QED
    BY <1>8, <1>9, <2>1, AddrNewRow
<1>12. ASSUME e.kind # "postgres"
       PROVE  /\ r \in AddrRow /\ r.id = addresses_ids + 1 /\ r.of = p.id /\ r.state = "making"
              /\ r.kind = e.kind /\ r.name = e.name /\ r.bound = e.bound
  <2>1. addresses_ids + 1 \in Nat
          /\ r = [e EXCEPT !.id = addresses_ids + 1, !.of = addresses_copy.of,
               !.state = "making"]
    BY <1>3, <1>6, <1>12
  <2>2. PICK id \in Nat, of \in Nat : id = addresses_ids + 1 /\ of = addresses_copy.of
    BY <1>3, <2>1
  <2>3. r = AddrMade(e, id, of)
    BY <2>1, <2>2 DEF AddrMade
  <2>4. /\ r \in AddrRow /\ r.id = id /\ r.of = of /\ r.state = "making"
        /\ r.kind = e.kind /\ r.name = e.name /\ r.bound = e.bound
    BY <1>5, <1>12, <2>3, AddrMaking
  <2>5. QED
    BY <1>1, <2>2, <2>4
<1>13. r \in AddrRow /\ r.id = addresses_ids + 1 /\ r.of = addresses_copy.of /\ r.name = e.name
         /\ r.kind = e.kind
  BY <1>1, <1>11, <1>12
<1>14. AddrStore'
  <2>1. CASE e.kind = "postgres"
    <3>1. r.bound <= addresses_ids /\ \A d \in addresses_rows : d.id = r.bound
            => d.kind = "postgres"
      BY <1>3, <1>11, <2>1 DEF Address!None, AddrStore, AddrTypes, AddrRow, AddrRecord
    <3>2. QED
      BY <1>8, <1>11, <2>1, <3>1, AddrAdds
  <2>2. CASE e.kind # "postgres"
    <3>1. r.bound <= addresses_ids /\ \A d \in addresses_rows : d.id = r.bound
            => d.kind = "postgres"
      BY <1>3, <1>9, <1>10, <1>12, <2>2
    <3>2. QED
      BY <1>8, <1>12, <2>2, <3>1, AddrAdds
  <2>3. QED
    BY <2>1, <2>2
<1>15. /\ to \in AddrCopyRecord /\ to.of = addresses_copy.of
            /\ to.todo = addresses_copy.todo \ {e}
       /\ to.map = addresses_copy.map \cup {<<e.id, addresses_ids + 1>>}
       /\ to.pending = IF e.kind = "postgres" THEN addresses_copy.pending
                       ELSE addresses_copy.pending
                         \cup {[id |-> addresses_ids + 1, entry |-> e]}
  <2> DEFINE pending == IF e.kind = "postgres" THEN addresses_copy.pending
                        ELSE addresses_copy.pending
                          \cup {[id |-> addresses_ids + 1, entry |-> e]}
  <2>1. pending \subseteq [id : Nat, entry : AddrRow]
    BY <1>3, <1>5 DEF AddrCopyRecord
  <2>2. addresses_copy.map \cup {<<e.id, addresses_ids + 1>>} \subseteq Nat \X Nat
    BY <1>3, <1>9 DEF AddrCopyRecord
  <2>3. to = [addresses_copy EXCEPT !.todo = addresses_copy.todo \ {e},
          !.map = addresses_copy.map \cup {<<e.id, addresses_ids + 1>>},
                                    !.pending = pending]
    BY <1>7
  <2> HIDE DEF pending
  <2>4. /\ to.of = addresses_copy.of /\ to.todo = addresses_copy.todo \ {e}
        /\ to.map = addresses_copy.map \cup {<<e.id, addresses_ids + 1>>}
             /\ to.pending = pending
    BY <1>3, <2>3 DEF AddrCopyRecord
  <2>5. to \in AddrCopyRecord
    BY <1>3, <2>1, <2>2, <2>3 DEF AddrCopyRecord
  <2>6. QED
    BY <2>4, <2>5 DEF pending
<1>16. AddrStays(addresses_rows, addresses_rows')
  BY <1>3, <1>8, <1>13 DEF AddrStays
<1>17. AddrToCopy' \subseteq AddrToCopy
  BY <1>5, <1>8, <1>15 DEF AddrToCopy
<1>18. AddrKept(AddrToCopy, addresses_copy.of)'
  <2>1. ASSUME NEW T, T = AddrToCopy', NEW m, m = addresses_copy.of PROVE AddrKept(T, m)'
    <3>1. AddrKept(AddrToCopy, m) /\ T \in SUBSET AddrToCopy
      BY <1>17, <2>1 DEF AddrCopy
    <3>2. QED
      BY <1>3, <1>16, <2>1, <3>1, AddrKeptOn
  <2>2. QED
    BY <1>8, <1>15, <2>1
<1>19. AddrKept(addresses_snapshot, addresses_ids + 1)'
  <2>1. ASSUME NEW S, S = addresses_snapshot, NEW m, m = addresses_ids' + 1
               PROVE AddrKept(S, m)'
    <3>1. AddrKept(S, addresses_ids + 1) /\ m \in Nat /\ addresses_ids + 1 \in Nat
            /\ addresses_ids + 1 <= m
      BY <1>3, <1>8, <2>1 DEF AddrCopy
    <3>2. QED
      BY <1>3, <1>16, <3>1, AddrKeptOn
  <2>2. QED
    BY <1>8, <2>1
<1>20. addresses_copy' \in AddrCopyRecord' /\ addresses_copy'.of <= addresses_ids'
  <2>1. AddrCopyRecord' = AddrCopyRecord
    BY DEF AddrCopyRecord, AddrRow, AddrRecord
  <2>2. QED
    BY <1>3, <1>8, <1>15, <2>1
<1>21. AddrPending'
  <2>1. \A x \in addresses_copy.pending : x.id \in Nat /\ addresses_copy.of < x.id
          /\ x.id <= addresses_ids /\ x.entry.kind # "postgres"
    BY <1>3 DEF AddrCopy, AddrPending, AddrCopyRecord
  <2>2. \A x \in addresses_copy.pending, d \in addresses_rows' : d.id = x.id =>
          d.of = addresses_copy.of /\ d.name = x.entry.name /\ d.state = "making"
    BY <1>3, <1>8, <1>13, <2>1 DEF AddrCopy, AddrPending
  <2>3. \A d \in addresses_rows : d.id # addresses_ids + 1
    BY <1>3 DEF AddrStore, AddrTypes, AddrRow, AddrRecord
  <2>4. CASE e.kind = "postgres"
    BY <1>3, <1>8, <1>15, <2>1, <2>2, <2>4 DEF AddrPending, AddrCopy
  <2>5. CASE e.kind # "postgres"
    <3>1. PICK x : x = [id |-> addresses_ids + 1, entry |-> e]
      OBVIOUS
    <3>2. addresses_copy'.pending = addresses_copy.pending \cup {x}
            /\ addresses_copy'.of = addresses_copy.of /\ x.id = addresses_ids + 1 /\ x.entry = e
      BY <1>8, <1>15, <2>5, <3>1
    <3>3. \A y \in addresses_copy.pending : y.id # x.id
      BY <1>3, <2>1, <3>2
    <3>4. \A y, z \in addresses_copy'.pending : y.id = z.id => y = z
      BY <3>2, <3>3 DEF AddrPending, AddrCopy
    <3>5. \A d \in addresses_rows' : d.id = x.id => d = r
      BY <1>8, <2>3, <3>2
    <3>6. addresses_copy.of < x.id /\ x.id <= addresses_ids' /\ r.of = addresses_copy.of
            /\ r.name = x.entry.name /\ r.state = "making"
      BY <1>1, <1>3, <1>8, <1>12, <2>5, <3>2
    <3>7. \A y \in addresses_copy.pending : y.id <= addresses_ids'
      BY <1>3, <1>8, <2>1
    <3>8. QED
      BY <2>1, <2>2, <2>5, <3>2, <3>4, <3>5, <3>6, <3>7 DEF AddrPending
  <2>6. QED
    BY <2>4, <2>5
<1>22. AddrMapped'
  <2>1. \A d \in addresses_rows : d.id # addresses_ids + 1
    BY <1>3 DEF AddrStore, AddrTypes, AddrRow, AddrRecord
  <2>2. addresses_copy.pending \subseteq addresses_copy'.pending
    BY <1>8, <1>15
  <2>3. ASSUME NEW m \in addresses_copy.map
        PROVE  /\ 0 < m[1] /\ m[1] < addresses_copy.of /\ addresses_copy.of < m[2]
                    /\ m[2] <= addresses_ids'
               /\ \A d \in addresses_rows' : d.id = m[2] =>
                     /\ d.of = addresses_copy.of
                     /\ \/ \E x \in addresses_copy'.pending : x.id = d.id
                        \/ d.bound = Address!None \/ addresses_copy.of < d.bound
                     /\ \A f \in AddrToCopy' : f.bound = m[1] => d.kind = "postgres"
    <3>1. /\ 0 < m[1] /\ m[1] < addresses_copy.of /\ addresses_copy.of < m[2]
               /\ m[2] <= addresses_ids /\ m[2] \in Nat
      BY <1>3 DEF AddrCopy, AddrMapped, AddrCopyRecord
    <3>2. m[2] <= addresses_ids' /\ \A d \in addresses_rows' : d.id = m[2]
            => d \in addresses_rows
      BY <1>3, <1>8, <1>13, <3>1
    <3>3. QED
      BY <1>17, <2>2, <3>1, <3>2 DEF AddrCopy, AddrMapped
  <2>4. PICK n : n = <<e.id, addresses_ids + 1>>
    OBVIOUS
  <2>5. n[1] = e.id /\ n[2] = addresses_ids + 1
          /\ addresses_copy'.map = addresses_copy.map \cup {n}
               /\ addresses_copy'.of = addresses_copy.of
    BY <1>8, <1>15, <2>4
  <2>6. \A d \in addresses_rows' : d.id = n[2] => d = r
    BY <1>8, <2>1, <2>5
  <2>7. \A f \in AddrToCopy' : f.bound = n[1] => r.kind = "postgres"
    BY <1>10, <1>13, <1>17, <2>5
  <2>8. (\E x \in addresses_copy'.pending : x.id = r.id) \/ r.bound = Address!None
    <3>1. CASE e.kind = "postgres"
      BY <1>11, <3>1
    <3>2. CASE e.kind # "postgres"
      <4>1. PICK x : x = [id |-> addresses_ids + 1, entry |-> e]
        OBVIOUS
      <4>2. x \in addresses_copy'.pending /\ x.id = addresses_ids + 1
        BY <1>8, <1>15, <3>2, <4>1
      <4>3. QED
        BY <1>13, <4>2
    <3>3. QED
      BY <3>1, <3>2
  <2>9. 0 < n[1] /\ n[1] < addresses_copy.of /\ addresses_copy.of < n[2]
          /\ n[2] <= addresses_ids'
    BY <1>3, <1>8, <1>10, <2>5
  <2>10. QED
    BY <1>13, <2>3, <2>5, <2>6, <2>7, <2>8, <2>9 DEF AddrMapped
<1>23. QED
  BY <1>14, <1>18, <1>19, <1>20, <1>21, <1>22 DEF AddrCopy

\* A place in the copy is written for good.
LEMMA AddrRewrites ==
    ASSUME AddrInv, Address!CopyRewrite
    PROVE  AddrInv'
<1> USE DEF AddrInv
<1>1. PICK p \in addresses_projects : p.id = addresses_copy.of
  BY DEF Address!CopyRewrite, Address!InCopy
<1>2. Address!Target = p
  BY <1>1, AddrProject DEF Address!Target, AddrStore
<1>3. addresses_ids \in Nat /\ addresses_copy \in AddrCopyRecord /\ addresses_copy.of \in Nat
        /\ addresses_copy.of <= addresses_ids
  BY DEF AddrStore, AddrTypes, AddrCopy, AddrCopyRecord
<1>4. PICK x : x = Address!First(addresses_copy.pending)
  OBVIOUS
<1>5. PICK e : e = x.entry
  OBVIOUS
<1>6. x \in addresses_copy.pending /\ x.id \in Nat /\ e \in AddrRow /\ e \in AddrToCopy
  <2>1. addresses_copy.pending # {}
          /\ addresses_copy.pending \subseteq [id : Nat, entry : AddrRow]
    BY <1>3 DEF Address!CopyRewrite, AddrCopyRecord
  <2>2. \A y \in addresses_copy.pending : y.id \in Nat
    BY <2>1
  <2>3. x \in addresses_copy.pending
    BY <1>4, <2>1, <2>2, AddrFirst
  <2>4. QED
    BY <1>5, <2>1, <2>3 DEF AddrToCopy
<1>7. PICK to : to = [addresses_copy EXCEPT !.pending = addresses_copy.pending \ {x}]
  OBVIOUS
<1>8. /\ e.bound = Address!None \/ Address!Mapped(e.bound) # {}
      /\ Address!Enough(e.kind) /\ addresses_copy' = to
      /\ addresses_rows' = {IF r.id = x.id THEN Address!Rewritten(e, r)
           ELSE r : r \in addresses_rows}
      /\ Address!Note /\ addresses_projects' = addresses_projects
           /\ addresses_boxes' = addresses_boxes /\ addresses_snapshot' = addresses_snapshot
                /\ addresses_ids' = addresses_ids
  BY <1>4, <1>5, <1>7 DEF Address!CopyRewrite
<1>9. /\ addresses_copy.of < x.id /\ x.id <= addresses_ids /\ e.kind # "postgres"
      /\ \A r \in addresses_rows : r.id = x.id
           => r.of = addresses_copy.of /\ r.name = e.name /\ r.state = "making"
  BY <1>5, <1>6 DEF AddrCopy, AddrPending
<1>10. /\ to \in AddrCopyRecord /\ to.of = addresses_copy.of /\ to.todo = addresses_copy.todo
            /\ to.map = addresses_copy.map
       /\ to.pending = addresses_copy.pending \ {x}
  BY <1>3, <1>7 DEF AddrCopyRecord
<1>11. PICK bound : bound = (IF e.bound = Address!None THEN Address!None
              ELSE CHOOSE m \in Address!Mapped(e.bound) : TRUE)
  OBVIOUS
<1>12. /\ bound \in Nat /\ bound <= addresses_ids
            /\ (bound = Address!None \/ addresses_copy.of < bound)
       /\ \A d \in addresses_rows : d.id = bound => d.kind = "postgres"
  <2>1. CASE e.bound = Address!None
    BY <1>3, <1>11, <2>1 DEF Address!None, AddrStore, AddrTypes, AddrRow, AddrRecord
  <2>2. CASE e.bound # Address!None
    <3>1. bound \in Address!Mapped(e.bound)
      BY <1>8, <1>11, <2>2
    <3>2. PICK m \in addresses_copy.map : m[1] = e.bound /\ m[2] = bound
      BY <3>1 DEF Address!Mapped
    <3>3. addresses_copy.of < m[2] /\ m[2] <= addresses_ids /\ m[2] \in Nat
      BY <1>3 DEF AddrCopy, AddrMapped, AddrCopyRecord
    <3>4. \A d \in addresses_rows : d.id = m[2] => d.kind = "postgres"
      BY <1>6, <3>2 DEF AddrCopy, AddrMapped
    <3>5. QED
      BY <3>2, <3>3, <3>4
  <2>3. QED
    BY <2>1, <2>2
<1>13. PICK ps \in Seq(AddressPorts) \ {<<>>} :
          ps = Address!FreePorts(e.kind) /\ {ps[i] : i \in DOMAIN ps} \cap Address!Taken = {}
  <2>1. PICK ps : ps = Address!FreePorts(e.kind)
    OBVIOUS
  <2>2. ps \in Seq(AddressPorts) \ {<<>>} /\ {ps[i] : i \in DOMAIN ps} \cap Address!Taken = {}
    BY <1>8, <2>1, AddrPorts
  <2>3. QED
    BY <2>1, <2>2
<1>14. p.name \in Seq(STRING) /\ e.name \in Seq(STRING)
  <2>1. p.name \in AddressProjectNames /\ e.name \in AddrWords
    BY <1>6 DEF AddrStore, AddrTypes, AddrRow, AddrRecord
  <2>2. QED
    BY <2>1, AddressShape DEF AddrWords
<1>15. PICK called \in Seq(STRING) : called = Address!BoxName(Address!Target.name, e.name)
  <2>1. p.name \o e.name \in Seq(STRING)
    BY <1>14
  <2>2. Address!BoxName(Address!Target.name, e.name) = p.name \o e.name
    BY <1>2 DEF Address!BoxName
  <2>3. QED
    BY <2>1, <2>2
<1>16. PICK host \in Seq(Seq(STRING)) : host = Address!Hostname(Address!Target.name, e.name)
  <2>1. <<e.name, p.name>> \in Seq(Seq(STRING))
    BY <1>14
  <2>2. Address!Hostname(Address!Target.name, e.name) = <<e.name, p.name>>
    BY <1>2 DEF Address!Hostname
  <2>3. QED
    BY <2>1, <2>2
<1>17. ASSUME NEW r \in addresses_rows, r.id = x.id
       PROVE  \E t \in AddrRow :
                /\ t = Address!Rewritten(e, r) /\ t.id = r.id /\ t.of = r.of /\ t.name = r.name
                /\ t.kind # "postgres" /\ t.bound = bound /\ t.token = t.id
                /\ t.box = Address!BoxName(p.name, t.name)
                     /\ t.host = Address!Hostname(p.name, t.name)
                /\ PortsOf(t) \cap Address!Taken = {}
  <2>1. PICK t : t = Address!Rewritten(e, r)
    OBVIOUS
  <2>2. /\ t \in AddrRow /\ t.id = r.id /\ t.of = addresses_copy.of /\ t.kind = e.kind
             /\ t.name = e.name
        /\ t.ports = ps /\ t.box = called /\ t.host = host /\ t.token = r.id /\ t.bound = bound
    BY <1>3, <1>6, <1>9, <1>11, <1>12, <1>13, <1>15, <1>16, <1>17, <2>1, AddrRewritten
  <2>3. PortsOf(t) \cap Address!Taken = {}
    BY <1>13, <2>2 DEF PortsOf
  <2>4. QED
    BY <1>2, <1>9, <1>15, <1>16, <1>17, <2>1, <2>2, <2>3
<1>18. \A s \in addresses_rows : PortsOf(s) \subseteq Address!Taken
  BY DEF PortsOf, Address!Taken
<1>19. ASSUME NEW r \in addresses_rows, r.id = x.id, NEW t \in AddrRow,
              t = Address!Rewritten(e, r), t.id = r.id
       PROVE  addresses_rows' = (addresses_rows \ {r}) \cup {t}
  <2>1. \A s \in addresses_rows : s.id = x.id <=> s = r
    BY <1>19 DEF AddrStore, AddrNames
  <2>2. \A s \in addresses_rows : (IF s.id = x.id THEN Address!Rewritten(e, s)
          ELSE s) = IF s = r THEN t ELSE s
    BY <1>19, <2>1
  <2>3. addresses_rows' = {IF s = r THEN t ELSE s : s \in addresses_rows}
    BY <1>8, <2>2
  <2> HIDE <1>8
  <2>4. {IF s = r THEN t ELSE s : s \in addresses_rows} = (addresses_rows \ {r}) \cup {t}
    OBVIOUS
  <2>5. QED
    BY <2>3, <2>4
<1>20. AddrStore'
  <2>1. CASE \A r \in addresses_rows : r.id # x.id
    <3>1. addresses_rows' = addresses_rows
      BY <1>8, <2>1
    <3>2. Address!Without({}) = addresses_boxes /\ addresses_rows \ {} = addresses_rows
      BY DEF Address!Without
    <3>3. \A r \in addresses_rows \ {} : \E q \in addresses_projects' : q.id = r.of
      BY <1>8 DEF AddrStore, AddrNames
    <3>4. QED
      BY <1>8, <3>1, <3>2, <3>3, AddrLoses
  <2>2. CASE \E r \in addresses_rows : r.id = x.id
    <3>1. PICK r \in addresses_rows : r.id = x.id
      BY <2>2
    <3>2. PICK t \in AddrRow :
            /\ t = Address!Rewritten(e, r) /\ t.id = r.id /\ t.of = r.of /\ t.name = r.name
            /\ t.kind # "postgres" /\ t.bound = bound /\ t.token = t.id
            /\ t.box = Address!BoxName(p.name, t.name)
                 /\ t.host = Address!Hostname(p.name, t.name)
            /\ PortsOf(t) \cap Address!Taken = {}
      BY <1>17, <3>1
    <3>3. addresses_rows' = (addresses_rows \ {r}) \cup {t}
      BY <1>19, <3>1, <3>2
    <3>4. r.of = addresses_copy.of /\ r.state = "making" /\ r.kind # "postgres"
      BY <1>9, <3>1 DEF AddrStore, AddrTypes, AddrRow
    <3>5. AddrTypes' /\ AddrNames' /\ AddrSays(addresses_rows, addresses_rows')
      BY <1>8, <1>12, <3>2, <3>3, <3>4, AddrWrites
    <3>6. AddrRows'
      <4>1. \A q \in addresses_projects : q.id = t.of => q = p
        BY <1>1, <3>2, <3>4 DEF AddrStore, AddrNames
      <4>2. \A s \in addresses_rows', q \in addresses_projects : s.state # "making"
              /\ q.id = s.of =>
              /\ s.box = Address!BoxName(q.name, s.name) /\ s.token = s.id
              /\ s.kind # "postgres" => s.host = Address!Hostname(q.name, s.name)
        BY <3>2, <3>3, <4>1 DEF AddrStore, AddrRows
      <4>3. \A s \in addresses_rows : PortsOf(s) \cap PortsOf(t) = {}
              /\ PortsOf(t) \cap PortsOf(s) = {}
        BY <1>18, <3>2
      <4>4. \A s, u \in addresses_rows' : s.state # "making" /\ u.state # "making" /\ s # u =>
              PortsOf(s) \cap PortsOf(u) = {}
        BY <3>3, <4>3 DEF AddrStore, AddrRows
      <4>5. QED
        BY <1>8, <4>2, <4>4 DEF AddrRows, PortsOf
    <3>7. AddrBoxes'
      <4>1. ASSUME NEW b \in addresses_boxes, b.name \notin addresses_shared'
                   PROVE \E s \in addresses_rows' : AddrBox(b, s)'
        <5>1. PICK s \in addresses_rows : AddrBox(b, s)
          BY <1>8, <4>1 DEF AddrStore, AddrBoxes, Address!Note
        <5>2. s \in addresses_rows'
          BY <3>3, <3>4, <5>1 DEF AddrBox
        <5>3. AddrBox(b, s)'
          BY <1>8, <3>5, <5>1, AddrBoxOn
        <5>4. QED
          BY <5>2, <5>3
      <4>2. \A s \in addresses_rows' : s.state = "making" => s.box \in addresses_shared'
        BY <1>8 DEF Address!Note
      <4>3. \A s, u \in addresses_rows' : s # u /\ s.box = u.box => s.box \in addresses_shared'
        BY <1>8 DEF Address!Note
      <4>4. QED
        BY <1>8, <4>1, <4>2, <4>3 DEF AddrStore, AddrBoxes
    <3>8. QED
      BY <3>5, <3>6, <3>7 DEF AddrStore
  <2>3. QED
    BY <2>1, <2>2
<1>21. ASSUME NEW d \in addresses_rows'
       PROVE  \E s \in addresses_rows :
                /\ s.id = d.id /\ s.of = d.of
                /\ s.kind = "postgres" => d.kind = "postgres"
                /\ d.id # x.id => d = s
                /\ d.id = x.id => d.bound = Address!None \/ addresses_copy.of < d.bound
  <2>1. PICK s \in addresses_rows : d = IF s.id = x.id THEN Address!Rewritten(e, s) ELSE s
    BY <1>8
  <2>2. CASE s.id # x.id
    BY <2>1, <2>2
  <2>3. CASE s.id = x.id
    <3>1. d.id = s.id /\ d.of = s.of /\ d.bound = bound
      BY <1>17, <2>1, <2>3
    <3>2. s.kind # "postgres"
      BY <1>9, <2>3 DEF AddrStore, AddrTypes, AddrRow
    <3>3. QED
      BY <1>12, <2>3, <3>1, <3>2
  <2>4. QED
    BY <2>2, <2>3
<1>22. AddrStays(addresses_rows, addresses_rows')
  BY <1>21 DEF AddrStays
<1>23. AddrToCopy' \subseteq AddrToCopy
  BY <1>8, <1>10 DEF AddrToCopy
<1>24. AddrKept(AddrToCopy, addresses_copy.of)'
  <2>1. ASSUME NEW T, T = AddrToCopy', NEW m, m = addresses_copy.of PROVE AddrKept(T, m)'
    <3>1. AddrKept(AddrToCopy, m) /\ T \in SUBSET AddrToCopy
      BY <1>23, <2>1 DEF AddrCopy
    <3>2. QED
      BY <1>3, <1>22, <2>1, <3>1, AddrKeptOn
  <2>2. QED
    BY <1>8, <1>10, <2>1
<1>25. AddrKept(addresses_snapshot, addresses_ids + 1)'
  <2>1. ASSUME NEW S, S = addresses_snapshot, NEW m, m = addresses_ids + 1 PROVE AddrKept(S, m)'
    <3>1. AddrKept(S, m) /\ m \in Nat
      BY <1>3, <2>1 DEF AddrCopy
    <3>2. QED
      BY <1>3, <1>22, <2>1, <3>1, AddrKeptOn
  <2>2. QED
    BY <1>8, <2>1
<1>26. addresses_copy' \in AddrCopyRecord' /\ addresses_copy'.of <= addresses_ids'
  <2>1. AddrCopyRecord' = AddrCopyRecord
    BY DEF AddrCopyRecord, AddrRow, AddrRecord
  <2>2. QED
    BY <1>3, <1>8, <1>10, <2>1
<1>27. AddrPending'
  <2>1. \A y \in addresses_copy'.pending : y \in addresses_copy.pending /\ y.id # x.id
    BY <1>6, <1>8, <1>10 DEF AddrCopy, AddrPending
  <2>2. \A y \in addresses_copy'.pending, d \in addresses_rows' : d.id = y.id
          => d \in addresses_rows
    BY <1>21, <2>1
  <2>3. QED
    BY <1>8, <1>10, <2>1, <2>2 DEF AddrCopy, AddrPending
<1>28. AddrMapped'
  <2>1. ASSUME NEW m \in addresses_copy.map, NEW d \in addresses_rows', d.id = m[2]
        PROVE  /\ d.of = addresses_copy.of
               /\ \/ \E y \in addresses_copy'.pending : y.id = d.id
                  \/ d.bound = Address!None \/ addresses_copy.of < d.bound
               /\ \A f \in AddrToCopy' : f.bound = m[1] => d.kind = "postgres"
    <3>1. PICK s \in addresses_rows :
             /\ s.id = d.id /\ s.of = d.of
             /\ s.kind = "postgres" => d.kind = "postgres"
             /\ d.id # x.id => d = s
             /\ d.id = x.id => d.bound = Address!None \/ addresses_copy.of < d.bound
      BY <1>21
    <3>2. /\ s.of = addresses_copy.of
          /\ \/ \E y \in addresses_copy.pending : y.id = s.id
             \/ s.bound = Address!None \/ addresses_copy.of < s.bound
          /\ \A f \in AddrToCopy : f.bound = m[1] => s.kind = "postgres"
      BY <2>1, <3>1 DEF AddrCopy, AddrMapped
    <3>3. CASE d.id = x.id
      BY <1>23, <3>1, <3>2, <3>3
    <3>4. CASE d.id # x.id
      <4>1. d = s
        BY <3>1, <3>4
      <4>2. \A y \in addresses_copy.pending : y.id = d.id => y \in addresses_copy'.pending
        BY <1>8, <1>10, <3>4
      <4>3. QED
        BY <1>23, <3>2, <4>1, <4>2
    <3>5. QED
      BY <3>3, <3>4
  <2>2. addresses_copy'.map = addresses_copy.map /\ addresses_copy'.of = addresses_copy.of
          /\ addresses_ids' = addresses_ids
    BY <1>8, <1>10
  <2>3. QED
    BY <2>1, <2>2 DEF AddrCopy, AddrMapped
<1>29. QED
  BY <1>20, <1>24, <1>25, <1>26, <1>27, <1>28 DEF AddrCopy

-----------------------------------------------------------------------------

\* A call of a project.
LEMMA AddrOfProjects ==
    ASSUME AddrInv, NEW p \in addresses_projects,
           \/ \E n \in AddressDatabaseNames : Address!CreateDatabase(p, n)
           \/ \E n \in AddressComputeNames,
                b \in {Address!None}
                  \cup {r.id : r \in {r \in addresses_rows : r.kind = "postgres"}} :
                Address!CreateCompute(p, AddressComputes[p.name], n, b)
           \/ Address!RemoveProject(p) \/ Address!Eject(p) \/ Address!Adopt(p)
                \/ Address!TakeSnapshot(p)
           \/ \E n \in AddressProjectNames : Address!Branch(p, n)
    PROVE  AddrInv'
<1>1. addresses_ids \in Nat
  BY DEF AddrInv, AddrStore, AddrTypes
<1>2. ASSUME NEW n \in AddressDatabaseNames, Address!CreateDatabase(p, n) PROVE AddrInv'
  <2>1. AddrStore'
    BY <1>2, AddrCreatesDatabase DEF AddrInv
  <2>2. PICK r : r = Address!NewRow("postgres", p, n, Address!None, p.name, "resting")
    OBVIOUS
  <2>3. addresses_rows' = addresses_rows \cup {r} /\ r.id = addresses_ids + 1
          /\ addresses_ids' = addresses_ids + 1 /\ addresses_copy' = addresses_copy
               /\ addresses_snapshot' = addresses_snapshot
    BY <1>2, <2>2 DEF Address!CreateDatabase, Address!NewRow
  <2>4. AddrCopy'
    BY <1>1, <2>3, AddrCopyKept
  <2>5. QED
    BY <2>1, <2>4 DEF AddrInv
<1>3. ASSUME NEW n \in AddressComputeNames,
             NEW b \in {Address!None}
               \cup {r.id : r \in {r \in addresses_rows : r.kind = "postgres"}},
             Address!CreateCompute(p, AddressComputes[p.name], n, b)
      PROVE  AddrInv'
  <2>1. PICK kind \in {"app", "worker"} : kind = AddressComputes[p.name]
    BY AddressShape DEF AddrInv, AddrStore, AddrTypes
  <2>2. Address!CreateCompute(p, kind, n, b)
    BY <1>3, <2>1
  <2>3. AddrStore'
    BY <2>2, AddrCreatesCompute DEF AddrInv
  <2>4. PICK r : r = Address!NewRow(kind, p, n, b, Address!NoName, "undeployed")
    OBVIOUS
  <2>5. addresses_rows' = addresses_rows \cup {r} /\ r.id = addresses_ids + 1
          /\ addresses_ids' = addresses_ids + 1 /\ addresses_copy' = addresses_copy
               /\ addresses_snapshot' = addresses_snapshot
    BY <2>2, <2>4 DEF Address!CreateCompute, Address!NewRow
  <2>6. AddrCopy'
    BY <1>1, <2>5, AddrCopyKept
  <2>7. QED
    BY <2>3, <2>6 DEF AddrInv
<1>4. CASE Address!RemoveProject(p)
  <2>1. /\ addresses_projects' = addresses_projects \ {p}
             /\ addresses_rows' = addresses_rows \ Address!RowsOf(p.id)
                  /\ addresses_boxes' = Address!Without(Address!RowsOf(p.id))
        /\ Address!Note /\ addresses_ids' = addresses_ids /\ addresses_copy' = addresses_copy
             /\ addresses_snapshot' = addresses_snapshot
    BY <1>4 DEF Address!RemoveProject
  <2>2. AddrStore'
    BY <2>1, AddrProjectGoes DEF AddrInv
  <2>3. AddrCopy'
    <3>1. PICK new : new = [id |-> addresses_ids + 1]
      OBVIOUS
    <3>2. addresses_ids < new.id /\ addresses_rows' \subseteq addresses_rows \cup {new}
      BY <1>1, <2>1, <3>1
    <3>3. QED
      BY <1>1, <2>1, <3>2, AddrCopyKept
  <2>4. QED
    BY <2>2, <2>3 DEF AddrInv
<1>5. ASSUME NEW on \in BOOLEAN,
             addresses_projects' = (addresses_projects \ {p}) \cup {[p EXCEPT !.released = on]},
             UNCHANGED <<addresses_rows, addresses_boxes, addresses_snapshot, addresses_copy,
               addresses_ids, addresses_shared>>
      PROVE  AddrInv'
  <2>1. AddrStore'
    BY <1>5, AddrProjectTurned DEF AddrInv
  <2>2. PICK new : new = [id |-> addresses_ids + 1]
    OBVIOUS
  <2>3. addresses_ids < new.id /\ addresses_rows' \subseteq addresses_rows \cup {new}
    BY <1>1, <1>5, <2>2
  <2>4. AddrCopy'
    BY <1>1, <1>5, <2>3, AddrCopyKept
  <2>5. QED
    BY <2>1, <2>4 DEF AddrInv
<1>6. CASE Address!Eject(p)
  BY <1>5, <1>6 DEF Address!Eject
<1>7. CASE Address!Adopt(p)
  BY <1>5, <1>7 DEF Address!Adopt
<1>8. CASE Address!TakeSnapshot(p)
  BY <1>8, AddrSnaps
<1>9. ASSUME NEW n \in AddressProjectNames, Address!Branch(p, n) PROVE AddrInv'
  <2>1. Address!Begin("branch", Address!RowsOf(p.id), n)
    BY <1>9 DEF Address!Branch
  <2>2. AddrKept(Address!RowsOf(p.id), addresses_ids + 1)
    <3>1. Address!RowsOf(p.id) \in SUBSET addresses_rows /\ addresses_rows' = addresses_rows
      BY <2>1 DEF Address!RowsOf, Address!Begin
    <3>2. QED
      BY <3>1, AddrKeeps DEF AddrInv
  <2>3. QED
    BY <2>1, <2>2, AddrBegins
<1>10. QED
  BY <1>2, <1>3, <1>4, <1>6, <1>7, <1>8, <1>9

\* A call of a resource.
LEMMA AddrOfRows ==
    ASSUME AddrInv, NEW r \in addresses_rows,
           \/ Address!Start(r) \/ Address!Remove(r)
           \/ \E b \in {r.bound, Address!None}
                \cup {d.id : d \in Address!Databases(r.of)} : Address!Deploy(r, b)
    PROVE  AddrInv'
<1>1. addresses_ids \in Nat
  BY DEF AddrInv, AddrStore, AddrTypes
<1>2. CASE Address!Start(r) \/ Address!Remove(r)
  <2>1. AddrStore'
    BY <1>2, AddrStarts, AddrRemoves DEF AddrInv
  <2>2. PICK new : new = [id |-> addresses_ids + 1]
    OBVIOUS
  <2>3. /\ addresses_ids < new.id /\ addresses_rows' \subseteq addresses_rows \cup {new}
        /\ addresses_ids' = addresses_ids /\ addresses_copy' = addresses_copy
             /\ addresses_snapshot' = addresses_snapshot
    BY <1>1, <1>2, <2>2 DEF Address!Start, Address!Remove
  <2>4. AddrCopy'
    BY <1>1, <2>3, AddrCopyKept
  <2>5. QED
    BY <2>1, <2>4 DEF AddrInv
<1>3. ASSUME NEW b \in {r.bound, Address!None} \cup {d.id : d \in Address!Databases(r.of)},
             Address!Deploy(r, b)
      PROVE  AddrInv'
  <2>1. AddrStore'
    BY <1>3, AddrDeploys DEF AddrInv
  <2>2. PICK t : t = AddrTo(r, b)
    OBVIOUS
  <2>3. /\ r.kind # "postgres" /\ addresses_rows' = (addresses_rows \ {r}) \cup {t}
        /\ addresses_ids' = addresses_ids /\ addresses_copy' = addresses_copy
             /\ addresses_snapshot' = addresses_snapshot
    BY <1>3, <2>2 DEF Address!Deploy, AddrTo
  <2>4. r \in AddrRow /\ b \in Nat
    BY DEF AddrInv, AddrStore, AddrTypes, AddrRow, AddrRecord, Address!None, Address!Databases,
           Address!RowsOf
  <2>5. /\ t.id = r.id /\ t.of = r.of /\ t.kind = r.kind /\ t.name = r.name
        /\ t.bound = b /\ (t.state = "making" <=> r.state = "making")
    BY <2>2, <2>3, <2>4, AddrDeployed
  <2>6. b = r.bound \/ b = Address!None \/ r.of < b
    BY DEF AddrInv, AddrStore, AddrTypes, Address!Databases, Address!RowsOf
  <2>7. ASSUME NEW d \in addresses_rows'
        PROVE  addresses_ids < d.id \/ \E s \in addresses_rows :
                            /\ s.id = d.id /\ s.of = d.of /\ s.name = d.name /\ s.kind = d.kind
                            /\ s.state = "making" => d.state = "making"
                            /\ d.bound = s.bound \/ d.bound = Address!None \/ d.of < d.bound
    BY <2>3, <2>5, <2>6
  <2>8. AddrCopy'
    BY <1>1, <2>3, <2>7, AddrCopyOn
  <2>9. QED
    BY <2>1, <2>8 DEF AddrInv
<1>4. QED
  BY <1>2, <1>3

LEMMA AddrNext == AddrInv /\ [Address!Next]_(Address!vars) => AddrInv'
<1> SUFFICES ASSUME AddrInv, [Address!Next]_(Address!vars) PROVE AddrInv'
  OBVIOUS
<1>1. addresses_ids \in Nat
  BY DEF AddrInv, AddrStore, AddrTypes
<1>2. ASSUME NEW n \in AddressProjectNames, Address!NewProject(n) PROVE AddrInv'
  <2>1. /\ \A p \in addresses_projects : p.name # n
        /\ addresses_ids' = addresses_ids + 1
             /\ addresses_projects' = addresses_projects
                  \cup {[id |-> addresses_ids', name |-> n, released |-> FALSE]}
        /\ addresses_rows' = addresses_rows /\ addresses_boxes' = addresses_boxes
             /\ addresses_shared' = addresses_shared /\ addresses_copy' = addresses_copy
                  /\ addresses_snapshot' = addresses_snapshot
    BY <1>2 DEF Address!NewProject
  <2>2. AddrStore'
    BY <2>1, AddrProjectAdded DEF AddrInv
  <2>3. PICK new : new = [id |-> addresses_ids + 1]
    OBVIOUS
  <2>4. addresses_ids < new.id /\ addresses_rows' \subseteq addresses_rows \cup {new}
    BY <1>1, <2>1, <2>3
  <2>5. AddrCopy'
    BY <1>1, <2>1, <2>4, AddrCopyKept
  <2>6. QED
    BY <2>2, <2>5 DEF AddrInv
<1>3. ASSUME NEW n \in AddressProjectNames, Address!Restore(n) PROVE AddrInv'
  <2>1. Address!Begin("restore", addresses_snapshot, n)
          /\ AddrKept(addresses_snapshot, addresses_ids + 1)
    BY <1>3 DEF Address!Restore, AddrInv, AddrCopy
  <2>2. QED
    BY <2>1, AddrBegins
<1>4. CASE Address!CopyEnds
  <2>1. /\ addresses_copy' = Address!NoCopy /\ addresses_projects' = addresses_projects
             /\ addresses_rows' = addresses_rows /\ addresses_boxes' = addresses_boxes
        /\ addresses_snapshot' = addresses_snapshot /\ addresses_ids' = addresses_ids
             /\ addresses_shared' = addresses_shared
    BY <1>4 DEF Address!CopyEnds
  <2>2. AddrStore'
    <3>1. addresses_projects \subseteq [id : 1..addresses_ids, name : AddressProjectNames,
            released : BOOLEAN]
      BY DEF AddrInv, AddrStore, AddrTypes
    <3>2. /\ \A q, t \in addresses_projects : q.id = t.id \/ q.name = t.name => q = t
          /\ \A r \in addresses_rows : \E q \in addresses_projects : q.id = r.of
      BY DEF AddrInv, AddrStore, AddrNames
    <3>3. QED
      BY <1>1, <2>1, <3>1, <3>2, AddrProjects DEF AddrInv
  <2>3. AddrCopy'
    BY <2>1, AddrCopyNone
  <2>4. QED
    BY <2>2, <2>3 DEF AddrInv
<1>5. CASE UNCHANGED Address!vars
  <2>1. /\ addresses_copy' = addresses_copy /\ addresses_projects' = addresses_projects
             /\ addresses_rows' = addresses_rows /\ addresses_boxes' = addresses_boxes
        /\ addresses_snapshot' = addresses_snapshot /\ addresses_ids' = addresses_ids
             /\ addresses_shared' = addresses_shared
    BY <1>5 DEF Address!vars
  <2>2. AddrStore'
    <3>1. addresses_projects \subseteq [id : 1..addresses_ids, name : AddressProjectNames,
            released : BOOLEAN]
      BY DEF AddrInv, AddrStore, AddrTypes
    <3>2. /\ \A q, t \in addresses_projects : q.id = t.id \/ q.name = t.name => q = t
          /\ \A r \in addresses_rows : \E q \in addresses_projects : q.id = r.of
      BY DEF AddrInv, AddrStore, AddrNames
    <3>3. QED
      BY <1>1, <2>1, <3>1, <3>2, AddrProjects DEF AddrInv
  <2>3. PICK new : new = [id |-> addresses_ids + 1]
    OBVIOUS
  <2>4. addresses_ids < new.id /\ addresses_rows' \subseteq addresses_rows \cup {new}
    BY <1>1, <2>1, <2>3
  <2>5. AddrCopy'
    BY <1>1, <2>1, <2>4, AddrCopyKept
  <2>6. QED
    BY <2>2, <2>5 DEF AddrInv
<1>6. ASSUME NEW p \in addresses_projects,
             \/ \E n \in AddressDatabaseNames : Address!CreateDatabase(p, n)
             \/ \E n \in AddressComputeNames,
                  b \in {Address!None}
                    \cup {r.id : r \in {r \in addresses_rows : r.kind = "postgres"}} :
                  Address!CreateCompute(p, AddressComputes[p.name], n, b)
             \/ Address!RemoveProject(p) \/ Address!Eject(p) \/ Address!Adopt(p)
                  \/ Address!TakeSnapshot(p)
             \/ \E n \in AddressProjectNames : Address!Branch(p, n)
      PROVE  AddrInv'
  BY <1>6, AddrOfProjects
<1>7. ASSUME NEW r \in addresses_rows,
             \/ Address!Start(r) \/ Address!Remove(r)
             \/ \E b \in {r.bound, Address!None}
                  \cup {d.id : d \in Address!Databases(r.of)} : Address!Deploy(r, b)
      PROVE  AddrInv'
  BY <1>7, AddrOfRows
<1>8. QED
  BY <1>2, <1>3, <1>4, <1>5, <1>6, <1>7, AddrCopies, AddrRewrites, AddrDiscards DEF Address!Next

\* Whatever is done to names, copies and bindings.
LEMMA AddrHolds == Address!Spec => []Address!AddressesLead
<1>1. Address!Spec => []AddrInv
  BY AddrInit, AddrNext, PTL DEF Address!Spec
<1>2. QED
  BY <1>1, AddrLead, PTL

-----------------------------------------------------------------------------
(* The listeners (Doors): which networks a stage has still to reach, and   *)
(* what keeps the way down shut.                                           *)

DoorCall ==
    {Door!Idle} \cup [at : {"inner", "queue", "proxy"}, net : DoorNetworks,
                      from : {"socket", "wake"}, hooked : BOOLEAN]

\* The types, and that the enqueue listener is opened to networks.
DoorTypes ==
    /\ doors_pc \in {"down", "up", "failed"} \cup Door!Starting \cup Door!Stopping
    /\ doors_made \subseteq DoorNetworks /\ doors_todo \subseteq DoorNetworks \cup DoorLocal
    /\ doors_proxyOpen \subseteq DoorNetworks \cup DoorLocal
    /\ doors_proxyBound \subseteq DoorNetworks \cup DoorLocal
    /\ doors_queueOpen \subseteq DoorNetworks /\ doors_queueBound \subseteq DoorNetworks
    /\ doors_socketFile \in BOOLEAN /\ doors_router \in BOOLEAN /\ doors_caddy \in BOOLEAN
    /\ doors_hook \in BOOLEAN /\ doors_late \in BOOLEAN /\ doors_first \in BOOLEAN
    /\ doors_call \in [DoorCalls -> DoorCall] /\ doors_faults \in Nat
    /\ doors_pc = "endpoint" => doors_todo \subseteq DoorNetworks

\* Until the doors are shut, what counts as bound is listened on.
DoorBindings ==
    doors_pc \notin Door!Stopping =>
        doors_proxyBound \subseteq doors_proxyOpen /\ doors_queueBound \subseteq doors_queueOpen

\* The hook is in place from the last stage of the start on, and no call is in it before.
DoorUnhooked ==
    doors_pc \notin {"up"} \cup Door!Stopping =>
        /\ ~doors_hook
        /\ \A c \in DoorCalls :
              doors_call[c].at = "idle" \/ (doors_call[c].at = "inner" /\ ~doors_call[c].hooked)

\* A call is about to bind the listener, or the proxy, of a network.
DoorQueueing(n) == \E c \in DoorCalls : doors_call[c].at = "queue" /\ doors_call[c].net = n
DoorProxying(n) ==
    \E c \in DoorCalls : doors_call[c].at \in {"queue", "proxy"} /\ doors_call[c].net = n

\* What each stage of the start has of a network that is not excused.
DoorServing(n) ==
    /\ doors_pc = "gateways" => n \in doors_proxyOpen \cup doors_todo
    /\ doors_pc \in {"front", "queueList", "endpoint"} => n \in doors_proxyOpen
    /\ doors_pc = "endpoint" => n \in doors_todo
    /\ doors_pc = "up" => /\ n \in doors_proxyOpen \/ DoorProxying(n)
                          /\ n \in doors_queueOpen \/ DoorQueueing(n)

DoorServed == \A n \in doors_made : n \in doors_early \/ n \in doors_unbound \/ DoorServing(n)

\* What is shut stays shut, or somebody has noted it.
DoorShut ==
    /\ doors_pc \in {"router", "resources", "unlink"} /\ ~doors_late => doors_proxyOpen = {}
    /\ doors_pc \in {"resources", "unlink"} => ~doors_router

DoorInv == DoorTypes /\ DoorBindings /\ DoorUnhooked /\ DoorServed /\ DoorShut

\* A process that ends leaves nothing behind.
LEMMA DoorExits ==
    ASSUME Door!Exits
    PROVE  /\ doors_proxyOpen' = {} /\ doors_proxyBound' = {}
           /\ doors_queueOpen' = {} /\ doors_queueBound' = {} /\ doors_todo' = {}
           /\ ~doors_router' /\ doors_router' \in BOOLEAN
           /\ ~doors_hook' /\ doors_hook' \in BOOLEAN
           /\ doors_call' \in [DoorCalls -> DoorCall]
           /\ \A c \in DoorCalls : doors_call'[c].at = "idle"
BY DEF Door!Exits, DoorCall, Door!Idle

\* The start of a daemon, from nothing.
LEMMA DoorStepStart ==
    ASSUME DoorInv, Door!Start
    PROVE  DoorInv'
<1>1. DoorTypes'
  BY DEF DoorInv, DoorTypes, Door!Start, Door!Starting, Door!doors, Door!Go
<1>2. DoorBindings'
  BY DEF DoorInv, DoorBindings, Door!Start, Door!Stopping, Door!doors
<1>3. DoorUnhooked'
  BY DEF DoorInv, DoorUnhooked, Door!Start, Door!Stopping
<1>4. DoorServed'
  BY DEF DoorInv, DoorServed, DoorServing, Door!Start, Door!Go
<1>5. DoorShut'
  BY DEF DoorInv, DoorShut, Door!Start, Door!Go
<1>6. QED
  BY <1>1, <1>2, <1>3, <1>4, <1>5 DEF DoorInv

\* Requests may come from now on, of calls that are not hooked.
LEMMA DoorStepSocket ==
    ASSUME DoorInv, Door!Socket
    PROVE  DoorInv'
<1>1. DoorTypes'
  BY DEF DoorInv, DoorTypes, Door!Socket, Door!Starting, Door!doors, Door!count, Door!noted,
     Door!Go
<1>2. DoorBindings'
  BY DEF DoorInv, DoorBindings, Door!Socket, Door!Stopping, Door!doors
<1>3. DoorUnhooked'
  BY DEF DoorInv, DoorUnhooked, Door!Socket, Door!Stopping
<1>4. DoorServed'
  BY DEF DoorInv, DoorServed, DoorServing, Door!Socket, Door!Go
<1>5. DoorShut'
  BY DEF DoorInv, DoorShut, Door!Socket, Door!Go
<1>6. QED
  BY <1>1, <1>2, <1>3, <1>4, <1>5 DEF DoorInv

\* Every network there is has still to be bound.
LEMMA DoorStepListGateways ==
    ASSUME DoorInv, Door!ListGateways
    PROVE  DoorInv'
<1>1. DoorTypes'
  BY DEF DoorInv, DoorTypes, Door!ListGateways, Door!Starting, Door!doors, Door!count,
     Door!noted, Door!Go
<1>2. DoorBindings'
  BY DEF DoorInv, DoorBindings, Door!ListGateways, Door!Stopping, Door!doors
<1>3. DoorUnhooked'
  BY DEF DoorInv, DoorUnhooked, Door!ListGateways, Door!Stopping
<1>4. DoorServed'
  BY DEF DoorInv, DoorServed, DoorServing, Door!ListGateways, Door!Go
<1>5. DoorShut'
  BY DEF DoorInv, DoorShut, Door!ListGateways, Door!Go
<1>6. QED
  BY <1>1, <1>2, <1>3, <1>4, <1>5 DEF DoorInv

\* A gateway is bound, or noted as unbound.
LEMMA DoorStepGatewayProxy ==
    ASSUME DoorInv, Door!GatewayProxy
    PROVE  DoorInv'
<1>1. DoorTypes'
  BY DEF DoorInv, DoorTypes, Door!GatewayProxy, Door!Starting, Door!Well, Door!Fault, Door!Go
<1>2. DoorBindings'
  BY DEF DoorInv, DoorBindings, Door!GatewayProxy, Door!Stopping
<1>3. DoorUnhooked'
  BY DEF DoorInv, DoorUnhooked, Door!GatewayProxy, Door!Stopping
<1>4. DoorServed'
  BY DEF DoorInv, DoorServed, DoorServing, Door!GatewayProxy, Door!Go
<1>5. DoorShut'
  BY DEF DoorInv, DoorShut, Door!GatewayProxy, Door!Go
<1>6. QED
  BY <1>1, <1>2, <1>3, <1>4, <1>5 DEF DoorInv

\* Nothing is taken from the proxies.
LEMMA DoorStepFront ==
    ASSUME DoorInv, Door!Front
    PROVE  DoorInv'
<1>1. DoorTypes'
  BY DEF DoorInv, DoorTypes, Door!Front, Door!Starting, Door!count, Door!noted, Door!Go
<1>2. DoorBindings'
  BY DEF DoorInv, DoorBindings, Door!Front, Door!Stopping, Door!count, Door!noted, Door!Go
<1>3. DoorUnhooked'
  BY DEF DoorInv, DoorUnhooked, Door!Front, Door!Stopping, Door!count, Door!noted, Door!Go
<1>4. DoorServed'
  BY DEF DoorInv, DoorServed, DoorServing, Door!Front, Door!noted, Door!Go
<1>5. DoorShut'
  BY DEF DoorInv, DoorShut, Door!Front, Door!Go
<1>6. QED
  BY <1>1, <1>2, <1>3, <1>4, <1>5 DEF DoorInv

\* Every network there is gets the enqueue listener.
LEMMA DoorStepListQueueHosts ==
    ASSUME DoorInv, Door!ListQueueHosts
    PROVE  DoorInv'
<1>1. DoorTypes'
  BY DEF DoorInv, DoorTypes, Door!ListQueueHosts, Door!Starting, Door!doors, Door!count,
     Door!noted, Door!Go
<1>2. DoorBindings'
  BY DEF DoorInv, DoorBindings, Door!ListQueueHosts, Door!Stopping, Door!doors
<1>3. DoorUnhooked'
  BY DEF DoorInv, DoorUnhooked, Door!ListQueueHosts, Door!Stopping
<1>4. DoorServed'
  BY DEF DoorInv, DoorServed, DoorServing, Door!ListQueueHosts, Door!doors, Door!noted,
     Door!Go
<1>5. DoorShut'
  BY DEF DoorInv, DoorShut, Door!ListQueueHosts, Door!Go
<1>6. QED
  BY <1>1, <1>2, <1>3, <1>4, <1>5 DEF DoorInv

\* The enqueue listener is on all of them, or the start has failed.
LEMMA DoorStepEndpoint ==
    ASSUME DoorInv, Door!Endpoint
    PROVE  DoorInv'
<1>1. DoorTypes'
  <2>1. CASE Door!Exits
    BY <2>1, DoorExits DEF DoorInv, DoorTypes, Door!Endpoint, Door!noted, Door!Fault, Door!Go
  <2>2. CASE ~Door!Exits
    BY <2>2 DEF DoorInv, DoorTypes, Door!Endpoint, Door!noted, Door!Well, Door!Go
  <2>3. QED
    BY <2>1, <2>2
<1>2. DoorBindings'
  BY DEF DoorInv, DoorBindings, Door!Endpoint, Door!Exits, Door!Stopping
<1>3. DoorUnhooked'
  BY DEF DoorInv, DoorUnhooked, Door!Endpoint, Door!Exits, Door!Go, Door!Idle
<1>4. DoorServed'
  BY DEF DoorInv, DoorServed, DoorServing, Door!Endpoint, Door!Exits, Door!noted, Door!Go
<1>5. DoorShut'
  BY DEF DoorInv, DoorShut, Door!Endpoint, Door!Exits, Door!Go
<1>6. QED
  BY <1>1, <1>2, <1>3, <1>4, <1>5 DEF DoorInv

\* Shutdown begins; nothing is shut.
LEMMA DoorStepSignal ==
    ASSUME DoorInv, Door!Signal
    PROVE  DoorInv'
<1>1. DoorTypes'
  BY DEF DoorInv, DoorTypes, Door!Signal, Door!Stopping, Door!doors, Door!count, Door!noted,
     Door!Go
<1>2. DoorBindings'
  BY DEF DoorInv, DoorBindings, Door!Signal, Door!Stopping, Door!Go
<1>3. DoorUnhooked'
  BY DEF DoorInv, DoorUnhooked, Door!Signal, Door!Stopping, Door!Go
<1>4. DoorServed'
  BY DEF DoorInv, DoorServed, DoorServing, Door!Signal, Door!Go
<1>5. DoorShut'
  BY DEF DoorInv, DoorShut, Door!Signal, Door!Go
<1>6. QED
  BY <1>1, <1>2, <1>3, <1>4, <1>5 DEF DoorInv

\* The control listeners close, or the daemon fails.
LEMMA DoorStepControls ==
    ASSUME DoorInv, Door!Controls
    PROVE  DoorInv'
<1>1. DoorTypes'
  <2>1. CASE doors_first' = TRUE /\ Door!Fault /\ Door!Go("failed") /\ Door!Exits
    BY <2>1, DoorExits DEF DoorInv, DoorTypes, Door!Controls, Door!Fault, Door!Go
  <2>2. CASE Door!Well /\ doors_queueOpen' = {} /\ Door!Go("caddy")
               /\ UNCHANGED <<doors_first, doors_router, doors_proxyOpen, doors_proxyBound,
                    doors_queueBound, doors_hook, doors_todo, doors_call>>
    BY <2>2 DEF DoorInv, DoorTypes, Door!Controls, Door!Stopping, Door!Well, Door!Go
  <2>3. QED
    BY <2>1, <2>2 DEF Door!Controls, Door!Well, Door!Fault, Door!Go
<1>2. DoorBindings'
  BY DEF DoorInv, DoorBindings, Door!Controls, Door!Exits, Door!Stopping, Door!Go
<1>3. DoorUnhooked'
  BY DEF DoorInv, DoorUnhooked, Door!Controls, Door!Exits, Door!Stopping, Door!Go, Door!Idle
<1>4. DoorServed'
  BY DEF DoorInv, DoorServed, DoorServing, Door!Controls, Door!Exits, Door!Go
<1>5. DoorShut'
  BY DEF DoorInv, DoorShut, Door!Controls, Door!Exits, Door!Go
<1>6. QED
  BY <1>1, <1>2, <1>3, <1>4, <1>5 DEF DoorInv

\* The front door closes, or stays.
LEMMA DoorStepStopCaddy ==
    ASSUME DoorInv, Door!StopCaddy
    PROVE  DoorInv'
<1>1. DoorTypes'
  <2>1. CASE Door!Well /\ doors_caddy' = FALSE /\ Door!Go("loops")
    BY <2>1 DEF DoorInv, DoorTypes, Door!StopCaddy, Door!Stopping, Door!noted, Door!Well,
       Door!Go
  <2>2. CASE Door!Fault /\ Door!CaddyFailed /\ UNCHANGED doors_caddy
    BY <2>2 DEF DoorInv, DoorTypes, Door!StopCaddy, Door!CaddyFailed, Door!Stopping,
       Door!noted, Door!Fault, Door!Go
  <2>3. QED
    BY <2>1, <2>2 DEF Door!StopCaddy, Door!noted, Door!Well, Door!Fault, Door!Go
<1>2. DoorBindings'
  BY DEF DoorInv, DoorBindings, Door!StopCaddy, Door!CaddyFailed, Door!Stopping, Door!Go
<1>3. DoorUnhooked'
  BY DEF DoorInv, DoorUnhooked, Door!StopCaddy, Door!CaddyFailed, Door!Stopping, Door!Go
<1>4. DoorServed'
  BY DEF DoorInv, DoorServed, DoorServing, Door!StopCaddy, Door!CaddyFailed, Door!Go
<1>5. DoorShut'
  BY DEF DoorInv, DoorShut, Door!StopCaddy, Door!CaddyFailed, Door!Go
<1>6. QED
  BY <1>1, <1>2, <1>3, <1>4, <1>5 DEF DoorInv

\* The loops are over.
LEMMA DoorStepLoops ==
    ASSUME DoorInv, Door!Loops
    PROVE  DoorInv'
<1>1. DoorTypes'
  BY DEF DoorInv, DoorTypes, Door!Loops, Door!Stopping, Door!doors, Door!count, Door!noted,
     Door!Go
<1>2. DoorBindings'
  BY DEF DoorInv, DoorBindings, Door!Loops, Door!Stopping, Door!Go
<1>3. DoorUnhooked'
  BY DEF DoorInv, DoorUnhooked, Door!Loops, Door!Stopping, Door!Go
<1>4. DoorServed'
  BY DEF DoorInv, DoorServed, DoorServing, Door!Loops, Door!Go
<1>5. DoorShut'
  BY DEF DoorInv, DoorShut, Door!Loops, Door!Go
<1>6. QED
  BY <1>1, <1>2, <1>3, <1>4, <1>5 DEF DoorInv

\* Every proxy closes, or one that does not is noted.
LEMMA DoorStepCloseProxies ==
    ASSUME DoorInv, Door!CloseProxies
    PROVE  DoorInv'
<1>1. DoorTypes'
  BY DEF DoorInv, DoorTypes, Door!CloseProxies, Door!Closed, Door!Stopping, Door!Well,
     Door!Fault, Door!Go
<1>2. DoorBindings'
  BY DEF DoorInv, DoorBindings, Door!CloseProxies, Door!Closed, Door!Stopping, Door!Go
<1>3. DoorUnhooked'
  BY DEF DoorInv, DoorUnhooked, Door!CloseProxies, Door!Closed, Door!Stopping, Door!Go
<1>4. DoorServed'
  BY DEF DoorInv, DoorServed, DoorServing, Door!CloseProxies, Door!Closed, Door!Go
<1>5. DoorShut'
  <2>1. CASE doors_faults' = doors_faults
    BY <2>1 DEF DoorInv, DoorTypes, DoorShut, Door!CloseProxies, Door!Closed, Door!Fault,
       Door!Go
  <2>2. CASE doors_faults' # doors_faults
    BY <2>2 DEF DoorInv, DoorShut, Door!CloseProxies, Door!Closed, Door!Go
  <2>3. QED
    BY <2>1, <2>2
<1>6. QED
  BY <1>1, <1>2, <1>3, <1>4, <1>5 DEF DoorInv

\* The router closes.
LEMMA DoorStepCloseRouter ==
    ASSUME DoorInv, Door!CloseRouter
    PROVE  DoorInv'
<1>1. DoorTypes'
  BY DEF DoorInv, DoorTypes, Door!CloseRouter, Door!Stopping, Door!count, Door!noted, Door!Go
<1>2. DoorBindings'
  BY DEF DoorInv, DoorBindings, Door!CloseRouter, Door!Stopping, Door!Go
<1>3. DoorUnhooked'
  BY DEF DoorInv, DoorUnhooked, Door!CloseRouter, Door!Stopping, Door!Go
<1>4. DoorServed'
  BY DEF DoorInv, DoorServed, DoorServing, Door!CloseRouter, Door!noted, Door!Go
<1>5. DoorShut'
  BY DEF DoorInv, DoorShut, Door!CloseRouter, Door!noted, Door!Go
<1>6. QED
  BY <1>1, <1>2, <1>3, <1>4, <1>5 DEF DoorInv

\* Resources stop behind what is shut.
LEMMA DoorStepStopResources ==
    ASSUME DoorInv, Door!StopResources
    PROVE  DoorInv'
<1>1. DoorTypes'
  BY DEF DoorInv, DoorTypes, Door!StopResources, Door!Stopping, Door!doors, Door!count,
     Door!noted, Door!Go
<1>2. DoorBindings'
  BY DEF DoorInv, DoorBindings, Door!StopResources, Door!Stopping, Door!Go
<1>3. DoorUnhooked'
  BY DEF DoorInv, DoorUnhooked, Door!StopResources, Door!Stopping, Door!Go
<1>4. DoorServed'
  BY DEF DoorInv, DoorServed, DoorServing, Door!StopResources, Door!Go
<1>5. DoorShut'
  BY DEF DoorInv, DoorShut, Door!StopResources, Door!doors, Door!noted
<1>6. QED
  BY <1>1, <1>2, <1>3, <1>4, <1>5 DEF DoorInv

\* The end of a daemon.
LEMMA DoorStepRelease ==
    ASSUME DoorInv, Door!Release
    PROVE  DoorInv'
<1>1. DoorTypes'
  <2>1. CASE doors_faults' = doors_faults
    BY <2>1, DoorExits DEF DoorInv, DoorTypes, Door!Release, Door!noted, Door!Go
  <2>2. CASE doors_faults' # doors_faults
    BY <2>2, DoorExits DEF DoorInv, DoorTypes, Door!Release, Door!noted, Door!Well,
       Door!Fault, Door!Go
  <2>3. QED
    BY <2>1, <2>2
<1>2. DoorBindings'
  BY DEF DoorInv, DoorBindings, Door!Release, Door!Exits
<1>3. DoorUnhooked'
  BY DEF DoorInv, DoorUnhooked, Door!Release, Door!Exits, Door!Idle
<1>4. DoorServed'
  BY DEF DoorInv, DoorServed, DoorServing, Door!Release, Door!Exits, Door!Go
<1>5. DoorShut'
  BY DEF DoorInv, DoorShut, Door!Release, Door!Exits
<1>6. QED
  BY <1>1, <1>2, <1>3, <1>4, <1>5 DEF DoorInv

\* An address of the operator's is bound, or the start has failed.
LEMMA DoorStepLocal ==
    ASSUME DoorInv, NEW h \in DoorLocal, Door!LocalProxy(h)
    PROVE  DoorInv'
<1>1. DoorTypes'
  <2>1. CASE Door!Exits
    BY <2>1, DoorExits DEF DoorInv, DoorTypes, Door!LocalProxy, Door!noted, Door!Fault,
       Door!Go
  <2>2. CASE ~Door!Exits
    BY <2>2 DEF DoorInv, DoorTypes, Door!LocalProxy, Door!Starting, Door!noted, Door!Well,
       Door!Go
  <2>3. QED
    BY <2>1, <2>2
<1>2. DoorBindings'
  BY DEF DoorInv, DoorBindings, Door!LocalProxy, Door!Exits, Door!Stopping
<1>3. DoorUnhooked'
  BY DEF DoorInv, DoorUnhooked, Door!LocalProxy, Door!Exits, Door!Stopping, Door!Idle
<1>4. DoorServed'
  BY DEF DoorInv, DoorServed, DoorServing, Door!LocalProxy, Door!Exits, Door!Go
<1>5. DoorShut'
  BY DEF DoorInv, DoorShut, Door!LocalProxy, Door!Exits, Door!Go
<1>6. QED
  BY <1>1, <1>2, <1>3, <1>4, <1>5 DEF DoorInv

\* A network is made: early, or with its call about to bind it.
LEMMA DoorStepMade ==
    ASSUME DoorInv, NEW c \in DoorCalls, Door!Made(c)
    PROVE  DoorInv'
<1>1. DoorTypes'
  BY DEF DoorInv, DoorTypes, DoorCall, Door!Made, Door!doors, Door!count, Door!Idle
<1>2. DoorBindings'
  BY DEF DoorInv, DoorBindings, Door!Made, Door!doors
<1>3. DoorUnhooked'
  BY DEF DoorInv, DoorTypes, DoorUnhooked, Door!Made, Door!Idle
<1>4. DoorServed'
  BY DEF DoorInv, DoorTypes, DoorCall, DoorUnhooked, DoorServed, DoorServing, DoorProxying,
     DoorQueueing, Door!Made, Door!Stopping, Door!doors, Door!Idle
<1>5. DoorShut'
  BY DEF DoorInv, DoorShut, Door!Made, Door!doors
<1>6. QED
  BY <1>1, <1>2, <1>3, <1>4, <1>5 DEF DoorInv

\* The enqueue listener of a network is bound, or noted as unbound.
LEMMA DoorStepHost ==
    ASSUME DoorInv, NEW c \in DoorCalls, Door!AddHost(c)
    PROVE  DoorInv'
<1>1. DoorTypes'
  BY DEF DoorInv, DoorTypes, DoorCall, Door!AddHost, Door!Marks, Door!Well, Door!Fault,
     Door!Idle
<1>2. DoorBindings'
  BY DEF DoorInv, DoorBindings, Door!AddHost, Door!Marks, Door!Stopping, Door!Well,
     Door!Fault
<1>3. DoorUnhooked'
  BY DEF DoorInv, DoorTypes, DoorCall, DoorUnhooked, Door!AddHost, Door!Stopping, Door!Idle
<1>4. DoorServed'
  BY DEF DoorInv, DoorTypes, DoorCall, DoorBindings, DoorUnhooked, DoorServed, DoorServing,
     DoorProxying, DoorQueueing, Door!AddHost, Door!Marks, Door!Starting, Door!Stopping,
     Door!Well, Door!Fault, Door!Idle
<1>5. DoorShut'
  BY DEF DoorInv, DoorShut, Door!AddHost, Door!Marks
<1>6. QED
  BY <1>1, <1>2, <1>3, <1>4, <1>5 DEF DoorInv

\* The proxy of a network is bound, or noted as unbound.
LEMMA DoorStepProxy ==
    ASSUME DoorInv, NEW c \in DoorCalls, Door!AddProxy(c)
    PROVE  DoorInv'
<1>1. DoorTypes'
  BY DEF DoorInv, DoorTypes, DoorCall, Door!AddProxy, Door!Marks, Door!Well, Door!Fault,
     Door!Idle
<1>2. DoorBindings'
  BY DEF DoorInv, DoorBindings, Door!AddProxy, Door!Marks
<1>3. DoorUnhooked'
  BY DEF DoorInv, DoorTypes, DoorCall, DoorUnhooked, Door!AddProxy, Door!Marks,
     Door!Starting, Door!Stopping, Door!Well, Door!Fault, Door!Idle
<1>4. DoorServed'
  BY DEF DoorInv, DoorBindings, DoorServed, DoorServing, DoorProxying, DoorQueueing,
     Door!AddProxy, Door!Marks, Door!Stopping
<1>5. DoorShut'
  BY DEF DoorInv, DoorShut, Door!AddProxy, Door!Marks
<1>6. QED
  BY <1>1, <1>2, <1>3, <1>4, <1>5 DEF DoorInv

\* A call begins; it has made nothing.
LEMMA DoorStepBegin ==
    ASSUME DoorInv, NEW c \in DoorCalls, NEW n \in DoorNetworks,
           NEW from \in {"socket", "wake"}, Door!Begin(c, n, from)
    PROVE  DoorInv'
<1>1. DoorTypes'
  BY DEF DoorInv, DoorTypes, DoorCall, Door!Begin, Door!doors, Door!noted
<1>2. DoorBindings'
  BY DEF DoorInv, DoorBindings, Door!Begin, Door!doors
<1>3. DoorUnhooked'
  BY DEF DoorInv, DoorUnhooked, Door!Begin
<1>4. DoorServed'
  BY DEF DoorInv, DoorServed, DoorServing, DoorProxying, DoorQueueing, Door!Begin,
     Door!doors, Door!noted
<1>5. DoorShut'
  BY DEF DoorInv, DoorShut, Door!Begin, Door!doors, Door!noted
<1>6. QED
  BY <1>1, <1>2, <1>3, <1>4, <1>5 DEF DoorInv

\* A daemon that is down has nothing open and nobody calling.
LEMMA DoorInit == Door!Init => DoorInv
<1>1. SUFFICES ASSUME Door!Init PROVE DoorInv
  OBVIOUS
<1>2. DoorTypes
  <2>1. /\ doors_router \in BOOLEAN /\ doors_caddy \in BOOLEAN /\ doors_hook \in BOOLEAN
        /\ doors_late \in BOOLEAN /\ doors_first \in BOOLEAN
    BY <1>1, Zenon DEF Door!Init
  <2>2. QED
    BY <1>1, <2>1 DEF Door!Init, DoorTypes, DoorCall, Door!Idle
<1>3. DoorBindings /\ DoorUnhooked /\ DoorServed /\ DoorShut
  BY <1>1 DEF Door!Init, DoorBindings, DoorUnhooked, DoorServed, DoorShut, Door!Idle
<1>4. QED
  BY <1>2, <1>3 DEF DoorInv

\* A step that changes nothing.
LEMMA DoorRests == DoorInv /\ UNCHANGED Door!vars => DoorInv'
BY DEF Door!vars, DoorInv, DoorTypes, DoorBindings, DoorUnhooked, DoorServed, DoorServing,
   DoorProxying, DoorQueueing, DoorShut

\* Every step keeps the invariant.
LEMMA DoorNext == DoorInv /\ [Door!Next]_(Door!vars) => DoorInv'
BY DoorRests, DoorStepStart, DoorStepSocket, DoorStepListGateways, DoorStepGatewayProxy,
   DoorStepFront, DoorStepListQueueHosts, DoorStepEndpoint, DoorStepSignal, DoorStepControls,
   DoorStepStopCaddy, DoorStepLoops, DoorStepCloseProxies, DoorStepCloseRouter,
   DoorStepStopResources, DoorStepRelease, DoorStepLocal, DoorStepMade, DoorStepHost,
   DoorStepProxy, DoorStepBegin DEF Door!Next

\* What the invariant says of the daemon that serves and of the one that stops.
LEMMA DoorSound ==
    DoorInv => Door!TypeOK /\ Door!GatewaysAreServed /\ Door!StopsBehindClosedDoors
<1>1. ASSUME DoorInv PROVE Door!TypeOK
  BY <1>1 DEF DoorInv, DoorTypes, Door!TypeOK
<1>2. ASSUME DoorInv PROVE Door!GatewaysAreServed
  BY <1>2 DEF DoorInv, DoorServed, DoorServing, DoorProxying, DoorQueueing,
     Door!GatewaysAreServed
<1>3. ASSUME DoorInv PROVE Door!StopsBehindClosedDoors
  BY <1>3 DEF DoorInv, DoorShut, Door!StopsBehindClosedDoors
<1>4. QED
  BY <1>1, <1>2, <1>3

\* No step but that of the control listeners fails a shutdown.
LEMMA DoorEnds ==
    ASSUME [Door!Next]_(Door!vars)
    PROVE  doors_pc \in Door!Stopping /\ doors_pc' = "failed" => doors_first'
<1>1. SUFFICES ASSUME doors_pc \in Door!Stopping, doors_pc' = "failed" PROVE doors_first'
  OBVIOUS
<1>2. doors_pc' # doors_pc
  BY <1>1 DEF Door!Stopping
<1>3. Door!Controls
  BY <1>1, <1>2 DEF Door!vars, Door!Next, Door!Stopping, Door!Go, Door!Start, Door!Socket,
     Door!ListGateways, Door!GatewayProxy, Door!Front, Door!ListQueueHosts, Door!Endpoint,
     Door!Signal, Door!StopCaddy, Door!CaddyFailed, Door!Loops, Door!CloseProxies,
     Door!CloseRouter, Door!StopResources, Door!Release, Door!LocalProxy, Door!Made,
     Door!AddHost, Door!AddProxy, Door!Begin
<1>4. QED
  BY <1>1, <1>3 DEF Door!Controls, Door!Go

\* Whatever fails and whoever makes networks.
LEMMA DoorHolds == Door!Spec => Door!DoorsAreSound
<1>1. Door!Spec => []DoorInv
  BY DoorInit, DoorNext, PTL DEF Door!Spec
<1>2. Door!Spec => [](Door!TypeOK /\ Door!GatewaysAreServed /\ Door!StopsBehindClosedDoors)
  BY <1>1, DoorSound, PTL
<1>3. Door!Spec => Door!ShutdownGetsToItsEnd
  BY DoorEnds, PTL DEF Door!Spec, Door!ShutdownGetsToItsEnd
<1>4. QED
  BY <1>2, <1>3 DEF Door!DoorsAreSound

-----------------------------------------------------------------------------
(* Side by side.                                                           *)

\* A step of the daemon's services is a step of each of them or leaves it as it is.
LEMMA ServicesStep ==
    ASSUME [EveryNext]_everything
    PROVE  /\ [Gate!Next]_(Gate!vars) /\ [Cert!Next]_(Cert!vars)
           /\ [Tokens!Next]_(Tokens!vars) /\ [Send!Next]_(Send!vars)
           /\ [Sign!Next]_(Sign!vars) /\ [Lock!Next]_(Lock!vars)
           /\ [Address!Next]_(Address!vars) /\ [Door!Next]_(Door!vars)
<1>1. CASE UNCHANGED everything
  BY <1>1 DEF everything, gateVars, tlsVars, tokensVars, enqueueVars, signinVars,
     lockVars, addressesVars, doorsVars, Gate!vars, Cert!vars, Tokens!vars, Send!vars,
     Sign!vars, Lock!vars, Address!vars, Door!vars
<1>2. CASE EveryNext
  BY <1>2 DEF EveryNext, gateVars, tlsVars, tokensVars, enqueueVars, signinVars,
     lockVars, addressesVars, doorsVars, Gate!vars, Cert!vars, Tokens!vars, Send!vars,
     Sign!vars, Lock!vars, Address!vars, Door!vars
<1>3. QED
  BY <1>1, <1>2

\* The gate and the routes behind it read a path alike, and what is missing of the studio
\* is missing (handle, serveStudioStatic), for paths of any length and of any pieces.
THEOREM GateReads == SpecServices => []GateIsSound
<1>1. EveryInit => Gate!Init
  BY DEF EveryInit
<1>2. SpecServices => Gate!Spec
  BY <1>1, ServicesStep, PTL DEF SpecServices, Gate!Spec
<1>3. Gate!GateIsSound => GateIsSound
  BY DEF GateIsSound, At
<1>4. QED
  BY <1>2, <1>3, GateHolds, PTL

\* A connection that is handed a server after a renewal gets the renewed certificate
\* with the key it belongs to, none is left without one, and none is taken for newer
\* than it is (createTlsAcceptor), for any number of connections and renewals.
THEOREM CertificateServed == SpecServices => []TlsIsSound
<1>1. EveryInit => Cert!Init
  BY DEF EveryInit
<1>2. SpecServices => Cert!Spec
  BY <1>1, ServicesStep, PTL DEF SpecServices, Cert!Spec
<1>3. Cert!TlsIsSound => TlsIsSound
  BY DEF TlsIsSound, At
<1>4. QED
  BY <1>2, <1>3, CertHolds, PTL

\* Tokens that were given stay, revoked ones are gone and the verdicts say which
\* (tokens.ts), for any number of requests, commands, names and tokens.
THEOREM TokensKept == SpecServices => []TokensAreSound
<1>1. EveryInit => Tokens!Init
  BY DEF EveryInit
<1>2. SpecServices => Tokens!Spec
  BY <1>1, ServicesStep, PTL DEF SpecServices, Tokens!Spec
<1>3. Tokens!TokensAreSound => TokensAreSound
  BY DEF TokensAreSound, At
<1>4. QED
  BY <1>2, <1>3, TokenHolds, PTL

\* A message is of the project whose worker sent it and of a queue that exists
\* (handleEnqueue), for any number of requests, projects and queues.
THEOREM SendsArrive == SpecServices => []SendsAreSound
<1>1. EveryInit => Send!Init
  BY DEF EveryInit
<1>2. SpecServices => Send!Spec
  BY <1>1, ServicesStep, PTL DEF SpecServices, Send!Spec
<1>3. Send!SendsAreSound => SendsAreSound
  BY DEF SendsAreSound, At
<1>4. QED
  BY <1>2, <1>3, SendHolds, PTL

\* A password is judged by what was on file while it was, a session ends when it is due and
\* not before, and whoever fails waits, longer each time, unless forgotten in a full table
\* (auth.ts, session.ts), for any number of requests, addresses, passwords and sessions.
THEOREM SignInsKept == SpecServices => []SignInsAreSound
<1>1. EveryInit => Sign!Init
  BY DEF EveryInit
<1>2. SpecServices => Sign!Spec
  BY <1>1, ServicesStep, PTL DEF SpecServices, Sign!Spec
<1>3. Sign!SignInsAreSound => SignInsAreSound
  BY DEF SignInsAreSound, At
<1>4. QED
  BY <1>2, <1>3, SignHolds, PTL

\* An address that was given out leads to what it was given out for, or nowhere: keys,
\* hostnames, ports, a container's DATABASE_URL and the files that are handed over
\* (names.ts, routes.ts, snapshots.ts), for any number of projects, rows, names and copies.
THEOREM AddressesHeld == SpecServices => []AddressesLead
<1>1. EveryInit => Address!Init
  BY DEF EveryInit
<1>2. SpecServices => Address!Spec
  BY <1>1, ServicesStep, PTL DEF SpecServices, Address!Spec
<1>3. Address!AddressesLead => AddressesLead
  BY DEF AddressesLead, At
<1>4. QED
  BY <1>2, <1>3, AddrHolds, PTL

\* While the daemon serves, the containers of every network reach the proxy and the enqueue
\* listener, but for networks of a start and failed bindings; resources are stopped behind
\* shut doors; and once the control listeners have closed no failure keeps a shutdown from
\* its end (startDaemon, ensureNetwork, performShutdown): for any number of networks, calls,
\* addresses, failures and starts.
THEOREM DoorsKept == SpecServices => DoorsAreSound
<1>1. EveryInit => Door!Init
  BY DEF EveryInit
<1>2. SpecServices => Door!Spec
  BY <1>1, ServicesStep, PTL DEF SpecServices, Door!Spec
<1>3. QED
  BY <1>2, DoorHolds DEF DoorsAreSound

\* Every behaviour of the services has a behaviour of the lock in it.
LEMMA LockIsRun == SpecServices => []LoneInv
<1>1. EveryInit => Lock!Init
  BY DEF EveryInit
<1>2. SpecServices => Lock!Spec
  BY <1>1, ServicesStep, PTL DEF SpecServices, Lock!Spec
<1>3. QED
  BY <1>2, LoneAlways

\* Every variable of the lock keeps its type.
THEOREM LockTypeCorrect == SpecServices => []Lock!TypeOK
<1>1. LoneInv => Lock!TypeOK
  BY DEF LoneInv
<1>2. QED
  BY <1>1, LockIsRun, PTL

\* One daemon at most serves while no two processes were at the lock at once
\* (acquireDaemonLock, release).
THEOREM LoneExclusive == SpecServices => []Lock!LoneStartIsExclusive
<1>1. LoneInv => Lock!LoneStartIsExclusive
  BY DEF LoneInv, Lock!LoneStartIsExclusive, Lock!AtMostOne, LockKept, Lock!Serving
<1>2. QED
  BY <1>1, LockIsRun, PTL

\* The lock names the daemon that serves (cmdDaemon, inspectDaemonLock).
THEOREM LockNames == SpecServices => []Lock!LockNamesTheDaemon
<1>1. LoneInv => Lock!LockNamesTheDaemon
  BY DEF LoneInv, Lock!LockNamesTheDaemon, LockOwned
<1>2. QED
  BY <1>1, LockIsRun, PTL

\* The three together, as the run checks them.
THEOREM LockSound == SpecServices => []LockIsSound
<1>1. Lock!TypeOK /\ Lock!LoneStartIsExclusive /\ Lock!LockNamesTheDaemon => LockIsSound
  BY DEF Lock!LockIsSound, LockIsSound, At
<1>2. QED
  BY <1>1, LockTypeCorrect, LoneExclusive, LockNames, PTL
=============================================================================
