--------------------------- MODULE PgProxyProofs ---------------------------
(***************************************************************************)
(* Theorems about PgProxy: for any number of clients, cancels, databases   *)
(* and keys and for any time limits, whatever the backends, the wakes and  *)
(* the clients do.                                                         *)
(***************************************************************************)
EXTENDS PgProxy, FiniteSetTheorems, TLAPS

-----------------------------------------------------------------------------
(* The inductive invariant.                                                *)

\* The types of all that is not said below.
Places ==
    /\ row \in [Databases -> {"running", "asleep", "gone"}]
    /\ box \in [Databases -> {"down", "booting", "serving"}]
    /\ waking \subseteq Databases /\ refused \subseteq Databases
    /\ linked \subseteq Clients /\ gone \subseteq Clients /\ secure \subseteq Clients
    /\ pc \in [Clients -> Stages] /\ want \in [Clients -> Databases]
    /\ asked \in [Clients -> 0 .. Negotiations]

\* Who is held has a handle, or had one when an explicit stop forgot it.
Handles ==
    /\ held \subseteq Clients /\ live \cup dropped = held
    /\ \A c \in held : pc[c] \in Holding \cup {"dialing"}
    /\ \A c \in Clients : pc[c] \in Holding => c \in held

\* Two holds at most, each with its last dial and its last answer; only a connection
\* whose time is not over goes on to another dial.
Most == Budget + DialTime + Floor
Limits ==
    /\ spent \in [Clients -> Nat] /\ until \in [Clients -> Nat] /\ wakes \in [Clients -> {0, 1}]
    /\ \A c \in Clients :
          /\ spent[c] <= Most + DialTime + Floor
          /\ pc[c] \in {"off", "reading"} => spent[c] = 0 /\ wakes[c] = 0
          /\ pc[c] = "waking" => wakes[c] = 1 /\ spent[c] <= until[c] /\ until[c] <= Most
          /\ pc[c] = "dialing" => spent[c] <= IF wakes[c] = 0 THEN Budget ELSE Most
          /\ pc[c] = "asking" => spent[c] <= until[c] /\ until[c] <= Most + DialTime + Floor
          /\ pc[c] = "pausing" => spent[c] < Budget

\* What a client was told; one that hung up has not got through.
Told ==
    /\ told \in [Clients -> SUBSET {"error", "session"}]
    /\ \A c \in Clients :
          /\ pc[c] \in {"off", "reading", "asking", "spliced"} => c \notin gone
          /\ pc[c] \notin {"spliced", "done"} => told[c] = {}
          /\ pc[c] = "spliced" => told[c] = {"session"}
          /\ pc[c] = "done" /\ c \notin gone => told[c] \in {{"error"}, {"session"}}

\* No key is given twice: not by the proxy, nor by one backend.  A session's keys
\* outlive it.
KeysAreOnes ==
    /\ minted \in [Clients -> Minted \cup {NoKey}]
    /\ session \in [Clients -> BackendKeys \cup {NoKey}]
    /\ \A c \in Clients :
          pc[c] \notin {"spliced", "done"} => minted[c] = NoKey /\ session[c] = NoKey
    /\ \A c, o \in Clients : minted[c] = minted[o] /\ minted[c] # NoKey => c = o
    /\ \A c, o \in Clients :
          want[c] = want[o] /\ session[c] = session[o] /\ session[c] # NoKey => c = o

\* A cancel that is under way carries the keys of one and the same session, and so did
\* those that have landed.
Cancels ==
    /\ cancel \in [Cancellers -> [shown : Minted \cup {NoKey},
                                  route : {Idle} \cup [to : Databases, key : BackendKeys]]]
    /\ \A x \in Cancellers : cancel[x].route # Idle =>
          \E c \in Clients : /\ minted[c] = cancel[x].shown /\ minted[c] # NoKey
                             /\ want[c] = cancel[x].route.to
                             /\ session[c] = cancel[x].route.key /\ session[c] # NoKey
    /\ struck \subseteq Minted \X Clients
    /\ CancelHitsItsSession

ProxyInv == Places /\ Handles /\ Limits /\ Told /\ KeysAreOnes /\ RoutesAreSplices /\ Cancels

\* Every step keeps the types of what is not about handles, times or keys.
LEMMA PlacesStay ==
    ASSUME Places
    PROVE  [Next]_vars => Places'
<1> USE ProxyNumbers DEF Places, Stages
<1>1. ASSUME NEW c \in Clients, ReadFails(c)
      PROVE  Places'
  BY <1>1 DEF ReadFails, Fail, Finish, Answer, tracker, world, clock, keys
<1>2. ASSUME NEW c \in Clients, Startup(c)
      PROVE  Places'
  BY <1>2 DEF Startup, Fail, Finish, Answer, AskWake, tracker, world, clock, keys
<1>3. ASSUME NEW c \in Clients, WakeTimesOut(c)
      PROVE  Places'
  BY <1>3 DEF WakeTimesOut, Fail, Finish, Answer, tracker, world, clock, keys
<1>4. ASSUME NEW c \in Clients, Dial(c)
      PROVE  Places'
  BY <1>4 DEF Dial, Finish, ReleaseHandle, tracker, world, clock, keys
<1>5. ASSUME NEW c \in Clients, DialFails(c)
      PROVE  Places'
  BY <1>5 DEF DialFails, ReleaseHandle, AskWake, Fail, Finish, Answer, tracker, world,
     clock, keys
<1>6. ASSUME NEW c \in Clients, NotServing(c)
      PROVE  Places'
  BY <1>6 DEF NotServing, Fail, Finish, Answer, ReleaseHandle, tracker, world, clock,
     keys
<1>7. ASSUME NEW c \in Clients, AnswerTimesOut(c)
      PROVE  Places'
  BY <1>7 DEF AnswerTimesOut, Fail, Finish, Answer, ReleaseHandle, tracker, world,
     clock, keys
<1>8. ASSUME NEW c \in Clients, Retry(c)
      PROVE  Places'
  BY <1>8 DEF Retry, Finish, ReleaseHandle, tracker, world, clock, keys
<1>9. ASSUME NEW c \in Clients, Splice(c)
      PROVE  Places'
  BY <1>9 DEF Splice, Answer, tracker, world, clock, keys
<1>10. ASSUME NEW c \in Clients, Waits(c)
      PROVE  Places'
  BY <1>10 DEF Waits, tracker, world, clock, keys
<1>11. ASSUME NEW c \in Clients, NEW d \in Databases, Connect(c, d)
      PROVE  Places'
  BY <1>11 DEF Connect, tracker, world, clock, keys
<1>12. ASSUME NEW c \in Clients, NEW ssl \in BOOLEAN, RequestEncryption(c, ssl)
      PROVE  Places'
  BY <1>12 DEF RequestEncryption, Fail, Finish, Answer, tracker, world, clock, keys
<1>13. ASSUME NEW c \in Clients, ClientLeaves(c)
      PROVE  Places'
  BY <1>13 DEF ClientLeaves, Ends, Finish, ReleaseHandle, tracker, world, clock, keys
<1>14. ASSUME NEW c \in Clients, BackendKeyArrives(c)
      PROVE  Places'
  BY <1>14 DEF BackendKeyArrives, tracker, world, clock, keys
<1>15. ASSUME NEW c \in Clients, BackendCloses(c)
      PROVE  Places'
  BY <1>15 DEF BackendCloses, Ends, Finish, ReleaseHandle, tracker, world, clock, keys
<1>16. ASSUME NEW x \in Cancellers, CancelLands(x)
      PROVE  Places'
  BY <1>16 DEF CancelLands, tracker, world, clock, keys
<1>17. ASSUME NEW x \in Cancellers, NEW k \in Minted, CancelArrives(x, k)
      PROVE  Places'
  BY <1>17 DEF CancelArrives, tracker, world, clock, keys
<1>18. ASSUME NEW d \in Databases, WakeEnds(d)
      PROVE  Places'
  BY <1>18 DEF WakeEnds, tracker, world, clock, keys
<1>19. ASSUME NEW d \in Databases, Hibernates(d)
      PROVE  Places'
  BY <1>19 DEF Hibernates, GoesDown, tracker, world, clock, keys
<1>20. ASSUME NEW d \in Databases, Dies(d)
      PROVE  Places'
  BY <1>20 DEF Dies, GoesDown, tracker, world, clock, keys
<1>21. ASSUME NEW d \in Databases, Boots(d)
      PROVE  Places'
  BY <1>21 DEF Boots, tracker, world, clock, keys
<1>22. ASSUME NEW d \in Databases, RefusalLapses(d)
      PROVE  Places'
  BY <1>22 DEF RefusalLapses, tracker, world, clock, keys
<1>23. ASSUME NEW d \in Databases, NEW to \in {"asleep", "gone"}, Stopped(d, to)
      PROVE  Places'
  BY <1>23 DEF Stopped, GoesDown, tracker, world, clock, keys
<1>24. ASSUME UNCHANGED vars
      PROVE  Places'
  BY <1>24 DEF vars, tracker, world, clock, keys
<1> QED
  BY ProxyNumbers, <1>1, <1>2, <1>3, <1>4, <1>5, <1>6, <1>7, <1>8, <1>9, <1>10, <1>11,
     <1>12, <1>13, <1>14, <1>15, <1>16, <1>17, <1>18, <1>19, <1>20, <1>21, <1>22,
     <1>23, <1>24 DEF Next, Connection, Client, Backend, Canceller, Surroundings

\* Every step keeps handles with those who are held.
LEMMA HandlesStay ==
    ASSUME Places, Handles
    PROVE  [Next]_vars => Handles'
<1> USE DEF Places, Handles, Holding
<1>1. ASSUME NEW c \in Clients, ReadFails(c)
      PROVE  Handles'
  BY <1>1 DEF ReadFails, Fail, Finish, Answer, tracker, world, clock, keys
<1>2. ASSUME NEW c \in Clients, Startup(c)
      PROVE  Handles'
  BY <1>2 DEF Startup, Fail, Finish, Answer, AskWake, tracker, world, clock, keys
<1>3. ASSUME NEW c \in Clients, WakeTimesOut(c)
      PROVE  Handles'
  BY <1>3 DEF WakeTimesOut, Fail, Finish, Answer, tracker, world, clock, keys
<1>4. ASSUME NEW c \in Clients, Dial(c)
      PROVE  Handles'
  BY <1>4 DEF Dial, Finish, ReleaseHandle, tracker, world, clock, keys
<1>5. ASSUME NEW c \in Clients, DialFails(c)
      PROVE  Handles'
  BY <1>5 DEF DialFails, ReleaseHandle, AskWake, Fail, Finish, Answer, tracker, world,
     clock, keys
<1>6. ASSUME NEW c \in Clients, NotServing(c)
      PROVE  Handles'
  BY <1>6 DEF NotServing, Fail, Finish, Answer, ReleaseHandle, tracker, world, clock,
     keys
<1>7. ASSUME NEW c \in Clients, AnswerTimesOut(c)
      PROVE  Handles'
  BY <1>7 DEF AnswerTimesOut, Fail, Finish, Answer, ReleaseHandle, tracker, world,
     clock, keys
<1>8. ASSUME NEW c \in Clients, Retry(c)
      PROVE  Handles'
  BY <1>8 DEF Retry, Finish, ReleaseHandle, tracker, world, clock, keys
<1>9. ASSUME NEW c \in Clients, Splice(c)
      PROVE  Handles'
  BY <1>9 DEF Splice, Answer, tracker, world, clock, keys
<1>10. ASSUME NEW c \in Clients, Waits(c)
      PROVE  Handles'
  BY <1>10 DEF Waits, tracker, world, clock, keys
<1>11. ASSUME NEW c \in Clients, NEW d \in Databases, Connect(c, d)
      PROVE  Handles'
  BY <1>11 DEF Connect, tracker, world, clock, keys
<1>12. ASSUME NEW c \in Clients, NEW ssl \in BOOLEAN, RequestEncryption(c, ssl)
      PROVE  Handles'
  BY <1>12 DEF RequestEncryption, Fail, Finish, Answer, tracker, world, clock, keys
<1>13. ASSUME NEW c \in Clients, ClientLeaves(c)
      PROVE  Handles'
  BY <1>13 DEF ClientLeaves, Ends, Finish, ReleaseHandle, tracker, world, clock, keys
<1>14. ASSUME NEW c \in Clients, BackendKeyArrives(c)
      PROVE  Handles'
  BY <1>14 DEF BackendKeyArrives, tracker, world, clock, keys
<1>15. ASSUME NEW c \in Clients, BackendCloses(c)
      PROVE  Handles'
  BY <1>15 DEF BackendCloses, Ends, Finish, ReleaseHandle, tracker, world, clock, keys
<1>16. ASSUME NEW x \in Cancellers, CancelLands(x)
      PROVE  Handles'
  BY <1>16 DEF CancelLands, tracker, world, clock, keys
<1>17. ASSUME NEW x \in Cancellers, NEW k \in Minted, CancelArrives(x, k)
      PROVE  Handles'
  BY <1>17 DEF CancelArrives, tracker, world, clock, keys
<1>18. ASSUME NEW d \in Databases, WakeEnds(d)
      PROVE  Handles'
  BY <1>18 DEF WakeEnds, tracker, world, clock, keys
<1>19. ASSUME NEW d \in Databases, Hibernates(d)
      PROVE  Handles'
  BY <1>19 DEF Hibernates, GoesDown, tracker, world, clock, keys
<1>20. ASSUME NEW d \in Databases, Dies(d)
      PROVE  Handles'
  BY <1>20 DEF Dies, GoesDown, tracker, world, clock, keys
<1>21. ASSUME NEW d \in Databases, Boots(d)
      PROVE  Handles'
  BY <1>21 DEF Boots, tracker, world, clock, keys
<1>22. ASSUME NEW d \in Databases, RefusalLapses(d)
      PROVE  Handles'
  BY <1>22 DEF RefusalLapses, tracker, world, clock, keys
<1>23. ASSUME NEW d \in Databases, NEW to \in {"asleep", "gone"}, Stopped(d, to)
      PROVE  Handles'
  BY <1>23 DEF Stopped, GoesDown, tracker, world, clock, keys
<1>24. ASSUME UNCHANGED vars
      PROVE  Handles'
  BY <1>24 DEF vars, tracker, world, clock, keys
<1> QED
  BY ProxyNumbers, <1>1, <1>2, <1>3, <1>4, <1>5, <1>6, <1>7, <1>8, <1>9, <1>10, <1>11,
     <1>12, <1>13, <1>14, <1>15, <1>16, <1>17, <1>18, <1>19, <1>20, <1>21, <1>22,
     <1>23, <1>24 DEF Next, Connection, Client, Backend, Canceller, Surroundings

\* Every step keeps every wait to its limit.
LEMMA LimitsStay ==
    ASSUME Places, Limits
    PROVE  [Next]_vars => Limits'
<1> USE ProxyNumbers DEF Places, Limits, Most, Later
<1>1. ASSUME NEW c \in Clients, ReadFails(c)
      PROVE  Limits'
  BY <1>1 DEF ReadFails, Fail, Finish, Answer, tracker, world, clock, keys
<1>2. ASSUME NEW c \in Clients, Startup(c)
      PROVE  Limits'
  BY <1>2 DEF Startup, Fail, Finish, Answer, AskWake, tracker, world, clock, keys
<1>3. ASSUME NEW c \in Clients, WakeTimesOut(c)
      PROVE  Limits'
  BY <1>3 DEF WakeTimesOut, Fail, Finish, Answer, tracker, world, clock, keys
<1>4. ASSUME NEW c \in Clients, Dial(c)
      PROVE  Limits'
  BY <1>4 DEF Dial, Finish, ReleaseHandle, tracker, world, clock, keys
<1>5. ASSUME NEW c \in Clients, DialFails(c)
      PROVE  Limits'
  BY <1>5 DEF DialFails, ReleaseHandle, AskWake, Fail, Finish, Answer, tracker, world,
     clock, keys
<1>6. ASSUME NEW c \in Clients, NotServing(c)
      PROVE  Limits'
  BY <1>6 DEF NotServing, Fail, Finish, Answer, ReleaseHandle, tracker, world, clock,
     keys
<1>7. ASSUME NEW c \in Clients, AnswerTimesOut(c)
      PROVE  Limits'
  BY <1>7 DEF AnswerTimesOut, Fail, Finish, Answer, ReleaseHandle, tracker, world,
     clock, keys
<1>8. ASSUME NEW c \in Clients, Retry(c)
      PROVE  Limits'
  BY <1>8 DEF Retry, Finish, ReleaseHandle, tracker, world, clock, keys
<1>9. ASSUME NEW c \in Clients, Splice(c)
      PROVE  Limits'
  BY <1>9 DEF Splice, Answer, tracker, world, clock, keys
<1>10. ASSUME NEW c \in Clients, Waits(c)
      PROVE  Limits'
  BY <1>10 DEF Waits, tracker, world, clock, keys
<1>11. ASSUME NEW c \in Clients, NEW d \in Databases, Connect(c, d)
      PROVE  Limits'
  BY <1>11 DEF Connect, tracker, world, clock, keys
<1>12. ASSUME NEW c \in Clients, NEW ssl \in BOOLEAN, RequestEncryption(c, ssl)
      PROVE  Limits'
  BY <1>12 DEF RequestEncryption, Fail, Finish, Answer, tracker, world, clock, keys
<1>13. ASSUME NEW c \in Clients, ClientLeaves(c)
      PROVE  Limits'
  BY <1>13 DEF ClientLeaves, Ends, Finish, ReleaseHandle, tracker, world, clock, keys
<1>14. ASSUME NEW c \in Clients, BackendKeyArrives(c)
      PROVE  Limits'
  BY <1>14 DEF BackendKeyArrives, tracker, world, clock, keys
<1>15. ASSUME NEW c \in Clients, BackendCloses(c)
      PROVE  Limits'
  BY <1>15 DEF BackendCloses, Ends, Finish, ReleaseHandle, tracker, world, clock, keys
<1>16. ASSUME NEW x \in Cancellers, CancelLands(x)
      PROVE  Limits'
  BY <1>16 DEF CancelLands, tracker, world, clock, keys
<1>17. ASSUME NEW x \in Cancellers, NEW k \in Minted, CancelArrives(x, k)
      PROVE  Limits'
  BY <1>17 DEF CancelArrives, tracker, world, clock, keys
<1>18. ASSUME NEW d \in Databases, WakeEnds(d)
      PROVE  Limits'
  BY <1>18 DEF WakeEnds, tracker, world, clock, keys
<1>19. ASSUME NEW d \in Databases, Hibernates(d)
      PROVE  Limits'
  BY <1>19 DEF Hibernates, GoesDown, tracker, world, clock, keys
<1>20. ASSUME NEW d \in Databases, Dies(d)
      PROVE  Limits'
  BY <1>20 DEF Dies, GoesDown, tracker, world, clock, keys
<1>21. ASSUME NEW d \in Databases, Boots(d)
      PROVE  Limits'
  BY <1>21 DEF Boots, tracker, world, clock, keys
<1>22. ASSUME NEW d \in Databases, RefusalLapses(d)
      PROVE  Limits'
  BY <1>22 DEF RefusalLapses, tracker, world, clock, keys
<1>23. ASSUME NEW d \in Databases, NEW to \in {"asleep", "gone"}, Stopped(d, to)
      PROVE  Limits'
  BY <1>23 DEF Stopped, GoesDown, tracker, world, clock, keys
<1>24. ASSUME UNCHANGED vars
      PROVE  Limits'
  BY <1>24 DEF vars, tracker, world, clock, keys
<1> QED
  BY ProxyNumbers, <1>1, <1>2, <1>3, <1>4, <1>5, <1>6, <1>7, <1>8, <1>9, <1>10, <1>11,
     <1>12, <1>13, <1>14, <1>15, <1>16, <1>17, <1>18, <1>19, <1>20, <1>21, <1>22,
     <1>23, <1>24 DEF Next, Connection, Client, Backend, Canceller, Surroundings

\* Every step tells a client that stays at most one thing, and the last one something.
LEMMA ToldStays ==
    ASSUME Places, Told
    PROVE  [Next]_vars => Told'
<1> USE DEF Places, Told
<1>1. ASSUME NEW c \in Clients, ReadFails(c)
      PROVE  Told'
  BY <1>1 DEF ReadFails, Fail, Finish, Answer, tracker, world, clock, keys
<1>2. ASSUME NEW c \in Clients, Startup(c)
      PROVE  Told'
  BY <1>2 DEF Startup, Fail, Finish, Answer, AskWake, tracker, world, clock, keys
<1>3. ASSUME NEW c \in Clients, WakeTimesOut(c)
      PROVE  Told'
  BY <1>3 DEF WakeTimesOut, Fail, Finish, Answer, tracker, world, clock, keys
<1>4. ASSUME NEW c \in Clients, Dial(c)
      PROVE  Told'
  BY <1>4 DEF Dial, Finish, ReleaseHandle, tracker, world, clock, keys
<1>5. ASSUME NEW c \in Clients, DialFails(c)
      PROVE  Told'
  BY <1>5 DEF DialFails, ReleaseHandle, AskWake, Fail, Finish, Answer, tracker, world,
     clock, keys
<1>6. ASSUME NEW c \in Clients, NotServing(c)
      PROVE  Told'
  BY <1>6 DEF NotServing, Fail, Finish, Answer, ReleaseHandle, tracker, world, clock,
     keys
<1>7. ASSUME NEW c \in Clients, AnswerTimesOut(c)
      PROVE  Told'
  BY <1>7 DEF AnswerTimesOut, Fail, Finish, Answer, ReleaseHandle, tracker, world,
     clock, keys
<1>8. ASSUME NEW c \in Clients, Retry(c)
      PROVE  Told'
  BY <1>8 DEF Retry, Finish, ReleaseHandle, tracker, world, clock, keys
<1>9. ASSUME NEW c \in Clients, Splice(c)
      PROVE  Told'
  BY <1>9 DEF Splice, Answer, tracker, world, clock, keys
<1>10. ASSUME NEW c \in Clients, Waits(c)
      PROVE  Told'
  BY <1>10 DEF Waits, tracker, world, clock, keys
<1>11. ASSUME NEW c \in Clients, NEW d \in Databases, Connect(c, d)
      PROVE  Told'
  BY <1>11 DEF Connect, tracker, world, clock, keys
<1>12. ASSUME NEW c \in Clients, NEW ssl \in BOOLEAN, RequestEncryption(c, ssl)
      PROVE  Told'
  BY <1>12 DEF RequestEncryption, Fail, Finish, Answer, tracker, world, clock, keys
<1>13. ASSUME NEW c \in Clients, ClientLeaves(c)
      PROVE  Told'
  BY <1>13 DEF ClientLeaves, Ends, Finish, ReleaseHandle, tracker, world, clock, keys
<1>14. ASSUME NEW c \in Clients, BackendKeyArrives(c)
      PROVE  Told'
  BY <1>14 DEF BackendKeyArrives, tracker, world, clock, keys
<1>15. ASSUME NEW c \in Clients, BackendCloses(c)
      PROVE  Told'
  BY <1>15 DEF BackendCloses, Ends, Finish, ReleaseHandle, tracker, world, clock, keys
<1>16. ASSUME NEW x \in Cancellers, CancelLands(x)
      PROVE  Told'
  BY <1>16 DEF CancelLands, tracker, world, clock, keys
<1>17. ASSUME NEW x \in Cancellers, NEW k \in Minted, CancelArrives(x, k)
      PROVE  Told'
  BY <1>17 DEF CancelArrives, tracker, world, clock, keys
<1>18. ASSUME NEW d \in Databases, WakeEnds(d)
      PROVE  Told'
  BY <1>18 DEF WakeEnds, tracker, world, clock, keys
<1>19. ASSUME NEW d \in Databases, Hibernates(d)
      PROVE  Told'
  BY <1>19 DEF Hibernates, GoesDown, tracker, world, clock, keys
<1>20. ASSUME NEW d \in Databases, Dies(d)
      PROVE  Told'
  BY <1>20 DEF Dies, GoesDown, tracker, world, clock, keys
<1>21. ASSUME NEW d \in Databases, Boots(d)
      PROVE  Told'
  BY <1>21 DEF Boots, tracker, world, clock, keys
<1>22. ASSUME NEW d \in Databases, RefusalLapses(d)
      PROVE  Told'
  BY <1>22 DEF RefusalLapses, tracker, world, clock, keys
<1>23. ASSUME NEW d \in Databases, NEW to \in {"asleep", "gone"}, Stopped(d, to)
      PROVE  Told'
  BY <1>23 DEF Stopped, GoesDown, tracker, world, clock, keys
<1>24. ASSUME UNCHANGED vars
      PROVE  Told'
  BY <1>24 DEF vars, tracker, world, clock, keys
<1> QED
  BY ProxyNumbers, <1>1, <1>2, <1>3, <1>4, <1>5, <1>6, <1>7, <1>8, <1>9, <1>10, <1>11,
     <1>12, <1>13, <1>14, <1>15, <1>16, <1>17, <1>18, <1>19, <1>20, <1>21, <1>22,
     <1>23, <1>24 DEF Next, Connection, Client, Backend, Canceller, Surroundings

\* Every step keeps the keys apart.
LEMMA KeysStay ==
    ASSUME Places, KeysAreOnes
    PROVE  [Next]_vars => KeysAreOnes'
<1> USE ProxyNumbers DEF Places, KeysAreOnes
<1>1. ASSUME NEW c \in Clients, ReadFails(c)
      PROVE  KeysAreOnes'
  BY <1>1 DEF ReadFails, Fail, Finish, Answer, tracker, world, clock, keys
<1>2. ASSUME NEW c \in Clients, Startup(c)
      PROVE  KeysAreOnes'
  BY <1>2 DEF Startup, Fail, Finish, Answer, AskWake, tracker, world, clock, keys
<1>3. ASSUME NEW c \in Clients, WakeTimesOut(c)
      PROVE  KeysAreOnes'
  BY <1>3 DEF WakeTimesOut, Fail, Finish, Answer, tracker, world, clock, keys
<1>4. ASSUME NEW c \in Clients, Dial(c)
      PROVE  KeysAreOnes'
  BY <1>4 DEF Dial, Finish, ReleaseHandle, tracker, world, clock, keys
<1>5. ASSUME NEW c \in Clients, DialFails(c)
      PROVE  KeysAreOnes'
  BY <1>5 DEF DialFails, ReleaseHandle, AskWake, Fail, Finish, Answer, tracker, world,
     clock, keys
<1>6. ASSUME NEW c \in Clients, NotServing(c)
      PROVE  KeysAreOnes'
  BY <1>6 DEF NotServing, Fail, Finish, Answer, ReleaseHandle, tracker, world, clock,
     keys
<1>7. ASSUME NEW c \in Clients, AnswerTimesOut(c)
      PROVE  KeysAreOnes'
  BY <1>7 DEF AnswerTimesOut, Fail, Finish, Answer, ReleaseHandle, tracker, world,
     clock, keys
<1>8. ASSUME NEW c \in Clients, Retry(c)
      PROVE  KeysAreOnes'
  BY <1>8 DEF Retry, Finish, ReleaseHandle, tracker, world, clock, keys
<1>9. ASSUME NEW c \in Clients, Splice(c)
      PROVE  KeysAreOnes'
  BY <1>9 DEF Splice, Answer, tracker, world, clock, keys
<1>10. ASSUME NEW c \in Clients, Waits(c)
      PROVE  KeysAreOnes'
  BY <1>10 DEF Waits, tracker, world, clock, keys
<1>11. ASSUME NEW c \in Clients, NEW d \in Databases, Connect(c, d)
      PROVE  KeysAreOnes'
  BY <1>11 DEF Connect, tracker, world, clock, keys
<1>12. ASSUME NEW c \in Clients, NEW ssl \in BOOLEAN, RequestEncryption(c, ssl)
      PROVE  KeysAreOnes'
  BY <1>12 DEF RequestEncryption, Fail, Finish, Answer, tracker, world, clock, keys
<1>13. ASSUME NEW c \in Clients, ClientLeaves(c)
      PROVE  KeysAreOnes'
  BY <1>13 DEF ClientLeaves, Ends, Finish, ReleaseHandle, tracker, world, clock, keys
<1>14. ASSUME NEW c \in Clients, BackendKeyArrives(c)
      PROVE  KeysAreOnes'
  BY <1>14 DEF BackendKeyArrives, tracker, world, clock, keys, ClientsOf
<1>15. ASSUME NEW c \in Clients, BackendCloses(c)
      PROVE  KeysAreOnes'
  BY <1>15 DEF BackendCloses, Ends, Finish, ReleaseHandle, tracker, world, clock, keys
<1>16. ASSUME NEW x \in Cancellers, CancelLands(x)
      PROVE  KeysAreOnes'
  BY <1>16 DEF CancelLands, tracker, world, clock, keys
<1>17. ASSUME NEW x \in Cancellers, NEW k \in Minted, CancelArrives(x, k)
      PROVE  KeysAreOnes'
  BY <1>17 DEF CancelArrives, tracker, world, clock, keys
<1>18. ASSUME NEW d \in Databases, WakeEnds(d)
      PROVE  KeysAreOnes'
  BY <1>18 DEF WakeEnds, tracker, world, clock, keys
<1>19. ASSUME NEW d \in Databases, Hibernates(d)
      PROVE  KeysAreOnes'
  BY <1>19 DEF Hibernates, GoesDown, tracker, world, clock, keys
<1>20. ASSUME NEW d \in Databases, Dies(d)
      PROVE  KeysAreOnes'
  BY <1>20 DEF Dies, GoesDown, tracker, world, clock, keys
<1>21. ASSUME NEW d \in Databases, Boots(d)
      PROVE  KeysAreOnes'
  BY <1>21 DEF Boots, tracker, world, clock, keys
<1>22. ASSUME NEW d \in Databases, RefusalLapses(d)
      PROVE  KeysAreOnes'
  BY <1>22 DEF RefusalLapses, tracker, world, clock, keys
<1>23. ASSUME NEW d \in Databases, NEW to \in {"asleep", "gone"}, Stopped(d, to)
      PROVE  KeysAreOnes'
  BY <1>23 DEF Stopped, GoesDown, tracker, world, clock, keys
<1>24. ASSUME UNCHANGED vars
      PROVE  KeysAreOnes'
  BY <1>24 DEF vars, tracker, world, clock, keys
<1> QED
  BY ProxyNumbers, <1>1, <1>2, <1>3, <1>4, <1>5, <1>6, <1>7, <1>8, <1>9, <1>10, <1>11,
     <1>12, <1>13, <1>14, <1>15, <1>16, <1>17, <1>18, <1>19, <1>20, <1>21, <1>22,
     <1>23, <1>24 DEF Next, Connection, Client, Backend, Canceller, Surroundings

\* Every step keeps the registry in line with the sessions.
LEMMA RoutesStay ==
    ASSUME Places, KeysAreOnes, RoutesAreSplices
    PROVE  [Next]_vars => RoutesAreSplices'
<1> USE ProxyNumbers DEF Places, KeysAreOnes, RoutesAreSplices
<1>1. ASSUME NEW c \in Clients, ReadFails(c)
      PROVE  RoutesAreSplices'
  BY <1>1 DEF ReadFails, Fail, Finish, Answer, tracker, world, clock, keys
<1>2. ASSUME NEW c \in Clients, Startup(c)
      PROVE  RoutesAreSplices'
  BY <1>2 DEF Startup, Fail, Finish, Answer, AskWake, tracker, world, clock, keys
<1>3. ASSUME NEW c \in Clients, WakeTimesOut(c)
      PROVE  RoutesAreSplices'
  BY <1>3 DEF WakeTimesOut, Fail, Finish, Answer, tracker, world, clock, keys
<1>4. ASSUME NEW c \in Clients, Dial(c)
      PROVE  RoutesAreSplices'
  BY <1>4 DEF Dial, Finish, ReleaseHandle, tracker, world, clock, keys
<1>5. ASSUME NEW c \in Clients, DialFails(c)
      PROVE  RoutesAreSplices'
  BY <1>5 DEF DialFails, ReleaseHandle, AskWake, Fail, Finish, Answer, tracker, world,
     clock, keys
<1>6. ASSUME NEW c \in Clients, NotServing(c)
      PROVE  RoutesAreSplices'
  BY <1>6 DEF NotServing, Fail, Finish, Answer, ReleaseHandle, tracker, world, clock,
     keys
<1>7. ASSUME NEW c \in Clients, AnswerTimesOut(c)
      PROVE  RoutesAreSplices'
  BY <1>7 DEF AnswerTimesOut, Fail, Finish, Answer, ReleaseHandle, tracker, world,
     clock, keys
<1>8. ASSUME NEW c \in Clients, Retry(c)
      PROVE  RoutesAreSplices'
  BY <1>8 DEF Retry, Finish, ReleaseHandle, tracker, world, clock, keys
<1>9. ASSUME NEW c \in Clients, Splice(c)
      PROVE  RoutesAreSplices'
  BY <1>9 DEF Splice, Answer, tracker, world, clock, keys
<1>10. ASSUME NEW c \in Clients, Waits(c)
      PROVE  RoutesAreSplices'
  BY <1>10 DEF Waits, tracker, world, clock, keys
<1>11. ASSUME NEW c \in Clients, NEW d \in Databases, Connect(c, d)
      PROVE  RoutesAreSplices'
  BY <1>11 DEF Connect, tracker, world, clock, keys
<1>12. ASSUME NEW c \in Clients, NEW ssl \in BOOLEAN, RequestEncryption(c, ssl)
      PROVE  RoutesAreSplices'
  BY <1>12 DEF RequestEncryption, Fail, Finish, Answer, tracker, world, clock, keys
<1>13. ASSUME NEW c \in Clients, ClientLeaves(c)
      PROVE  RoutesAreSplices'
  <2>1. UNCHANGED <<minted, session, want>>
    BY <1>13 DEF ClientLeaves
  <2>2. CASE pc[c] = "spliced"
    <3>1. /\ pc' = [pc EXCEPT ![c] = "done"]
          /\ routes' = [m \in DOMAIN routes \ {minted[c]} |-> routes[m]]
      BY <1>13, <2>2 DEF ClientLeaves, Ends, Finish
    <3>2. QED
      BY <2>1, <2>2, <3>1
  <2>3. CASE pc[c] # "spliced"
    <3>1. routes' = routes
      BY <1>13, <2>3 DEF ClientLeaves
    <3>2. \A o \in Clients : pc'[o] = "spliced" <=> pc[o] = "spliced"
      BY <1>13, <2>3 DEF ClientLeaves, Finish
    <3>3. QED
      BY <2>1, <3>1, <3>2
  <2>4. QED
    BY <2>2, <2>3
<1>14. ASSUME NEW c \in Clients, BackendKeyArrives(c)
      PROVE  RoutesAreSplices'
  <2>1. PICK b \in BackendKeys :
           /\ session' = [session EXCEPT ![c] = b]
           /\ routes' = IF minted[c] = NoKey THEN routes ELSE [routes EXCEPT ![minted[c]].key = b]
    BY <1>14 DEF BackendKeyArrives
  <2>2. pc[c] = "spliced" /\ UNCHANGED <<minted, pc, want>>
    BY <1>14 DEF BackendKeyArrives
  <2>3. CASE minted[c] = NoKey
    BY <2>1, <2>2, <2>3
  <2>4. CASE minted[c] # NoKey
    <3> DEFINE k == minted[c]
               keyed == {o \in Clients : pc[o] = "spliced" /\ minted[o] # NoKey}
    <3>1. k \in DOMAIN routes /\ routes[k] = [to |-> want[c], key |-> session[c]]
      BY <2>2, <2>4
    <3>2. routes' = [routes EXCEPT ![k] = [routes[k] EXCEPT !.key = b]]
      BY <2>1, <2>4
    <3>3. DOMAIN routes' = DOMAIN routes
      BY <3>2
    <3>4. routes'[k] = [to |-> want[c], key |-> b]
      <4>1. routes'[k] = [[to |-> want[c], key |-> session[c]] EXCEPT !.key = b]
        BY <3>1, <3>2
      <4>2. QED
        BY <4>1
    <3>5. \A o \in keyed : o # c => minted[o] # k /\ routes'[minted[o]] = routes[minted[o]]
      BY <3>2
    <3>6. \A o \in keyed : routes'[minted[o]] = [to |-> want[o], key |-> session'[o]]
      BY <2>1, <3>4, <3>5
    <3>7. QED
      BY <2>2, <3>3, <3>6
  <2>5. QED
    BY <2>3, <2>4
<1>15. ASSUME NEW c \in Clients, BackendCloses(c)
      PROVE  RoutesAreSplices'
  BY <1>15 DEF BackendCloses, Ends, Finish, ReleaseHandle, tracker, world, clock, keys
<1>16. ASSUME NEW x \in Cancellers, CancelLands(x)
      PROVE  RoutesAreSplices'
  BY <1>16 DEF CancelLands, tracker, world, clock, keys
<1>17. ASSUME NEW x \in Cancellers, NEW k \in Minted, CancelArrives(x, k)
      PROVE  RoutesAreSplices'
  BY <1>17 DEF CancelArrives, tracker, world, clock, keys
<1>18. ASSUME NEW d \in Databases, WakeEnds(d)
      PROVE  RoutesAreSplices'
  <2>1. UNCHANGED <<minted, session, routes, want>>
    BY <1>18 DEF WakeEnds, keys
  <2>2. \A o \in Clients : pc'[o] = "spliced" <=> pc[o] = "spliced"
    BY <1>18 DEF WakeEnds
  <2>3. QED
    BY <2>1, <2>2
<1>19. ASSUME NEW d \in Databases, Hibernates(d)
      PROVE  RoutesAreSplices'
  BY <1>19 DEF Hibernates, GoesDown, tracker, world, clock, keys
<1>20. ASSUME NEW d \in Databases, Dies(d)
      PROVE  RoutesAreSplices'
  BY <1>20 DEF Dies, GoesDown, tracker, world, clock, keys
<1>21. ASSUME NEW d \in Databases, Boots(d)
      PROVE  RoutesAreSplices'
  BY <1>21 DEF Boots, tracker, world, clock, keys
<1>22. ASSUME NEW d \in Databases, RefusalLapses(d)
      PROVE  RoutesAreSplices'
  BY <1>22 DEF RefusalLapses, tracker, world, clock, keys
<1>23. ASSUME NEW d \in Databases, NEW to \in {"asleep", "gone"}, Stopped(d, to)
      PROVE  RoutesAreSplices'
  BY <1>23 DEF Stopped, GoesDown, tracker, world, clock, keys
<1>24. ASSUME UNCHANGED vars
      PROVE  RoutesAreSplices'
  BY <1>24 DEF vars, tracker, world, clock, keys
<1> QED
  BY ProxyNumbers, <1>1, <1>2, <1>3, <1>4, <1>5, <1>6, <1>7, <1>8, <1>9, <1>10, <1>11,
     <1>12, <1>13, <1>14, <1>15, <1>16, <1>17, <1>18, <1>19, <1>20, <1>21, <1>22,
     <1>23, <1>24 DEF Next, Connection, Client, Backend, Canceller, Surroundings

\* Every step keeps a cancel to the session whose keys it carries.
LEMMA CancelsStay ==
    ASSUME Places, KeysAreOnes, RoutesAreSplices, Cancels
    PROVE  [Next]_vars => Cancels'
<1> USE ProxyNumbers DEF Places, KeysAreOnes, Cancels, CancelHitsItsSession, ClientsOf
<1>1. ASSUME NEW c \in Clients, ReadFails(c)
      PROVE  Cancels'
  BY <1>1 DEF ReadFails, Fail, Finish, Answer, tracker, world, clock, keys
<1>2. ASSUME NEW c \in Clients, Startup(c)
      PROVE  Cancels'
  BY <1>2 DEF Startup, Fail, Finish, Answer, AskWake, tracker, world, clock, keys
<1>3. ASSUME NEW c \in Clients, WakeTimesOut(c)
      PROVE  Cancels'
  BY <1>3 DEF WakeTimesOut, Fail, Finish, Answer, tracker, world, clock, keys
<1>4. ASSUME NEW c \in Clients, Dial(c)
      PROVE  Cancels'
  BY <1>4 DEF Dial, Finish, ReleaseHandle, tracker, world, clock, keys
<1>5. ASSUME NEW c \in Clients, DialFails(c)
      PROVE  Cancels'
  BY <1>5 DEF DialFails, ReleaseHandle, AskWake, Fail, Finish, Answer, tracker, world,
     clock, keys
<1>6. ASSUME NEW c \in Clients, NotServing(c)
      PROVE  Cancels'
  BY <1>6 DEF NotServing, Fail, Finish, Answer, ReleaseHandle, tracker, world, clock,
     keys
<1>7. ASSUME NEW c \in Clients, AnswerTimesOut(c)
      PROVE  Cancels'
  BY <1>7 DEF AnswerTimesOut, Fail, Finish, Answer, ReleaseHandle, tracker, world,
     clock, keys
<1>8. ASSUME NEW c \in Clients, Retry(c)
      PROVE  Cancels'
  BY <1>8 DEF Retry, Finish, ReleaseHandle, tracker, world, clock, keys
<1>9. ASSUME NEW c \in Clients, Splice(c)
      PROVE  Cancels'
  BY <1>9 DEF Splice, Answer, tracker, world, clock, keys
<1>10. ASSUME NEW c \in Clients, Waits(c)
      PROVE  Cancels'
  BY <1>10 DEF Waits, tracker, world, clock, keys
<1>11. ASSUME NEW c \in Clients, NEW d \in Databases, Connect(c, d)
      PROVE  Cancels'
  BY <1>11 DEF Connect, tracker, world, clock, keys
<1>12. ASSUME NEW c \in Clients, NEW ssl \in BOOLEAN, RequestEncryption(c, ssl)
      PROVE  Cancels'
  BY <1>12 DEF RequestEncryption, Fail, Finish, Answer, tracker, world, clock, keys
<1>13. ASSUME NEW c \in Clients, ClientLeaves(c)
      PROVE  Cancels'
  BY <1>13 DEF ClientLeaves, Ends, Finish, ReleaseHandle, tracker, world, clock, keys
<1>14. ASSUME NEW c \in Clients, BackendKeyArrives(c)
      PROVE  Cancels'
  BY <1>14 DEF BackendKeyArrives, tracker, world, clock, keys
<1>15. ASSUME NEW c \in Clients, BackendCloses(c)
      PROVE  Cancels'
  BY <1>15 DEF BackendCloses, Ends, Finish, ReleaseHandle, tracker, world, clock, keys
<1>16. ASSUME NEW x \in Cancellers, CancelLands(x)
      PROVE  Cancels'
  BY <1>16 DEF CancelLands, tracker, world, clock, keys
<1>17. ASSUME NEW x \in Cancellers, NEW k \in Minted, CancelArrives(x, k)
      PROVE  Cancels'
  <2>1. /\ Lookup(k) # Idle
        /\ cancel' = [cancel EXCEPT ![x] = [shown |-> k, route |-> Lookup(k)]]
        /\ UNCHANGED <<minted, session, want, struck>>
    BY <1>17 DEF CancelArrives, keys
  <2>2. k \in DOMAIN routes /\ Lookup(k) = routes[k] /\ routes[k].key # NoKey
    BY <2>1 DEF Lookup
  <2>3. PICK c \in Clients : /\ pc[c] = "spliced" /\ minted[c] = k
                            /\ routes[k] = [to |-> want[c], key |-> session[c]]
    BY <2>2 DEF RoutesAreSplices
  <2>4. /\ Lookup(k) \in [to : Databases, key : BackendKeys]
        /\ Lookup(k).to = want[c] /\ Lookup(k).key = session[c] /\ session[c] # NoKey
    BY <2>2, <2>3
  <2>5. cancel' \in [Cancellers -> [shown : Minted \cup {NoKey},
                                    route : {Idle} \cup [to : Databases, key : BackendKeys]]]
    BY <2>1, <2>4
  <2>6. /\ cancel'[x].shown = k /\ cancel'[x].route = Lookup(k)
        /\ \A y \in Cancellers \ {x} : cancel'[y] = cancel[y]
    BY <2>1
  <2>7. QED
    BY <2>1, <2>3, <2>4, <2>5, <2>6
<1>18. ASSUME NEW d \in Databases, WakeEnds(d)
      PROVE  Cancels'
  BY <1>18 DEF WakeEnds, tracker, world, clock, keys
<1>19. ASSUME NEW d \in Databases, Hibernates(d)
      PROVE  Cancels'
  BY <1>19 DEF Hibernates, GoesDown, tracker, world, clock, keys
<1>20. ASSUME NEW d \in Databases, Dies(d)
      PROVE  Cancels'
  BY <1>20 DEF Dies, GoesDown, tracker, world, clock, keys
<1>21. ASSUME NEW d \in Databases, Boots(d)
      PROVE  Cancels'
  BY <1>21 DEF Boots, tracker, world, clock, keys
<1>22. ASSUME NEW d \in Databases, RefusalLapses(d)
      PROVE  Cancels'
  BY <1>22 DEF RefusalLapses, tracker, world, clock, keys
<1>23. ASSUME NEW d \in Databases, NEW to \in {"asleep", "gone"}, Stopped(d, to)
      PROVE  Cancels'
  BY <1>23 DEF Stopped, GoesDown, tracker, world, clock, keys
<1>24. ASSUME UNCHANGED vars
      PROVE  Cancels'
  BY <1>24 DEF vars, tracker, world, clock, keys
<1> QED
  BY ProxyNumbers, <1>1, <1>2, <1>3, <1>4, <1>5, <1>6, <1>7, <1>8, <1>9, <1>10, <1>11,
     <1>12, <1>13, <1>14, <1>15, <1>16, <1>17, <1>18, <1>19, <1>20, <1>21, <1>22,
     <1>23, <1>24 DEF Next, Connection, Client, Backend, Canceller, Surroundings

\* It holds before anybody connects.
LEMMA ProxyInit == Init => ProxyInv
<1> SUFFICES ASSUME Init PROVE ProxyInv
  OBVIOUS
<1> USE ProxyNumbers DEF Init
<1>1. Places
  BY DEF Places, Stages
<1>2. Handles /\ Told
  BY DEF Handles, Holding, Told
<1>3. Limits
  BY DEF Limits, Most
<1>4. KeysAreOnes /\ RoutesAreSplices
  BY DEF KeysAreOnes, RoutesAreSplices
<1>5. Cancels
  BY DEF Cancels, CancelHitsItsSession
<1>6. QED
  BY <1>1, <1>2, <1>3, <1>4, <1>5 DEF ProxyInv

\* Every step keeps the whole of it.
LEMMA ProxyNext == ProxyInv /\ [Next]_vars => ProxyInv'
BY PlacesStay, HandlesStay, LimitsStay, ToldStays, KeysStay, RoutesStay, CancelsStay DEF ProxyInv

\* So it holds always.
LEMMA ProxyAlways == Spec => []ProxyInv
BY ProxyInit, ProxyNext, PTL DEF Spec

-----------------------------------------------------------------------------
(* What follows from it.                                                   *)

\* Every variable keeps its type.
LEMMA ProxyTypes == ProxyInv => TypeOK
<1> SUFFICES ASSUME ProxyInv PROVE TypeOK
  OBVIOUS
<1>1. Places /\ held \subseteq Clients /\ live \subseteq held /\ dropped \subseteq held
  BY DEF ProxyInv, Handles
<1>2. /\ spent \in [Clients -> Nat] /\ until \in [Clients -> Nat] /\ wakes \in [Clients -> Nat]
      /\ told \in [Clients -> SUBSET {"error", "session"}]
  BY DEF ProxyInv, Limits, Told
<1>3. /\ minted \in [Clients -> Minted \cup {NoKey}]
      /\ session \in [Clients -> BackendKeys \cup {NoKey}]
      /\ struck \subseteq Minted \X Clients
  BY DEF ProxyInv, KeysAreOnes, Cancels
<1>4. DOMAIN routes \subseteq Minted /\ \A m \in DOMAIN routes : routes[m].to \in Databases
  <2>1. \A m \in DOMAIN routes :
           \E c \in Clients : /\ m = minted[c] /\ m # NoKey
                              /\ routes[m] = [to |-> want[c], key |-> session[c]]
    BY DEF ProxyInv, RoutesAreSplices
  <2>2. QED
    BY <1>1, <1>3, <2>1 DEF Places
<1>5. QED
  BY <1>1, <1>2, <1>3, <1>4 DEF Places, TypeOK

\* A backend is never without the handle of a client that waits for it or talks to it,
\* unless an explicit stop forgot it; no handle outlives its connection (proxy.ts,
\* holdUntilServing, spliceAndTrackActivity).
THEOREM HandlesAreCounted == Spec => []HeldIsCounted
<1>1. ProxyInv => HeldIsCounted
  BY DEF ProxyInv, Handles, HeldIsCounted
<1>2. QED
  BY <1>1, ProxyAlways, PTL

\* Nobody who stays is left without an answer or given two (proxy.ts, sendErrorAndClose).
THEOREM AnsweredJustOnce == Spec => []AnsweredOnce
<1>1. ProxyInv => AnsweredOnce
  <2>1. Cardinality({"error"}) = 1 /\ Cardinality({"session"}) = 1
    BY FS_Singleton
  <2>2. QED
    BY <2>1 DEF ProxyInv, Told, AnsweredOnce
<1>2. QED
  BY <1>1, ProxyAlways, PTL

\* A connection asks for one wake at most, and its client is answered within the budget
\* and what two last dials and two last answers take (proxy.ts, holdUntilServing).
THEOREM HoldsEnd == Spec => [](WokenOnce /\ HoldsEndInTime)
<1>1. ProxyInv => WokenOnce /\ HoldsEndInTime
  <2>1. ASSUME ProxyInv, NEW c \in Clients
        PROVE  wakes[c] <= 1 /\ spent[c] <= Budget + 2 * (DialTime + Floor)
    <3>1. spent[c] <= Most + DialTime + Floor /\ wakes[c] \in {0, 1} /\ spent[c] \in Nat
      BY <2>1 DEF ProxyInv, Limits
    <3>2. QED
      BY <3>1, ProxyNumbers DEF Most
  <2>2. QED
    BY <2>1 DEF WokenOnce, HoldsEndInTime
<1>2. QED
  BY <1>1, ProxyAlways, PTL

\* However late it lands, a cancel hits the session whose client was given the key it
\* shows, also where two backends gave out one key; and the registry has the keys of the
\* spliced connections, no more and no fewer (cancel.ts).
THEOREM CancelsHitTheirSession == Spec => [](CancelHitsItsSession /\ RoutesAreSplices)
<1>1. ProxyInv => CancelHitsItsSession /\ RoutesAreSplices
  BY DEF ProxyInv, Cancels
<1>2. QED
  BY <1>1, ProxyAlways, PTL

\* All of it.
THEOREM SessionsSound == Spec => []SessionsAreSound
<1>1. ProxyInv => TypeOK
  BY ProxyTypes
<1>2. QED
  BY <1>1, ProxyAlways, HandlesAreCounted, AnsweredJustOnce, HoldsEnd, CancelsHitTheirSession, PTL
     DEF SessionsAreSound

=============================================================================
