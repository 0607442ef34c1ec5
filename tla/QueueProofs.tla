---------------------------- MODULE QueueProofs ----------------------------
(***************************************************************************)
(* Theorems about Queue: for any number of messages, any sizes, delays,    *)
(* retentions and time limits, whatever fails and wherever the daemon      *)
(* dies.  One inductive invariant carries all of them.                     *)
(***************************************************************************)
EXTENDS Queue, FiniteSetTheorems, TLAPS

-----------------------------------------------------------------------------
(* The longest delay.                                                      *)

\* A finite set of numbers that is not empty has a greatest one.
LEMMA GreatestNumber ==
    ASSUME NEW S, S \subseteq Nat, S # {}, IsFiniteSet(S)
    PROVE  \E d \in S : \A e \in S : e <= d
<1> DEFINE R == StrictSubsetOrdering(Nat)
           Above(d) == {e \in S : d < e}
           T == {Above(d) : d \in S}
<1>1. T \subseteq FiniteSubsetsOf(Nat) /\ T # {}
  <2>1. \A d \in S : Above(d) \subseteq S /\ IsFiniteSet(Above(d))
    BY FS_Subset
  <2>2. QED
    BY <2>1 DEF FiniteSubsetsOf
<1>2. PICK t \in T : \A u \in T : <<u, t>> \notin R
  <2> HIDE DEF R, T
  <2>1. IsWellFoundedOn(R, FiniteSubsetsOf(Nat))
    BY FS_StrictSubsetOrderingWellFounded DEF R
  <2>2. QED
    BY <1>1, <2>1, WFMin
<1>3. PICK d \in S : t = Above(d)
  BY <1>2
<1>4. ASSUME NEW e \in S, d < e
      PROVE  FALSE
  <2>1. Above(e) \in T /\ Above(d) \in T
    OBVIOUS
  <2>2. Above(e) \subseteq Above(d) /\ e \in Above(d) /\ e \notin Above(e)
    <3>1. \A x \in S : e < x => d < x
      BY <1>4
    <3>2. ~(e < e)
      OBVIOUS
    <3>3. QED
      BY <1>4, <3>1, <3>2
  <2>3. <<Above(e), Above(d)>> \notin R
    BY <1>2, <1>3, <2>1
  <2>4. QED
    BY <2>2, <2>3 DEF StrictSubsetOrdering
<1>5. QED
  BY <1>4

\* MaxDelay is the longest of the delays anybody may ask for.
LEMMA DelaysAreShort ==
    /\ MaxDelay \in Nat
    /\ RetryDelay <= MaxDelay
    /\ \A d \in Delays : d <= MaxDelay
<1> DEFINE S == Delays \cup {RetryDelay}
<1>1. IsFiniteSet(S) /\ S \subseteq Nat /\ S # {}
  BY Bounds, FS_AddElement
<1>2. \E d \in S : \A e \in S : e <= d
  BY <1>1, GreatestNumber
<1>3. MaxDelay \in S /\ \A e \in S : e <= MaxDelay
  BY <1>2 DEF MaxDelay
<1>4. QED
  BY <1>1, <1>3

\* The other bounds.
LEMMA BoundsAreNumbers ==
    /\ MaxLag \in Nat /\ Floor \in Int /\ Floor <= -MaxLag
    /\ OthersMax + WakeMax <= MaxLag /\ OthersMax <= MaxLag
    /\ MaxLag = OthersMax + WakeMax + DeliveryTimeout
    /\ retention \in Retentions => Old \in Nat /\ (retention # Never => retention \in Nat)
<1>1. /\ MaxLag \in Nat /\ OthersMax + WakeMax <= MaxLag /\ OthersMax <= MaxLag
      /\ MaxLag = OthersMax + WakeMax + DeliveryTimeout
  BY Bounds DEF MaxLag
<1>2. Floor \in Int /\ Floor <= -MaxLag
  BY <1>1, Bounds DEF Floor
<1>3. ASSUME retention \in Retentions, retention # Never
      PROVE  retention \in Nat
  BY <1>3, Bounds
<1>4. retention \in Retentions => Old \in Nat
  BY <1>1, <1>3 DEF Old
<1>5. QED
  BY <1>1, <1>2, <1>3, <1>4

-----------------------------------------------------------------------------
(* The inductive invariant.                                                *)

\* TypeOK in three parts: sets of messages, numbers of messages, and the rest.
Sets ==
    /\ src \subseteq Messages /\ leased \subseteq src /\ dlq \subseteq Messages
    /\ batch \subseteq Messages /\ back \subseteq batch
    /\ dead \subseteq leased /\ toWrite \subseteq dead
    /\ handled \subseteq Messages /\ purged \subseteq Messages /\ swept \subseteq Messages

Maps ==
    /\ attempts \in [Messages -> Nat] /\ sent \in [Messages -> Nat]
    /\ due \in [Messages -> Floor .. MaxDelay] /\ left \in [Messages -> Floor .. LeaseTime]
    /\ age \in [Messages -> 0 .. Old] /\ dlqAge \in [Messages -> 0 .. Old]
    /\ pause \in [Messages -> 0 .. MaxDelay] /\ stay \in [Messages -> 0 .. Old]

Plain ==
    /\ retention \in Retentions
    /\ phase \in Sync \cup {"idle", "others", "waking", "delivering", "down"}
    /\ spent \in 0 .. MaxLag /\ lag \in 0 .. MaxLag /\ delay \in 0 .. MaxDelay
    /\ consumer \in {"running", "sleeping"} /\ calm \in 0 .. SleepAfter
    /\ inserted \in 0 .. Count

\* How long each phase can have taken.
Clocks ==
    /\ phase \in {"idle", "down"} => spent = 0 /\ lag = 0
    /\ phase = "others" => lag = spent /\ spent <= OthersMax
    /\ phase \in {"expiring", "checking"} => lag <= OthersMax
    /\ phase = "waking" => lag <= OthersMax + spent /\ spent <= WakeMax
    /\ phase = "leasing" => lag <= OthersMax + WakeMax
    /\ phase = "delivering" => lag <= OthersMax + WakeMax + spent /\ spent <= DeliveryTimeout

\* What the tick has in hand, and that it still has the lease on it.
InHand ==
    /\ src \cup batch \subseteq 1 .. inserted
    /\ phase # "applying" => back = {}
    /\ phase \notin {"expiring", "applying"} => dead = {}
    /\ phase = "expiring" => dead = {m \in Late : Exhausted(m)}
    /\ phase = "applying" => dead = {m \in Held \cap back : Exhausted(m)}
    /\ phase \in {"delivering", "applying"} => Held \subseteq leased
    /\ phase = "delivering" => \A m \in Held : left[m] >= LeaseTime - lag

\* A message that may go out again has a delivery left.
Counted ==
    /\ attempts = sent
    /\ \A m \in Messages : sent[m] <= MaxRetries + 1 /\ (m > inserted => sent[m] = 0)
    /\ \A m \in src \ leased : sent[m] <= MaxRetries

\* Where the messages are that are no longer in the table.
Settled ==
    /\ dlq \cup purged \cup swept \cup handled \subseteq 1 .. inserted
    /\ \A m \in dlq : sent[m] = MaxRetries + 1
    /\ \A m \in batch \cup handled : sent[m] > 0
    /\ phase = "applying" => batch \ back \subseteq handled
    /\ HasDeadLetters => /\ dead \ toWrite \subseteq dlq
                         /\ 1 .. inserted \subseteq src \cup purged \cup dlq \cup swept \cup handled

\* The histories of the delays and of the dead letters, against the tables.
Remembered ==
    /\ \A m \in leased : pause[m] = 0
    /\ \A m \in src \ leased : pause[m] = 0 \/ pause[m] <= due[m]
    /\ \A m \in dlq : dlqAge[m] <= stay[m] + OthersMax

QueueInv == TypeOK /\ Clocks /\ InHand /\ Counted /\ Settled /\ Remembered

\* It holds of a new queue.
LEMMA QueueInit == Init => QueueInv
<1> SUFFICES ASSUME Init PROVE QueueInv
  OBVIOUS
<1> USE Bounds, DelaysAreShort, BoundsAreNumbers
<1>1. TypeOK
  BY DEF Init, TypeOK, Messages, Sync
<1>2. Clocks /\ InHand /\ Counted /\ Settled /\ Remembered
  BY DEF Init, Clocks, InHand, Counted, Settled, Remembered, Messages, Held, Late
<1>3. QED
  BY <1>1, <1>2 DEF QueueInv


\* No step changes the retention.
LEMMA RetentionIsFixed ==
    ASSUME [Next]_vars
    PROVE  retention' = retention /\ Old' = Old
<1>1. retention' = retention
  BY DEF Next, Advance, Outside, StartTick, Expire, WriteDeadLetter, CommitExpiry, Check,
     WakeResolves, Lease, Answer, Fail, Apply, CommitResult, SweepDeadLetters,
     DeadLetterFails, WakeRejects, Purge, ConsumerSleeps, TimePasses, Crash, Restart, Send,
     SendCutShort, LeaseCutShort, vars, letters
<1>2. QED
  BY <1>1 DEF Old

\* The three parts of TypeOK are the whole of it.
LEMMA ThreeParts == TypeOK <=> Sets /\ Maps /\ Plain
BY DEF TypeOK, Sets, Maps, Plain

\* Every step keeps the sets within each other.
LEMMA SetsStay ==
    ASSUME Sets, Plain, InHand
    PROVE  [Next]_vars => Sets'
<1> USE DEF Sets
<1>1. ASSUME Expire
      PROVE  Sets'
  BY <1>1 DEF Expire, Goto, Late, table, letters, tick, result, worker, ghosts
<1>2. ASSUME WriteDeadLetter
      PROVE  Sets'
  BY <1>2 DEF WriteDeadLetter, Oldest, Within, table, letters, tick, result, worker,
     ghosts
<1>3. ASSUME CommitExpiry
      PROVE  Sets'
  BY <1>3 DEF CommitExpiry, Goto, Late, Outlived, table, letters, tick, result,
     worker, ghosts, InHand, Late
<1>4. ASSUME Check
      PROVE  Sets'
  BY <1>4 DEF Check, Goto, LeaveQueue, Drop, table, letters, tick, result, worker,
     ghosts
<1>5. ASSUME Lease
      PROVE  Sets'
  BY <1>5 DEF Lease, Claim, Goto, LeaveQueue, Drop, Visible, Oldest, table, letters, tick,
     result, worker, ghosts, InHand
<1>6. ASSUME Answer
      PROVE  Sets'
  BY <1>6 DEF Answer, Apply, Goto, Held, table, letters, tick, result, worker, ghosts,
     InHand
<1>7. ASSUME Fail
      PROVE  Sets'
  BY <1>7 DEF Fail, Apply, Goto, Held, table, letters, tick, result, worker, ghosts,
     InHand
<1>8. ASSUME CommitResult
      PROVE  Sets'
  BY <1>8 DEF CommitResult, LeaveQueue, Drop, Held, table, letters, tick, result,
     worker, ghosts, InHand
<1>9. ASSUME SweepDeadLetters
      PROVE  Sets'
  BY <1>9 DEF SweepDeadLetters, EndTick, Drop, Outlived, table, letters, tick, result,
     worker, ghosts
<1>10. ASSUME DeadLetterFails
      PROVE  Sets'
  BY <1>10 DEF DeadLetterFails, LeaveQueue, Drop, table, letters, tick, result,
     worker, ghosts
<1>11. ASSUME WakeRejects
      PROVE  Sets'
  BY <1>11 DEF WakeRejects, LeaveQueue, Drop, table, letters, tick, result, worker,
     ghosts
<1>12. ASSUME Purge
      PROVE  Sets'
  BY <1>12 DEF Purge, Async, table, letters, tick, result, worker, ghosts, InHand,
     Sync
<1>13. ASSUME Crash
      PROVE  Sets'
  BY <1>13 DEF Crash, EndTick, Drop, table, letters, tick, result, worker, ghosts
<1>14. ASSUME Restart
      PROVE  Sets'
  BY <1>14 DEF Restart, EndTick, Drop, table, letters, tick, result, worker, ghosts
<1>15. ASSUME NEW n \in 1 .. Count, NEW d \in Delays, Send(n, d)
      PROVE  Sets'
  <2>1. inserted + 1 .. inserted + n \subseteq Messages
    BY <1>15, Bounds DEF Messages, Plain, Send, SendCutShort
  <2>2. QED
    BY <1>15, <2>1 DEF Send, SendCutShort, InsertRows, EndTick, Drop, Sets, table, letters, tick, result, worker, ghosts
<1>16. ASSUME NEW n \in 1 .. Count, NEW k \in 0 .. Count, NEW d \in Delays,
             SendCutShort(n, k, d)
      PROVE  Sets'
  <2>1. inserted + 1 .. inserted + k \subseteq Messages
    BY <1>16, Bounds DEF Messages, Plain, Send, SendCutShort
  <2>2. QED
    BY <1>16, <2>1 DEF Send, SendCutShort, InsertRows, EndTick, Drop, Sets, table, letters, tick, result, worker, ghosts
<1>17. ASSUME StartTick \/ WakeResolves \/ ConsumerSleeps \/ TimePasses \/ UNCHANGED vars
      PROVE  Sets'
  BY <1>17 DEF StartTick, Goto, WakeResolves, ConsumerSleeps, Async,
     HasOutstandingLease, TimePasses, Up, Down, Patience, vars, table, letters, tick,
     result, worker, ghosts
<1>18. ASSUME NEW k \in 1 .. MaxBatchSize, LeaseCutShort(k)
      PROVE  Sets'
  BY <1>18 DEF LeaseCutShort, Claim, EndTick, Drop, Visible, Oldest, letters, worker
<1> QED
  BY <1>1, <1>2, <1>3, <1>4, <1>5, <1>6, <1>7, <1>8, <1>9, <1>10, <1>11, <1>12, <1>13,
     <1>14, <1>15, <1>16, <1>17, <1>18 DEF Next, Advance, Outside

\* Every step keeps the scalars' types, and each phase its time.
LEMMA PlainStays ==
    ASSUME Plain, Clocks, retention' = retention
    PROVE  [Next]_vars => (Plain /\ Clocks)'
<1>0. /\ OthersMax \in Nat /\ WakeMax \in Nat /\ DeliveryTimeout \in Nat /\ SleepAfter \in Nat
      /\ MaxLag = OthersMax + WakeMax + DeliveryTimeout /\ MaxDelay \in Nat /\ Count \in Nat
  BY Bounds, BoundsAreNumbers, DelaysAreShort
<1> USE <1>0 DEF Plain, Clocks, Sync
<1>1. ASSUME StartTick
      PROVE  (Plain /\ Clocks)'
  BY <1>1 DEF StartTick, Goto, table, letters, tick, result, worker, ghosts
<1>2. ASSUME Expire
      PROVE  (Plain /\ Clocks)'
  BY <1>2 DEF Expire, Goto, Late, table, letters, tick, result, worker, ghosts
<1>3. ASSUME CommitExpiry
      PROVE  (Plain /\ Clocks)'
  BY <1>3 DEF CommitExpiry, Goto, Late, Outlived, table, letters, tick, result,
     worker, ghosts
<1>4. ASSUME Check
      PROVE  (Plain /\ Clocks)'
  BY <1>4 DEF Check, Goto, LeaveQueue, Drop, table, letters, tick, result, worker,
     ghosts
<1>5. ASSUME WakeResolves
      PROVE  (Plain /\ Clocks)'
  BY <1>5 DEF WakeResolves, Goto, table, letters, tick, result, worker, ghosts
<1>6. ASSUME Lease
      PROVE  (Plain /\ Clocks)'
  BY <1>6 DEF Lease, Goto, LeaveQueue, Drop, Visible, Oldest, table, letters, tick,
     result, worker, ghosts
<1>7. ASSUME Answer
      PROVE  (Plain /\ Clocks)'
  BY <1>7, Bounds, DelaysAreShort DEF Answer, Apply, Goto, Held, table, letters, tick,
     result, worker, ghosts
<1>8. ASSUME Fail
      PROVE  (Plain /\ Clocks)'
  BY <1>8, Bounds, DelaysAreShort DEF Fail, Apply, Goto, Held, table, letters, tick,
     result, worker, ghosts
<1>9. ASSUME CommitResult
      PROVE  (Plain /\ Clocks)'
  BY <1>9 DEF CommitResult, LeaveQueue, Drop, Held, table, letters, tick, result,
     worker, ghosts
<1>10. ASSUME SweepDeadLetters
      PROVE  (Plain /\ Clocks)'
  BY <1>10 DEF SweepDeadLetters, EndTick, Drop, Outlived, table, letters, tick,
     result, worker, ghosts
<1>11. ASSUME DeadLetterFails
      PROVE  (Plain /\ Clocks)'
  <2>1. /\ phase' = "sweeping" /\ spent' = 0 /\ delay' = 0
        /\ UNCHANGED <<lag, retention, consumer, calm, inserted>>
    BY <1>11 DEF DeadLetterFails, LeaveQueue, Drop, letters, worker, ghosts
  <2>2. QED
    BY <2>1
<1>12. ASSUME WakeRejects
      PROVE  (Plain /\ Clocks)'
  BY <1>12 DEF WakeRejects, LeaveQueue, Drop, table, letters, tick, result, worker,
     ghosts
<1>13. ASSUME TimePasses
      PROVE  (Plain /\ Clocks)'
  BY <1>13 DEF TimePasses, Up, Down, Patience, table, letters, tick, result, worker,
     ghosts
<1>14. ASSUME Crash
      PROVE  (Plain /\ Clocks)'
  BY <1>14 DEF Crash, EndTick, Drop, table, letters, tick, result, worker, ghosts
<1>15. ASSUME Restart
      PROVE  (Plain /\ Clocks)'
  BY <1>15 DEF Restart, EndTick, Drop, table, letters, tick, result, worker, ghosts
<1>16. ASSUME NEW n \in 1 .. Count, NEW d \in Delays, Send(n, d)
      PROVE  (Plain /\ Clocks)'
  <2>1. Cardinality(inserted + 1 .. inserted + n) = n
    BY FS_Interval
  <2>2. inserted' = inserted + n /\ inserted + n <= Count
    BY <1>16, <2>1 DEF Send, InsertRows
  <2>3. QED
    BY <1>16, <2>2 DEF Send, table, letters, tick, result, worker, ghosts
<1>17. ASSUME NEW n \in 1 .. Count, NEW k \in 0 .. Count, NEW d \in Delays,
             SendCutShort(n, k, d)
      PROVE  (Plain /\ Clocks)'
  <2>1. Cardinality(inserted + 1 .. inserted + k) = k
    BY FS_Interval
  <2>2. inserted' = inserted + k /\ inserted + k <= Count
    BY <1>17, <2>1 DEF SendCutShort, InsertRows
  <2>3. QED
    BY <1>17, <2>2 DEF SendCutShort, EndTick, Drop, table, letters, tick, result, worker, ghosts
<1>18. ASSUME WriteDeadLetter \/ Purge \/ ConsumerSleeps \/ UNCHANGED vars
      PROVE  (Plain /\ Clocks)'
  BY <1>18 DEF WriteDeadLetter, Oldest, Within, Purge, Async, ConsumerSleeps,
     HasOutstandingLease, vars, table, letters, tick, result, worker, ghosts
<1>19. ASSUME NEW k \in 1 .. MaxBatchSize, LeaseCutShort(k)
      PROVE  (Plain /\ Clocks)'
  BY <1>19 DEF LeaseCutShort, EndTick, Drop, letters, worker
<1> QED
  BY <1>1, <1>2, <1>3, <1>4, <1>5, <1>6, <1>7, <1>8, <1>9, <1>10, <1>11, <1>12, <1>13,
     <1>14, <1>15, <1>16, <1>17, <1>18, <1>19 DEF Next, Advance, Outside

\* Every step keeps the numbers that go with the messages within their bounds.
LEMMA MapsStay ==
    ASSUME Sets, Maps, Plain, Old' = Old
    PROVE  [Next]_vars => Maps'
<1>0. /\ Floor \in Int /\ MaxDelay \in Nat /\ Old \in Nat /\ LeaseTime \in Nat /\ MaxLag \in Nat
      /\ Floor <= -MaxLag
  BY Bounds, BoundsAreNumbers, DelaysAreShort DEF Plain
<1>a. lag \in 0 .. MaxLag /\ delay \in 0 .. MaxDelay
  BY DEF Plain
<1> USE <1>0, <1>a DEF Maps
<1>1. ASSUME WriteDeadLetter
      PROVE  Maps'
  <2>1. Within(lag, Old) \in 0 .. Old /\ 0 \in 0 .. Old
    BY DEF Within
  <2>2. UNCHANGED <<attempts, sent, due, left, age, pause>>
    BY <1>1 DEF WriteDeadLetter, table
  <2>3. PICK m : /\ \E a \in 0 .. Old : dlqAge' = IF m \in dlq THEN dlqAge ELSE [dlqAge EXCEPT ![m] = a]
                 /\ stay' = IF m \in dlq THEN stay ELSE [stay EXCEPT ![m] = 0]
    BY <1>1, <2>1 DEF WriteDeadLetter
  <2>4. dlqAge' \in [Messages -> 0 .. Old] /\ stay' \in [Messages -> 0 .. Old]
    BY <2>1, <2>3
  <2>5. QED
    BY <2>2, <2>4
<1>2. ASSUME CommitExpiry
      PROVE  Maps'
  BY <1>2 DEF CommitExpiry, Goto, Late, Outlived, table, letters, tick, result,
     worker, ghosts
<1>3. ASSUME Lease
      PROVE  Maps'
  <2>1. LeaseTime - lag \in Floor .. LeaseTime
    OBVIOUS
  <2>2. UNCHANGED <<due, age, dlqAge, pause, stay>>
    BY <1>3 DEF Lease, letters
  <2>3. CASE UNCHANGED <<attempts, left, sent>>
    BY <2>2, <2>3
  <2>4. ASSUME NEW B,
               left' = [m \in Messages |-> IF m \in B THEN LeaseTime - lag ELSE left[m]],
               attempts' = [m \in Messages |-> IF m \in B THEN attempts[m] + 1 ELSE attempts[m]],
               sent' = [m \in Messages |-> IF m \in B THEN sent[m] + 1 ELSE sent[m]]
        PROVE  Maps'
    BY <2>1, <2>2, <2>4
  <2>5. QED
    BY <1>3, <2>3, <2>4 DEF Lease, Claim
<1>4. ASSUME CommitResult
      PROVE  Maps'
  BY <1>4 DEF CommitResult, LeaveQueue, Drop, Held, table, letters, tick, result,
     worker, ghosts
<1>5. ASSUME TimePasses
      PROVE  Maps'
  BY <1>5 DEF TimePasses, Up, Down, Patience, table, letters, tick, result, worker,
     ghosts
<1>6. ASSUME NEW n \in 1 .. Count, NEW d \in Delays, Send(n, d)
      PROVE  Maps'
  <2>1. d \in Nat /\ d <= MaxDelay
    BY DelaysAreShort, Bounds
  <2>2. QED
    BY <1>6, <2>1 DEF Send, InsertRows, letters, tick, result, worker, ghosts
<1>7. ASSUME NEW n \in 1 .. Count, NEW k \in 0 .. Count, NEW d \in Delays,
             SendCutShort(n, k, d)
      PROVE  Maps'
  <2>1. d \in Nat /\ d <= MaxDelay
    BY DelaysAreShort, Bounds
  <2>2. QED
    BY <1>7, <2>1 DEF SendCutShort, InsertRows, letters, worker, ghosts
<1>8. ASSUME StartTick \/ Expire \/ Check \/ WakeResolves \/ Answer \/ Fail \/
              SweepDeadLetters \/ DeadLetterFails \/ WakeRejects \/ Purge \/
              ConsumerSleeps \/ Crash \/ Restart \/ UNCHANGED vars
      PROVE  Maps'
  BY <1>8 DEF StartTick, Goto, Expire, Late, Check, LeaveQueue, Drop, WakeResolves,
     Answer, Apply, Held, Fail, SweepDeadLetters, EndTick, Outlived, DeadLetterFails,
     WakeRejects, Purge, Async, ConsumerSleeps, HasOutstandingLease, Crash, Restart,
     vars, table, letters, tick, result, worker, ghosts
<1>9. ASSUME NEW k \in 1 .. MaxBatchSize, LeaseCutShort(k)
      PROVE  Maps'
  <2>1. LeaseTime - lag \in Floor .. LeaseTime
    OBVIOUS
  <2>2. UNCHANGED <<due, age, dlqAge, pause, stay>>
    BY <1>9 DEF LeaseCutShort, letters
  <2>3. QED
    BY <1>9, <2>1, <2>2 DEF LeaseCutShort, Claim
<1> QED
  BY <1>1, <1>2, <1>3, <1>4, <1>5, <1>6, <1>7, <1>8, <1>9 DEF Next, Advance, Outside

\* What is in hand is accounted for, and under a lease.
LEMMA InHandStays ==
    ASSUME Sets, Maps, Plain, Clocks, InHand
    PROVE  [Next]_vars => InHand'
<1> USE DEF InHand, Sets, Sync
<1>1. ASSUME StartTick
      PROVE  InHand'
  BY <1>1 DEF StartTick, Goto, table, letters, tick, result, worker, ghosts, Held
<1>2. ASSUME Expire
      PROVE  InHand'
  BY <1>2 DEF Expire, Goto, Late, table, letters, tick, result, worker, ghosts,
     Exhausted
<1>3. ASSUME WriteDeadLetter
      PROVE  InHand'
  BY <1>3 DEF WriteDeadLetter, Oldest, Within, table, letters, tick, result, worker,
     ghosts, Late, Held, Exhausted
<1>4. ASSUME CommitExpiry
      PROVE  InHand'
  BY <1>4 DEF CommitExpiry, Goto, Late, Outlived, table, letters, tick, result,
     worker, ghosts
<1>5. ASSUME Check
      PROVE  InHand'
  BY <1>5 DEF Check, Goto, LeaveQueue, Drop, table, letters, tick, result, worker,
     ghosts
<1>6. ASSUME WakeResolves
      PROVE  InHand'
  BY <1>6 DEF WakeResolves, Goto, table, letters, tick, result, worker, ghosts, Held
<1>7. ASSUME Lease
      PROVE  InHand'
  <2>1. CASE Oldest(Visible, MaxBatchSize) = {}
    BY <1>7, <2>1 DEF Lease, LeaveQueue, Drop, letters, worker
  <2>2. ASSUME NEW B, B = Oldest(Visible, MaxBatchSize), B # {}
        PROVE  InHand'
    <3>1. B \subseteq src
      BY <2>2 DEF Visible, Oldest
    <3>2. /\ phase' = "delivering" /\ batch' = B /\ leased' = leased \cup B
          /\ left' = [m \in Messages |-> IF m \in B THEN LeaseTime - lag ELSE left[m]]
          /\ UNCHANGED <<src, inserted, back, dead, lag>>
      BY <1>7, <2>2 DEF Lease, Claim, Goto, result
    <3>3. LeaseTime - lag >= LeaseTime - lag
      BY Bounds DEF Plain
    <3>4. phase = "leasing"
      BY <1>7 DEF Lease
    <3>5. Held' = B
      BY <3>1, <3>2 DEF Held
    <3>6. \A m \in B : left'[m] >= LeaseTime - lag'
      BY <3>1, <3>2, <3>3
    <3>7. QED
      BY <3>1, <3>2, <3>4, <3>5, <3>6
  <2>3. QED
    BY <2>1, <2>2
<1>8. ASSUME Answer
      PROVE  InHand'
  BY <1>8 DEF Answer, Apply, Goto, Held, table, letters, tick, result, worker, ghosts,
     Exhausted
<1>9. ASSUME Fail
      PROVE  InHand'
  BY <1>9 DEF Fail, Apply, Goto, Held, table, letters, tick, result, worker, ghosts,
     Exhausted
<1>10. ASSUME CommitResult
      PROVE  InHand'
  BY <1>10 DEF CommitResult, LeaveQueue, Drop, Held, table, letters, tick, result,
     worker, ghosts
<1>11. ASSUME SweepDeadLetters
      PROVE  InHand'
  BY <1>11 DEF SweepDeadLetters, EndTick, Drop, Outlived, table, letters, tick,
     result, worker, ghosts
<1>12. ASSUME DeadLetterFails
      PROVE  InHand'
  BY <1>12 DEF DeadLetterFails, LeaveQueue, Drop, table, letters, tick, result,
     worker, ghosts
<1>13. ASSUME WakeRejects
      PROVE  InHand'
  BY <1>13 DEF WakeRejects, LeaveQueue, Drop, table, letters, tick, result, worker,
     ghosts
<1>14. ASSUME Purge
      PROVE  InHand'
  BY <1>14 DEF Purge, Async, table, letters, tick, result, worker, ghosts, Held
<1>15. ASSUME ConsumerSleeps
      PROVE  InHand'
  BY <1>15 DEF ConsumerSleeps, Async, HasOutstandingLease, table, letters, tick,
     result, worker, ghosts, Late, Held, Exhausted
<1>16. ASSUME TimePasses
      PROVE  InHand'
  <2>1. ASSUME phase = "delivering", NEW m \in Held
        PROVE  left'[m] >= LeaseTime - lag'
    <3>1. m \in Messages /\ m \in leased /\ left[m] >= LeaseTime - lag /\ lag' = lag + 1
      BY <1>16, <2>1 DEF TimePasses
    <3>2. left'[m] = Down(left[m], Floor)
      BY <1>16, <3>1 DEF TimePasses
    <3>3. left[m] \in Int /\ lag \in Nat /\ LeaseTime \in Nat /\ Floor \in Int
      BY <3>1, Bounds, BoundsAreNumbers DEF Maps, Plain
    <3>4. QED
      BY <3>1, <3>2, <3>3 DEF Down
  <2>2. phase' = phase /\ Held' = Held /\ UNCHANGED <<src, batch, inserted, dead, back, leased>>
    BY <1>16 DEF TimePasses, Held, result
  <2>3. phase \notin {"expiring", "applying"}
    BY <1>16 DEF TimePasses
  <2>4. QED
    BY <2>1, <2>2, <2>3
<1>17. ASSUME Crash
      PROVE  InHand'
  BY <1>17 DEF Crash, EndTick, Drop, table, letters, tick, result, worker, ghosts
<1>18. ASSUME Restart
      PROVE  InHand'
  BY <1>18 DEF Restart, EndTick, Drop, table, letters, tick, result, worker, ghosts
<1>19. ASSUME NEW n \in 1 .. Count, NEW d \in Delays, Send(n, d)
      PROVE  InHand'
  <2>1. inserted' = inserted + n /\ Held' = Held
    <3>1. Cardinality(inserted + 1 .. inserted + n) = n
      BY FS_Interval DEF Plain
    <3>2. batch \cap (inserted + 1 .. inserted + n) = {}
      BY DEF Plain
    <3>3. QED
      BY <1>19, <3>1, <3>2 DEF Send, InsertRows, Held, tick, EndTick, Drop
  <2>2. QED
    BY <1>19, <2>1 DEF Send, Async, InsertRows, EndTick, Drop, Plain, letters, tick, result, worker, ghosts
<1>20. ASSUME NEW n \in 1 .. Count, NEW k \in 0 .. Count, NEW d \in Delays,
             SendCutShort(n, k, d)
      PROVE  InHand'
  <2>0. Cardinality(inserted + 1 .. inserted + k) = k
    BY FS_Interval DEF Plain
  <2>1. inserted' = inserted + k /\ inserted + k >= inserted
    BY <1>20, <2>0 DEF SendCutShort, InsertRows, Plain
  <2>2. QED
    BY <1>20, <2>1 DEF SendCutShort, Async, InsertRows, EndTick, Drop, Plain, letters, worker, ghosts
<1>21. ASSUME UNCHANGED vars
      PROVE  InHand'
  BY <1>21 DEF vars, table, letters, tick, result, worker, ghosts, Late, Held,
     Exhausted
<1>22. ASSUME NEW k \in 1 .. MaxBatchSize, LeaseCutShort(k)
      PROVE  InHand'
  <2>1. /\ phase' = "down" /\ batch' = {} /\ back' = {} /\ dead' = {}
        /\ src' = src /\ inserted' = inserted
    BY <1>22 DEF LeaseCutShort, EndTick, Drop
  <2>2. QED
    BY <2>1
<1> QED
  BY <1>1, <1>2, <1>3, <1>4, <1>5, <1>6, <1>7, <1>8, <1>9, <1>10, <1>11, <1>12, <1>13,
     <1>14, <1>15, <1>16, <1>17, <1>18, <1>19, <1>20, <1>21, <1>22 DEF Next, Advance, Outside

\* Every step keeps what may go out again below what is allowed.
LEMMA CountedStays ==
    ASSUME Sets, Maps, Plain, InHand, Counted
    PROVE  [Next]_vars => Counted'
<1>0. MaxRetries \in Nat
  BY Bounds
<1> USE <1>0 DEF Counted, Sets, Maps
<1>1. ASSUME CommitExpiry
      PROVE  Counted'
  BY <1>1 DEF CommitExpiry, Goto, Late, Outlived, table, letters, tick, result,
     worker, ghosts, InHand, Exhausted
<1>2. ASSUME Lease
      PROVE  Counted'
  <2>1. CASE Oldest(Visible, MaxBatchSize) = {}
    BY <1>2, <2>1 DEF Lease, LeaveQueue, Drop, letters, worker
  <2>2. ASSUME NEW B, B = Oldest(Visible, MaxBatchSize), B # {}
        PROVE  Counted'
    <3>1. B \subseteq src \ leased
      BY <2>2 DEF Visible, Oldest
    <3>2. /\ phase' = "delivering" /\ batch' = B /\ leased' = leased \cup B
          /\ attempts' = [m \in Messages |-> IF m \in B THEN attempts[m] + 1 ELSE attempts[m]]
          /\ sent' = [m \in Messages |-> IF m \in B THEN sent[m] + 1 ELSE sent[m]]
          /\ UNCHANGED <<src, inserted, back, dead, toWrite, dlq, purged, swept, handled>>
      BY <1>2, <2>2 DEF Lease, Claim, Goto, result, letters
    <3>3. \A m \in B : m \in 1 .. inserted /\ sent[m] \in 0 .. MaxRetries
      BY <3>1 DEF InHand
    <3>4. \A m \in Messages : sent'[m] = IF m \in B THEN sent[m] + 1 ELSE sent[m]
      BY <3>2
    <3>5. attempts' = sent'
      BY <3>2
    <3>6. \A m \in Messages : sent'[m] <= MaxRetries + 1 /\ (m > inserted' => sent'[m] = 0)
      <4>1. \A m \in B : sent'[m] <= MaxRetries + 1 /\ ~(m > inserted)
        BY <3>1, <3>3, <3>4 DEF Plain
      <4>2. QED
        BY <3>2, <3>4, <4>1
    <3>7. \A m \in src' \ leased' : sent'[m] <= MaxRetries
      BY <3>2, <3>4
    <3>8. QED
      BY <3>5, <3>6, <3>7
  <2>3. QED
    BY <2>1, <2>2
<1>3. ASSUME CommitResult
      PROVE  Counted'
  BY <1>3 DEF CommitResult, LeaveQueue, Drop, Held, table, letters, tick, result,
     worker, ghosts, InHand, Exhausted
<1>4. ASSUME Purge
      PROVE  Counted'
  BY <1>4 DEF Purge, Async, table, letters, tick, result, worker, ghosts
<1>5. ASSUME NEW n \in 1 .. Count, NEW d \in Delays, Send(n, d)
      PROVE  Counted'
  <2>1. Cardinality(inserted + 1 .. inserted + n) = n
    BY FS_Interval DEF Plain
  <2>2. /\ inserted' = inserted + n /\ src' = src \cup (inserted + 1 .. inserted + n)
        /\ UNCHANGED <<attempts, sent, leased, dlq, purged, swept, handled>>
    BY <1>5, <2>1 DEF Send, InsertRows, letters
  <2>3. \A m \in inserted + 1 .. inserted + n : m \in Messages => sent[m] = 0
    BY DEF Plain
  <2>4. \A m \in Messages : m > inserted' => m > inserted
    BY <2>2 DEF Plain, Messages
  <2>5. src' \subseteq Messages
    BY <1>5, SetsStay, <2>2, Bounds DEF Plain, Messages, Next, Outside
  <2>6. QED
    BY <2>2, <2>3, <2>4, <2>5
<1>6. ASSUME NEW n \in 1 .. Count, NEW k \in 0 .. Count, NEW d \in Delays,
             SendCutShort(n, k, d)
      PROVE  Counted'
  <2>1. Cardinality(inserted + 1 .. inserted + k) = k
    BY FS_Interval DEF Plain
  <2>2. /\ inserted' = inserted + k /\ src' = src \cup (inserted + 1 .. inserted + k)
        /\ UNCHANGED <<attempts, sent, leased, dlq, purged, swept, handled>>
    BY <1>6, <2>1 DEF SendCutShort, InsertRows, letters
  <2>3. \A m \in inserted + 1 .. inserted + k : m \in Messages => sent[m] = 0
    BY DEF Plain
  <2>4. \A m \in Messages : m > inserted' => m > inserted
    BY <2>2 DEF Plain, Messages
  <2>5. src' \subseteq Messages
    BY <1>6, SetsStay, <2>2, Bounds DEF Plain, Messages, Next, Outside
  <2>6. QED
    BY <2>2, <2>3, <2>4, <2>5
<1>7. ASSUME StartTick \/ Expire \/ WriteDeadLetter \/ Check \/ WakeResolves \/ Answer \/
              Fail \/ SweepDeadLetters \/ DeadLetterFails \/ WakeRejects \/
              ConsumerSleeps \/ TimePasses \/ Crash \/ Restart \/ UNCHANGED
              vars
      PROVE  Counted'
  BY <1>7 DEF StartTick, Goto, Expire, Late, WriteDeadLetter, Oldest, Within, Check,
     LeaveQueue, Drop, WakeResolves, Answer, Apply, Held, Fail, SweepDeadLetters,
     EndTick, Outlived, DeadLetterFails, WakeRejects, ConsumerSleeps, Async,
     HasOutstandingLease, TimePasses, Up, Down, Patience, Crash, Restart, vars, table,
     letters, tick, result, worker, ghosts
<1>8. ASSUME NEW k \in 1 .. MaxBatchSize, LeaseCutShort(k)
      PROVE  Counted'
  <2> DEFINE B == Oldest(Visible, k)
  <2>1. B \subseteq src \ leased
    BY DEF Visible, Oldest
  <2>2. /\ leased' = leased \cup B
        /\ attempts' = [m \in Messages |-> IF m \in B THEN attempts[m] + 1 ELSE attempts[m]]
        /\ sent' = [m \in Messages |-> IF m \in B THEN sent[m] + 1 ELSE sent[m]]
        /\ src' = src /\ inserted' = inserted
    BY <1>8 DEF LeaseCutShort, Claim
  <2> HIDE DEF B
  <2>3. \A m \in B : m \in 1 .. inserted /\ sent[m] \in 0 .. MaxRetries
    BY <2>1 DEF InHand
  <2>4. \A m \in Messages : sent'[m] = IF m \in B THEN sent[m] + 1 ELSE sent[m]
    BY <2>2
  <2>5. \A m \in B : sent'[m] <= MaxRetries + 1 /\ ~(m > inserted)
    BY <2>1, <2>3, <2>4 DEF Plain
  <2>6. QED
    BY <2>2, <2>4, <2>5
<1> QED
  BY <1>1, <1>2, <1>3, <1>4, <1>5, <1>6, <1>7, <1>8 DEF Next, Advance, Outside

\* Every step keeps book of where the messages go.
LEMMA SettledStays ==
    ASSUME Sets, Maps, Plain, InHand, Counted, Settled
    PROVE  [Next]_vars => Settled'
<1>0. MaxRetries \in Nat
  BY Bounds
<1> USE <1>0 DEF Settled, Sets, Maps
<1>1. ASSUME StartTick
      PROVE  Settled'
  BY <1>1 DEF StartTick, Goto, table, letters, tick, result, worker, ghosts
<1>2. ASSUME Expire
      PROVE  Settled'
  BY <1>2 DEF Expire, Goto, Late, table, letters, tick, result, worker, ghosts,
     InHand, Exhausted, Counted
<1>3. ASSUME WriteDeadLetter
      PROVE  Settled'
  BY <1>3 DEF WriteDeadLetter, Oldest, Within, table, letters, tick, result, worker,
     ghosts, InHand, Exhausted, Counted, Messages
<1>4. ASSUME CommitExpiry
      PROVE  Settled'
  BY <1>4 DEF CommitExpiry, Goto, Late, Outlived, table, letters, tick, result,
     worker, ghosts, InHand
<1>5. ASSUME Check
      PROVE  Settled'
  BY <1>5 DEF Check, Goto, LeaveQueue, Drop, table, letters, tick, result, worker,
     ghosts
<1>6. ASSUME WakeResolves
      PROVE  Settled'
  BY <1>6 DEF WakeResolves, Goto, table, letters, tick, result, worker, ghosts
<1>7. ASSUME Lease
      PROVE  Settled'
  <2>1. CASE Oldest(Visible, MaxBatchSize) = {}
    BY <1>7, <2>1 DEF Lease, LeaveQueue, Drop, letters, worker
  <2>2. ASSUME NEW B, B = Oldest(Visible, MaxBatchSize), B # {}
        PROVE  Settled'
    <3>1. B \subseteq src \ leased
      BY <2>2 DEF Visible, Oldest
    <3>2. /\ phase' = "delivering" /\ batch' = B /\ leased' = leased \cup B
          /\ attempts' = [m \in Messages |-> IF m \in B THEN attempts[m] + 1 ELSE attempts[m]]
          /\ sent' = [m \in Messages |-> IF m \in B THEN sent[m] + 1 ELSE sent[m]]
          /\ UNCHANGED <<src, inserted, back, dead, toWrite, dlq, purged, swept, handled>>
      BY <1>7, <2>2 DEF Lease, Claim, Goto, result, letters
    <3>3. dlq \cap B = {}
      <4>1. \A m \in B : sent[m] <= MaxRetries
        BY <3>1 DEF Counted
      <4>2. QED
        BY <4>1
    <3>4. \A m \in B : sent'[m] = sent[m] + 1 /\ sent'[m] > 0
      BY <3>1, <3>2
    <3>5. \A m \in Messages \ B : sent'[m] = sent[m]
      BY <3>2
    <3>6. (\A m \in dlq' : sent'[m] = MaxRetries + 1) /\ (\A m \in batch' \cup handled' : sent'[m] > 0)
      BY <3>2, <3>3, <3>4, <3>5
    <3>7. QED
      BY <3>2, <3>6
  <2>3. QED
    BY <2>1, <2>2
<1>8. ASSUME Answer
      PROVE  Settled'
  BY <1>8 DEF Answer, Apply, Goto, Held, table, letters, tick, result, worker, ghosts,
     InHand
<1>9. ASSUME Fail
      PROVE  Settled'
  BY <1>9 DEF Fail, Apply, Goto, Held, table, letters, tick, result, worker, ghosts,
     InHand
<1>10. ASSUME CommitResult
      PROVE  Settled'
  BY <1>10 DEF CommitResult, LeaveQueue, Drop, Held, table, letters, tick, result,
     worker, ghosts, InHand
<1>11. ASSUME SweepDeadLetters
      PROVE  Settled'
  BY <1>11 DEF SweepDeadLetters, EndTick, Drop, Outlived, table, letters, tick,
     result, worker, ghosts
<1>12. ASSUME DeadLetterFails
      PROVE  Settled'
  BY <1>12 DEF DeadLetterFails, LeaveQueue, Drop, table, letters, tick, result,
     worker, ghosts, InHand
<1>13. ASSUME WakeRejects
      PROVE  Settled'
  BY <1>13 DEF WakeRejects, LeaveQueue, Drop, table, letters, tick, result, worker,
     ghosts
<1>14. ASSUME Purge
      PROVE  Settled'
  BY <1>14 DEF Purge, Async, table, letters, tick, result, worker, ghosts, InHand
<1>15. ASSUME Crash
      PROVE  Settled'
  BY <1>15 DEF Crash, EndTick, Drop, table, letters, tick, result, worker, ghosts,
     InHand
<1>16. ASSUME Restart
      PROVE  Settled'
  BY <1>16 DEF Restart, EndTick, Drop, table, letters, tick, result, worker, ghosts
<1>17. ASSUME NEW n \in 1 .. Count, NEW d \in Delays, Send(n, d)
      PROVE  Settled'
  <2>1. Cardinality(inserted + 1 .. inserted + n) = n
    BY FS_Interval DEF Plain
  <2>2. /\ inserted' = inserted + n /\ src' = src \cup (inserted + 1 .. inserted + n)
        /\ UNCHANGED <<attempts, sent, leased, dlq, purged, swept, handled>>
    BY <1>17, <2>1 DEF Send, InsertRows, letters
  <2>3. UNCHANGED tick
    BY <1>17 DEF Send
  <2>4. QED
    BY <2>2, <2>3 DEF Plain, tick, result
<1>18. ASSUME NEW n \in 1 .. Count, NEW k \in 0 .. Count, NEW d \in Delays,
             SendCutShort(n, k, d)
      PROVE  Settled'
  <2>1. Cardinality(inserted + 1 .. inserted + k) = k
    BY FS_Interval DEF Plain
  <2>2. /\ inserted' = inserted + k /\ src' = src \cup (inserted + 1 .. inserted + k)
        /\ UNCHANGED <<attempts, sent, leased, dlq, purged, swept, handled>>
    BY <1>18, <2>1 DEF SendCutShort, InsertRows, letters
  <2>3. phase' = "down" /\ batch' = {} /\ dead' = {}
    BY <1>18 DEF SendCutShort, EndTick, Drop
  <2>4. QED
    BY <2>2, <2>3 DEF Plain
<1>19. ASSUME ConsumerSleeps \/ TimePasses \/ UNCHANGED vars
      PROVE  Settled'
  BY <1>19 DEF ConsumerSleeps, Async, HasOutstandingLease, TimePasses, Up, Down,
     Patience, vars, table, letters, tick, result, worker, ghosts
<1>20. ASSUME NEW k \in 1 .. MaxBatchSize, LeaseCutShort(k)
      PROVE  Settled'
  <2> DEFINE B == Oldest(Visible, k)
  <2>1. B \subseteq src \ leased
    BY DEF Visible, Oldest
  <2>2. /\ sent' = [m \in Messages |-> IF m \in B THEN sent[m] + 1 ELSE sent[m]]
        /\ phase' = "down" /\ batch' = {} /\ dead' = {} /\ toWrite' = {}
        /\ UNCHANGED <<src, inserted, dlq, purged, swept, handled>>
    BY <1>20 DEF LeaseCutShort, Claim, EndTick, Drop, letters
  <2> HIDE DEF B
  <2>3. dlq \cap B = {}
    <3>1. \A m \in B : sent[m] <= MaxRetries
      BY <2>1 DEF Counted
    <3>2. QED
      BY <3>1
  <2>4. \A m \in Messages : sent'[m] = sent[m] \/ (m \notin dlq /\ sent'[m] = sent[m] + 1)
    BY <2>2, <2>3
  <2>5. (\A m \in dlq' : sent'[m] = MaxRetries + 1) /\ (\A m \in handled' : sent'[m] > 0)
    BY <2>2, <2>4
  <2>6. QED
    BY <2>2, <2>5
<1> QED
  BY <1>1, <1>2, <1>3, <1>4, <1>5, <1>6, <1>7, <1>8, <1>9, <1>10, <1>11, <1>12, <1>13,
     <1>14, <1>15, <1>16, <1>17, <1>18, <1>19, <1>20 DEF Next, Advance, Outside

\* Every step keeps the histories of the times in line with the tables.
LEMMA RememberedStays ==
    ASSUME Sets, Maps, Plain, Clocks, InHand, Remembered
    PROVE  [Next]_vars => Remembered'
<1>0. /\ MaxDelay \in Nat /\ Floor \in Int /\ Floor <= 0 /\ OthersMax \in Nat /\ MaxLag \in Nat
      /\ Old \in Nat
  BY Bounds, BoundsAreNumbers, DelaysAreShort DEF Plain
<1>a. lag \in 0 .. MaxLag /\ delay \in 0 .. MaxDelay
  BY DEF Plain
<1> USE <1>0, <1>a DEF Remembered, Sets, Maps
<1>1. ASSUME WriteDeadLetter
      PROVE  Remembered'
  <2>1. UNCHANGED <<src, leased, due, pause>>
    BY <1>1 DEF WriteDeadLetter, table
  <2>2. PICK m \in toWrite :
           /\ dlq' = dlq \cup {m}
           /\ dlqAge' = IF m \in dlq THEN dlqAge
                        ELSE [dlqAge EXCEPT ![m] = IF phase = "expiring" THEN Within(lag, Old) ELSE 0]
           /\ stay' = IF m \in dlq THEN stay ELSE [stay EXCEPT ![m] = 0]
    BY <1>1 DEF WriteDeadLetter, Oldest
  <2>3. m \in Messages
    OBVIOUS
  <2>4. phase = "expiring" => Within(lag, Old) <= OthersMax
    BY DEF Clocks, Within
  <2>5. CASE m \in dlq
    BY <2>1, <2>2, <2>5
  <2>6. CASE m \notin dlq
    <3>1. dlqAge'[m] <= OthersMax /\ stay'[m] = 0
      BY <2>2, <2>3, <2>4, <2>6
    <3>2. \A n \in dlq : dlqAge'[n] = dlqAge[n] /\ stay'[n] = stay[n]
      BY <2>2, <2>3, <2>6
    <3>3. \A n \in dlq' : dlqAge'[n] <= stay'[n] + OthersMax
      BY <2>2, <3>1, <3>2
    <3>4. QED
      BY <2>1, <3>3
  <2>7. QED
    BY <2>5, <2>6
<1>2. ASSUME CommitExpiry
      PROVE  Remembered'
  BY <1>2 DEF CommitExpiry, Goto, Late, Outlived, table, letters, tick, result,
     worker, ghosts, InHand
<1>3. ASSUME Lease
      PROVE  Remembered'
  <2>1. /\ UNCHANGED <<src, due, dlq, dlqAge, pause, stay>>
        /\ leased' = leased \/ leased' = leased \cup Oldest(Visible, MaxBatchSize)
    BY <1>3 DEF Lease, Claim, letters
  <2>2. \A m \in Oldest(Visible, MaxBatchSize) : m \in src \ leased /\ due[m] <= -lag
    BY DEF Oldest, Visible
  <2>3. \A m \in Oldest(Visible, MaxBatchSize) : pause[m] = 0
    BY <2>2
  <2>4. QED
    BY <2>1, <2>3
<1>4. ASSUME CommitResult
      PROVE  Remembered'
  BY <1>4 DEF CommitResult, LeaveQueue, Drop, Held, table, letters, tick, result,
     worker, ghosts, InHand
<1>5. ASSUME SweepDeadLetters
      PROVE  Remembered'
  BY <1>5 DEF SweepDeadLetters, EndTick, Drop, Outlived, table, letters, tick, result,
     worker, ghosts
<1>6. ASSUME Purge
      PROVE  Remembered'
  BY <1>6 DEF Purge, Async, table, letters, tick, result, worker, ghosts
<1>7. ASSUME TimePasses
      PROVE  Remembered'
  <2>1. /\ UNCHANGED <<src, leased, dlq>>
        /\ \A m \in Messages :
              /\ pause'[m] = Down(pause[m], 0)
              /\ m \in src => due'[m] = Down(due[m], Floor)
              /\ m \in dlq => dlqAge'[m] = Up(dlqAge[m], Old) /\ stay'[m] = Up(stay[m], Old)
    BY <1>7 DEF TimePasses
  <2>2. QED
    BY <2>1 DEF Up, Down
<1>8. ASSUME NEW n \in 1 .. Count, NEW d \in Delays, Send(n, d)
      PROVE  Remembered'
  <2>1. \A m \in leased : m \notin inserted + 1 .. inserted + n
    BY DEF InHand, Plain
  <2>2. UNCHANGED <<leased, dlq, dlqAge, stay>>
    BY <1>8 DEF Send, InsertRows, letters
  <2>3. /\ src' = src \cup (inserted + 1 .. inserted + n)
        /\ \A m \in Messages : /\ due'[m] = IF m \in inserted + 1 .. inserted + n THEN d ELSE due[m]
                              /\ pause'[m] = IF m \in inserted + 1 .. inserted + n THEN d ELSE pause[m]
    BY <1>8 DEF Send, InsertRows
  <2>4. d \in Nat /\ src' \subseteq Messages
    BY <1>8, Bounds DEF Messages, Plain, Send, InsertRows
  <2>5. QED
    BY <2>1, <2>2, <2>3, <2>4
<1>9. ASSUME NEW n \in 1 .. Count, NEW k \in 0 .. Count, NEW d \in Delays,
             SendCutShort(n, k, d)
      PROVE  Remembered'
  <2>1. \A m \in leased : m \notin inserted + 1 .. inserted + k
    BY DEF InHand, Plain
  <2>2. UNCHANGED <<leased, dlq, dlqAge, stay>>
    BY <1>9 DEF SendCutShort, InsertRows, letters
  <2>3. /\ src' = src \cup (inserted + 1 .. inserted + k)
        /\ \A m \in Messages : /\ due'[m] = IF m \in inserted + 1 .. inserted + k THEN d ELSE due[m]
                              /\ pause'[m] = IF m \in inserted + 1 .. inserted + k THEN d ELSE pause[m]
    BY <1>9 DEF SendCutShort, InsertRows
  <2>4. d \in Nat /\ src' \subseteq Messages
    BY <1>9, Bounds DEF Messages, Plain, SendCutShort, InsertRows
  <2>5. QED
    BY <2>1, <2>2, <2>3, <2>4
<1>10. ASSUME StartTick \/ Expire \/ Check \/ WakeResolves \/ Answer \/ Fail \/
              DeadLetterFails \/ WakeRejects \/ ConsumerSleeps \/ Crash \/
              Restart \/ UNCHANGED vars
      PROVE  Remembered'
  BY <1>10 DEF StartTick, Goto, Expire, Late, Check, LeaveQueue, Drop, WakeResolves,
     Answer, Apply, Held, Fail, DeadLetterFails, WakeRejects, ConsumerSleeps, Async,
     HasOutstandingLease, Crash, EndTick, Restart, vars, table, letters, tick, result,
     worker, ghosts
<1>11. ASSUME NEW k \in 1 .. MaxBatchSize, LeaseCutShort(k)
      PROVE  Remembered'
  <2>1. /\ UNCHANGED <<src, due, dlq, dlqAge, pause, stay>>
        /\ leased' = leased \cup Oldest(Visible, k)
    BY <1>11 DEF LeaseCutShort, Claim, letters
  <2>2. \A m \in Oldest(Visible, k) : m \in src \ leased /\ due[m] <= -lag
    BY DEF Oldest, Visible
  <2>3. \A m \in Oldest(Visible, k) : pause[m] = 0
    BY <2>2
  <2>4. QED
    BY <2>1, <2>3
<1> QED
  BY <1>1, <1>2, <1>3, <1>4, <1>5, <1>6, <1>7, <1>8, <1>9, <1>10, <1>11 DEF Next, Advance,
     Outside

\* Every step keeps the whole of it.
LEMMA QueueNext == QueueInv /\ [Next]_vars => QueueInv'
<1> SUFFICES ASSUME QueueInv, [Next]_vars PROVE QueueInv'
  OBVIOUS
<1>1. Sets /\ Maps /\ Plain /\ Clocks /\ InHand /\ Counted /\ Settled /\ Remembered
  BY ThreeParts DEF QueueInv
<1>2. retention' = retention /\ Old' = Old
  BY RetentionIsFixed
<1>3. Sets' /\ Maps' /\ Plain' /\ Clocks'
  BY <1>1, <1>2, SetsStay, MapsStay, PlainStays
<1>4. InHand' /\ Counted' /\ Settled' /\ Remembered'
  BY <1>1, InHandStays, CountedStays, SettledStays, RememberedStays
<1>5. TypeOK'
  BY <1>3 DEF TypeOK, Sets, Maps, Plain
<1>6. QED
  BY <1>3, <1>4, <1>5 DEF QueueInv

\* So it holds always.
LEMMA QueueAlways == Spec => []QueueInv
BY QueueInit, QueueNext, PTL DEF Spec

-----------------------------------------------------------------------------
(* What follows from it.                                                   *)

\* TypeOK: every variable keeps its type, and the sets stay within each other: what
\* is leased is in the table, what is being dead lettered is leased.
THEOREM QueueTypeCorrect == Spec => []TypeOK
<1>1. QueueInv => TypeOK
  BY DEF QueueInv
<1>2. QED
  BY <1>1, QueueAlways, PTL

\* A message is handed to a consumer at most MaxRetries + 1 times, also when the
\* daemon dies with the batch out, over and over (broker.ts, expireLeases).
THEOREM DeliveriesBounded == Spec => []DeliveriesAreBounded
<1>1. QueueInv => DeliveriesAreBounded
  BY DEF QueueInv, Counted, DeliveriesAreBounded
<1>2. QED
  BY <1>1, QueueAlways, PTL

\* Only a claim counts a delivery, and it takes what is visible.
LEMMA DelayIsOver ==
    ASSUME Sets, Maps, Plain, Remembered, [Next]_vars,
           NEW m \in Messages, sent'[m] # sent[m]
    PROVE  pause[m] = 0
<1>1. Lease \/ \E k \in 1 .. MaxBatchSize : LeaseCutShort(k)
  BY DEF Next, Advance, Outside, StartTick, Expire, WriteDeadLetter, CommitExpiry, Check,
     WakeResolves, Answer, Fail, Apply, CommitResult, SweepDeadLetters,
     DeadLetterFails, WakeRejects, Purge, ConsumerSleeps, TimePasses, Crash, Restart, Send,
     SendCutShort, vars, ghosts
<1>2. \E k : m \in Oldest(Visible, k)
  BY <1>1 DEF Lease, LeaseCutShort, Claim, Maps
<1>3. m \in src \ leased /\ due[m] <= -lag
  BY <1>2 DEF Oldest, Visible
<1>4. /\ pause[m] = 0 \/ pause[m] <= due[m]
      /\ lag \in Nat /\ due[m] \in Int /\ pause[m] \in Nat
  BY <1>3, Bounds, BoundsAreNumbers, DelaysAreShort DEF Remembered, Maps, Plain
<1>5. QED
  BY <1>3, <1>4

\* Only the sweep takes a dead letter away, and it has aged by then.
LEMMA RetentionIsOver ==
    ASSUME Sets, Maps, Plain, Remembered, [Next]_vars, NEW m \in dlq \ dlq'
    PROVE  stay[m] >= retention - OthersMax
<1>1. SweepDeadLetters
  BY DEF Next, Advance, Outside, StartTick, Expire, WriteDeadLetter, CommitExpiry, Check,
     WakeResolves, Lease, Answer, Fail, Apply, CommitResult,
     DeadLetterFails, WakeRejects, Purge, ConsumerSleeps, TimePasses, Crash, Restart, Send,
     SendCutShort, LeaseCutShort, vars, letters
<1>2. retention # Never /\ dlqAge[m] - lag >= retention
  BY <1>1 DEF SweepDeadLetters, Outlived
<1>3. /\ dlqAge[m] <= stay[m] + OthersMax
      /\ dlqAge[m] \in Nat /\ stay[m] \in Nat /\ lag \in Nat /\ retention \in Nat /\ OthersMax \in Nat
  BY <1>2, Bounds, BoundsAreNumbers DEF Remembered, Maps, Plain, Sets
<1>4. QED
  BY <1>2, <1>3

\* What the tick leased is the consumer's for a lease, counted from the clock the tick
\* read: until that is over the guard sees it.
LEMMA LeaseIsOver ==
    ASSUME Sets, Maps, Plain, InHand, [Next]_vars,
           consumer = "running", consumer' = "sleeping", phase = "delivering", Held # {}
    PROVE  lag >= LeaseTime
<1>1. ConsumerSleeps
  BY DEF Next, Advance, Outside, StartTick, Expire, WriteDeadLetter, CommitExpiry, Check,
     WakeResolves, Lease, Answer, Fail, Apply, CommitResult, SweepDeadLetters,
     DeadLetterFails, WakeRejects, Purge, TimePasses, Crash, Restart, Send,
     SendCutShort, LeaseCutShort, vars, worker
<1>2. PICK m \in Held : TRUE
  OBVIOUS
<1>3. m \in leased /\ left[m] >= LeaseTime - lag
  BY DEF InHand
<1>4. left[m] \in Int /\ lag \in Int /\ LeaseTime \in Int
  BY <1>3, Bounds, BoundsAreNumbers DEF Sets, Maps, Plain
<1>5. ~(left[m] > 0)
  BY <1>1, <1>3 DEF ConsumerSleeps, HasOutstandingLease
<1>6. QED
  BY <1>3, <1>4, <1>5

\* What is promised for a time is kept for that time: a message is not handed out
\* again before its delay is over (tick.ts, step 7), a dead letter stays its whole
\* retention, but for what the tick that wrote it had already taken (broker.ts,
\* sweepRetention), and a consumer with a batch in hand is not stopped before a lease's
\* time is over since the tick read its clock (guard.ts), however long a lease is
\* and however long the tick takes.
THEOREM TimesKept == Spec => TimesAreKept
<1> DEFINE A == \A m \in Messages : sent'[m] # sent[m] => pause[m] = 0
           B == \A m \in dlq \ dlq' : stay[m] >= retention - OthersMax
           C == consumer = "running" /\ consumer' = "sleeping" /\ phase = "delivering" /\ Held # {}
                => lag >= LeaseTime
<1>1. QueueInv /\ [Next]_vars => A /\ B /\ C
  BY ThreeParts, DelayIsOver, RetentionIsOver, LeaseIsOver DEF QueueInv
<1>2. Spec => [][A]_vars /\ [][B]_vars /\ [][C]_vars
  BY <1>1, QueueAlways, PTL DEF Spec
<1>3. QED
  BY <1>2 DEF TimesAreKept, DelaysAreKept, DeadLettersAreKept, NotSleptMidBatch

-----------------------------------------------------------------------------
(* The queue implements Delivery.  The fate of a message is where its row  *)
(* is, and its tries are the deliveries counted.                           *)

\* In the beginning nothing was sent.
LEMMA PromiseInit == Init => Promise!Init
<1> SUFFICES ASSUME Init PROVE Promise!Init
  OBVIOUS
<1>1. \A m \in Messages : Fate(m) = "unsent"
  BY Bounds DEF Init, Fate, Messages
<1>2. QED
  BY <1>1 DEF Init, Promise!Init

\* A step that leaves every row where it is, is none of Delivery's.
LEMMA Stutters ==
    ASSUME sent' = sent, \A m \in Messages : Fate(m)' = Fate(m)
    PROVE  UNCHANGED Promise!vars
BY DEF Promise!vars

\* Rows that leave the table have been acknowledged after a delivery, dead lettered
\* after the last, purged, or kept for their time.
LEMMA Settles ==
    ASSUME HasDeadLetters, Sets, Plain, InHand, Settled, Settled',
           sent' = sent, inserted' = inserted, src' \subseteq src,
           \A m \in Messages \ src : Fate(m)' = Fate(m)
    PROVE  Promise!Next
<1> DEFINE S == src \ src'
           f == [m \in S |-> Fate(m)']
<1>1. S \subseteq Messages /\ S \subseteq 1 .. inserted
  BY DEF Sets, InHand
<1>2. \A m \in S : /\ Fate(m) = "held"
                   /\ Fate(m)' \in {"acked", "dead", "purged", "expired"}
  <2>1. \A m \in S : m \in src /\ m \notin src' /\ ~(m > inserted) /\ ~(m > inserted')
    BY <1>1 DEF Plain
  <2>2. \A m \in S : m \in purged' \cup dlq' \cup swept' \cup handled'
    BY <1>1 DEF Settled
  <2>3. QED
    BY <2>1, <2>2 DEF Fate
<1>3. \A m \in S : /\ Fate(m)' = "dead" => m \in dlq'
                   /\ Fate(m)' = "acked" => m \in handled'
  BY <1>1 DEF Fate
<1>4. \A m \in S : /\ Fate(m)' = "dead" => sent[m] = MaxRetries + 1
                   /\ Fate(m)' = "acked" => sent[m] > 0
  BY <1>3 DEF Settled
<1>5. \A m \in Messages \ S : Fate(m)' = Fate(m)
  BY DEF Fate
<1>6. f \in [S -> {"acked", "dead", "purged", "expired"}]
  BY <1>2
<1>7. Promise!Settle(S, f)
  BY <1>1, <1>2, <1>4, <1>5 DEF Promise!Settle, Promise!Are, Promise!Become
<1>8. QED
  BY <1>1, <1>6, <1>7 DEF Promise!Next

\* Rows that are inserted are those of messages nobody sent before.
LEMMA Accepts ==
    ASSUME Sets, Plain, sent' = sent, NEW k \in Nat, inserted + k <= Count,
           inserted' = inserted + k, src' = src \cup (inserted + 1 .. inserted + k),
           UNCHANGED <<dlq, purged, swept, handled>>
    PROVE  Promise!Next
<1> DEFINE S == inserted + 1 .. inserted + k
<1>1. S \subseteq Messages /\ \A m \in S : m > inserted /\ ~(m > inserted')
  BY Bounds DEF Plain, Messages
<1>2. \A m \in S : Fate(m) = "unsent" /\ Fate(m)' = "held"
  BY <1>1 DEF Fate
<1>3. \A m \in Messages \ S : (m > inserted' <=> m > inserted) /\ (m \in src' <=> m \in src)
  BY Bounds DEF Plain, Messages
<1>4. \A m \in Messages \ S : Fate(m)' = Fate(m)
  BY <1>3 DEF Fate
<1>5. Promise!Accept(S)
  BY <1>1, <1>2, <1>4 DEF Promise!Accept, Promise!Are, Promise!Become
<1>6. QED
  BY <1>1, <1>5 DEF Promise!Next

\* What is claimed has a delivery left.
LEMMA Claims ==
    ASSUME Sets, Maps, Plain, InHand, Counted, NEW k, Claim(Oldest(Visible, k)),
           UNCHANGED <<src, inserted, dlq, purged, swept, handled>>
    PROVE  Promise!Next
<1> DEFINE B == Oldest(Visible, k)
<1>1. B \subseteq src \ leased /\ B \subseteq Messages
  BY DEF Oldest, Visible, Sets
<1>2. sent' = [m \in Messages |-> IF m \in B THEN sent[m] + 1 ELSE sent[m]]
  BY DEF Claim
<1>3. \A m \in Messages : Fate(m)' = Fate(m)
  BY DEF Fate
<1> HIDE DEF B
<1>4. \A m \in B : Fate(m) = "held" /\ sent[m] < MaxRetries + 1
  <2>1. \A m \in B : m \in 1 .. inserted /\ sent[m] <= MaxRetries /\ sent[m] \in Nat
    BY <1>1 DEF InHand, Counted, Maps
  <2>2. QED
    BY <1>1, <2>1, Bounds DEF Fate, Plain
<1>5. Promise!Deliver(B)
  BY <1>1, <1>2, <1>3, <1>4 DEF Promise!Deliver, Promise!Are
<1>6. QED
  BY <1>1, <1>5 DEF Promise!Next

\* A batch goes out, or there is none.
LEMMA Delivers ==
    ASSUME Sets, Maps, Plain, InHand, Counted, Lease
    PROVE  Promise!Next \/ UNCHANGED Promise!vars
<1>1. UNCHANGED <<src, inserted, dlq, purged, swept, handled>>
  BY DEF Lease, letters
<1>2. CASE sent' = sent
  BY <1>1, <1>2, Stutters DEF Fate
<1>3. CASE Claim(Oldest(Visible, MaxBatchSize))
  BY <1>1, <1>3, Claims
<1>4. QED
  BY <1>2, <1>3 DEF Lease

\* A dead letter whose retention is over is forgotten.
LEMMA Forgets ==
    ASSUME Sets, SweepDeadLetters
    PROVE  Promise!Next
<1> DEFINE S == {m \in Messages : Fate(m) = "dead" /\ m \notin dlq'}
<1>1. /\ UNCHANGED <<src, inserted, purged, handled, sent>>
      /\ dlq' \subseteq dlq /\ swept' = swept \cup (dlq \ dlq')
  BY DEF SweepDeadLetters, table
<1>2. \A m \in S : Fate(m)' = "expired"
  BY <1>1 DEF Fate
<1>3. \A m \in Messages \ S : Fate(m)' = Fate(m)
  BY <1>1 DEF Fate
<1>4. Promise!Forget(S)
  BY <1>1, <1>2, <1>3 DEF Promise!Forget, Promise!Are, Promise!Become
<1>5. QED
  BY <1>4 DEF Promise!Next

\* Every step of the queue is one of Delivery's, or none.
LEMMA PromiseStep ==
    ASSUME HasDeadLetters, QueueInv, QueueInv', [Next]_vars
    PROVE  Promise!Next \/ UNCHANGED Promise!vars
<1>1. /\ Sets /\ Maps /\ Plain /\ InHand /\ Counted /\ Settled
      /\ Settled'
  BY ThreeParts DEF QueueInv
<1>2. ASSUME NEW n \in 1 .. Count, NEW d \in Delays, Send(n, d)
      PROVE  Promise!Next
  <2>1. Cardinality(inserted + 1 .. inserted + n) = n
    BY <1>1, FS_Interval DEF Plain
  <2>2. inserted' = inserted + n /\ inserted + n <= Count
    BY <1>2, <2>1 DEF Send, InsertRows
  <2>3. QED
    BY <1>1, <1>2, <2>2, Accepts DEF Send, InsertRows, letters
<1>3. ASSUME NEW n \in 1 .. Count, NEW k \in 0 .. Count, NEW d \in Delays, SendCutShort(n, k, d)
      PROVE  Promise!Next
  <2>1. Cardinality(inserted + 1 .. inserted + k) = k
    BY <1>1, FS_Interval DEF Plain
  <2>2. inserted' = inserted + k /\ inserted + k <= Count
    BY <1>1, <1>3, <2>1, Bounds DEF SendCutShort, InsertRows, Plain
  <2>3. QED
    BY <1>1, <1>3, <2>2, Accepts DEF SendCutShort, InsertRows, letters
<1>4. ASSUME Purge \/ CommitExpiry \/ CommitResult
      PROVE  Promise!Next
  <2>1. sent' = sent /\ inserted' = inserted /\ src' \subseteq src
    BY <1>4 DEF Purge, CommitExpiry, CommitResult
  <2>2. \A m \in Messages \ src : Fate(m)' = Fate(m)
    BY <1>4, <2>1 DEF Purge, CommitExpiry, CommitResult, Fate, letters
  <2>3. QED
    BY <1>1, <2>1, <2>2, Settles
<1>5. CASE Answer
  <2>1. \E B \in SUBSET batch : handled' = handled \cup (batch \ B)
    BY <1>5 DEF Answer
  <2>2. UNCHANGED <<src, inserted, dlq, purged, swept, sent>>
    BY <1>5 DEF Answer, Apply, table, letters
  <2>3. \A m \in Messages \ src :
           m <= inserted => m \in purged \cup dlq \cup swept \cup handled
    BY <1>1 DEF Settled, Plain, Messages
  <2>4. \A m \in Messages : Fate(m)' = Fate(m)
    BY <1>1, <2>1, <2>2, <2>3 DEF Fate, Plain, Messages
  <2>5. QED
    BY <2>2, <2>4, Stutters
<1>6. CASE WriteDeadLetter
  <2>1. UNCHANGED <<src, inserted, purged, swept, handled, sent>>
    BY <1>6 DEF WriteDeadLetter, table
  <2>2. \E m \in src : dlq' = dlq \cup {m}
    BY <1>1, <1>6 DEF WriteDeadLetter, Oldest, Sets
  <2>3. \A m \in Messages : Fate(m)' = Fate(m)
    BY <2>1, <2>2 DEF Fate
  <2>4. QED
    BY <2>1, <2>3, Stutters
<1>7. ASSUME \/ StartTick \/ Expire \/ Check \/ WakeResolves \/ Fail \/ DeadLetterFails
             \/ WakeRejects \/ ConsumerSleeps \/ TimePasses \/ Crash \/ Restart \/ UNCHANGED vars
      PROVE  UNCHANGED Promise!vars
  <2>1. UNCHANGED <<src, inserted, dlq, purged, swept, handled, sent>>
    BY <1>7 DEF StartTick, Expire, Check, WakeResolves, Fail, Apply, DeadLetterFails,
       WakeRejects, ConsumerSleeps, TimePasses, Crash, Restart, vars, table, letters, ghosts
  <2>2. \A m \in Messages : Fate(m)' = Fate(m)
    BY <2>1 DEF Fate
  <2>3. QED
    BY <2>1, <2>2, Stutters
<1>8. ASSUME NEW k \in 1 .. MaxBatchSize, LeaseCutShort(k)
      PROVE  Promise!Next
  <2>1. Claim(Oldest(Visible, k)) /\ UNCHANGED <<src, inserted, dlq, purged, swept, handled>>
    BY <1>8 DEF LeaseCutShort, letters
  <2>2. QED
    BY <1>1, <2>1, Claims
<1>9. QED
  BY <1>1, <1>2, <1>3, <1>4, <1>5, <1>6, <1>7, <1>8, Delivers, Forgets DEF Next, Advance, Outside

\* With a dead letter queue nothing that was accepted is lost, comes back after it was
\* settled, or is dead lettered early, whatever fails and wherever the daemon dies
\* (broker.ts, tick.ts): the queue implements Delivery.
THEOREM QueueKeepsItsPromise ==
    ASSUME HasDeadLetters
    PROVE  Spec => PromiseKept
<1>1. QueueInv /\ QueueInv' /\ [Next]_vars => [Promise!Next]_(Promise!vars)
  BY PromiseStep
<1>2. QED
  BY <1>1, PromiseInit, QueueAlways, PTL DEF Spec, PromiseKept, Promise!Spec

=============================================================================
