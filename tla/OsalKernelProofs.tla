-------------------------- MODULE OsalKernelProofs --------------------------
(***************************************************************************)
(* Proofs about OsalKernel, for every number of tasks, every set of buffers *)
(* and flags, and every bound on the work.                                  *)
(***************************************************************************)
EXTENDS OsalMailboxes, WellFoundedInduction, TLAPS

\* The buffers a sequence holds, and a sequence that holds none twice.
Elems(q) == {q[i] : i \in 1 .. Len(q)}
Distinct(q) == \A i, j \in 1 .. Len(q) : q[i] = q[j] => i = j

-----------------------------------------------------------------------------
(* The queue operations.                                                   *)

(* osal_msg_enqueue and osal_msg_push add exactly the given buffer.        *)
LEMMA InsertedFacts ==
  ASSUME NEW S, NEW q \in Seq(S), NEW m \in S, NEW front \in BOOLEAN
  PROVE  /\ Inserted(q, m, front) \in Seq(S)
         /\ Elems(Inserted(q, m, front)) = Elems(q) \cup {m}
         /\ Distinct(q) /\ m \notin Elems(q)
              => Distinct(Inserted(q, m, front))
<1>1. CASE front
  <2> DEFINE r == <<m>> \o q
  <2>1. Inserted(q, m, front) = r
    BY <1>1 DEF Inserted
  <2>2. r \in Seq(S) /\ Len(r) = Len(q) + 1
    OBVIOUS
  <2>3. r[1] = m /\ \A i \in 1 .. Len(q) : r[i + 1] = q[i]
    OBVIOUS
  <2> HIDE DEF r
  <2>4. ASSUME NEW i \in 1 .. Len(r), i # 1
        PROVE  /\ i - 1 \in 1 .. Len(q)
               /\ r[i] = q[i - 1]
    <3>1. i - 1 \in 1 .. Len(q)
      BY <2>2, <2>4
    <3>2. r[(i - 1) + 1] = q[i - 1]
      BY <2>3, <3>1
    <3> QED
      BY <3>1, <3>2
  <2>5. Elems(r) = Elems(q) \cup {m}
    <3>1. ASSUME NEW i \in 1 .. Len(r)
          PROVE  r[i] \in Elems(q) \cup {m}
      BY <2>3, <2>4 DEF Elems
    <3>2. ASSUME NEW i \in 1 .. Len(q)
          PROVE  q[i] \in Elems(r)
      <4>1. i + 1 \in 1 .. Len(r)
        BY <2>2
      <4> QED
        BY <2>3, <4>1 DEF Elems
    <3>3. m \in Elems(r)
      <4>1. 1 \in 1 .. Len(r)
        BY <2>2
      <4> QED
        BY <2>3, <4>1 DEF Elems
    <3> QED
      BY <3>1, <3>2, <3>3 DEF Elems
  <2>6. ASSUME Distinct(q), m \notin Elems(q)
        PROVE  Distinct(r)
    <3> SUFFICES ASSUME NEW i \in 1 .. Len(r), NEW j \in 1 .. Len(r), r[i] = r[j]
                 PROVE  i = j
      BY DEF Distinct
    <3>1. CASE i = 1 \/ j = 1
      BY <2>3, <2>4, <2>6, <3>1 DEF Elems
    <3>2. CASE i # 1 /\ j # 1
      <4>1. i - 1 = j - 1
        BY <2>4, <2>6, <3>2 DEF Distinct
      <4> QED
        BY <4>1
    <3> QED
      BY <3>1, <3>2
  <2> QED
    BY <2>1, <2>2, <2>5, <2>6
<1>2. CASE ~front
  <2> DEFINE r == Append(q, m)
  <2>1. Inserted(q, m, front) = r
    BY <1>2 DEF Inserted
  <2>2. r \in Seq(S) /\ Len(r) = Len(q) + 1
    OBVIOUS
  <2>3. r[Len(q) + 1] = m /\ \A i \in 1 .. Len(q) : r[i] = q[i]
    OBVIOUS
  <2> HIDE DEF r
  <2>4. \A i \in 1 .. Len(r) : i # Len(q) + 1 => i \in 1 .. Len(q)
    BY <2>2
  <2>5. Elems(r) = Elems(q) \cup {m}
    BY <2>2, <2>3, <2>4 DEF Elems
  <2>6. ASSUME Distinct(q), m \notin Elems(q)
        PROVE  Distinct(r)
    BY <2>2, <2>3, <2>4, <2>6 DEF Elems, Distinct
  <2> QED
    BY <2>1, <2>2, <2>5, <2>6
<1> QED
  BY <1>1, <1>2

(* osal_msg_extract removes exactly the buffer at the given position.      *)
LEMMA ExtractedFacts ==
  ASSUME NEW S, NEW q \in Seq(S), NEW k \in 1 .. Len(q)
  PROVE  /\ Extracted(q, k) \in Seq(S)
         /\ Distinct(q) => Elems(Extracted(q, k)) = Elems(q) \ {q[k]}
         /\ Distinct(q) => Distinct(Extracted(q, k))
<1> DEFINE r == Extracted(q, k)
<1>1. r \in Seq(S) /\ Len(r) = Len(q) - 1
  BY DEF Extracted
<1>2. \A j \in 1 .. Len(r) : r[j] = IF j < k THEN q[j] ELSE q[j + 1]
  BY <1>1 DEF Extracted
<1>3. ASSUME Distinct(q)
      PROVE  Elems(r) = Elems(q) \ {q[k]}
  <2>1. ASSUME NEW j \in 1 .. Len(r)
        PROVE  r[j] \in Elems(q) \ {q[k]}
    BY <1>1, <1>2, <1>3 DEF Elems, Distinct
  <2>2. ASSUME NEW j \in 1 .. Len(q), q[j] # q[k]
        PROVE  q[j] \in Elems(r)
    <3>1. CASE j < k
      <4>1. j \in 1 .. Len(r) /\ r[j] = q[j]
        BY <1>1, <1>2, <3>1
      <4> QED
        BY <4>1 DEF Elems
    <3>2. CASE j > k
      <4>1. j - 1 \in 1 .. Len(r) /\ r[j - 1] = q[j]
        BY <1>1, <1>2, <3>2
      <4> QED
        BY <4>1 DEF Elems
    <3> QED
      BY <2>2, <3>1, <3>2
  <2> QED
    BY <2>1, <2>2 DEF Elems
<1>4. ASSUME Distinct(q)
      PROVE  Distinct(r)
  <2> SUFFICES ASSUME NEW i \in 1 .. Len(r), NEW j \in 1 .. Len(r), r[i] = r[j]
               PROVE  i = j
    BY DEF Distinct
  <2>1. /\ i \in 1 .. Len(q) /\ i + 1 \in 1 .. Len(q)
        /\ j \in 1 .. Len(q) /\ j + 1 \in 1 .. Len(q)
    BY <1>1
  <2>2. r[i] = (IF i < k THEN q[i] ELSE q[i + 1])
        /\ r[j] = (IF j < k THEN q[j] ELSE q[j + 1])
    BY <1>2
  <2>3. CASE i < k /\ j < k
    BY <1>4, <2>1, <2>2, <2>3 DEF Distinct
  <2>4. CASE i < k /\ ~(j < k)
    <3>1. i = j + 1
      BY <1>4, <2>1, <2>2, <2>4 DEF Distinct
    <3> QED
      BY <2>4, <3>1
  <2>5. CASE ~(i < k) /\ j < k
    <3>1. i + 1 = j
      BY <1>4, <2>1, <2>2, <2>5 DEF Distinct
    <3> QED
      BY <2>5, <3>1
  <2>6. CASE ~(i < k) /\ ~(j < k)
    <3>1. i + 1 = j + 1
      BY <1>4, <2>1, <2>2, <2>6 DEF Distinct
    <3> QED
      BY <3>1
  <2> QED
    BY <2>3, <2>4, <2>5, <2>6
<1> QED
  BY <1>1, <1>3, <1>4

-----------------------------------------------------------------------------
(* Type correctness.                                                       *)

LEMMA TaskFacts == /\ 0 \in Tasks
                   /\ Tasks \subseteq Nat
                   /\ NoTask \notin Tasks
                   /\ \A t \in Tasks : t + 1 < tasksCnt => t + 1 \in Tasks
BY KernelAssumption DEF Tasks

LEMMA TypeInit == Init => TypeOK
<1> SUFFICES ASSUME Init
             PROVE  TypeOK
  OBVIOUS
<1>1. qHead \in Seq(Msgs) /\ destId \in [Msgs -> Tasks \cup {NoTask}]
  BY DEF Init
<1>2. tasksEvents \in [Tasks -> SUBSET Flags]
  BY DEF Init
<1>3. work \in 0 .. MaxWork
  BY KernelAssumption DEF Init
<1>4. idx \in Tasks
  BY TaskFacts DEF Init
<1> QED
  BY <1>1, <1>2, <1>3, <1>4 DEF Init, TypeOK, Modes

LEMMA TypeStep == TypeOK /\ [Next]_vars => TypeOK'
<1> SUFFICES ASSUME TypeOK, [Next]_vars
             PROVE  TypeOK'
  OBVIOUS
<1> USE KernelAssumption, TaskFacts
<1>1. ASSUME NEW t \in Tasks, NEW e \in Events, IsrSetEvent(t, e)
      PROVE  TypeOK'
  BY <1>1 DEF TypeOK, IsrSetEvent, SpendWork, SetFlag, Woken, queueVars,
              powerVars, Flags
<1>2. ASSUME NEW m \in Msgs, NEW t \in Tasks, IsrSend(m, t)
      PROVE  TypeOK'
  <2>1. Inserted(qHead, m, FALSE) \in Seq(Msgs)
    BY InsertedFacts DEF TypeOK
  <2>2. /\ qHead' \in Seq(Msgs)
        /\ destId' \in [Msgs -> Tasks \cup {NoTask}]
        /\ heap' \subseteq Msgs
    BY <1>2, <2>1 DEF TypeOK, IsrSend
  <2>3. tasksEvents' \in [Tasks -> SUBSET Flags]
    BY <1>2 DEF TypeOK, IsrSend, SetFlag, Flags
  <2>4. work' \in 0 .. MaxWork
    BY <1>2 DEF TypeOK, IsrSend, SpendWork
  <2>5. UNCHANGED <<held, loopVars, powerVars>>
    BY <1>2 DEF IsrSend
  <2> QED
    BY <2>2, <2>3, <2>4, <2>5 DEF TypeOK, loopVars, powerVars
<1>3. ASSUME NEW t \in Tasks, NEW e \in Events, PollSetEvent(t, e)
      PROVE  TypeOK'
  BY <1>3 DEF TypeOK, PollSetEvent, SpendWork, SetFlag, queueVars, loopVars,
              powerVars, Flags
<1>4. ASSUME StartScan
      PROVE  TypeOK'
  BY <1>4 DEF TypeOK, StartScan, queueVars, powerVars
<1>5. ASSUME ScanHit
      PROVE  TypeOK'
  BY <1>5 DEF TypeOK, ScanHit, queueVars, powerVars
<1>6. ASSUME ScanMiss
      PROVE  TypeOK'
  BY <1>6 DEF TypeOK, ScanMiss, queueVars, powerVars
<1>7. ASSUME Grab
      PROVE  TypeOK'
  BY <1>7 DEF TypeOK, Grab, queueVars, powerVars
<1>8. ASSUME Return
      PROVE  TypeOK'
  BY <1>8 DEF TypeOK, Return, queueVars, powerVars
<1>9. ASSUME Conserve
      PROVE  TypeOK'
  BY <1>9 DEF TypeOK, Conserve, queueVars, powerVars
<1>10. ASSUME TimerWake
       PROVE  TypeOK'
  BY <1>10 DEF TypeOK, TimerWake, queueVars, powerVars
<1>11. ASSUME Receive
       PROVE  TypeOK'
  <2>1. PICK i \in 1 .. Len(qHead) :
          /\ tasksEvents' =
               [tasksEvents EXCEPT ![activeTaskID] =
                  FlagsAfterReceive(activeTaskID, i)]
          /\ qHead' = Extracted(qHead, i)
          /\ destId' = [destId EXCEPT ![qHead[i]] = NoTask]
          /\ held' = {qHead[i]}
    BY <1>11 DEF Receive
  <2>2. Extracted(qHead, i) \in Seq(Msgs) /\ qHead[i] \in Msgs
    BY ExtractedFacts DEF TypeOK
  <2>3. FlagsAfterReceive(activeTaskID, i) \subseteq Flags
    BY <1>11 DEF TypeOK, Receive, FlagsAfterReceive, Flags
  <2>4. /\ qHead' \in Seq(Msgs)
        /\ destId' \in [Msgs -> Tasks \cup {NoTask}]
        /\ held' \subseteq Msgs
    BY <2>1, <2>2 DEF TypeOK
  <2>5. tasksEvents' \in [Tasks -> SUBSET Flags]
    BY <2>1, <2>3 DEF TypeOK
  <2> QED
    BY <1>11, <2>4, <2>5 DEF TypeOK, Receive, powerVars
<1>12. ASSUME ReceiveNull
       PROVE  TypeOK'
  BY <1>12 DEF TypeOK, ReceiveNull, queueVars, powerVars
<1>13. ASSUME NEW m \in Msgs, FreeMsg(m)
       PROVE  TypeOK'
  BY <1>13 DEF TypeOK, FreeMsg, loopVars, powerVars
<1>14. ASSUME ReturnAfterMsg
       PROVE  TypeOK'
  BY <1>14 DEF TypeOK, ReturnAfterMsg, queueVars, powerVars
<1>15. ASSUME NEW e \in Events, HandleEvent(e)
       PROVE  TypeOK'
  BY <1>15 DEF TypeOK, HandleEvent, queueVars, powerVars
<1>16. ASSUME NEW m \in Msgs, AllocMsg(m)
       PROVE  TypeOK'
  BY <1>16 DEF TypeOK, AllocMsg, SpendWork, loopVars, powerVars
<1>17. ASSUME NEW m \in Msgs, NEW t \in Tasks, NEW front \in BOOLEAN,
              Send(m, t, front)
       PROVE  TypeOK'
  <2>1. Inserted(qHead, m, front) \in Seq(Msgs)
    BY InsertedFacts DEF TypeOK
  <2> QED
    BY <1>17, <2>1 DEF TypeOK, Send, SpendWork, powerVars
<1>18. ASSUME Signal
       PROVE  TypeOK'
  BY <1>18 DEF TypeOK, Signal, SetFlag, queueVars, powerVars, Flags
<1>19. ASSUME NEW m \in Msgs, SendRefused(m)
       PROVE  TypeOK'
  BY <1>19 DEF TypeOK, SendRefused, SpendWork, loopVars, powerVars
<1>20. ASSUME NEW t \in Tasks, NEW e \in Events, SetEvent(t, e)
       PROVE  TypeOK'
  BY <1>20 DEF TypeOK, SetEvent, SpendWork, SetFlag, queueVars, loopVars,
               powerVars, Flags
<1>21. ASSUME NEW mode \in Modes, PwrDevice(mode)
       PROVE  TypeOK'
  BY <1>21 DEF TypeOK, PwrDevice, SpendWork, queueVars, loopVars
<1>22. ASSUME NEW conserve \in BOOLEAN, PwrTaskState(conserve)
       PROVE  TypeOK'
  BY <1>22 DEF TypeOK, PwrTaskState, SpendWork, queueVars, loopVars
<1>23. ASSUME UNCHANGED vars
       PROVE  TypeOK'
  BY <1>23 DEF TypeOK, vars
<1> QED
  BY <1>1, <1>2, <1>3, <1>4, <1>5, <1>6, <1>7, <1>8, <1>9, <1>10, <1>11,
     <1>12, <1>13, <1>14, <1>15, <1>16, <1>17, <1>18, <1>19, <1>20, <1>21,
     <1>22, <1>23 DEF Next, Main, Loop, Handler, Isr

(* The kernel's variables keep their types, and the loop's location, the    *)
(* active task and a pending signal keep telling the same story.            *)
THEOREM TypeCorrect == Spec => []TypeOK
<1>1. QED
  BY TypeInit, TypeStep, PTL DEF Spec

-----------------------------------------------------------------------------
(* Who owns a buffer.                                                      *)

LEMMA QueuedIsElems == Queued = Elems(qHead) /\ Queued' = Elems(qHead')
BY DEF Queued, Elems

(* A step that leaves the list alone keeps ownership if it keeps the free   *)
(* and the held buffers apart from each other and from the list.            *)
LEMMA OwnershipKept ==
  ASSUME QueueOwnership, UNCHANGED <<qHead, destId>>,
         Queued \cap (heap' \cup held') = {}, heap' \cap held' = {}
  PROVE  QueueOwnership'
BY DEF QueueOwnership, Queued

(* A step that links a buffer no list holds.                                *)
LEMMA OwnershipInserted ==
  ASSUME TypeOK, QueueOwnership,
         NEW m \in Msgs, NEW t \in Tasks, NEW front \in BOOLEAN,
         m \notin Queued,
         qHead' = Inserted(qHead, m, front),
         destId' = [destId EXCEPT ![m] = t],
         heap' \cup held' = (heap \cup held) \ {m}, heap' \cap held' = {}
  PROVE  QueueOwnership' /\ Queued' = Queued \cup {m}
<1>1. /\ Queued' = Queued \cup {m}
      /\ Distinct(qHead) => Distinct(qHead')
  BY InsertedFacts, QueuedIsElems DEF TypeOK
<1>2. Distinct(qHead) /\ Distinct(qHead')
  BY <1>1 DEF QueueOwnership, Distinct
<1>3. \A n \in Msgs : destId'[n] # NoTask <=> n \in Queued'
  BY <1>1, TaskFacts DEF QueueOwnership, TypeOK
<1>4. Queued' \cap (heap' \cup held') = {}
  BY <1>1 DEF QueueOwnership
<1>5. QueueOwnership'
  BY <1>2, <1>3, <1>4 DEF QueueOwnership, Distinct
<1> QED
  BY <1>1, <1>5

LEMMA OwnershipStep == TypeOK /\ QueueOwnership /\ [Next]_vars => QueueOwnership'
<1> SUFFICES ASSUME TypeOK, QueueOwnership, [Next]_vars
             PROVE  QueueOwnership'
  OBVIOUS
<1>1. ASSUME UNCHANGED <<qHead, destId, heap, held>>
      PROVE  QueueOwnership'
  BY <1>1, OwnershipKept DEF QueueOwnership
<1>2. ASSUME NEW m \in Msgs, NEW t \in Tasks, IsrSend(m, t)
      PROVE  QueueOwnership'
  <2>1. m \notin Queued
    BY <1>2 DEF IsrSend, QueueOwnership
  <2>2. heap' \cup held' = (heap \cup held) \ {m} /\ heap' \cap held' = {}
    BY <1>2 DEF IsrSend, QueueOwnership
  <2> QED
    BY <1>2, <2>1, <2>2, OwnershipInserted DEF IsrSend
<1>3. ASSUME Receive
      PROVE  QueueOwnership'
  <2>1. PICK i \in 1 .. Len(qHead) :
          /\ qHead' = Extracted(qHead, i)
          /\ destId' = [destId EXCEPT ![qHead[i]] = NoTask]
          /\ held' = {qHead[i]}
    BY <1>3 DEF Receive
  <2>2. Distinct(qHead) /\ qHead[i] \in Queued /\ qHead[i] \in Msgs
    BY DEF QueueOwnership, Distinct, Queued, TypeOK
  <2>3. Queued' = Queued \ {qHead[i]} /\ Distinct(qHead')
    BY <2>1, <2>2, ExtractedFacts, QueuedIsElems DEF TypeOK
  <2>4. \A n \in Msgs : destId'[n] # NoTask <=> n \in Queued'
    BY <2>1, <2>2, <2>3 DEF QueueOwnership, TypeOK
  <2>5. heap' = heap
    BY <1>3 DEF Receive
  <2>6. Queued' \cap (heap' \cup held') = {} /\ heap' \cap held' = {}
    BY <2>1, <2>2, <2>3, <2>5 DEF QueueOwnership
  <2> QED
    BY <2>3, <2>4, <2>6 DEF QueueOwnership, Distinct
<1>4. ASSUME NEW m \in Msgs, FreeMsg(m)
      PROVE  QueueOwnership'
  BY <1>4, OwnershipKept DEF FreeMsg, QueueOwnership
<1>5. ASSUME NEW m \in Msgs, AllocMsg(m)
      PROVE  QueueOwnership'
  BY <1>5, OwnershipKept DEF AllocMsg, QueueOwnership
<1>6. ASSUME NEW m \in Msgs, SendRefused(m)
      PROVE  QueueOwnership'
  <2>1. CASE destId[m] # NoTask
    BY <1>1, <1>6, <2>1 DEF SendRefused
  <2>2. CASE destId[m] = NoTask
    <3>1. m \notin Queued
      BY <2>2 DEF QueueOwnership
    <3> QED
      BY <1>6, <2>2, <3>1, OwnershipKept DEF SendRefused, QueueOwnership
  <2> QED
    BY <2>1, <2>2
<1>7. ASSUME NEW m \in Msgs, NEW t \in Tasks, NEW front \in BOOLEAN,
             Send(m, t, front)
      PROVE  QueueOwnership'
  <2>1. m \notin Queued
    BY <1>7 DEF Send, QueueOwnership
  <2>2. heap' \cup held' = (heap \cup held) \ {m} /\ heap' \cap held' = {}
    BY <1>7 DEF Send, QueueOwnership
  <2> QED
    BY <1>7, <2>1, <2>2, OwnershipInserted DEF Send
<1>8. ASSUME NEW t \in Tasks, NEW e \in Events,
             IsrSetEvent(t, e) \/ PollSetEvent(t, e) \/ SetEvent(t, e)
      PROVE  QueueOwnership'
  BY <1>1, <1>8 DEF IsrSetEvent, PollSetEvent, SetEvent, queueVars
<1>9. ASSUME \/ StartScan \/ ScanHit \/ ScanMiss \/ Grab \/ Return \/ Conserve
             \/ TimerWake \/ ReceiveNull \/ ReturnAfterMsg \/ Signal
      PROVE  QueueOwnership'
  BY <1>1, <1>9 DEF StartScan, ScanHit, ScanMiss, Grab, Return, Conserve,
       TimerWake, ReceiveNull, ReturnAfterMsg, Signal, queueVars
<1>10. ASSUME NEW e \in Events, HandleEvent(e)
       PROVE  QueueOwnership'
  BY <1>1, <1>10 DEF HandleEvent, queueVars
<1>11. ASSUME \/ \E mode \in Modes : PwrDevice(mode)
              \/ \E conserve \in BOOLEAN : PwrTaskState(conserve)
       PROVE  QueueOwnership'
  BY <1>1, <1>11 DEF PwrDevice, PwrTaskState, queueVars
<1>12. ASSUME UNCHANGED vars
       PROVE  QueueOwnership'
  BY <1>1, <1>12 DEF vars
<1> QED
  BY <1>2, <1>3, <1>4, <1>5, <1>6, <1>7, <1>8, <1>9, <1>10, <1>11, <1>12
     DEF Next, Main, Loop, Handler, Isr

LEMMA OwnershipInit == Init => QueueOwnership
BY DEF Init, QueueOwnership, Queued

(* Free list, handlers and message queue never claim the same buffer, and a *)
(* header names a task exactly while its buffer is queued.                  *)
THEOREM BuffersOwnedOnce == Spec => []QueueOwnership
<1>1. TypeOK /\ QueueOwnership /\ [Next]_vars => QueueOwnership'
  BY OwnershipStep
<1> QED
  BY OwnershipInit, TypeCorrect, <1>1, PTL DEF Spec

-----------------------------------------------------------------------------
(* No lost wake-up.                                                        *)

(* A step that leaves the list alone and takes no notification away.        *)
LEMMA NotifiedKept ==
  ASSUME TypeOK, QueueOwnership, NoLostWakeup, UNCHANGED <<qHead, destId>>,
         \A t \in Tasks : Notified(t) => Notified(t)'
  PROVE  NoLostWakeup'
<1>1. \A m \in Queued : destId[m] \in Tasks
  BY DEF TypeOK, QueueOwnership, Queued
<1> QED
  BY <1>1 DEF NoLostWakeup, Notified, Queued

LEMMA WakeupStep ==
  TypeOK /\ QueueOwnership /\ NoLostWakeup /\ [Next]_vars => NoLostWakeup'
<1> SUFFICES ASSUME TypeOK, QueueOwnership, NoLostWakeup, [Next]_vars
             PROVE  NoLostWakeup'
  OBVIOUS
<1> USE KernelAssumption, TaskFacts
<1>1. \A m \in Queued : m \in Msgs /\ destId[m] \in Tasks
  BY DEF TypeOK, QueueOwnership, Queued
<1>2. ASSUME NEW t \in Tasks, NEW e \in Events,
             IsrSetEvent(t, e) \/ PollSetEvent(t, e) \/ SetEvent(t, e)
      PROVE  NoLostWakeup'
  BY <1>2, NotifiedKept DEF IsrSetEvent, PollSetEvent, SetEvent, SetFlag,
       queueVars, loopVars, Notified, TypeOK
<1>3. ASSUME NEW m \in Msgs, NEW t \in Tasks, IsrSend(m, t)
      PROVE  NoLostWakeup'
  <2>1. m \notin Queued
    BY <1>3 DEF IsrSend, QueueOwnership
  <2>2. heap' \cup held' = (heap \cup held) \ {m} /\ heap' \cap held' = {}
    BY <1>3 DEF IsrSend, QueueOwnership
  <2>3. Queued' = Queued \cup {m}
    BY <1>3, <2>1, <2>2, OwnershipInserted DEF IsrSend
  <2>4. \A u \in Tasks : Notified(u) => Notified(u)'
    BY <1>3 DEF IsrSend, SetFlag, loopVars, Notified, TypeOK
  <2>5. Notified(t)'
    BY <1>3 DEF IsrSend, SetFlag, Notified, TypeOK
  <2>6. ASSUME NEW n \in Queued'
        PROVE  Notified(destId[n])'
    <3>1. CASE n = m
      BY <1>3, <2>5, <3>1 DEF IsrSend, TypeOK, Notified
    <3>2. CASE n # m
      BY <1>1, <1>3, <2>3, <2>4, <3>2 DEF IsrSend, TypeOK, NoLostWakeup, Notified
    <3> QED
      BY <3>1, <3>2
  <2> QED
    BY <2>6 DEF NoLostWakeup, Notified
<1>4. ASSUME \/ StartScan \/ ScanHit \/ ScanMiss \/ Conserve \/ TimerWake
      PROVE  NoLostWakeup'
  BY <1>4, NotifiedKept DEF StartScan, ScanHit, ScanMiss, Conserve, TimerWake,
       queueVars, Notified
<1>5. ASSUME Grab
      PROVE  NoLostWakeup'
  <2>1. \A t \in Tasks : Notified(t) => Notified(t)'
    BY <1>5 DEF Grab, Notified, TypeOK
  <2> QED
    BY <1>5, <2>1, NotifiedKept DEF Grab, queueVars
<1>6. ASSUME Return
      PROVE  NoLostWakeup'
  <2>1. \A t \in Tasks : Notified(t) => Notified(t)'
    BY <1>6 DEF Return, Notified, TypeOK
  <2> QED
    BY <1>6, <2>1, NotifiedKept DEF Return, queueVars
<1>7. ASSUME Receive
      PROVE  NoLostWakeup'
  <2>1. PICK i \in 1 .. Len(qHead) :
          /\ IsFirstFor(activeTaskID, i)
          /\ tasksEvents' =
               [tasksEvents EXCEPT ![activeTaskID] =
                  FlagsAfterReceive(activeTaskID, i)]
          /\ qHead' = Extracted(qHead, i)
          /\ destId' = [destId EXCEPT ![qHead[i]] = NoTask]
    BY <1>7 DEF Receive
  <2>2. Distinct(qHead) /\ qHead[i] \in Msgs
    BY DEF QueueOwnership, Distinct, TypeOK
  <2>3. Queued' = Queued \ {qHead[i]}
    BY <2>1, <2>2, ExtractedFacts, QueuedIsElems DEF TypeOK
  <2>4. activeTaskID \in Tasks /\ signal = NoTask /\ UNCHANGED <<signal, activeTaskID>>
    BY <1>7 DEF Receive, TypeOK
  <2>5. ASSUME NEW m \in Queued'
        PROVE  Notified(destId[m])'
    <3>1. m \in Queued /\ m # qHead[i] /\ destId'[m] = destId[m]
      BY <2>1, <2>2, <2>3, <1>1 DEF TypeOK
    <3>2. CASE destId[m] = activeTaskID
      <4>1. PICK j \in 1 .. Len(qHead) : m = qHead[j]
        BY <3>1 DEF Queued
      <4>2. j \in i + 1 .. Len(qHead)
        <5>1. ~(j \in 1 .. i - 1)
          BY <2>1, <3>2, <4>1 DEF IsFirstFor
        <5>2. j # i
          BY <3>1, <4>1
        <5> QED
          BY <5>1, <5>2, <4>1
      <4>3. SYS \in FlagsAfterReceive(activeTaskID, i)
        BY <3>2, <4>1, <4>2 DEF FlagsAfterReceive
      <4> QED
        BY <2>1, <2>4, <3>1, <3>2, <4>3 DEF Notified, TypeOK
    <3>3. CASE destId[m] # activeTaskID
      <4>1. SYS \in tasksEvents[destId[m]]
        BY <2>4, <3>1, <3>3, <1>1 DEF NoLostWakeup, Notified
      <4> QED
        BY <2>1, <3>1, <3>3, <4>1, <1>1 DEF Notified, TypeOK
    <3> QED
      BY <3>2, <3>3
  <2> QED
    BY <2>5 DEF NoLostWakeup, Notified
<1>8. ASSUME ReceiveNull
      PROVE  NoLostWakeup'
  <2>1. \A m \in Queued : destId[m] # activeTaskID
    BY <1>8 DEF ReceiveNull, Queued
  <2>2. UNCHANGED <<qHead, destId, signal, activeTaskID>>
    BY <1>8 DEF ReceiveNull, queueVars
  <2>3. ASSUME NEW m \in Queued
        PROVE  Notified(destId[m])'
    BY <1>1, <1>8, <2>1, <2>2 DEF ReceiveNull, NoLostWakeup, Notified, TypeOK
  <2> QED
    BY <2>2, <2>3 DEF NoLostWakeup, Notified, Queued
<1>9. ASSUME NEW m \in Msgs, FreeMsg(m) \/ AllocMsg(m) \/ SendRefused(m)
      PROVE  NoLostWakeup'
  BY <1>9, NotifiedKept DEF FreeMsg, AllocMsg, SendRefused, loopVars, Notified
<1>10. ASSUME ReturnAfterMsg
       PROVE  NoLostWakeup'
  BY <1>10, NotifiedKept DEF ReturnAfterMsg, queueVars, Notified
<1>11. ASSUME NEW e \in Events, HandleEvent(e)
       PROVE  NoLostWakeup'
  BY <1>11, NotifiedKept DEF HandleEvent, queueVars, Notified
<1>12. ASSUME NEW m \in Msgs, NEW t \in Tasks, NEW front \in BOOLEAN,
              Send(m, t, front)
       PROVE  NoLostWakeup'
  <2>1. m \notin Queued
    BY <1>12 DEF Send, QueueOwnership
  <2>2. heap' \cup held' = (heap \cup held) \ {m} /\ heap' \cap held' = {}
    BY <1>12 DEF Send, QueueOwnership
  <2>3. Queued' = Queued \cup {m}
    BY <1>12, <2>1, <2>2, OwnershipInserted DEF Send
  <2>4. \A u \in Tasks : Notified(u) => Notified(u)'
    BY <1>12 DEF Send, Notified, TypeOK
  <2>5. Notified(t)'
    BY <1>12 DEF Send, Notified
  <2>6. ASSUME NEW n \in Queued'
        PROVE  Notified(destId[n])'
    <3>1. CASE n = m
      BY <1>12, <2>5, <3>1 DEF Send, TypeOK, Notified
    <3>2. CASE n # m
      BY <1>1, <1>12, <2>3, <2>4, <3>2 DEF Send, TypeOK, NoLostWakeup, Notified
    <3> QED
      BY <3>1, <3>2
  <2> QED
    BY <2>6 DEF NoLostWakeup, Notified
<1>13. ASSUME Signal
       PROVE  NoLostWakeup'
  <2>1. \A t \in Tasks : Notified(t) => Notified(t)'
    BY <1>13 DEF Signal, SetFlag, Notified, TypeOK
  <2> QED
    BY <1>13, <2>1, NotifiedKept DEF Signal, queueVars
<1>14. ASSUME \/ \E mode \in Modes : PwrDevice(mode)
              \/ \E conserve \in BOOLEAN : PwrTaskState(conserve)
       PROVE  NoLostWakeup'
  BY <1>14, NotifiedKept DEF PwrDevice, PwrTaskState, queueVars, loopVars,
       Notified
<1>15. ASSUME UNCHANGED vars
       PROVE  NoLostWakeup'
  BY <1>15, NotifiedKept DEF vars, Notified
<1> QED
  BY <1>2, <1>3, <1>4, <1>5, <1>6, <1>7, <1>8, <1>9, <1>10, <1>11, <1>12,
     <1>13, <1>14, <1>15 DEF Next, Main, Loop, Handler, Isr

LEMMA WakeupInit == Init => NoLostWakeup
BY DEF Init, NoLostWakeup, Queued

(* A queued message is always announced to its task, whatever the sender,   *)
(* the interrupts and the task itself do in between.                        *)
THEOREM WakeupsKept == Spec => []NoLostWakeup
<1>1. TypeOK /\ QueueOwnership /\ NoLostWakeup /\ [Next]_vars => NoLostWakeup'
  BY WakeupStep
<1> QED
  BY WakeupInit, TypeCorrect, BuffersOwnedOnce, <1>1, PTL DEF Spec

-----------------------------------------------------------------------------
(* Event flags are not lost.                                               *)

Served(t, e) == pc = "run" /\ activeTaskID = t /\ events' = events \ {e}

\* A flag goes only when the handler of its task serves it.
LEMMA EventsStep ==
  ASSUME TypeOK, Next, NEW t \in Tasks, NEW e \in Events,
         e \in Pending(t), ~(e \in Pending(t)')
  PROVE  Served(t, e)
<1>1. e # SYS /\ NoTask \notin Tasks
  BY KernelAssumption DEF KernelAssumption
<1>2. tasksEvents \in [Tasks -> SUBSET Flags]
  BY DEF TypeOK
<1>3. ASSUME UNCHANGED <<tasksEvents, activeTaskID, events>>
      PROVE  FALSE
  BY <1>3 DEF Pending
<1>4. ASSUME NEW u \in Tasks, NEW f \in Flags, tasksEvents' = SetFlag(u, f),
             UNCHANGED <<activeTaskID, events>>
      PROVE  FALSE
  <2>1. tasksEvents[t] \subseteq tasksEvents'[t]
    BY <1>2, <1>4 DEF SetFlag
  <2> QED
    BY <1>4, <2>1 DEF Pending
<1>5. CASE Isr
  BY <1>3, <1>4, <1>5 DEF Isr, IsrSetEvent, IsrSend, loopVars, Flags
<1>6. CASE \E u \in Tasks, f \in Events : PollSetEvent(u, f) \/ SetEvent(u, f)
  BY <1>4, <1>6 DEF PollSetEvent, SetEvent, loopVars, Flags
<1>7. CASE StartScan \/ ScanHit \/ ScanMiss \/ Conserve \/ TimerWake
  BY <1>3, <1>7 DEF StartScan, ScanHit, ScanMiss, Conserve, TimerWake
<1>8. CASE Grab
  <2>1. e \in tasksEvents[t] /\ idx \in Tasks
    BY <1>1, <1>8 DEF Grab, Pending, TypeOK
  <2>2. CASE t = idx
    BY <1>8, <2>1, <2>2 DEF Grab, Pending
  <2>3. CASE t # idx
    BY <1>2, <1>8, <2>1, <2>3 DEF Grab, Pending
  <2> QED
    BY <2>2, <2>3
<1>9. CASE Return
  <2>1. activeTaskID = idx /\ idx \in Tasks
    BY <1>9 DEF Return, TypeOK
  <2>2. tasksEvents'[t] = tasksEvents[t] \cup (IF t = idx THEN events ELSE {})
    BY <1>2, <1>9, <2>1 DEF Return
  <2> QED
    BY <2>1, <2>2 DEF Pending
<1>10. CASE Receive
  <2>1. PICK i \in 1 .. Len(qHead) :
          tasksEvents' = [tasksEvents EXCEPT ![activeTaskID] =
                            FlagsAfterReceive(activeTaskID, i)]
    BY <1>10 DEF Receive
  <2>2. tasksEvents[t] \ {SYS} \subseteq tasksEvents'[t]
    BY <1>2, <2>1 DEF FlagsAfterReceive
  <2>3. UNCHANGED <<activeTaskID, events>>
    BY <1>10 DEF Receive
  <2> QED
    BY <1>1, <2>2, <2>3 DEF Pending
<1>11. CASE ReceiveNull
  <2>1. tasksEvents[t] \ {SYS} \subseteq tasksEvents'[t]
    BY <1>2, <1>11 DEF ReceiveNull
  <2>2. UNCHANGED activeTaskID /\ events' = events \ {SYS}
    BY <1>11 DEF ReceiveNull
  <2> QED
    BY <1>1, <2>1, <2>2 DEF Pending
<1>12. CASE ReturnAfterMsg
  BY <1>1, <1>12 DEF ReturnAfterMsg, Pending
<1>13. CASE Signal
  <2>1. signal \in Tasks /\ SYS \in Flags
    BY <1>13 DEF Signal, TypeOK, Flags
  <2> QED
    BY <1>4, <1>13, <2>1 DEF Signal
<1>14. CASE \E m \in Msgs : FreeMsg(m) \/ AllocMsg(m) \/ SendRefused(m)
  BY <1>3, <1>14 DEF FreeMsg, AllocMsg, SendRefused, loopVars
<1>15. CASE \E m \in Msgs, u \in Tasks, front \in BOOLEAN : Send(m, u, front)
  BY <1>3, <1>15 DEF Send
<1>16. CASE \E f \in Events : HandleEvent(f)
  <2>1. PICK f \in Events : HandleEvent(f)
    BY <1>16
  <2>2. /\ pc = "run" /\ events' = events \ {f}
        /\ UNCHANGED <<tasksEvents, activeTaskID>>
    BY <2>1 DEF HandleEvent
  <2>3. activeTaskID = t /\ f = e
    BY <2>2 DEF Pending
  <2> QED
    BY <2>2, <2>3 DEF Served
<1>17. CASE \/ \E mode \in Modes : PwrDevice(mode)
            \/ \E conserve \in BOOLEAN : PwrTaskState(conserve)
  BY <1>3, <1>17 DEF PwrDevice, PwrTaskState, loopVars
<1> QED
  BY <1>5, <1>6, <1>7, <1>8, <1>9, <1>10, <1>11, <1>12, <1>13, <1>14, <1>15,
     <1>16, <1>17 DEF Next, Main, Loop, Handler

(* A flag that is set stays, in the word of its task or in the hands of its *)
(* handler, until that handler serves it.                                   *)
THEOREM FlagsKept == Spec => EventsKept
<1>1. TypeOK /\ [Next]_vars =>
        [\A t \in Tasks, e \in Events :
           e \in Pending(t) /\ e \notin Pending(t)' =>
             pc = "run" /\ activeTaskID = t /\ events' = events \ {e}]_vars
  BY EventsStep DEF Served
<1> QED
  BY <1>1, TypeCorrect, PTL DEF Spec, EventsKept

-----------------------------------------------------------------------------
(* The messages of one task, as the list is walked.                        *)

Below == {p \in Nat \X Nat : p[1] < p[2]}

\* A set of natural numbers that is not empty has a least element.
LEMMA LeastNat ==
  ASSUME NEW T, T \subseteq Nat, T # {}
  PROVE  \E x \in T : \A y \in T : x <= y
<1>1. IsWellFoundedOn(Below, Nat)
  BY NatLessThanWellFounded, Zenon DEF OpToRel, Below
<1>2. PICK x \in T : \A y \in T : <<y, x>> \notin Below
  BY <1>1, WFMin
<1>3. \A y \in T : ~(y < x)
  BY <1>2 DEF Below
<1> QED
  BY <1>3

\* box holds the messages for t among the first i of q, for every i up to k.
Walks(box, q, dest, t, k) ==
  box = [i \in 0 .. k |->
           IF i = 0 THEN <<>>
           ELSE IF dest[q[i]] = t THEN Append(box[i - 1], q[i])
                                  ELSE box[i - 1]]

\* The same, entry by entry.
Fills(box, q, dest, t) ==
  /\ box[0] = <<>>
  /\ \A i \in 1 .. Len(q) :
       box[i] = IF dest[q[i]] = t THEN Append(box[i - 1], q[i])
                                  ELSE box[i - 1]

\* The walk can be made over any length.
LEMMA WalkExists ==
  ASSUME NEW q, NEW dest, NEW t, NEW k \in Nat
  PROVE  \E box : Walks(box, q, dest, t, k)
<1> DEFINE T == {j \in Nat : ~\E box : Walks(box, q, dest, t, j)}
<1> SUFFICES ASSUME T # {}
             PROVE  FALSE
  OBVIOUS
<1>1. PICK j \in T : \A i \in T : j <= i
  BY LeastNat
<1>2. j # 0
  <2> DEFINE none == [i \in 0 .. 0 |-> <<>>]
  <2>1. Walks(none, q, dest, t, 0)
    BY DEF Walks
  <2> QED
    BY <2>1
<1>3. PICK h : Walks(h, q, dest, t, j - 1)
  BY <1>1, <1>2
<1> DEFINE turn(i) == IF i = 0 THEN <<>>
                      ELSE IF dest[q[i]] = t THEN Append(h[i - 1], q[i])
                                             ELSE h[i - 1]
           g == [i \in 0 .. j |-> turn(i)]
<1>4. \A i \in 0 .. j - 1 : h[i] = turn(i)
  BY <1>3, Zenon DEF Walks
<1>5. \A i \in 0 .. j - 1 : g[i] = h[i]
  BY <1>4
<1> HIDE DEF g
<1>6. \A i \in 0 .. j : i = 0 \/ g[i - 1] = h[i - 1]
  BY <1>1, <1>5
<1> USE DEF g
<1>7. Walks(g, q, dest, t, j)
  BY <1>6 DEF Walks
<1> QED
  BY <1>7

\* MessagesFor is the last entry of the walk.
LEMMA MessagesForIs ==
  ASSUME NEW S, NEW q \in Seq(S), NEW dest, NEW t
  PROVE  \E box : /\ Fills(box, q, dest, t)
                  /\ MessagesFor(q, dest, t) = box[Len(q)]
<1> DEFINE box == CHOOSE f : Walks(f, q, dest, t, Len(q))
<1>1. Walks(box, q, dest, t, Len(q))
  BY WalkExists
<1>2. MessagesFor(q, dest, t) = box[Len(q)]
  BY DEF MessagesFor, Walks
<1>3. Fills(box, q, dest, t)
  <2> HIDE DEF box
  <2>1. /\ 0 \in 0 .. Len(q)
        /\ \A i \in 1 .. Len(q) : i \in 0 .. Len(q) /\ i # 0
    OBVIOUS
  <2>2. \A i \in 0 .. Len(q) :
          box[i] = IF i = 0 THEN <<>>
                   ELSE IF dest[q[i]] = t THEN Append(box[i - 1], q[i])
                                          ELSE box[i - 1]
    BY <1>1, Zenon DEF Walks
  <2> QED
    BY <2>1, <2>2, Zenon DEF Fills
<1> QED
  BY <1>2, <1>3

\* Every entry of the walk is a sequence of the list's elements.
LEMMA WalkTyped ==
  ASSUME NEW S, NEW q \in Seq(S), NEW dest, NEW t, NEW box,
         Fills(box, q, dest, t)
  PROVE  \A i \in 0 .. Len(q) : box[i] \in Seq(S)
<1> DEFINE T == {i \in 0 .. Len(q) : box[i] \notin Seq(S)}
<1> SUFFICES ASSUME T # {}
             PROVE  FALSE
  OBVIOUS
<1>1. T \subseteq Nat
  OBVIOUS
<1> HIDE DEF T
<1>2. PICK j \in T : \A i \in T : j <= i
  BY <1>1, LeastNat
<1> USE DEF T
<1>3. j # 0
  <2>1. box[0] \in Seq(S)
    BY DEF Fills
  <2> QED
    BY <1>2, <2>1
<1>4. j \in 1 .. Len(q) /\ j - 1 \in 0 .. Len(q) /\ ~(j <= j - 1)
  BY <1>3
<1>5. box[j - 1] \in Seq(S)
  BY <1>2, <1>4
<1>6. q[j] \in S
  BY <1>4
<1>7. box[j] = IF dest[q[j]] = t THEN Append(box[j - 1], q[j])
                                 ELSE box[j - 1]
  BY <1>4 DEF Fills
<1>8. Append(box[j - 1], q[j]) \in Seq(S)
  BY <1>5, <1>6
<1>9. box[j] \in Seq(S)
  BY <1>5, <1>7, <1>8, Zenon
<1> QED
  BY <1>2, <1>9, Zenon

\* Where no message is for t, the walk collects none.
LEMMA WalkEmpty ==
  ASSUME NEW S, NEW q \in Seq(S), NEW dest, NEW t, NEW box,
         Fills(box, q, dest, t), NEW n \in 0 .. Len(q),
         \A i \in 1 .. n : dest[q[i]] # t
  PROVE  box[n] = <<>>
<1> DEFINE T == {i \in 0 .. n : box[i] # <<>>}
<1> SUFFICES ASSUME T # {}
             PROVE  FALSE
  OBVIOUS
<1>1. T \subseteq Nat
  OBVIOUS
<1> HIDE DEF T
<1>2. PICK j \in T : \A i \in T : j <= i
  BY <1>1, LeastNat
<1> USE DEF T
<1>3. j # 0
  BY <1>2 DEF Fills
<1>4. /\ j \in 1 .. n /\ j \in 1 .. Len(q)
      /\ j - 1 \in 0 .. n /\ ~(j <= j - 1)
  BY <1>3
<1>5. box[j - 1] = <<>>
  BY <1>2, <1>4
<1>6. box[j] = <<>>
  BY <1>4, <1>5 DEF Fills
<1> QED
  BY <1>2, <1>6

\* An element put at the end of a concatenation.
Regroups(p, u, y) == Append(p \o u, y) = p \o Append(u, y)

LEMMA AppendConcat ==
  ASSUME NEW S, NEW p \in Seq(S), NEW u \in Seq(S), NEW y \in S
  PROVE  Regroups(p, u, y)
BY DEF Regroups

\* Behind position k of q and position l of r are the same n messages, and
\* the same of them are for t.
SameRun(q, r, dest, dest2, t, k, l, n) ==
  /\ k \in Nat /\ l \in Nat /\ n \in Nat
  /\ k + n <= Len(q) /\ l + n <= Len(r)
  /\ \A i \in 1 .. n : /\ r[l + i] = q[k + i]
                       /\ dest2[r[l + i]] = t <=> dest[q[k + i]] = t

\* What walk b has collected at l is pre and what a has collected at k.
Ahead(pre, a, b, k, l) == b[l] = pre \o a[k]

\* Two walks over the same messages stay ahead of each other as they were.
LEMMA WalkFollows ==
  ASSUME NEW S, NEW q \in Seq(S), NEW r \in Seq(S), NEW dest, NEW dest2, NEW t,
         NEW a, NEW b, Fills(a, q, dest, t), Fills(b, r, dest2, t),
         NEW k, NEW l, NEW n, SameRun(q, r, dest, dest2, t, k, l, n),
         NEW pre \in Seq(S), Ahead(pre, a, b, k, l)
  PROVE  Ahead(pre, a, b, k + n, l + n)
<1>1. /\ k \in Nat /\ l \in Nat /\ n \in Nat
      /\ k + n <= Len(q) /\ l + n <= Len(r)
  BY DEF SameRun
<1>2. \A i \in 1 .. n : /\ r[l + i] = q[k + i]
                        /\ dest2[r[l + i]] = t <=> dest[q[k + i]] = t
  BY Zenon DEF SameRun
<1> DEFINE T == {i \in 0 .. n : b[l + i] # pre \o a[k + i]}
<1> SUFFICES ASSUME T # {}
             PROVE  FALSE
  <2>1. n \in 0 .. n
    BY <1>1
  <2> QED
    BY <2>1, Zenon DEF Ahead
<1>3. T \subseteq Nat
  BY <1>1
<1> HIDE DEF T
<1>4. PICK j \in T : \A i \in T : j <= i
  BY <1>3, LeastNat
<1> USE DEF T
<1>5. j # 0
  <2>1. l + 0 = l /\ k + 0 = k
    BY <1>1
  <2> QED
    BY <1>4, <2>1, Zenon DEF Ahead
<1>6. j \in 1 .. n /\ j - 1 \in 0 .. n /\ ~(j <= j - 1)
  BY <1>1, <1>5
<1>7. b[l + (j - 1)] = pre \o a[k + (j - 1)]
  BY <1>4, <1>6
<1>8. /\ k + j \in 1 .. Len(q) /\ k + (j - 1) = (k + j) - 1
      /\ l + j \in 1 .. Len(r) /\ l + (j - 1) = (l + j) - 1
      /\ k + (j - 1) \in 0 .. Len(q)
  BY <1>1, <1>6, SMTT(60)
<1> DEFINE x == q[k + j]
           c == a[k + (j - 1)]
           d == b[l + (j - 1)]
<1>9. x \in S /\ c \in Seq(S) /\ r[l + j] = x
  <2>1. x \in S
    BY <1>8
  <2>2. c \in Seq(S)
    BY <1>8, WalkTyped
  <2>3. r[l + j] = q[k + j]
    BY <1>2, <1>6, Zenon
  <2> QED
    BY <2>1, <2>2, <2>3, Zenon
<1>10. /\ a[k + j] = IF dest[x] = t THEN Append(c, x) ELSE c
      /\ b[l + j] = IF dest2[x] = t THEN Append(d, x) ELSE d
  <2>1. a[k + j] = IF dest[q[k + j]] = t
                     THEN Append(a[(k + j) - 1], q[k + j])
                     ELSE a[(k + j) - 1]
    BY <1>8, Zenon DEF Fills
  <2>2. b[l + j] = IF dest2[r[l + j]] = t
                     THEN Append(b[(l + j) - 1], r[l + j])
                     ELSE b[(l + j) - 1]
    BY <1>8, Zenon DEF Fills
  <2> QED
    BY <1>8, <1>9, <2>1, <2>2, Zenon
<1>11. dest2[x] = t <=> dest[x] = t
  BY <1>2, <1>6, <1>9
<1>12. b[l + j] # pre \o a[k + j]
  BY <1>4
<1>13. d = pre \o c
  BY <1>7
<1> HIDE DEF x, c, d, T
<1>14. Append(d, x) = pre \o Append(c, x)
  <2>1. Regroups(pre, c, x)
    BY <1>9, AppendConcat
  <2> QED
    BY <1>13, <2>1, Zenon DEF Regroups
<1>15. CASE dest[x] = t
  BY <1>10, <1>11, <1>12, <1>14, <1>15, Zenon
<1>16. CASE dest[x] # t
  BY <1>10, <1>11, <1>12, <1>13, <1>16, Zenon
<1> QED
  BY <1>15, <1>16

Pushed(q, r, m) == r = <<m>> \o q
Enqueued(q, r, m) == r = Append(q, m)

\* The same for the mailbox of task u, if m is for u.
BoxPushed(old, new, m, t, u) == IF u = t THEN Pushed(old, new, m) ELSE new = old
BoxEnqueued(old, new, m, t, u) ==
  IF u = t THEN Enqueued(old, new, m) ELSE new = old

\* The header of m is given to task t, and the headers in q stay.
Addressed(q, dest, dest2, m, t) ==
  dest2[m] = t /\ \A i \in 1 .. Len(q) : dest2[q[i]] = dest[q[i]]

\* A message put at the head of the list is the first of its task's mailbox,
\* and the other mailboxes stay.
LEMMA MessagesPushed ==
  ASSUME NEW S, NEW q \in Seq(S), NEW m \in S, NEW r \in Seq(S), Pushed(q, r, m),
         NEW dest, NEW dest2, NEW t, Addressed(q, dest, dest2, m, t), NEW u
  PROVE  BoxPushed(MessagesFor(q, dest, u), MessagesFor(r, dest2, u), m, t, u)
<1>1. PICK a : Fills(a, q, dest, u) /\ MessagesFor(q, dest, u) = a[Len(q)]
  BY MessagesForIs
<1>2. PICK b : Fills(b, r, dest2, u) /\ MessagesFor(r, dest2, u) = b[Len(r)]
  BY MessagesForIs
<1>3. a[0] = <<>> /\ b[0] = <<>>
  BY <1>1, <1>2 DEF Fills
<1>4. a[Len(q)] \in Seq(S)
  <2>1. Len(q) \in 0 .. Len(q)
    OBVIOUS
  <2> QED
    BY <1>1, <2>1, WalkTyped
<1>5. Len(r) = 1 + Len(q) /\ 1 \in 1 .. Len(r) /\ r[1] = m
  BY DEF Pushed
<1>6. \A i \in 1 .. Len(q) : r[1 + i] = q[i]
  BY DEF Pushed
<1> DEFINE pre == IF u = t THEN <<m>> ELSE <<>>
<1>7. b[1] = pre
  <2>1. b[1] = IF dest2[r[1]] = u THEN Append(b[1 - 1], r[1]) ELSE b[1 - 1]
    BY <1>2, <1>5, Zenon DEF Fills
  <2>2. b[1 - 1] = <<>>
    BY <1>3
  <2>3. Append(<<>>, m) = <<m>>
    OBVIOUS
  <2> QED
    BY <1>5, <2>1, <2>2, <2>3, Zenon DEF Addressed
<1>8. pre \in Seq(S) /\ pre \o <<>> = pre
  OBVIOUS
<1> HIDE DEF pre
<1>9. Ahead(pre, a, b, 0 + Len(q), 1 + Len(q))
  <2>1. Ahead(pre, a, b, 0, 1)
    BY <1>3, <1>7, <1>8, Zenon DEF Ahead
  <2>2. /\ 0 \in Nat /\ 1 \in Nat /\ Len(q) \in Nat
        /\ 0 + Len(q) <= Len(q) /\ 1 + Len(q) <= Len(r)
    BY <1>5
  <2>3. \A i \in 1 .. Len(q) :
           /\ r[1 + i] = q[0 + i]
           /\ dest2[r[1 + i]] = u <=> dest[q[0 + i]] = u
    <3> SUFFICES ASSUME NEW i \in 1 .. Len(q)
                 PROVE  /\ r[1 + i] = q[0 + i]
                        /\ dest2[r[1 + i]] = dest[q[0 + i]]
      OBVIOUS
    <3>1. 0 + i = i
      OBVIOUS
    <3> QED
      BY <1>6, <3>1, Zenon DEF Addressed
  <2>4. SameRun(q, r, dest, dest2, u, 0, 1, Len(q))
    BY <2>2, <2>3, Zenon DEF SameRun
  <2> QED
    BY <1>1, <1>2, <1>8, <2>1, <2>4, WalkFollows, Zenon
<1>10. b[Len(r)] = pre \o a[Len(q)]
  <2>1. 0 + Len(q) = Len(q)
    OBVIOUS
  <2> QED
    BY <1>5, <1>9, <2>1, Zenon DEF Ahead
<1>11. <<>> \o a[Len(q)] = a[Len(q)]
  BY <1>4
<1> QED
  BY <1>1, <1>2, <1>10, <1>11, Zenon DEF pre, BoxPushed, Pushed

\* A message put at the end of the list is the last of its task's mailbox, and
\* the other mailboxes stay.
LEMMA MessagesEnqueued ==
  ASSUME NEW S, NEW q \in Seq(S), NEW m \in S, NEW r \in Seq(S), Enqueued(q, r, m),
         NEW dest, NEW dest2, NEW t, Addressed(q, dest, dest2, m, t), NEW u
  PROVE  BoxEnqueued(MessagesFor(q, dest, u), MessagesFor(r, dest2, u), m, t, u)
<1>1. PICK a : Fills(a, q, dest, u) /\ MessagesFor(q, dest, u) = a[Len(q)]
  BY MessagesForIs
<1>2. PICK b : Fills(b, r, dest2, u) /\ MessagesFor(r, dest2, u) = b[Len(r)]
  BY MessagesForIs
<1>3. a[0] = <<>> /\ b[0] = <<>>
  BY <1>1, <1>2 DEF Fills
<1>4. a[Len(q)] \in Seq(S)
  <2>1. Len(q) \in 0 .. Len(q)
    OBVIOUS
  <2> QED
    BY <1>1, <2>1, WalkTyped
<1>5. /\ Len(r) = Len(q) + 1 /\ Len(q) + 1 \in 1 .. Len(r)
      /\ r[Len(q) + 1] = m /\ (Len(q) + 1) - 1 = Len(q)
  BY DEF Enqueued
<1>6. \A i \in 1 .. Len(q) : r[i] = q[i]
  BY DEF Enqueued
<1>7. Ahead(<<>>, a, b, 0 + Len(q), 0 + Len(q))
  <2>1. Ahead(<<>>, a, b, 0, 0) /\ <<>> \in Seq(S)
    BY <1>3 DEF Ahead
  <2>2. /\ 0 \in Nat /\ Len(q) \in Nat
        /\ 0 + Len(q) <= Len(q) /\ 0 + Len(q) <= Len(r)
    BY <1>5
  <2>3. \A i \in 1 .. Len(q) :
           /\ r[0 + i] = q[0 + i]
           /\ dest2[r[0 + i]] = u <=> dest[q[0 + i]] = u
    <3> SUFFICES ASSUME NEW i \in 1 .. Len(q)
                 PROVE  /\ r[0 + i] = q[0 + i]
                        /\ dest2[r[0 + i]] = dest[q[0 + i]]
      OBVIOUS
    <3>1. 0 + i = i
      OBVIOUS
    <3> QED
      BY <1>6, <3>1, Zenon DEF Addressed
  <2>4. SameRun(q, r, dest, dest2, u, 0, 0, Len(q))
    BY <2>2, <2>3, Zenon DEF SameRun
  <2> QED
    BY <1>1, <1>2, <2>1, <2>4, WalkFollows, Zenon
<1>8. b[Len(q)] = a[Len(q)]
  <2>1. 0 + Len(q) = Len(q) /\ <<>> \o a[Len(q)] = a[Len(q)]
    BY <1>4
  <2> QED
    BY <1>7, <2>1, Zenon DEF Ahead
<1>9. b[Len(r)] = IF u = t THEN Append(a[Len(q)], m) ELSE a[Len(q)]
  <2>1. b[Len(q) + 1] = IF dest2[r[Len(q) + 1]] = u
                          THEN Append(b[(Len(q) + 1) - 1], r[Len(q) + 1])
                          ELSE b[(Len(q) + 1) - 1]
    BY <1>2, <1>5, Zenon DEF Fills
  <2> QED
    BY <1>5, <1>8, <2>1, Zenon DEF Addressed
<1> QED
  BY <1>1, <1>2, <1>9, Zenon DEF BoxEnqueued, Enqueued

\* Position k of q holds the first message for t.
FirstFor(q, dest, t, k) ==
  k \in 1 .. Len(q) /\ dest[q[k]] = t /\ \A i \in 1 .. k - 1 : dest[q[i]] # t

\* All headers in q but the one at k stay.
Kept(q, dest, dest2, k) ==
  \A i \in 1 .. Len(q) : i # k => dest2[q[i]] = dest[q[i]]

\* The mailbox of task u, if the first message for t is taken.
BoxTaken(old, new, t, u) ==
  IF u = t THEN old # <<>> /\ new = Tail(old) ELSE new = old

\* Unlinking the first message for t takes the first of its mailbox, and the
\* other mailboxes stay.
LEMMA MessagesExtracted ==
  ASSUME NEW S, NEW q \in Seq(S), NEW k, NEW dest, NEW dest2, NEW t, NEW u,
         FirstFor(q, dest, t, k), Kept(q, dest, dest2, k)
  PROVE  BoxTaken(MessagesFor(q, dest, u), MessagesFor(Extracted(q, k), dest2, u),
                  t, u)
<1>0. /\ k \in 1 .. Len(q) /\ dest[q[k]] = t
      /\ \A i \in 1 .. k - 1 : dest[q[i]] # t
      /\ \A i \in 1 .. Len(q) : i # k => dest2[q[i]] = dest[q[i]]
  BY Zenon DEF FirstFor, Kept
<1> USE <1>0
<1> DEFINE r == Extracted(q, k)
           pre == IF u = t THEN <<q[k]>> ELSE <<>>
           n == Len(q) - k
<1>1. PICK a : Fills(a, q, dest, u) /\ MessagesFor(q, dest, u) = a[Len(q)]
  BY MessagesForIs
<1>2. r \in Seq(S) /\ Len(r) = Len(q) - 1
  BY DEF Extracted
<1>3. PICK b : Fills(b, r, dest2, u) /\ MessagesFor(r, dest2, u) = b[Len(r)]
  BY <1>2, MessagesForIs
<1>4. \A i \in 1 .. Len(r) : r[i] = IF i < k THEN q[i] ELSE q[i + 1]
  BY <1>2 DEF Extracted
<1>5. /\ k \in Nat /\ k - 1 \in Nat /\ n \in Nat /\ 0 \in Nat /\ 0 + (k - 1) = k - 1
      /\ k - 1 \in 0 .. Len(q) /\ k - 1 \in 0 .. Len(r)
      /\ (k - 1) + n = Len(r) /\ k + n = Len(q)
      /\ (k - 1) + n <= Len(r) /\ k + n <= Len(q)
      /\ k - 1 <= Len(r) /\ k - 1 <= Len(q)
  BY <1>2
<1>6. \A i \in 1 .. k - 1 : r[i] = q[i] /\ dest2[r[i]] = dest[q[i]]
  BY <1>2, <1>4
<1>7. \A i \in 1 .. n : /\ q[k + i] = r[(k - 1) + i]
                        /\ dest[q[k + i]] = dest2[r[(k - 1) + i]]
  <2> SUFFICES ASSUME NEW i \in 1 .. n
               PROVE  /\ q[k + i] = r[(k - 1) + i]
                      /\ dest[q[k + i]] = dest2[r[(k - 1) + i]]
    OBVIOUS
  <2>1. /\ (k - 1) + i \in 1 .. Len(r) /\ ~((k - 1) + i < k)
        /\ ((k - 1) + i) + 1 = k + i
        /\ k + i \in 1 .. Len(q) /\ k + i # k
    BY <1>2
  <2>2. r[(k - 1) + i] = q[k + i]
    BY <1>4, <2>1
  <2> QED
    BY <2>1, <2>2
<1>8. pre \in Seq(S) /\ pre \o <<>> = pre /\ q[k] \in S
  OBVIOUS
<1> HIDE DEF r, n, pre
<1>9. SameRun(r, q, dest2, dest, u, k - 1, k, n)
  BY <1>5, <1>7, Zenon DEF SameRun
<1>10. a[k] = IF dest[q[k]] = u THEN Append(a[k - 1], q[k]) ELSE a[k - 1]
  BY <1>1, Zenon DEF Fills
<1>11. Ahead(pre, b, a, k - 1, k)
  <2>1. CASE u = t
    <3>1. a[k - 1] = <<>>
      BY <1>1, <1>5, <2>1, WalkEmpty
    <3>2. b[k - 1] = <<>>
      <4>1. \A i \in 1 .. k - 1 : dest2[r[i]] # u
        BY <1>6, <2>1
      <4> QED
        BY <1>2, <1>3, <1>5, <4>1, WalkEmpty
    <3>3. Append(<<>>, q[k]) = <<q[k]>>
      OBVIOUS
    <3>4. a[k] = <<q[k]>>
      BY <1>10, <2>1, <3>1, <3>3, Zenon
    <3>5. pre = <<q[k]>>
      BY <2>1 DEF pre
    <3> QED
      BY <1>8, <3>2, <3>4, <3>5, Zenon DEF Ahead
  <2>2. CASE u # t
    <3>1. pre = <<>>
      BY <2>2, Zenon DEF pre
    <3>2. Ahead(<<>>, b, a, 0, 0) /\ <<>> \in Seq(S)
      BY <1>1, <1>3 DEF Ahead, Fills
    <3>3. SameRun(r, q, dest2, dest, u, 0, 0, k - 1)
      <4>1. \A i \in 1 .. k - 1 : /\ q[0 + i] = r[0 + i]
                                  /\ dest[q[0 + i]] = dest2[r[0 + i]]
        BY <1>6
      <4> QED
        BY <1>5, <4>1, Zenon DEF SameRun
    <3>4. Ahead(<<>>, b, a, 0 + (k - 1), 0 + (k - 1))
      BY <1>1, <1>2, <1>3, <3>2, <3>3, WalkFollows, Zenon
    <3>5. a[k - 1] = <<>> \o b[k - 1]
      BY <1>5, <3>4, Zenon DEF Ahead
    <3>6. a[k] = a[k - 1]
      BY <1>10, <2>2, Zenon
    <3> QED
      BY <3>1, <3>5, <3>6, Zenon DEF Ahead
  <2> QED
    BY <2>1, <2>2
<1>12. Ahead(pre, b, a, (k - 1) + n, k + n)
  BY <1>1, <1>2, <1>3, <1>8, <1>9, <1>11, WalkFollows, Zenon
<1>13. a[Len(q)] = pre \o b[Len(r)]
  BY <1>5, <1>12, Zenon DEF Ahead
<1>14. b[Len(r)] \in Seq(S)
  <2>1. Len(r) \in 0 .. Len(r)
    BY <1>5
  <2> QED
    BY <1>2, <1>3, <2>1, WalkTyped
<1>15. CASE u = t
  <2>1. a[Len(q)] = <<q[k]>> \o b[Len(r)]
    BY <1>13, <1>15 DEF pre
  <2>2. a[Len(q)] # <<>> /\ b[Len(r)] = Tail(a[Len(q)])
    BY <1>8, <1>14, <2>1
  <2> QED
    BY <1>1, <1>3, <1>15, <2>2, Zenon DEF r, BoxTaken
<1>16. CASE u # t
  <2>1. a[Len(q)] = <<>> \o b[Len(r)]
    BY <1>13, <1>16 DEF pre
  <2>2. a[Len(q)] = b[Len(r)]
    BY <1>14, <2>1
  <2> QED
    BY <1>1, <1>3, <1>16, <2>2, Zenon DEF r, BoxTaken
<1> QED
  BY <1>15, <1>16

-----------------------------------------------------------------------------
(* One list implements a mailbox per task.                                  *)

\* A mailbox holds messages of the list.
LEMMA BoxHolds ==
  ASSUME NEW S, NEW q \in Seq(S), NEW dest, NEW t
  PROVE  /\ MessagesFor(q, dest, t) \in Seq(S)
         /\ \A i \in 1 .. Len(MessagesFor(q, dest, t)) :
              MessagesFor(q, dest, t)[i] \in Elems(q)
<1>1. PICK box : Fills(box, q, dest, t) /\ MessagesFor(q, dest, t) = box[Len(q)]
  BY MessagesForIs
<1>2. Len(q) \in 0 .. Len(q) /\ q \in Seq(Elems(q))
  BY DEF Elems
<1>3. box[Len(q)] \in Seq(S)
  BY <1>1, <1>2, WalkTyped
<1>4. box[Len(q)] \in Seq(Elems(q))
  BY <1>1, <1>2, WalkTyped
<1> QED
  BY <1>1, <1>3, <1>4

\* Every handler step but three leaves the list and the headers alone.
LEMMA ListKept ==
  ASSUME [Next]_vars,
         ~Receive,
         \A m \in Msgs, t \in Tasks : ~IsrSend(m, t),
         \A m \in Msgs, t \in Tasks, front \in BOOLEAN : ~Send(m, t, front)
  PROVE  UNCHANGED <<qHead, destId>>
BY DEF Next, Main, Loop, Handler, Isr, vars, queueVars, IsrSetEvent,
       PollSetEvent, StartScan, ScanHit, ScanMiss, Grab, Return, Conserve,
       TimerWake, ReceiveNull, FreeMsg, ReturnAfterMsg, HandleEvent, AllocMsg,
       Signal, SendRefused, SetEvent, PwrDevice, PwrTaskState

\* Linking a buffer delivers it, at the end its sender chose.
LEMMA InsertDelivers ==
  ASSUME qHead \in Seq(Msgs), qHead' \in Seq(Msgs),
         NEW m \in Msgs, NEW t \in Tasks, m \notin Queued,
         Pushed(qHead, qHead', m) \/ Enqueued(qHead, qHead', m),
         Addressed(qHead, destId, destId', m, t)
  PROVE  Mail!Deliver(t, m)
<1>1. ~Mail!Boxed(m)
  BY BoxHolds, QueuedIsElems DEF Mail!Boxed, Boxes
<1>2. CASE Pushed(qHead, qHead', m)
  <2>1. ASSUME NEW u \in Tasks
        PROVE  BoxPushed(MessagesFor(qHead, destId, u),
                   MessagesFor(qHead', destId', u), m, t, u)
    BY <1>2, MessagesPushed, Zenon
  <2>2. Mail!PutFirst(t, m)
    BY <2>1, Zenon DEF Mail!PutFirst, Boxes, BoxPushed, Pushed
  <2> QED
    BY <1>1, <2>2, Zenon DEF Mail!Deliver
<1>3. CASE Enqueued(qHead, qHead', m)
  <2>1. ASSUME NEW u \in Tasks
        PROVE  BoxEnqueued(MessagesFor(qHead, destId, u),
                   MessagesFor(qHead', destId', u), m, t, u)
    BY <1>3, MessagesEnqueued, Zenon
  <2>2. Mail!PutLast(t, m)
    BY <2>1, Zenon DEF Mail!PutLast, Boxes, BoxEnqueued, Enqueued
  <2> QED
    BY <1>1, <2>2, Zenon DEF Mail!Deliver
<1> QED
  BY <1>2, <1>3

\* What a send does to the list and the headers.
LEMMA SendInserts ==
  ASSUME TypeOK, NEW m \in Msgs, NEW t \in Tasks, NEW front \in BOOLEAN,
         m \notin Queued,
         qHead' = Inserted(qHead, m, front),
         destId' = [destId EXCEPT ![m] = t]
  PROVE  /\ qHead \in Seq(Msgs) /\ qHead' \in Seq(Msgs)
         /\ Pushed(qHead, qHead', m) \/ Enqueued(qHead, qHead', m)
         /\ Addressed(qHead, destId, destId', m, t)
<1>1. qHead \in Seq(Msgs) /\ qHead' \in Seq(Msgs)
  BY InsertedFacts DEF TypeOK
<1>2. Addressed(qHead, destId, destId', m, t)
  BY DEF TypeOK, Queued, Addressed
<1> QED
  BY <1>1, <1>2 DEF Inserted, Pushed, Enqueued

\* osal_msg_receive takes the first message of the running task's mailbox.
LEMMA ReceiveTakes ==
  ASSUME TypeOK, QueueOwnership, Receive
  PROVE  activeTaskID \in Tasks /\ Mail!Take(activeTaskID)
<1>1. PICK k \in 1 .. Len(qHead) :
        /\ IsFirstFor(activeTaskID, k)
        /\ qHead' = Extracted(qHead, k)
        /\ destId' = [destId EXCEPT ![qHead[k]] = NoTask]
  BY DEF Receive
<1>2. qHead \in Seq(Msgs) /\ qHead[k] \in Msgs /\ qHead' \in Seq(Msgs)
  BY <1>1, ExtractedFacts DEF TypeOK
<1>3. activeTaskID \in Tasks
  BY DEF Receive, TypeOK
<1>4. FirstFor(qHead, destId, activeTaskID, k)
  BY <1>1 DEF IsFirstFor, FirstFor
<1>5. Kept(qHead, destId, destId', k)
  <2>1. \A i \in 1 .. Len(qHead) : i # k => qHead[i] # qHead[k]
    BY DEF QueueOwnership
  <2> QED
    BY <1>1, <1>2, <2>1 DEF TypeOK, Kept
<1>6. ASSUME NEW u \in Tasks
      PROVE  BoxTaken(MessagesFor(qHead, destId, u),
                      MessagesFor(qHead', destId', u), activeTaskID, u)
  <2>1. BoxTaken(MessagesFor(qHead, destId, u),
                 MessagesFor(Extracted(qHead, k), destId', u), activeTaskID, u)
    BY <1>2, <1>4, <1>5, MessagesExtracted, Zenon
  <2> QED
    BY <1>1, <2>1, Zenon
<1>7. Boxes[activeTaskID] # <<>>
  BY <1>3, <1>6, Zenon DEF Boxes, BoxTaken
<1>8. Boxes' = [Boxes EXCEPT ![activeTaskID] = Tail(@)]
  BY <1>3, <1>6, Zenon DEF Boxes, BoxTaken
<1> QED
  BY <1>3, <1>7, <1>8 DEF Mail!Take

LEMMA MailStep ==
  TypeOK /\ QueueOwnership /\ [Next]_vars => [Mail!Next]_Boxes
<1> SUFFICES ASSUME TypeOK, QueueOwnership, [Next]_vars
             PROVE  [Mail!Next]_Boxes
  OBVIOUS
<1>1. CASE Receive
  BY <1>1, ReceiveTakes, Zenon DEF Mail!Next
<1>2. ASSUME NEW m \in Msgs, NEW t \in Tasks, IsrSend(m, t)
      PROVE  Mail!Next
  <2>1. m \notin Queued
    BY <1>2 DEF IsrSend, QueueOwnership
  <2>2. Mail!Deliver(t, m)
    BY <1>2, <2>1, SendInserts, InsertDelivers DEF IsrSend
  <2> QED
    BY <2>2, Zenon DEF Mail!Next
<1>3. ASSUME NEW m \in Msgs, NEW t \in Tasks, NEW front \in BOOLEAN,
             Send(m, t, front)
      PROVE  Mail!Next
  <2>1. m \notin Queued
    BY <1>3 DEF Send, QueueOwnership
  <2>2. Mail!Deliver(t, m)
    BY <1>3, <2>1, SendInserts, InsertDelivers DEF Send
  <2> QED
    BY <2>2, Zenon DEF Mail!Next
<1>4. CASE UNCHANGED <<qHead, destId>>
  BY <1>4, Zenon DEF Boxes
<1> QED
  BY <1>1, <1>2, <1>3, <1>4, ListKept

LEMMA MailInit == Init => Mail!Init
<1> SUFFICES ASSUME Init
             PROVE  Mail!Init
  OBVIOUS
<1>1. qHead = <<>> /\ qHead \in Seq(Msgs) /\ Len(qHead) = 0
  BY DEF Init
<1>2. ASSUME NEW t \in Tasks
      PROVE  MessagesFor(qHead, destId, t) = <<>>
  <2>1. PICK box : /\ Fills(box, qHead, destId, t)
                   /\ MessagesFor(qHead, destId, t) = box[Len(qHead)]
    BY <1>1, MessagesForIs
  <2> QED
    BY <1>1, <2>1 DEF Fills
<1> QED
  BY <1>2, Zenon DEF Mail!Init, Boxes

(* The one list osal_qHead is a mailbox per task: a send puts a message at  *)
(* one end of its task's mailbox, a receive takes the first message of the  *)
(* caller's own, and no other step touches any mailbox.                     *)
THEOREM ListIsMailboxes == Spec => ImplementsMailbox
<1>1. TypeOK /\ QueueOwnership /\ [Next]_vars => [Mail!Next]_Boxes
  BY MailStep
<1> QED
  BY MailInit, TypeCorrect, BuffersOwnedOnce, <1>1, PTL
     DEF Spec, ImplementsMailbox, Mail!Safe

=============================================================================
