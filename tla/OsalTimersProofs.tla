-------------------------- MODULE OsalTimersProofs --------------------------
(***************************************************************************)
(* Proofs about OsalTimers, for every set of timers and of timeouts, every  *)
(* size of the heap and every bound on the calls and the time.              *)
(*                                                                          *)
(* The inductive invariant says of every record of the list that it has     *)
(* time left, and exactly what the clock leaves of its deadline; of the     *)
(* record that is being expired, that the update in progress carried the    *)
(* clock past its deadline; and of a stopped timer that it is gone.         *)
(***************************************************************************)
EXTENDS OsalTimers, WellFoundedInduction, TLAPS

\* What a record of the list has left at a reading of the clock.
TimeLeft(r, now) ==
  /\ r.timeout > 0
  /\ r.id # Deleted => r.timeout = r.deadline - now

TimesLeft ==
  \A i \in 1 .. Len(timers) : TimeLeft(timers[i], clock - Uncounted(i))

\* The update in progress has carried the clock past the deadline of a record.
PassedBy(r) ==
  r.id # Deleted => /\ r.timeout = 0
                    /\ clock - updateTime < r.deadline
                    /\ r.deadline <= clock

ExpiryDue == pc = "expire" => PassedBy(freeTimer)

StoppedGone == \A id \in stopped : ~Running(id)

TimersInv ==
  /\ TypeOK
  /\ OneRecordPerTimer
  /\ TimesLeft
  /\ ExpiryDue
  /\ StoppedGone

-----------------------------------------------------------------------------
(* The list.                                                               *)

\* The fields of a record.
LEMMA RecordFields ==
  ASSUME NEW r \in Records
  PROVE  /\ r.id \in TimerIds \cup {Deleted}
         /\ r.timeout \in Nat /\ r.reload \in Nat
         /\ r.asked \in Nat /\ r.deadline \in Int
BY DEF Records

\* A list with another record at position i.
LEMMA Replaced ==
  ASSUME NEW q \in Seq(Records), NEW i \in 1 .. Len(q), NEW r \in Records,
         NEW s, s = [q EXCEPT ![i] = r]
  PROVE  /\ s \in Seq(Records)
         /\ Len(s) = Len(q)
         /\ s[i] = r
         /\ \A j \in 1 .. Len(q) : j # i => s[j] = q[j]
OBVIOUS

\* A list with one more record.
LEMMA Appended ==
  ASSUME NEW q \in Seq(Records), NEW r \in Records,
         NEW s, s = Append(q, r)
  PROVE  /\ s \in Seq(Records)
         /\ Len(s) = Len(q) + 1
         /\ s[Len(q) + 1] = r
         /\ \A j \in 1 .. Len(q) : s[j] = q[j]
OBVIOUS

\* A list without the record at position i.
LEMMA UnlinkedFacts ==
  ASSUME NEW q \in Seq(Records), NEW i \in 1 .. Len(q),
         NEW s, s = Unlinked(q, i)
  PROVE  /\ s \in Seq(Records)
         /\ Len(s) = Len(q) - 1
         /\ \A j \in 1 .. Len(s) : s[j] = IF j < i THEN q[j] ELSE q[j + 1]
BY DEF Unlinked

\* What stopping leaves of a record.
LEMMA ForgottenFacts ==
  ASSUME NEW r \in Records
  PROVE  /\ Forgotten(r) \in Records
         /\ Forgotten(r).id = Deleted
         /\ Forgotten(r).timeout = r.timeout
<1>1. Forgotten(r) \in Records
  <2>1. ASSUME NEW d \in TimerIds \cup {Deleted}, NEW a \in Nat, NEW l \in Int
        PROVE  [r EXCEPT !.id = d, !.asked = a, !.deadline = l] \in Records
    BY DEF Records
  <2>2. Deleted \in TimerIds \cup {Deleted} /\ 0 \in Nat /\ 0 \in Int
    OBVIOUS
  <2> QED
    BY <2>1, <2>2, Zenon DEF Forgotten
<1>2. Forgotten(r).id = Deleted /\ Forgotten(r).timeout = r.timeout
  BY DEF Records, Forgotten
<1> QED
  BY <1>1, <1>2

\* What a reload makes of a record.
LEMMA ReloadedFacts ==
  ASSUME NEW r \in Records, clock \in Nat
  PROVE  /\ Reloaded(r) \in Records
         /\ Reloaded(r).id = r.id
         /\ Reloaded(r).timeout = r.reload
         /\ Reloaded(r).deadline = clock + r.reload
<1>1. r.reload \in Nat /\ clock + r.reload \in Nat /\ clock + r.reload \in Int
  BY RecordFields
<1>2. Reloaded(r) \in Records
  BY <1>1 DEF Records, Reloaded
<1>3. /\ Reloaded(r).id = r.id
      /\ Reloaded(r).timeout = r.reload
      /\ Reloaded(r).deadline = clock + r.reload
  BY DEF Records, Reloaded
<1> QED
  BY <1>2, <1>3

\* The two ways to subtract come to the same.
LEMMA MinusFacts ==
  ASSUME NEW a \in Nat, NEW t \in Nat
  PROVE  Minus(a, t) = IF a > t THEN a - t ELSE 0
<1> DEFINE low == a % ByteRange
<1>1. low \in 0 .. ByteRange - 1 /\ a = ByteRange * (a \div ByteRange) + low
  BY TimersAssumption
<1>2. a \div ByteRange \in Nat
  BY TimersAssumption
<1>3. low \in Nat /\ low <= a
  <2>1. ByteRange * (a \div ByteRange) \in Nat
    BY <1>2, TimersAssumption
  <2> QED
    BY <1>1, <2>1, TimersAssumption
<1>4. Minus(a, t) = IF t < ByteRange /\ low >= t
                      THEN (a - low) + (low - t)
                      ELSE IF a > t THEN a - t ELSE 0
  BY DEF Minus
<1> HIDE DEF low
<1> QED
  BY <1>3, <1>4, TimersAssumption

-----------------------------------------------------------------------------
(* The calls of handlers and service routines.                             *)

LEMMA TimersInit == Init => TimersInv
<1> SUFFICES ASSUME Init PROVE TimersInv
  OBVIOUS
<1>1. timers \in Seq(Records) /\ Len(timers) = 0
  BY DEF Init
<1>2. TypeOK
  BY <1>1, TimersAssumption DEF Init, TypeOK
<1> QED
  BY <1>1, <1>2 DEF Init, TimersInv, OneRecordPerTimer, TimesLeft, ExpiryDue,
                    StoppedGone

\* What the walk has still to count is a number.
LEMMA UncountedFacts ==
  ASSUME TypeOK, NEW i \in Nat
  PROVE  Uncounted(i) \in Int
BY DEF TypeOK, Uncounted

\* A record just loaded has its timeout left.
LEMMA LoadedFacts ==
  ASSUME TypeOK, NEW id \in TimerIds, NEW v \in Timeouts, NEW reload \in Nat,
         NEW i \in Nat
  PROVE  /\ Loaded(id, v, reload, i) \in Records
         /\ Loaded(id, v, reload, i).id = id
         /\ TimeLeft(Loaded(id, v, reload, i), clock - Uncounted(i))
<1>1. v \in Nat /\ v > 0
  BY TimersAssumption
<1>2. Uncounted(i) \in Int /\ clock \in Nat /\ lag \in Nat
  BY UncountedFacts DEF TypeOK
<1>3. clock + lag + v \in Nat /\ clock + v - Uncounted(i) \in Int
  BY <1>1, <1>2
<1>4. clock + v - Uncounted(i) - (clock - Uncounted(i)) = v
  BY <1>1, <1>2
<1> DEFINE r == Loaded(id, v, reload, i)
<1>5. r \in Records
  BY <1>1, <1>3 DEF Loaded, Records
<1>6. r.id = id /\ r.timeout = v /\ r.deadline = clock + v - Uncounted(i)
  BY DEF Loaded
<1> HIDE DEF r
<1>7. TimeLeft(r, clock - Uncounted(i))
  BY <1>1, <1>2, <1>6 DEF TimeLeft
<1> QED
  BY <1>5, <1>6, <1>7 DEF r

LEMMA StartKeeps ==
  ASSUME TimersInv, NEW id \in TimerIds, NEW v \in Timeouts,
         NEW isReload \in BOOLEAN, StartTimer(id, v, isReload)
  PROVE  TimersInv'
<1>1. /\ UNCHANGED <<pc, cursor, updateTime, freeTimer, pending, clock, lag>>
      /\ calls' \in 0 .. MaxCalls
  BY TimersAssumption DEF StartTimer, walkVars, SpendCall, TimersInv, TypeOK
<1>2. \A i \in Nat : Uncounted(i)' = Uncounted(i)
  BY <1>1 DEF Uncounted, StillToVisit
<1>3. v \in Nat
  BY TimersAssumption
<1>4. CASE UNCHANGED <<timers, stopped>>
  BY <1>1, <1>2, <1>4, SMTT(60)
     DEF TimersInv, TypeOK, OneRecordPerTimer, TimesLeft, ExpiryDue, PassedBy,
         StoppedGone, Running, Active, Expiring
<1>5. CASE \E i \in 1 .. Len(timers) :
             /\ Finds(id, i)
             /\ timers' = [timers EXCEPT ![i] =
                             Loaded(id, v, IF isReload THEN v ELSE @.reload, i)]
             /\ stopped' = stopped \ {id}
  <2>1. PICK i \in 1 .. Len(timers) :
             /\ Finds(id, i)
             /\ timers' = [timers EXCEPT ![i] =
                             Loaded(id, v, IF isReload THEN v ELSE @.reload, i)]
             /\ stopped' = stopped \ {id}
    BY <1>5
  <2> DEFINE r == Loaded(id, v, IF isReload THEN v ELSE timers[i].reload, i)
  <2>2. timers[i] \in Records /\ timers[i].id = id /\ i \in Nat
    BY <2>1 DEF TimersInv, TypeOK, Finds
  <2>3. /\ r \in Records /\ r.id = id
        /\ TimeLeft(r, clock - Uncounted(i))
    BY <1>3, <2>2, LoadedFacts, RecordFields DEF TimersInv
  <2>4. timers' = [timers EXCEPT ![i] = r]
    BY <2>1
  <2> HIDE DEF r
  <2>5. /\ timers' \in Seq(Records) /\ Len(timers') = Len(timers)
        /\ timers'[i] = r
        /\ \A j \in 1 .. Len(timers) : j # i => timers'[j] = timers[j]
    BY <2>3, <2>4, Replaced DEF TimersInv, TypeOK
  <2>6. \A j \in 1 .. Len(timers) : timers'[j].id = timers[j].id
    BY <2>2, <2>3, <2>5
  <2>7. TypeOK'
    BY <1>1, <2>1, <2>5 DEF TimersInv, TypeOK
  <2>8. OneRecordPerTimer'
    BY <2>5, <2>6 DEF TimersInv, OneRecordPerTimer
  <2>9. TimesLeft'
    BY <1>1, <1>2, <2>3, <2>5 DEF TimersInv, TypeOK, TimesLeft, TimeLeft
  <2>10. ExpiryDue'
    BY <1>1 DEF TimersInv, ExpiryDue, PassedBy
  <2>11. StoppedGone'
    BY <1>1, <2>1, <2>5, <2>6
       DEF TimersInv, StoppedGone, Running, Active, Expiring
  <2> QED
    BY <2>7, <2>8, <2>9, <2>10, <2>11 DEF TimersInv
<1>6. CASE /\ ~Active(id)
           /\ InUse < MaxRecords
           /\ timers' = Append(timers, Loaded(id, v, IF isReload THEN v ELSE 0,
                                              Len(timers) + 1))
           /\ stopped' = stopped \ {id}
  <2> DEFINE n == Len(timers) + 1
             r == Loaded(id, v, IF isReload THEN v ELSE 0, n)
  <2>1. timers \in Seq(Records) /\ n \in Nat
    BY DEF TimersInv, TypeOK
  <2>2. /\ r \in Records /\ r.id = id
        /\ TimeLeft(r, clock - Uncounted(n))
    BY <1>3, <2>1, LoadedFacts DEF TimersInv
  <2>3. timers' = Append(timers, r)
    BY <1>6
  <2> HIDE DEF r
  <2>4. /\ timers' \in Seq(Records) /\ Len(timers') = n
        /\ timers'[n] = r
        /\ \A j \in 1 .. Len(timers) : timers'[j] = timers[j]
    BY <2>1, <2>2, <2>3, Appended
  <2>5. TypeOK'
    <3>1. Len(timers') + (IF freeTimer = NoRecord THEN 0 ELSE 1) <= MaxRecords
      BY <1>6, <2>1, <2>4, TimersAssumption DEF InUse
    <3>2. cursor \in 0 .. Len(timers')
      BY <2>1, <2>4 DEF TimersInv, TypeOK
    <3> QED
      BY <1>1, <1>6, <2>4, <3>1, <3>2 DEF TimersInv, TypeOK
  <2>6. OneRecordPerTimer'
    BY <1>6, <2>1, <2>2, <2>4 DEF TimersInv, OneRecordPerTimer, Active
  <2>7. TimesLeft'
    BY <1>1, <1>2, <2>1, <2>2, <2>4 DEF TimersInv, TimesLeft, TimeLeft
  <2>8. ExpiryDue'
    BY <1>1 DEF TimersInv, ExpiryDue, PassedBy
  <2>9. StoppedGone'
    BY <1>1, <1>6, <2>1, <2>2, <2>4
       DEF TimersInv, StoppedGone, Running, Active, Expiring
  <2> QED
    BY <2>5, <2>6, <2>7, <2>8, <2>9 DEF TimersInv
<1> QED
  BY <1>4, <1>5, <1>6 DEF StartTimer, AddTimer

LEMMA StopKeeps ==
  ASSUME TimersInv, NEW id \in TimerIds, StopTimer(id)
  PROVE  TimersInv'
<1>1. /\ UNCHANGED <<pc, cursor, updateTime, freeTimer, pending, clock, lag>>
      /\ calls' \in 0 .. MaxCalls
  BY TimersAssumption DEF StopTimer, walkVars, SpendCall, TimersInv, TypeOK
<1>2. \A i \in Nat : Uncounted(i)' = Uncounted(i)
  BY <1>1 DEF Uncounted, StillToVisit
<1>3. CASE UNCHANGED <<timers, stopped>>
  BY <1>1, <1>2, <1>3
     DEF TimersInv, TypeOK, OneRecordPerTimer, TimesLeft, ExpiryDue, PassedBy,
         StoppedGone, Running, Active, Expiring
<1>4. CASE \E i \in 1 .. Len(timers) :
             /\ Finds(id, i)
             /\ timers' = [timers EXCEPT ![i] = Forgotten(@)]
             /\ stopped' = IF Expiring = id THEN stopped ELSE stopped \cup {id}
  <2>1. PICK i \in 1 .. Len(timers) :
             /\ Finds(id, i)
             /\ timers' = [timers EXCEPT ![i] = Forgotten(@)]
             /\ stopped' = IF Expiring = id THEN stopped ELSE stopped \cup {id}
    BY <1>4
  <2> DEFINE r == Forgotten(timers[i])
  <2>2. timers[i] \in Records /\ timers[i].id = id /\ i \in Nat
    BY <2>1 DEF TimersInv, TypeOK, Finds
  <2>3. /\ r \in Records /\ r.id = Deleted
        /\ r.timeout = timers[i].timeout
    BY <2>2, ForgottenFacts
  <2>4. timers' = [timers EXCEPT ![i] = r]
    BY <2>1
  <2> HIDE DEF r
  <2>5. /\ timers' \in Seq(Records) /\ Len(timers') = Len(timers)
        /\ timers'[i] = r
        /\ \A j \in 1 .. Len(timers) : j # i => timers'[j] = timers[j]
    BY <2>3, <2>4, Replaced DEF TimersInv, TypeOK
  <2>6. TypeOK'
    BY <1>1, <2>1, <2>5 DEF TimersInv, TypeOK
  <2>7. OneRecordPerTimer'
    BY <2>3, <2>5 DEF TimersInv, OneRecordPerTimer
  <2>8. TimesLeft'
    BY <1>1, <1>2, <2>3, <2>5 DEF TimersInv, TypeOK, TimesLeft, TimeLeft
  <2>9. ExpiryDue'
    BY <1>1 DEF TimersInv, ExpiryDue, PassedBy
  <2>10. ASSUME NEW k \in TimerIds, ~Active(k) PROVE ~Active(k)'
    BY <2>3, <2>5, <2>10, TimersAssumption DEF Active
  <2>11. ~Active(id)'
    BY <2>2, <2>3, <2>5, TimersAssumption DEF TimersInv, OneRecordPerTimer, Active
  <2>12. Expiring' = Expiring
    BY <1>1 DEF Expiring
  <2>13. StoppedGone'
    BY <2>1, <2>10, <2>11, <2>12
       DEF TimersInv, TypeOK, StoppedGone, Running
  <2> QED
    BY <2>6, <2>7, <2>8, <2>9, <2>13 DEF TimersInv
<1> QED
  BY <1>3, <1>4 DEF StopTimer

-----------------------------------------------------------------------------
(* The update.                                                             *)

LEMMA BeginUpdateKeeps == ASSUME TimersInv, BeginUpdate PROVE TimersInv'
<1>1. /\ UNCHANGED <<timers, cursor, freeTimer, pending, stopped, calls>>
      /\ pc = "idle" /\ pc' = "counted"
      /\ clock' = clock + lag /\ lag' = 0 /\ updateTime' = lag
      /\ clock \in Nat /\ lag \in Nat
  BY DEF BeginUpdate, TimersInv, TypeOK
<1>2. TypeOK'
  BY <1>1 DEF TimersInv, TypeOK
<1>3. \A i \in Nat : clock' - Uncounted(i)' = clock - Uncounted(i)
  BY <1>1 DEF Uncounted, StillToVisit
<1>4. TimesLeft'
  BY <1>1, <1>3 DEF TimersInv, TypeOK, TimesLeft, TimeLeft
<1> QED
  BY <1>1, <1>2, <1>4 DEF TimersInv, OneRecordPerTimer, ExpiryDue, StoppedGone,
                          Running, Active, Expiring

LEMMA BeginWalkKeeps == ASSUME TimersInv, BeginWalk PROVE TimersInv'
<1>1. /\ UNCHANGED <<timers, updateTime, freeTimer, pending, clock, lag,
                     stopped, calls>>
      /\ pc = "counted" /\ pc' = "walk"
      /\ cursor' = IF timers = <<>> THEN 0 ELSE 1
      /\ timers \in Seq(Records)
  BY DEF BeginWalk, TimersInv, TypeOK
<1>2. timers # <<>> => Len(timers) \in Nat \ {0}
  BY <1>1
<1>3. TypeOK'
  BY <1>1, <1>2 DEF TimersInv, TypeOK
<1>4. \A i \in 1 .. Len(timers) : Uncounted(i)' = Uncounted(i)
  BY <1>1, <1>2 DEF Uncounted, StillToVisit
<1>5. TimesLeft'
  BY <1>1, <1>4 DEF TimersInv, TimesLeft, TimeLeft
<1> QED
  BY <1>1, <1>3, <1>5 DEF TimersInv, OneRecordPerTimer, ExpiryDue, StoppedGone,
                          Running, Active, Expiring

\* What one critical section of the walk makes of the record under the cursor:
\* counted with what has been subtracted, then the record with a reload.
LEMMA VisitFacts ==
  ASSUME TimersInv, Visit,
         NEW old, old = timers[cursor],
         NEW counted, counted = [old EXCEPT !.timeout = Minus(@, updateTime)],
         NEW rec, rec = IF Reloads(counted) THEN Reloaded(counted) ELSE counted
  PROVE  /\ cursor \in 1 .. Len(timers)
         /\ old \in Records /\ rec \in Records
         /\ rec.id = old.id
         /\ ~IsOver(rec) => TimeLeft(rec, clock)
         /\ IsOver(rec) => PassedBy(rec) /\ ~Reloads(counted)
         /\ Reloads(counted) => /\ old.id # Deleted
                                /\ clock - updateTime < old.deadline
                                /\ old.deadline <= clock
<1>1. /\ cursor \in 1 .. Len(timers) /\ pc = "walk"
      /\ clock \in Nat /\ updateTime \in Nat /\ timers \in Seq(Records)
  BY DEF Visit, TimersInv, TypeOK
<1>2. old \in Records
  BY <1>1
<1>3. Uncounted(cursor) = updateTime
  BY <1>1 DEF Uncounted, StillToVisit
<1>4. TimeLeft(old, clock - updateTime)
  BY <1>1, <1>3 DEF TimersInv, TimesLeft
<1>5. /\ old.timeout \in Nat /\ old.reload \in Nat /\ old.deadline \in Int
      /\ old.id \in TimerIds \cup {Deleted}
  BY <1>2, RecordFields
<1> DEFINE left == Minus(old.timeout, updateTime)
<1>6. left = IF old.timeout > updateTime THEN old.timeout - updateTime ELSE 0
  BY <1>1, <1>5, MinusFacts
<1>7. left \in Nat
  BY <1>1, <1>5, <1>6
<1>8. /\ counted \in Records
      /\ counted.timeout = left /\ counted.id = old.id
      /\ counted.reload = old.reload /\ counted.deadline = old.deadline
  BY <1>2, <1>7 DEF Records
<1> HIDE DEF left
<1>9. left = 0 /\ old.id # Deleted =>
        clock - updateTime < old.deadline /\ old.deadline <= clock
  BY <1>1, <1>4, <1>5, <1>6 DEF TimeLeft
<1>10. left # 0 /\ old.id # Deleted => left = old.deadline - clock
  BY <1>1, <1>4, <1>5, <1>6 DEF TimeLeft
<1>11. CASE Reloads(counted)
  <2>1. left = 0 /\ old.reload # 0 /\ old.id # Deleted
    BY <1>8, <1>11 DEF Reloads
  <2>2. /\ rec \in Records /\ rec.id = old.id
        /\ rec.timeout = old.reload /\ rec.deadline = clock + old.reload
    BY <1>1, <1>8, <1>11, ReloadedFacts
  <2>3. ~IsOver(rec)
    BY <2>1, <2>2 DEF IsOver
  <2>4. TimeLeft(rec, clock)
    BY <1>1, <1>5, <2>1, <2>2 DEF TimeLeft
  <2> QED
    BY <1>1, <1>2, <1>9, <1>11, <2>1, <2>2, <2>3, <2>4
<1>12. CASE ~Reloads(counted)
  <2>1. rec = counted
    BY <1>12
  <2>2. ~IsOver(rec) => TimeLeft(rec, clock)
    <3>1. ~IsOver(rec) => left # 0 /\ old.id # Deleted
      BY <1>8, <2>1 DEF IsOver
    <3>2. rec.timeout = left /\ rec.deadline = old.deadline
      BY <1>8, <2>1
    <3> QED
      BY <1>7, <1>10, <3>1, <3>2 DEF TimeLeft
  <2>3. IsOver(rec) => PassedBy(rec)
    BY <1>8, <1>9, <2>1 DEF IsOver, PassedBy
  <2> QED
    BY <1>1, <1>2, <1>8, <1>12, <2>1, <2>2, <2>3
<1> QED
  BY <1>11, <1>12

LEMMA VisitKeeps == ASSUME TimersInv, Visit PROVE TimersInv'
<1> DEFINE old == timers[cursor]
           counted == [old EXCEPT !.timeout = Minus(@, updateTime)]
           rec == IF Reloads(counted) THEN Reloaded(counted) ELSE counted
<1>1. /\ cursor \in 1 .. Len(timers)
      /\ old \in Records /\ rec \in Records
      /\ rec.id = old.id
      /\ ~IsOver(rec) => TimeLeft(rec, clock)
      /\ IsOver(rec) => PassedBy(rec)
      /\ Reloads(counted) => old.id # Deleted
  BY VisitFacts
<1>2. /\ UNCHANGED <<updateTime, clock, lag, stopped, calls>>
      /\ pc = "walk" /\ freeTimer = NoRecord
      /\ timers \in Seq(Records) /\ Len(timers) \in Nat
      /\ clock \in Nat /\ updateTime \in Nat
  BY DEF Visit, TimersInv, TypeOK
<1>3. pending' = IF Reloads(counted) THEN pending \cup {rec.id} ELSE pending
  BY DEF Visit
<1>4. IF IsOver(rec)
        THEN /\ timers' = Unlinked(timers, cursor)
             /\ freeTimer' = rec
             /\ pc' = "expire"
             /\ cursor' = After(cursor, timers')
        ELSE /\ timers' = [timers EXCEPT ![cursor] = rec]
             /\ cursor' = After(cursor + 1, timers)
             /\ UNCHANGED <<freeTimer, pc>>
  BY DEF Visit
<1>5. pending' \subseteq TimerIds
  BY <1>1, <1>3, RecordFields DEF TimersInv, TypeOK
<1> HIDE DEF old, counted, rec
<1>6. CASE IsOver(rec)
  <2>1. /\ timers' \in Seq(Records) /\ Len(timers') = Len(timers) - 1
        /\ \A j \in 1 .. Len(timers') :
             timers'[j] = IF j < cursor THEN timers[j] ELSE timers[j + 1]
    BY <1>1, <1>2, <1>4, <1>6, UnlinkedFacts
  <2>2. /\ freeTimer' = rec /\ rec # NoRecord /\ pc' = "expire"
        /\ cursor' = IF cursor <= Len(timers') THEN cursor ELSE 0
    BY <1>1, <1>4, <1>6, TimersAssumption DEF After
  <2>3. TypeOK'
    BY <1>1, <1>2, <1>5, <2>1, <2>2 DEF TimersInv, TypeOK
  <2>4. OneRecordPerTimer'
    <3> SUFFICES ASSUME NEW i \in 1 .. Len(timers'), NEW j \in 1 .. Len(timers'),
                        timers'[i].id = timers'[j].id, timers'[i].id # Deleted
                 PROVE  i = j
      BY DEF OneRecordPerTimer
    <3> DEFINE from(k) == IF k < cursor THEN k ELSE k + 1
    <3>1. /\ from(i) \in 1 .. Len(timers) /\ timers'[i] = timers[from(i)]
          /\ from(j) \in 1 .. Len(timers) /\ timers'[j] = timers[from(j)]
      BY <1>1, <1>2, <2>1
    <3>2. from(i) = from(j)
      BY <3>1 DEF TimersInv, OneRecordPerTimer
    <3> QED
      BY <1>1, <3>2
  <2>5. TimesLeft'
    <3> SUFFICES ASSUME NEW j \in 1 .. Len(timers')
                 PROVE  TimeLeft(timers'[j], clock' - Uncounted(j)')
      BY DEF TimesLeft
    <3>1. CASE j < cursor
      <4>1. j \in 1 .. Len(timers) /\ timers'[j] = timers[j]
        BY <1>2, <2>1, <3>1
      <4>2. Uncounted(j)' = Uncounted(j)
        BY <1>1, <1>2, <2>2, <3>1 DEF Uncounted, StillToVisit
      <4> QED
        BY <1>2, <4>1, <4>2 DEF TimersInv, TimesLeft
    <3>2. CASE ~(j < cursor)
      <4>1. j + 1 \in 1 .. Len(timers) /\ timers'[j] = timers[j + 1]
        BY <1>2, <2>1, <3>2
      <4>2. Uncounted(j)' = updateTime /\ Uncounted(j + 1) = updateTime
        BY <1>1, <1>2, <2>1, <2>2, <3>2 DEF Uncounted, StillToVisit
      <4> QED
        BY <1>2, <4>1, <4>2 DEF TimersInv, TimesLeft
    <3> QED
      BY <3>1, <3>2
  <2>6. ExpiryDue'
    BY <1>1, <1>2, <1>6, <2>2 DEF ExpiryDue, PassedBy
  <2>7. StoppedGone'
    <3> SUFFICES ASSUME NEW id \in stopped, Running(id)'
                 PROVE  Active(id)
      BY <1>2 DEF TimersInv, StoppedGone, Running
    <3>1. CASE Active(id)'
      <4>1. PICK j \in 1 .. Len(timers') : timers'[j].id = id
        BY <3>1 DEF Active
      <4> QED
        BY <1>1, <1>2, <2>1, <4>1 DEF Active
    <3>2. CASE ~Active(id)'
      <4>1. rec.id = id
        BY <2>2, <3>2 DEF Running, Expiring
      <4> QED
        BY <1>1, <4>1 DEF Active, old
    <3> QED
      BY <3>1, <3>2
  <2> QED
    BY <2>3, <2>4, <2>5, <2>6, <2>7 DEF TimersInv
<1>7. CASE ~IsOver(rec)
  <2>1. /\ timers' \in Seq(Records) /\ Len(timers') = Len(timers)
        /\ timers'[cursor] = rec
        /\ \A j \in 1 .. Len(timers) : j # cursor => timers'[j] = timers[j]
    BY <1>1, <1>2, <1>4, <1>7, Replaced
  <2>2. /\ UNCHANGED <<freeTimer, pc>>
        /\ cursor' = IF cursor + 1 <= Len(timers) THEN cursor + 1 ELSE 0
    BY <1>4, <1>7 DEF After
  <2>3. \A j \in 1 .. Len(timers) : timers'[j].id = timers[j].id
    BY <1>1, <2>1 DEF old
  <2>4. TypeOK'
    BY <1>1, <1>2, <1>5, <2>1, <2>2 DEF TimersInv, TypeOK
  <2>5. OneRecordPerTimer'
    BY <2>1, <2>3 DEF TimersInv, OneRecordPerTimer
  <2>6. TimesLeft'
    <3> SUFFICES ASSUME NEW j \in 1 .. Len(timers)
                 PROVE  TimeLeft(timers'[j], clock' - Uncounted(j)')
      BY <2>1 DEF TimesLeft
    <3>1. CASE j = cursor
      <4>1. Uncounted(j)' = 0
        BY <1>1, <1>2, <2>1, <2>2, <3>1 DEF Uncounted, StillToVisit
      <4>2. clock' - Uncounted(j)' = clock
        BY <1>2, <4>1
      <4> QED
        BY <1>1, <1>7, <2>1, <3>1, <4>2
    <3>2. CASE j # cursor
      <4>1. Uncounted(j)' = Uncounted(j)
        BY <1>1, <1>2, <2>1, <2>2, <3>2 DEF Uncounted, StillToVisit
      <4> QED
        BY <1>2, <2>1, <3>2, <4>1 DEF TimersInv, TimesLeft
    <3> QED
      BY <3>1, <3>2
  <2>7. ExpiryDue'
    BY <1>2, <2>2 DEF ExpiryDue
  <2>8. StoppedGone'
    BY <1>2, <2>1, <2>2, <2>3 DEF TimersInv, StoppedGone, Running, Active, Expiring
  <2> QED
    BY <2>4, <2>5, <2>6, <2>7, <2>8 DEF TimersInv
<1> QED
  BY <1>6, <1>7

LEMMA ExpireKeeps == ASSUME TimersInv, Expire PROVE TimersInv'
<1>1. /\ UNCHANGED <<timers, cursor, updateTime, clock, lag, stopped, calls>>
      /\ pc = "expire" /\ pc' = "walk" /\ freeTimer' = NoRecord
      /\ freeTimer \in Records /\ timers \in Seq(Records)
  BY DEF Expire, TimersInv, TypeOK
<1>2. pending' \subseteq TimerIds
  BY <1>1, RecordFields DEF Expire, TimersInv, TypeOK
<1>3. Len(timers) <= MaxRecords
  BY <1>1, TimersAssumption DEF TimersInv, TypeOK
<1>4. TypeOK'
  BY <1>1, <1>2, <1>3 DEF TimersInv, TypeOK
<1>5. \A i \in Nat : Uncounted(i)' = Uncounted(i)
  BY <1>1 DEF Uncounted, StillToVisit
<1>6. StoppedGone'
  BY <1>1, TimersAssumption DEF TimersInv, TypeOK, StoppedGone, Running, Active, Expiring
<1> QED
  BY <1>1, <1>4, <1>5, <1>6
     DEF TimersInv, OneRecordPerTimer, TimesLeft, TimeLeft, ExpiryDue

LEMMA EndUpdateKeeps == ASSUME TimersInv, EndUpdate PROVE TimersInv'
<1>1. /\ UNCHANGED <<timers, cursor, freeTimer, pending, clock, lag, stopped,
                     calls>>
      /\ pc = "walk" /\ pc' = "idle" /\ cursor = 0 /\ updateTime' = 0
  BY DEF EndUpdate
<1>2. TypeOK'
  BY <1>1 DEF TimersInv, TypeOK
<1>3. \A i \in Nat : Uncounted(i)' = Uncounted(i)
  BY <1>1 DEF Uncounted, StillToVisit
<1> QED
  BY <1>1, <1>2, <1>3
     DEF TimersInv, OneRecordPerTimer, TimesLeft, TimeLeft, ExpiryDue,
         StoppedGone, Running, Active, Expiring

LEMMA OtherKeeps ==
  ASSUME TimersInv,
         (\E id \in TimerIds : Serve(id)) \/ Elapse \/ UNCHANGED vars
  PROVE  TimersInv'
<1>1. /\ UNCHANGED <<timers, pc, cursor, updateTime, freeTimer, clock, stopped,
                     calls>>
      /\ pending' \subseteq pending /\ lag' \in Nat
  BY DEF Serve, Elapse, vars, walkVars, TimersInv, TypeOK
<1>2. \A i \in Nat : Uncounted(i)' = Uncounted(i)
  BY <1>1 DEF Uncounted, StillToVisit
<1>3. TypeOK'
  BY <1>1 DEF TimersInv, TypeOK
<1> QED
  BY <1>1, <1>2, <1>3
     DEF TimersInv, OneRecordPerTimer, TimesLeft, TimeLeft, ExpiryDue, PassedBy,
         StoppedGone, Running, Active, Expiring

LEMMA TimersStep == TimersInv /\ [Next]_vars => TimersInv'
<1> SUFFICES ASSUME TimersInv, [Next]_vars PROVE TimersInv'
  OBVIOUS
<1> QED
  BY StartKeeps, StopKeeps, BeginUpdateKeeps, BeginWalkKeeps, VisitKeeps,
     ExpireKeeps, EndUpdateKeeps, OtherKeeps DEF Next

LEMMA TimersInvariant == Spec => []TimersInv
BY TimersInit, TimersStep, PTL DEF Spec

-----------------------------------------------------------------------------
(* The theorems.                                                           *)

(* Type correctness: the cursor of the walk stays within the list, and a   *)
(* record is off the list exactly while it is being expired.               *)
THEOREM TypeCorrect == Spec => []TypeOK
<1>1. TimersInv => TypeOK
  BY DEF TimersInv
<1> QED
  BY <1>1, TimersInvariant, PTL

(* osalFindTimer can only find the one record of a running timer.          *)
THEOREM RecordsUnique == Spec => []OneRecordPerTimer
<1>1. TimersInv => OneRecordPerTimer
  BY DEF TimersInv
<1> QED
  BY <1>1, TimersInvariant, PTL

(* What is left of a timer is its deadline less the clock, between two      *)
(* records of a walk too.                                                  *)
THEOREM TimeoutsKeepDeadlines == Spec => []TimeoutIsDeadline
<1>1. ASSUME TimersInv PROVE TimeoutIsDeadline
  <2> SUFFICES ASSUME NEW i \in 1 .. Len(timers), timers[i].id # Deleted
               PROVE  LET due == timers[i].deadline - (clock - Uncounted(i))
                      IN  timers[i].timeout = IF due > 0 THEN due ELSE 0
    BY DEF TimeoutIsDeadline
  <2> QED
    BY <1>1 DEF TimersInv, TimesLeft, TimeLeft
<1> QED
  BY <1>1, TimersInvariant, PTL

-----------------------------------------------------------------------------
(* Sleep.                                                                  *)

LEMMA SmallestNat ==
  ASSUME NEW V \in SUBSET Nat, V # {}
  PROVE  \E v \in V : \A w \in V : v <= w
<1>1. PICK v \in V : \A w \in V : <<w, v>> \notin OpToRel(<, Nat)
  BY NatLessThanWellFounded, WFMin
<1>2. \A w \in V : ~(w < v)
  BY <1>1 DEF OpToRel
<1> QED
  BY <1>2

(* halSleep gets a timeout whenever a timer runs: outside an update every   *)
(* record of the list has time left, and the smallest is what it gets.     *)
THEOREM SleepTimed == Spec => []SleepIsTimed
<1>1. ASSUME TimersInv, pc = "idle", timers # <<>> PROVE NextTimeout > 0
  <2> DEFINE V == {timers[i].timeout : i \in 1 .. Len(timers)}
  <2>1. timers \in Seq(Records) /\ Len(timers) \in Nat \ {0}
    BY <1>1 DEF TimersInv, TypeOK
  <2>2. \A v \in V : v \in Nat /\ v > 0
    BY <1>1, <2>1, RecordFields DEF TimersInv, TimesLeft, TimeLeft
  <2>3. V # {}
    <3>1. 1 \in 1 .. Len(timers)
      BY <2>1
    <3>2. timers[1].timeout \in V
      BY <3>1
    <3> QED
      BY <3>2
  <2>4. PICK least \in V : \A w \in V : least <= w
    BY <2>2, <2>3, SmallestNat
  <2>5. NextTimeout = CHOOSE v \in V : \A i \in 1 .. Len(timers) :
                                         v <= timers[i].timeout
    BY <1>1 DEF NextTimeout
  <2>6. \A i \in 1 .. Len(timers) : least <= timers[i].timeout
    BY <2>4
  <2> HIDE DEF V
  <2>7. NextTimeout \in V
    BY <2>4, <2>5, <2>6
  <2> QED
    BY <2>2, <2>7
<1>2. TimersInv => SleepIsTimed
  BY <1>1 DEF SleepIsTimed
<1> QED
  BY <1>2, TimersInvariant, PTL

-----------------------------------------------------------------------------
(* Events.                                                                 *)

\* An event flag is set for a timer that runs, and that this update carries
\* past its deadline.
LEMMA NewlyPending ==
  ASSUME TimersInv, [Next]_vars, NEW id \in pending', id \notin pending
  PROVE  /\ Due.id = id
         /\ clock - updateTime < Due.deadline
         /\ Due.deadline <= clock
         /\ Running(id)
<1>1. CASE Visit
  <2> DEFINE old == timers[cursor]
             counted == [old EXCEPT !.timeout = Minus(@, updateTime)]
             rec == IF Reloads(counted) THEN Reloaded(counted) ELSE counted
  <2>1. /\ cursor \in 1 .. Len(timers)
        /\ rec.id = old.id
        /\ Reloads(counted) => /\ old.id # Deleted
                               /\ clock - updateTime < old.deadline
                               /\ old.deadline <= clock
    BY <1>1, VisitFacts
  <2>2. pc = "walk"
    BY <1>1 DEF Visit
  <2>3. pending' = IF Reloads(counted) THEN pending \cup {rec.id} ELSE pending
    BY <1>1 DEF Visit
  <2> HIDE DEF counted, rec
  <2>4. Reloads(counted) /\ id = old.id
    BY <2>1, <2>3
  <2> QED
    BY <2>1, <2>2, <2>4 DEF Due, Running, Active
<1>2. CASE Expire
  <2>1. pc = "expire" /\ freeTimer.id # Deleted /\ id = freeTimer.id
    BY <1>2 DEF Expire
  <2>2. PassedBy(freeTimer)
    BY <2>1 DEF TimersInv, ExpiryDue
  <2> QED
    BY <2>1, <2>2 DEF PassedBy, Due, Running, Expiring
<1>3. ASSUME pending' \subseteq pending PROVE FALSE
  BY <1>3
<1> QED
  BY <1>1, <1>2, <1>3
     DEF Next, StartTimer, StopTimer, Serve, BeginUpdate, BeginWalk, EndUpdate,
         Elapse, vars

(* An event flag is set in the update that carries the clock past the       *)
(* deadline of its timer, not before and not later.                        *)
THEOREM FiresOnTime == Spec => FiresInItsUpdate
<1>1. TimersInv /\ [Next]_vars =>
        [\A id \in TimerIds :
           id \in pending' /\ id \notin pending =>
             /\ Due.id = id
             /\ clock - updateTime < Due.deadline
             /\ Due.deadline <= clock]_vars
  BY NewlyPending
<1> QED
  BY <1>1, TimersInvariant, PTL DEF Spec, FiresInItsUpdate

(* Once osal_stop_timerEx has succeeded for a timer no expiry of which is   *)
(* under way, its event is not set until the timer is started again.       *)
THEOREM StopsHold == Spec => StopHolds
<1>1. TimersInv /\ [Next]_vars =>
        [\A id \in stopped : id \in pending' => id \in pending]_vars
  BY NewlyPending DEF TimersInv, StoppedGone
<1> QED
  BY <1>1, TimersInvariant, PTL DEF Spec, StopHolds

LEMMA RunningKept ==
  ASSUME TimersInv, [Next]_vars, NEW id \in TimerIds, Running(id),
         ~Running(id)'
  PROVE  id \in pending' \/ StopTimer(id)
<1>1. CASE Visit
  <2> DEFINE old == timers[cursor]
             counted == [old EXCEPT !.timeout = Minus(@, updateTime)]
             rec == IF Reloads(counted) THEN Reloaded(counted) ELSE counted
  <2>1. /\ cursor \in 1 .. Len(timers)
        /\ old \in Records /\ rec \in Records
        /\ rec.id = old.id
    BY <1>1, VisitFacts
  <2>2. pc = "walk" /\ timers \in Seq(Records)
    BY <1>1 DEF Visit, TimersInv, TypeOK
  <2>3. PICK i \in 1 .. Len(timers) : timers[i].id = id
    BY <2>2, TimersAssumption DEF Running, Active, Expiring
  <2>4. IF IsOver(rec)
          THEN /\ timers' = Unlinked(timers, cursor)
               /\ freeTimer' = rec
               /\ pc' = "expire"
          ELSE timers' = [timers EXCEPT ![cursor] = rec]
    BY <1>1 DEF Visit
  <2> HIDE DEF rec
  <2>5. CASE IsOver(rec)
    <3>1. /\ Len(timers') = Len(timers) - 1
          /\ \A j \in 1 .. Len(timers') :
               timers'[j] = IF j < cursor THEN timers[j] ELSE timers[j + 1]
      BY <2>1, <2>2, <2>4, <2>5, UnlinkedFacts
    <3>2. CASE i = cursor
      BY <2>1, <2>3, <2>4, <2>5, <3>2 DEF Running, Expiring
    <3>3. CASE i < cursor
      <4>1. i \in 1 .. Len(timers') /\ timers'[i] = timers[i]
        BY <2>1, <2>2, <3>1, <3>3
      <4> QED
        BY <2>3, <4>1 DEF Running, Active
    <3>4. CASE i > cursor
      <4>1. i - 1 \in 1 .. Len(timers') /\ timers'[i - 1] = timers[i]
        BY <2>1, <2>2, <3>1, <3>4
      <4> QED
        BY <2>3, <4>1 DEF Running, Active
    <3> QED
      BY <2>1, <3>2, <3>3, <3>4
  <2>6. CASE ~IsOver(rec)
    <3>1. /\ Len(timers') = Len(timers)
          /\ timers'[cursor] = rec
          /\ \A j \in 1 .. Len(timers) : j # cursor => timers'[j] = timers[j]
      BY <2>1, <2>2, <2>4, <2>6, Replaced
    <3> QED
      BY <2>1, <2>3, <3>1 DEF Running, Active
  <2> QED
    BY <2>5, <2>6
<1>2. CASE Expire
  <2>1. pc = "expire" /\ timers' = timers
    BY <1>2 DEF Expire
  <2>2. freeTimer.id = id
    BY <2>1 DEF Running, Active, Expiring
  <2>3. freeTimer.timeout = 0
    BY <2>1, <2>2, TimersAssumption DEF TimersInv, ExpiryDue, PassedBy
  <2> QED
    BY <1>2, <2>2, <2>3, TimersAssumption DEF Expire
<1>3. ASSUME NEW k \in TimerIds, NEW v \in Timeouts, NEW isReload \in BOOLEAN,
             StartTimer(k, v, isReload)
      PROVE  FALSE
  <2>1. Expiring' = Expiring /\ timers \in Seq(Records)
    BY <1>3 DEF StartTimer, walkVars, Expiring, TimersInv, TypeOK
  <2>2. Active(id)
    BY <2>1 DEF Running
  <2>3. CASE timers' = timers
    BY <2>2, <2>3 DEF Running, Active
  <2>4. CASE \E i \in 1 .. Len(timers) :
               /\ Finds(k, i)
               /\ timers' = [timers EXCEPT ![i] =
                               Loaded(k, v, IF isReload THEN v ELSE @.reload, i)]
    BY <2>1, <2>2, <2>4 DEF Running, Active, Finds, Loaded
  <2>5. CASE timers' = Append(timers, Loaded(k, v, IF isReload THEN v ELSE 0,
                                             Len(timers) + 1))
    <3>1. \A j \in 1 .. Len(timers) : j \in 1 .. Len(timers')
                                        /\ timers'[j] = timers[j]
      BY <2>1, <2>5
    <3> QED
      BY <2>2, <3>1 DEF Running, Active
  <2> QED
    BY <1>3, <2>3, <2>4, <2>5 DEF StartTimer, AddTimer
<1>4. ASSUME NEW k \in TimerIds, StopTimer(k), k # id
      PROVE  FALSE
  <2>1. Expiring' = Expiring /\ timers \in Seq(Records)
    BY <1>4 DEF StopTimer, walkVars, Expiring, TimersInv, TypeOK
  <2>2. Active(id)
    BY <2>1 DEF Running
  <2>3. CASE timers' = timers
    BY <2>2, <2>3 DEF Running, Active
  <2>4. CASE \E i \in 1 .. Len(timers) :
               Finds(k, i) /\ timers' = [timers EXCEPT ![i] = Forgotten(@)]
    BY <1>4, <2>1, <2>2, <2>4 DEF Running, Active, Finds
  <2> QED
    BY <1>4, <2>3, <2>4 DEF StopTimer
<1>5. ASSUME timers' = timers, pc \in {"idle", "counted", "walk"},
             pc' # "expire"
      PROVE  FALSE
  BY <1>5, TimersAssumption DEF Running, Active, Expiring
<1>6. ASSUME UNCHANGED <<timers, pc, freeTimer>> PROVE FALSE
  BY <1>6 DEF Running, Active, Expiring
<1>7. CASE \/ \E k \in TimerIds : Serve(k)
           \/ Elapse \/ UNCHANGED vars
  BY <1>6, <1>7 DEF Serve, Elapse, vars, walkVars
<1>8. CASE BeginUpdate \/ BeginWalk \/ EndUpdate
  BY <1>5, <1>8 DEF BeginUpdate, BeginWalk, EndUpdate
<1> QED
  BY <1>1, <1>2, <1>3, <1>4, <1>7, <1>8 DEF Next

(* A running timer goes only when it is stopped, or with its event set.    *)
THEOREM TimersNotLost == Spec => TimersKept
<1>1. TimersInv /\ [Next]_vars =>
        [\A id \in TimerIds :
           Running(id) /\ ~Running(id)' =>
             id \in pending' \/ StopTimer(id)]_vars
  BY RunningKept
<1> QED
  BY <1>1, TimersInvariant, PTL DEF Spec, TimersKept

=============================================================================
