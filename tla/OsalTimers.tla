----------------------------- MODULE OsalTimers -----------------------------
(***************************************************************************)
(* The OSAL timers (src/Components/osal/common/OSAL_Timers.c): a linked     *)
(* list of records that osalTimerUpdate walks once per update, with the     *)
(* interrupts enabled between one record and the next.  Handlers start and  *)
(* stop timers between two updates, service routines at any time, also in   *)
(* the middle of a walk.                                                    *)
(*                                                                          *)
(* Time is in milliseconds.  A task and an event flag together name a       *)
(* timer; they are one value here.                                          *)
(***************************************************************************)
EXTENDS Integers, Sequences, FiniteSets

CONSTANTS
  TimerIds,    \* the (task_id, event_flag) pairs
  Deleted,     \* event_flag = 0: stopped, to be unlinked by the next walk
  NoRecord,    \* a null pointer
  Timeouts,    \* the timeout values the callers pass
  ByteRange,   \* 256: the fast path of the update works on the low byte
  MaxRecords,  \* bound: records the heap has room for
  MaxTime,     \* bound: milliseconds of the run
  MaxCalls     \* bound: start and stop calls

\* A record.  The last two fields are history: the time the caller asked for,
\* and the reading of osal_systemClock at which the record must expire.
Records == [id : TimerIds \cup {Deleted}, timeout : Nat, reload : Nat,
            asked : Nat, deadline : Int]

ASSUME TimersAssumption ==
  /\ Deleted \notin TimerIds
  /\ NoRecord \notin Records
  /\ Timeouts \subseteq Nat \ {0}
  /\ ByteRange \in Nat \ {0}
  /\ MaxRecords \in Nat
  /\ MaxTime \in Nat
  /\ MaxCalls \in Nat

VARIABLES
  timers,      \* the list from timerHead on
  pc,          \* where osalTimerUpdate is: "idle", "counted" (the clock is
               \* updated), "walk", "expire" (a record is unlinked, not freed)
  cursor,      \* srchTimer: the position the walk visits next, 0 for NULL
  updateTime,  \* the argument of the running osalTimerUpdate
  freeTimer,   \* the unlinked record
  pending,     \* the timers whose event flag is set for their task
  clock,       \* osal_systemClock
  lag,         \* milliseconds passed that no update has counted yet
  stopped,     \* history: timers whose last call was a successful stop, made
               \* while no expiry of theirs was under way
  calls        \* how much of MaxCalls is used

vars == <<timers, pc, cursor, updateTime, freeTimer, pending, clock, lag,
          stopped, calls>>

walkVars == <<pc, cursor, updateTime, freeTimer>>

Init ==
  /\ timers = <<>>
  /\ pc = "idle"
  /\ cursor = 0
  /\ updateTime = 0
  /\ freeTimer = NoRecord
  /\ pending = {}
  /\ clock = 0
  /\ lag = 0
  /\ stopped = {}
  /\ calls = 0

-----------------------------------------------------------------------------
(* Helpers on the list.                                                    *)

Active(id) == \E i \in 1 .. Len(timers) : timers[i].id = id

\* osalFindTimer stops at position i.
Finds(id, i) ==
  /\ timers[i].id = id
  /\ \A j \in 1 .. i - 1 : timers[j].id # id

Unlinked(list, i) ==
  [j \in 1 .. Len(list) - 1 |-> IF j < i THEN list[j] ELSE list[j + 1]]

\* The walk has yet to subtract updateTime from position i.
StillToVisit(i) ==
  \/ pc = "counted"
  \/ pc \in {"walk", "expire"} /\ cursor > 0 /\ i >= cursor

Uncounted(i) == IF StillToVisit(i) THEN updateTime ELSE 0

\* The records the heap has to hold: those of the list and the unlinked one.
InUse == Len(timers) + IF freeTimer = NoRecord THEN 0 ELSE 1

\* The timer that is being expired, and is no longer in the list.
Expiring == IF pc = "expire" THEN freeTimer.id ELSE Deleted

SpendCall == calls < MaxCalls /\ calls' = calls + 1

-----------------------------------------------------------------------------
(* The calls of handlers and service routines.                             *)

\* What osalAddTimer writes for a timer whose record is at position i.  An
\* existing record keeps its reload value, a new one has none.
Loaded(id, v, reload, i) ==
  [id |-> id, timeout |-> v, reload |-> reload,
   asked |-> clock + lag + v, deadline |-> clock + v - Uncounted(i)]

\* Seeded fault: no look for an existing record.
MutAddTimer(id, v, isReload) ==
  /\ InUse < MaxRecords
  /\ timers' = Append(timers,
                      Loaded(id, v, IF isReload THEN v ELSE 0,
                             Len(timers) + 1))
  /\ stopped' = stopped \ {id}

AddTimer(id, v, isReload) ==
  \/ \E i \in 1 .. Len(timers) :
       /\ Finds(id, i)
       /\ timers' = [timers EXCEPT ![i] =
                       Loaded(id, v, IF isReload THEN v ELSE @.reload, i)]
       /\ stopped' = stopped \ {id}
  \/ /\ ~Active(id)
     /\ InUse < MaxRecords
     /\ timers' = Append(timers,
                         Loaded(id, v, IF isReload THEN v ELSE 0,
                                Len(timers) + 1))
     /\ stopped' = stopped \ {id}
  \/ /\ ~Active(id)
     /\ InUse >= MaxRecords       \* NO_TIMER_AVAIL
     /\ UNCHANGED <<timers, stopped>>

\* osal_start_timerEx and osal_start_reload_timer.
StartTimer(id, v, isReload) ==
  /\ SpendCall
  /\ AddTimer(id, v, isReload)
  /\ UNCHANGED <<walkVars, pending, clock, lag>>

\* Seeded fault: the record is made to expire instead.
MutForgotten(rec) == [rec EXCEPT !.timeout = 0]

\* osalDeleteTimer; the history of the record ends with it.
Forgotten(rec) == [rec EXCEPT !.id = Deleted, !.asked = 0, !.deadline = 0]

\* osal_stop_timerEx: the record's event flag is cleared.
StopTimer(id) ==
  /\ SpendCall
  /\ \/ \E i \in 1 .. Len(timers) :
            /\ Finds(id, i)
            /\ timers' = [timers EXCEPT ![i] = Forgotten(@)]
            /\ stopped' = IF Expiring = id THEN stopped ELSE stopped \cup {id}
     \/ ~Active(id) /\ UNCHANGED <<timers, stopped>>
  /\ UNCHANGED <<walkVars, pending, clock, lag>>

-----------------------------------------------------------------------------
(* osalTimerUpdate.                                                        *)

\* Seeded fault: the fast path ignores the borrow.
MutMinus(timeout, t) ==
  LET low == timeout % ByteRange
  IN  IF t < ByteRange
        THEN (timeout - low) + ((low - t) % ByteRange)
        ELSE IF timeout > t THEN timeout - t ELSE 0

\* The subtraction of the walk: on the low byte alone when the elapsed time
\* fits a byte and does not borrow, else on 32 bits, and never below zero.
Minus(timeout, t) ==
  LET low == timeout % ByteRange
  IN  IF t < ByteRange /\ low >= t
        THEN (timeout - low) + (low - t)
        ELSE IF timeout > t THEN timeout - t ELSE 0

\* osalTimeUpdate has counted the elapsed milliseconds.
BeginUpdate ==
  /\ pc = "idle"
  /\ lag > 0
  /\ clock' = clock + lag
  /\ lag' = 0
  /\ updateTime' = lag
  /\ pc' = "counted"
  /\ UNCHANGED <<timers, cursor, freeTimer, pending, stopped, calls>>

BeginWalk ==
  /\ pc = "counted"
  /\ pc' = "walk"
  /\ cursor' = IF timers = <<>> THEN 0 ELSE 1
  /\ UNCHANGED <<timers, updateTime, freeTimer, pending, clock, lag, stopped,
                 calls>>

\* Seeded fault: the end of the list is not noticed.
MutAfter(i, list) == i

\* srchTimer->next, read in the same critical section.
After(i, list) == IF i <= Len(list) THEN i ELSE 0

\* Seeded fault: a reload timer fires whatever it has left.
MutReloads(rec) == rec.reload # 0 /\ rec.id # Deleted

\* The timer fires and starts again.
Reloads(rec) == rec.timeout = 0 /\ rec.reload # 0 /\ rec.id # Deleted

\* Seeded fault: only stopped records are taken out of the list.
MutIsOver(rec) == rec.id = Deleted

\* The record is taken out of the list.
IsOver(rec) == rec.timeout = 0 \/ rec.id = Deleted

Reloaded(rec) ==
  [rec EXCEPT !.timeout = rec.reload,
              !.asked = clock + rec.reload,
              !.deadline = clock + rec.reload]

\* One critical section of the walk, at the record under the cursor.
Visit ==
  /\ pc = "walk"
  /\ cursor # 0
  /\ LET counted == [timers[cursor] EXCEPT !.timeout = Minus(@, updateTime)]
         fires   == Reloads(counted)
         rec     == IF fires THEN Reloaded(counted) ELSE counted
     IN  /\ pending' = IF fires THEN pending \cup {rec.id} ELSE pending
         /\ IF IsOver(rec)
              THEN /\ timers' = Unlinked(timers, cursor)
                   /\ freeTimer' = rec
                   /\ pc' = "expire"
                   /\ cursor' = After(cursor, timers')
              ELSE /\ timers' = [timers EXCEPT ![cursor] = rec]
                   /\ cursor' = After(cursor + 1, timers)
                   /\ UNCHANGED <<freeTimer, pc>>
  /\ UNCHANGED <<updateTime, clock, lag, stopped, calls>>

\* Seeded fault: the flag of an expired timer is not set.
MutExpire ==
  /\ pc = "expire"
  /\ pc' = "walk"
  /\ freeTimer' = NoRecord
  /\ UNCHANGED <<timers, cursor, updateTime, pending, clock, lag, stopped,
                 calls>>

\* Outside the critical section: the flag is set and the record freed.
Expire ==
  /\ pc = "expire"
  /\ pending' = IF freeTimer.timeout = 0 /\ freeTimer.id # Deleted
                  THEN pending \cup {freeTimer.id}
                  ELSE pending
  /\ freeTimer' = NoRecord
  /\ pc' = "walk"
  /\ UNCHANGED <<timers, cursor, updateTime, clock, lag, stopped, calls>>

EndUpdate ==
  /\ pc = "walk"
  /\ cursor = 0
  /\ pc' = "idle"
  /\ updateTime' = 0
  /\ UNCHANGED <<timers, cursor, freeTimer, pending, clock, lag, stopped, calls>>

-----------------------------------------------------------------------------
\* A handler serves the event flag of a timer.
Serve(id) ==
  /\ pc = "idle"
  /\ id \in pending
  /\ pending' = pending \ {id}
  /\ UNCHANGED <<timers, walkVars, clock, lag, stopped, calls>>

Elapse ==
  /\ clock + lag < MaxTime
  /\ lag' = lag + 1
  /\ UNCHANGED <<timers, walkVars, pending, clock, stopped, calls>>

Next ==
  \/ \E id \in TimerIds, v \in Timeouts, isReload \in BOOLEAN :
       StartTimer(id, v, isReload)
  \/ \E id \in TimerIds : StopTimer(id) \/ Serve(id)
  \/ BeginUpdate \/ BeginWalk \/ Visit \/ Expire \/ EndUpdate
  \/ Elapse

Spec == Init /\ [][Next]_vars

-----------------------------------------------------------------------------
(***************************************************************************)
(* Types: the cursor stays within the list although it shrinks under the    *)
(* walk, and a record is off the list exactly while it is being expired.    *)
(***************************************************************************)
TypeOK ==
  /\ timers \in Seq(Records)
  /\ Len(timers) + (IF freeTimer = NoRecord THEN 0 ELSE 1) <= MaxRecords
  /\ pc \in {"idle", "counted", "walk", "expire"}
  /\ cursor \in 0 .. Len(timers)
  /\ pc \in {"idle", "counted"} => cursor = 0
  /\ updateTime \in Nat
  /\ freeTimer \in Records \cup {NoRecord}
  /\ pc = "expire" <=> freeTimer # NoRecord
  /\ pending \subseteq TimerIds
  /\ clock \in Nat
  /\ lag \in Nat
  /\ stopped \subseteq TimerIds
  /\ calls \in 0 .. MaxCalls

(***************************************************************************)
(* osalFindTimer stops at the first match, so a second record of a running  *)
(* timer could never be stopped: there is none, although stopping leaves    *)
(* the old record in the list and starting again adds another.              *)
(***************************************************************************)
OneRecordPerTimer ==
  \A i, j \in 1 .. Len(timers) :
    timers[i].id = timers[j].id /\ timers[i].id # Deleted => i = j

(***************************************************************************)
(* Between two records of a walk as well as outside it, what is left of     *)
(* every timer is its deadline less the clock, the update in progress being *)
(* counted only for the records already visited: a record that a service    *)
(* routine adds or unlinking shifts is neither skipped nor counted twice.   *)
(***************************************************************************)
TimeoutIsDeadline ==
  \A i \in 1 .. Len(timers) :
    LET due == timers[i].deadline - (clock - Uncounted(i))
    IN  timers[i].id # Deleted =>
          timers[i].timeout = IF due > 0 THEN due ELSE 0

NextTimeout ==
  IF timers = <<>> THEN 0
  ELSE CHOOSE v \in {timers[i].timeout : i \in 1 .. Len(timers)} :
         \A i \in 1 .. Len(timers) : v <= timers[i].timeout

(***************************************************************************)
(* osal_next_timeout answers 0 for "no timer", and halSleep then sleeps     *)
(* without a timer: outside an update no record of the list has 0 left.     *)
(***************************************************************************)
SleepIsTimed == pc = "idle" /\ timers # <<>> => NextTimeout > 0

Due == IF pc = "expire" THEN freeTimer ELSE timers[cursor]

(***************************************************************************)
(* An event flag is set only in the update that carries the clock past the  *)
(* deadline of its timer, not before and not in a later one.                *)
(***************************************************************************)
FiresInItsUpdate ==
  [][\A id \in TimerIds :
       id \in pending' /\ id \notin pending =>
         /\ Due.id = id
         /\ clock - updateTime < Due.deadline
         /\ Due.deadline <= clock]_vars

Running(id) == Active(id) \/ Expiring = id

(***************************************************************************)
(* A running timer does not vanish: its record goes when it is stopped, or  *)
(* once its event flag is set.                                              *)
(***************************************************************************)
TimersKept ==
  [][\A id \in TimerIds :
       Running(id) /\ ~Running(id)' => id \in pending' \/ StopTimer(id)]_vars

(***************************************************************************)
(* The comment on osal_stop_timerEx: with success it "will cancel the timer *)
(* and prevent the event associated with the timer from being set".  It     *)
(* does, unless an expiry of the timer is already past its critical section.*)
(***************************************************************************)
StopHolds ==
  [][\A id \in stopped : id \in pending' => id \in pending]_vars

(***************************************************************************)
(* The comment on osal_start_timerEx: the timer is "to expire in n mSecs".  *)
(* The next update also counts the milliseconds that had passed before the  *)
(* call, so the event can come early by as many.                            *)
(***************************************************************************)
ExpiresAfterTimeout ==
  [][\A id \in TimerIds :
       id \in pending' /\ id \notin pending =>
         clock + lag >= Due.asked]_vars

=============================================================================
