----------------------------- MODULE OsalKernel -----------------------------
(***************************************************************************)
(* The OSAL kernel (src/Components/osal/common/OSAL.c, OSAL_PwrMgr.c): one  *)
(* main loop that runs the task handlers to completion in priority order,   *)
(* one message queue shared by all tasks, and a power manager that puts the *)
(* CPU to sleep when the loop finds nothing to do.                          *)
(*                                                                          *)
(* Interrupts do not nest on this target, so a service routine is a single  *)
(* step; it may come between any two steps of the main loop.  The steps of  *)
(* the main loop are the pieces of code between two points where interrupts *)
(* are enabled and shared state is touched.                                 *)
(***************************************************************************)
EXTENDS Integers, Sequences, FiniteSets

CONSTANTS
  tasksCnt,    \* number of entries of tasksArr; a task's id is its priority
  Msgs,        \* the message buffers the heap can hold
  Events,      \* the event flags of a task other than SYS_EVENT_MSG
  NoTask,      \* TASK_NO_TASK
  SYS,         \* SYS_EVENT_MSG
  MaxWork      \* bound: messages sent, events set, power modes changed

Tasks == 0 .. tasksCnt - 1
Flags == Events \cup {SYS}
Modes == {"ALWAYS_ON", "BATTERY"}

ASSUME KernelAssumption ==
  /\ tasksCnt \in Nat \ {0}
  /\ NoTask \notin Tasks
  /\ SYS \notin Events
  /\ MaxWork \in Nat

VARIABLES
  qHead,        \* osal_qHead: the queued buffers, first to last
  destId,       \* dest_id in the header of each buffer
  heap,         \* the buffers that are not allocated
  held,         \* the buffers the running handler owns
  tasksEvents,  \* pending flags of each task
  pc,           \* where the main loop is
  idx,          \* the loop's task index
  activeTaskID, \* the task whose handler runs
  events,       \* the flags passed to, then returned by, that handler
  received,     \* has the handler called osal_msg_receive in this activation
  signal,       \* task whose buffer is queued but whose flag is not set yet
  pwrDevice,    \* pwrmgr_attribute.pwrmgr_device
  pwrTaskState, \* the tasks that hold power (bits of pwrmgr_task_state)
  work          \* how much of MaxWork is used

vars == <<qHead, destId, heap, held, tasksEvents, pc, idx, activeTaskID,
          events, received, signal, pwrDevice, pwrTaskState, work>>

queueVars == <<qHead, destId, heap>>
loopVars  == <<pc, idx, activeTaskID, events, received, signal>>
powerVars == <<pwrDevice, pwrTaskState>>

Init ==
  /\ qHead = <<>>
  /\ destId = [m \in Msgs |-> NoTask]
  /\ heap = Msgs
  /\ held = {}
  /\ tasksEvents = [t \in Tasks |-> {}]
  /\ pc = "poll"
  /\ idx = 0
  /\ activeTaskID = NoTask
  /\ events = {}
  /\ received = FALSE
  /\ signal = NoTask
  /\ pwrDevice = "ALWAYS_ON"
  /\ pwrTaskState = {}
  /\ work = 0

Queued == {qHead[i] : i \in 1 .. Len(qHead)}

SpendWork == work < MaxWork /\ work' = work + 1

-----------------------------------------------------------------------------
(* The message queue.                                                      *)

\* osal_msg_push puts the buffer at the head, osal_msg_enqueue at the tail.
Inserted(q, m, front) == IF front THEN <<m>> \o q ELSE Append(q, m)

\* osal_msg_extract unlinks the buffer at position i.
Extracted(q, i) ==
  [j \in 1 .. Len(q) - 1 |-> IF j < i THEN q[j] ELSE q[j + 1]]

\* Seeded fault: the search keeps the last match.
MutIsFirstFor(t, i) ==
  /\ i \in 1 .. Len(qHead)
  /\ destId[qHead[i]] = t
  /\ \A j \in i + 1 .. Len(qHead) : destId[qHead[j]] # t

\* Position i holds the first buffer queued for task t.
IsFirstFor(t, i) ==
  /\ i \in 1 .. Len(qHead)
  /\ destId[qHead[i]] = t
  /\ \A j \in 1 .. i - 1 : destId[qHead[j]] # t

\* Seeded fault: no second look before the message flag is cleared.
MutFlagsAfterReceive(t, i) == tasksEvents[t] \ {SYS}

\* The flags task t is left with by a receive that takes position i: a second
\* buffer for the task keeps its message flag set.
FlagsAfterReceive(t, i) ==
  IF \E j \in i + 1 .. Len(qHead) : destId[qHead[j]] = t
  THEN tasksEvents[t] \cup {SYS}
  ELSE tasksEvents[t] \ {SYS}

SetFlag(t, e) == [tasksEvents EXCEPT ![t] = @ \cup {e}]

-----------------------------------------------------------------------------
(* Interrupt service routines, at any point of the main loop.              *)

\* A wake-up interrupt ends halSleep.
Woken == pc' = IF pc = "asleep" THEN "poll" ELSE pc

IsrSetEvent(t, e) ==
  /\ SpendWork
  /\ tasksEvents' = SetFlag(t, e)
  /\ Woken
  /\ UNCHANGED <<queueVars, held, idx, activeTaskID, events, received,
                 signal, powerVars>>

\* osal_msg_allocate and osal_msg_send in a service routine of the radio,
\* which is off while the CPU sleeps.
IsrSend(m, t) ==
  /\ pc # "asleep"
  /\ m \in heap
  /\ SpendWork
  /\ heap' = heap \ {m}
  /\ destId' = [destId EXCEPT ![m] = t]
  /\ qHead' = Inserted(qHead, m, FALSE)
  /\ tasksEvents' = SetFlag(t, SYS)
  /\ UNCHANGED <<held, loopVars, powerVars>>

-----------------------------------------------------------------------------
(* The main loop outside a handler.                                        *)

\* osalTimeUpdate and Hal_ProcessPoll run expired timers and drivers.
PollSetEvent(t, e) ==
  /\ pc = "poll"
  /\ SpendWork
  /\ tasksEvents' = SetFlag(t, e)
  /\ UNCHANGED <<queueVars, held, loopVars, powerVars>>

\* Seeded fault: the loop's index is not reset.
MutStartScan ==
  /\ pc = "poll"
  /\ pc' = "scan"
  /\ UNCHANGED <<queueVars, held, tasksEvents, idx, activeTaskID, events,
                 received, signal, powerVars, work>>

StartScan ==
  /\ pc = "poll"
  /\ pc' = "scan"
  /\ idx' = 0
  /\ UNCHANGED <<queueVars, held, tasksEvents, activeTaskID, events,
                 received, signal, powerVars, work>>

ScanHit ==
  /\ pc = "scan"
  /\ tasksEvents[idx] # {}
  /\ pc' = "grab"
  /\ UNCHANGED <<queueVars, held, tasksEvents, idx, activeTaskID, events,
                 received, signal, powerVars, work>>

\* Seeded fault: the bound of the scan is off by one.
MutScanMiss ==
  /\ pc = "scan"
  /\ tasksEvents[idx] = {}
  /\ IF idx < tasksCnt
       THEN idx' = idx + 1 /\ pc' = "scan"
       ELSE idx' = idx /\ pc' = "conserve"
  /\ UNCHANGED <<queueVars, held, tasksEvents, activeTaskID, events,
                 received, signal, powerVars, work>>

ScanMiss ==
  /\ pc = "scan"
  /\ tasksEvents[idx] = {}
  /\ IF idx + 1 < tasksCnt
       THEN idx' = idx + 1 /\ pc' = "scan"
       ELSE idx' = idx /\ pc' = "conserve"
  /\ UNCHANGED <<queueVars, held, tasksEvents, activeTaskID, events,
                 received, signal, powerVars, work>>

\* The first critical section of the loop, and the call of the handler.
Grab ==
  /\ pc = "grab"
  /\ events' = tasksEvents[idx]
  /\ tasksEvents' = [tasksEvents EXCEPT ![idx] = {}]
  /\ activeTaskID' = idx
  /\ received' = FALSE
  /\ pc' = "run"
  /\ UNCHANGED <<queueVars, held, idx, signal, powerVars, work>>

\* Seeded fault: the flags returned replace those set meanwhile.
MutReturn ==
  /\ pc = "return"
  /\ tasksEvents' = [tasksEvents EXCEPT ![idx] = events]
  /\ activeTaskID' = NoTask
  /\ events' = {}
  /\ received' = FALSE
  /\ pc' = "poll"
  /\ UNCHANGED <<queueVars, held, idx, signal, powerVars, work>>

\* The second critical section adds the unprocessed flags back.
Return ==
  /\ pc = "return"
  /\ tasksEvents' = [tasksEvents EXCEPT ![idx] = @ \cup events]
  /\ activeTaskID' = NoTask
  /\ events' = {}
  /\ received' = FALSE
  /\ pc' = "poll"
  /\ UNCHANGED <<queueVars, held, idx, signal, powerVars, work>>

\* osal_pwrmgr_powerconserve; halSleep may decline (a short timeout, or the
\* MAC refuses to switch the radio off).
MayConserve == pwrDevice # "ALWAYS_ON" /\ pwrTaskState = {}

Conserve ==
  /\ pc = "conserve"
  /\ \/ pc' = "poll"
     \/ MayConserve /\ pc' = "asleep"
  /\ UNCHANGED <<queueVars, held, tasksEvents, idx, activeTaskID, events,
                 received, signal, powerVars, work>>

\* The sleep timer set from osal_next_timeout ends the sleep.
TimerWake ==
  /\ pc = "asleep"
  /\ pc' = "poll"
  /\ UNCHANGED <<queueVars, held, tasksEvents, idx, activeTaskID, events,
                 received, signal, powerVars, work>>

-----------------------------------------------------------------------------
(* What a handler may do while it runs.                                    *)

\* osal_msg_receive finds the first buffer of the task and unlinks it.
Receive ==
  /\ pc = "run"
  /\ SYS \in events
  /\ held = {}
  /\ \E i \in 1 .. Len(qHead) :
       /\ IsFirstFor(activeTaskID, i)
       /\ tasksEvents' =
            [tasksEvents EXCEPT ![activeTaskID] =
               FlagsAfterReceive(activeTaskID, i)]
       /\ qHead' = Extracted(qHead, i)
       /\ destId' = [destId EXCEPT ![qHead[i]] = NoTask]
       /\ held' = {qHead[i]}
  /\ received' = TRUE
  /\ UNCHANGED <<heap, pc, idx, activeTaskID, events, signal, powerVars, work>>

\* osal_msg_receive returns NULL; the handler's loop ends and the handler
\* returns events ^ SYS_EVENT_MSG.
ReceiveNull ==
  /\ pc = "run"
  /\ SYS \in events
  /\ held = {}
  /\ \A i \in 1 .. Len(qHead) : destId[qHead[i]] # activeTaskID
  /\ tasksEvents' = [tasksEvents EXCEPT ![activeTaskID] = @ \ {SYS}]
  /\ events' = events \ {SYS}
  /\ received' = TRUE
  /\ pc' = "return"
  /\ UNCHANGED <<queueVars, held, idx, activeTaskID, signal, powerVars, work>>

\* osal_msg_deallocate of a buffer the handler owns.
FreeMsg(m) ==
  /\ pc = "run"
  /\ m \in held
  /\ destId[m] = NoTask
  /\ held' = held \ {m}
  /\ heap' = heap \cup {m}
  /\ UNCHANGED <<qHead, destId, tasksEvents, loopVars, powerVars, work>>

\* A handler that takes one message per activation returns here.
ReturnAfterMsg ==
  /\ pc = "run"
  /\ SYS \in events
  /\ received
  /\ held = {}
  /\ events' = events \ {SYS}
  /\ pc' = "return"
  /\ UNCHANGED <<queueVars, held, tasksEvents, idx, activeTaskID, received,
                 signal, powerVars, work>>

\* With no message flag the handler serves one of its flags and returns
\* events ^ flag.
HandleEvent(e) ==
  /\ pc = "run"
  /\ SYS \notin events
  /\ held = {}
  /\ e \in events
  /\ events' = events \ {e}
  /\ pc' = "return"
  /\ UNCHANGED <<queueVars, held, tasksEvents, idx, activeTaskID, received,
                 signal, powerVars, work>>

AllocMsg(m) ==
  /\ pc = "run"
  /\ m \in heap
  /\ SpendWork
  /\ heap' = heap \ {m}
  /\ held' = held \cup {m}
  /\ UNCHANGED <<qHead, destId, tasksEvents, loopVars, powerVars>>

\* osal_msg_enqueue_push up to the insertion; the flag comes in a critical
\* section of its own.
Send(m, t, front) ==
  /\ pc = "run"
  /\ m \in held
  /\ destId[m] = NoTask
  /\ SpendWork
  /\ held' = held \ {m}
  /\ destId' = [destId EXCEPT ![m] = t]
  /\ qHead' = Inserted(qHead, m, front)
  /\ signal' = t
  /\ pc' = "signal"
  /\ UNCHANGED <<heap, tasksEvents, idx, activeTaskID, events, received,
                 powerVars>>

Signal ==
  /\ pc = "signal"
  /\ tasksEvents' = SetFlag(signal, SYS)
  /\ signal' = NoTask
  /\ pc' = "run"
  /\ UNCHANGED <<queueVars, held, idx, activeTaskID, events, received,
                 powerVars, work>>

\* Seeded fault: osal_msg_deallocate does not refuse a queued buffer.
MutSendRefused(m) ==
  /\ pc = "run"
  /\ m \in held \cup Queued
  /\ SpendWork
  /\ heap' = heap \cup {m} /\ held' = held \ {m}
  /\ UNCHANGED <<qHead, destId, tasksEvents, loopVars, powerVars>>

\* A send that is refused (destination >= tasksCnt, or a header that is in
\* use) hands the buffer to osal_msg_deallocate, which keeps a queued one.
SendRefused(m) ==
  /\ pc = "run"
  /\ m \in held \cup Queued
  /\ SpendWork
  /\ IF destId[m] # NoTask
       THEN UNCHANGED <<heap, held>>
       ELSE heap' = heap \cup {m} /\ held' = held \ {m}
  /\ UNCHANGED <<qHead, destId, tasksEvents, loopVars, powerVars>>

SetEvent(t, e) ==
  /\ pc = "run"
  /\ SpendWork
  /\ tasksEvents' = SetFlag(t, e)
  /\ UNCHANGED <<queueVars, held, loopVars, powerVars>>

PwrDevice(mode) ==
  /\ pc = "run"
  /\ SpendWork
  /\ pwrDevice' = mode
  /\ UNCHANGED <<queueVars, held, tasksEvents, loopVars, pwrTaskState>>

\* osal_pwrmgr_task_state of the running task.
PwrTaskState(conserve) ==
  /\ pc = "run"
  /\ SpendWork
  /\ pwrTaskState' = IF conserve THEN pwrTaskState \ {activeTaskID}
                                 ELSE pwrTaskState \cup {activeTaskID}
  /\ UNCHANGED <<queueVars, held, tasksEvents, loopVars, pwrDevice>>

-----------------------------------------------------------------------------
Loop ==
  \/ \E t \in Tasks, e \in Events : PollSetEvent(t, e)
  \/ StartScan \/ ScanHit \/ ScanMiss \/ Grab \/ Return \/ Conserve

Handler ==
  \/ Receive \/ ReceiveNull \/ ReturnAfterMsg \/ Signal
  \/ \E m \in Msgs : FreeMsg(m) \/ AllocMsg(m) \/ SendRefused(m)
  \/ \E m \in Msgs, t \in Tasks, front \in BOOLEAN : Send(m, t, front)
  \/ \E e \in Events : HandleEvent(e)
  \/ \E t \in Tasks, e \in Events : SetEvent(t, e)
  \/ \E mode \in Modes : PwrDevice(mode)
  \/ \E conserve \in BOOLEAN : PwrTaskState(conserve)

Isr ==
  \/ \E t \in Tasks, e \in Events : IsrSetEvent(t, e)
  \/ \E m \in Msgs, t \in Tasks : IsrSend(m, t)

Main == Loop \/ Handler

Next == Main \/ Isr \/ TimerWake

Spec == Init /\ [][Next]_vars

\* The CPU keeps executing the loop, and a sleep is a timed one.
FairSpec == Spec /\ WF_vars(Main) /\ WF_vars(TimerWake)

-----------------------------------------------------------------------------
(***************************************************************************)
(* Types, and what the place of the main loop says of the other variables:  *)
(* a handler is active from its call to its return, and a message is not    *)
(* announced exactly between the two critical sections of its sender.       *)
(***************************************************************************)
TypeOK ==
  /\ qHead \in Seq(Msgs)
  /\ destId \in [Msgs -> Tasks \cup {NoTask}]
  /\ heap \subseteq Msgs
  /\ held \subseteq Msgs
  /\ tasksEvents \in [Tasks -> SUBSET Flags]
  /\ pc \in {"poll", "scan", "grab", "run", "signal", "return", "conserve",
             "asleep"}
  /\ idx \in Tasks
  /\ activeTaskID \in Tasks \cup {NoTask}
  /\ pc \in {"run", "signal", "return"} => activeTaskID = idx
  /\ pc \notin {"run", "signal", "return"} => activeTaskID = NoTask
  /\ events \subseteq Flags
  /\ received \in BOOLEAN
  /\ signal \in Tasks \cup {NoTask}
  /\ pc = "signal" <=> signal # NoTask
  /\ pwrDevice \in Modes
  /\ pwrTaskState \subseteq Tasks
  /\ work \in 0 .. MaxWork

(***************************************************************************)
(* A buffer is in the queue exactly when its header names a task, it is     *)
(* there once, and a queued buffer is neither free nor in a handler's       *)
(* hands: osal_msg_enqueue_push, osal_msg_extract and the refusal in        *)
(* osal_msg_deallocate agree on who owns every buffer.                      *)
(***************************************************************************)
QueueOwnership ==
  /\ \A m \in Msgs : destId[m] # NoTask <=> m \in Queued
  /\ \A i, j \in 1 .. Len(qHead) : qHead[i] = qHead[j] => i = j
  /\ Queued \cap (heap \cup held) = {}
  /\ heap \cap held = {}

Notified(t) ==
  \/ SYS \in tasksEvents[t]
  \/ signal = t
  \/ activeTaskID = t /\ SYS \in events /\ ~received

(***************************************************************************)
(* No lost wake-up: a task with a queued message has its message flag set,  *)
(* or the sender is about to set it, or the handler was started with the    *)
(* flag and has not asked for a message yet.  osal_msg_receive clears the   *)
(* flag and the loop clears all flags, so this rests on the second look of  *)
(* osal_msg_receive and on the loop adding flags back with |=.              *)
(***************************************************************************)
NoLostWakeup == \A m \in Queued : Notified(destId[m])

Pending(t) ==
  tasksEvents[t] \cup (IF activeTaskID = t THEN events ELSE {})

(***************************************************************************)
(* A flag, once set, is given up only by the handler of its task serving    *)
(* it: neither the two critical sections of osal_run_system nor an          *)
(* interrupt between them may drop one.                                     *)
(***************************************************************************)
EventsKept ==
  [][\A t \in Tasks, e \in Events :
       e \in Pending(t) /\ e \notin Pending(t)' =>
         pc = "run" /\ activeTaskID = t /\ events' = events \ {e}]_vars

(***************************************************************************)
(* Every flag set for a task is served, once the interrupts stop (MaxWork): *)
(* no flag is overtaken for ever, and a CPU that went to sleep with a flag  *)
(* pending still comes back to it.                                          *)
(***************************************************************************)
EventsServed ==
  \A t \in Tasks, e \in Events :
    e \in tasksEvents[t] ~> e \notin Pending(t)

(***************************************************************************)
(* The comment on osal_pwrmgr_powerconserve: it "is called from the main    *)
(* OSAL loop when there are no events scheduled".  The loop does not look   *)
(* again after its scan, so a flag set behind the scan is slept on.         *)
(***************************************************************************)
SleepsOnlyWhenIdle ==
  [][pc = "conserve" /\ pc' = "asleep" =>
       \A t \in Tasks : tasksEvents[t] = {}]_vars

=============================================================================
