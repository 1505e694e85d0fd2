# A verification development for the SPWM sensor network

The repository is the firmware of a small wireless sensor network: sensor nodes
that measure temperature, humidity, light and battery voltage and report to one
gateway over IEEE 802.15.4. Both run on an MSP430F5438 with a CC2520 radio, as
tasks of the OSAL kernel above the TI MAC. The repository holds the
applications, OSAL, the HAL, the low level of the MAC and a number of vendor
files for other chips. The core of the MAC's high level is a library without
source.

This directory models that program in TLA+. TLC checks small instances, and
TLAPS proves the safety properties that hold for every value of the constants.

Contents: 1 inventory, 2 modules and how they correspond to the code, 3 runs, 4
fairness, 5 proofs, 6 findings, 7 what is not modelled, 8 plan.

## 1. Inventory

Paths are under `src/`. `OSAL` is `Components/osal/common`, `HAL` is
`Components/hal/target/MSP5438CC2520`, `LL` is
`Components/mac/low_level/srf04`, `APP` is `Projects/mac/Sample/exp5438`.

| Component | State | Operations | What makes it correct |
|---|---|---|---|
| OSAL kernel (`OSAL/OSAL.c`, `OSAL_PwrMgr.c`) | message list `osal_qHead`, buffer headers, `tasksEvents`, `activeTaskID`, power attributes | allocate, send, push, receive, free; set event; the main loop; power conserve | every buffer has one owner; no message is queued without its task being told; no flag is dropped; all flags are served |
| OSAL timers (`OSAL/OSAL_Timers.c`) | list of records, `osal_systemClock` | start, start reloading, stop, the update walk, next timeout | one record per timer; a timer fires in the update that passes its deadline; a stopped one does not; sleep is timed while a timer runs |
| OSAL clock (`OSAL/OSAL_Clock.c`) | previous MAC time, remainders, seconds | update, calendar conversions | no time is lost to rounding; conversion and its inverse agree |
| OSAL heap (`OSAL/OSAL_Memory.c`) | arena of headers, `ff1` | allocate with coalescing and split, free | the blocks tile the arena; live blocks are disjoint; `ff1` is never past a free block |
| Sensor node (`APP/nodes/apps/node.c`) | association flags, counters, tick count, pending result | handlers of confirms, ticks, rescans; MAC callback | measurements are prepared; buffers freed once; the node gets associated again after any loss |
| Gateway (`APP/gateway/apps/gateway.c`) | chosen channel, next short address, started flag | energy scan, start, associate indications, LED ticks | the network starts on the quietest channel; no two live nodes share a short address |
| Sensing (`APP/libs/src/sensing.c`) | ADC on or off, sample buffer | prepare, shut down, measure, filter | no conversion is waited for with the ADC off; the filter stays in range |
| HAL UART (`HAL hal_uart.c`) | receive and transmit rings, control block | open, read, write, poll, service routine | bytes leave in order, once; a full ring is not taken for an empty one |
| HAL sleep, keys, LEDs, driver task | accumulated sleep time, key state, blink counters | `halSleep`, key and LED polling | no sleep past a timer; a key press is seen |
| MAC low level: receive, transmit, receiver on and off, sleep (`LL/mac_rx.c`, `mac_tx.c`, `mac_rx_onoff.c`, `mac_sleep.c`) | `macRxActive`, `macTxActive`, enable flags, reset flag | service routines, `macTxFrame`, `macRxOnRequest`, `macSleep` | the radio is not slept or switched off in a frame; a queued frame is started once; an acknowledgement and its timeout complete a transmit once |
| MAC low level: timers (`mac_backoff_timer.c`, `mac_mcu_timer.c`) | backoff count, compare values | set count, trigger, rollover, capture | a trigger is not missed across a rollover |
| MAC low level: source matching (`mac_autopend.c`) | two address tables, enable and pend masks | add, delete, find, enable | entry and mask bits agree; no duplicate address |
| MAC PIB | attribute tables | get, set | range checks |

How they interact. The main loop of OSAL runs the handler of the task with the
lowest index that has an event flag, to completion. Everything that crosses a
task boundary is a flag or a message. Service routines (radio, timers, keys,
UART) run between any two instructions outside critical sections. They set
flags and may send messages. They do not nest on this target. The tick of a
node is an OSAL reload timer; the MAC answers a node's requests through
`MAC_CbackEvent`, which allocates a message and may fail to. Sleep is decided
by `osal_pwrmgr_powerconserve` after a scan that found nothing, and lasts until
the next timer or a wake-up interrupt.

What is hard: the critical sections are short and the code between them is not,
so most components depend on which interleavings of a service routine are
harmless. Confirms may be lost for want of memory, come late, or answer an
earlier request. Counters are bytes, compared for equality. Timers are changed
while the list is walked. `PROJECT.json` lists these as hazards, each at its
line, with the properties that cover it.

## 2. Modules

| Module | Models | Kind |
|---|---|---|
| `OsalKernel` | `OSAL.c` main loop, messages, flags; `OSAL_PwrMgr.c` | detailed specification |
| `Mailbox` | one first-come mailbox per owner, with priority posts | abstract specification |
| `OsalMailboxes` | the kernel's one list as a mailbox per task, and what `Mailbox` says of them | refinement mapping |
| `OsalKernelProofs` | theorems on `OsalKernel` and `OsalMailboxes` | proofs |
| `OsalTimers` | `OSAL_Timers.c` and the elapsed time of `OSAL_Clock.c` | detailed specification |
| `MCOsalTimers` | symmetry of the timers | model checking |
| `NodeApp` | `node.c` and the scan request of `nwk_comm.c`, with the MAC as environment | detailed specification |
| `NodeAppProofs` | theorems on `NodeApp` | proofs |
| `OsalTimersProofs` | theorems on `OsalTimers` | proofs |
| `OsalHeap` | `OSAL_Memory.c` | detailed specification |
| `OsalHeapProofs` | theorems on `OsalHeap` | proofs |
| `HalUart` | `hal_uart.c`: both rings, the callers, the service routine | detailed specification |
| `HalUartProofs` | theorems on `HalUart` | proofs |
| `ByteLine` | a line that accepts writes as a whole and sends bytes in order | abstract specification |
| `MacRadio` | `mac_rx.c`, `mac_tx.c`, `mac_dualchip_tx.c`, `mac_rx_onoff.c`, `mac_sleep.c`, the channel change of `mac_radio.c`, with the CC2520 as environment | detailed specification |
| `MacRadioProofs` | theorems on `MacRadio` | proofs |
| `GatewayApp` | `gateway.c`, with the MAC as environment | operators and actions |
| `SpwmNetwork` | the gateway, nodes (`NodeApp` instantiated for each) and the air between them | composition |
| `GatewayAppProofs` | lemmas on `GatewayApp`: its types, its start-up, the channel it chooses | proofs |
| `SpwmNetworkProofs` | theorems on `SpwmNetwork`, and that every node of it is a `NodeApp` | proofs |

`PROJECT.json` maps every definition to its lines. Operators named `Mut...` are
seeded faults: the definition as a plausible bug would have it. They are used
by no specification; each shows that some property tells the bug from the code.

### OsalKernel

One variable per variable of the code. `destId` is the header field a buffer
carries, which is how the code tells a queued buffer from an owned one. `held`
is the set of buffers the running handler has pointers to. `pc` is the place of
the main loop: the code is cut exactly at the points where interrupts are
enabled and shared state is touched next. So the loop has a step that tests
`tasksEvents[idx]` (not protected), a step that takes the flags (`Grab`, a
critical section), a step that adds back the flags the handler returns
(`Return`, another), and a sender has one for the list (`Send`) and one for the
flag (`Signal`). A service routine is one step, because routines do not nest
and each critical section nested in them is void.

What a handler does is left open: it may receive, free, allocate, send, push to
the front, set flags and change the power mode in any order. It follows the two
shapes of the program's handlers: `while ((msg = osal_msg_receive(...)))` until
NULL, or (in the MAC library) one message per activation, after which it
returns. `SendRefused` is the error path of `osal_msg_enqueue_push`, which
frees the buffer unless it is queued.

The list is shared by all tasks. `Mailbox` says what tasks may expect of it:
one mailbox each, first come first served apart from pushes to the front, every
item in one place at a time. `OsalMailboxes` maps the subsequence of the list
addressed to a task (`MessagesFor`) to that task's mailbox. `ImplementsMailbox`
is the safety half of `Mailbox`, `MessagesTaken` its fairness: a task whose
mailbox is not empty goes on taking.

### OsalTimers

`timers` is the list from `timerHead`. `osalTimerUpdate` is five actions: the
clock is counted, the walk begins, each record is visited under a critical
section, an expired record's flag is set and the record freed outside it, the
walk ends. `cursor` is `srchTimer`, as a position that is recomputed when the
record before it is unlinked. `StartTimer` and `StopTimer` are enabled at every
`pc`, as service routines use them. `Minus` is the code's subtraction with its
fast path on the low byte; `ByteRange` stands for 256.

Records carry two history fields, the time the caller asked for and the clock
reading at which the record must expire, and `stopped` remembers which timers
were last stopped. No guard reads them. A stop made while the walk has already
unlinked the record and has yet to set its flag does not prevent that event;
the comment in the code promises otherwise only for a stop that finds the
timer, so `stopped` excludes such stops.

The 32 bit `osal_systemClock` is a natural number: it wraps after 49 days and
nothing modelled compares it.

### NodeApp

The handlers are operators from the state of the node, a record, to its next
state, named as in `node.c`; a network module can apply them to one of many
nodes. `mem` says whether the one allocation a handler makes succeeds.
`HandleMessage` handles one message; `NODE_ProcessEvent` handles all of them
before any flag, which is the guard `inbox = <<>>` of the flag actions, and
flags go by priority. The tick, rescan and start events are the three flags.

The MAC library is the environment. It holds up to `MaxReqs` requests of a kind
and answers them in any order with any status; `MAC_CbackEvent` queues the
confirm or drops it when there is no memory. An answer may come between any two
steps. It does not come inside a handler's step: the callback only appends to
the queue and the handlers do not look at it, so an answer inside a handler
commutes with the rest of that handler.

`curStickTime` is a `uint32` counting ticks of a second and wraps after 136
years; the model keeps it modulo `TickPeriod`, a common multiple of the two
periods, which the tick arithmetic cannot tell from the whole count. That
arithmetic is `(curStickTime - preparingDelta) % sensingTime` on unsigned
numbers; the remainder of a wrapped difference differs from TLA+'s only for
counts below `preparingDelta`, where neither is zero for the shipped constants
(sensing 30, preparing 2, alive 5, rescans 3; in the debug build 10, 5, 2, 3).
`preparingDelta` is therefore the tick within a period at which the sensors are
switched on, although its name suggests the distance to the next measurement.
Data indications are printed and freed, so they have no action.

`Booted` is the state `NODE_Init` leaves, which the network module uses too.

### OsalHeap

`theHeap` is a function of its cells; a cell is a header, the end mark, or
`Data`. A length is in cells of one header (`HdrSz` bytes, two on this target),
as the code keeps them. Frees only clear the bit; `osal_mem_alloc` is one
action per block it visits (`VisitUsed`, `VisitAdjacent` with the merge,
`VisitFree`) and one for what it does with the block found (`Take`, with the
split and `ff1`). The code holds one critical section all that time, so tasks
and service routines are one caller, and no other action is enabled meanwhile;
the steps are apart so that each statement of the loop is an action to prove
about. `osal_mem_kick` is a search of its own followed by `KickFree`. That the
loop ends is seen from `hdr`, which grows with each visit.

`owned` is a history variable: what callers hold and what they asked for.
Callers free only what they own, as the code assumes throughout.

### HalUart and ByteLine

A caller is cut at each access to the rings it shares with the service routine:
`WriteHead` reads the head, `WriteRoom` the tail, each byte is one step, and the
last step is the critical section that starts an idle transmitter. The service
routine is one step: it serves both flags, in the code's order. The shift
register takes a byte from `UCA0TXBUF` and raises the flag.

A byte is a number in the order of acceptance or arrival, so that overwriting,
repeating and reordering are all seen. `MayWriteWhenFull` separates two callers:
one that never writes into a ring that is exactly full, for which the driver
implements `ByteLine`, and any caller, for which it does not (`uart_full`).
Arriving bytes leave one place free, since the driver has no flow control.

### MacRadio

The variables of the low level and the state of the radio are one record, and
each function of the code is an operator from one such record to the next,
under the function's name; calls are applications. A service routine is one
action that applies the whole call tree. What runs in the main loop is cut
where a critical section ends: `macTxFrame` in up to six steps, `macRxDisable`
and `macSleepWakeUp` in two.

A frame arrives in three sections, header, body and check sum, so that every
routine of the receiver (`pFuncRxState`) can be interrupted by the end of one,
a FIFO overflow, a timer, a transmission or a reset; lengths are what `left`
counts. A reader that finds the FIFO empty, after an overflow or a flush, reads
anything: the value is chosen. The three checks that drop a frame (length,
security header, check sum) are three ways of being wrong, at most one per
frame.

`Reset` is `macRxHardDisable` as `macLowLevelReset` calls it: inside a routine
it sets the reset flag, which the end of the routine acts on. It does not touch
`macTxActive`: a reset in the middle of a transmission leaves that variable set
with nothing to clear it until `macTxInit`. The record field `cut` remembers
that this has happened, and the two properties on transmits hold while it has
not. `owed` counts transmits not reported yet, `asserted` remembers whether
every `MAC_ASSERT` held. No guard reads the three.

### GatewayApp and SpwmNetwork

The gateway is written as the node: handlers as operators, the MAC as
environment with requests outstanding and answers that may find no memory.
`grants` counts the addresses given and `stuck` remembers a start-up that has
ended for a reason the code does not retry (an energy scan that failed, no
memory for a confirm or a timer); no guard reads either. Energy is a number per
channel.

`SpwmNetwork` instantiates `NodeApp` for each of `Nodes`. Its node steps are
NodeApp's operators with the answers of the MAC now caused by the gateway: a
scan finds the PAN only when the gateway is on the air, and an association is
confirmed with a response the gateway has made, kept for an earlier request
perhaps. `ImplementsNodeApp` shows that each node of the network is a `NodeApp`:
whatever is checked or proved of that module holds in the network. The other
devices do nothing but ask, take a response and give up.

## 3. Runs

| Run | Instance | States | Properties |
|---|---|---|---|
| `kernel` | 3 tasks, 2 buffers, 1 flag besides the message flag, `MaxWork` 6 | 94 018 | `TypeOK QueueOwnership NoLostWakeup EventsKept EventsServed ImplementsMailbox MessagesTaken` |
| `kernel_sleep` | 2 tasks | violation | `SleepsOnlyWhenIdle` |
| `timers` | 2 timers, timeouts 1 and 3, byte range 2, 3 records, 4 ms, 4 calls | 754 487 | `TypeOK OneRecordPerTimer TimeoutIsDeadline SleepIsTimed FiresInItsUpdate TimersKept StopHolds` |
| `timers_early` | the same | violation | `ExpiresAfterTimeout` |
| `node` | sensing 4, preparing 3, alive 2, 1 rescan, poll limit 1, 2 requests of a kind, 1 data buffer, 1 confirm in the queue | 393 090 | `TypeOK PendsUnassociated PollFailInReach BuffersCovered MeasuresPrepared AlwaysAssociatesAgain` |
| `node_gateway_gone` | the same | violation | `ScanWithoutGatewayFails` |
| `heap` | 16 cells, bucket of 6, requests of 1, 4, 5 and 8 bytes (2, 3, 4 and 5 cells) | 1 399 601 | `TypeOK BlocksOwned FirstFree FailsOnlyWhenFull` |
| `uart` | rings of 4 and 3, writes and reads of 1, 2 and 4, 9 bytes each way | 30 260 | `TypeOK RingHoldsUnsent ReadInOrder ImplementsByteLine` |
| `uart_full` | the same, any caller | violation | `SentInOrder` |
| `radio` | 2 reasons to receive, 1 backoff, FIFO of 3 sections, 2 frames, 1 transmit, 1 other call | 320 507 | `TypeOK AssertsHold ReceiveFlagsAgree TransmitGoesOn QueuedBehindReceive SleepIsQuiet TransmitEnds` |
| `radio_poll` | 1 frame, 1 transmit | violation | `ReceiverKept` |
| `network` | 1 node in full and 1 other device, 3 channels, 2 energies, table of 2 addresses, 3 requests | 3 096 357 | `TypeOK AddressesComeRound StartupGoesOn StartsOnQuietest ImplementsNodeApp` |

Bounds, and why they are enough.

- `kernel`. Two buffers give two messages for one task, for two, and one in a
  handler's hands; three tasks give one of higher and one of lower priority
  than the running one. `MaxWork` bounds messages, flags and power changes; six
  are enough for both buffers to be sent, received and sent again with flags
  set in between. For `EventsServed` and `MessagesTaken` it also means that the interrupts stop in
  the end; without that a task of low priority may starve, which is the design
  of the scheduler.
- `timers`. Timeouts of 1 and 3 with a byte range of 2 make the subtraction
  take the fast path, the borrow and the saturating path. Three records for two
  timers leave room for one stopped record and for the allocation to fail. Four
  milliseconds hold an update of several ms, one with a reload in it and a late
  one; four calls let a service routine stop and restart a timer inside a walk.
  Time and calls run out, so the run does not check deadlock.
- `node`. The limits of the counters are 1, so that they are met, passed and
  reset within a few ticks; the values compared are the constants, and the
  proofs cover the rest. One place in the queue suffices for the order of
  confirms, since the MAC may answer in any order. Two descriptors of our PAN
  in one scan and two requests of a kind give the duplicate association. A node
  whose tick timer could not be allocated really stops, so the run does not
  check deadlock.
- `heap`. Nothing is bounded: the heap is finite. Ten cells behind the bucket
  and four in it hold up to five blocks, so that merges of two and three blocks,
  splits, blocks given whole because the rest is too small, and failures for
  want of a long enough run all occur on both sides of the kick. 2 cells is the
  smallest request, 5 does not fit into the bucket with anything else. The
  assertion of the kick halts, so the run does not check deadlock.
- `uart`. Nine bytes go twice round either ring. A write of 4 fills the transmit
  ring at once, 2 and 1 fill it in parts; the run ends when the bytes are used
  up, so it does not check deadlock.
- `radio`. Two frames give one in the air while the other is handled, and the
  overflow of the FIFO; one transmit with one backoff meets each of them, and
  one more call (enable, disable, channel change, sleep, wake up, reset) meets
  all of that. Its states take about 90 s. The run ends when frames and calls
  are used up, so it does not check deadlock.
- `network`. Three grants go round a table of two, so an address is given again
  while its first owner may live. One full node sees every delay, loss and
  repetition of answers; the second device takes grants between the node's. The
  node's own counters are at their smallest, since the `node` run covers them.
  It takes about two minutes. An energy scan that fails ends the gateway, so
  the run does not check deadlock.

## 4. Fairness

- `OsalKernel!FairSpec`: weak fairness of the main loop and of the timer that
  ends a sleep. The CPU executes instructions; a sleep with a timer ends. No
  fairness of service routines is assumed. `MessagesTaken`, the fairness of the
  abstract `Mailbox`, is checked under it: nothing of the kind is assumed of the
  tasks, they follow the shapes of handlers above.
- `OsalTimers`: none, all its properties are safety.
- `NodeApp!FairSpec`: weak fairness of the task (the kernel's `EventsServed`),
  of the two timers (`FiresInItsUpdate` and `TimersKept`) and of the MAC's
  answers, which may still be lost on delivery. Strong fairness of two
  environment events says that the radio works from time to time: among
  infinitely many scans one shows the gateway and its confirm finds memory, and
  likewise for associations. Without it no node could ever be associated.
  Nothing more is assumed, in particular not that the rescans of one period
  succeed.
- `ByteLine!Spec`: a byte accepted is sent in the end. `HalUart!Spec` is fair to
  the shift register, to the service routine and to a call that has begun; no
  caller is made to write.
- `MacRadio!Spec`: weak fairness of a call that has begun, of each service
  routine while its condition lasts, and of what the radio has begun (a frame
  that arrives, an acknowledgement and a frame it sends). Frames and calls need
  not come. A timer that is always set anew is not a cause of starvation here,
  as the number of backoffs is limited by `MaxBackoffs`.
- `OsalHeap`, `SpwmNetwork`: none, all their properties are safety.

## 5. Proofs

All theorems are for every value of the constants that satisfies the named
assumptions of the module (`KernelAssumption`, `NodeAssumption`,
`TimersAssumption`, `HeapAssumption`, `UartAssumption`,
`GatewayAssumption`, `NetworkAssumption`, `RadioAssumption`).

`OsalKernelProofs`

| Theorem | States |
|---|---|
| `TypeCorrect` | `Spec => []TypeOK` |
| `BuffersOwnedOnce` | `Spec => []QueueOwnership` |
| `WakeupsKept` | `Spec => []NoLostWakeup` |
| `FlagsKept` | `Spec => EventsKept` |
| `ListIsMailboxes` | `Spec => ImplementsMailbox` |

`TypeOK` is inductive because it also relates the place of the loop to the
active task and the sender's unset flag. `QueueOwnership` is inductive relative
to it; the lemmas on `Inserted` and `Extracted` say which buffers and which
positions the two list operations leave. `NoLostWakeup` needs both: when
`Receive` clears the message flag, that the buffer it took is not the only one
is decided by the positions after it, so uniqueness of positions is used.
`FlagsKept` is an action property from the type invariant, one step per action.

`ListIsMailboxes` is the refinement of `Mailbox`, each step of the kernel a
`Deliver`, a `Take` or a stutter, for lists of any length. A mailbox is what a
walk of the list collects, a function defined by recursion on the position. That
such a function exists, and what it contains, is proved by the least position at
which it would fail (`LeastNat`, from the well-foundedness of `<` on the natural
numbers, which the library states of sets and so without a predicate as
parameter). `WalkFollows` compares two walks: where one list repeats the other,
moved by some places, their mailboxes grow by the same messages. An append, a
push to the front and the extraction of a message from the middle are three uses
of it. `QueueOwnership` is needed because the headers are shared: a buffer that
is sent is in no mailbox yet, so setting its `dest_id` moves no other message,
and the buffer a receive takes stood in the list once, so that clearing its
header takes nothing else from any mailbox.

`NodeAppProofs`

| Theorem | States |
|---|---|
| `TypeCorrect` | `Spec => []TypeOK` |
| `PendingIsUnassociated` | `Spec => []PendsUnassociated` |
| `PollLimitReachable` | `Spec => []PollFailInReach` |
| `BuffersFreedOnce` | `Spec => []BuffersCovered` |
| `MeasurementsArePrepared` | `Spec => MeasuresPrepared` |

The first four are consequences of one inductive invariant, `NodeInv`: the node
record is typed and satisfies the two implications, the queue is typed, and the
data confirms in it number at most `Slack(node)`, the buffers allocated less
the requests the MAC still has. The type of `bufs` alone is not inductive, as a
data confirm decrements it: that the result is not negative is what the last
conjunct says. Each handler operator has a lemma that it keeps a sound node
sound and does not lessen its slack (a data confirm lessens it by the one it
takes from the queue), and each action follows from the lemmas of the operators
it applies. The last needs `AdcReady` besides: from the preparing tick of a
period to its last the ADC is on. It rests on lemmas on remainders by a divisor
that is not known (the next number, a number less its remainder, counting modulo
a multiple), proved from the uniqueness of quotient and remainder.

`OsalTimersProofs`

| Theorem | States |
|---|---|
| `TypeCorrect` | `Spec => []TypeOK` |
| `RecordsUnique` | `Spec => []OneRecordPerTimer` |
| `TimeoutsKeepDeadlines` | `Spec => []TimeoutIsDeadline` |
| `SleepTimed` | `Spec => []SleepIsTimed` |
| `FiresOnTime` | `Spec => FiresInItsUpdate` |
| `TimersNotLost` | `Spec => TimersKept` |
| `StopsHold` | `Spec => StopHolds` |

These are all the properties of the run `timers`. They follow from one
inductive invariant, `TimersInv`. Besides the types and the uniqueness of
records it says where a walk is: records before the cursor have been charged
with this update and those behind it have not (`TimesLeft`), a record the walk
is about to unlink is due at this reading of the clock (`ExpiryDue`), and a
timer last stopped has no record with time left (`StoppedGone`). `StopHolds` and
`FiresInItsUpdate` say of a step what the latter two say of the state before
it. Lemmas on the list state what adding, unlinking and changing one record
does to the others and to the cursor, and `Minus` is shown to be the saturating
subtraction for every timeout and every byte range.

`OsalHeapProofs`

| Theorem | States |
|---|---|
| `HeapInvariant` | `Spec => []HeapInv` |
| `TypeCorrect` | `Spec => []TypeOK` |
| `BlocksHaveOneOwner` | `Spec => []BlocksOwned` |
| `SearchMissesNothing` | `Spec => []FirstFree` |
| `FailsOnlyForWantOfRoom` | `Spec => FailsOnlyWhenFull` |

These are all the properties of the run `heap`, for every size of the heap, of
its bucket and of its headers. `HeapInv` is a conjunction of six parts. `Shape`:
the headers tile the cells, the block at the end of the bucket is in use and is
the only one of a single cell, so that no merge crosses it and every other block
can be handed out or taken back. `Owners`: `BlocksOwned` with the owner of the
bucket's end excluded. `LowestFree`: `ff1` is at or below every free block; a
merge removes a free header only when there is another free one before it, so
the header `ff1` names is not swallowed. `Search`: a search stands on a header
and, while it may merge, the block before ends there and is free. `Kick`: the
search of the first kick has passed no free block, which is why `ff1` may be
set to what it finds. `FailsOnlyForWantOfRoom` adds `Passed`: no run of free
cells as long as the request begins at a cell the search has left behind. It is
kept because such a run lies within adjacent free blocks, which the search
merges as it meets them, and a block in use interrupts every run.

`SpwmNetworkProofs` and `GatewayAppProofs`

| Theorem | States |
|---|---|
| `NetworkInvariant` | `Spec => []NetInv` |
| `NetworkTypes` | `Spec => []TypeOK` |
| `AddressesShared` | `Spec => []AddressesComeRound` |
| `StartupIsOneThread` | `Spec => []StartupGoesOn` |
| `QuietestIsStarted` | `Spec => StartsOnQuietest` |
| `NodesAreNodeApps` | `Spec => ImplementsNodeApp` |

For every number of nodes, of other devices, of addresses, of channels and of
energies. The response to
an association is followed on its way: with the gateway's MAC, in the inbox of a
node as a successful confirm, held by the device. A device may hold an address
only through such a response, and `NetInv` says of all of them together that
each is for the device that has it (`ToOwner`), and that its address is the one
the gateway's counter had as many grants ago as the response is old, counted
modulo the table (`InTurn`). Two responses of one address are therefore a whole
table of grants apart, which is `AddressesComeRound`. Only the gateway's handler
of an association makes a response; every other step moves or drops one, and
the lemmas say so operator by operator. `AskedHeld` is for the refinement: a
device whose request is on the air is a node whose MAC holds an association
request, so the confirm the network causes is one `NodeApp` allows. With it each
action of the network is shown to be an action of `NodeApp` for one node and a
stutter for the others, so that what `NodeAppProofs` proves of a node holds of
every node of the network.

The gateway's part of `NetInv` is `GwInv`. `StartupGoesOn` speaks of a confirm
that is in the queue and not of how many there are, and is not inductive: of two
confirms of the start, the one handled first would leave the other under way
beside what it causes. `GwInv` adds that there is at most one of each kind
(`Sole`). Then every handler of the start-up ends the step it answers and begins
at most one other (`PassesOn`), or it records that the start-up is stuck; and
the handlers of associations and ticks touch none of its steps. The loop of
`ProcessingScanConfirm` over the energies is shown, by the least number of
channels for which it would fail, to find the lowest of the quietest
(`QuietestIs`), which gives the type of the channel asked for as well.

`HalUartProofs`

| Theorem | States, where `~MayWriteWhenFull` |
|---|---|
| `UartInvariant` | `Spec => []UartInv` |
| `TypeCorrect` | `Spec => []TypeOK` |
| `UnsentAreHeld` | `Spec => []RingHoldsUnsent` |
| `LineInOrder` | `Spec => []SentInOrder` |
| `ReadsInOrder` | `Spec => []ReadInOrder` |
| `DriverIsLine` | `Spec => Line!Init /\ [][Line!Next]_<<accepted, sent>>` |

For rings of every size, with and without interrupts, and writes and reads of
every length. The assumption is that no caller writes while the ring is exactly
full; `uart_full` shows what happens otherwise. `UartInv` adds to the four
invariants what a call in progress knows. A write that has read the head and
not yet the tail finds at most the room there is, because the service routine
only moves the head on (`WriteInv`); the bytes it has copied lie behind the tail
and reach at most to the head, so no copy overwrites a byte not sent. Head and
tail are then equal only when the transmitter is idle, which is why its last
step starts the transmitter exactly when it has stopped (`TxInv`). A read stays
within the bytes it counted, since the service routine only adds behind the
tail (`RxInv`). The arithmetic of the rings is in lemmas of its own: which
places differ, and what moving an end of the ring does to the number held.
`DriverIsLine` is the safety part of the refinement `ImplementsByteLine`.

`MacRadioProofs`

| Theorem | States |
|---|---|
| `RadioInvariant` | `Spec => []RadioInv` |
| `TypeCorrect` | `Spec => []TypeOK` |
| `Asserted` | `Spec => []AssertsHold` |
| `FlagsAgree` | `Spec => []ReceiveFlagsAgree` |
| `TransmitsGoOn` | `Spec => []TransmitGoesOn` |
| `QueueNotForgotten` | `Spec => []QueuedBehindReceive` |
| `SleepsAtRest` | `Spec => []SleepIsQuiet` |

For any set of flags, number of backoffs, size of the FIFO and number of frames
and calls. `RadioInv` adds to the properties what they need of the radio and of
each other. A radio that is off holds nothing and does not send (`RadioOK`),
which is why a service routine that finds something in the FIFO runs with the
radio awake. The radio sends only for a transmit in `GO` that waits for nothing
else, and a reset cuts only such a transmit short (`TxOK`); hence a reset, an
overflow or the end of a receive never ends a transmission without its being
recorded. Nobody has asked for the receiver of a radio that sleeps
(`AsleepOK`), so nothing but a wake-up turns it on. Inside a receive routine the
receive flags hold again at its end, whether or not a reset was left to it
(`Ended`), and the reset then starts from there. The lemmas follow the calls of
the code: what `Flush`, `RxTxOff` and the requests leave alone, what a freed
receiver does to a queued frame (`Freed`), what the end of a transmit may do to
a receiver through a channel change (`RxAfter`), then each routine, then each
action.

Every safety property of a passing run is thus a theorem, for `HalUart` of
callers that never write into a full ring, which is what the run `uart` assumes.

Only model-checked: the liveness properties, since fairness and `ENABLED` are
out of the prover's reach. They are `EventsServed`, `MessagesTaken`,
`AlwaysAssociatesAgain`, `TransmitEnds`, and of `ImplementsByteLine` the
fairness of the line. The five violations are runs only.

## 6. Findings

- `timers_early`: a timer started after some milliseconds that no update has
  counted yet is charged with them and expires early, by at most the time the
  current round of the loop has taken. The comment says it expires in n
  milliseconds.
- `kernel_sleep`: the loop goes to sleep on the result of a scan that an
  interrupt may have made stale. The comment says power is conserved when no
  events are scheduled. `EventsServed` shows that the flag is served after the
  next wake-up.
- `node_gateway_gone`: `isGWDetect` is never reset, so a scan that shows no
  gateway is not counted as failed once a gateway has been seen.
  `AlwaysAssociatesAgain` shows that the sensing tick recovers.
- `uart_full`: a write of exactly the free room makes head and tail equal, which
  the driver reads as empty from then on. The next write is accepted and
  overwrites bytes not sent yet, although the comment says writes are accepted
  all or none. The run `uart` shows that this is the only way to lose a byte.
- `radio_poll`: a transmit that saves power during its backoff switches the
  receiver off without a look at `macRxActive`. A receive that started after
  `macTxFrame` had decided to transmit, or that made the channel busy before,
  loses its rest, although the comment on `macRxActive` says that the receiver
  is not turned off while it is set.

## 7. Not modelled, and why

The map covers a few percent of the repository's lines. Most of the rest is
not a program with behaviour of its own that this product runs: register
definitions of other chips (`driverlib/cc2538/inc` alone is over ten thousand
lines), the low level for other radios (`srf05` and the single-chip
variants), API headers, the
vendor's demonstration application, and drivers that write constants to
registers. None of it can be modelled faithfully as anything but constants. The
MAC library has no source and is environment.

Left out of the product's own code:

- `HalSleep`: the slept time in ticks of the crystal and its accumulation. The
  decision to sleep is in `OsalKernel`, the length of a sleep in `OsalTimers`.
- The remainder arithmetic and the calendar of `OSAL_Clock.c`, the filter and
  the conversions of `Sensing`, `MAC PIB`: pure arithmetic and range checks,
  which unit tests reach.
- `MacTimer`: the backoff count, its triggers and its rollover serve beacons and
  slotted transmits, which this product does not use. In `MacRadio`: slotted
  transmits, green power, the scan filter, transmit power.
- `SrcMatch`, `MAC SPI`: tables and transfers under one critical section each.
- Keys and LEDs: polling of pins and blink counters; the product's handlers of
  keys are empty.
- `osal_msg_find`, `osal_msg_enqueue_max`, `HalUARTClose`,
  `GW_SendDataRequest`: no callers.

A definition of the behaviour of the MAC library, of the radio or of the air is
marked external in the map.

## 8. Plan

What has been built, in the order of importance: the kernel, the timers and the
node; the radio; the gateway and the network; the heap; the
UART; each with its proofs, up to the refinements. What is left:

1. `HalSleep`, composed with `OsalTimers`: the timer set between the choice of
   the sleep time and the critical section, and the units of the accumulated
   time.
2. Two full nodes in `SpwmNetwork`, with the scan result each keeps in one
   global buffer.
