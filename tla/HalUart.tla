------------------------------ MODULE HalUart ------------------------------
(***************************************************************************)
(* The UART driver (src/Components/hal/target/MSP5438CC2520/hal_uart.c):    *)
(* HalUARTOutBuf puts bytes into the transmit ring, which the service       *)
(* routine empties; the service routine fills the receive ring, which       *)
(* HalUARTRead empties.  The callers run in the main loop and may be        *)
(* interrupted between any two accesses to the rings; only the last step of *)
(* a write runs under a critical section.                                   *)
(*                                                                          *)
(* A byte is its number in the order of acceptance or of arrival.           *)
(***************************************************************************)
EXTENDS Integers, Sequences

CONSTANTS
  TxSize,            \* tx.maxBufSize
  RxSize,            \* rx.maxBufSize
  Lengths,           \* the lengths of the writes and reads
  IntEnable,         \* intEnable: interrupts, or HalUARTPoll
  MayWriteWhenFull,  \* whether a caller may write while the ring is full
  NoByte,            \* what a ring holds before anything is put there
  MaxBytes           \* bound: bytes accepted, and bytes that arrive

ASSUME UartAssumption ==
  /\ TxSize \in Nat \ {0, 1} /\ RxSize \in Nat \ {0, 1}
  /\ Lengths \subseteq Nat \ {0}
  /\ IntEnable \in BOOLEAN /\ MayWriteWhenFull \in BOOLEAN
  /\ MaxBytes \in Nat
  /\ NoByte = 0

VARIABLES
  tx, rx,    \* uartRecord.tx and .rx: bufferHead, bufferTail, pBuffer
  txReg,     \* UCA0TXBUF, NoByte once its byte has moved to the shift register
  txIfg,     \* UCTXIFG
  txIe,      \* UCTXIE
  rxReg,     \* UCA0RXBUF, NoByte when UCRXIFG is clear
  pc,        \* where the main loop is: "idle"; "room", "copy" in
             \* HalUARTOutBuf; "read" in HalUARTRead
  idx, cnt, length,  \* the variables of those functions
  accepted,  \* history: how many bytes have been accepted
  sent,      \* history: the bytes that have left on the line
  arrived,   \* history: how many bytes have arrived
  got        \* history: the bytes HalUARTRead has returned

txVars == <<tx, txReg, txIfg, txIe, accepted, sent>>
rxVars == <<rx, rxReg, arrived, got>>
callVars == <<pc, idx, cnt, length>>
vars == <<txVars, rxVars, callVars>>

Ring(n) == [head : 0 .. n - 1, tail : 0 .. n - 1,
            buf : [0 .. n - 1 -> 0 .. MaxBytes]]

\* The state HalUARTOpen leaves.
Init ==
  /\ tx = [head |-> 0, tail |-> 0, buf |-> [i \in 0 .. TxSize - 1 |-> NoByte]]
  /\ rx = [head |-> 0, tail |-> 0, buf |-> [i \in 0 .. RxSize - 1 |-> NoByte]]
  /\ txReg = NoByte /\ txIfg = FALSE /\ txIe = FALSE /\ rxReg = NoByte
  /\ pc = "idle" /\ idx = 0 /\ cnt = 0 /\ length = 0
  /\ accepted = 0 /\ sent = <<>> /\ arrived = 0 /\ got = <<>>

\* Seeded fault for TypeOK: an off-by-one at the end of a ring.
MutAfter(i, n) == IF i + 1 > n THEN 0 ELSE i + 1

\* The next place of a ring.
After(i, n) == IF i + 1 >= n THEN 0 ELSE i + 1

-----------------------------------------------------------------------------
(* HalUARTOutBuf *)

\* A byte is being sent, or has been and the service routine is still due.
Busy == txReg # NoByte \/ txIfg
TxFull == tx.head = tx.tail /\ Busy

WriteHead ==
  /\ pc = "idle"
  /\ MayWriteWhenFull \/ ~TxFull
  /\ \E n \in Lengths : accepted + n <= MaxBytes /\ length' = n
  /\ idx' = tx.head
  /\ pc' = "room"
  /\ UNCHANGED <<cnt, txVars, rxVars>>

\* Seeded fault for RingHoldsUnsent: one byte of room too many.
MutRoom(head, tail) == IF tail >= head THEN TxSize - tail + head
                                       ELSE head - tail + 1

\* The free bytes of the ring, for a head and a tail.
Room(head, tail) == IF tail >= head THEN TxSize - tail + head ELSE head - tail

WriteRoom ==
  /\ pc = "room"
  /\ IF Room(idx, tx.tail) < length
       THEN pc' = "idle" /\ idx' = 0 /\ length' = 0
       ELSE pc' = "copy" /\ idx' = tx.tail /\ UNCHANGED length
  /\ cnt' = 0
  /\ UNCHANGED <<txVars, rxVars>>

WriteByte ==
  /\ pc = "copy"
  /\ cnt < length
  /\ tx' = [tx EXCEPT !.buf[idx] = accepted + cnt + 1]
  /\ idx' = After(idx, TxSize)
  /\ cnt' = cnt + 1
  /\ UNCHANGED <<pc, length, txReg, txIfg, txIe, accepted, sent, rxVars>>

\* The byte at the head goes to the transmitter.  Writing the register clears
\* its flag.
PutByte(i) == txReg' = tx.buf[i] /\ txIfg' = FALSE

\* The critical section at the end: an idle transmitter is started.
WriteStart ==
  /\ pc = "copy" /\ cnt = length
  /\ IF tx.tail = tx.head
       THEN txIe' = (txIe \/ IntEnable) /\ PutByte(tx.head)
       ELSE UNCHANGED <<txReg, txIfg, txIe>>
  /\ tx' = [tx EXCEPT !.tail = idx]
  /\ accepted' = accepted + length
  /\ pc' = "idle" /\ idx' = 0 /\ cnt' = 0 /\ length' = 0
  /\ UNCHANGED <<sent, rxVars>>

-----------------------------------------------------------------------------
(* HalUARTRead *)

\* Hal_UART_RxBufLen
RxBufLen == IF rx.tail >= rx.head THEN rx.tail - rx.head
                                  ELSE rx.tail - rx.head + RxSize

ReadLength ==
  /\ pc = "idle"
  /\ \E n \in Lengths : length' = IF RxBufLen < n THEN RxBufLen ELSE n
  /\ length' > 0
  /\ idx' = rx.head
  /\ cnt' = 0
  /\ pc' = "read"
  /\ UNCHANGED <<txVars, rxVars>>

ReadByte ==
  /\ pc = "read"
  /\ cnt < length
  /\ got' = Append(got, rx.buf[idx])
  /\ idx' = After(idx, RxSize)
  /\ cnt' = cnt + 1
  /\ UNCHANGED <<pc, length, rx, rxReg, arrived, txVars>>

ReadEnd ==
  /\ pc = "read" /\ cnt = length
  /\ rx' = [rx EXCEPT !.head = idx]
  /\ pc' = "idle" /\ idx' = 0 /\ cnt' = 0 /\ length' = 0
  /\ UNCHANGED <<rxReg, arrived, got, txVars>>

-----------------------------------------------------------------------------
(* The service routine, or HalUARTPoll when interrupts are not used *)

\* Seeded fault for ReadInOrder: the tail moves before the byte is put there.
MutRxProcessEvent ==
  /\ rx' = [rx EXCEPT !.buf[After(rx.tail, RxSize)] = rxReg,
                      !.tail = After(rx.tail, RxSize)]
  /\ rxReg' = NoByte
  /\ UNCHANGED <<arrived, got>>

\* Hal_UART_RxProcessEvent
RxProcessEvent ==
  /\ rx' = [rx EXCEPT !.buf[rx.tail] = rxReg, !.tail = After(rx.tail, RxSize)]
  /\ rxReg' = NoByte
  /\ UNCHANGED <<arrived, got>>

\* Seeded fault for ImplementsByteLine: the head moves behind its byte.
MutTxProcessEvent ==
  /\ IF tx.head # tx.tail
       THEN /\ tx' = [tx EXCEPT !.head = After(tx.head, TxSize)]
            /\ PutByte(tx.head)
            /\ UNCHANGED txIe
       ELSE txIe' = FALSE /\ txIfg' = FALSE /\ UNCHANGED <<tx, txReg>>
  /\ UNCHANGED <<accepted, sent>>

\* Hal_UART_TxProcessEvent: the byte at the head has left.
TxProcessEvent ==
  /\ tx' = [tx EXCEPT !.head = After(tx.head, TxSize)]
  /\ IF tx'.head # tx.tail
       THEN PutByte(tx'.head) /\ UNCHANGED txIe
       ELSE txIe' = FALSE /\ txIfg' = FALSE /\ UNCHANGED txReg
  /\ UNCHANGED <<accepted, sent>>

\* Either flag is served, whichever of the two interrupts was taken.
Interrupt ==
  /\ IF IntEnable THEN rxReg # NoByte \/ (txIfg /\ txIe)
                  ELSE pc = "idle" /\ (rxReg # NoByte \/ txIfg)
  /\ IF rxReg # NoByte THEN RxProcessEvent ELSE UNCHANGED rxVars
  /\ IF txIfg THEN TxProcessEvent ELSE UNCHANGED txVars
  /\ UNCHANGED callVars

-----------------------------------------------------------------------------
(* The line *)

\* The transmitter takes the byte and asks for the next.
Shift ==
  /\ txReg # NoByte
  /\ sent' = Append(sent, txReg)
  /\ txReg' = NoByte
  /\ txIfg' = TRUE
  /\ UNCHANGED <<tx, txIe, accepted, rxVars, callVars>>

\* A byte arrives.  The peer sends no faster than the ring is read: nothing in
\* the driver holds it back, Hal_UART_FlowControlSet is empty.
Arrive ==
  /\ arrived < MaxBytes
  /\ rxReg = NoByte
  /\ RxBufLen < RxSize - 1
  /\ arrived' = arrived + 1
  /\ rxReg' = arrived'
  /\ UNCHANGED <<rx, got, txVars, callVars>>

Next ==
  \/ WriteHead \/ WriteRoom \/ WriteByte \/ WriteStart
  \/ ReadLength \/ ReadByte \/ ReadEnd
  \/ Interrupt \/ Shift \/ Arrive

\* The transmitter goes on, the CPU takes its interrupts, and a call of the
\* driver that has begun returns.
Fairness ==
  /\ WF_vars(Shift)
  /\ WF_vars(Interrupt)
  /\ WF_vars(WriteRoom \/ WriteByte \/ WriteStart \/ ReadByte \/ ReadEnd)

Spec == Init /\ [][Next]_vars /\ Fairness

-----------------------------------------------------------------------------
(* Properties *)

TypeOK ==
  /\ tx \in Ring(TxSize)
  /\ rx \in Ring(RxSize)
  /\ txReg \in 0 .. MaxBytes /\ rxReg \in 0 .. MaxBytes
  /\ txIfg \in BOOLEAN /\ txIe \in BOOLEAN
  /\ pc \in {"idle", "room", "copy", "read"}
  /\ idx \in 0 .. TxSize + RxSize /\ cnt \in Nat /\ length \in Nat
  /\ accepted \in 0 .. MaxBytes /\ arrived \in 0 .. MaxBytes
  /\ sent \in Seq(0 .. MaxBytes) /\ got \in Seq(0 .. MaxBytes)

\* The place i bytes behind another of a ring.
Place(p, i, n) == IF p + i >= n THEN p + i - n ELSE p + i

\* How many bytes the ring holds, the one in the transmitter included.
TxHeld == IF Busy THEN TxSize - Room(tx.head, tx.tail)
                       + (IF TxFull THEN TxSize ELSE 0)
                  ELSE 0

\* The bytes accepted and not sent lie in the ring from the head on, in order:
\* the room HalUARTOutBuf computes from a head that moves on meanwhile never
\* lets it overwrite one of them, and the transmitter runs while there are any.
RingHoldsUnsent ==
  LET due == IF txIfg THEN 1 ELSE 0   \* the byte at the head has left
  IN /\ accepted - Len(sent) = TxHeld - due
     /\ \A i \in due .. TxHeld - 1 :
          tx.buf[Place(tx.head, i, TxSize)] = Len(sent) + 1 + i - due
     /\ txReg # NoByte => txReg = tx.buf[tx.head]
     /\ IntEnable => (Busy => txIe)

\* The driver is the line the callers are promised: accepted bytes leave in
\* order, each once, and all of them.
Line == INSTANCE ByteLine WITH Capacity <- TxSize
ImplementsByteLine == Line!Spec

\* What HalUARTOutBuf accepted as a whole is sent as a whole
\* ('Accept "all-or-none" on write request', hal_uart.c:461).
SentInOrder == \A i \in 1 .. Len(sent) : sent[i] = i

\* HalUARTRead returns the bytes that arrived, each once and in order, and the
\* ones it has not returned are still in the ring.
ReadInOrder ==
  /\ \A i \in 1 .. Len(got) : got[i] = i
  /\ LET read == IF pc = "read" THEN cnt ELSE 0
     IN \A i \in read .. RxBufLen - 1 :
          rx.buf[Place(rx.head, i, RxSize)] = Len(got) + 1 + i - read
  /\ arrived = Len(got) + RxBufLen - (IF pc = "read" THEN cnt ELSE 0)
                 + (IF rxReg # NoByte THEN 1 ELSE 0)
=============================================================================
