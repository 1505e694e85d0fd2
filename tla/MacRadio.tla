------------------------------ MODULE MacRadio ------------------------------
(***************************************************************************)
(* The low level of the MAC on the CC2520                                   *)
(* (src/Components/mac/low_level/srf04): the receiver (mac_rx.c), the       *)
(* unslotted CSMA transmitter (mac_tx.c, mac_dualchip_tx.c), the receiver   *)
(* switch (mac_rx_onoff.c), sleep (mac_sleep.c) and channel changes         *)
(* (mac_radio.c), which share a handful of flags between the main loop and  *)
(* the service routines of the radio and of the microcontroller timer.      *)
(*                                                                          *)
(* Service routines do not nest, so each is one step; the main loop runs in *)
(* steps that end where a critical section does.  The functions are         *)
(* operators from one state of the low level to the next.                   *)
(*                                                                          *)
(* A frame reaches the receive FIFO in sections: the header, which          *)
(* rxStartIsr reads, the body, which stands for what rxAddrIsr,             *)
(* rxSecurityHdrIsr and rxPayloadIsr read, and the check sum.  An           *)
(* acknowledgement is a header alone.                                       *)
(***************************************************************************)
EXTENDS Integers, Sequences

CONSTANTS
  Flags,        \* the reasons to keep the receiver on; POLL is MAC_RX_POLL
  POLL,
  MaxBackoffs,  \* macPib.maxCsmaBackoffs
  MaxFifo,      \* sections the receive FIFO of the radio has room for
  MaxFrames,    \* bound: frames on the air
  MaxTx,        \* bound: calls of macTxFrame
  MaxCalls      \* bound: other calls of the high level

ASSUME RadioAssumption ==
  /\ POLL \in Flags
  /\ {MaxBackoffs, MaxFrames, MaxTx, MaxCalls} \subseteq Nat
  /\ MaxFifo \in Nat \ {0}

VARIABLES
  mac,     \* the variables of the low level and the state of the radio
  pc,      \* where the main loop is: "idle", in macTxFrame ("init", "loaded",
           \* "go", "csma", "delay"), in macRxDisable ("off"), in
           \* macSleepWakeUp ("wake")
  frames, txs, calls  \* how much of the bounds is used

vars == <<mac, pc, frames, txs, calls>>

\* At most one thing is wrong with a frame.
Headers == {h \in [kind : {"data"}, ackReq : BOOLEAN, crc : BOOLEAN,
                    sec : BOOLEAN] : h.crc \/ h.sec}
             \cup [kind : {"ack", "bad"}, ackReq : {FALSE}, crc : {TRUE},
                   sec : {TRUE}]
Sections == [part : {"header"}, header : Headers]
              \cup [part : {"body", "fcs"}, ok : BOOLEAN]

MacStates == [
  rxActive : {"NO", "STARTED", "DONE"},      \* macRxActive
  outAck   : BOOLEAN,                        \* macRxOutgoingAckFlag
  rxState  : {"start", "body", "fcs", "discard"},  \* pFuncRxState
  left     : 0 .. 2,                         \* rxUnreadLen of "discard"
  buf      : BOOLEAN,                        \* pRxBuf # NULL
  isr      : BOOLEAN,                        \* rxIsrActiveFlag
  reset    : BOOLEAN,                        \* rxResetFlag
  on       : BOOLEAN,                        \* macRxOnFlag
  enable   : SUBSET Flags,                   \* macRxEnableFlags
  tx       : {"NO", "INIT", "QUEUED", "GO", "BUSY", "LISTEN", "POST", "DONE"},
  ackReq   : BOOLEAN,                        \* txAckReq
  nb       : 0 .. MaxBackoffs,
  timer    : {"none", "RxOn", "Cca", "AckWait"},  \* callback of the MCU timer
  retune   : BOOLEAN,                        \* reqChannel # macPhyChannel
  awake    : BOOLEAN,                        \* macSleepState
  \* the radio: receive FIFO, overflow, the frame that is arriving, whether it
  \* sends, and the acknowledgement it was told to send
  fifo     : UNION {[1 .. n -> Sections] : n \in 0 .. MaxFifo},
  overflow : BOOLEAN,
  air      : UNION {[1 .. n -> Sections] : n \in 0 .. 3},
  sending  : {"no", "yes", "done"},
  ack      : {"none", "armed", "done"},
  \* history: transmits not reported yet, whether a reset has cut one short,
  \* and whether every assertion held
  owed     : Int,
  cut      : BOOLEAN,
  asserted : BOOLEAN ]

\* The radio is awake and the high level has enabled the receiver, or not.
Init ==
  /\ \E flags \in SUBSET Flags :
       mac = [rxActive |-> "NO", outAck |-> FALSE, rxState |-> "start",
              left |-> 0, buf |-> FALSE, isr |-> FALSE, reset |-> FALSE,
              on |-> flags # {}, enable |-> flags, tx |-> "NO",
              ackReq |-> FALSE, nb |-> 0, timer |-> "none", retune |-> FALSE,
              awake |-> TRUE, fifo |-> <<>>, overflow |-> FALSE, air |-> <<>>,
              sending |-> "no", ack |-> "none", owed |-> 0, cut |-> FALSE,
              asserted |-> TRUE]
  /\ pc = "idle"
  /\ frames = 0 /\ txs = 0 /\ calls = 0

\* MAC_ASSERT
Assert(r, condition) == [r EXCEPT !.asserted = @ /\ condition]

-----------------------------------------------------------------------------
(* Receiver on and off: mac_rx_onoff.c *)

\* The radio drops what it has received, and a frame that is arriving.
Flush(r) ==
  [r EXCEPT !.fifo = <<>>, !.overflow = FALSE, !.air = <<>>,
            !.ack = IF r.air # <<>> /\ @ = "armed" THEN "none" ELSE @]

macRxOn(r) == [r EXCEPT !.on = TRUE]

\* The radio stops whatever it is doing.
RxTxOff(r) ==
  [Flush(r) EXCEPT !.on = FALSE,
                   !.sending = IF @ = "yes" THEN "no" ELSE @,
                   !.ack = IF @ = "armed" THEN "none" ELSE @]

macRxOff(r) == IF r.on THEN RxTxOff(r) ELSE r

RxPhysicallyActive(r) == r.rxActive = "STARTED" \/ r.outAck
TxPhysicallyActive(r) == r.tx \in {"GO", "LISTEN", "POST", "DONE"}

macRxOnRequest(r) == IF r.enable # {} THEN macRxOn(r) ELSE r

macRxOffRequest(r) ==
  IF r.enable = {} /\ ~RxPhysicallyActive(r) /\ ~TxPhysicallyActive(r)
    THEN macRxOff(r)
    ELSE r

-----------------------------------------------------------------------------
(* Transmit: mac_tx.c and mac_dualchip_tx.c.  The random backoff is short    *)
(* (less than two periods) or not.                                           *)

\* The receiver is switched off for the time of the backoff.
SavePower(r) == IF r.enable \subseteq {POLL} THEN macRxOff(r) ELSE r

StartBackoff(r, short) ==
  IF short THEN [macRxOn(r) EXCEPT !.timer = "Cca"]
           ELSE [r EXCEPT !.timer = "RxOn"]

macDualchipTxGoCsma(r, short) == StartBackoff(SavePower(r), short)

txGo(r, short) == macDualchipTxGoCsma([r EXCEPT !.outAck = FALSE], short)

macTxStartQueuedFrame(r, short) ==
  LET q == Assert(r, r.rxActive = "NO" /\ ~r.outAck)
  IN IF q.tx = "QUEUED" THEN txGo([q EXCEPT !.tx = "GO"], short) ELSE q

\* Seeded fault for TransmitEnds: the queued frame is forgotten.
MutPostRxUpdates(r, short) == macRxOffRequest(r)

rxPostRxUpdates(r, short) == macTxStartQueuedFrame(macRxOffRequest(r), short)

rxHaltCleanupFinalStep(r, short) ==
  LET q == [Flush(r) EXCEPT !.buf = FALSE, !.rxState = "start", !.left = 0,
                            !.rxActive = "NO", !.outAck = FALSE]
  IN IF r.rxActive # "NO" \/ r.outAck THEN rxPostRxUpdates(q, short) ELSE q

\* A reset out of the middle of a receive routine is left to its end.
macRxHaltCleanup(r, short) ==
  IF r.isr THEN [r EXCEPT !.reset = TRUE] ELSE rxHaltCleanupFinalStep(r, short)

macRadioUpdateChannel(r, short) ==
  LET q == Assert(r, r.tx = "NO")
  IN IF q.retune
       THEN macRxOnRequest(
              macRxHaltCleanup(macRxOff([q EXCEPT !.retune = FALSE]), short))
       ELSE q

txComplete(r, short) ==
  LET q == macRxOffRequest([r EXCEPT !.tx = "NO", !.nb = 0, !.ackReq = FALSE])
  IN [macRadioUpdateChannel(q, short) EXCEPT !.owed = @ - 1]

\* Seeded fault for TransmitGoesOn: the acknowledgement leaves its timeout.
MutListenOver(r, short) ==
  IF r.tx = "LISTEN"
    THEN txComplete([r EXCEPT !.tx = "POST"], short)
    ELSE r

\* macTxAckReceivedCallback and macTxAckNotReceivedCallback, which differ only
\* in the status they report.
ListenOver(r, short) ==
  IF r.tx = "LISTEN"
    THEN txComplete([r EXCEPT !.tx = "POST", !.timer = "none"], short)
    ELSE r

macTxDoneCallback(r, short) ==
  CASE r.tx = "GO" /\ ~r.ackReq -> txComplete([r EXCEPT !.tx = "DONE"], short)
    [] r.tx = "GO" /\ r.ackReq  -> [r EXCEPT !.tx = "LISTEN",
                                             !.timer = "AckWait"]
    [] OTHER                    -> r

\* Seeded fault for TypeOK: the count is compared before it is raised.
MutChannelBusyCallback(r, short) ==
  LET q == macRxOffRequest([r EXCEPT !.tx = "BUSY", !.nb = @ + 1])
  IN IF r.nb > MaxBackoffs
       THEN txComplete(q, short)
       ELSE macDualchipTxGoCsma([q EXCEPT !.tx = "GO"], short)

macTxChannelBusyCallback(r, short) ==
  LET q == macRxOffRequest([r EXCEPT !.tx = "BUSY", !.nb = @ + 1])
  IN IF q.nb > MaxBackoffs
       THEN txComplete(q, short)
       ELSE macDualchipTxGoCsma([q EXCEPT !.tx = "GO"], short)

-----------------------------------------------------------------------------
(* Receive: mac_rx.c *)

Pop(r) == [r EXCEPT !.fifo = IF @ = <<>> THEN @ ELSE Tail(@)]

\* Seeded fault for AssertsHold: the acknowledgement is not waited for.
MutDone(r, short) ==
  rxPostRxUpdates([(IF r.overflow THEN Flush(r) ELSE r) EXCEPT !.rxActive = "NO"],
                  short)

rxDone(r, short) ==
  LET q == [(IF r.overflow THEN Flush(r) ELSE r) EXCEPT !.rxActive = "NO"]
  IN IF q.outAck THEN q ELSE rxPostRxUpdates(q, short)

\* Seeded fault for QueuedBehindReceive: what waits for the end of the
\* acknowledgement is not done.
MutAckTxDoneCallback(r, short) == [r EXCEPT !.outAck = FALSE]

macRxAckTxDoneCallback(r, short) ==
  LET q == [r EXCEPT !.outAck = FALSE]
  IN IF q.rxActive = "NO" THEN rxPostRxUpdates(q, short) ELSE q

rxDiscardFrame(r) ==
  [Assert(r, r.rxState = "start") EXCEPT !.rxState = "discard", !.left = 2]

\* The radio still has the rest of the frame whose header has been read.
Receiving(r) == r.on /\ (r.fifo # <<>> \/ r.air # <<>>)

\* Service routines run with the receiver on and something in the FIFO, so the
\* early return of rxStartIsr when the receiver has just been turned off is not
\* met.  A header h has been read, and there may or may not be a buffer for its
\* frame (a frame the filter rejects is discarded like one without a buffer).
rxStartIsr(r, h, alloc, short) ==
  LET begun == [Pop(Assert(r, r.rxActive = "NO"))
                  EXCEPT !.rxActive = "STARTED", !.outAck = FALSE]
      heard == ListenOver(begun, short)
  IN CASE h.kind = "bad" -> rxDone(Flush(begun), short)
       [] h.kind = "ack" -> rxDone(heard, short)
       [] h.kind = "data" /\ ~alloc -> rxDiscardFrame(heard)
       [] h.kind = "data" /\ alloc ->
            [heard EXCEPT !.buf = TRUE, !.rxState = "body",
                          !.outAck = h.ackReq,
                          !.ack = IF h.ackReq /\ h.crc /\ Receiving(heard)
                                    THEN "armed" ELSE @]

\* rxAddrIsr, rxSecurityHdrIsr and rxPayloadIsr: a security header that makes
\* no sense resets the receiver and takes the acknowledgement back.
rxBodyIsr(r, ok, short) ==
  IF ok THEN [Pop(r) EXCEPT !.rxState = "fcs"]
        ELSE macRxHaltCleanup([Pop(r) EXCEPT !.ack = IF @ = "armed" THEN "none"
                                                                  ELSE @],
                              short)

\* Seeded fault for ReceiveFlagsAgree: a bad frame keeps its buffer.
MutFcsIsr(r, crcOK, short) ==
  LET read == Pop(r)
      over == IF crcOK
                THEN macRxOffRequest([read EXCEPT !.rxActive = "DONE"])
                ELSE [read EXCEPT !.outAck = FALSE]
  IN rxDone([over EXCEPT !.rxState = "start"], short)

\* The frame goes to the high level with its buffer, or is dropped.
rxFcsIsr(r, crcOK, short) ==
  LET read == Pop(r)
      over == IF crcOK
                THEN macRxOffRequest([read EXCEPT !.rxActive = "DONE"])
                ELSE [read EXCEPT !.outAck = FALSE]
  IN rxDone([over EXCEPT !.buf = FALSE, !.rxState = "start"], short)

rxDiscardIsr(r, short) ==
  LET read == [Pop(r) EXCEPT !.left = @ - 1]
  IN IF read.left > 0 THEN read
                      ELSE rxDone([read EXCEPT !.rxState = "start"], short)

\* The end of macRxThresholdIsr: a reset that came meanwhile is made up for.
ThresholdEnd(r, short) ==
  LET q == [r EXCEPT !.isr = FALSE]
  IN IF q.reset
       THEN rxHaltCleanupFinalStep([q EXCEPT !.reset = FALSE], short)
       ELSE q

\* What the routine reads: the first section, if it is of the kind the routine
\* expects; else bytes out of their place, which may look like anything.
HeadersRead(r) ==
  IF r.fifo # <<>> /\ Head(r.fifo).part = "header"
    THEN {Head(r.fifo).header}
    ELSE Headers
Read(r, part) ==
  IF r.fifo # <<>> /\ Head(r.fifo).part = part THEN {Head(r.fifo).ok}
                                               ELSE BOOLEAN

-----------------------------------------------------------------------------
(* The main loop.  The high level may call while the low level is at rest.   *)

Call == pc = "idle" /\ calls < MaxCalls /\ calls' = calls + 1

RxEnable ==
  /\ Call /\ mac.awake
  /\ \E f \in Flags \ mac.enable :
       mac' = macRxOn([mac EXCEPT !.enable = @ \cup {f}])
  /\ UNCHANGED <<pc, frames, txs>>

\* macRxDisable: the flag is cleared, then the receiver asked to go off.
RxDisable ==
  /\ Call
  /\ \E f \in mac.enable : mac' = [mac EXCEPT !.enable = @ \ {f}]
  /\ pc' = "off"
  /\ UNCHANGED <<frames, txs>>

RxDisableOff ==
  /\ pc = "off"
  /\ mac' = macRxOffRequest(mac)
  /\ pc' = "idle"
  /\ UNCHANGED <<frames, txs, calls>>

\* macRadioSetChannel: during a transmit the change waits for its end.
SetChannel ==
  /\ Call /\ mac.awake
  /\ \E short \in BOOLEAN :
       mac' = LET q == [mac EXCEPT !.retune = TRUE]
              IN IF q.tx = "NO" THEN macRadioUpdateChannel(q, short) ELSE q
  /\ UNCHANGED <<pc, frames, txs>>

\* Seeded fault for SleepIsQuiet: an acknowledgement is not waited for.
MutMaySleep(r) == r.rxActive = "NO" /\ r.tx = "NO" /\ r.enable = {}

MaySleep(r) ==
  r.rxActive = "NO" /\ ~r.outAck /\ r.tx = "NO" /\ r.enable = {}

\* macSleep, which may be called by a service routine: the main loop can be
\* anywhere.
Sleep ==
  /\ mac.awake
  /\ MaySleep(mac)
  /\ mac' = [macRxOff(mac) EXCEPT !.awake = FALSE]
  /\ UNCHANGED <<pc, frames, txs, calls>>

WakeUp ==
  /\ pc = "idle"
  /\ ~mac.awake
  /\ mac' = [mac EXCEPT !.awake = TRUE]
  /\ pc' = "wake"
  /\ UNCHANGED <<frames, txs, calls>>

WakeUpOn ==
  /\ pc = "wake"
  /\ mac' = macRxOnRequest(mac)
  /\ pc' = "idle"
  /\ UNCHANGED <<frames, txs, calls>>

\* macRxHardDisable
macRxHardDisable(r, short) ==
  macRxHaltCleanup(RxTxOff([r EXCEPT !.enable = {}]), short)

\* macLowLevelReset, with interrupts off.  Nothing clears macTxActive
\* (macTxHaltCleanup has no caller) and the timer runs on: a transmit in its
\* backoff goes on, one that the radio was sending is cut short for good.  While
\* the low level sleeps a reset is a WakeUp.
Reset ==
  /\ Call /\ mac.awake
  /\ \E short \in BOOLEAN :
       mac' = [macRxHardDisable(mac, short)
                 EXCEPT !.cut = @ \/ mac.sending = "yes"]
  /\ UNCHANGED <<pc, frames, txs>>

\* macTxFrame
TxFrame ==
  /\ pc = "idle"
  /\ mac.tx = "NO"
  /\ txs < MaxTx /\ txs' = txs + 1
  /\ mac' = [mac EXCEPT !.tx = "INIT", !.owed = @ + 1]
  /\ pc' = "init"
  /\ UNCHANGED <<frames, calls>>

TxPrepare ==
  /\ pc = "init"
  /\ IF mac.awake
       THEN /\ \E a \in BOOLEAN : mac' = [mac EXCEPT !.nb = 0, !.ackReq = a]
            /\ pc' = "loaded"
       ELSE /\ \E short \in BOOLEAN : mac' = txComplete(mac, short)
            /\ pc' = "idle"
  /\ UNCHANGED <<frames, txs, calls>>

\* The critical section that either starts the transmit or queues it.
TxGoOrQueue ==
  /\ pc = "loaded"
  /\ IF mac.rxActive = "NO" /\ ~mac.outAck
       THEN mac' = [mac EXCEPT !.tx = "GO"] /\ pc' = "go"
       ELSE mac' = [mac EXCEPT !.tx = "QUEUED"] /\ pc' = "idle"
  /\ UNCHANGED <<frames, txs, calls>>

\* txGo and macDualchipTxGoCsma, with interrupts on again.
TxGo ==
  /\ pc = "go"
  /\ mac' = [mac EXCEPT !.outAck = FALSE]
  /\ pc' = "csma"
  /\ UNCHANGED <<frames, txs, calls>>

TxSavePower ==
  /\ pc = "csma"
  /\ mac' = SavePower(mac)
  /\ pc' = "delay"
  /\ UNCHANGED <<frames, txs, calls>>

TxStartBackoff ==
  /\ pc = "delay"
  /\ \E short \in BOOLEAN : mac' = StartBackoff(mac, short)
  /\ pc' = "idle"
  /\ UNCHANGED <<frames, txs, calls>>

-----------------------------------------------------------------------------
(* The service routines *)

\* halMacFifopIsr serves the end of transmissions before receptions.
AckDoneIsr ==
  /\ mac.ack = "done"
  /\ \E short \in BOOLEAN :
       mac' = macRxAckTxDoneCallback([mac EXCEPT !.ack = "none"], short)
  /\ UNCHANGED <<pc, frames, txs, calls>>

FrmDoneIsr ==
  /\ mac.sending = "done" /\ mac.ack # "done"
  /\ \E short \in BOOLEAN :
       mac' = macTxDoneCallback([mac EXCEPT !.sending = "no"], short)
  /\ UNCHANGED <<pc, frames, txs, calls>>

RxRoutine(r, short) ==
  \/ /\ r.rxState = "start"
     /\ \E h \in HeadersRead(r), alloc \in BOOLEAN :
          mac' = ThresholdEnd(rxStartIsr(r, h, alloc, short), short)
  \/ /\ r.rxState = "body"
     /\ \E ok \in Read(r, "body") :
          mac' = ThresholdEnd(rxBodyIsr(r, ok, short), short)
  \/ /\ r.rxState = "fcs"
     /\ \E ok \in Read(r, "fcs") :
          mac' = ThresholdEnd(rxFcsIsr(r, ok, short), short)
  \/ /\ r.rxState = "discard"
     /\ mac' = ThresholdEnd(rxDiscardIsr(r, short), short)

\* macRxThresholdIsr, while the FIFO holds a section or has overflowed.
ThresholdIsr ==
  /\ mac.awake
  /\ mac.fifo # <<>> \/ mac.overflow
  /\ mac.ack # "done" /\ mac.sending # "done"
  /\ \E short \in BOOLEAN : RxRoutine([mac EXCEPT !.isr = TRUE], short)
  /\ UNCHANGED <<pc, frames, txs, calls>>

\* macRxFifoOverflowIsr
OverflowIsr ==
  /\ mac.overflow
  /\ \E short \in BOOLEAN : mac' = macRxHaltCleanup(mac, short)
  /\ UNCHANGED <<pc, frames, txs, calls>>

\* The callbacks of the microcontroller timer.  The channel is busy while a
\* frame arrives or an acknowledgement is due.
TimerIsr ==
  /\ \E short \in BOOLEAN :
       LET fired == [mac EXCEPT !.timer = "none"]
       IN \/ /\ mac.timer = "RxOn"
             /\ mac' = [macRxOn(mac) EXCEPT !.timer = "Cca"]
          \/ /\ mac.timer = "Cca"
             /\ mac.air = <<>> /\ mac.ack # "armed"
             /\ mac' = [fired EXCEPT !.on = TRUE, !.sending = "yes"]
          \/ /\ mac.timer = "Cca"
             /\ mac' = macTxChannelBusyCallback(fired, short)
          \/ /\ mac.timer = "AckWait"
             /\ mac' = ListenOver(fired, short)
  /\ UNCHANGED <<pc, frames, txs, calls>>

-----------------------------------------------------------------------------
(* The radio *)

SectionsOf(h) ==
  IF h.kind = "data"
    THEN <<[part |-> "header", header |-> h], [part |-> "body", ok |-> h.sec],
           [part |-> "fcs", ok |-> h.crc]>>
    ELSE <<[part |-> "header", header |-> h]>>

FrameBegins ==
  /\ frames < MaxFrames /\ frames' = frames + 1
  /\ mac.awake /\ mac.on /\ mac.sending # "yes" /\ mac.ack # "armed"
  /\ mac.air = <<>>
  /\ \E h \in Headers : mac' = [mac EXCEPT !.air = SectionsOf(h)]
  /\ UNCHANGED <<pc, txs, calls>>

SectionArrives ==
  /\ mac.air # <<>>
  /\ mac' = IF mac.overflow \/ Len(mac.fifo) = MaxFifo
              THEN [mac EXCEPT !.overflow = TRUE, !.air = <<>>]
              ELSE [mac EXCEPT !.fifo = Append(@, Head(mac.air)),
                               !.air = Tail(@)]
  /\ UNCHANGED <<pc, frames, txs, calls>>

AckSent ==
  /\ mac.ack = "armed" /\ mac.air = <<>>
  /\ mac' = [mac EXCEPT !.ack = "done"]
  /\ UNCHANGED <<pc, frames, txs, calls>>

FrameSent ==
  /\ mac.sending = "yes"
  /\ mac' = [mac EXCEPT !.sending = "done"]
  /\ UNCHANGED <<pc, frames, txs, calls>>

-----------------------------------------------------------------------------

MainStep == \/ RxDisableOff \/ WakeUpOn
            \/ TxPrepare \/ TxGoOrQueue \/ TxGo \/ TxSavePower \/ TxStartBackoff
RadioStep == SectionArrives \/ AckSent \/ FrameSent

Next ==
  \/ RxEnable \/ RxDisable \/ SetChannel \/ Sleep \/ WakeUp \/ Reset \/ TxFrame
  \/ MainStep
  \/ AckDoneIsr \/ FrmDoneIsr \/ ThresholdIsr \/ OverflowIsr \/ TimerIsr
  \/ FrameBegins \/ RadioStep

\* A call of the low level returns, interrupts are taken, timers expire and the
\* radio ends what it has begun.
Fairness ==
  /\ WF_vars(MainStep)
  /\ WF_vars(AckDoneIsr) /\ WF_vars(FrmDoneIsr) /\ WF_vars(ThresholdIsr)
  /\ WF_vars(OverflowIsr) /\ WF_vars(TimerIsr)
  /\ WF_vars(SectionArrives) /\ WF_vars(AckSent) /\ WF_vars(FrameSent)

Spec == Init /\ [][Next]_vars /\ Fairness

-----------------------------------------------------------------------------
(* Properties *)

TypeOK ==
  /\ mac \in MacStates
  /\ pc \in {"idle", "init", "loaded", "go", "csma", "delay", "off", "wake"}
  /\ frames \in 0 .. MaxFrames /\ txs \in 0 .. MaxTx /\ calls \in 0 .. MaxCalls

\* No MAC_ASSERT of the low level fails: no receive begins on top of another,
\* no queued frame starts in the middle of one, no channel changes under a
\* transmit.
AssertsHold == mac.asserted

\* The receive flags agree: a receive is marked active exactly while its
\* routine is not the first one, and holds a buffer exactly until it hands it
\* over or drops it; a reset left to the end of a routine has been made up for.
ReceiveFlagsAgree ==
  /\ mac.rxActive = IF mac.rxState = "start" THEN "NO" ELSE "STARTED"
  /\ mac.buf <=> mac.rxState \in {"body", "fcs"}
  /\ ~mac.isr /\ ~mac.reset

\* A transmit that has begun always has the one event coming that carries it
\* on: the rest of macTxFrame, the timer of its backoff or of its
\* acknowledgement, or the radio; and it is reported once.  A reset in the
\* middle of a transmission leaves it without.
TransmitGoesOn == ~mac.cut =>
  /\ mac.owed = IF mac.tx = "NO" THEN 0 ELSE 1
  /\ CASE mac.tx = "INIT"   -> pc \in {"init", "loaded"} /\ mac.timer = "none"
       [] mac.tx = "LISTEN" -> mac.timer = "AckWait" /\ mac.sending = "no"
       [] mac.tx = "GO"     ->
            \/ pc \in {"go", "csma", "delay"} /\ mac.timer = "none"
                 /\ mac.sending = "no"
            \/ pc \notin {"go", "csma", "delay"}
                 /\ mac.timer \in {"RxOn", "Cca"} /\ mac.sending = "no"
            \/ pc \notin {"go", "csma", "delay"} /\ mac.timer = "none"
                 /\ mac.sending # "no"
       [] mac.tx \in {"NO", "QUEUED"} -> mac.timer = "none"
                                           /\ mac.sending = "no"
       [] OTHER             -> FALSE

\* A frame is queued only behind a receive whose end will start it: the
\* decision of macTxFrame and the end of the receive cannot miss each other.
QueuedBehindReceive ==
  mac.tx = "QUEUED" => mac.rxActive # "NO" \/ mac.outAck

\* The radio sleeps only when nothing is under way, whoever called macSleep,
\* and a transmit that begins meanwhile does not touch it.
SleepIsQuiet ==
  ~mac.awake =>
    /\ mac.tx \in {"NO", "INIT"} /\ pc # "loaded"
    /\ mac.rxActive = "NO" /\ ~mac.outAck /\ ~mac.on
    /\ mac.timer = "none" /\ mac.sending = "no"
    /\ mac.fifo = <<>> /\ mac.air = <<>> /\ mac.ack # "armed"

\* The receiver is not turned off under a receive
\* ("If it is TRUE, the receiver will not be turned off.", mac_rx.c:425).
ReceiverKept == mac.rxActive = "STARTED" => mac.on

\* Every transmit is reported, queued or not, as long as no receive loses its
\* receiver (ReceiverKept does not hold of SavePower) and no reset cuts a
\* transmission short.
TransmitEnds ==
  [](ReceiverKept /\ ~mac.cut) => ((mac.owed = 1) ~> (mac.owed = 0))
=============================================================================
