-------------------------- MODULE MacRadioProofs --------------------------
(***************************************************************************)
(* Proofs about MacRadio, for any number of backoffs, frames and calls and  *)
(* a FIFO of any size: the flags the main loop shares with the service      *)
(* routines agree, no assertion fails, a queued frame is not forgotten, a   *)
(* transmit has its next event coming and the radio sleeps only at rest.    *)
(***************************************************************************)
EXTENDS MacRadio, TLAPS

-----------------------------------------------------------------------------
(* The inductive invariant.  Its parts are of one state of the low level, so *)
(* that the lemmas on the operators can use them between two of their steps. *)

\* The types, with the numbers and the lengths bounded by the other parts.
Regs == [
  rxActive : {"NO", "STARTED", "DONE"}, outAck : BOOLEAN,
  rxState : {"start", "body", "fcs", "discard"}, left : Int, buf : BOOLEAN,
  isr : BOOLEAN, reset : BOOLEAN, on : BOOLEAN, enable : SUBSET Flags,
  tx : {"NO", "INIT", "QUEUED", "GO", "BUSY", "LISTEN", "POST", "DONE"},
  ackReq : BOOLEAN, nb : Int, timer : {"none", "RxOn", "Cca", "AckWait"},
  retune : BOOLEAN, awake : BOOLEAN, fifo : Seq(Sections),
  overflow : BOOLEAN, air : Seq(Sections), sending : {"no", "yes", "done"},
  ack : {"none", "armed", "done"}, owed : Int, cut : BOOLEAN,
  asserted : BOOLEAN ]

\* The radio: what it holds fits, and switched off it holds and does nothing.
RadioOK(r) ==
  /\ r \in Regs
  /\ Len(r.fifo) <= MaxFifo /\ Len(r.air) <= 3
  /\ ~r.on => /\ r.fifo = <<>> /\ ~r.overflow /\ r.air = <<>>
              /\ r.ack # "armed" /\ r.sending # "yes"

\* The receiver, between two routines.
RxOK(r) ==
  /\ r.rxActive = IF r.rxState = "start" THEN "NO" ELSE "STARTED"
  /\ r.buf <=> r.rxState \in {"body", "fcs"}
  /\ r.left \in 0 .. 2
  /\ r.rxState = "discard" => r.left # 0

Starting == {"go", "csma", "delay"}

\* The transmitter, with the main loop at p.  A reset can only cut a transmit
\* short that the radio is sending, and nothing moves it after that.
TxOK(r, p) ==
  /\ p \in {"init", "loaded"} => r.tx = "INIT"
  /\ p \in Starting => r.tx = "GO" /\ ~r.cut
  /\ r.cut => r.tx = "GO" /\ r.timer = "none" /\ r.sending = "no"
  /\ ~r.cut => r.owed = IF r.tx = "NO" THEN 0 ELSE 1
  /\ ~r.cut =>
       \/ r.tx \in {"NO", "QUEUED"} /\ r.timer = "none" /\ r.sending = "no"
       \/ /\ r.tx = "INIT" /\ p \in {"init", "loaded"}
          /\ r.timer = "none" /\ r.sending = "no"
       \/ r.tx = "LISTEN" /\ r.timer = "AckWait" /\ r.sending = "no"
       \/ /\ r.tx = "GO" /\ p \in Starting
          /\ r.timer = "none" /\ r.sending = "no"
       \/ /\ r.tx = "GO" /\ p \notin Starting
          /\ r.timer \in {"RxOn", "Cca"} /\ r.sending = "no"
       \/ /\ r.tx = "GO" /\ p \notin Starting
          /\ r.timer = "none" /\ r.sending # "no"

Behind(r) == r.tx = "QUEUED" => r.rxActive # "NO" \/ r.outAck

\* Asleep, nothing is under way and nobody has asked for the receiver.
AsleepOK(r) ==
  ~r.awake => /\ r.tx \in {"NO", "INIT"} /\ r.enable = {} /\ ~r.on
              /\ r.rxActive = "NO" /\ ~r.outAck

LowLevelOK(r, p) ==
  /\ RadioOK(r) /\ RxOK(r) /\ TxOK(r, p) /\ Behind(r) /\ AsleepOK(r)
  /\ r.nb \in 0 .. MaxBackoffs
  /\ ~r.isr /\ ~r.reset /\ r.asserted

RadioInv ==
  /\ LowLevelOK(mac, pc)
  /\ pc = "loaded" => mac.awake
  /\ pc \in {"idle", "init", "loaded", "go", "csma", "delay", "off", "wake"}
  /\ frames \in 0 .. MaxFrames /\ txs \in 0 .. MaxTx /\ calls \in 0 .. MaxCalls

-----------------------------------------------------------------------------
(* Receiver on and off *)

RxSame(q, r) ==
  /\ q.rxActive = r.rxActive /\ q.outAck = r.outAck
  /\ q.rxState = r.rxState /\ q.left = r.left /\ q.buf = r.buf
  /\ q.isr = r.isr /\ q.reset = r.reset
  /\ q.enable = r.enable /\ q.awake = r.awake

TxSame(q, r) ==
  /\ q.tx = r.tx /\ q.ackReq = r.ackReq /\ q.nb = r.nb
  /\ q.timer = r.timer /\ q.owed = r.owed /\ q.cut = r.cut

\* Only the radio differs, and it has at most stopped sending.
OnlyRadio(q, r) ==
  /\ RadioOK(q) /\ RxSame(q, r) /\ TxSame(q, r)
  /\ q.asserted = r.asserted /\ q.retune = r.retune
  /\ r.sending # "yes" => q.sending = r.sending

LEMMA OnlyRadioTrans ==
  ASSUME NEW r, NEW q, NEW s, OnlyRadio(q, r), OnlyRadio(s, q)
  PROVE  OnlyRadio(s, r)
BY DEF OnlyRadio, RxSame, TxSame

LEMMA FlushFacts ==
  ASSUME NEW r, RadioOK(r)
  PROVE  OnlyRadio(Flush(r), r) /\ Flush(r).on = r.on
           /\ Flush(r).sending = r.sending
<1> DEFINE q == Flush(r)
<1>1. r \in Regs
  BY DEF RadioOK
<1>2. <<>> \in Seq(Sections) /\ Len(<<>>) = 0
  OBVIOUS
<1>3. q \in Regs
  <2> DEFINE a == IF r.air # <<>> /\ r.ack = "armed" THEN "none" ELSE r.ack
  <2>1. a \in {"none", "armed", "done"}
    BY <1>1 DEF Regs
  <2>2. q = [r EXCEPT !.fifo = <<>>, !.overflow = FALSE, !.air = <<>>,
                      !.ack = a]
    BY DEF Flush
  <2> HIDE DEF a, q
  <2> QED
    BY ZenonT(90), <1>1, <1>2, <2>1, <2>2 DEF Regs
<1>4. /\ q.fifo = <<>> /\ q.overflow = FALSE /\ q.air = <<>> /\ q.on = r.on
      /\ q.sending = r.sending /\ q.ack \in {r.ack, "none"}
      /\ q.asserted = r.asserted /\ q.retune = r.retune
  BY <1>1 DEF Flush, Regs
<1>5. RxSame(q, r) /\ TxSame(q, r)
  BY <1>1 DEF Flush, Regs, RxSame, TxSame
<1> HIDE DEF q
<1>6. RadioOK(q)
  BY <1>2, <1>3, <1>4, RadioAssumption DEF RadioOK, RadioAssumption
<1> QED
  BY <1>4, <1>5, <1>6 DEF OnlyRadio, q

LEMMA RxTxOffFacts ==
  ASSUME NEW r, RadioOK(r)
  PROVE  OnlyRadio(RxTxOff(r), r) /\ ~RxTxOff(r).on
           /\ RxTxOff(r).sending # "yes"
<1> DEFINE p == Flush(r)
           q == RxTxOff(r)
<1>1. OnlyRadio(p, r) /\ p.sending = r.sending /\ p \in Regs
  BY FlushFacts DEF OnlyRadio, RadioOK
<1>2. p.fifo = <<>> /\ p.overflow = FALSE /\ p.air = <<>>
  BY DEF Flush, RadioOK, Regs
<1>3. q = [p EXCEPT !.on = FALSE,
                    !.sending = IF @ = "yes" THEN "no" ELSE @,
                    !.ack = IF @ = "armed" THEN "none" ELSE @]
  BY DEF RxTxOff
<1> HIDE DEF p, q
<1>4. q \in Regs
  <2> DEFINE s == IF p.sending = "yes" THEN "no" ELSE p.sending
             a == IF p.ack = "armed" THEN "none" ELSE p.ack
  <2>1. s \in {"no", "yes", "done"} /\ a \in {"none", "armed", "done"}
    BY <1>1 DEF Regs
  <2>2. q = [p EXCEPT !.on = FALSE, !.sending = s, !.ack = a]
    BY <1>3
  <2>3. p \in Regs
    BY <1>1
  <2> HIDE DEF s, a
  <2> QED
    BY ZenonT(90), <2>1, <2>2, <2>3 DEF Regs
<1>5. /\ q.fifo = p.fifo /\ q.overflow = p.overflow /\ q.air = p.air
      /\ q.on = FALSE /\ q.ack # "armed"
      /\ q.sending = IF p.sending = "yes" THEN "no" ELSE p.sending
      /\ q.asserted = p.asserted /\ q.retune = p.retune
  BY <1>1, <1>3 DEF Regs
<1>6. RxSame(q, p) /\ TxSame(q, p)
  BY <1>1, <1>3 DEF Regs, RxSame, TxSame
<1>7. RadioOK(q)
  BY <1>1, <1>2, <1>4, <1>5, RadioAssumption
  DEF RadioOK, RadioAssumption
<1>8. OnlyRadio(q, p)
  BY <1>5, <1>6, <1>7 DEF OnlyRadio
<1>9. OnlyRadio(q, r)
  BY <1>1, <1>8, OnlyRadioTrans
<1> QED
  BY <1>5, <1>9 DEF q

LEMMA OffFacts ==
  ASSUME NEW r, RadioOK(r)
  PROVE  OnlyRadio(macRxOff(r), r) /\ ~macRxOff(r).on
<1>1. OnlyRadio(r, r)
  BY DEF OnlyRadio, RxSame, TxSame
<1> QED
  BY <1>1, RxTxOffFacts DEF macRxOff

LEMMA OnFacts ==
  ASSUME NEW r, RadioOK(r)
  PROVE  OnlyRadio(macRxOn(r), r) /\ macRxOn(r).sending = r.sending
<1> DEFINE q == macRxOn(r)
<1>1. r \in Regs
  BY DEF RadioOK
<1>2. q \in Regs /\ q.on = TRUE /\ q.fifo = r.fifo /\ q.air = r.air
        /\ q.sending = r.sending
        /\ q.asserted = r.asserted /\ q.retune = r.retune
  BY <1>1 DEF macRxOn, Regs
<1>3. RxSame(q, r) /\ TxSame(q, r)
  BY <1>1 DEF macRxOn, Regs, RxSame, TxSame
<1> HIDE DEF q
<1> QED
  BY <1>2, <1>3 DEF RadioOK, OnlyRadio, q

LEMMA OffRequestFacts ==
  ASSUME NEW r, RadioOK(r)
  PROVE  /\ OnlyRadio(macRxOffRequest(r), r)
         /\ macRxOffRequest(r).on => r.on
         /\ r.tx = "GO" => macRxOffRequest(r).sending = r.sending
<1>1. OnlyRadio(r, r)
  BY DEF OnlyRadio, RxSame, TxSame
<1> QED
  BY <1>1, OffFacts DEF macRxOffRequest, TxPhysicallyActive, macRxOff

LEMMA OnRequestFacts ==
  ASSUME NEW r, RadioOK(r)
  PROVE  /\ OnlyRadio(macRxOnRequest(r), r)
         /\ r.enable = {} => macRxOnRequest(r).on = r.on
         /\ macRxOnRequest(r).sending = r.sending
<1>1. OnlyRadio(r, r)
  BY DEF OnlyRadio, RxSame, TxSame
<1> QED
  BY <1>1, OnFacts DEF macRxOnRequest

-----------------------------------------------------------------------------
(* Transmit *)

\* A transmission the radio is in the middle of is one in "GO".
Calm(r) == r.sending = "yes" => r.tx = "GO"

\* The backoff of a transmit begins, whatever else the radio does.
Delayed(q, r) ==
  /\ RadioOK(q) /\ RxSame(q, r)
  /\ q.tx = r.tx /\ q.nb = r.nb /\ q.owed = r.owed /\ q.cut = r.cut
  /\ q.asserted = r.asserted /\ q.retune = r.retune
  /\ q.sending = r.sending
  /\ q.timer \in {"RxOn", "Cca"}

LEMMA StartBackoffFacts ==
  ASSUME NEW r, RadioOK(r), NEW short \in BOOLEAN
  PROVE  Delayed(StartBackoff(r, short), r)
<1> DEFINE p == macRxOn(r)
           q == StartBackoff(r, short)
<1>1. OnlyRadio(r, r) /\ r.sending = r.sending
  BY DEF OnlyRadio, RxSame, TxSame
<1>2. OnlyRadio(p, r) /\ p.sending = r.sending
  BY OnFacts
<1>3. PICK s \in {p, r}, t \in {"RxOn", "Cca"} : q = [s EXCEPT !.timer = t]
  BY DEF StartBackoff
<1> HIDE DEF p, q
<1>4. RadioOK(s) /\ RxSame(s, r) /\ TxSame(s, r) /\ s.sending = r.sending
        /\ s.asserted = r.asserted /\ s.retune = r.retune /\ s \in Regs
  BY <1>1, <1>2, <1>3 DEF OnlyRadio, RadioOK
<1>5. q \in Regs
  BY <1>3, <1>4 DEF Regs
<1>6. /\ q.fifo = s.fifo /\ q.overflow = s.overflow /\ q.air = s.air
      /\ q.on = s.on /\ q.ack = s.ack /\ q.sending = s.sending
      /\ q.asserted = s.asserted /\ q.retune = s.retune /\ q.timer = t
      /\ q.tx = s.tx /\ q.nb = s.nb /\ q.owed = s.owed /\ q.cut = s.cut
  BY <1>3, <1>4 DEF Regs
<1>7. RxSame(q, s)
  BY <1>3, <1>4 DEF Regs, RxSame
<1>8. RadioOK(q)
  BY <1>4, <1>5, <1>6 DEF RadioOK
<1> QED
  BY <1>4, <1>6, <1>7, <1>8 DEF Delayed, RxSame, TxSame, q

LEMMA SavePowerFacts ==
  ASSUME NEW r, RadioOK(r)
  PROVE  OnlyRadio(SavePower(r), r)
<1>1. OnlyRadio(r, r)
  BY DEF OnlyRadio, RxSame, TxSame
<1> QED
  BY <1>1, OffFacts DEF SavePower

LEMMA GoCsmaFacts ==
  ASSUME NEW r, RadioOK(r), r.sending # "yes", NEW short \in BOOLEAN
  PROVE  Delayed(macDualchipTxGoCsma(r, short), r)
<1> DEFINE s == SavePower(r)
<1>1. OnlyRadio(s, r) /\ RadioOK(s)
  BY SavePowerFacts DEF OnlyRadio
<1> HIDE DEF s
<1>2. Delayed(StartBackoff(s, short), s)
  BY <1>1, StartBackoffFacts
<1> QED
  BY <1>1, <1>2 DEF macDualchipTxGoCsma, Delayed, OnlyRadio, RxSame, TxSame, s

\* What the transmitter's invariant depends on.
LEMMA TxOKSame ==
  ASSUME NEW r, NEW q, NEW p, TxOK(r, p), TxSame(q, r), q.sending = r.sending
  PROVE  TxOK(q, p)
BY DEF TxOK, TxSame

LEMMA TxOKCalm ==
  ASSUME NEW r, NEW p, TxOK(r, p)
  PROVE  Calm(r)
BY DEF TxOK, Calm

\* The receiver is free again: without a queued frame the transmitter stays as
\* it is, and a queued frame is started.
Freed(q, r) ==
  /\ RadioOK(q) /\ q.asserted /\ q.retune = r.retune
  /\ q.nb = r.nb /\ q.tx # "QUEUED"
  /\ r.tx # "QUEUED" => /\ TxSame(q, r) /\ q.sending = r.sending
                        /\ q.on => r.on
  /\ r.tx = "QUEUED" =>
       /\ q.tx = "GO" /\ q.timer \in {"RxOn", "Cca"}
       /\ q.sending = r.sending /\ q.owed = r.owed /\ q.cut = r.cut

LEMMA FreedTxOK ==
  ASSUME NEW r, NEW q, NEW p, TxOK(r, p), Freed(q, r)
  PROVE  TxOK(q, p)
<1>1. CASE r.tx = "QUEUED"
  BY <1>1 DEF TxOK, Freed, Starting
<1>2. CASE r.tx # "QUEUED"
  BY <1>2, TxOKSame DEF Freed
<1> QED
  BY <1>1, <1>2

LEMMA AssertFacts ==
  ASSUME NEW r, RadioOK(r), NEW c \in BOOLEAN, r.asserted, c
  PROVE  OnlyRadio(Assert(r, c), r) /\ Assert(r, c).sending = r.sending
           /\ Assert(r, c).on = r.on
<1> DEFINE q == Assert(r, c)
<1>1. r \in Regs
  BY DEF RadioOK
<1>2. q = [r EXCEPT !.asserted = TRUE]
  BY DEF Assert
<1> HIDE DEF q
<1>3. q \in Regs
  BY <1>1, <1>2 DEF Regs
<1>4. /\ q.fifo = r.fifo /\ q.overflow = r.overflow /\ q.air = r.air
      /\ q.on = r.on /\ q.ack = r.ack /\ q.sending = r.sending
      /\ q.asserted = TRUE /\ q.retune = r.retune
  BY <1>1, <1>2 DEF Regs
<1>5. RxSame(q, r) /\ TxSame(q, r)
  BY <1>1, <1>2 DEF Regs, RxSame, TxSame
<1>6. RadioOK(q)
  BY <1>3, <1>4 DEF RadioOK
<1>7. r.asserted = TRUE
  BY <1>1 DEF Regs
<1> QED
  BY <1>4, <1>5, <1>6, <1>7 DEF OnlyRadio, q

LEMMA StartQueuedFacts ==
  ASSUME NEW r, RadioOK(r), r.rxActive = "NO", ~r.outAck, r.asserted,
         r.tx = "QUEUED" => r.sending # "yes", NEW short \in BOOLEAN
  PROVE  /\ Freed(macTxStartQueuedFrame(r, short), r)
         /\ RxSame(macTxStartQueuedFrame(r, short), r)
<1> DEFINE s == Assert(r, r.rxActive = "NO" /\ ~r.outAck)
           g == [s EXCEPT !.tx = "GO"]
           h == [g EXCEPT !.outAck = FALSE]
           q == macTxStartQueuedFrame(r, short)
<1>1. OnlyRadio(s, r) /\ s.sending = r.sending /\ s.on = r.on
  BY AssertFacts
<1>2. s.tx = r.tx /\ RadioOK(s) /\ s \in Regs /\ s.asserted /\ s.outAck = FALSE
        /\ r.outAck = FALSE
  BY <1>1 DEF OnlyRadio, TxSame, RxSame, RadioOK, Regs
<1>3. CASE r.tx # "QUEUED"
  <2>1. q = s
    BY <1>2, <1>3 DEF macTxStartQueuedFrame
  <2> HIDE DEF s, q
  <2>2. Freed(s, r) /\ RxSame(s, r)
    BY <1>1, <1>2, <1>3 DEF Freed, OnlyRadio, TxSame
  <2> QED
    BY <2>1, <2>2 DEF q
<1>4. CASE r.tx = "QUEUED"
  <2>1. q = macDualchipTxGoCsma(h, short)
    BY <1>2, <1>4 DEF macTxStartQueuedFrame, txGo
  <2> HIDE DEF s, q
  <2>2. /\ h \in Regs /\ h.tx = "GO" /\ h.outAck = s.outAck
        /\ h.fifo = s.fifo /\ h.overflow = s.overflow /\ h.air = s.air
        /\ h.on = s.on /\ h.ack = s.ack /\ h.sending = s.sending
        /\ h.asserted = s.asserted /\ h.retune = s.retune
        /\ h.nb = s.nb /\ h.owed = s.owed /\ h.cut = s.cut
    BY <1>2 DEF Regs
  <2>3. RxSame(h, s)
    BY <1>2 DEF Regs, RxSame
  <2> HIDE DEF g, h
  <2>4. RadioOK(h)
    BY <1>2, <2>2 DEF RadioOK
  <2>5. Delayed(q, h)
    BY <1>1, <1>4, <2>1, <2>2, <2>4, GoCsmaFacts
  <2>6. Freed(q, r)
    BY <1>1, <1>2, <1>4, <2>2, <2>5 DEF Freed, Delayed, OnlyRadio, TxSame
  <2>7. RxSame(q, r)
    BY <1>1, <2>3, <2>5 DEF Delayed, OnlyRadio, RxSame
  <2> QED
    BY <2>6, <2>7 DEF q
<1> QED
  BY <1>3, <1>4

LEMMA PostRxFacts ==
  ASSUME NEW r, RadioOK(r), r.rxActive = "NO", ~r.outAck, r.asserted,
         Calm(r), NEW short \in BOOLEAN
  PROVE  /\ Freed(rxPostRxUpdates(r, short), r)
         /\ RxSame(rxPostRxUpdates(r, short), r)
<1> DEFINE s == macRxOffRequest(r)
           q == rxPostRxUpdates(r, short)
<1>1. /\ OnlyRadio(s, r) /\ (s.on => r.on)
      /\ r.tx = "GO" => s.sending = r.sending
  BY OffRequestFacts
<1>2. s.sending = r.sending /\ (r.tx = "QUEUED" => s.sending # "yes")
  BY <1>1 DEF Calm, OnlyRadio
<1>3. q = macTxStartQueuedFrame(s, short)
  BY DEF rxPostRxUpdates
<1> HIDE DEF s, q
<1>4. /\ RadioOK(s) /\ s.rxActive = "NO" /\ ~s.outAck /\ s.asserted
      /\ s.tx = r.tx
  BY <1>1 DEF OnlyRadio, RxSame, TxSame
<1>5. Freed(q, s) /\ RxSame(q, s)
  BY <1>2, <1>3, <1>4, StartQueuedFacts
<1>6. RxSame(s, r) /\ TxSame(s, r) /\ s.retune = r.retune
  BY <1>1 DEF OnlyRadio
<1>7. RxSame(q, r)
  BY <1>5, <1>6 DEF RxSame
<1>8. Freed(q, r)
  BY <1>1, <1>2, <1>5, <1>6 DEF Freed, TxSame
<1> QED
  BY <1>7, <1>8 DEF q


-----------------------------------------------------------------------------
(* Resets and the end of a transmit *)

\* The receiver starts over.
RxReset(q, r) ==
  /\ q.rxActive = "NO" /\ ~q.outAck /\ q.rxState = "start" /\ q.left = 0
  /\ ~q.buf /\ q.isr = r.isr /\ q.reset = r.reset
  /\ q.enable = r.enable /\ q.awake = r.awake

\* Nothing happens to the receiver but that a reset is left to the end of the
\* routine that runs.
RxDeferred(q, r) ==
  /\ q.rxActive = r.rxActive /\ q.outAck = r.outAck
  /\ q.rxState = r.rxState /\ q.left = r.left /\ q.buf = r.buf
  /\ q.isr = r.isr /\ q.enable = r.enable /\ q.awake = r.awake

\* The receiver after a call that may reset it.
RxAfter(q, r) ==
  IF r.isr THEN RxDeferred(q, r) ELSE RxSame(q, r) \/ RxReset(q, r)

LEMMA RxAfterOK ==
  ASSUME NEW r, NEW q, RxOK(r), RxAfter(q, r)
  PROVE  /\ RxOK(q) /\ q.isr = r.isr /\ q.enable = r.enable
         /\ q.awake = r.awake /\ (~r.isr => q.reset = r.reset)
         /\ r.rxActive = "NO" /\ ~r.outAck => q.rxActive = "NO" /\ ~q.outAck
<1>1. CASE r.isr
  BY <1>1 DEF RxAfter, RxDeferred, RxOK
<1>2. CASE ~r.isr /\ RxSame(q, r)
  BY <1>2 DEF RxSame, RxOK
<1>3. CASE ~r.isr /\ RxReset(q, r)
  BY <1>3 DEF RxReset, RxOK
<1> QED
  BY <1>1, <1>2, <1>3 DEF RxAfter

LEMMA FinalStepFacts ==
  ASSUME NEW r, RadioOK(r), r.asserted, Behind(r), Calm(r),
         NEW short \in BOOLEAN
  PROVE  /\ Freed(rxHaltCleanupFinalStep(r, short), r)
         /\ RxReset(rxHaltCleanupFinalStep(r, short), r)
<1> DEFINE f == Flush(r)
           s == [f EXCEPT !.buf = FALSE, !.rxState = "start", !.left = 0,
                          !.rxActive = "NO", !.outAck = FALSE]
           q == rxHaltCleanupFinalStep(r, short)
<1>1. OnlyRadio(f, r) /\ f.on = r.on /\ f.sending = r.sending
  BY FlushFacts
<1>2. q = IF r.rxActive # "NO" \/ r.outAck THEN rxPostRxUpdates(s, short)
                                           ELSE s
  BY DEF rxHaltCleanupFinalStep
<1> HIDE DEF f, q
<1>3. f \in Regs /\ RadioOK(f)
  BY <1>1 DEF OnlyRadio, RadioOK
<1>4. s \in Regs
  <2> DEFINE z == 0
  <2>1. z \in Int
    OBVIOUS
  <2>2. s = [f EXCEPT !.buf = FALSE, !.rxState = "start", !.left = z,
                      !.rxActive = "NO", !.outAck = FALSE]
    OBVIOUS
  <2> HIDE DEF s, z
  <2> QED
    BY <1>3, <2>1, <2>2 DEF Regs
<1>5. /\ s.fifo = f.fifo /\ s.overflow = f.overflow /\ s.air = f.air
      /\ s.on = f.on /\ s.ack = f.ack /\ s.sending = f.sending
      /\ s.asserted = f.asserted /\ s.retune = f.retune
  BY <1>3 DEF Regs
<1>6. RxReset(s, f) /\ TxSame(s, f)
  BY <1>3 DEF Regs, RxReset, TxSame
<1> HIDE DEF s
<1>7. RadioOK(s)
  BY <1>3, <1>4, <1>5 DEF RadioOK
<1>8. TxSame(s, r) /\ s.sending = r.sending /\ s.on = r.on
        /\ s.asserted /\ s.retune = r.retune
  BY <1>1, <1>5, <1>6 DEF OnlyRadio, TxSame
<1>9. RxReset(s, r)
  BY <1>1, <1>6 DEF OnlyRadio, RxSame, RxReset
<1>10. CASE r.rxActive # "NO" \/ r.outAck
  <2>1. Calm(s)
    BY <1>8 DEF Calm, TxSame
  <2>2. Freed(q, s) /\ RxSame(q, s)
    BY <1>2, <1>7, <1>8, <1>9, <1>10, <2>1, PostRxFacts DEF RxReset
  <2>3. Freed(q, r)
    BY <1>8, <2>2 DEF Freed, TxSame
  <2>4. RxReset(q, r)
    BY <1>9, <2>2 DEF RxReset, RxSame
  <2> QED
    BY <2>3, <2>4 DEF q
<1>11. CASE ~(r.rxActive # "NO" \/ r.outAck)
  <2>1. r.tx # "QUEUED" /\ q = s
    BY <1>2, <1>11 DEF Behind
  <2>2. Freed(s, r)
    BY <1>7, <1>8, <2>1 DEF Freed, TxSame
  <2> QED
    BY <1>9, <2>1, <2>2 DEF q
<1> QED
  BY <1>10, <1>11

LEMMA HaltFacts ==
  ASSUME NEW r, RadioOK(r), r.asserted, Behind(r), Calm(r),
         NEW short \in BOOLEAN
  PROVE  LET q == macRxHaltCleanup(r, short)
         IN IF r.isr
              THEN /\ RadioOK(q) /\ RxDeferred(q, r) /\ TxSame(q, r)
                   /\ q.asserted /\ q.sending = r.sending /\ q.on = r.on
                   /\ q.retune = r.retune
              ELSE Freed(q, r) /\ RxReset(q, r)
<1>1. CASE r.isr
  <2> DEFINE q == [r EXCEPT !.reset = TRUE]
  <2>1. macRxHaltCleanup(r, short) = q
    BY <1>1 DEF macRxHaltCleanup
  <2>2. r \in Regs
    BY DEF RadioOK
  <2>3. q \in Regs
    BY <2>2 DEF Regs
  <2>4. /\ q.fifo = r.fifo /\ q.overflow = r.overflow /\ q.air = r.air
        /\ q.on = r.on /\ q.ack = r.ack /\ q.sending = r.sending
        /\ q.asserted = r.asserted /\ q.retune = r.retune
    BY <2>2 DEF Regs
  <2>5. RxDeferred(q, r) /\ TxSame(q, r)
    BY <2>2 DEF Regs, RxDeferred, TxSame
  <2> HIDE DEF q
  <2>6. RadioOK(q)
    BY <2>3, <2>4 DEF RadioOK
  <2> QED
    BY <1>1, <2>1, <2>4, <2>5, <2>6
<1>2. CASE ~r.isr
  BY <1>2, FinalStepFacts DEF macRxHaltCleanup
<1> QED
  BY <1>1, <1>2

\* With no transmit under way the low level may reset the receiver, but leaves
\* the transmitter alone.
Quiet(q, r) ==
  /\ RadioOK(q) /\ TxSame(q, r) /\ q.sending = r.sending
  /\ q.asserted /\ RxAfter(q, r)
  /\ r.enable = {} /\ ~r.on => ~q.on

LEMMA UpdateChannelFacts ==
  ASSUME NEW r, RadioOK(r), r.asserted, r.tx = "NO", r.sending # "yes",
         NEW short \in BOOLEAN
  PROVE  Quiet(macRadioUpdateChannel(r, short), r)
<1> DEFINE a == Assert(r, r.tx = "NO")
           s == [a EXCEPT !.retune = FALSE]
           o == macRxOff(s)
           h == macRxHaltCleanup(o, short)
           q == macRadioUpdateChannel(r, short)
<1>1. OnlyRadio(a, r) /\ a.sending = r.sending /\ a.on = r.on
  BY AssertFacts
<1>2. q = IF a.retune THEN macRxOnRequest(h) ELSE a
  BY DEF macRadioUpdateChannel
<1> HIDE DEF a, q
<1>3. RadioOK(a) /\ RxSame(a, r) /\ TxSame(a, r) /\ a.asserted /\ a \in Regs
  BY <1>1 DEF OnlyRadio, RadioOK
<1>4. CASE ~a.retune
  <2>1. RxAfter(a, r)
    BY <1>3 DEF RxAfter, RxSame, RxDeferred
  <2> QED
    BY <1>1, <1>2, <1>3, <1>4, <2>1 DEF Quiet, q
<1>5. CASE a.retune
  <2>1. s \in Regs
    BY <1>3 DEF Regs
  <2>2. /\ s.fifo = a.fifo /\ s.overflow = a.overflow /\ s.air = a.air
        /\ s.on = a.on /\ s.ack = a.ack /\ s.sending = a.sending
        /\ s.asserted = a.asserted
    BY <1>3 DEF Regs
  <2>3. RxSame(s, a) /\ TxSame(s, a)
    BY <1>3 DEF Regs, RxSame, TxSame
  <2> HIDE DEF s
  <2>4. RadioOK(s)
    BY <1>3, <2>1, <2>2 DEF RadioOK
  <2>5. OnlyRadio(o, s) /\ ~o.on
    BY <2>4, OffFacts
  <2> HIDE DEF o
  <2>6. RxSame(o, r)
    BY <1>3, <2>3, <2>5 DEF OnlyRadio, RxSame
  <2>7. TxSame(o, r) /\ RadioOK(o) /\ o.asserted /\ o.sending = r.sending
    BY <1>1, <1>3, <2>2, <2>3, <2>5 DEF OnlyRadio, TxSame
  <2>8. o.tx = "NO" /\ Behind(o) /\ Calm(o) /\ o.sending # "yes"
    BY <2>7 DEF TxSame, Behind, Calm
  <2>9. /\ RadioOK(h) /\ TxSame(h, o) /\ h.asserted /\ h.sending = o.sending
        /\ (h.on => o.on)
        /\ IF o.isr THEN RxDeferred(h, o) ELSE RxReset(h, o)
    BY <2>7, <2>8, HaltFacts DEF Freed
  <2> HIDE DEF h
  <2>10. /\ OnlyRadio(q, h) /\ (h.enable = {} => q.on = h.on)
         /\ q.sending = h.sending
    BY <1>2, <1>5, <2>9, OnRequestFacts
  <2>11. h.enable = r.enable
    BY <2>6, <2>9 DEF RxSame, RxDeferred, RxReset
  <2>12. RxSame(q, h) /\ TxSame(q, h) /\ RadioOK(q) /\ q.asserted
    BY <2>9, <2>10 DEF OnlyRadio
  <2>13. RxAfter(q, r)
    <3>1. CASE r.isr
      BY <2>6, <2>9, <2>12, <3>1 DEF RxAfter, RxSame, RxDeferred
    <3>2. CASE ~r.isr
      BY <2>6, <2>9, <2>12, <3>2 DEF RxAfter, RxSame, RxReset
    <3> QED
      BY <3>1, <3>2
  <2>14. TxSame(q, r) /\ q.sending = r.sending
    BY <2>7, <2>9, <2>10, <2>12 DEF TxSame
  <2>15. r.enable = {} => ~q.on
    BY <2>5, <2>9, <2>10, <2>11
  <2> QED
    BY <2>12, <2>13, <2>14, <2>15 DEF Quiet, q
<1> QED
  BY <1>4, <1>5

\* A transmit is reported; the receiver may be reset for the channel.
Completed(q, r) ==
  /\ RadioOK(q) /\ q.tx = "NO" /\ q.nb = 0 /\ q.timer = r.timer
  /\ q.sending = r.sending /\ q.owed = r.owed - 1 /\ q.cut = r.cut
  /\ q.asserted /\ RxAfter(q, r)
  /\ r.enable = {} /\ ~r.on => ~q.on

LEMMA CompleteFacts ==
  ASSUME NEW r, RadioOK(r), r.asserted, r.sending # "yes",
         NEW short \in BOOLEAN
  PROVE  Completed(txComplete(r, short), r)
<1> DEFINE s == [r EXCEPT !.tx = "NO", !.nb = 0, !.ackReq = FALSE]
           o == macRxOffRequest(s)
           u == macRadioUpdateChannel(o, short)
           q == [u EXCEPT !.owed = @ - 1]
<1>1. txComplete(r, short) = q
  BY DEF txComplete
<1>2. r \in Regs
  BY DEF RadioOK
<1>3. s \in Regs
  <2> DEFINE z == 0
  <2>1. z \in Int
    OBVIOUS
  <2>2. s = [r EXCEPT !.tx = "NO", !.nb = z, !.ackReq = FALSE]
    OBVIOUS
  <2> HIDE DEF s, z
  <2> QED
    BY <1>2, <2>1, <2>2 DEF Regs
<1>4. /\ s.fifo = r.fifo /\ s.overflow = r.overflow /\ s.air = r.air
      /\ s.on = r.on /\ s.ack = r.ack /\ s.sending = r.sending
      /\ s.asserted = r.asserted
      /\ s.tx = "NO" /\ s.nb = 0 /\ s.timer = r.timer /\ s.owed = r.owed
      /\ s.cut = r.cut
  BY <1>2 DEF Regs
<1>5. RxSame(s, r)
  BY <1>2 DEF Regs, RxSame
<1> HIDE DEF s
<1>6. RadioOK(s)
  BY <1>3, <1>4 DEF RadioOK
<1>7. OnlyRadio(o, s) /\ (o.on => s.on)
  BY <1>6, OffRequestFacts
<1> HIDE DEF o
<1>8. /\ RadioOK(o) /\ o.asserted /\ o.sending = r.sending
      /\ o.tx = "NO" /\ o.nb = 0 /\ o.timer = r.timer /\ o.owed = r.owed
      /\ o.cut = r.cut
  BY <1>4, <1>7 DEF OnlyRadio, TxSame
<1>9. RxSame(o, r) /\ (o.on => r.on)
  BY <1>4, <1>5, <1>7 DEF OnlyRadio, RxSame
<1>10. Quiet(u, o)
  BY <1>8, UpdateChannelFacts
<1> HIDE DEF u
<1>11. /\ RadioOK(u) /\ u.asserted /\ u.sending = r.sending /\ u \in Regs
       /\ u.tx = "NO" /\ u.nb = 0 /\ u.timer = r.timer /\ u.owed = r.owed
       /\ u.cut = r.cut
  BY <1>8, <1>10 DEF Quiet, TxSame, RadioOK
<1>12. RxAfter(u, r) /\ (r.enable = {} /\ ~r.on => ~u.on)
  <2>1. RxAfter(u, o) /\ o.enable = r.enable /\ o.isr = r.isr
    BY <1>9, <1>10 DEF Quiet, RxSame
  <2>2. RxAfter(u, r)
    BY <1>9, <2>1 DEF RxAfter, RxSame, RxDeferred, RxReset
  <2> QED
    BY <1>9, <1>10, <2>1, <2>2 DEF Quiet
<1>13. q \in Regs
  BY <1>11 DEF Regs
<1>14. /\ q.fifo = u.fifo /\ q.overflow = u.overflow /\ q.air = u.air
       /\ q.on = u.on /\ q.ack = u.ack /\ q.sending = u.sending
       /\ q.asserted = u.asserted /\ q.owed = u.owed - 1
       /\ q.tx = u.tx /\ q.nb = u.nb /\ q.timer = u.timer /\ q.cut = u.cut
  BY <1>11 DEF Regs
<1>15. RxSame(q, u)
  BY <1>11 DEF Regs, RxSame
<1> HIDE DEF q
<1>16. RadioOK(q)
  BY <1>11, <1>13, <1>14 DEF RadioOK
<1>17. RxAfter(q, r)
  BY <1>12, <1>15 DEF RxAfter, RxSame, RxDeferred, RxReset
<1> QED
  BY <1>1, <1>11, <1>12, <1>14, <1>16, <1>17 DEF Completed, q

-----------------------------------------------------------------------------
(* The service routines: what one of them starts from and what it leaves. *)

Sound(r, p) ==
  /\ RadioOK(r) /\ TxOK(r, p) /\ r.asserted
  /\ r.nb \in 0 .. MaxBackoffs

\* The end of a receive routine, before a reset left to it.
Ended(r, p) == Sound(r, p) /\ RxOK(r) /\ Behind(r)

RadioSame(q, r) ==
  /\ q.fifo = r.fifo /\ q.overflow = r.overflow /\ q.air = r.air
  /\ q.on = r.on /\ q.ack = r.ack /\ q.sending = r.sending
  /\ q.asserted = r.asserted /\ q.retune = r.retune

LEMMA EditSound ==
  ASSUME NEW r, NEW p, Sound(r, p), NEW q, q \in Regs, RadioSame(q, r),
         TxSame(q, r)
  PROVE  Sound(q, p)
<1>1. RadioOK(q)
  BY DEF Sound, RadioOK, RadioSame
<1>2. TxOK(q, p)
  BY TxOKSame DEF Sound, RadioSame
<1> QED
  BY <1>1, <1>2 DEF Sound, RadioSame, TxSame

LEMMA OnlyRadioSound ==
  ASSUME NEW r, NEW p, Sound(r, p), NEW q, OnlyRadio(q, r),
         q.sending = r.sending
  PROVE  Sound(q, p)
<1>1. TxOK(q, p)
  BY TxOKSame DEF Sound, OnlyRadio
<1> QED
  BY <1>1 DEF Sound, OnlyRadio, TxSame

LEMMA FreedSound ==
  ASSUME NEW r, NEW p, Sound(r, p), NEW q, Freed(q, r)
  PROVE  Sound(q, p) /\ Behind(q)
<1>1. TxOK(q, p)
  BY FreedTxOK DEF Sound
<1> QED
  BY <1>1 DEF Sound, Freed, Behind

LEMMA PopFacts ==
  ASSUME NEW r, RadioOK(r)
  PROVE  OnlyRadio(Pop(r), r) /\ Pop(r).sending = r.sending
<1> DEFINE f == IF r.fifo = <<>> THEN r.fifo ELSE Tail(r.fifo)
           q == Pop(r)
<1>1. r \in Regs /\ r.fifo \in Seq(Sections)
  BY DEF RadioOK, Regs
<1>2. /\ f \in Seq(Sections) /\ Len(f) <= Len(r.fifo) /\ Len(f) \in Nat
      /\ Len(r.fifo) \in Nat
      /\ r.fifo = <<>> => f = <<>>
  BY <1>1
<1>3. q = [r EXCEPT !.fifo = f]
  BY DEF Pop
<1> HIDE DEF f, q
<1>4. q \in Regs
  BY <1>1, <1>2, <1>3 DEF Regs
<1>5. /\ q.fifo = f /\ q.overflow = r.overflow /\ q.air = r.air
      /\ q.on = r.on /\ q.ack = r.ack /\ q.sending = r.sending
      /\ q.asserted = r.asserted /\ q.retune = r.retune
  BY <1>1, <1>3 DEF Regs
<1>6. RxSame(q, r) /\ TxSame(q, r)
  BY <1>1, <1>3 DEF Regs, RxSame, TxSame
<1>7. Len(q.fifo) <= MaxFifo
  BY <1>2, <1>5, RadioAssumption DEF RadioOK, RadioAssumption
<1>8. RadioOK(q)
  BY <1>2, <1>4, <1>5, <1>7 DEF RadioOK
<1> QED
  BY <1>5, <1>6, <1>8 DEF OnlyRadio, q

\* The wait for an acknowledgement is over.  The timer's own callback finds the
\* timer stopped already.
LEMMA ListenOverFacts ==
  ASSUME NEW r, NEW p, RadioOK(r), r.asserted, r.nb \in 0 .. MaxBackoffs,
         r.tx # "LISTEN" => TxOK(r, p),
         r.tx = "LISTEN" => /\ r.sending = "no" /\ ~r.cut /\ r.owed = 1
                            /\ p \notin Starting \cup {"init", "loaded"},
         NEW short \in BOOLEAN
  PROVE  LET q == ListenOver(r, short)
         IN /\ Sound(q, p) /\ RxAfter(q, r)
            /\ r.tx # "LISTEN" => q = r
            /\ r.tx = "LISTEN" => q.tx = "NO"
            /\ r.enable = {} /\ ~r.on => ~q.on
<1>1. CASE r.tx # "LISTEN"
  <2>1. ListenOver(r, short) = r
    BY <1>1 DEF ListenOver
  <2>2. Sound(r, p) /\ RxAfter(r, r)
    BY <1>1 DEF Sound, RxAfter, RxSame, RxDeferred
  <2> QED
    BY <1>1, <2>1, <2>2
<1>2. CASE r.tx = "LISTEN"
  <2> DEFINE s == [r EXCEPT !.tx = "POST", !.timer = "none"]
             q == txComplete(s, short)
  <2>1. ListenOver(r, short) = q
    BY <1>2 DEF ListenOver
  <2>2. r \in Regs
    BY DEF RadioOK
  <2>3. s \in Regs
    BY <2>2 DEF Regs
  <2>4. /\ RadioSame(s, r) /\ s.timer = "none" /\ s.owed = r.owed
        /\ s.cut = r.cut
    BY <2>2 DEF Regs, RadioSame
  <2>5. RxSame(s, r)
    BY <2>2 DEF Regs, RxSame
  <2> HIDE DEF s
  <2>6. RadioOK(s)
    BY <2>3, <2>4 DEF RadioOK, RadioSame
  <2>7. Completed(q, s)
    BY <1>2, <2>4, <2>6, CompleteFacts DEF RadioSame
  <2> HIDE DEF q
  <2>8. /\ RadioOK(q) /\ q.tx = "NO" /\ q.nb = 0 /\ q.timer = "none"
        /\ q.sending = "no" /\ q.owed = 0 /\ ~q.cut /\ q.asserted
    BY <1>2, <2>4, <2>7 DEF Completed, RadioSame
  <2>9. TxOK(q, p)
    BY <1>2, <2>8 DEF TxOK, Starting
  <2>10. RxAfter(q, r)
    BY <2>5, <2>7 DEF Completed, RxAfter, RxSame, RxDeferred, RxReset
  <2>11. r.enable = {} /\ ~r.on => ~q.on
    BY <2>4, <2>5, <2>7 DEF Completed, RadioSame, RxSame
  <2>12. q.nb \in 0 .. MaxBackoffs
    BY <2>8, RadioAssumption DEF RadioAssumption
  <2> QED
    BY <1>2, <2>1, <2>8, <2>9, <2>10, <2>11, <2>12 DEF Sound
<1> QED
  BY <1>1, <1>2

\* A frame is over: what waited for it goes on, unless an acknowledgement has
\* still to be sent.
LEMMA DoneFacts ==
  ASSUME NEW r, NEW p, Sound(r, p), r.rxState = "start", ~r.buf,
         r.left \in 0 .. 2, NEW short \in BOOLEAN
  PROVE  /\ Ended(rxDone(r, short), p)
         /\ rxDone(r, short).isr = r.isr /\ rxDone(r, short).awake = r.awake
<1> DEFINE f == IF r.overflow THEN Flush(r) ELSE r
           s == [f EXCEPT !.rxActive = "NO"]
           q == rxDone(r, short)
<1>1. RadioOK(r)
  BY DEF Sound
<1>2. OnlyRadio(f, r) /\ f.sending = r.sending
  BY <1>1, FlushFacts DEF OnlyRadio, RxSame, TxSame
<1>3. q = IF s.outAck THEN s ELSE rxPostRxUpdates(s, short)
  BY DEF rxDone
<1> HIDE DEF f, q
<1>4. f \in Regs /\ Sound(f, p) /\ RxSame(f, r)
  BY <1>2, OnlyRadioSound DEF OnlyRadio, RadioOK
<1>5. s \in Regs
  BY <1>4 DEF Regs
<1>6. RadioSame(s, f) /\ TxSame(s, f)
  BY <1>4 DEF Regs, RadioSame, TxSame
<1>7. /\ s.rxActive = "NO" /\ s.outAck = f.outAck /\ s.rxState = f.rxState
      /\ s.buf = f.buf /\ s.left = f.left /\ s.isr = f.isr
      /\ s.awake = f.awake
  BY <1>4 DEF Regs
<1> HIDE DEF s
<1>8. Sound(s, p)
  BY <1>4, <1>5, <1>6, EditSound
<1>9. RxOK(s) /\ s.isr = r.isr /\ s.awake = r.awake
  BY <1>4, <1>7 DEF RxSame, RxOK
<1>10. CASE s.outAck
  BY <1>3, <1>8, <1>9, <1>10 DEF Ended, Behind, q
<1>11. CASE ~s.outAck
  <2>1. RadioOK(s) /\ s.asserted /\ Calm(s)
    BY <1>8, TxOKCalm DEF Sound
  <2>2. Freed(q, s) /\ RxSame(q, s)
    BY <1>3, <1>7, <1>11, <2>1, PostRxFacts
  <2>3. Sound(q, p) /\ Behind(q)
    BY <1>8, <2>2, FreedSound
  <2>4. RxOK(q) /\ q.isr = r.isr /\ q.awake = r.awake
    BY <1>9, <2>2 DEF RxSame, RxOK
  <2> QED
    BY <2>3, <2>4 DEF Ended, q
<1> QED
  BY <1>10, <1>11

\* A receive routine, r.isr, with the radio awake.
Running(q) == q.isr /\ q.awake

LEMMA StartFacts ==
  ASSUME NEW r, NEW p, Ended(r, p), Running(r), r.rxState = "start",
         NEW h \in Headers, NEW alloc \in BOOLEAN, NEW short \in BOOLEAN
  PROVE  /\ Ended(rxStartIsr(r, h, alloc, short), p)
         /\ Running(rxStartIsr(r, h, alloc, short))
<1> DEFINE a == Assert(r, r.rxActive = "NO")
           o == Pop(a)
           b == [o EXCEPT !.rxActive = "STARTED", !.outAck = FALSE]
           e == ListenOver(b, short)
           q == rxStartIsr(r, h, alloc, short)
<1>1. RadioOK(r) /\ RxOK(r) /\ r.asserted /\ Sound(r, p)
  BY DEF Ended, Sound
<1>2. OnlyRadio(a, r) /\ a.sending = r.sending
  BY <1>1, AssertFacts DEF RxOK
<1>3. q = CASE h.kind = "bad" -> rxDone(Flush(b), short)
            [] h.kind = "ack" -> rxDone(e, short)
            [] h.kind = "data" /\ ~alloc -> rxDiscardFrame(e)
            [] h.kind = "data" /\ alloc ->
                 [e EXCEPT !.buf = TRUE, !.rxState = "body",
                           !.outAck = h.ackReq,
                           !.ack = IF h.ackReq /\ h.crc /\ Receiving(e)
                                     THEN "armed" ELSE @]
  BY DEF rxStartIsr
<1> HIDE DEF a, q
<1>4. OnlyRadio(o, a) /\ o.sending = a.sending
  BY <1>2, PopFacts DEF OnlyRadio
<1> HIDE DEF o
<1>5. OnlyRadio(o, r) /\ o.sending = r.sending
  BY <1>2, <1>4, OnlyRadioTrans
<1>6. o \in Regs /\ Sound(o, p) /\ RxSame(o, r)
  BY <1>1, <1>5, OnlyRadioSound DEF OnlyRadio, RadioOK
<1>7. b \in Regs
  BY <1>6 DEF Regs
<1>8. RadioSame(b, o) /\ TxSame(b, o)
  BY <1>6 DEF Regs, RadioSame, TxSame
<1>9. /\ b.rxActive = "STARTED" /\ b.rxState = o.rxState
      /\ b.left = o.left /\ b.buf = o.buf /\ b.isr = o.isr
      /\ b.awake = o.awake
  BY <1>6 DEF Regs
<1> HIDE DEF b
<1>10. Sound(b, p)
  BY <1>6, <1>7, <1>8, EditSound
<1>11. /\ b.rxState = "start" /\ ~b.buf /\ b.left \in 0 .. 2 /\ Running(b)
  BY <1>1, <1>6, <1>9 DEF RxSame, RxOK, Running
<1>12. Sound(e, p) /\ RxAfter(e, b)
  <2>1. b.tx = "LISTEN" => /\ b.sending = "no" /\ ~b.cut /\ b.owed = 1
                           /\ p \notin Starting \cup {"init", "loaded"}
    BY <1>10 DEF Sound, TxOK
  <2>2. /\ RadioOK(b) /\ b.asserted /\ b.nb \in 0 .. MaxBackoffs
        /\ TxOK(b, p)
    BY <1>10 DEF Sound
  <2> QED
    BY <2>1, <2>2, ListenOverFacts
<1> HIDE DEF e
<1>13. /\ e.rxActive = "STARTED" /\ e.rxState = "start" /\ ~e.buf
       /\ e.left \in 0 .. 2 /\ Running(e)
  BY <1>9, <1>11, <1>12 DEF RxAfter, RxDeferred, Running
<1>14. e \in Regs
  BY <1>12 DEF Sound, RadioOK
<1>15. CASE h.kind = "bad"
  <2> DEFINE f == Flush(b)
  <2>1. OnlyRadio(f, b) /\ f.sending = b.sending
    BY <1>10, FlushFacts DEF Sound
  <2> HIDE DEF f
  <2>2. Sound(f, p)
    BY <1>10, <2>1, OnlyRadioSound
  <2>3. /\ f.rxState = "start" /\ ~f.buf /\ f.left \in 0 .. 2
        /\ f.isr = b.isr /\ f.awake = b.awake
    BY <1>11, <2>1 DEF OnlyRadio, RxSame
  <2>4. q = rxDone(f, short)
    BY <1>3, <1>15 DEF f
  <2>5. Ended(q, p) /\ q.isr = f.isr /\ q.awake = f.awake
    BY <2>2, <2>3, <2>4, DoneFacts
  <2> QED
    BY <1>11, <2>3, <2>5 DEF Running, q
<1>16. CASE h.kind = "ack"
  <2>1. q = rxDone(e, short)
    BY <1>3, <1>16
  <2>2. Ended(q, p) /\ q.isr = e.isr /\ q.awake = e.awake
    BY <1>12, <1>13, <2>1, DoneFacts
  <2> QED
    BY <1>13, <2>2 DEF Running, q
<1>17. CASE h.kind = "data" /\ ~alloc
  <2> DEFINE t == Assert(e, e.rxState = "start")
             s == [t EXCEPT !.rxState = "discard", !.left = 2]
  <2>1. q = s
    BY <1>3, <1>17 DEF rxDiscardFrame
  <2>2. RadioOK(e) /\ e.asserted
    BY <1>12 DEF Sound
  <2>3. OnlyRadio(t, e) /\ t.sending = e.sending
    BY <1>13, <2>2, AssertFacts
  <2> HIDE DEF t
  <2>4. Sound(t, p) /\ t \in Regs
    BY <1>12, <2>3, OnlyRadioSound DEF OnlyRadio, RadioOK
  <2>5. s \in Regs
    <3> DEFINE z == 2
    <3>1. z \in Int
      OBVIOUS
    <3>2. s = [t EXCEPT !.rxState = "discard", !.left = z]
      OBVIOUS
    <3> HIDE DEF s, z
    <3> QED
      BY <2>4, <3>1, <3>2 DEF Regs
  <2>6. RadioSame(s, t) /\ TxSame(s, t)
    BY <2>4 DEF Regs, RadioSame, TxSame
  <2>7. /\ s.rxActive = t.rxActive /\ s.rxState = "discard" /\ s.left = 2
        /\ s.buf = t.buf /\ s.isr = t.isr /\ s.awake = t.awake
    BY <2>4 DEF Regs
  <2> HIDE DEF s
  <2>8. Sound(s, p)
    BY <2>4, <2>5, <2>6, EditSound
  <2>9. s.rxActive = "STARTED" /\ ~s.buf /\ Running(s)
    BY <1>13, <2>3, <2>7 DEF OnlyRadio, RxSame, Running
  <2>10. RxOK(s) /\ Behind(s)
    BY <2>7, <2>9 DEF RxOK, Behind
  <2> QED
    BY <2>1, <2>8, <2>9, <2>10 DEF Ended, q
<1>18. CASE h.kind = "data" /\ alloc
  <2> DEFINE c == IF h.ackReq /\ h.crc /\ Receiving(e) THEN "armed"
                                                       ELSE e.ack
             d == h.ackReq
             s == [e EXCEPT !.buf = TRUE, !.rxState = "body", !.outAck = d,
                            !.ack = c]
  <2>1. q = s
    BY <1>3, <1>18
  <2>2. d \in BOOLEAN
    BY DEF Headers
  <2>3. c \in {"none", "armed", "done"} /\ (c = "armed" => e.on \/ c = e.ack)
    BY <1>14 DEF Regs, Receiving
  <2> HIDE DEF c, d
  <2>4. s \in Regs
    BY ZenonT(90), <1>14, <2>2, <2>3 DEF Regs
  <2>5. /\ s.fifo = e.fifo /\ s.overflow = e.overflow /\ s.air = e.air
        /\ s.on = e.on /\ s.ack = c /\ s.sending = e.sending
        /\ s.asserted = e.asserted
    BY <1>14 DEF Regs
  <2>6. TxSame(s, e)
    BY <1>14 DEF Regs, TxSame
  <2>7. /\ s.rxActive = e.rxActive /\ s.rxState = "body" /\ s.left = e.left
        /\ s.buf = TRUE /\ s.isr = e.isr /\ s.awake = e.awake
    BY <1>14 DEF Regs
  <2> HIDE DEF s
  <2>8. RadioOK(s)
    BY <1>12, <2>3, <2>4, <2>5 DEF Sound, RadioOK
  <2>9. TxOK(s, p)
    BY <1>12, <2>5, <2>6, TxOKSame DEF Sound
  <2>10. Sound(s, p)
    BY <1>12, <2>5, <2>6, <2>8, <2>9 DEF Sound, TxSame
  <2>11. RxOK(s) /\ Behind(s) /\ Running(s)
    BY <1>13, <2>7 DEF RxOK, Behind, Running
  <2> QED
    BY <2>1, <2>10, <2>11 DEF Ended, q
<1> QED
  BY <1>15, <1>16, <1>17, <1>18 DEF Headers

\* A security header that makes no sense leaves a reset to the end.
LEMMA BodyFacts ==
  ASSUME NEW r, NEW p, Ended(r, p), Running(r), r.rxState = "body",
         NEW ok \in BOOLEAN, NEW short \in BOOLEAN
  PROVE  /\ Ended(rxBodyIsr(r, ok, short), p)
         /\ Running(rxBodyIsr(r, ok, short))
<1> DEFINE o == Pop(r)
           q == rxBodyIsr(r, ok, short)
<1>1. OnlyRadio(o, r) /\ o.sending = r.sending
  BY PopFacts DEF Ended, Sound
<1>2. o \in Regs /\ Sound(o, p) /\ RxSame(o, r) /\ TxSame(o, r)
  BY <1>1, OnlyRadioSound DEF Ended, OnlyRadio, RadioOK
<1>3. RxOK(o) /\ o.rxState = "body" /\ o.rxActive = "STARTED" /\ Running(o)
  BY <1>2 DEF Ended, RxOK, RxSame, Running
<1>4. CASE ok
  <2> DEFINE s == [o EXCEPT !.rxState = "fcs"]
  <2>1. q = s
    BY <1>4 DEF rxBodyIsr
  <2> HIDE DEF o, q
  <2>2. s \in Regs
    BY <1>2 DEF Regs
  <2>3. RadioSame(s, o) /\ TxSame(s, o)
    BY <1>2 DEF Regs, RadioSame, TxSame
  <2>4. /\ s.rxActive = o.rxActive /\ s.rxState = "fcs" /\ s.left = o.left
        /\ s.buf = o.buf /\ s.isr = o.isr /\ s.awake = o.awake
    BY <1>2 DEF Regs
  <2> HIDE DEF s
  <2>5. Sound(s, p)
    BY <1>2, <2>2, <2>3, EditSound
  <2>6. RxOK(s) /\ Behind(s) /\ Running(s)
    BY <1>3, <2>4 DEF RxOK, Behind, Running
  <2> QED
    BY <2>1, <2>5, <2>6 DEF Ended, q
<1>5. CASE ~ok
  <2> DEFINE c == IF o.ack = "armed" THEN "none" ELSE o.ack
             s == [o EXCEPT !.ack = c]
  <2>1. q = macRxHaltCleanup(s, short)
    BY <1>5 DEF rxBodyIsr
  <2> HIDE DEF o, q
  <2>2. c \in {"none", "armed", "done"} /\ c # "armed"
    BY <1>2 DEF Regs
  <2> HIDE DEF c
  <2>3. s \in Regs
    BY <1>2, <2>2 DEF Regs
  <2>4. /\ s.fifo = o.fifo /\ s.overflow = o.overflow /\ s.air = o.air
        /\ s.on = o.on /\ s.ack = c /\ s.sending = o.sending
        /\ s.asserted = o.asserted
    BY <1>2 DEF Regs
  <2>5. RxSame(s, o) /\ TxSame(s, o)
    BY <1>2 DEF Regs, RxSame, TxSame
  <2> HIDE DEF s
  <2>6. RadioOK(s)
    BY <1>2, <2>2, <2>3, <2>4 DEF Sound, RadioOK
  <2>7. TxOK(s, p)
    BY <1>2, <2>4, <2>5, TxOKSame DEF Sound
  <2>8. s.asserted /\ s.nb \in 0 .. MaxBackoffs /\ Behind(s) /\ Calm(s)
    BY <1>2, <1>3, <2>4, <2>5, <2>7, TxOKCalm
    DEF Sound, TxSame, RxSame, Behind
  <2>9. RxOK(s) /\ Running(s) /\ s.rxActive = "STARTED"
    BY <1>3, <2>5 DEF RxSame, RxOK, Running
  <2>10. /\ RadioOK(q) /\ RxDeferred(q, s) /\ TxSame(q, s) /\ q.asserted
         /\ q.sending = s.sending
    BY <2>1, <2>6, <2>8, <2>9, HaltFacts DEF Running
  <2>11. TxOK(q, p)
    BY <2>7, <2>10, TxOKSame
  <2>12. RxOK(q) /\ Behind(q) /\ Running(q)
    BY <2>9, <2>10 DEF RxDeferred, RxOK, Behind, Running
  <2> QED
    BY <2>8, <2>10, <2>11, <2>12 DEF Ended, Sound, TxSame, q
<1> QED
  BY <1>4, <1>5

LEMMA FcsFacts ==
  ASSUME NEW r, NEW p, Ended(r, p), Running(r), r.rxState = "fcs",
         NEW ok \in BOOLEAN, NEW short \in BOOLEAN
  PROVE  /\ Ended(rxFcsIsr(r, ok, short), p)
         /\ Running(rxFcsIsr(r, ok, short))
<1> DEFINE o == Pop(r)
           g == [o EXCEPT !.rxActive = "DONE"]
           w == IF ok THEN macRxOffRequest(g) ELSE [o EXCEPT !.outAck = FALSE]
           s == [w EXCEPT !.buf = FALSE, !.rxState = "start"]
           q == rxFcsIsr(r, ok, short)
<1>1. OnlyRadio(o, r) /\ o.sending = r.sending
  BY PopFacts DEF Ended, Sound
<1>2. o \in Regs /\ Sound(o, p) /\ RxSame(o, r) /\ TxSame(o, r)
  BY <1>1, OnlyRadioSound DEF Ended, OnlyRadio, RadioOK
<1>3. o.left \in 0 .. 2 /\ Running(o)
  BY <1>2 DEF Ended, RxOK, RxSame, Running
<1>4. q = rxDone(s, short)
  BY DEF rxFcsIsr
<1> HIDE DEF o, q
<1>5. Sound(w, p) /\ w.left = o.left /\ w.isr = o.isr /\ w.awake = o.awake
  <2>1. CASE ok
    <3>1. g \in Regs
      BY <1>2 DEF Regs
    <3>2. RadioSame(g, o) /\ TxSame(g, o)
      BY <1>2 DEF Regs, RadioSame, TxSame
    <3>3. g.left = o.left /\ g.isr = o.isr /\ g.awake = o.awake
      BY <1>2 DEF Regs
    <3> HIDE DEF g
    <3>4. Sound(g, p)
      BY <1>2, <3>1, <3>2, EditSound
    <3>5. /\ OnlyRadio(w, g)
          /\ g.tx = "GO" => w.sending = g.sending
      BY <2>1, <3>4, OffRequestFacts DEF Sound
    <3> HIDE DEF w
    <3>6. Calm(g)
      BY <3>4, TxOKCalm DEF Sound
    <3>7. w.sending = g.sending
      BY <3>5, <3>6 DEF Calm, OnlyRadio
    <3> QED
      BY <3>3, <3>4, <3>5, <3>7, OnlyRadioSound DEF OnlyRadio, RxSame
  <2>2. CASE ~ok
    <3> DEFINE x == [o EXCEPT !.outAck = FALSE]
    <3>1. x \in Regs
      BY <1>2 DEF Regs
    <3>2. RadioSame(x, o) /\ TxSame(x, o)
      BY <1>2 DEF Regs, RadioSame, TxSame
    <3>3. x.left = o.left /\ x.isr = o.isr /\ x.awake = o.awake
      BY <1>2 DEF Regs
    <3>4. w = x
      BY <2>2
    <3> HIDE DEF x, w
    <3> QED
      BY <1>2, <3>1, <3>2, <3>3, <3>4, EditSound
  <2> QED
    BY <2>1, <2>2
<1> HIDE DEF w
<1>6. w \in Regs
  BY <1>5 DEF Sound, RadioOK
<1>7. s \in Regs
  BY <1>6 DEF Regs
<1>8. RadioSame(s, w) /\ TxSame(s, w)
  BY <1>6 DEF Regs, RadioSame, TxSame
<1>9. /\ s.rxState = "start" /\ s.buf = FALSE /\ s.left = w.left
      /\ s.isr = w.isr /\ s.awake = w.awake
  BY <1>6 DEF Regs
<1> HIDE DEF s
<1>10. Sound(s, p)
  BY <1>5, <1>7, <1>8, EditSound
<1>11. Ended(q, p) /\ q.isr = s.isr /\ q.awake = s.awake
  BY <1>3, <1>4, <1>5, <1>9, <1>10, DoneFacts
<1> QED
  BY <1>3, <1>5, <1>9, <1>11 DEF Running, q

LEMMA DiscardFacts ==
  ASSUME NEW r, NEW p, Ended(r, p), Running(r), r.rxState = "discard",
         NEW short \in BOOLEAN
  PROVE  /\ Ended(rxDiscardIsr(r, short), p)
         /\ Running(rxDiscardIsr(r, short))
<1> DEFINE o == Pop(r)
           s == [o EXCEPT !.left = @ - 1]
           t == [s EXCEPT !.rxState = "start"]
           q == rxDiscardIsr(r, short)
<1>1. OnlyRadio(o, r) /\ o.sending = r.sending
  BY PopFacts DEF Ended, Sound
<1>2. o \in Regs /\ Sound(o, p) /\ RxSame(o, r) /\ TxSame(o, r)
  BY <1>1, OnlyRadioSound DEF Ended, OnlyRadio, RadioOK
<1>3. /\ o.left \in 1 .. 2 /\ Running(o) /\ o.rxActive = "STARTED" /\ ~o.buf
      /\ o.rxState = "discard"
  BY <1>2 DEF Ended, RxOK, RxSame, Running
<1>4. q = IF s.left > 0 THEN s ELSE rxDone(t, short)
  BY DEF rxDiscardIsr
<1> HIDE DEF o, q
<1>5. s \in Regs
  <2> DEFINE z == o.left - 1
  <2>1. z \in Int
    BY <1>3
  <2>2. s = [o EXCEPT !.left = z]
    OBVIOUS
  <2> HIDE DEF s, z
  <2> QED
    BY <1>2, <2>1, <2>2 DEF Regs
<1>6. RadioSame(s, o) /\ TxSame(s, o)
  BY <1>2 DEF Regs, RadioSame, TxSame
<1>7. /\ s.rxActive = o.rxActive /\ s.rxState = o.rxState
      /\ s.left = o.left - 1 /\ s.buf = o.buf /\ s.isr = o.isr
      /\ s.awake = o.awake
  BY <1>2 DEF Regs
<1> HIDE DEF s
<1>8. Sound(s, p) /\ s.left \in 0 .. 1
  BY <1>2, <1>3, <1>5, <1>6, <1>7, EditSound
<1>9. CASE s.left > 0
  <2>1. RxOK(s) /\ Behind(s) /\ Running(s)
    BY <1>3, <1>7, <1>8, <1>9 DEF RxOK, Behind, Running
  <2> QED
    BY <1>4, <1>8, <1>9, <2>1 DEF Ended, q
<1>10. CASE ~(s.left > 0)
  <2>1. q = rxDone(t, short)
    BY <1>4, <1>10
  <2>2. t \in Regs
    BY <1>5 DEF Regs
  <2>3. RadioSame(t, s) /\ TxSame(t, s)
    BY <1>5 DEF Regs, RadioSame, TxSame
  <2>4. /\ t.rxState = "start" /\ t.buf = s.buf /\ t.left = s.left
        /\ t.isr = s.isr /\ t.awake = s.awake
    BY <1>5 DEF Regs
  <2> HIDE DEF t
  <2>5. Sound(t, p) /\ ~t.buf /\ t.left \in 0 .. 2
    BY <1>3, <1>7, <1>8, <2>2, <2>3, <2>4, EditSound
  <2>6. Ended(q, p) /\ q.isr = t.isr /\ q.awake = t.awake
    BY <2>1, <2>4, <2>5, DoneFacts
  <2> QED
    BY <1>3, <1>7, <2>4, <2>6 DEF Running, q
<1> QED
  BY <1>9, <1>10

\* A reset that came during the routine is made up for.
LEMMA ThresholdEndFacts ==
  ASSUME NEW r, NEW p, Ended(r, p), Running(r), NEW short \in BOOLEAN
  PROVE  /\ LowLevelOK(ThresholdEnd(r, short), p)
         /\ ThresholdEnd(r, short).awake
<1> DEFINE s == [r EXCEPT !.isr = FALSE]
           t == [s EXCEPT !.reset = FALSE]
           q == ThresholdEnd(r, short)
<1>1. r \in Regs /\ Sound(r, p)
  BY DEF Ended, Sound, RadioOK
<1>2. s \in Regs
  BY <1>1 DEF Regs
<1>3. RadioSame(s, r) /\ TxSame(s, r)
  BY <1>1 DEF Regs, RadioSame, TxSame
<1>4. /\ s.rxActive = r.rxActive /\ s.outAck = r.outAck
      /\ s.rxState = r.rxState /\ s.left = r.left /\ s.buf = r.buf
      /\ s.isr = FALSE /\ s.awake = r.awake
  BY <1>1 DEF Regs
<1>5. q = IF s.reset THEN rxHaltCleanupFinalStep(t, short) ELSE s
  BY DEF ThresholdEnd
<1> HIDE DEF s, q
<1>6. Sound(s, p)
  BY <1>1, <1>2, <1>3, EditSound
<1>7. RxOK(s) /\ Behind(s) /\ s.awake
  BY <1>3, <1>4 DEF Ended, RxOK, Behind, TxSame, Running
<1>8. CASE ~s.reset
  BY <1>4, <1>5, <1>6, <1>7, <1>8 DEF LowLevelOK, Sound, AsleepOK, q
<1>9. CASE s.reset
  <2>1. t \in Regs
    BY <1>2 DEF Regs
  <2>2. RadioSame(t, s) /\ TxSame(t, s)
    BY <1>2 DEF Regs, RadioSame, TxSame
  <2>3. /\ t.rxActive = s.rxActive /\ t.outAck = s.outAck
        /\ t.isr = s.isr /\ t.reset = FALSE /\ t.awake = s.awake
    BY <1>2 DEF Regs
  <2> HIDE DEF t
  <2>4. Sound(t, p) /\ Behind(t)
    BY <1>6, <1>7, <2>1, <2>2, <2>3, EditSound DEF Behind, TxSame
  <2>5. RadioOK(t) /\ t.asserted /\ Calm(t)
    BY <2>4, TxOKCalm DEF Sound
  <2>6. Freed(q, t) /\ RxReset(q, t)
    BY <1>5, <1>9, <2>4, <2>5, FinalStepFacts
  <2>7. Sound(q, p) /\ Behind(q)
    BY <2>4, <2>6, FreedSound
  <2>8. RxOK(q) /\ ~q.isr /\ ~q.reset /\ q.awake
    BY <1>4, <1>7, <2>3, <2>6 DEF RxReset, RxOK
  <2> QED
    BY <2>7, <2>8 DEF LowLevelOK, Sound, AsleepOK, q
<1> QED
  BY <1>8, <1>9

-----------------------------------------------------------------------------
(* The calls of the high level and the rest of the main loop *)

LEMMA EditOK ==
  ASSUME NEW r, NEW p, LowLevelOK(r, p), NEW q, q \in Regs,
         RadioSame(q, r), TxSame(q, r), RxSame(q, r)
  PROVE  LowLevelOK(q, p)
<1>1. Sound(r, p)
  BY DEF LowLevelOK, Sound
<1>2. Sound(q, p)
  BY <1>1, EditSound
<1>3. RxOK(q) /\ Behind(q) /\ AsleepOK(q) /\ ~q.isr /\ ~q.reset
  BY DEF LowLevelOK, RxSame, TxSame, RadioSame, RxOK, Behind, AsleepOK
<1> QED
  BY <1>2, <1>3 DEF LowLevelOK, Sound

LEMMA OnlyRadioOK ==
  ASSUME NEW r, NEW p, LowLevelOK(r, p), NEW q, OnlyRadio(q, r),
         q.sending = r.sending, ~r.awake => ~q.on
  PROVE  LowLevelOK(q, p)
<1>1. Sound(r, p)
  BY DEF LowLevelOK, Sound
<1>2. Sound(q, p)
  BY <1>1, OnlyRadioSound
<1>3. RxOK(q) /\ Behind(q) /\ AsleepOK(q) /\ ~q.isr /\ ~q.reset
  BY DEF LowLevelOK, OnlyRadio, RxSame, TxSame, RxOK, Behind, AsleepOK
<1> QED
  BY <1>2, <1>3 DEF LowLevelOK, Sound

\* Outside macTxFrame it does not matter where the main loop is.
LEMMA MovedOK ==
  ASSUME NEW r, NEW p, LowLevelOK(r, p), NEW n,
         p \notin Starting \cup {"init", "loaded"},
         n \notin Starting \cup {"init", "loaded"}
  PROVE  LowLevelOK(r, n)
<1>1. TxOK(r, n)
  BY DEF LowLevelOK, TxOK, Starting
<1> QED
  BY <1>1 DEF LowLevelOK

\* What an action shows besides the bounds of the counters.
Kept == LowLevelOK(mac', pc') /\ (pc' = "loaded" => mac'.awake)

LEMMA RxEnableKeeps ==
  ASSUME RadioInv, RxEnable
  PROVE  Kept
<1>1. PICK f \in Flags :
        mac' = macRxOn([mac EXCEPT !.enable = @ \cup {f}])
  BY DEF RxEnable
<1> DEFINE s == [mac EXCEPT !.enable = @ \cup {f}]
<1>2. /\ mac \in Regs /\ Sound(mac, pc) /\ RxOK(mac) /\ Behind(mac)
      /\ ~mac.isr /\ ~mac.reset /\ mac.awake /\ pc' = pc
  BY DEF RadioInv, LowLevelOK, Sound, RadioOK, RxEnable
<1>3. s \in Regs
  <2> DEFINE g == mac.enable \cup {f}
  <2>1. g \in SUBSET Flags
    BY <1>2 DEF Regs
  <2>2. s = [mac EXCEPT !.enable = g]
    OBVIOUS
  <2> HIDE DEF s, g
  <2> QED
    BY <1>2, <2>1, <2>2 DEF Regs
<1>4. RadioSame(s, mac) /\ TxSame(s, mac)
  BY <1>2 DEF Regs, RadioSame, TxSame
<1>5. /\ s.rxActive = mac.rxActive /\ s.outAck = mac.outAck
      /\ s.rxState = mac.rxState /\ s.left = mac.left /\ s.buf = mac.buf
      /\ s.isr = mac.isr /\ s.reset = mac.reset /\ s.awake = mac.awake
  BY <1>2 DEF Regs
<1> HIDE DEF s
<1>6. Sound(s, pc)
  BY <1>2, <1>3, <1>4, EditSound
<1>7. RxOK(s) /\ Behind(s) /\ s.awake /\ ~s.isr /\ ~s.reset
  BY <1>2, <1>4, <1>5 DEF RxOK, Behind, TxSame
<1>8. LowLevelOK(s, pc)
  BY <1>6, <1>7 DEF LowLevelOK, Sound, AsleepOK
<1>9. OnlyRadio(macRxOn(s), s) /\ macRxOn(s).sending = s.sending
  BY <1>6, OnFacts DEF Sound
<1>10. LowLevelOK(mac', pc) /\ mac'.awake
  BY <1>1, <1>7, <1>8, <1>9, OnlyRadioOK DEF s, OnlyRadio, RxSame
<1> QED
  BY <1>2, <1>10 DEF Kept

LEMMA RxDisableKeeps ==
  ASSUME RadioInv, RxDisable
  PROVE  Kept
<1>1. PICK f \in mac.enable : mac' = [mac EXCEPT !.enable = @ \ {f}]
  BY DEF RxDisable
<1>2. /\ mac \in Regs /\ Sound(mac, pc) /\ RxOK(mac) /\ Behind(mac)
      /\ AsleepOK(mac) /\ ~mac.isr /\ ~mac.reset /\ pc = "idle"
      /\ pc' = "off"
  BY DEF RadioInv, LowLevelOK, Sound, RadioOK, RxDisable, Call
<1>3. mac' \in Regs
  <2> DEFINE g == mac.enable \ {f}
  <2>1. g \in SUBSET Flags
    BY <1>2 DEF Regs
  <2>2. mac' = [mac EXCEPT !.enable = g]
    BY <1>1
  <2> HIDE DEF g
  <2> QED
    BY <1>2, <2>1, <2>2 DEF Regs
<1>4. RadioSame(mac', mac) /\ TxSame(mac', mac)
  BY <1>1, <1>2 DEF Regs, RadioSame, TxSame
<1>5. /\ mac'.rxActive = mac.rxActive /\ mac'.outAck = mac.outAck
      /\ mac'.rxState = mac.rxState /\ mac'.left = mac.left
      /\ mac'.buf = mac.buf /\ mac'.isr = mac.isr /\ mac'.reset = mac.reset
      /\ mac'.awake = mac.awake /\ mac'.enable = mac.enable \ {f}
  BY <1>1, <1>2 DEF Regs
<1>6. Sound(mac', pc)
  BY <1>2, <1>3, <1>4, EditSound
<1>7. RxOK(mac') /\ Behind(mac') /\ ~mac'.isr /\ ~mac'.reset
  BY <1>2, <1>4, <1>5 DEF RxOK, Behind, TxSame
<1>8. AsleepOK(mac')
  BY <1>2, <1>4, <1>5 DEF AsleepOK, TxSame, RadioSame
<1>9. LowLevelOK(mac', pc)
  BY <1>6, <1>7, <1>8 DEF LowLevelOK, Sound
<1>10. LowLevelOK(mac', pc')
  BY <1>2, <1>9, MovedOK DEF Starting
<1> QED
  BY <1>2, <1>10 DEF Kept

LEMMA RxDisableOffKeeps ==
  ASSUME RadioInv, RxDisableOff
  PROVE  Kept
<1> DEFINE q == macRxOffRequest(mac)
<1>1. /\ LowLevelOK(mac, pc) /\ RadioOK(mac) /\ Calm(mac) /\ AsleepOK(mac)
      /\ pc = "off" /\ pc' = "idle" /\ mac' = q
  BY TxOKCalm DEF RadioInv, LowLevelOK, RxDisableOff
<1>2. /\ OnlyRadio(q, mac) /\ (q.on => mac.on)
      /\ mac.tx = "GO" => q.sending = mac.sending
  BY <1>1, OffRequestFacts
<1> HIDE DEF q
<1>3. q.sending = mac.sending
  BY <1>1, <1>2 DEF Calm, OnlyRadio
<1>4. LowLevelOK(q, pc)
  BY <1>1, <1>2, <1>3, OnlyRadioOK DEF AsleepOK
<1>5. LowLevelOK(q, pc')
  BY <1>1, <1>4, MovedOK DEF Starting
<1> QED
  BY <1>1, <1>5 DEF Kept

LEMMA SetChannelKeeps ==
  ASSUME RadioInv, SetChannel
  PROVE  Kept
<1> DEFINE s == [mac EXCEPT !.retune = TRUE]
<1>1. PICK short \in BOOLEAN :
        mac' = IF s.tx = "NO" THEN macRadioUpdateChannel(s, short) ELSE s
  BY DEF SetChannel
<1>2. /\ mac \in Regs /\ LowLevelOK(mac, pc) /\ mac.awake /\ ~mac.isr
      /\ Sound(mac, pc) /\ RxOK(mac) /\ ~mac.reset /\ pc' = pc
  BY DEF RadioInv, LowLevelOK, RadioOK, SetChannel, Sound
<1>3. s \in Regs
  BY <1>2 DEF Regs
<1>4. /\ s.fifo = mac.fifo /\ s.overflow = mac.overflow /\ s.air = mac.air
      /\ s.on = mac.on /\ s.ack = mac.ack /\ s.sending = mac.sending
      /\ s.asserted = mac.asserted
  BY <1>2 DEF Regs
<1>5. RxSame(s, mac) /\ TxSame(s, mac)
  BY <1>2 DEF Regs, RxSame, TxSame
<1> HIDE DEF s
<1>6. RadioOK(s)
  BY <1>2, <1>3, <1>4 DEF Sound, RadioOK
<1>7. TxOK(s, pc)
  BY <1>2, <1>4, <1>5, TxOKSame DEF Sound
<1>8. Sound(s, pc) /\ RxOK(s) /\ s.awake /\ ~s.isr /\ ~s.reset
  BY <1>2, <1>4, <1>5, <1>6, <1>7 DEF Sound, RxOK, RxSame, TxSame
<1>9. CASE s.tx # "NO"
  <2>1. Behind(s)
    BY <1>2, <1>5 DEF LowLevelOK, Behind, RxSame, TxSame
  <2> QED
    BY <1>1, <1>2, <1>8, <1>9, <2>1 DEF Kept, LowLevelOK, Sound, AsleepOK
<1>10. CASE s.tx = "NO"
  <2> DEFINE q == macRadioUpdateChannel(s, short)
  <2>1. s.sending # "yes" /\ s.asserted
    BY <1>8, <1>10, TxOKCalm DEF Sound, Calm
  <2>2. Quiet(q, s)
    BY <1>6, <1>10, <2>1, UpdateChannelFacts
  <2>3. mac' = q
    BY <1>1, <1>10
  <2> HIDE DEF q
  <2>4. /\ RxOK(q) /\ ~q.isr /\ ~q.reset /\ q.awake
    BY <1>8, <2>2, RxAfterOK DEF Quiet
  <2>5. TxOK(q, pc)
    BY <1>7, <2>2, TxOKSame DEF Quiet
  <2>6. Sound(q, pc) /\ Behind(q)
    BY <1>8, <1>10, <2>2, <2>5 DEF Sound, Quiet, TxSame, Behind
  <2> QED
    BY <1>2, <2>3, <2>4, <2>6 DEF Kept, LowLevelOK, Sound, AsleepOK
<1> QED
  BY <1>9, <1>10

LEMMA SleepKeeps ==
  ASSUME RadioInv, Sleep
  PROVE  Kept
<1> DEFINE o == macRxOff(mac)
<1>1. /\ LowLevelOK(mac, pc) /\ RadioOK(mac) /\ Calm(mac) /\ mac.tx = "NO"
      /\ mac.rxActive = "NO" /\ ~mac.outAck /\ mac.enable = {}
      /\ mac' = [o EXCEPT !.awake = FALSE] /\ pc' = pc /\ TxOK(mac, pc)
  BY TxOKCalm DEF RadioInv, LowLevelOK, Sleep, MaySleep
<1>2. OnlyRadio(o, mac) /\ ~o.on
  BY <1>1, OffFacts
<1> HIDE DEF o
<1>3. o.sending = mac.sending
  BY <1>1, <1>2 DEF Calm, OnlyRadio
<1>4. LowLevelOK(o, pc)
  BY <1>1, <1>2, <1>3, OnlyRadioOK
<1>5. o \in Regs /\ Sound(o, pc) /\ RxOK(o) /\ ~o.isr /\ ~o.reset
  BY <1>4 DEF LowLevelOK, RadioOK, Sound
<1>6. mac' \in Regs
  BY <1>1, <1>5 DEF Regs
<1>7. RadioSame(mac', o) /\ TxSame(mac', o)
  BY <1>1, <1>5 DEF Regs, RadioSame, TxSame
<1>8. /\ mac'.rxActive = o.rxActive /\ mac'.outAck = o.outAck
      /\ mac'.rxState = o.rxState /\ mac'.left = o.left
      /\ mac'.buf = o.buf /\ mac'.isr = o.isr /\ mac'.reset = o.reset
      /\ mac'.enable = o.enable
  BY <1>1, <1>5 DEF Regs
<1>9. Sound(mac', pc)
  BY <1>5, <1>6, <1>7, EditSound
<1>10. RxOK(mac') /\ ~mac'.isr /\ ~mac'.reset
  BY <1>5, <1>8 DEF RxOK
<1>11. mac'.tx = "NO"
  BY <1>1, <1>2, <1>7 DEF OnlyRadio, TxSame
<1>12. Behind(mac') /\ AsleepOK(mac')
  BY <1>1, <1>2, <1>7, <1>8, <1>11
  DEF Behind, AsleepOK, OnlyRadio, RxSame, RadioSame
<1>13. pc # "loaded"
  BY <1>1 DEF TxOK
<1> QED
  BY <1>1, <1>9, <1>10, <1>12, <1>13 DEF Kept, LowLevelOK, Sound

LEMMA WakeUpKeeps ==
  ASSUME RadioInv, WakeUp
  PROVE  Kept
<1>1. /\ LowLevelOK(mac, pc) /\ mac \in Regs /\ Sound(mac, pc) /\ RxOK(mac)
      /\ ~mac.isr /\ ~mac.reset /\ Behind(mac)
      /\ mac' = [mac EXCEPT !.awake = TRUE] /\ pc = "idle" /\ pc' = "wake"
  BY DEF RadioInv, LowLevelOK, RadioOK, Sound, WakeUp
<1>2. mac' \in Regs
  BY <1>1 DEF Regs
<1>3. RadioSame(mac', mac) /\ TxSame(mac', mac)
  BY <1>1 DEF Regs, RadioSame, TxSame
<1>4. /\ mac'.rxActive = mac.rxActive /\ mac'.outAck = mac.outAck
      /\ mac'.rxState = mac.rxState /\ mac'.left = mac.left
      /\ mac'.buf = mac.buf /\ mac'.isr = mac.isr /\ mac'.reset = mac.reset
      /\ mac'.awake = TRUE
  BY <1>1 DEF Regs
<1>5. Sound(mac', pc)
  BY <1>1, <1>2, <1>3, EditSound
<1>6. RxOK(mac') /\ Behind(mac') /\ ~mac'.isr /\ ~mac'.reset
  BY <1>1, <1>3, <1>4 DEF RxOK, Behind, TxSame
<1>7. LowLevelOK(mac', pc)
  BY <1>4, <1>5, <1>6 DEF LowLevelOK, Sound, AsleepOK
<1>8. LowLevelOK(mac', pc')
  BY <1>1, <1>7, MovedOK DEF Starting
<1> QED
  BY <1>1, <1>8 DEF Kept

LEMMA WakeUpOnKeeps ==
  ASSUME RadioInv, WakeUpOn
  PROVE  Kept
<1> DEFINE q == macRxOnRequest(mac)
<1>1. /\ LowLevelOK(mac, pc) /\ RadioOK(mac) /\ AsleepOK(mac)
      /\ pc = "wake" /\ pc' = "idle" /\ mac' = q
  BY DEF RadioInv, LowLevelOK, WakeUpOn
<1>2. /\ OnlyRadio(q, mac) /\ q.sending = mac.sending
      /\ mac.enable = {} => q.on = mac.on
  BY <1>1, OnRequestFacts
<1> HIDE DEF q
<1>3. LowLevelOK(q, pc)
  BY <1>1, <1>2, OnlyRadioOK DEF AsleepOK
<1>4. LowLevelOK(q, pc')
  BY <1>1, <1>3, MovedOK DEF Starting
<1> QED
  BY <1>1, <1>4 DEF Kept

\* A reset cuts a transmission short that the radio is in the middle of; any
\* other transmit goes on.
LEMMA ResetKeeps ==
  ASSUME RadioInv, Reset
  PROVE  Kept
<1> DEFINE s == [mac EXCEPT !.enable = {}]
           o == RxTxOff(s)
<1>1. PICK short \in BOOLEAN :
        mac' = [macRxHaltCleanup(o, short)
                  EXCEPT !.cut = @ \/ mac.sending = "yes"]
  BY DEF Reset, macRxHardDisable
<1> DEFINE h == macRxHaltCleanup(o, short)
<1>2. /\ mac \in Regs /\ Sound(mac, pc) /\ Behind(mac) /\ ~mac.isr
      /\ ~mac.reset /\ mac.awake /\ pc = "idle" /\ pc' = pc
      /\ TxOK(mac, pc) /\ RxOK(mac)
  BY DEF RadioInv, LowLevelOK, RadioOK, Sound, Reset, Call
<1>3. s \in Regs
  BY <1>2 DEF Regs
<1>4. RadioSame(s, mac) /\ TxSame(s, mac)
  BY <1>2 DEF Regs, RadioSame, TxSame
<1>5. /\ s.rxActive = mac.rxActive /\ s.outAck = mac.outAck
      /\ s.isr = mac.isr /\ s.reset = mac.reset /\ s.awake = mac.awake
  BY <1>2 DEF Regs
<1> HIDE DEF s
<1>6. Sound(s, pc)
  BY <1>2, <1>3, <1>4, EditSound
<1>7. OnlyRadio(o, s) /\ ~o.on /\ o.sending # "yes"
  BY <1>6, RxTxOffFacts DEF Sound
<1> HIDE DEF o
<1>8. /\ RadioOK(o) /\ o.asserted /\ Behind(o) /\ Calm(o)
      /\ ~o.isr /\ ~o.reset /\ o.awake /\ TxSame(o, mac)
      /\ o.nb \in 0 .. MaxBackoffs
  BY <1>2, <1>4, <1>5, <1>6, <1>7
  DEF OnlyRadio, RxSame, TxSame, Sound, Behind, Calm
<1>9. Freed(h, o) /\ RxReset(h, o)
  BY <1>8, HaltFacts
<1>10. mac' = [h EXCEPT !.cut = @ \/ mac.sending = "yes"]
  BY <1>1
<1> HIDE DEF h
<1>11. h \in Regs
  BY <1>9 DEF Freed, RadioOK
<1>12. CASE mac.sending # "yes"
  <2>1. mac' = [h EXCEPT !.cut = h.cut]
    BY <1>10, <1>11, <1>12 DEF Regs
  <2>2. mac' = h
    BY <1>11, <2>1 DEF Regs
  <2>3. o.sending = mac.sending
    BY <1>4, <1>7, <1>12 DEF OnlyRadio, RadioSame
  <2>4. TxOK(o, pc)
    BY <1>2, <1>8, <2>3, TxOKSame
  <2>5. Sound(o, pc)
    BY <1>8, <2>4 DEF Sound
  <2>6. Sound(h, pc) /\ Behind(h)
    BY <1>9, <2>5, FreedSound
  <2>7. RxOK(h) /\ ~h.isr /\ ~h.reset /\ h.awake
    BY <1>8, <1>9 DEF RxReset, RxOK
  <2> QED
    BY <1>2, <2>2, <2>6, <2>7 DEF Kept, LowLevelOK, Sound, AsleepOK
<1>13. CASE mac.sending = "yes"
  <2>1. mac' = [h EXCEPT !.cut = TRUE]
    BY <1>10, <1>13
  <2>2. mac.tx = "GO" /\ mac.timer = "none" /\ pc \notin Starting
    BY <1>2, <1>13 DEF TxOK
  <2>3. o.tx = "GO" /\ o.timer = "none" /\ o.sending = "no"
    BY <1>4, <1>6, <1>7, <1>8, <1>13, <2>2
    DEF TxSame, RadioSame, RxTxOff, Flush, Sound, RadioOK, Regs, o
  <2>4. TxSame(h, o) /\ h.sending = "no"
    BY <1>9, <2>3 DEF Freed
  <2>5. mac' \in Regs
    BY <1>11, <2>1 DEF Regs
  <2>6. RadioSame(mac', h)
    BY <1>11, <2>1 DEF Regs, RadioSame
  <2>7. RxSame(mac', h)
    BY <1>11, <2>1 DEF Regs, RxSame
  <2>8. /\ mac'.tx = h.tx /\ mac'.timer = h.timer /\ mac'.nb = h.nb
        /\ mac'.cut = TRUE
    BY <1>11, <2>1 DEF Regs
  <2>9. RadioOK(mac') /\ mac'.asserted
    BY <1>9, <2>5, <2>6 DEF Freed, RadioOK, RadioSame
  <2>10. TxOK(mac', pc)
    BY <1>2, <2>3, <2>4, <2>6, <2>8 DEF TxOK, TxSame, RadioSame, Starting
  <2>11. mac'.nb \in 0 .. MaxBackoffs /\ Behind(mac')
    BY <1>8, <2>3, <2>4, <2>8 DEF TxSame, Behind
  <2>12. RxOK(mac') /\ ~mac'.isr /\ ~mac'.reset /\ mac'.awake
    BY <1>8, <1>9, <2>7 DEF RxReset, RxSame, RxOK
  <2> QED
    BY <1>2, <2>9, <2>10, <2>11, <2>12 DEF Kept, LowLevelOK, AsleepOK
<1> QED
  BY <1>12, <1>13

LEMMA TxFrameKeeps ==
  ASSUME RadioInv, TxFrame
  PROVE  Kept
<1> DEFINE n == mac.owed + 1
<1>1. /\ mac' = [mac EXCEPT !.tx = "INIT", !.owed = n]
      /\ LowLevelOK(mac, pc) /\ mac \in Regs /\ mac.tx = "NO"
      /\ pc = "idle" /\ pc' = "init" /\ TxOK(mac, pc) /\ RadioOK(mac)
  BY DEF RadioInv, LowLevelOK, RadioOK, TxFrame
<1>2. mac.owed = 0 /\ ~mac.cut /\ mac.timer = "none" /\ mac.sending = "no"
  BY <1>1 DEF TxOK
<1>3. n = 1 /\ n \in Int
  BY <1>2
<1> HIDE DEF n
<1>4. mac' \in Regs
  BY <1>1, <1>3 DEF Regs
<1>5. RadioSame(mac', mac) /\ RxSame(mac', mac)
  BY <1>1 DEF Regs, RadioSame, RxSame
<1>6. /\ mac'.tx = "INIT" /\ mac'.owed = n /\ mac'.timer = mac.timer
      /\ mac'.cut = mac.cut /\ mac'.nb = mac.nb
  BY <1>1 DEF Regs
<1>7. RadioOK(mac')
  BY <1>1, <1>4, <1>5 DEF RadioOK, RadioSame
<1>8. TxOK(mac', "init")
  BY <1>2, <1>3, <1>5, <1>6 DEF TxOK, Starting, RadioSame
<1>9. /\ RxOK(mac') /\ Behind(mac') /\ AsleepOK(mac')
      /\ mac'.nb \in 0 .. MaxBackoffs
      /\ ~mac'.isr /\ ~mac'.reset /\ mac'.asserted
  BY <1>1, <1>5, <1>6
  DEF LowLevelOK, RxOK, Behind, AsleepOK, RxSame, RadioSame
<1> QED
  BY <1>1, <1>7, <1>8, <1>9 DEF Kept, LowLevelOK

\* An edit of the transmitter's flags.
LEMMA TxEditOK ==
  ASSUME NEW r, NEW p, LowLevelOK(r, p), NEW q, q \in Regs,
         RadioSame(q, r), RxSame(q, r), NEW n, TxOK(q, n),
         q.nb \in 0 .. MaxBackoffs, Behind(q),
         ~r.awake => q.tx \in {"NO", "INIT"}
  PROVE  LowLevelOK(q, n)
<1>1. RadioOK(q)
  BY DEF LowLevelOK, RadioOK, RadioSame
<1>2. RxOK(q) /\ AsleepOK(q) /\ ~q.isr /\ ~q.reset /\ q.asserted
  BY DEF LowLevelOK, RxOK, AsleepOK, RxSame, RadioSame
<1> QED
  BY <1>1, <1>2 DEF LowLevelOK

LEMMA TxPrepareKeeps ==
  ASSUME RadioInv, TxPrepare
  PROVE  Kept
<1>1. /\ LowLevelOK(mac, pc) /\ mac \in Regs /\ TxOK(mac, pc)
      /\ RadioOK(mac) /\ pc = "init" /\ RxOK(mac) /\ AsleepOK(mac)
      /\ ~mac.isr /\ ~mac.reset /\ mac.asserted
  BY DEF RadioInv, LowLevelOK, RadioOK, TxPrepare
<1>2. /\ mac.tx = "INIT" /\ mac.owed = 1 /\ ~mac.cut /\ mac.timer = "none"
      /\ mac.sending = "no"
  BY <1>1 DEF TxOK
<1>3. CASE mac.awake
  <2>1. /\ pc' = "loaded"
        /\ \E a \in BOOLEAN : mac' = [mac EXCEPT !.nb = 0, !.ackReq = a]
    BY <1>3 DEF TxPrepare
  <2>2. PICK a \in BOOLEAN : mac' = [mac EXCEPT !.nb = 0, !.ackReq = a]
    BY <2>1
  <2>3. mac' \in Regs
    <3> DEFINE z == 0
    <3>1. z \in Int
      OBVIOUS
    <3>2. mac' = [mac EXCEPT !.nb = z, !.ackReq = a]
      BY <2>2
    <3> HIDE DEF z
    <3> QED
      BY <1>1, <3>1, <3>2 DEF Regs
  <2>4. RadioSame(mac', mac) /\ RxSame(mac', mac)
    BY <1>1, <2>2 DEF Regs, RadioSame, RxSame
  <2>5. /\ mac'.tx = mac.tx /\ mac'.owed = mac.owed
        /\ mac'.timer = mac.timer /\ mac'.cut = mac.cut /\ mac'.nb = 0
    BY <1>1, <2>2 DEF Regs
  <2>6. TxOK(mac', "loaded")
    BY <1>2, <2>4, <2>5 DEF TxOK, Starting, RadioSame
  <2>7. mac'.nb \in 0 .. MaxBackoffs
    BY <2>5, RadioAssumption DEF RadioAssumption
  <2>8. Behind(mac') /\ mac'.awake
    BY <1>2, <1>3, <2>4, <2>5 DEF Behind, RxSame
  <2> QED
    BY <1>1, <1>3, <2>1, <2>3, <2>4, <2>6, <2>7, <2>8, TxEditOK DEF Kept
<1>4. CASE ~mac.awake
  <2>1. PICK short \in BOOLEAN : mac' = txComplete(mac, short)
    BY <1>4 DEF TxPrepare
  <2>2. pc' = "idle"
    BY <1>4 DEF TxPrepare
  <2>3. Completed(mac', mac)
    BY <1>1, <1>2, <2>1, CompleteFacts
  <2>4. /\ RxOK(mac') /\ ~mac'.isr /\ ~mac'.reset
        /\ mac'.enable = mac.enable /\ mac'.awake = mac.awake
        /\ mac.rxActive = "NO" /\ ~mac.outAck
             => mac'.rxActive = "NO" /\ ~mac'.outAck
    BY <1>1, <2>3, RxAfterOK DEF Completed
  <2>5. mac'.owed = 0
    BY <1>2, <2>3 DEF Completed
  <2>6. TxOK(mac', "idle")
    BY <1>2, <2>3, <2>5 DEF TxOK, Completed, Starting
  <2>7. mac'.nb \in 0 .. MaxBackoffs
    BY <2>3, RadioAssumption DEF RadioAssumption, Completed
  <2>8. Behind(mac') /\ AsleepOK(mac')
    BY <1>1, <1>4, <2>3, <2>4 DEF Behind, AsleepOK, Completed
  <2> QED
    BY <2>2, <2>3, <2>4, <2>6, <2>7, <2>8
    DEF Kept, LowLevelOK, Completed
<1> QED
  BY <1>3, <1>4

\* The transmit starts or is queued behind the receive that is under way.
LEMMA TxGoOrQueueKeeps ==
  ASSUME RadioInv, TxGoOrQueue
  PROVE  Kept
<1>1. /\ LowLevelOK(mac, pc) /\ mac \in Regs /\ TxOK(mac, pc)
      /\ pc = "loaded" /\ mac.awake /\ mac.nb \in 0 .. MaxBackoffs
  BY DEF RadioInv, LowLevelOK, RadioOK, TxGoOrQueue
<1>2. /\ mac.tx = "INIT" /\ mac.owed = 1 /\ ~mac.cut /\ mac.timer = "none"
      /\ mac.sending = "no"
  BY <1>1 DEF TxOK
<1>3. PICK t \in {"GO", "QUEUED"} :
        /\ mac' = [mac EXCEPT !.tx = t]
        /\ pc' = IF t = "GO" THEN "go" ELSE "idle"
        /\ t = "QUEUED" => mac.rxActive # "NO" \/ mac.outAck
  BY DEF TxGoOrQueue
<1>4. mac' \in Regs
  BY <1>1, <1>3 DEF Regs
<1>5. RadioSame(mac', mac) /\ RxSame(mac', mac)
  BY <1>1, <1>3 DEF Regs, RadioSame, RxSame
<1>6. /\ mac'.tx = t /\ mac'.owed = mac.owed /\ mac'.timer = mac.timer
      /\ mac'.cut = mac.cut /\ mac'.nb = mac.nb
  BY <1>1, <1>3 DEF Regs
<1>7. TxOK(mac', pc')
  BY <1>2, <1>3, <1>5, <1>6 DEF TxOK, Starting, RadioSame
<1>8. Behind(mac')
  BY <1>3, <1>5, <1>6 DEF Behind, RxSame
<1>9. LowLevelOK(mac', pc')
  BY <1>1, <1>4, <1>5, <1>6, <1>7, <1>8, TxEditOK
<1> QED
  BY <1>3, <1>9 DEF Kept

LEMMA TxGoKeeps ==
  ASSUME RadioInv, TxGo
  PROVE  Kept
<1>1. /\ mac \in Regs /\ Sound(mac, pc) /\ RxOK(mac) /\ AsleepOK(mac)
      /\ ~mac.isr /\ ~mac.reset /\ pc = "go" /\ pc' = "csma"
      /\ mac' = [mac EXCEPT !.outAck = FALSE]
  BY DEF RadioInv, LowLevelOK, RadioOK, Sound, TxGo
<1>2. mac' \in Regs
  BY <1>1 DEF Regs
<1>3. RadioSame(mac', mac) /\ TxSame(mac', mac)
  BY <1>1 DEF Regs, RadioSame, TxSame
<1>4. /\ mac'.rxActive = mac.rxActive /\ mac'.outAck = FALSE
      /\ mac'.rxState = mac.rxState /\ mac'.left = mac.left
      /\ mac'.buf = mac.buf /\ mac'.isr = mac.isr /\ mac'.reset = mac.reset
      /\ mac'.awake = mac.awake /\ mac'.enable = mac.enable
  BY <1>1 DEF Regs
<1>5. Sound(mac', pc) /\ mac.tx = "GO"
  BY <1>1, <1>2, <1>3, EditSound DEF Sound, TxOK, Starting
<1>6. TxOK(mac', "csma")
  BY <1>1, <1>5 DEF Sound, TxOK, Starting
<1>7. /\ RxOK(mac') /\ Behind(mac') /\ AsleepOK(mac') /\ ~mac'.isr
      /\ ~mac'.reset
  BY <1>1, <1>3, <1>4, <1>5 DEF RxOK, Behind, AsleepOK, TxSame, RadioSame
<1> QED
  BY <1>1, <1>5, <1>6, <1>7 DEF Kept, LowLevelOK, Sound

LEMMA TxSavePowerKeeps ==
  ASSUME RadioInv, TxSavePower
  PROVE  Kept
<1> DEFINE q == SavePower(mac)
<1>1. /\ LowLevelOK(mac, pc) /\ RadioOK(mac) /\ TxOK(mac, pc)
      /\ AsleepOK(mac) /\ pc = "csma" /\ pc' = "delay" /\ mac' = q
  BY DEF RadioInv, LowLevelOK, TxSavePower
<1>2. mac.tx = "GO" /\ mac.sending = "no" /\ mac.awake
  BY <1>1 DEF TxOK, Starting, AsleepOK
<1>3. OnlyRadio(q, mac)
  BY <1>1, SavePowerFacts
<1> HIDE DEF q
<1>4. LowLevelOK(q, pc)
  BY <1>1, <1>2, <1>3, OnlyRadioOK DEF OnlyRadio
<1>5. TxOK(q, "delay")
  BY <1>1, <1>4 DEF LowLevelOK, TxOK, Starting
<1> QED
  BY <1>1, <1>4, <1>5 DEF Kept, LowLevelOK

LEMMA TxStartBackoffKeeps ==
  ASSUME RadioInv, TxStartBackoff
  PROVE  Kept
<1>1. PICK short \in BOOLEAN : mac' = StartBackoff(mac, short)
  BY DEF TxStartBackoff
<1>2. /\ LowLevelOK(mac, pc) /\ RadioOK(mac) /\ TxOK(mac, pc)
      /\ AsleepOK(mac) /\ pc = "delay" /\ pc' = "idle" /\ RxOK(mac)
      /\ ~mac.isr /\ ~mac.reset /\ mac.asserted
      /\ mac.nb \in 0 .. MaxBackoffs
  BY DEF RadioInv, LowLevelOK, TxStartBackoff
<1>3. /\ mac.tx = "GO" /\ mac.sending = "no" /\ mac.awake /\ ~mac.cut
      /\ mac.owed = 1
  BY <1>2 DEF TxOK, Starting, AsleepOK
<1>4. Delayed(mac', mac)
  BY <1>1, <1>2, StartBackoffFacts
<1>5. TxOK(mac', "idle")
  BY <1>3, <1>4 DEF TxOK, Starting, Delayed
<1>6. /\ RxOK(mac') /\ ~mac'.isr /\ ~mac'.reset /\ Behind(mac')
      /\ AsleepOK(mac')
  BY <1>2, <1>3, <1>4 DEF Delayed, RxSame, RxOK, Behind, AsleepOK
<1> QED
  BY <1>2, <1>4, <1>5, <1>6 DEF Kept, LowLevelOK, Delayed

-----------------------------------------------------------------------------
(* The service routines *)

LEMMA AckDoneIsrKeeps ==
  ASSUME RadioInv, AckDoneIsr
  PROVE  Kept
<1> DEFINE s == [mac EXCEPT !.ack = "none"]
           t == [s EXCEPT !.outAck = FALSE]
<1>1. PICK short \in BOOLEAN :
        mac' = IF t.rxActive = "NO" THEN rxPostRxUpdates(t, short) ELSE t
  BY DEF AckDoneIsr, macRxAckTxDoneCallback
<1>2. /\ mac \in Regs /\ Sound(mac, pc) /\ RxOK(mac) /\ AsleepOK(mac)
      /\ ~mac.isr /\ ~mac.reset /\ pc' = pc /\ (pc = "loaded" => mac.awake)
  BY DEF RadioInv, LowLevelOK, RadioOK, Sound, AckDoneIsr
<1>3. s \in Regs
  BY <1>2 DEF Regs
<1>4. t \in Regs
  BY <1>3 DEF Regs
<1>5. /\ t.fifo = mac.fifo /\ t.overflow = mac.overflow /\ t.air = mac.air
      /\ t.on = mac.on /\ t.ack = "none" /\ t.sending = mac.sending
      /\ t.asserted = mac.asserted
  BY <1>2 DEF Regs
<1>6. TxSame(t, mac)
  BY <1>2 DEF Regs, TxSame
<1>7. /\ t.rxActive = mac.rxActive /\ t.outAck = FALSE
      /\ t.rxState = mac.rxState /\ t.left = mac.left /\ t.buf = mac.buf
      /\ t.isr = mac.isr /\ t.reset = mac.reset /\ t.enable = mac.enable
      /\ t.awake = mac.awake
  BY <1>2 DEF Regs
<1> HIDE DEF s, t
<1>8. RadioOK(t)
  BY <1>2, <1>4, <1>5 DEF Sound, RadioOK
<1>9. TxOK(t, pc)
  BY <1>2, <1>5, <1>6, TxOKSame DEF Sound
<1>10. Sound(t, pc)
  BY <1>2, <1>5, <1>6, <1>8, <1>9 DEF Sound, TxSame
<1>11. RxOK(t) /\ AsleepOK(t)
  BY <1>2, <1>5, <1>6, <1>7 DEF RxOK, AsleepOK, TxSame
<1>12. CASE t.rxActive # "NO"
  <2>1. mac' = t /\ Behind(t)
    BY <1>1, <1>12 DEF Behind
  <2> QED
    BY <1>2, <1>7, <1>10, <1>11, <2>1 DEF Kept, LowLevelOK, Sound
<1>13. CASE t.rxActive = "NO"
  <2>1. t.asserted /\ Calm(t)
    BY <1>9, <1>10, TxOKCalm DEF Sound
  <2>2. Freed(mac', t) /\ RxSame(mac', t)
    BY <1>1, <1>7, <1>8, <1>13, <2>1, PostRxFacts
  <2>3. Sound(mac', pc) /\ Behind(mac')
    BY <1>10, <2>2, FreedSound
  <2>4. RxOK(mac') /\ ~mac'.isr /\ ~mac'.reset /\ mac'.awake = mac.awake
    BY <1>2, <1>7, <1>11, <2>2 DEF RxSame, RxOK
  <2>5. AsleepOK(mac')
    BY <1>11, <2>2 DEF Freed, RxSame, TxSame, AsleepOK
  <2> QED
    BY <1>2, <2>3, <2>4, <2>5 DEF Kept, LowLevelOK, Sound
<1> QED
  BY <1>12, <1>13

\* A state in which the transmit has been reported, and the receiver perhaps
\* reset for the channel.
LEMMA CompletedOK ==
  ASSUME NEW r, NEW q, NEW p, Completed(q, r), RxOK(r), ~r.isr, ~r.reset,
         r.awake, r.timer = "none", r.sending = "no", r.owed = 1, ~r.cut,
         p \notin Starting \cup {"init", "loaded"}
  PROVE  LowLevelOK(q, p) /\ q.awake
<1>1. RxOK(q) /\ ~q.isr /\ ~q.reset /\ q.awake
  BY RxAfterOK DEF Completed
<1>2. q.owed = 0
  BY DEF Completed
<1>3. TxOK(q, p)
  BY <1>2 DEF TxOK, Completed, Starting
<1>4. q.nb \in 0 .. MaxBackoffs
  BY RadioAssumption DEF RadioAssumption, Completed
<1>5. Behind(q) /\ AsleepOK(q)
  BY <1>1 DEF Behind, AsleepOK, Completed
<1> QED
  BY <1>1, <1>3, <1>4, <1>5 DEF LowLevelOK, Completed

LEMMA FrmDoneIsrKeeps ==
  ASSUME RadioInv, FrmDoneIsr
  PROVE  Kept
<1> DEFINE s == [mac EXCEPT !.sending = "no"]
           d == [s EXCEPT !.tx = "DONE"]
           l == [s EXCEPT !.tx = "LISTEN", !.timer = "AckWait"]
<1>1. PICK short \in BOOLEAN : mac' = macTxDoneCallback(s, short)
  BY DEF FrmDoneIsr
<1>2. /\ LowLevelOK(mac, pc) /\ mac \in Regs /\ RadioOK(mac)
      /\ TxOK(mac, pc) /\ RxOK(mac) /\ AsleepOK(mac) /\ mac.asserted
      /\ ~mac.isr /\ ~mac.reset /\ pc' = pc /\ mac.sending = "done"
      /\ mac.nb \in 0 .. MaxBackoffs
  BY DEF RadioInv, LowLevelOK, RadioOK, FrmDoneIsr
<1>3. /\ mac.tx = "GO" /\ mac.timer = "none" /\ ~mac.cut /\ mac.owed = 1
      /\ pc \notin Starting \cup {"init", "loaded"} /\ mac.awake
  BY <1>2 DEF TxOK, AsleepOK
<1>4. s \in Regs
  BY <1>2 DEF Regs
<1>5. /\ s.fifo = mac.fifo /\ s.overflow = mac.overflow /\ s.air = mac.air
      /\ s.on = mac.on /\ s.ack = mac.ack /\ s.sending = "no"
      /\ s.asserted = mac.asserted
  BY <1>2 DEF Regs
<1>6. RxSame(s, mac) /\ TxSame(s, mac)
  BY <1>2 DEF Regs, RxSame, TxSame
<1>7. mac' = IF s.ackReq THEN l ELSE txComplete(d, short)
  BY <1>1, <1>2, <1>3 DEF macTxDoneCallback, Regs
<1> HIDE DEF s
<1>8. RadioOK(s)
  BY <1>2, <1>4, <1>5 DEF RadioOK
<1>9. CASE s.ackReq
  <2>1. mac' = l
    BY <1>7, <1>9
  <2>2. l \in Regs
    BY <1>4 DEF Regs
  <2>3. /\ RadioSame(l, s) /\ l.tx = "LISTEN" /\ l.timer = "AckWait"
        /\ l.cut = s.cut /\ l.owed = s.owed /\ l.nb = s.nb
    BY <1>4 DEF Regs, RadioSame
  <2>4. RxSame(l, s)
    BY <1>4 DEF Regs, RxSame
  <2> HIDE DEF l
  <2>5. RadioOK(l)
    BY <1>8, <2>2, <2>3 DEF RadioOK, RadioSame
  <2>6. TxOK(l, pc)
    BY <1>3, <1>5, <1>6, <2>3 DEF TxOK, TxSame, RadioSame
  <2>7. /\ RxOK(l) /\ Behind(l) /\ AsleepOK(l) /\ ~l.isr /\ ~l.reset
        /\ l.asserted /\ l.nb \in 0 .. MaxBackoffs
    BY <1>2, <1>3, <1>5, <1>6, <2>3, <2>4
    DEF RxOK, Behind, AsleepOK, RxSame, TxSame, RadioSame
  <2> QED
    BY <1>2, <1>3, <2>1, <2>5, <2>6, <2>7 DEF Kept, LowLevelOK
<1>10. CASE ~s.ackReq
  <2>1. mac' = txComplete(d, short)
    BY <1>7, <1>10
  <2>2. d \in Regs
    BY <1>4 DEF Regs
  <2>3. /\ RadioSame(d, s) /\ d.timer = s.timer
        /\ d.cut = s.cut /\ d.owed = s.owed
    BY <1>4 DEF Regs, RadioSame
  <2>4. RxSame(d, s)
    BY <1>4 DEF Regs, RxSame
  <2> HIDE DEF d
  <2>5. RadioOK(d) /\ d.asserted
    BY <1>2, <1>5, <1>8, <2>2, <2>3 DEF RadioOK, RadioSame
  <2>6. /\ RxOK(d) /\ ~d.isr /\ ~d.reset /\ d.awake /\ d.timer = "none"
        /\ d.sending = "no" /\ d.owed = 1 /\ ~d.cut
    BY <1>2, <1>3, <1>5, <1>6, <2>3, <2>4
    DEF RxOK, RxSame, TxSame, RadioSame
  <2>7. Completed(mac', d)
    BY <2>1, <2>5, <2>6, CompleteFacts
  <2>8. LowLevelOK(mac', pc)
    BY <1>3, <2>6, <2>7, CompletedOK
  <2> QED
    BY <1>2, <1>3, <2>8 DEF Kept
<1> QED
  BY <1>9, <1>10

LEMMA ThresholdIsrKeeps ==
  ASSUME RadioInv, ThresholdIsr
  PROVE  Kept
<1> DEFINE r == [mac EXCEPT !.isr = TRUE]
<1>1. PICK short \in BOOLEAN : RxRoutine(r, short)
  BY DEF ThresholdIsr
<1>2. /\ mac \in Regs /\ Sound(mac, pc) /\ RxOK(mac) /\ Behind(mac)
      /\ mac.awake /\ pc' = pc
  BY DEF RadioInv, LowLevelOK, RadioOK, Sound, ThresholdIsr
<1>3. r \in Regs
  BY <1>2 DEF Regs
<1>4. RadioSame(r, mac) /\ TxSame(r, mac)
  BY <1>2 DEF Regs, RadioSame, TxSame
<1>5. /\ r.rxActive = mac.rxActive /\ r.outAck = mac.outAck
      /\ r.rxState = mac.rxState /\ r.left = mac.left /\ r.buf = mac.buf
      /\ r.isr = TRUE /\ r.awake = mac.awake
  BY <1>2 DEF Regs
<1> HIDE DEF r
<1>6. Sound(r, pc)
  BY <1>2, <1>3, <1>4, EditSound
<1>7. Ended(r, pc) /\ Running(r)
  BY <1>2, <1>4, <1>5, <1>6 DEF Ended, Running, RxOK, Behind, TxSame
<1>8. r.fifo \in Seq(Sections)
  BY <1>3 DEF Regs
<1>9. r.fifo # <<>> => Head(r.fifo) \in Sections
  BY <1>8
<1>10. HeadersRead(r) \subseteq Headers
  BY <1>9 DEF HeadersRead, Sections
<1>11. /\ Read(r, "body") \subseteq BOOLEAN /\ Read(r, "fcs") \subseteq BOOLEAN
  BY <1>9 DEF Read, Sections
<1>12. \E q : Ended(q, pc) /\ Running(q) /\ mac' = ThresholdEnd(q, short)
  <2>1. CASE /\ r.rxState = "start"
             /\ \E h \in HeadersRead(r), alloc \in BOOLEAN :
                  mac' = ThresholdEnd(rxStartIsr(r, h, alloc, short), short)
    BY <1>7, <1>10, <2>1, StartFacts
  <2>2. CASE /\ r.rxState = "body"
             /\ \E ok \in Read(r, "body") :
                  mac' = ThresholdEnd(rxBodyIsr(r, ok, short), short)
    BY <1>7, <1>11, <2>2, BodyFacts
  <2>3. CASE /\ r.rxState = "fcs"
             /\ \E ok \in Read(r, "fcs") :
                  mac' = ThresholdEnd(rxFcsIsr(r, ok, short), short)
    BY <1>7, <1>11, <2>3, FcsFacts
  <2>4. CASE /\ r.rxState = "discard"
             /\ mac' = ThresholdEnd(rxDiscardIsr(r, short), short)
    BY <1>7, <2>4, DiscardFacts
  <2> QED
    BY <1>1, <2>1, <2>2, <2>3, <2>4 DEF RxRoutine
<1>13. LowLevelOK(mac', pc) /\ mac'.awake
  BY <1>12, ThresholdEndFacts
<1> QED
  BY <1>2, <1>13 DEF Kept

LEMMA OverflowIsrKeeps ==
  ASSUME RadioInv, OverflowIsr
  PROVE  Kept
<1>1. PICK short \in BOOLEAN : mac' = macRxHaltCleanup(mac, short)
  BY DEF OverflowIsr
<1>2. /\ LowLevelOK(mac, pc) /\ RadioOK(mac) /\ Sound(mac, pc)
      /\ Behind(mac) /\ mac.asserted /\ Calm(mac) /\ ~mac.isr /\ ~mac.reset
      /\ pc' = pc /\ mac.overflow /\ AsleepOK(mac)
  BY TxOKCalm DEF RadioInv, LowLevelOK, Sound, OverflowIsr
<1>3. mac.awake
  BY <1>2 DEF RadioOK, AsleepOK
<1>4. Freed(mac', mac) /\ RxReset(mac', mac)
  BY <1>1, <1>2, HaltFacts
<1>5. Sound(mac', pc) /\ Behind(mac')
  BY <1>2, <1>4, FreedSound
<1>6. RxOK(mac') /\ ~mac'.isr /\ ~mac'.reset /\ mac'.awake
  BY <1>2, <1>3, <1>4 DEF RxReset, RxOK
<1> QED
  BY <1>2, <1>5, <1>6 DEF Kept, LowLevelOK, Sound, AsleepOK

\* A busy channel starts the next backoff or ends the transmit.
LEMMA ChannelBusyFacts ==
  ASSUME NEW r, NEW p, RadioOK(r), RxOK(r), r.asserted, ~r.isr, ~r.reset,
         r.awake, r.nb \in 0 .. MaxBackoffs, r.timer = "none",
         r.sending = "no", r.owed = 1, ~r.cut,
         p \notin Starting \cup {"init", "loaded"}, NEW short \in BOOLEAN
  PROVE  LowLevelOK(macTxChannelBusyCallback(r, short), p)
<1> DEFINE n == r.nb + 1
           s == [r EXCEPT !.tx = "BUSY", !.nb = n]
           o == macRxOffRequest(s)
           g == [o EXCEPT !.tx = "GO"]
           q == macTxChannelBusyCallback(r, short)
<1>1. q = IF o.nb > MaxBackoffs THEN txComplete(o, short)
                                ELSE macDualchipTxGoCsma(g, short)
  BY DEF macTxChannelBusyCallback
<1>2. r \in Regs /\ n \in Int /\ n >= 0
  BY RadioAssumption DEF RadioOK, RadioAssumption
<1> HIDE DEF n, q
<1>3. s \in Regs
  BY <1>2 DEF Regs
<1>4. /\ RadioSame(s, r) /\ s.tx = "BUSY" /\ s.nb = n
      /\ s.timer = r.timer /\ s.owed = r.owed /\ s.cut = r.cut
  BY <1>2 DEF Regs, RadioSame
<1>5. RxSame(s, r)
  BY <1>2 DEF Regs, RxSame
<1> HIDE DEF s
<1>6. RadioOK(s)
  BY <1>3, <1>4 DEF RadioOK, RadioSame
<1>7. OnlyRadio(o, s)
  BY <1>6, OffRequestFacts
<1> HIDE DEF o
<1>8. /\ RadioOK(o) /\ o \in Regs /\ o.asserted /\ o.sending = "no"
      /\ o.nb = n /\ o.timer = "none" /\ o.owed = 1 /\ ~o.cut
  BY <1>4, <1>7 DEF OnlyRadio, TxSame, RadioSame, RadioOK
<1>9. RxSame(o, r)
  BY <1>5, <1>7 DEF OnlyRadio, RxSame
<1>10. RxOK(o) /\ ~o.isr /\ ~o.reset /\ o.awake
  BY <1>9 DEF RxSame, RxOK
<1>11. CASE o.nb > MaxBackoffs
  <2>1. Completed(q, o)
    BY <1>1, <1>8, <1>11, CompleteFacts
  <2> QED
    BY <1>8, <1>10, <2>1, CompletedOK DEF q
<1>12. CASE ~(o.nb > MaxBackoffs)
  <2>1. q = macDualchipTxGoCsma(g, short)
    BY <1>1, <1>12
  <2>2. g \in Regs
    BY <1>8 DEF Regs
  <2>3. /\ RadioSame(g, o) /\ g.tx = "GO" /\ g.nb = o.nb
        /\ g.owed = o.owed /\ g.cut = o.cut
    BY <1>8 DEF Regs, RadioSame
  <2>4. RxSame(g, o)
    BY <1>8 DEF Regs, RxSame
  <2> HIDE DEF g
  <2>5. RadioOK(g) /\ g.sending = "no"
    BY <1>8, <2>2, <2>3 DEF RadioOK, RadioSame
  <2>6. Delayed(q, g)
    BY <2>1, <2>5, GoCsmaFacts
  <2>7. /\ RadioOK(q) /\ q.tx = "GO" /\ q.nb = n /\ q.owed = 1 /\ ~q.cut
        /\ q.sending = "no" /\ q.timer \in {"RxOn", "Cca"} /\ q.asserted
    BY <1>8, <2>3, <2>5, <2>6 DEF Delayed, RadioSame
  <2>8. TxOK(q, p)
    BY <2>7 DEF TxOK
  <2>9. q.nb \in 0 .. MaxBackoffs
    BY <1>2, <1>8, <1>12, <2>7, RadioAssumption DEF RadioAssumption
  <2>10. /\ RxOK(q) /\ ~q.isr /\ ~q.reset /\ q.awake
    BY <1>10, <2>4, <2>6 DEF Delayed, RxSame, RxOK
  <2>11. Behind(q) /\ AsleepOK(q)
    BY <2>7, <2>10 DEF Behind, AsleepOK
  <2> QED
    BY <2>7, <2>8, <2>9, <2>10, <2>11 DEF LowLevelOK, q
<1> QED
  BY <1>11, <1>12

LEMMA TimerIsrKeeps ==
  ASSUME RadioInv, TimerIsr
  PROVE  Kept
<1> DEFINE f == [mac EXCEPT !.timer = "none"]
           o == macRxOn(mac)
<1>1. PICK short \in BOOLEAN :
        \/ mac.timer = "RxOn" /\ mac' = [o EXCEPT !.timer = "Cca"]
        \/ /\ mac.timer = "Cca"
           /\ mac' = [f EXCEPT !.on = TRUE, !.sending = "yes"]
        \/ mac.timer = "Cca" /\ mac' = macTxChannelBusyCallback(f, short)
        \/ mac.timer = "AckWait" /\ mac' = ListenOver(f, short)
  BY DEF TimerIsr
<1>2. /\ LowLevelOK(mac, pc) /\ mac \in Regs /\ RadioOK(mac)
      /\ TxOK(mac, pc) /\ RxOK(mac) /\ AsleepOK(mac) /\ mac.asserted
      /\ ~mac.isr /\ ~mac.reset /\ pc' = pc
      /\ mac.nb \in 0 .. MaxBackoffs
  BY DEF RadioInv, LowLevelOK, RadioOK, TimerIsr
<1>3. /\ mac.timer # "none" /\ mac.sending = "no" /\ ~mac.cut
      /\ mac.owed = 1 /\ mac.awake /\ mac.tx \in {"GO", "LISTEN"}
      /\ mac.timer = "AckWait" <=> mac.tx = "LISTEN"
      /\ pc \notin Starting \cup {"init", "loaded"}
  BY <1>1, <1>2 DEF TxOK, AsleepOK
<1>4. f \in Regs
  BY <1>2 DEF Regs
<1>5. /\ RadioSame(f, mac) /\ f.timer = "none" /\ f.tx = mac.tx
      /\ f.cut = mac.cut /\ f.owed = mac.owed /\ f.nb = mac.nb
  BY <1>2 DEF Regs, RadioSame
<1>6. RxSame(f, mac)
  BY <1>2 DEF Regs, RxSame
<1> HIDE DEF f
<1>7. RadioOK(f) /\ f.sending = "no"
  BY <1>2, <1>3, <1>4, <1>5 DEF RadioOK, RadioSame
<1>8. /\ RxOK(f) /\ f.asserted /\ ~f.isr /\ ~f.reset /\ f.awake
  BY <1>2, <1>3, <1>5, <1>6 DEF RxSame, RxOK, RadioSame
<1>9. CASE mac.timer = "RxOn" /\ mac' = [o EXCEPT !.timer = "Cca"]
  <2>1. OnlyRadio(o, mac) /\ o.sending = mac.sending
    BY <1>2, OnFacts
  <2> HIDE DEF o
  <2>2. LowLevelOK(o, pc) /\ o \in Regs /\ TxOK(o, pc) /\ o.awake
          /\ o.tx = "GO" /\ o.timer = "RxOn" /\ o.sending = "no"
    BY <1>2, <1>3, <1>9, <2>1, OnlyRadioOK
    DEF LowLevelOK, RadioOK, OnlyRadio, RxSame, TxSame
  <2>3. mac' \in Regs
    BY <1>9, <2>2 DEF Regs
  <2>4. RadioSame(mac', o) /\ RxSame(mac', o)
    BY <1>9, <2>2 DEF Regs, RadioSame, RxSame
  <2>5. /\ mac'.tx = o.tx /\ mac'.timer = "Cca" /\ mac'.nb = o.nb
        /\ mac'.cut = o.cut /\ mac'.owed = o.owed
    BY <1>9, <2>2 DEF Regs
  <2>6. TxOK(mac', pc)
    BY <1>3, <2>2, <2>4, <2>5 DEF TxOK, RadioSame
  <2>7. Behind(mac') /\ mac'.nb \in 0 .. MaxBackoffs
    BY <2>2, <2>5 DEF Behind, LowLevelOK
  <2>8. LowLevelOK(mac', pc)
    BY <2>2, <2>3, <2>4, <2>6, <2>7, TxEditOK
  <2> QED
    BY <1>2, <1>3, <2>8 DEF Kept
<1>10. CASE /\ mac.timer = "Cca"
            /\ mac' = [f EXCEPT !.on = TRUE, !.sending = "yes"]
  <2>1. mac' \in Regs
    BY ZenonT(90), <1>4, <1>10 DEF Regs
  <2>2. /\ mac'.fifo = f.fifo /\ mac'.air = f.air /\ mac'.on = TRUE
        /\ mac'.sending = "yes" /\ mac'.asserted = f.asserted
    BY <1>4, <1>10 DEF Regs
  <2>3. RxSame(mac', f) /\ TxSame(mac', f)
    BY <1>4, <1>10 DEF Regs, RxSame, TxSame
  <2>4. RadioOK(mac')
    BY <1>7, <2>1, <2>2 DEF RadioOK
  <2>5. TxOK(mac', pc)
    BY <1>3, <1>5, <1>10, <2>2, <2>3 DEF TxOK, TxSame
  <2>6. /\ RxOK(mac') /\ Behind(mac') /\ AsleepOK(mac') /\ ~mac'.isr
        /\ ~mac'.reset /\ mac'.asserted /\ mac'.nb \in 0 .. MaxBackoffs
    BY <1>2, <1>3, <1>5, <1>8, <1>10, <2>2, <2>3
    DEF RxSame, TxSame, RxOK, Behind, AsleepOK
  <2> QED
    BY <1>2, <1>3, <2>4, <2>5, <2>6 DEF Kept, LowLevelOK
<1>11. CASE /\ mac.timer = "Cca"
            /\ mac' = macTxChannelBusyCallback(f, short)
  <2>1. LowLevelOK(mac', pc)
    BY <1>2, <1>3, <1>5, <1>7, <1>8, <1>11, ChannelBusyFacts
  <2> QED
    BY <1>2, <1>3, <2>1 DEF Kept
<1>12. CASE mac.timer = "AckWait" /\ mac' = ListenOver(f, short)
  <2>1. f.tx = "LISTEN" /\ f.owed = 1 /\ ~f.cut /\ f.nb \in 0 .. MaxBackoffs
    BY <1>2, <1>3, <1>5, <1>12
  <2>2. Sound(mac', pc) /\ RxAfter(mac', f) /\ mac'.tx = "NO"
    BY <1>3, <1>7, <1>8, <1>12, <2>1, ListenOverFacts
  <2>3. RxOK(mac') /\ ~mac'.isr /\ ~mac'.reset /\ mac'.awake
    BY <1>8, <2>2, RxAfterOK
  <2> QED
    BY <1>2, <1>3, <2>2, <2>3
    DEF Kept, LowLevelOK, Sound, AsleepOK, Behind
<1> QED
  BY <1>1, <1>9, <1>10, <1>11, <1>12

-----------------------------------------------------------------------------
(* The radio *)

LEMMA FrameBeginsKeeps ==
  ASSUME RadioInv, FrameBegins
  PROVE  Kept
<1>1. PICK h \in Headers : mac' = [mac EXCEPT !.air = SectionsOf(h)]
  BY DEF FrameBegins
<1>2. /\ LowLevelOK(mac, pc) /\ mac \in Regs /\ RadioOK(mac) /\ mac.on
      /\ TxOK(mac, pc) /\ pc' = pc /\ (pc = "loaded" => mac.awake)
  BY DEF RadioInv, LowLevelOK, RadioOK, FrameBegins
<1> DEFINE a == SectionsOf(h)
<1>3. a \in Seq(Sections) /\ Len(a) <= 3
  <2> DEFINE x == [part |-> "header", header |-> h]
             y == [part |-> "body", ok |-> h.sec]
             z == [part |-> "fcs", ok |-> h.crc]
  <2>1. x \in Sections /\ y \in Sections /\ z \in Sections
    BY DEF Sections, Headers
  <2>2. a = IF h.kind = "data" THEN <<x, y, z>> ELSE <<x>>
    BY DEF SectionsOf
  <2> HIDE DEF a, x, y, z
  <2>3. /\ <<x, y, z>> \in Seq(Sections) /\ Len(<<x, y, z>>) = 3
        /\ <<x>> \in Seq(Sections) /\ Len(<<x>>) = 1
    BY <2>1
  <2> QED
    BY <2>2, <2>3
<1>4. mac' = [mac EXCEPT !.air = a]
  BY <1>1
<1> HIDE DEF a
<1>5. mac' \in Regs
  BY <1>2, <1>3, <1>4 DEF Regs
<1>6. /\ mac'.fifo = mac.fifo /\ mac'.air = a /\ mac'.on = mac.on
      /\ mac'.sending = mac.sending /\ mac'.asserted = mac.asserted
      /\ mac'.retune = mac.retune
  BY <1>2, <1>4 DEF Regs
<1>7. RxSame(mac', mac) /\ TxSame(mac', mac)
  BY <1>2, <1>4 DEF Regs, RxSame, TxSame
<1>8. RadioOK(mac')
  BY <1>2, <1>3, <1>5, <1>6 DEF RadioOK
<1>9. OnlyRadio(mac', mac)
  BY <1>6, <1>7, <1>8 DEF OnlyRadio
<1>10. mac.awake
  BY <1>2 DEF LowLevelOK, AsleepOK
<1>11. LowLevelOK(mac', pc)
  BY <1>2, <1>6, <1>9, <1>10, OnlyRadioOK
<1> QED
  BY <1>2, <1>7, <1>10, <1>11 DEF Kept, RxSame

LEMMA SectionArrivesKeeps ==
  ASSUME RadioInv, SectionArrives
  PROVE  Kept
<1>1. /\ LowLevelOK(mac, pc) /\ mac \in Regs /\ RadioOK(mac)
      /\ pc' = pc /\ (pc = "loaded" => mac.awake) /\ mac.air # <<>>
      /\ mac.air \in Seq(Sections) /\ mac.fifo \in Seq(Sections)
      /\ Len(mac.fifo) <= MaxFifo /\ Len(mac.air) <= 3
  BY DEF RadioInv, LowLevelOK, RadioOK, Regs, SectionArrives
<1>2. mac.on /\ mac.awake
  BY <1>1 DEF RadioOK, LowLevelOK, AsleepOK
<1> DEFINE full == mac.overflow \/ Len(mac.fifo) = MaxFifo
           b == IF full THEN TRUE ELSE mac.overflow
           g == IF full THEN mac.fifo ELSE Append(mac.fifo, Head(mac.air))
           a == IF full THEN <<>> ELSE Tail(mac.air)
<1>3. mac' = [mac EXCEPT !.fifo = g, !.overflow = b, !.air = a]
  <2>1. CASE full
    <3>1. mac' = [mac EXCEPT !.overflow = TRUE, !.air = <<>>]
      BY <2>1 DEF SectionArrives
    <3>2. mac = [mac EXCEPT !.fifo = mac.fifo]
      BY <1>1 DEF Regs
    <3> QED
      BY <1>1, <2>1, <3>1, <3>2 DEF Regs
  <2>2. CASE ~full
    <3>1. mac' = [mac EXCEPT !.fifo = Append(@, Head(mac.air)),
                             !.air = Tail(@)]
      BY <2>2 DEF SectionArrives
    <3> QED
      BY <1>1, <2>2, <3>1 DEF Regs
  <2> QED
    BY <2>1, <2>2
<1>4. /\ g \in Seq(Sections) /\ a \in Seq(Sections) /\ b \in BOOLEAN
      /\ Len(g) <= MaxFifo /\ Len(a) <= 3
  <2>1. Len(mac.fifo) \in Nat /\ Len(mac.air) \in Nat /\ MaxFifo \in Nat
    BY <1>1, RadioAssumption DEF RadioAssumption
  <2>2. /\ Head(mac.air) \in Sections /\ Tail(mac.air) \in Seq(Sections)
        /\ Len(Tail(mac.air)) = Len(mac.air) - 1
    BY <1>1
  <2>3. /\ Append(mac.fifo, Head(mac.air)) \in Seq(Sections)
        /\ Len(Append(mac.fifo, Head(mac.air))) = Len(mac.fifo) + 1
    BY <1>1, <2>2
  <2>4. <<>> \in Seq(Sections) /\ Len(<<>>) = 0
    OBVIOUS
  <2>5. g \in Seq(Sections) /\ a \in Seq(Sections)
    BY <1>1, <2>2, <2>3, <2>4
  <2>6. b \in BOOLEAN
    BY <1>1 DEF Regs
  <2>7. CASE full
    <3>1. g = mac.fifo /\ a = <<>>
      BY <2>7
    <3> HIDE DEF g, a, b, full
    <3> QED
      BY <1>1, <2>4, <2>5, <2>6, <3>1
  <2>8. CASE ~full
    <3>1. Len(mac.fifo) # MaxFifo
      BY <2>8
    <3>2. g = Append(mac.fifo, Head(mac.air)) /\ a = Tail(mac.air)
      BY <2>8
    <3> HIDE DEF g, a, b, full
    <3>3. Len(g) <= MaxFifo
      BY <1>1, <2>1, <2>3, <3>1, <3>2
    <3>4. Len(a) <= 3
      BY <1>1, <2>1, <2>2, <3>2
    <3> QED
      BY <2>5, <2>6, <3>3, <3>4
  <2> QED
    BY <2>7, <2>8
<1> HIDE DEF full, b, g, a
<1>5. mac' \in Regs
  BY <1>1, <1>3, <1>4 DEF Regs
<1>6. /\ mac'.fifo = g /\ mac'.air = a /\ mac'.on = mac.on
      /\ mac'.sending = mac.sending /\ mac'.asserted = mac.asserted
      /\ mac'.retune = mac.retune
  BY <1>1, <1>3 DEF Regs
<1>7. RxSame(mac', mac) /\ TxSame(mac', mac)
  BY <1>1, <1>3 DEF Regs, RxSame, TxSame
<1>8. RadioOK(mac')
  BY <1>2, <1>4, <1>5, <1>6 DEF RadioOK
<1>9. OnlyRadio(mac', mac)
  BY <1>6, <1>7, <1>8 DEF OnlyRadio
<1>10. LowLevelOK(mac', pc)
  BY <1>1, <1>2, <1>6, <1>9, OnlyRadioOK
<1> QED
  BY <1>1, <1>2, <1>7, <1>10 DEF Kept, RxSame

LEMMA AckSentKeeps ==
  ASSUME RadioInv, AckSent
  PROVE  Kept
<1>1. /\ LowLevelOK(mac, pc) /\ mac \in Regs /\ RadioOK(mac)
      /\ pc' = pc /\ (pc = "loaded" => mac.awake) /\ mac.ack = "armed"
      /\ mac' = [mac EXCEPT !.ack = "done"]
  BY DEF RadioInv, LowLevelOK, RadioOK, AckSent
<1>2. mac.on /\ mac.awake
  BY <1>1 DEF RadioOK, LowLevelOK, AsleepOK
<1>3. mac' \in Regs
  BY <1>1 DEF Regs
<1>4. /\ mac'.fifo = mac.fifo /\ mac'.air = mac.air /\ mac'.on = mac.on
      /\ mac'.sending = mac.sending /\ mac'.asserted = mac.asserted
      /\ mac'.retune = mac.retune
  BY <1>1 DEF Regs
<1>5. RxSame(mac', mac) /\ TxSame(mac', mac)
  BY <1>1 DEF Regs, RxSame, TxSame
<1>6. RadioOK(mac')
  BY <1>1, <1>2, <1>3, <1>4 DEF RadioOK
<1>7. OnlyRadio(mac', mac)
  BY <1>4, <1>5, <1>6 DEF OnlyRadio
<1>8. LowLevelOK(mac', pc)
  BY <1>1, <1>2, <1>4, <1>7, OnlyRadioOK
<1> QED
  BY <1>1, <1>2, <1>5, <1>8 DEF Kept, RxSame

LEMMA FrameSentKeeps ==
  ASSUME RadioInv, FrameSent
  PROVE  Kept
<1>1. /\ LowLevelOK(mac, pc) /\ mac \in Regs /\ RadioOK(mac)
      /\ TxOK(mac, pc) /\ pc' = pc /\ (pc = "loaded" => mac.awake)
      /\ mac.sending = "yes" /\ mac' = [mac EXCEPT !.sending = "done"]
  BY DEF RadioInv, LowLevelOK, RadioOK, FrameSent
<1>2. mac' \in Regs
  BY <1>1 DEF Regs
<1>3. /\ mac'.fifo = mac.fifo /\ mac'.overflow = mac.overflow
      /\ mac'.air = mac.air /\ mac'.on = mac.on /\ mac'.ack = mac.ack
      /\ mac'.sending = "done" /\ mac'.asserted = mac.asserted
  BY <1>1 DEF Regs
<1>4. RxSame(mac', mac) /\ TxSame(mac', mac)
  BY <1>1 DEF Regs, RxSame, TxSame
<1>5. RadioOK(mac')
  BY <1>1, <1>2, <1>3 DEF RadioOK
<1>6. TxOK(mac', pc)
  BY <1>1, <1>3, <1>4 DEF TxOK, TxSame
<1>7. /\ RxOK(mac') /\ Behind(mac') /\ AsleepOK(mac') /\ ~mac'.isr
      /\ ~mac'.reset /\ mac'.asserted /\ mac'.nb \in 0 .. MaxBackoffs
  BY <1>1, <1>3, <1>4
  DEF LowLevelOK, RxSame, TxSame, RxOK, Behind, AsleepOK
<1> QED
  BY <1>1, <1>4, <1>5, <1>6, <1>7 DEF Kept, LowLevelOK, RxSame

-----------------------------------------------------------------------------
(* The theorems *)

\* Where the main loop is and how much of the bounds is used.
Bounds ==
  /\ pc \in {"idle", "init", "loaded", "go", "csma", "delay", "off", "wake"}
  /\ frames \in 0 .. MaxFrames /\ txs \in 0 .. MaxTx /\ calls \in 0 .. MaxCalls

LEMMA BoundsKept ==
  ASSUME Bounds, Next
  PROVE  Bounds'
<1>1. {MaxFrames, MaxTx, MaxCalls} \subseteq Nat
  BY RadioAssumption DEF RadioAssumption
<1>2. CASE RxEnable \/ RxDisable \/ SetChannel \/ Reset
  BY <1>1, <1>2
  DEF RxEnable, RxDisable, SetChannel, Reset, Call, Bounds
<1>3. CASE Sleep \/ WakeUp
  BY <1>3 DEF Sleep, WakeUp, Bounds
<1>4. CASE TxFrame
  BY <1>1, <1>4 DEF TxFrame, Bounds
<1>5. CASE MainStep
  BY <1>5 DEF MainStep, RxDisableOff, WakeUpOn, TxPrepare, TxGoOrQueue, TxGo,
              TxSavePower, TxStartBackoff, Bounds
<1>6. CASE AckDoneIsr \/ FrmDoneIsr \/ ThresholdIsr \/ OverflowIsr \/ TimerIsr
  BY <1>6
  DEF AckDoneIsr, FrmDoneIsr, ThresholdIsr, OverflowIsr, TimerIsr, Bounds
<1>7. CASE FrameBegins
  BY <1>1, <1>7 DEF FrameBegins, Bounds
<1>8. CASE RadioStep
  BY <1>8 DEF RadioStep, SectionArrives, AckSent, FrameSent, Bounds
<1> QED
  BY <1>2, <1>3, <1>4, <1>5, <1>6, <1>7, <1>8 DEF Next

LEMMA InitRadioInv == Init => RadioInv
<1> SUFFICES ASSUME Init PROVE RadioInv
  OBVIOUS
<1>1. PICK flags \in SUBSET Flags :
       mac = [rxActive |-> "NO", outAck |-> FALSE, rxState |-> "start",
              left |-> 0, buf |-> FALSE, isr |-> FALSE, reset |-> FALSE,
              on |-> flags # {}, enable |-> flags, tx |-> "NO",
              ackReq |-> FALSE, nb |-> 0, timer |-> "none", retune |-> FALSE,
              awake |-> TRUE, fifo |-> <<>>, overflow |-> FALSE, air |-> <<>>,
              sending |-> "no", ack |-> "none", owed |-> 0, cut |-> FALSE,
              asserted |-> TRUE]
  BY DEF Init
<1>2. <<>> \in Seq(Sections) /\ Len(<<>>) = 0
  OBVIOUS
<1>3. mac \in Regs
  <2> DEFINE z == 0
             e == <<>>
             o == (flags # {})
  <2>1. z \in Int /\ e \in Seq(Sections) /\ o \in BOOLEAN
    BY <1>2
  <2>2. mac = [rxActive |-> "NO", outAck |-> FALSE, rxState |-> "start",
               left |-> z, buf |-> FALSE, isr |-> FALSE, reset |-> FALSE,
               on |-> o, enable |-> flags, tx |-> "NO",
               ackReq |-> FALSE, nb |-> z, timer |-> "none",
               retune |-> FALSE, awake |-> TRUE, fifo |-> e,
               overflow |-> FALSE, air |-> e, sending |-> "no",
               ack |-> "none", owed |-> z, cut |-> FALSE, asserted |-> TRUE]
    BY <1>1
  <2> HIDE DEF z, e, o
  <2> QED
    BY <2>1, <2>2 DEF Regs
<1>4. /\ mac.rxActive = "NO" /\ ~mac.outAck /\ mac.rxState = "start"
      /\ mac.left = 0 /\ ~mac.buf /\ ~mac.isr /\ ~mac.reset /\ mac.tx = "NO"
      /\ mac.nb = 0 /\ mac.timer = "none" /\ mac.awake /\ mac.fifo = <<>>
      /\ ~mac.overflow /\ mac.air = <<>> /\ mac.sending = "no"
      /\ mac.ack = "none" /\ mac.owed = 0 /\ ~mac.cut /\ mac.asserted
  BY <1>1
<1>5. {MaxBackoffs, MaxFrames, MaxTx, MaxCalls} \subseteq Nat /\ MaxFifo \in Nat
  BY RadioAssumption DEF RadioAssumption
<1>6. pc = "idle" /\ frames = 0 /\ txs = 0 /\ calls = 0
  BY DEF Init
<1>7. RadioOK(mac)
  BY <1>2, <1>3, <1>4, <1>5 DEF RadioOK
<1>8. TxOK(mac, pc)
  BY <1>4, <1>6 DEF TxOK, Starting
<1>9. RxOK(mac) /\ Behind(mac) /\ AsleepOK(mac)
  BY <1>4 DEF RxOK, Behind, AsleepOK
<1>10. mac.nb \in 0 .. MaxBackoffs
  BY <1>4, <1>5
<1>11. frames \in 0 .. MaxFrames /\ txs \in 0 .. MaxTx /\ calls \in 0 .. MaxCalls
  BY <1>5, <1>6
<1> QED
  BY <1>4, <1>6, <1>7, <1>8, <1>9, <1>10, <1>11 DEF RadioInv, LowLevelOK

LEMMA NextRadioInv == RadioInv /\ [Next]_vars => RadioInv'
<1> SUFFICES ASSUME RadioInv, [Next]_vars PROVE RadioInv'
  OBVIOUS
<1>1. CASE Next
  <2>1. Kept
    <3>1. CASE RxEnable
      BY <3>1, RxEnableKeeps
    <3>2. CASE RxDisable
      BY <3>2, RxDisableKeeps
    <3>3. CASE SetChannel
      BY <3>3, SetChannelKeeps
    <3>4. CASE Sleep
      BY <3>4, SleepKeeps
    <3>5. CASE WakeUp
      BY <3>5, WakeUpKeeps
    <3>6. CASE Reset
      BY <3>6, ResetKeeps
    <3>7. CASE TxFrame
      BY <3>7, TxFrameKeeps
    <3>8. CASE MainStep
      BY <3>8, RxDisableOffKeeps, WakeUpOnKeeps, TxPrepareKeeps,
         TxGoOrQueueKeeps, TxGoKeeps, TxSavePowerKeeps, TxStartBackoffKeeps
      DEF MainStep
    <3>9. CASE AckDoneIsr
      BY <3>9, AckDoneIsrKeeps
    <3>10. CASE FrmDoneIsr
      BY <3>10, FrmDoneIsrKeeps
    <3>11. CASE ThresholdIsr
      BY <3>11, ThresholdIsrKeeps
    <3>12. CASE OverflowIsr
      BY <3>12, OverflowIsrKeeps
    <3>13. CASE TimerIsr
      BY <3>13, TimerIsrKeeps
    <3>14. CASE FrameBegins
      BY <3>14, FrameBeginsKeeps
    <3>15. CASE RadioStep
      BY <3>15, SectionArrivesKeeps, AckSentKeeps, FrameSentKeeps
      DEF RadioStep
    <3> QED
      BY <1>1, <3>1, <3>2, <3>3, <3>4, <3>5, <3>6, <3>7, <3>8, <3>9, <3>10,
         <3>11, <3>12, <3>13, <3>14, <3>15 DEF Next
  <2>2. Bounds'
    BY <1>1, BoundsKept DEF RadioInv, Bounds
  <2> QED
    BY <2>1, <2>2 DEF RadioInv, Kept, Bounds
<1>2. CASE UNCHANGED vars
  BY <1>2 DEF RadioInv, vars
<1> QED
  BY <1>1, <1>2

\* The inductive invariant holds of every behaviour: the receive flags, the
\* transmitter and the radio agree after every routine and every critical
\* section.
THEOREM RadioInvariant == Spec => []RadioInv
<1>1. Init => RadioInv
  BY InitRadioInv
<1>2. RadioInv /\ [Next]_vars => RadioInv'
  BY NextRadioInv
<1> QED
  BY <1>1, <1>2, PTL DEF Spec

LEMMA ShortSequences ==
  ASSUME NEW s \in Seq(Sections), NEW n \in Nat, Len(s) <= n
  PROVE  s \in UNION {[1 .. k -> Sections] : k \in 0 .. n}
<1>1. Len(s) \in 0 .. n /\ s \in [1 .. Len(s) -> Sections]
  OBVIOUS
<1> QED
  BY <1>1

\* Every variable of the low level keeps to its type: the count of the
\* backoffs to its limit, the FIFO to its size.
THEOREM TypeCorrect == Spec => []TypeOK
<1>1. RadioInv => TypeOK
  <2> SUFFICES ASSUME RadioInv PROVE TypeOK
    OBVIOUS
  <2>1. /\ mac \in Regs /\ Len(mac.fifo) <= MaxFifo /\ Len(mac.air) <= 3
        /\ mac.left \in 0 .. 2 /\ mac.nb \in 0 .. MaxBackoffs
    BY DEF RadioInv, LowLevelOK, RadioOK, RxOK
  <2>2. /\ mac.fifo \in UNION {[1 .. n -> Sections] : n \in 0 .. MaxFifo}
        /\ mac.air \in UNION {[1 .. n -> Sections] : n \in 0 .. 3}
    <3>1. mac.fifo \in Seq(Sections) /\ mac.air \in Seq(Sections)
      BY <2>1 DEF Regs
    <3>2. MaxFifo \in Nat /\ 3 \in Nat
      BY RadioAssumption DEF RadioAssumption
    <3>3. mac.fifo \in UNION {[1 .. n -> Sections] : n \in 0 .. MaxFifo}
      BY <2>1, <3>1, <3>2, ShortSequences
    <3>4. mac.air \in UNION {[1 .. n -> Sections] : n \in 0 .. 3}
      BY <2>1, <3>1, <3>2, ShortSequences
    <3> QED
      BY <3>3, <3>4
  <2>3. mac \in MacStates
    <3> DEFINE F == UNION {[1 .. n -> Sections] : n \in 0 .. MaxFifo}
               A == UNION {[1 .. n -> Sections] : n \in 0 .. 3}
               N == 0 .. MaxBackoffs
               L == 0 .. 2
    <3>1. mac.fifo \in F /\ mac.air \in A /\ mac.nb \in N /\ mac.left \in L
      BY <2>1, <2>2
    <3>2. MacStates = [
            rxActive : {"NO", "STARTED", "DONE"}, outAck : BOOLEAN,
            rxState : {"start", "body", "fcs", "discard"}, left : L,
            buf : BOOLEAN, isr : BOOLEAN, reset : BOOLEAN, on : BOOLEAN,
            enable : SUBSET Flags,
            tx : {"NO", "INIT", "QUEUED", "GO", "BUSY", "LISTEN", "POST",
                  "DONE"},
            ackReq : BOOLEAN, nb : N,
            timer : {"none", "RxOn", "Cca", "AckWait"}, retune : BOOLEAN,
            awake : BOOLEAN, fifo : F, overflow : BOOLEAN, air : A,
            sending : {"no", "yes", "done"}, ack : {"none", "armed", "done"},
            owed : Int, cut : BOOLEAN, asserted : BOOLEAN ]
      BY DEF MacStates
    <3> HIDE DEF F, A, N, L
    <3> QED
      BY <2>1, <3>1, <3>2 DEF Regs
  <2> QED
    BY <2>3 DEF TypeOK, RadioInv
<1> QED
  BY <1>1, RadioInvariant, PTL

\* No MAC_ASSERT of the low level fails, whatever the order of its service
\* routines and of the calls of the high level.
THEOREM Asserted == Spec => []AssertsHold
<1>1. RadioInv => AssertsHold
  BY DEF RadioInv, LowLevelOK, AssertsHold
<1> QED
  BY <1>1, RadioInvariant, PTL

\* The receive flags agree after every routine.
THEOREM FlagsAgree == Spec => []ReceiveFlagsAgree
<1>1. RadioInv => ReceiveFlagsAgree
  BY DEF RadioInv, LowLevelOK, RxOK, ReceiveFlagsAgree
<1> QED
  BY <1>1, RadioInvariant, PTL

\* A transmit that has begun has the one event coming that carries it on, and
\* is reported once.
THEOREM TransmitsGoOn == Spec => []TransmitGoesOn
<1>1. RadioInv => TransmitGoesOn
  BY DEF RadioInv, LowLevelOK, TxOK, Starting, TransmitGoesOn
<1> QED
  BY <1>1, RadioInvariant, PTL

\* A queued frame waits for a receive whose end starts it.
THEOREM QueueNotForgotten == Spec => []QueuedBehindReceive
<1>1. RadioInv => QueuedBehindReceive
  BY DEF RadioInv, LowLevelOK, Behind, QueuedBehindReceive
<1> QED
  BY <1>1, RadioInvariant, PTL

\* The radio sleeps only when nothing is under way.
THEOREM SleepsAtRest == Spec => []SleepIsQuiet
<1>1. RadioInv => SleepIsQuiet
  BY DEF RadioInv, LowLevelOK, RadioOK, TxOK, AsleepOK, SleepIsQuiet
<1> QED
  BY <1>1, RadioInvariant, PTL
=============================================================================
