--------------------------- MODULE HalUartProofs ---------------------------
(***************************************************************************)
(* Proofs about HalUart, for rings of every size and writes of every        *)
(* length, where no caller writes while the ring is full.                   *)
(***************************************************************************)
EXTENDS HalUart, TLAPS

-----------------------------------------------------------------------------
(* Arithmetic of the rings *)

\* The bytes between a head and a tail of the transmit ring, where equal means
\* full if the transmitter is busy.
HeldOf(h, t, busy) ==
  IF ~busy THEN 0 ELSE IF t > h THEN t - h ELSE TxSize - h + t

LEMMA PlaceFacts ==
  ASSUME NEW n \in Nat, n >= 2, NEW p \in 0 .. n - 1, NEW i \in 0 .. n
  PROVE  /\ Place(p, i, n) \in 0 .. n - 1
         /\ Place(p, 0, n) = p
         /\ i < n => After(Place(p, i, n), n) = Place(p, i + 1, n)
BY DEF Place, After

LEMMA PlacesDiffer ==
  ASSUME NEW n \in Nat, NEW p \in 0 .. n - 1,
         NEW i \in 0 .. n - 1, NEW j \in 0 .. n - 1, i # j
  PROVE  Place(p, i, n) # Place(p, j, n)
BY DEF Place

LEMMA HeldFacts ==
  ASSUME NEW h \in 0 .. TxSize - 1, NEW t \in 0 .. TxSize - 1,
         NEW b \in BOOLEAN, ~b => h = t
  PROVE  /\ HeldOf(h, t, b) \in 0 .. TxSize
         /\ b => HeldOf(h, t, b) >= 1
         /\ t = Place(h, HeldOf(h, t, b), TxSize)
BY UartAssumption DEF HeldOf, Place

LEMMA HeldBehind ==
  ASSUME NEW h \in 0 .. TxSize - 1, NEW t \in 0 .. TxSize - 1,
         NEW b \in BOOLEAN, ~b => h = t,
         NEW j \in 0 .. TxSize, HeldOf(h, t, b) + j <= TxSize
  PROVE  Place(t, j, TxSize) = Place(h, HeldOf(h, t, b) + j, TxSize)
BY UartAssumption DEF HeldOf, Place

LEMMA HeldGrows ==
  ASSUME NEW h \in 0 .. TxSize - 1, NEW t \in 0 .. TxSize - 1,
         NEW b \in BOOLEAN, ~b => h = t,
         NEW k \in 1 .. TxSize, HeldOf(h, t, b) + k <= TxSize
  PROVE  HeldOf(h, Place(t, k, TxSize), TRUE) = HeldOf(h, t, b) + k
BY UartAssumption DEF HeldOf, Place

LEMMA HeldShrinks ==
  ASSUME NEW h \in 0 .. TxSize - 1, NEW t \in 0 .. TxSize - 1
  PROVE  LET g == After(h, TxSize)
         IN  /\ g \in 0 .. TxSize - 1
             /\ HeldOf(g, t, g # t) = HeldOf(h, t, TRUE) - 1
             /\ \A i \in 0 .. TxSize - 1 :
                  Place(g, i, TxSize) = Place(h, i + 1, TxSize)
BY UartAssumption DEF HeldOf, Place, After

LEMMA RoomIsFree ==
  ASSUME NEW h \in 0 .. TxSize - 1, NEW t \in 0 .. TxSize - 1,
         NEW b \in BOOLEAN, ~(b /\ h = t), ~b => h = t
  PROVE  Room(h, t) = TxSize - HeldOf(h, t, b)
BY UartAssumption DEF HeldOf, Room

LEMMA HeldHere ==
  ASSUME TypeOK
  PROVE  TxHeld = HeldOf(tx.head, tx.tail, Busy)
<1>1. tx.head \in 0 .. TxSize - 1 /\ tx.tail \in 0 .. TxSize - 1
  BY DEF TypeOK, Ring
<1>2. Busy \in BOOLEAN
  BY DEF Busy
<1> QED
  BY <1>1, <1>2, UartAssumption DEF TxHeld, HeldOf, Room, TxFull

LEMMA TxPlaces ==
  ASSUME NEW p \in 0 .. TxSize - 1, NEW i \in 0 .. TxSize
  PROVE  /\ Place(p, i, TxSize) \in 0 .. TxSize - 1
         /\ Place(p, 0, TxSize) = p
         /\ i < TxSize
              => After(Place(p, i, TxSize), TxSize) = Place(p, i + 1, TxSize)
BY UartAssumption DEF Place, After

LEMMA RxPlaces ==
  ASSUME NEW p \in 0 .. RxSize - 1, NEW i \in 0 .. RxSize
  PROVE  /\ Place(p, i, RxSize) \in 0 .. RxSize - 1
         /\ Place(p, 0, RxSize) = p
         /\ i < RxSize
              => After(Place(p, i, RxSize), RxSize) = Place(p, i + 1, RxSize)
BY UartAssumption DEF Place, After

\* The bytes between a head and a tail of the receive ring.
LenOf(h, t) == IF t >= h THEN t - h ELSE t - h + RxSize

LEMMA LenFacts ==
  ASSUME NEW h \in 0 .. RxSize - 1, NEW t \in 0 .. RxSize - 1
  PROVE  /\ LenOf(h, t) \in 0 .. RxSize - 1
         /\ t = Place(h, LenOf(h, t), RxSize)
         /\ After(t, RxSize) \in 0 .. RxSize - 1
         /\ LenOf(h, t) < RxSize - 1
              => LenOf(h, After(t, RxSize)) = LenOf(h, t) + 1
BY UartAssumption DEF LenOf, Place, After

LEMMA LenShrinks ==
  ASSUME NEW h \in 0 .. RxSize - 1, NEW t \in 0 .. RxSize - 1,
         NEW k \in 0 .. LenOf(h, t)
  PROVE  /\ LenOf(Place(h, k, RxSize), t) = LenOf(h, t) - k
         /\ \A i \in 0 .. LenOf(h, t) - k :
              Place(Place(h, k, RxSize), i, RxSize) = Place(h, k + i, RxSize)
BY UartAssumption DEF LenOf, Place

-----------------------------------------------------------------------------
(* The inductive invariant *)

Held == HeldOf(tx.head, tx.tail, Busy)
Due == IF txIfg THEN 1 ELSE 0

\* The bytes accepted and not sent lie from the head on; the transmitter has
\* the first of them, or has sent it and asks for the next.
TxInv ==
  /\ accepted = Len(sent) + Held - Due
  /\ \A i \in Due .. Held - 1 :
       tx.buf[Place(tx.head, i, TxSize)] = Len(sent) + 1 + i - Due
  /\ txReg # 0 => txReg = Len(sent) + 1 /\ ~txIfg
  /\ ~Busy => tx.head = tx.tail
  /\ IntEnable => (Busy => txIe)
  /\ SentInOrder

\* A write in progress: the room computed from an old head is there, and the
\* bytes already copied lie behind the tail.
WriteInv ==
  /\ pc = "room" =>
       /\ idx \in 0 .. TxSize - 1
       /\ length >= 1 /\ accepted + length <= MaxBytes
       /\ Room(idx, tx.tail) <= TxSize - Held
  /\ pc = "copy" =>
       /\ cnt <= length
       /\ length >= 1 /\ accepted + length <= MaxBytes
       /\ Held + length <= TxSize
       /\ idx = Place(tx.tail, cnt, TxSize)
       /\ \A j \in 0 .. cnt - 1 :
            tx.buf[Place(tx.tail, j, TxSize)] = accepted + 1 + j

\* The bytes arrived and not returned lie from the head on, one place of the
\* ring is free for the byte in the receiver, and a read in progress stays
\* within them.
RxInv ==
  /\ ReadInOrder
  /\ rxReg # 0 => rxReg = arrived /\ RxBufLen < RxSize - 1
  /\ pc = "read" =>
       /\ cnt <= length /\ length <= RxBufLen
       /\ idx = Place(rx.head, cnt, RxSize)

UartInv == TypeOK /\ TxInv /\ WriteInv /\ RxInv

LEMMA UartInit == Init => UartInv
<1> SUFFICES ASSUME Init PROVE UartInv
  OBVIOUS
<1> USE UartAssumption DEF Init
<1>1. TypeOK
  BY SMTT(60) DEF TypeOK, Ring
<1>2. TxInv
  BY DEF TxInv, Held, HeldOf, Due, Busy, SentInOrder
<1>3. WriteInv
  BY DEF WriteInv
<1>4. RxInv
  BY DEF RxInv, ReadInOrder, RxBufLen
<1> QED
  BY <1>1, <1>2, <1>3, <1>4 DEF UartInv

\* What the typing says of the rings, in the form the lemmas take.
LEMMA Indices ==
  ASSUME UartInv
  PROVE  /\ tx.head \in 0 .. TxSize - 1 /\ tx.tail \in 0 .. TxSize - 1
         /\ rx.head \in 0 .. RxSize - 1 /\ rx.tail \in 0 .. RxSize - 1
         /\ Busy \in BOOLEAN /\ Held \in 0 .. TxSize
         /\ Busy => Held >= 1
         /\ tx.tail = Place(tx.head, Held, TxSize)
         /\ RxBufLen = LenOf(rx.head, rx.tail)
         /\ RxBufLen \in 0 .. RxSize - 1
<1>1. /\ tx.head \in 0 .. TxSize - 1 /\ tx.tail \in 0 .. TxSize - 1
      /\ rx.head \in 0 .. RxSize - 1 /\ rx.tail \in 0 .. RxSize - 1
  BY DEF UartInv, TypeOK, Ring
<1>2. Busy \in BOOLEAN /\ (~Busy => tx.head = tx.tail)
  BY DEF Busy, UartInv, TxInv
<1>3. RxBufLen = LenOf(rx.head, rx.tail)
  BY DEF RxBufLen, LenOf
<1>4. LenOf(rx.head, rx.tail) \in 0 .. RxSize - 1
  BY <1>1, LenFacts
<1> QED
  BY <1>1, <1>2, <1>3, <1>4, HeldFacts DEF Held

\* A step that leaves the transmitter alone keeps its part.
LEMMA TxKept ==
  ASSUME TxInv, UNCHANGED txVars
  PROVE  TxInv' /\ Held' = Held
BY DEF TxInv, txVars, Held, Due, Busy, SentInOrder

\* A step that leaves the receiver alone, and is not of a read, keeps its part.
LEMMA RxKept ==
  ASSUME RxInv, UNCHANGED rxVars, pc # "read", pc' # "read"
  PROVE  RxInv'
BY DEF RxInv, rxVars, ReadInOrder, RxBufLen

-----------------------------------------------------------------------------
(* Writes *)

LEMMA WriteHeadKeeps == 
  ASSUME UartInv, ~MayWriteWhenFull, WriteHead
  PROVE  UartInv'
<1> USE UartAssumption
<1>1. PICK n \in Lengths : accepted + n <= MaxBytes /\ length' = n
  BY DEF WriteHead
<1>2. /\ pc = "idle" /\ pc' = "room" /\ idx' = tx.head /\ ~TxFull
      /\ cnt' = cnt /\ UNCHANGED txVars /\ UNCHANGED rxVars
  BY DEF WriteHead
<1>3. TypeOK'
  BY <1>1, <1>2, Indices DEF UartInv, TypeOK, txVars, rxVars
<1>4. TxInv' /\ Held' = Held
  BY <1>2, TxKept DEF UartInv
<1>5. Room(tx.head, tx.tail) = TxSize - Held
  <2>1. ~(Busy /\ tx.head = tx.tail) /\ (~Busy => tx.head = tx.tail)
    BY <1>2 DEF TxFull, UartInv, TxInv
  <2> QED
    BY <2>1, Indices, RoomIsFree DEF Held
<1>6. WriteInv'
  <2>1. tx' = tx /\ accepted' = accepted
    BY <1>2 DEF txVars
  <2>2. n >= 1
    OBVIOUS
  <2>3. Held \in Nat
    BY Indices
  <2>4. (Room(idx, tx.tail) <= TxSize - Held)'
    BY <1>2, <1>4, <1>5, <2>1, <2>3 DEF Room
  <2> QED
    BY <1>1, <1>2, <2>1, <2>2, <2>4, Indices DEF WriteInv
<1>7. RxInv'
  BY <1>2, RxKept DEF UartInv
<1> QED
  BY <1>3, <1>4, <1>6, <1>7 DEF UartInv

LEMMA WriteRoomKeeps ==
  ASSUME UartInv, WriteRoom
  PROVE  UartInv'
<1> USE UartAssumption
<1>1. /\ pc = "room" /\ cnt' = 0 /\ UNCHANGED txVars /\ UNCHANGED rxVars
      /\ pc' \in {"idle", "copy"}
  BY DEF WriteRoom
<1>2. TypeOK'
  BY <1>1, Indices, SMTT(60) DEF UartInv, TypeOK, WriteRoom, txVars, rxVars
<1>3. TxInv' /\ Held' = Held
  BY <1>1, TxKept DEF UartInv
<1>4. WriteInv'
  <2>1. CASE pc' = "idle"
    BY <2>1 DEF WriteInv
  <2>2. CASE pc' = "copy"
    <3>1. /\ idx' = tx.tail /\ length' = length
          /\ ~(Room(idx, tx.tail) < length)
      BY <2>2 DEF WriteRoom
    <3>2. /\ length >= 1 /\ accepted + length <= MaxBytes
          /\ Room(idx, tx.tail) <= TxSize - Held
          /\ idx \in 0 .. TxSize - 1
      BY <1>1 DEF UartInv, WriteInv
    <3>3. length \in Nat /\ Held \in Nat /\ Room(idx, tx.tail) \in Int
      BY <3>2, Indices DEF UartInv, TypeOK, Room
    <3>4. Held + length <= TxSize
      BY <3>1, <3>2, <3>3
    <3>5. tx.tail = Place(tx.tail, 0, TxSize)
      BY Indices, TxPlaces, 0 \in 0 .. TxSize
    <3>6. tx' = tx /\ accepted' = accepted
      BY <1>1 DEF txVars
    <3> QED
      BY <1>1, <1>3, <2>2, <3>1, <3>2, <3>3, <3>4, <3>5, <3>6 DEF WriteInv
  <2> QED
    BY <1>1, <2>1, <2>2
<1>5. RxInv'
  BY <1>1, RxKept DEF UartInv
<1> QED
  BY <1>2, <1>3, <1>4, <1>5 DEF UartInv

LEMMA WriteByteKeeps ==
  ASSUME UartInv, WriteByte
  PROVE  UartInv'
<1> USE UartAssumption
<1> DEFINE v == accepted + cnt + 1
<1>1. /\ pc = "copy" /\ cnt < length /\ pc' = pc
      /\ tx' = [tx EXCEPT !.buf[idx] = v]
      /\ idx' = After(idx, TxSize) /\ cnt' = cnt + 1 /\ length' = length
      /\ UNCHANGED <<txReg, txIfg, txIe, accepted, sent>> /\ UNCHANGED rxVars
  BY DEF WriteByte
<1>2. /\ length >= 1 /\ accepted + length <= MaxBytes
      /\ Held + length <= TxSize
      /\ idx = Place(tx.tail, cnt, TxSize)
      /\ \A j \in 0 .. cnt - 1 :
           tx.buf[Place(tx.tail, j, TxSize)] = accepted + 1 + j
  BY <1>1 DEF UartInv, WriteInv
<1>3. /\ length \in Nat /\ cnt \in Nat /\ Held \in 0 .. TxSize
      /\ accepted \in 0 .. MaxBytes
  BY Indices DEF UartInv, TypeOK
<1>i. tx.head \in 0 .. TxSize - 1 /\ tx.tail \in 0 .. TxSize - 1
  BY Indices
<1>4. cnt \in 0 .. TxSize - 1 /\ v \in 0 .. MaxBytes /\ Held + cnt < TxSize
      /\ Held + cnt \in 0 .. TxSize - 1 /\ cnt + 1 \in 0 .. TxSize
  BY <1>1, <1>2, <1>3
<1>5. /\ idx \in 0 .. TxSize - 1
      /\ After(idx, TxSize) = Place(tx.tail, cnt + 1, TxSize)
      /\ After(idx, TxSize) \in 0 .. TxSize - 1
  BY <1>2, <1>4, <1>i, TxPlaces
<1>6. idx = Place(tx.head, Held + cnt, TxSize)
  <2>1. ~Busy => tx.head = tx.tail
    BY DEF UartInv, TxInv
  <2>2. Held + cnt <= TxSize /\ cnt \in 0 .. TxSize
    BY <1>4, <1>3
  <2> QED
    BY <1>2, <2>1, <2>2, Indices, HeldBehind DEF Held
<1>7. /\ tx' \in Ring(TxSize) /\ tx'.head = tx.head /\ tx'.tail = tx.tail
      /\ tx'.buf[idx] = v
      /\ \A k \in 0 .. TxSize - 1 : k # idx => tx'.buf[k] = tx.buf[k]
  BY <1>1, <1>4, <1>5 DEF UartInv, TypeOK, Ring
<1> HIDE DEF v
<1>8. TypeOK'
  BY <1>1, <1>3, <1>5, <1>7 DEF UartInv, TypeOK, rxVars
<1>9. Held' = Held /\ Busy' = Busy /\ Due' = Due
  BY <1>1, <1>7 DEF Held, Busy, Due
<1>10. TxInv'
  <2>1. ASSUME NEW i \in Due .. Held - 1
        PROVE  tx'.buf[Place(tx.head, i, TxSize)] = Len(sent) + 1 + i - Due
    <3>1. i \in 0 .. TxSize - 1 /\ i \in 0 .. TxSize /\ i # Held + cnt
      BY <1>3, <1>4 DEF Due
    <3>2. Place(tx.head, i, TxSize) # idx
      BY <1>4, <1>6, <3>1, Indices, PlacesDiffer
    <3>3. Place(tx.head, i, TxSize) \in 0 .. TxSize - 1
      BY <3>1, <1>i, TxPlaces
    <3> QED
      BY <1>7, <2>1, <3>2, <3>3 DEF UartInv, TxInv
  <2> QED
    BY <1>1, <1>7, <1>9, <2>1 DEF UartInv, TxInv, SentInOrder
<1>11. WriteInv'
  <2>1. ASSUME NEW j \in 0 .. cnt
        PROVE  tx'.buf[Place(tx.tail, j, TxSize)] = accepted + 1 + j
    <3>1. CASE j = cnt
      BY <1>2, <1>3, <1>7, <3>1 DEF v
    <3>2. CASE j # cnt
      <4>1. /\ j \in 0 .. cnt - 1
            /\ j \in 0 .. TxSize - 1 /\ j \in 0 .. TxSize
        BY <1>3, <1>4, <3>2
      <4>2. Place(tx.tail, j, TxSize) # idx
        BY <1>2, <1>4, <3>2, <4>1, Indices, PlacesDiffer
      <4>3. Place(tx.tail, j, TxSize) \in 0 .. TxSize - 1
        BY <4>1, <1>i, TxPlaces
      <4> QED
        BY <1>2, <1>7, <4>1, <4>2, <4>3
    <3> QED
      BY <3>1, <3>2
  <2>2. cnt + 1 <= length /\ 0 .. cnt' - 1 = 0 .. cnt
    BY <1>1, <1>3
  <2> QED
    BY <1>1, <1>2, <1>5, <1>7, <1>9, <2>1, <2>2 DEF WriteInv
<1>12. RxInv'
  BY <1>1, RxKept DEF UartInv
<1> QED
  BY <1>8, <1>10, <1>11, <1>12 DEF UartInv

LEMMA WriteStartKeeps ==
  ASSUME UartInv, WriteStart
  PROVE  UartInv'
<1> USE UartAssumption
<1>1. /\ pc = "copy" /\ cnt = length /\ pc' = "idle"
      /\ idx' = 0 /\ cnt' = 0 /\ length' = 0
      /\ tx' = [tx EXCEPT !.tail = idx] /\ accepted' = accepted + length
      /\ sent' = sent /\ UNCHANGED rxVars
  BY DEF WriteStart
<1>2. /\ length >= 1 /\ accepted + length <= MaxBytes
      /\ Held + length <= TxSize
      /\ idx = Place(tx.tail, length, TxSize)
      /\ \A j \in 0 .. length - 1 :
           tx.buf[Place(tx.tail, j, TxSize)] = accepted + 1 + j
  BY <1>1 DEF UartInv, WriteInv
<1>3. /\ length \in Nat /\ Held \in 0 .. TxSize /\ accepted \in 0 .. MaxBytes
      /\ tx.head \in 0 .. TxSize - 1 /\ tx.tail \in 0 .. TxSize - 1
      /\ Busy \in BOOLEAN /\ (~Busy => tx.head = tx.tail)
  BY Indices DEF UartInv, TypeOK, TxInv
<1>4. length \in 1 .. TxSize /\ length \in 0 .. TxSize
      /\ accepted + length \in 0 .. MaxBytes
  BY <1>2, <1>3
<1>5. idx \in 0 .. TxSize - 1
  BY <1>2, <1>3, <1>4, TxPlaces
<1>6. /\ tx' \in Ring(TxSize) /\ tx'.head = tx.head /\ tx'.tail = idx
      /\ tx'.buf = tx.buf
  BY <1>1, <1>5 DEF UartInv, TypeOK, Ring
\* Head and tail are equal only when the ring is empty: there is room.
<1>7. tx.tail = tx.head <=> ~Busy
  BY <1>2, <1>3 DEF Held, HeldOf
<1>10. HeldOf(tx.head, idx, TRUE) = Held + length
  <2>1. HeldOf(tx.head, tx.tail, Busy) + length <= TxSize
    BY <1>2 DEF Held
  <2>2. HeldOf(tx.head, Place(tx.tail, length, TxSize), TRUE)
          = HeldOf(tx.head, tx.tail, Busy) + length
    BY <1>3, <1>4, <2>1, HeldGrows
  <2> QED
    BY <1>2, <2>2 DEF Held
<1>8. CASE Busy
  <2>1. UNCHANGED <<txReg, txIfg, txIe>>
    BY <1>7, <1>8 DEF WriteStart
  <2>2. Busy' /\ Due' = Due
    BY <1>8, <2>1 DEF Busy, Due
  <2>3. Held' = Held + length
    BY <1>3, <1>6, <1>10, <2>2 DEF Held
  <2>4. TypeOK'
    BY <1>1, <1>4, <1>6, <2>1 DEF UartInv, TypeOK, rxVars
  <2>5. ASSUME NEW i \in Due .. Held + length - 1
        PROVE  tx.buf[Place(tx.head, i, TxSize)] = Len(sent) + 1 + i - Due
    <3>1. CASE i <= Held - 1
      <4>1. i \in Due .. Held - 1
        BY <1>3, <2>5, <3>1 DEF Due
      <4> QED
        BY <4>1 DEF UartInv, TxInv
    <3>2. CASE i > Held - 1
      <4>1. PICK j \in 0 .. length - 1 : i = Held + j
        <5>1. i - Held \in 0 .. length - 1 /\ i = Held + (i - Held)
          BY <1>3, <2>5, <3>2 DEF Due
        <5> QED
          BY <5>1
      <4>2. j \in 0 .. TxSize /\ Held + j <= TxSize
        BY <1>2, <1>3, <1>4, <4>1
      <4>3. Place(tx.tail, j, TxSize) = Place(tx.head, i, TxSize)
        BY <1>3, <4>1, <4>2, HeldBehind DEF Held
      <4>4. /\ accepted = Len(sent) + Held - Due
            /\ Len(sent) \in Nat /\ Due \in 0 .. 1
        BY DEF UartInv, TypeOK, TxInv, Due
      <4> QED
        BY <1>2, <1>3, <4>1, <4>3, <4>4
    <3> QED
      BY <1>3, <3>1, <3>2 DEF Due
  <2>6. TxInv'
    <3>1. accepted' = Len(sent') + Held' - Due'
      BY <1>1, <1>3, <2>2, <2>3, SMTT(60) DEF UartInv, TxInv, TypeOK, Due
    <3>2. \A i \in Due' .. Held' - 1 :
            tx'.buf[Place(tx'.head, i, TxSize)] = Len(sent') + 1 + i - Due'
      <4>1. Due' .. Held' - 1 = Due .. Held + length - 1
        BY <1>3, <2>2, <2>3
      <4>2. tx'.buf = tx.buf /\ tx'.head = tx.head /\ Len(sent') = Len(sent)
            /\ Due' = Due
        BY <1>1, <1>6, <2>2
      <4> QED
        BY <2>5, <4>1, <4>2
    <3>3. /\ txReg' # 0 => txReg' = Len(sent') + 1 /\ ~txIfg'
          /\ IntEnable => txIe'
          /\ SentInOrder'
      BY <1>1, <1>8, <2>1 DEF UartInv, TxInv, SentInOrder
    <3> QED
      BY <2>2, <3>1, <3>2, <3>3 DEF TxInv
  <2> QED
    BY <1>1, <2>4, <2>6, RxKept DEF UartInv, WriteInv
<1>9. CASE ~Busy
  <2>1. Held = 0 /\ Due = 0 /\ ~txIfg /\ txReg = 0
    BY <1>9 DEF Held, HeldOf, Busy, Due
  <2>2. accepted = Len(sent) /\ Len(sent) \in Nat
    BY <2>1 DEF UartInv, TypeOK, TxInv
  <2>3. tx.buf[tx.head] = Len(sent) + 1
    <3>1. tx.buf[Place(tx.tail, 0, TxSize)] = accepted + 1 + 0
      BY <1>2, <1>3
    <3>2. Place(tx.tail, 0, TxSize) = tx.tail
      BY <1>3, TxPlaces, 0 \in 0 .. TxSize
    <3> QED
      BY <1>7, <1>9, <2>2, <3>1, <3>2
  <2>4. /\ txReg' = Len(sent) + 1 /\ txIfg' = FALSE
        /\ txIe' = (txIe \/ IntEnable)
    BY <1>7, <1>9, <2>3 DEF WriteStart, PutByte
  <2>5. Busy' /\ Due' = 0
    BY <2>2, <2>4 DEF Busy, Due
  <2>6. Held' = length
    <3>1. Held + length = length
      BY <1>3, <2>1
    <3>2. Held' = HeldOf(tx.head, idx, TRUE)
      BY <1>6, <2>5 DEF Held
    <3> QED
      BY <1>10, <3>1, <3>2
  <2>7. TypeOK'
    <3>1. Len(sent) + 1 \in 0 .. MaxBytes
      BY <1>2, <1>3, <2>2
    <3>2. txIe' \in BOOLEAN
      BY <2>4
    <3>3. txReg' \in 0 .. MaxBytes /\ txIfg' \in BOOLEAN
      BY <2>4, <3>1
    <3> QED
      BY <1>1, <1>4, <1>6, <3>2, <3>3 DEF UartInv, TypeOK, rxVars
  <2>8. ASSUME NEW i \in 0 .. length - 1
        PROVE  tx.buf[Place(tx.head, i, TxSize)] = Len(sent) + 1 + i
    BY <1>2, <1>7, <1>9, <2>2
  <2>9. TxInv'
    <3>1. accepted' = Len(sent') + Held' - Due'
      BY <1>1, <1>3, <2>2, <2>5, <2>6
    <3>2. \A i \in Due' .. Held' - 1 :
            tx'.buf[Place(tx'.head, i, TxSize)] = Len(sent') + 1 + i - Due'
      BY <1>1, <1>3, <1>6, <2>2, <2>5, <2>6, <2>8, SMTT(60)
    <3>3. /\ txReg' = Len(sent') + 1 /\ ~txIfg'
          /\ IntEnable => txIe'
          /\ SentInOrder'
      BY <1>1, <2>4 DEF UartInv, TxInv, SentInOrder
    <3> QED
      BY <2>5, <3>1, <3>2, <3>3 DEF TxInv
  <2> QED
    BY <1>1, <2>7, <2>9, RxKept DEF UartInv, WriteInv
<1> QED
  BY <1>8, <1>9

-----------------------------------------------------------------------------
(* Reads *)

LEMMA ReadLengthKeeps ==
  ASSUME UartInv, ReadLength
  PROVE  UartInv'
<1> USE UartAssumption
<1>1. /\ pc = "idle" /\ pc' = "read" /\ idx' = rx.head /\ cnt' = 0
      /\ UNCHANGED txVars /\ UNCHANGED rxVars
  BY DEF ReadLength
<1>2. length' \in 1 .. RxBufLen
  <2>1. PICK n \in Lengths : length' = IF RxBufLen < n THEN RxBufLen ELSE n
    BY DEF ReadLength
  <2>2. RxBufLen \in Nat
    BY Indices
  <2>3. length' > 0
    BY DEF ReadLength
  <2>4. n \in Nat
    OBVIOUS
  <2> QED
    BY <2>1, <2>2, <2>3, <2>4
<1>3. TypeOK'
  <2>1. length' \in Nat
    BY <1>2, Indices
  <2> QED
    BY <1>1, <2>1, Indices DEF UartInv, TypeOK, txVars, rxVars
<1>4. RxInv'
  <2>1. rx.head = Place(rx.head, 0, RxSize)
    BY Indices, RxPlaces, 0 \in 0 .. RxSize
  <2>2. RxBufLen' = RxBufLen /\ RxBufLen \in Nat
    BY <1>1, Indices DEF RxBufLen, rxVars
  <2> QED
    BY <1>1, <1>2, <2>1, <2>2 DEF UartInv, RxInv, ReadInOrder, rxVars
<1> QED
  BY <1>1, <1>3, <1>4, TxKept DEF UartInv, WriteInv

LEMMA ReadByteKeeps ==
  ASSUME UartInv, ReadByte
  PROVE  UartInv'
<1> USE UartAssumption
<1>1. /\ pc = "read" /\ pc' = pc /\ cnt < length /\ length' = length
      /\ got' = Append(got, rx.buf[idx])
      /\ idx' = After(idx, RxSize) /\ cnt' = cnt + 1
      /\ UNCHANGED txVars /\ rx' = rx /\ rxReg' = rxReg /\ arrived' = arrived
  BY DEF ReadByte
<1>2. /\ length <= RxBufLen /\ idx = Place(rx.head, cnt, RxSize)
      /\ length \in Nat /\ cnt \in Nat /\ RxBufLen \in 0 .. RxSize - 1
      /\ rx.head \in 0 .. RxSize - 1
  BY <1>1, Indices DEF UartInv, RxInv, TypeOK
<1>3. /\ cnt \in 0 .. RxSize - 1 /\ cnt \in 0 .. RxSize /\ cnt < RxSize
      /\ cnt \in 0 .. RxBufLen - 1 /\ cnt + 1 <= length
  BY <1>1, <1>2
<1>4. /\ idx \in 0 .. RxSize - 1 /\ idx' = Place(rx.head, cnt + 1, RxSize)
      /\ idx' \in 0 .. RxSize - 1
  <2>1. cnt + 1 \in 0 .. RxSize
    BY <1>3
  <2> QED
    BY <1>1, <1>2, <1>3, <2>1, RxPlaces
<1>5. rx.buf[idx] = Len(got) + 1 /\ rx.buf[idx] \in 0 .. MaxBytes
      /\ got \in Seq(0 .. MaxBytes) /\ Len(got) \in Nat
  <2>1. \A i \in cnt .. RxBufLen - 1 :
          rx.buf[Place(rx.head, i, RxSize)] = Len(got) + 1 + i - cnt
    BY <1>1 DEF UartInv, RxInv, ReadInOrder
  <2>2. cnt \in cnt .. RxBufLen - 1
    BY <1>2, <1>3
  <2>3. rx.buf[idx] \in 0 .. MaxBytes /\ got \in Seq(0 .. MaxBytes)
    BY <1>4 DEF UartInv, TypeOK, Ring
  <2>4. Len(got) \in Nat
    BY <2>3
  <2>5. rx.buf[idx] = Len(got) + 1 + cnt - cnt
    BY <1>2, <2>1, <2>2
  <2> QED
    BY <1>2, <2>3, <2>4, <2>5
<1>6. /\ got' \in Seq(0 .. MaxBytes) /\ Len(got') = Len(got) + 1
      /\ got'[Len(got) + 1] = Len(got) + 1
      /\ \A i \in 1 .. Len(got) : got'[i] = got[i]
  BY <1>1, <1>5
<1>7. TypeOK'
  BY <1>1, <1>2, <1>4, <1>6 DEF UartInv, TypeOK, txVars
<1>8. ReadInOrder'
  <2>1. \A i \in 1 .. Len(got') : got'[i] = i
    <3>1. \A i \in 1 .. Len(got) : got[i] = i
      BY DEF UartInv, RxInv, ReadInOrder
    <3> QED
      BY <1>5, <1>6, <3>1
  <2>2. ASSUME NEW i \in cnt + 1 .. RxBufLen - 1
        PROVE  rx.buf[Place(rx.head, i, RxSize)]
                 = Len(got) + 1 + 1 + i - (cnt + 1)
    <3>1. i \in cnt .. RxBufLen - 1
      BY <1>2
    <3>2. rx.buf[Place(rx.head, i, RxSize)] = Len(got) + 1 + i - cnt
      BY <1>1, <3>1 DEF UartInv, RxInv, ReadInOrder
    <3> QED
      BY <1>2, <1>5, <3>2
  <2>3. arrived = Len(got) + 1 + RxBufLen - (cnt + 1)
                    + (IF rxReg # NoByte THEN 1 ELSE 0)
    <3>1. arrived = Len(got) + RxBufLen - cnt
                      + (IF rxReg # NoByte THEN 1 ELSE 0)
      BY <1>1 DEF UartInv, RxInv, ReadInOrder
    <3> QED
      BY <1>2, <1>5, <3>1
  <2>4. RxBufLen' = RxBufLen
    BY <1>1 DEF RxBufLen
  <2> QED
    BY <1>1, <1>6, <2>1, <2>2, <2>3, <2>4 DEF ReadInOrder
<1>9. RxInv'
  <2>1. RxBufLen' = RxBufLen
    BY <1>1 DEF RxBufLen
  <2> QED
    BY <1>1, <1>2, <1>3, <1>4, <1>8, <2>1 DEF UartInv, RxInv
<1> QED
  BY <1>1, <1>7, <1>9, TxKept DEF UartInv, WriteInv

LEMMA ReadEndKeeps ==
  ASSUME UartInv, ReadEnd
  PROVE  UartInv'
<1> USE UartAssumption
<1>1. /\ pc = "read" /\ pc' = "idle" /\ cnt = length
      /\ rx' = [rx EXCEPT !.head = idx]
      /\ idx' = 0 /\ cnt' = 0 /\ length' = 0
      /\ UNCHANGED txVars
      /\ got' = got /\ rxReg' = rxReg /\ arrived' = arrived
  BY DEF ReadEnd
<1>2. /\ cnt \in 0 .. RxBufLen /\ idx = Place(rx.head, cnt, RxSize)
      /\ RxBufLen \in 0 .. RxSize - 1
      /\ RxBufLen = LenOf(rx.head, rx.tail)
      /\ rx.head \in 0 .. RxSize - 1 /\ rx.tail \in 0 .. RxSize - 1
  BY <1>1, Indices DEF UartInv, RxInv, TypeOK
<1>3. idx \in 0 .. RxSize - 1
  <2>1. cnt \in 0 .. RxSize
    BY <1>2
  <2> QED
    BY <1>2, <2>1, RxPlaces
<1>4. /\ rx' \in Ring(RxSize) /\ rx'.head = idx /\ rx'.tail = rx.tail
      /\ rx'.buf = rx.buf
  BY <1>1, <1>3 DEF UartInv, TypeOK, Ring
<1>5. TypeOK'
  BY <1>1, <1>4 DEF UartInv, TypeOK, txVars
<1>6. RxBufLen' = RxBufLen - cnt
  <2>1. RxBufLen' = LenOf(idx, rx.tail)
    BY <1>4 DEF RxBufLen, LenOf
  <2>2. cnt \in 0 .. LenOf(rx.head, rx.tail)
    BY <1>2
  <2>3. LenOf(Place(rx.head, cnt, RxSize), rx.tail)
          = LenOf(rx.head, rx.tail) - cnt
    BY <1>2, <2>2, LenShrinks
  <2> QED
    BY <1>2, <2>1, <2>3
<1>7. ReadInOrder'
  <2>1. ASSUME NEW i \in 0 .. RxBufLen - cnt - 1
        PROVE  rx.buf[Place(idx, i, RxSize)] = Len(got) + 1 + i - 0
    <3>1. cnt + i \in cnt .. RxBufLen - 1
      BY <1>2
    <3>2. rx.buf[Place(rx.head, cnt + i, RxSize)]
            = Len(got) + 1 + (cnt + i) - cnt
      BY <1>1, <3>1 DEF UartInv, RxInv, ReadInOrder
    <3>3. Place(idx, i, RxSize) = Place(rx.head, cnt + i, RxSize)
      <4>1. /\ cnt \in 0 .. LenOf(rx.head, rx.tail)
            /\ i \in 0 .. LenOf(rx.head, rx.tail) - cnt
        BY <1>2
      <4> QED
        BY <1>2, <4>1, LenShrinks
    <3>4. Len(got) \in Nat
      BY DEF UartInv, TypeOK
    <3> QED
      BY <1>2, <3>2, <3>3, <3>4
  <2>2. arrived = Len(got) + RxBufLen - cnt
                    + (IF rxReg # NoByte THEN 1 ELSE 0)
    BY <1>1 DEF UartInv, RxInv, ReadInOrder
  <2>3. \A i \in 1 .. Len(got) : got[i] = i
    BY DEF UartInv, RxInv, ReadInOrder
  <2>4. arrived = Len(got) + (RxBufLen - cnt) - 0
                    + (IF rxReg # NoByte THEN 1 ELSE 0)
    <3>1. Len(got) \in Nat
      BY DEF UartInv, TypeOK
    <3> QED
      BY <1>2, <2>2, <3>1
  <2> QED
    BY <1>1, <1>4, <1>6, <2>1, <2>3, <2>4 DEF ReadInOrder
<1>8. RxInv'
  BY <1>1, <1>2, <1>6, <1>7 DEF UartInv, RxInv
<1> QED
  BY <1>1, <1>5, <1>8, TxKept DEF UartInv, WriteInv

-----------------------------------------------------------------------------
(* The line and the service routine *)

LEMMA ArriveKeeps ==
  ASSUME UartInv, Arrive
  PROVE  UartInv'
<1> USE UartAssumption
<1>1. /\ arrived < MaxBytes /\ rxReg = 0 /\ RxBufLen < RxSize - 1
      /\ arrived' = arrived + 1 /\ rxReg' = arrived + 1
      /\ rx' = rx /\ got' = got /\ UNCHANGED txVars
      /\ pc' = pc /\ idx' = idx /\ cnt' = cnt /\ length' = length
  BY DEF Arrive, callVars
<1>2. arrived \in 0 .. MaxBytes /\ arrived + 1 \in 0 .. MaxBytes
  BY <1>1 DEF UartInv, TypeOK
<1>3. TypeOK'
  BY <1>1, <1>2 DEF UartInv, TypeOK, txVars
<1>4. RxBufLen' = RxBufLen /\ RxBufLen \in 0 .. RxSize - 1
  BY <1>1, Indices DEF RxBufLen
<1>5. ReadInOrder'
  <2> DEFINE read == IF pc = "read" THEN cnt ELSE 0
  <2>1. arrived = Len(got) + RxBufLen - read
    BY <1>1, <1>4 DEF UartInv, TypeOK, RxInv, ReadInOrder
  <2>2. arrived' = Len(got') + RxBufLen' - (IF pc' = "read" THEN cnt' ELSE 0)
                     + (IF rxReg' # NoByte THEN 1 ELSE 0)
    <3>1. rxReg' # NoByte
      BY <1>1, <1>2
    <3> QED
      BY <1>1, <1>2, <1>4, <2>1, <3>1
  <2> QED
    BY <1>1, <1>4, <2>2 DEF UartInv, RxInv, ReadInOrder
<1>6. RxInv'
  BY <1>1, <1>4, <1>5 DEF UartInv, RxInv
<1>7. TxInv' /\ WriteInv'
  BY <1>1, TxKept DEF UartInv, WriteInv, txVars
<1> QED
  BY <1>3, <1>6, <1>7 DEF UartInv

LEMMA ShiftKeeps ==
  ASSUME UartInv, Shift
  PROVE  /\ UartInv'
         /\ sent' = Append(sent, Len(sent) + 1) /\ Len(sent) < accepted
<1> USE UartAssumption
<1>1. /\ txReg # 0 /\ sent' = Append(sent, txReg) /\ txReg' = 0
      /\ txIfg' = TRUE /\ tx' = tx /\ txIe' = txIe /\ accepted' = accepted
      /\ UNCHANGED rxVars
      /\ pc' = pc /\ idx' = idx /\ cnt' = cnt /\ length' = length
  BY DEF Shift, callVars
<1>2. /\ txReg = Len(sent) + 1 /\ ~txIfg /\ Busy /\ Busy'
  BY <1>1 DEF UartInv, TxInv, Busy
<1>3. Due = 0 /\ Due' = 1 /\ Held' = Held /\ Held \in 1 .. TxSize
  <2>1. Held' = Held
    BY <1>1, <1>2 DEF Held, HeldOf
  <2>2. Held \in 1 .. TxSize
    BY <1>2, Indices
  <2> QED
    BY <1>1, <1>2, <2>1, <2>2 DEF Due
<1>4. /\ sent \in Seq(0 .. MaxBytes) /\ Len(sent) \in Nat
      /\ txReg \in 0 .. MaxBytes
  BY DEF UartInv, TypeOK
<1>5. /\ sent' \in Seq(0 .. MaxBytes) /\ Len(sent') = Len(sent) + 1
      /\ sent'[Len(sent) + 1] = txReg
      /\ \A i \in 1 .. Len(sent) : sent'[i] = sent[i]
  BY <1>1, <1>4
<1>6. TypeOK'
  BY <1>1, <1>5 DEF UartInv, TypeOK, rxVars
<1>7. accepted = Len(sent) + Held
  BY <1>3, <1>4 DEF UartInv, TxInv
<1>8. TxInv'
  <2>1. accepted' = Len(sent') + Held' - Due'
    BY <1>1, <1>3, <1>4, <1>5, <1>7
  <2>2. ASSUME NEW i \in 1 .. Held - 1
        PROVE  tx.buf[Place(tx.head, i, TxSize)] = Len(sent) + 1 + 1 + i - 1
    <3>1. i \in Due .. Held - 1
      BY <1>3
    <3>2. tx.buf[Place(tx.head, i, TxSize)] = Len(sent) + 1 + i - Due
      BY <3>1 DEF UartInv, TxInv
    <3> QED
      BY <1>3, <1>4, <3>2
  <2>3. SentInOrder'
    BY <1>2, <1>4, <1>5 DEF UartInv, TxInv, SentInOrder
  <2>4. IntEnable => txIe'
    BY <1>1, <1>2 DEF UartInv, TxInv
  <2> QED
    BY <1>1, <1>2, <1>3, <1>5, <2>1, <2>2, <2>3, <2>4 DEF TxInv
<1>9. WriteInv'
  BY <1>1, <1>3 DEF UartInv, WriteInv
<1>10. RxInv'
  BY <1>1 DEF UartInv, RxInv, rxVars, ReadInOrder, RxBufLen
<1> QED
  BY <1>1, <1>2, <1>3, <1>4, <1>6, <1>7, <1>8, <1>9, <1>10 DEF UartInv

\* The service routine puts the byte that has arrived behind the tail.
LEMMA RxProcessKeeps ==
  ASSUME UartInv, rxReg # 0, RxProcessEvent, UNCHANGED callVars
  PROVE  RxInv' /\ rx' \in Ring(RxSize) /\ rxReg' = 0
                /\ arrived' = arrived /\ got' = got
<1> USE UartAssumption
<1>1. /\ rx' = [rx EXCEPT !.buf[rx.tail] = rxReg,
                        !.tail = After(rx.tail, RxSize)]
      /\ rxReg' = 0 /\ arrived' = arrived /\ got' = got
      /\ pc' = pc /\ idx' = idx /\ cnt' = cnt /\ length' = length
  BY DEF RxProcessEvent, callVars
<1>2. /\ rxReg = arrived /\ RxBufLen < RxSize - 1
      /\ rxReg \in 0 .. MaxBytes
  BY DEF UartInv, TypeOK, RxInv
<1>3. /\ RxBufLen \in 0 .. RxSize - 1
      /\ RxBufLen = LenOf(rx.head, rx.tail)
      /\ rx.head \in 0 .. RxSize - 1 /\ rx.tail \in 0 .. RxSize - 1
  BY Indices
<1>4. /\ rx.tail = Place(rx.head, RxBufLen, RxSize)
      /\ After(rx.tail, RxSize) \in 0 .. RxSize - 1
      /\ LenOf(rx.head, After(rx.tail, RxSize)) = RxBufLen + 1
  BY <1>2, <1>3, LenFacts
<1>5. /\ rx' \in Ring(RxSize) /\ rx'.head = rx.head
      /\ rx'.tail = After(rx.tail, RxSize)
      /\ rx'.buf[rx.tail] = arrived
      /\ \A k \in 0 .. RxSize - 1 : k # rx.tail => rx'.buf[k] = rx.buf[k]
  BY <1>1, <1>2, <1>3, <1>4 DEF UartInv, TypeOK, Ring
<1>6. RxBufLen' = RxBufLen + 1
  BY <1>4, <1>5 DEF RxBufLen, LenOf
<1>7. ReadInOrder'
  <2> DEFINE read == IF pc = "read" THEN cnt ELSE 0
  <2>1. read \in 0 .. RxBufLen /\ Len(got) \in Nat
    BY <1>3 DEF UartInv, TypeOK, RxInv
  <2>2. arrived = Len(got) + RxBufLen - read + 1
    BY <1>2, <1>3 DEF UartInv, RxInv, ReadInOrder
  <2>3. ASSUME NEW i \in read .. RxBufLen
        PROVE  rx'.buf[Place(rx.head, i, RxSize)] = Len(got) + 1 + i - read
    <3>1. CASE i = RxBufLen
      <4>1. Len(got) + 1 + i - read = arrived
        BY <1>3, <2>1, <2>2, <3>1
      <4>2. Place(rx.head, i, RxSize) = rx.tail
        BY <1>4, <3>1
      <4> QED
        BY <1>5, <4>1, <4>2
    <3>2. CASE i # RxBufLen
      <4>1. /\ i \in read .. RxBufLen - 1
            /\ i \in 0 .. RxSize - 1 /\ i \in 0 .. RxSize
        BY <1>3, <2>1, <3>2
      <4>2. Place(rx.head, i, RxSize) # rx.tail
        BY <1>3, <1>4, <3>2, <4>1, PlacesDiffer
      <4>3. Place(rx.head, i, RxSize) \in 0 .. RxSize - 1
        BY <1>3, <4>1, RxPlaces
      <4>4. rx.buf[Place(rx.head, i, RxSize)] = Len(got) + 1 + i - read
        BY <4>1 DEF UartInv, RxInv, ReadInOrder
      <4> QED
        BY <1>5, <4>2, <4>3, <4>4
    <3> QED
      BY <3>1, <3>2
  <2>4. arrived = Len(got) + (RxBufLen + 1) - read + 0
    BY <1>3, <2>1, <2>2
  <2>5. read .. RxBufLen' - 1 = read .. RxBufLen
    BY <1>3, <1>6, <2>1
  <2>6. \A i \in 1 .. Len(got) : got[i] = i
    BY DEF UartInv, RxInv, ReadInOrder
  <2>7. read' = read
    BY <1>1
  <2> QED
    BY <1>1, <1>5, <1>6, <2>3, <2>4, <2>5, <2>6, <2>7 DEF ReadInOrder
<1>8. RxInv'
  <2>1. pc = "read" => /\ cnt <= length /\ length <= RxBufLen + 1
                       /\ idx = Place(rx.head, cnt, RxSize)
    BY <1>3 DEF UartInv, TypeOK, RxInv
  <2> QED
    BY <1>1, <1>5, <1>6, <1>7, <2>1 DEF RxInv
<1> QED
  BY <1>1, <1>5, <1>8

\* The service routine moves the head on and sends the next byte, if any.
LEMMA TxProcessKeeps ==
  ASSUME UartInv, txIfg, TxProcessEvent, UNCHANGED callVars
  PROVE  /\ TxInv' /\ WriteInv' /\ tx' \in Ring(TxSize)
         /\ txReg' \in 0 .. MaxBytes /\ txIfg' \in BOOLEAN
         /\ txIe' \in BOOLEAN /\ accepted' = accepted /\ sent' = sent
<1> USE UartAssumption
<1> DEFINE g == After(tx.head, TxSize)
<1>1. /\ tx' = [tx EXCEPT !.head = g] /\ accepted' = accepted /\ sent' = sent
      /\ pc' = pc /\ idx' = idx /\ cnt' = cnt /\ length' = length
  BY DEF TxProcessEvent, callVars
<1>2. /\ Busy /\ Due = 1 /\ txReg = 0
      /\ tx.head \in 0 .. TxSize - 1 /\ tx.tail \in 0 .. TxSize - 1
      /\ Held \in 1 .. TxSize
  <2>1. Busy /\ Due = 1
    BY DEF Busy, Due
  <2>2. txReg = 0
    BY DEF UartInv, TxInv
  <2>3. /\ tx.head \in 0 .. TxSize - 1 /\ tx.tail \in 0 .. TxSize - 1
        /\ Held \in 0 .. TxSize /\ Held >= 1
    BY <2>1, Indices
  <2> QED
    BY <2>1, <2>2, <2>3
<1>h. /\ g = tx.tail => Held = 1
      /\ g # tx.tail => Held - 1 >= 1 /\ HeldOf(g, tx.tail, TRUE) = Held - 1
  BY <1>2 DEF Held, HeldOf, After
<1>k. g # tx.tail => Held >= 2
  <2> SUFFICES ASSUME g # tx.tail PROVE Held >= 2
    OBVIOUS
  <2>1. Held - 1 >= 1
    BY <1>h
  <2> QED
    BY <1>2, <2>1
<1>3. /\ g \in 0 .. TxSize - 1
      /\ \A i \in 0 .. TxSize - 1 :
           Place(g, i, TxSize) = Place(tx.head, i + 1, TxSize)
  BY <1>2, HeldShrinks
<1>4. /\ tx' \in Ring(TxSize) /\ tx'.head = g /\ tx'.tail = tx.tail
      /\ tx'.buf = tx.buf
  BY <1>1, <1>3 DEF UartInv, TypeOK, Ring
<1> HIDE DEF g
<1>5. ASSUME NEW i \in 0 .. Held - 2
      PROVE  tx.buf[Place(g, i, TxSize)] = Len(sent) + 1 + i
  <2>1. i + 1 \in Due .. Held - 1 /\ i \in 0 .. TxSize - 1
    BY <1>2
  <2>2. tx.buf[Place(tx.head, i + 1, TxSize)] = Len(sent) + 1 + (i + 1) - Due
    BY <2>1 DEF UartInv, TxInv
  <2>3. Len(sent) \in Nat
    BY DEF UartInv, TypeOK
  <2> QED
    BY <1>2, <1>3, <2>1, <2>2, <2>3
<1>6. /\ txIfg' = FALSE /\ txIe' \in BOOLEAN
      /\ g # tx.tail => txReg' = Len(sent) + 1 /\ txIe' = txIe
      /\ g = tx.tail => txReg' = 0
  <2>1. CASE g = tx.tail
    BY <1>2, <1>4, <2>1 DEF TxProcessEvent
  <2>2. CASE g # tx.tail
    <3>1. txReg' = tx'.buf[g] /\ txIfg' = FALSE /\ txIe' = txIe
      BY <1>4, <2>2 DEF TxProcessEvent, PutByte
    <3>2. 0 \in 0 .. Held - 2
      BY <1>2, <1>k, <2>2
    <3>3. tx.buf[Place(g, 0, TxSize)] = Len(sent) + 1 + 0
      BY <1>2, <1>5, <3>2
    <3>4. Place(g, 0, TxSize) = g
      BY <1>3, TxPlaces, 0 \in 0 .. TxSize
    <3>5. Len(sent) \in Nat /\ txIe \in BOOLEAN
      BY DEF UartInv, TypeOK
    <3> QED
      BY <1>4, <2>2, <3>1, <3>3, <3>4, <3>5
  <2> QED
    BY <2>1, <2>2
<1>7. (Busy' <=> g # tx.tail) /\ Due' = 0
  <2>1. Len(sent) \in Nat
    BY DEF UartInv, TypeOK
  <2> QED
    BY <1>6, <2>1 DEF Busy, Due
<1>8. Held' = Held - 1
  <2>1. CASE g = tx.tail
    <3>1. Held' = 0
      BY <1>4, <1>7, <2>1 DEF Held, HeldOf
    <3> QED
      BY <1>h, <2>1, <3>1
  <2>2. CASE g # tx.tail
    <3>1. Held' = HeldOf(g, tx.tail, TRUE)
      BY <1>4, <1>7, <2>2 DEF Held, HeldOf
    <3> QED
      BY <1>h, <2>2, <3>1
  <2> QED
    BY <2>1, <2>2
<1>9. accepted = Len(sent) + Held - 1 /\ Len(sent) \in Nat
      /\ accepted \in 0 .. MaxBytes
  BY <1>2 DEF UartInv, TypeOK, TxInv
<1>10. TxInv'
  <2>1. accepted' = Len(sent') + Held' - Due'
    BY <1>1, <1>2, <1>7, <1>8, <1>9
  <2>2. \A i \in Due' .. Held' - 1 :
          tx'.buf[Place(tx'.head, i, TxSize)] = Len(sent') + 1 + i - Due'
    <3>1. Due' .. Held' - 1 = 0 .. Held - 2
      BY <1>2, <1>7, <1>8
    <3>2. ASSUME NEW i \in 0 .. Held - 2
          PROVE  tx.buf[Place(g, i, TxSize)] = Len(sent) + 1 + i - 0
      <4>1. i \in Nat
        BY <1>2
      <4> QED
        BY <1>5, <1>9, <4>1
    <3> QED
      BY <1>1, <1>4, <1>7, <3>1, <3>2
  <2>3. IntEnable => (Busy' => txIe')
    <3>1. IntEnable => txIe
      BY <1>2 DEF UartInv, TxInv
    <3>2. Busy' => txIe' = txIe
      BY <1>6, <1>7
    <3> QED
      BY <3>1, <3>2
  <2> QED
    BY <1>1, <1>4, <1>6, <1>7, <2>1, <2>2, <2>3
    DEF UartInv, TxInv, SentInOrder
<1>11. WriteInv'
  <2>1. CASE pc = "room"
    <3>1. /\ idx \in 0 .. TxSize - 1
          /\ length >= 1 /\ accepted + length <= MaxBytes
          /\ Room(idx, tx.tail) <= TxSize - Held
      BY <2>1 DEF UartInv, WriteInv
    <3>2. Room(idx, tx.tail) \in Int
      BY <1>2, <3>1 DEF Room
    <3>3. Room(idx, tx.tail) <= TxSize - (Held - 1)
      BY <1>2, <3>1, <3>2
    <3>4. (Room(idx, tx.tail) <= TxSize - Held)'
      BY <1>1, <1>4, <1>8, <3>3 DEF Room
    <3> QED
      BY <1>1, <2>1, <3>1, <3>4 DEF WriteInv
  <2>2. CASE pc = "copy"
    <3>1. Held - 1 + length <= TxSize
      BY <1>2, <2>2 DEF UartInv, TypeOK, WriteInv
    <3> QED
      BY <1>1, <1>4, <1>8, <2>2, <3>1 DEF UartInv, WriteInv
  <2>3. CASE pc \notin {"room", "copy"}
    BY <1>1, <2>3 DEF WriteInv
  <2> QED
    BY <2>1, <2>2, <2>3
<1>12. txReg' \in 0 .. MaxBytes
  <2>1. CASE g = tx.tail
    BY <1>6, <2>1
  <2>2. CASE g # tx.tail
    <3>1. Len(sent) + 1 \in 0 .. MaxBytes
      BY <1>2, <1>9, <1>k, <2>2
    <3> QED
      BY <1>6, <2>2, <3>1
  <2> QED
    BY <2>1, <2>2
<1> QED
  BY <1>1, <1>4, <1>6, <1>10, <1>11, <1>12

LEMMA InterruptKeeps ==
  ASSUME UartInv, Interrupt
  PROVE  UartInv' /\ UNCHANGED <<accepted, sent>>
<1> USE UartAssumption
<1>1. UNCHANGED callVars
  BY DEF Interrupt
<1>2. /\ RxInv' /\ rx' \in Ring(RxSize) /\ rxReg' \in 0 .. MaxBytes
      /\ arrived' = arrived /\ got' = got
  <2>1. CASE rxReg # 0
    BY <1>1, <2>1, RxProcessKeeps DEF Interrupt
  <2>2. CASE rxReg = 0
    <3>1. UNCHANGED rxVars
      BY <2>2 DEF Interrupt
    <3> QED
      BY <1>1, <3>1
      DEF UartInv, TypeOK, RxInv, rxVars, callVars, ReadInOrder, RxBufLen
  <2> QED
    BY <2>1, <2>2
<1>3. /\ TxInv' /\ WriteInv' /\ tx' \in Ring(TxSize)
      /\ txReg' \in 0 .. MaxBytes /\ txIfg' \in BOOLEAN
      /\ txIe' \in BOOLEAN /\ accepted' = accepted /\ sent' = sent
  <2>1. CASE txIfg
    BY <1>1, <2>1, TxProcessKeeps DEF Interrupt
  <2>2. CASE ~txIfg
    <3>1. UNCHANGED txVars
      BY <2>2 DEF Interrupt
    <3>2. TxInv' /\ Held' = Held
      BY <3>1, TxKept DEF UartInv
    <3> QED
      BY <1>1, <3>1, <3>2 DEF UartInv, TypeOK, WriteInv, txVars, callVars
  <2> QED
    BY <2>1, <2>2
<1>4. TypeOK'
  BY <1>1, <1>2, <1>3 DEF UartInv, TypeOK, callVars
<1> QED
  BY <1>2, <1>3, <1>4 DEF UartInv

LEMMA StutterKeeps ==
  ASSUME UartInv, UNCHANGED vars
  PROVE  UartInv'
<1>1. UNCHANGED txVars /\ UNCHANGED rxVars /\ UNCHANGED callVars
  BY DEF vars
<1>2. TxInv' /\ Held' = Held
  BY <1>1, TxKept DEF UartInv
<1>3. TypeOK' /\ WriteInv' /\ RxInv'
  BY <1>1, <1>2
  DEF UartInv, TypeOK, WriteInv, RxInv, txVars, rxVars, callVars,
      ReadInOrder, RxBufLen
<1> QED
  BY <1>2, <1>3 DEF UartInv

-----------------------------------------------------------------------------
(* Theorems *)

\* What the inductive invariant says of a state is what the runs check.
LEMMA UartInvGives ==
  ASSUME UartInv
  PROVE  TypeOK /\ RingHoldsUnsent /\ SentInOrder /\ ReadInOrder
<1> USE UartAssumption
<1>1. TxHeld = Held
  BY HeldHere DEF UartInv, Held
<1>2. /\ accepted = Len(sent) + Held - Due
      /\ Held \in Nat /\ Len(sent) \in Nat /\ Due \in 0 .. 1
  <2>1. Held \in 0 .. TxSize
    BY Indices
  <2>2. Len(sent) \in Nat /\ Due \in 0 .. 1
    BY DEF UartInv, TypeOK, Due
  <2>3. accepted = Len(sent) + Held - Due
    BY DEF UartInv, TxInv
  <2> QED
    BY <2>1, <2>2, <2>3
<1>3. txReg # NoByte => txReg = tx.buf[tx.head]
  <2> SUFFICES ASSUME txReg # 0 PROVE txReg = tx.buf[tx.head]
    OBVIOUS
  <2>1. txReg = Len(sent) + 1 /\ Due = 0 /\ Busy
    BY DEF UartInv, TxInv, Due, Busy
  <2>2. 0 \in Due .. Held - 1
    BY <1>2, <2>1, Indices
  <2>3. tx.buf[Place(tx.head, 0, TxSize)] = Len(sent) + 1 + 0 - Due
    BY <2>2 DEF UartInv, TxInv
  <2>4. Place(tx.head, 0, TxSize) = tx.head
    <3>1. tx.head \in 0 .. TxSize - 1 /\ 0 \in 0 .. TxSize
      BY Indices
    <3> QED
      BY <3>1, TxPlaces
  <2> QED
    BY <1>2, <2>1, <2>3, <2>4
<1>4. accepted - Len(sent) = TxHeld - Due
  BY <1>1, <1>2
<1>5. RingHoldsUnsent
  BY <1>1, <1>3, <1>4 DEF RingHoldsUnsent, Due, UartInv, TxInv
<1> QED
  BY <1>5 DEF UartInv, TxInv, RxInv

LEMMA UartStep ==
  ASSUME ~MayWriteWhenFull, UartInv, [Next]_vars
  PROVE  UartInv'
<1>1. CASE WriteHead
  BY <1>1, WriteHeadKeeps
<1>2. CASE WriteRoom
  BY <1>2, WriteRoomKeeps
<1>3. CASE WriteByte
  BY <1>3, WriteByteKeeps
<1>4. CASE WriteStart
  BY <1>4, WriteStartKeeps
<1>5. CASE ReadLength
  BY <1>5, ReadLengthKeeps
<1>6. CASE ReadByte
  BY <1>6, ReadByteKeeps
<1>7. CASE ReadEnd
  BY <1>7, ReadEndKeeps
<1>8. CASE Interrupt
  BY <1>8, InterruptKeeps
<1>9. CASE Shift
  BY <1>9, ShiftKeeps
<1>10. CASE Arrive
  BY <1>10, ArriveKeeps
<1>11. CASE UNCHANGED vars
  BY <1>11, StutterKeeps
<1> QED
  BY <1>1, <1>2, <1>3, <1>4, <1>5, <1>6, <1>7, <1>8, <1>9, <1>10, <1>11
  DEF Next

\* The inductive invariant: where the bytes accepted and the bytes arrived lie
\* in the rings, and what a call in progress has found out about them.
THEOREM UartInvariant ==
  ASSUME ~MayWriteWhenFull
  PROVE  Spec => []UartInv
<1>1. Init => UartInv
  BY UartInit
<1>2. UartInv /\ [Next]_vars => UartInv'
  BY UartStep
<1> QED
  BY <1>1, <1>2, PTL DEF Spec

\* The variables of hal_uart.c keep their types: every index stays in its ring.
THEOREM TypeCorrect ==
  ASSUME ~MayWriteWhenFull
  PROVE  Spec => []TypeOK
<1>1. UartInv => TypeOK
  BY UartInvGives
<1> QED
  BY <1>1, UartInvariant, PTL

\* The bytes HalUARTOutBuf accepted and the line has not sent lie in the ring,
\* in order, and the transmitter runs while there are any.
THEOREM UnsentAreHeld ==
  ASSUME ~MayWriteWhenFull
  PROVE  Spec => []RingHoldsUnsent
<1>1. UartInv => RingHoldsUnsent
  BY UartInvGives
<1> QED
  BY <1>1, UartInvariant, PTL

\* The bytes on the line are the accepted ones, each once and in order.
THEOREM LineInOrder ==
  ASSUME ~MayWriteWhenFull
  PROVE  Spec => []SentInOrder
<1>1. UartInv => SentInOrder
  BY UartInvGives
<1> QED
  BY <1>1, UartInvariant, PTL

\* HalUARTRead returns the bytes that arrived, each once and in order.
THEOREM ReadsInOrder ==
  ASSUME ~MayWriteWhenFull
  PROVE  Spec => []ReadInOrder
<1>1. UartInv => ReadInOrder
  BY UartInvGives
<1> QED
  BY <1>1, UartInvariant, PTL

\* Every step of the driver accepts a write as a whole when there is room for
\* it, sends the next accepted byte, or is hidden: the safety of ByteLine.
LineStep == [Line!Next]_<<accepted, sent>>

LEMMA StepsOfLine ==
  ASSUME UartInv, [Next]_vars
  PROVE  LineStep
<1> USE UartAssumption
<1>1. CASE WriteStart
  <2>1. /\ pc = "copy" /\ accepted' = accepted + length /\ sent' = sent
    BY <1>1 DEF WriteStart
  <2>2. length >= 1 /\ Held + length <= TxSize
    BY <2>1 DEF UartInv, WriteInv
  <2>3. /\ accepted = Len(sent) + Held - Due /\ length \in Nat
        /\ Held \in Nat /\ Len(sent) \in Nat /\ Due \in 0 .. 1
    <3>1. Held \in 0 .. TxSize
      BY Indices
    <3>2. Len(sent) \in Nat /\ Due \in 0 .. 1 /\ length \in Nat
      BY DEF UartInv, TypeOK, Due
    <3>3. accepted = Len(sent) + Held - Due
      BY DEF UartInv, TxInv
    <3> QED
      BY <3>1, <3>2, <3>3
  <2>4. length \in 1 .. TxSize /\ accepted + length - Len(sent) <= TxSize
    BY <2>2, <2>3
  <2> QED
    BY <2>1, <2>4 DEF LineStep, Line!Next, Line!Accept
<1>2. CASE Shift
  <2>1. sent' = Append(sent, Len(sent) + 1) /\ Len(sent) < accepted
    BY <1>2, ShiftKeeps
  <2>2. accepted' = accepted
    BY <1>2 DEF Shift
  <2> QED
    BY <2>1, <2>2 DEF LineStep, Line!Next, Line!Send
<1>3. CASE Interrupt
  BY <1>3, InterruptKeeps DEF LineStep
<1>4. CASE \/ WriteHead \/ WriteRoom \/ WriteByte
           \/ ReadLength \/ ReadByte \/ ReadEnd \/ Arrive \/ UNCHANGED vars
  <2>1. accepted' = accepted /\ sent' = sent
    BY <1>4 DEF WriteHead, WriteRoom, WriteByte, ReadLength, ReadByte, ReadEnd,
                Arrive, vars, txVars
  <2> QED
    BY <2>1 DEF LineStep
<1> QED
  BY <1>1, <1>2, <1>3, <1>4 DEF Next

\* The driver implements the line its callers are promised, but for liveness.
THEOREM DriverIsLine ==
  ASSUME ~MayWriteWhenFull
  PROVE  Spec => Line!Init /\ [][Line!Next]_<<accepted, sent>>
<1>1. Init => Line!Init
  BY DEF Init, Line!Init
<1>2. UartInv /\ [Next]_vars => [Line!Next]_<<accepted, sent>>
  BY StepsOfLine DEF LineStep
<1> QED
  BY <1>1, <1>2, UartInvariant, PTL DEF Spec
=============================================================================
