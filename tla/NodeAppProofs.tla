--------------------------- MODULE NodeAppProofs ---------------------------
(***************************************************************************)
(* Type correctness of the node, that pending results and the poll failure  *)
(* count stay what the handlers rely on, that data request buffers are      *)
(* freed once and that no measurement comes with the sensors off, for every *)
(* value of the constants.                                                  *)
(*                                                                          *)
(* Sound is what every handler keeps, Slack what the buffers have over the  *)
(* requests: only the confirm of a data request takes from it.              *)
(***************************************************************************)
EXTENDS NodeApp, FiniteSetTheorems, FunctionTheorems, TLAPS

Sound(s) ==
  /\ s \in NodeStates
  /\ s.datas <= s.bufs
  /\ s.isPendData => ~s.isAssociated
  /\ s.isAssociated => s.numPollFail <= PollFailLimit

Slack(s) == s.bufs - s.datas

-----------------------------------------------------------------------------
(* The parts of the handlers.                                              *)

\* Holding k more requests stays within the bound.
LEMMA HeldFacts ==
  ASSUME NEW n \in 0 .. MaxReqs, NEW k \in Nat
  PROVE  Held(n, k) \in 0 .. MaxReqs
BY NodeAssumption DEF Held, NodeAssumption

\* A scan request changes nothing but the count of scans.
LEMMA ScanReqKeeps ==
  ASSUME NEW s, Sound(s)
  PROVE  Sound(NWK_ScanReq(s)) /\ Slack(NWK_ScanReq(s)) = Slack(s)
<1>1. Held(s.scans, 1) \in 0 .. MaxReqs
  BY HeldFacts DEF Sound, NodeStates
<1> QED
  BY <1>1 DEF Sound, Slack, NodeStates, NWK_ScanReq

\* A poll request changes nothing but the count of polls.
LEMMA PollReqKeeps ==
  ASSUME NEW s, Sound(s)
  PROVE  Sound(NODE_PollRequest(s)) /\ Slack(NODE_PollRequest(s)) = Slack(s)
<1>1. Held(s.polls, 1) \in 0 .. MaxReqs
  BY HeldFacts DEF Sound, NodeStates
<1> QED
  BY <1>1 DEF Sound, Slack, NodeStates, NODE_PollRequest

\* Sending takes a buffer and makes a request with it, or does nothing.
LEMMA SendKeeps ==
  ASSUME NEW s, Sound(s), NEW mem \in BOOLEAN
  PROVE  /\ Sound(NODE_SendDirect(s, mem))
         /\ Slack(NODE_SendDirect(s, mem)) = Slack(s)
         /\ NODE_SendDirect(s, mem).isAssociated = s.isAssociated
<1>1. CASE s.bufs < MaxBufs /\ mem
  <2>1. s.bufs + 1 \in 0 .. MaxBufs /\ s.datas + 1 \in 0 .. MaxBufs
    BY <1>1, NodeAssumption DEF Sound, NodeStates, NodeAssumption
  <2> DEFINE t == [s EXCEPT !.bufs = @ + 1, !.datas = @ + 1]
  <2>2. t \in NodeStates
    BY <2>1 DEF Sound, NodeStates
  <2>3. /\ t.bufs = s.bufs + 1 /\ t.datas = s.datas + 1
        /\ t.isPendData = s.isPendData /\ t.isAssociated = s.isAssociated
        /\ t.numPollFail = s.numPollFail
    BY DEF Sound, NodeStates
  <2>4. NODE_SendDirect(s, mem) = t
    BY <1>1 DEF NODE_SendDirect
  <2>5. s.bufs \in Int /\ s.datas \in Int
    BY DEF Sound, NodeStates
  <2> HIDE DEF t
  <2> QED
    BY <2>2, <2>3, <2>4, <2>5 DEF Sound, Slack
<1>2. CASE ~(s.bufs < MaxBufs /\ mem)
  BY <1>2 DEF NODE_SendDirect
<1> QED
  BY <1>1, <1>2

\* A failed scan touches the rescan counter, its timer and the power mode.
LEMMA ScanFailKeeps ==
  ASSUME NEW s, Sound(s), NEW mem \in BOOLEAN
  PROVE  /\ Sound(ProcessScanFail(s, mem))
         /\ Slack(ProcessScanFail(s, mem)) = Slack(s)
<1> DEFINE t == [s EXCEPT !.curRescanNum = (@ + 1) % Byte]
<1>1. (s.curRescanNum + 1) % Byte \in 0 .. Byte - 1
  BY DEF Sound, NodeStates, Byte
<1>2. Sound(t) /\ Slack(t) = Slack(s)
  BY <1>1 DEF Sound, Slack, NodeStates
<1>3. Sound([t EXCEPT !.rescanTimer = @ \/ mem])
        /\ Slack([t EXCEPT !.rescanTimer = @ \/ mem]) = Slack(t)
  <2> HIDE DEF t
  <2> QED BY <1>2 DEF Sound, Slack, NodeStates
<1>4. Sound([t EXCEPT !.battery = TRUE])
        /\ Slack([t EXCEPT !.battery = TRUE]) = Slack(t)
  <2> HIDE DEF t
  <2> QED BY <1>2 DEF Sound, Slack, NodeStates
<1> QED
  BY <1>2, <1>3, <1>4 DEF ProcessScanFail

\* Association requests and what comes with them keep a node sound.
LEMMA AssociateKeeps ==
  ASSUME NEW s, Sound(s), NEW found \in Nat
  PROVE  /\ Sound(AssociateWithAll(s, found))
         /\ Slack(AssociateWithAll(s, found)) = Slack(s)
<1>1. Held(s.assocs, found) \in 0 .. MaxReqs
  BY HeldFacts DEF Sound, NodeStates
<1> DEFINE t == [s EXCEPT !.isGWDetect = TRUE, !.battery = TRUE,
                          !.assocs = Held(@, found)]
<1>2. t \in NodeStates
  BY <1>1 DEF Sound, NodeStates
<1>3. /\ t.bufs = s.bufs /\ t.datas = s.datas
      /\ t.isPendData = s.isPendData /\ t.isAssociated = s.isAssociated
      /\ t.numPollFail = s.numPollFail
  BY DEF Sound, NodeStates
<1>4. AssociateWithAll(s, found) \in {s, t}
  BY DEF AssociateWithAll
<1> HIDE DEF t
<1> QED
  BY <1>2, <1>3, <1>4 DEF Sound, Slack

\* The confirm of a scan keeps a node sound.
LEMMA ScanConfirmKeeps ==
  ASSUME NEW s, Sound(s), NEW c, c.found \in Nat, NEW mem \in BOOLEAN
  PROVE  /\ Sound(ProcessScanConfirmEvent(s, c, mem))
         /\ Slack(ProcessScanConfirmEvent(s, c, mem)) = Slack(s)
<1> DEFINE t == AssociateWithAll(s, c.found)
<1>1. Sound(t) /\ Slack(t) = Slack(s)
  BY AssociateKeeps
<1>2. /\ Sound(ProcessScanFail(t, mem))
      /\ Slack(ProcessScanFail(t, mem)) = Slack(t)
  BY <1>1, ScanFailKeeps
<1>3. /\ Sound(ProcessScanFail(s, mem))
      /\ Slack(ProcessScanFail(s, mem)) = Slack(s)
  BY ScanFailKeeps
<1>4. ProcessScanConfirmEvent(s, c, mem)
        \in {t, ProcessScanFail(t, mem), ProcessScanFail(s, mem)}
  BY DEF ProcessScanConfirmEvent
<1> HIDE DEF t
<1> QED
  BY <1>1, <1>2, <1>3, <1>4

\* The association starts with no failed poll and nothing pending.
LEMMA AssocConfirmKeeps ==
  ASSUME NEW s, Sound(s), NEW c, NEW mem \in BOOLEAN
  PROVE  /\ Sound(ProcessAssocConfirmEvent(s, c, mem))
         /\ Slack(ProcessAssocConfirmEvent(s, c, mem)) = Slack(s)
<1>1. /\ Sound(ProcessScanFail(s, mem))
      /\ Slack(ProcessScanFail(s, mem)) = Slack(s)
  BY ScanFailKeeps
<1> DEFINE t == Associated(s)
           w == NODE_SendDirect(t, mem)
<1>2. t \in NodeStates /\ t.isAssociated = TRUE /\ t.numPollFail = 0
        /\ t.bufs = s.bufs /\ t.datas = s.datas /\ t.isPendData = s.isPendData
  <2>1. 0 \in 0 .. Byte - 1
    BY DEF Byte
  <2>2. s \in NodeStates
    BY DEF Sound
  <2>3. t \in NodeStates
    BY <2>1, <2>2 DEF NodeStates, Associated
  <2> QED
    BY <2>2, <2>3 DEF NodeStates, Associated
<1>3. s.isPendData \in BOOLEAN /\ s.bufs \in Int /\ s.datas \in Int
  BY DEF Sound, NodeStates
<1>4. CASE ~s.isPendData
  <2>1. SendPending(t, mem) = t
    BY <1>2, <1>4 DEF SendPending
  <2>2. Sound(t) /\ Slack(t) = Slack(s)
    <3> HIDE DEF t
    <3> QED BY <1>2, <1>4, NodeAssumption DEF Sound, Slack, NodeAssumption
  <2> QED
    BY <1>1, <2>1, <2>2 DEF ProcessAssocConfirmEvent
<1>5. CASE s.isPendData
  <2> DEFINE x == [w EXCEPT !.isPendData = FALSE]
  <2>1. w \in {t, [t EXCEPT !.bufs = @ + 1, !.datas = @ + 1]}
    BY DEF NODE_SendDirect
  <2>2. w = t \/ t.bufs < MaxBufs
    BY DEF NODE_SendDirect
  <2>3. /\ w \in NodeStates /\ w.bufs - w.datas = s.bufs - s.datas
        /\ w.datas <= w.bufs
        /\ w.isAssociated = TRUE /\ w.numPollFail = 0
    <3>1. CASE w = t
      <4> HIDE DEF t, w
      <4> QED BY <1>2, <3>1 DEF Sound
    <3>2. CASE w = [t EXCEPT !.bufs = @ + 1, !.datas = @ + 1] /\ t.bufs < MaxBufs
      <4>1. t.bufs + 1 \in 0 .. MaxBufs /\ t.datas + 1 \in 0 .. MaxBufs
        <5> HIDE DEF t, w
        <5> QED BY <1>2, <3>2, NodeAssumption DEF Sound, NodeStates, NodeAssumption
      <4>2. w \in NodeStates
        <5> HIDE DEF t, w
        <5> QED BY <1>2, <3>2, <4>1 DEF NodeStates
      <4>3. w.bufs = t.bufs + 1 /\ w.datas = t.datas + 1
              /\ w.isAssociated = TRUE /\ w.numPollFail = 0
        <5> HIDE DEF t, w
        <5> QED BY <1>2, <3>2 DEF NodeStates
      <4> HIDE DEF t, w
      <4> QED BY <1>2, <1>3, <4>2, <4>3 DEF Sound
    <3> QED
      BY <2>1, <2>2, <3>1, <3>2
  <2>4. x \in NodeStates /\ x.bufs = w.bufs /\ x.datas = w.datas
          /\ x.isPendData = FALSE /\ x.isAssociated = TRUE /\ x.numPollFail = 0
    <3> HIDE DEF w
    <3> QED BY <2>3 DEF NodeStates
  <2>5. Sound(x) /\ Slack(x) = Slack(s)
    <3> HIDE DEF x, w
    <3> QED BY <2>3, <2>4, NodeAssumption DEF Sound, Slack, NodeAssumption
  <2>6. SendPending(t, mem) = x
    BY <1>2, <1>5 DEF SendPending
  <2> QED
    BY <1>1, <2>5, <2>6 DEF ProcessAssocConfirmEvent
<1> QED
  BY <1>3, <1>4, <1>5

\* The answer of a poll may end the association, at the limit.
LEMMA PollKeeps ==
  ASSUME NEW s, Sound(s), NEW c
  PROVE  Sound(PollConfirm(s, c)) /\ Slack(PollConfirm(s, c)) = Slack(s)
<1> DEFINE t == [s EXCEPT !.numPollFail = 0]
           u == [s EXCEPT !.numPollFail = (@ + 1) % Byte,
                          !.isAssociated = @ /\ s.numPollFail # PollFailLimit]
<1>1. Sound(t) /\ Slack(t) = Slack(s)
  <2>1. 0 \in 0 .. Byte - 1
    BY DEF Byte
  <2>2. s \in NodeStates /\ t \in NodeStates
    BY <2>1 DEF Sound, NodeStates
  <2>3. /\ t.bufs = s.bufs /\ t.datas = s.datas /\ t.numPollFail = 0
        /\ t.isPendData = s.isPendData /\ t.isAssociated = s.isAssociated
    BY <2>2 DEF NodeStates
  <2> HIDE DEF t
  <2> QED
    BY <2>2, <2>3, NodeAssumption DEF Sound, Slack, NodeAssumption
<1>2. Sound(u) /\ Slack(u) = Slack(s)
  <2>1. s \in NodeStates /\ s.numPollFail \in 0 .. 255
          /\ (s.numPollFail + 1) % Byte \in 0 .. Byte - 1
    BY DEF Sound, NodeStates, Byte
  <2>2. (s.isAssociated /\ s.numPollFail # PollFailLimit) \in BOOLEAN
    OBVIOUS
  <2>3. u \in NodeStates
    BY <2>1, <2>2 DEF NodeStates
  <2>4. /\ u.bufs = s.bufs /\ u.datas = s.datas
        /\ u.isPendData = s.isPendData
        /\ u.numPollFail = (s.numPollFail + 1) % Byte
        /\ u.isAssociated = (s.isAssociated /\ s.numPollFail # PollFailLimit)
    BY <2>1 DEF NodeStates
  <2>5. u.isAssociated => u.numPollFail <= PollFailLimit
    <3>1. SUFFICES ASSUME u.isAssociated PROVE u.numPollFail <= PollFailLimit
      OBVIOUS
    <3>2. s.isAssociated /\ s.numPollFail # PollFailLimit
      BY <3>1, <2>4
    <3>3. s.numPollFail < PollFailLimit /\ PollFailLimit \in 0 .. 255
      BY <3>2, <2>1, NodeAssumption DEF Sound, NodeAssumption
    <3> HIDE DEF u
    <3> QED
      BY <3>3, <2>1, <2>4 DEF Byte
  <2>6. s.isPendData => ~u.isAssociated
    BY <2>4 DEF Sound
  <2> HIDE DEF u
  <2> QED
    BY <2>3, <2>4, <2>5, <2>6 DEF Sound, Slack
<1>3. PollConfirm(s, c) \in {s, t, u}
  BY DEF PollConfirm
<1> HIDE DEF t, u
<1> QED
  BY <1>1, <1>2, <1>3

\* A confirm brings a buffer back that no request holds.
LEMMA DataConfirmKeeps ==
  ASSUME NEW s, Sound(s), s.datas < s.bufs
  PROVE  Sound(DataConfirm(s)) /\ Slack(DataConfirm(s)) = Slack(s) - 1
<1> DEFINE t == [s EXCEPT !.bufs = @ - 1]
<1>1. s.datas \in 0 .. MaxBufs /\ s.bufs \in 0 .. MaxBufs /\ MaxBufs \in Nat
  BY NodeAssumption DEF Sound, NodeStates, NodeAssumption
<1>2. s.bufs - 1 \in 0 .. MaxBufs
  BY <1>1
<1>3. t \in NodeStates
  BY <1>2 DEF Sound, NodeStates
<1>4. /\ t.bufs = s.bufs - 1 /\ t.datas = s.datas
      /\ t.isPendData = s.isPendData /\ t.isAssociated = s.isAssociated
      /\ t.numPollFail = s.numPollFail
  BY DEF Sound, NodeStates
<1>5. DataConfirm(s) = t
  BY DEF DataConfirm
<1> HIDE DEF t
<1> QED
  BY <1>1, <1>3, <1>4, <1>5 DEF Sound, Slack

\* Whatever confirm is handled, the node stays sound; only the confirm of a
\* data request takes a buffer from the slack.
LEMMA HandledKeeps ==
  ASSUME NEW s, Sound(s), NEW c \in Confirms, NEW mem \in BOOLEAN,
         c.kind = "data" => s.datas < s.bufs
  PROVE  /\ Sound(Handled(s, c, mem))
         /\ Slack(Handled(s, c, mem)) =
              IF c.kind = "data" THEN Slack(s) - 1 ELSE Slack(s)
<1>1. c.kind \in {"scan", "assoc", "poll", "data"} /\ c.found \in Nat
  BY NodeAssumption DEF Confirms, NodeAssumption
<1>2. CASE c.kind = "scan"
  BY <1>1, <1>2, ScanConfirmKeeps DEF Handled
<1>3. CASE c.kind = "assoc"
  BY <1>3, AssocConfirmKeeps DEF Handled
<1>4. CASE c.kind = "poll"
  BY <1>4, PollKeeps DEF Handled
<1>5. CASE c.kind = "data"
  BY <1>5, DataConfirmKeeps DEF Handled
<1> QED
  BY <1>1, <1>2, <1>3, <1>4, <1>5

\* The sensing tick: only a node without an association leaves data pending.
LEMMA SensingTickKeeps ==
  ASSUME NEW s, Sound(s), NEW mem \in BOOLEAN
  PROVE  Sound(SensingTick(s, mem)) /\ Slack(SensingTick(s, mem)) = Slack(s)
<1> DEFINE t == [s EXCEPT !.adcOn = FALSE]
           u == [t EXCEPT !.isPendData = TRUE, !.curRescanNum = 0]
<1>1. /\ t \in NodeStates /\ t.bufs = s.bufs /\ t.datas = s.datas
      /\ t.isPendData = s.isPendData /\ t.isAssociated = s.isAssociated
      /\ t.numPollFail = s.numPollFail
  BY DEF Sound, NodeStates
<1>2. Sound(t) /\ Slack(t) = Slack(s)
  <2> HIDE DEF t
  <2> QED BY <1>1 DEF Sound, Slack
<1>3. CASE s.isAssociated
  <2> HIDE DEF t
  <2>1. SensingTick(s, mem) = NODE_SendDirect(t, mem)
    BY <1>3 DEF SensingTick, t
  <2> QED
    BY <1>2, <2>1, SendKeeps
<1>4. CASE ~s.isAssociated
  <2>1. 0 \in 0 .. Byte - 1
    BY DEF Byte
  <2>2. /\ u \in NodeStates /\ u.bufs = t.bufs /\ u.datas = t.datas
        /\ u.isAssociated = t.isAssociated
    <3> HIDE DEF t
    <3> QED BY <1>1, <2>1 DEF NodeStates
  <2>3. Sound(u) /\ Slack(u) = Slack(s)
    <3> HIDE DEF t, u
    <3> QED BY <1>1, <1>2, <1>4, <2>2 DEF Sound, Slack
  <2>4. SensingTick(s, mem) = NWK_ScanReq(u)
    BY <1>4 DEF SensingTick
  <2> HIDE DEF u
  <2> QED
    BY <2>3, <2>4, ScanReqKeeps
<1> QED
  BY <1>3, <1>4

\* Every tick keeps a node sound and gives no buffer back.
LEMMA TickKeeps ==
  ASSUME NEW s, Sound(s), NEW mem \in BOOLEAN
  PROVE  /\ Sound(ProcessStickTimerEvent(s, mem))
         /\ Slack(ProcessStickTimerEvent(s, mem)) = Slack(s)
<1> DEFINE t == Ticked(s)
           u == PrepareTick(t)
           v == [t EXCEPT !.adcOn = TRUE]
<1>1. Sound(t) /\ Slack(t) = Slack(s)
  <2>1. s \in NodeStates /\ (s.curStickTime + 1) % TickPeriod \in 0 .. TickPeriod - 1
    BY NodeAssumption DEF Sound, NodeStates, NodeAssumption
  <2>2. /\ t \in NodeStates /\ t.bufs = s.bufs /\ t.datas = s.datas
        /\ t.isPendData = s.isPendData /\ t.isAssociated = s.isAssociated
        /\ t.numPollFail = s.numPollFail
    BY <2>1 DEF NodeStates, Ticked
  <2> HIDE DEF t
  <2> QED
    BY <2>2 DEF Sound, Slack
<1>2. Sound(u) /\ Slack(u) = Slack(s)
  <2> HIDE DEF t
  <2>1. /\ v \in NodeStates /\ v.bufs = t.bufs /\ v.datas = t.datas
        /\ v.isPendData = t.isPendData /\ v.isAssociated = t.isAssociated
        /\ v.numPollFail = t.numPollFail
    BY <1>1 DEF Sound, NodeStates
  <2>2. u \in {t, v}
    BY DEF PrepareTick
  <2> HIDE DEF u, v
  <2> QED
    BY <1>1, <2>1, <2>2 DEF Sound, Slack
<1>3. Sound(AliveTick(u, mem)) /\ Slack(AliveTick(u, mem)) = Slack(s)
  <2> HIDE DEF u
  <2> QED BY <1>2, SendKeeps, PollReqKeeps DEF AliveTick
<1>4. Sound(SensingTick(t, mem)) /\ Slack(SensingTick(t, mem)) = Slack(s)
  <2> HIDE DEF t
  <2> QED BY <1>1, SensingTickKeeps
<1> QED
  BY <1>3, <1>4 DEF ProcessStickTimerEvent

-----------------------------------------------------------------------------
(* The confirms of data requests in the queue.                             *)

DataIn(q) == {i \in 1 .. Len(q) : q[i].kind = "data"}

\* A queue has finitely many.
LEMMA DataInFinite ==
  ASSUME NEW q \in Seq(Confirms)
  PROVE  IsFiniteSet(DataIn(q)) /\ Cardinality(DataIn(q)) \in Nat
<1>1. IsFiniteSet(1 .. Len(q))
  BY FS_Interval
<1>2. DataIn(q) \in SUBSET (1 .. Len(q))
  BY DEF DataIn
<1>3. IsFiniteSet(DataIn(q))
  BY <1>1, <1>2, FS_Subset
<1> QED
  BY <1>3, FS_CardinalityType

\* Queueing a confirm adds it.
LEMMA DataInAppend ==
  ASSUME NEW q \in Seq(Confirms), NEW c \in Confirms
  PROVE  Cardinality(DataIn(Append(q, c))) =
           Cardinality(DataIn(q)) + IF c.kind = "data" THEN 1 ELSE 0
<1>1. CASE c.kind = "data"
  <2>1. DataIn(Append(q, c)) = DataIn(q) \cup {Len(q) + 1}
    BY <1>1 DEF DataIn
  <2>2. Len(q) + 1 \notin DataIn(q)
    BY DEF DataIn
  <2> QED
    BY <1>1, <2>1, <2>2, DataInFinite, FS_AddElement
<1>2. CASE c.kind # "data"
  <2>1. DataIn(Append(q, c)) = DataIn(q)
    BY <1>2 DEF DataIn
  <2> QED
    BY <1>2, <2>1, DataInFinite
<1> QED
  BY <1>1, <1>2

\* Taking the first confirm takes it away: the others move up by one.
LEMMA DataInTail ==
  ASSUME NEW q \in Seq(Confirms), q # <<>>
  PROVE  Cardinality(DataIn(Tail(q))) =
           Cardinality(DataIn(q)) - IF Head(q).kind = "data" THEN 1 ELSE 0
<1> DEFINE S == DataIn(q) \ {1}
           T == DataIn(Tail(q))
           up == [i \in S |-> i - 1]
<1>1. Len(q) \in Nat /\ Len(q) >= 1 /\ Len(Tail(q)) = Len(q) - 1
        /\ Tail(q) \in Seq(Confirms)
  OBVIOUS
<1>2. \A j \in 1 .. Len(q) - 1 : Tail(q)[j] = q[j + 1]
  BY <1>1
<1>3. \A i \in S : i \in Nat /\ i >= 2 /\ i <= Len(q) /\ i - 1 \in T
  BY <1>1, <1>2 DEF DataIn
<1>4. up \in [S -> T]
  BY <1>3
<1>5. \A a, b \in S : up[a] = up[b] => a = b
  BY <1>3
<1>6. \A t \in T : \E i \in S : up[i] = t
  <2>1. SUFFICES ASSUME NEW t \in T PROVE t + 1 \in S /\ up[t + 1] = t
    OBVIOUS
  <2>2. t \in 1 .. Len(q) - 1 /\ Tail(q)[t].kind = "data"
    BY <1>1 DEF DataIn
  <2>3. t + 1 \in S
    BY <1>1, <1>2, <2>2 DEF DataIn
  <2> QED
    BY <2>2, <2>3
<1>7. ExistsBijection(S, T)
  <2>1. up \in Bijection(S, T)
    BY <1>4, <1>5, <1>6, Fun_IsBij
  <2> QED
    BY <2>1, Fun_ExistsBij
<1>8. IsFiniteSet(S) /\ Cardinality(S) =
        IF 1 \in DataIn(q) THEN Cardinality(DataIn(q)) - 1
                           ELSE Cardinality(DataIn(q))
  BY DataInFinite, FS_RemoveElement
<1>9. 1 \in DataIn(q) <=> Head(q).kind = "data"
  BY <1>1 DEF DataIn
<1>10. Cardinality(T) = Cardinality(S)
  BY <1>7, <1>8, FS_Bijection
<1> QED
  BY <1>8, <1>9, <1>10, DataInFinite

-----------------------------------------------------------------------------
(***************************************************************************)
(* The inductive invariant: a sound node, a queue of confirms, and slack    *)
(* for every confirm of a data request that waits in it.                    *)
(***************************************************************************)
FlagNames == {"PREP_INIT", "RESCAN", "STICK_TIMER"}

NodeInv ==
  /\ Sound(node)
  /\ inbox \in Seq(Confirms) /\ Len(inbox) <= MaxInbox
  /\ flags \subseteq FlagNames
  /\ ticking \in BOOLEAN
  /\ Cardinality(DataIn(inbox)) <= Slack(node)

\* The initial state.
LEMMA NodeInit == Init => NodeInv
<1>1. SUFFICES ASSUME Init PROVE NodeInv
  OBVIOUS
<1>2. Sound(node) /\ Slack(node) = 0
  BY <1>1, NodeAssumption
     DEF Init, Booted, Sound, Slack, NodeStates, NodeAssumption, Byte
<1>3. inbox \in Seq(Confirms) /\ Len(inbox) <= MaxInbox
  BY <1>1, NodeAssumption DEF Init, NodeAssumption
<1>4. DataIn(inbox) = {}
  BY <1>1 DEF Init, DataIn
<1>5. Cardinality(DataIn(inbox)) = 0
  BY <1>4, FS_EmptySet
<1>6. flags \subseteq FlagNames /\ ticking \in BOOLEAN
  BY <1>1 DEF Init, FlagNames
<1>7. Cardinality(DataIn(inbox)) <= Slack(node)
  BY <1>2, <1>5
<1> QED
  BY <1>2, <1>3, <1>6, <1>7 DEF NodeInv

\* The state of the node that a confirm's handling needs.
LEMMA SlackWhenData ==
  ASSUME NodeInv, inbox # <<>>
  PROVE  Head(inbox) \in Confirms
           /\ (Head(inbox).kind = "data" => node.datas < node.bufs)
<1>1. Head(inbox) \in Confirms /\ Tail(inbox) \in Seq(Confirms)
  BY DEF NodeInv
<1>2. Cardinality(DataIn(Tail(inbox))) \in Nat
  BY <1>1, DataInFinite
<1>3. node.datas \in Int /\ node.bufs \in Int
  BY DEF NodeInv, Sound, NodeStates
<1>4. Head(inbox).kind = "data" => Cardinality(DataIn(inbox)) >= 1
  BY <1>1, <1>2, DataInTail, DataInFinite DEF NodeInv
<1> QED
  BY <1>1, <1>3, <1>4, DataInFinite DEF NodeInv, Slack

\* Handling a message.
LEMMA MessageStep ==
  ASSUME NodeInv, HandleMessage
  PROVE  NodeInv'
<1>1. PICK mem \in BOOLEAN : node' = Handled(node, Head(inbox), mem)
  BY DEF HandleMessage
<1>2. inbox # <<>> /\ inbox' = Tail(inbox) /\ UNCHANGED <<flags, ticking>>
  BY DEF HandleMessage
<1>3. /\ Sound(node')
      /\ Slack(node') = IF Head(inbox).kind = "data" THEN Slack(node) - 1
                        ELSE Slack(node)
  BY <1>1, <1>2, SlackWhenData, HandledKeeps DEF NodeInv
<1>4. inbox' \in Seq(Confirms) /\ Len(inbox') <= MaxInbox
  BY <1>2, NodeAssumption DEF NodeInv, NodeAssumption
<1>5. Cardinality(DataIn(inbox')) =
        Cardinality(DataIn(inbox)) - IF Head(inbox).kind = "data" THEN 1 ELSE 0
  BY <1>2, DataInTail DEF NodeInv
<1>6. Slack(node) \in Int /\ Cardinality(DataIn(inbox)) \in Int
  BY DataInFinite DEF NodeInv, Sound, Slack, NodeStates
<1>7. Cardinality(DataIn(inbox')) <= Slack(node')
  BY <1>3, <1>5, <1>6 DEF NodeInv
<1>8. Sound(node)' /\ Slack(node)' = Slack(node') /\ DataIn(inbox)' = DataIn(inbox')
  BY <1>3 DEF Sound, Slack, DataIn
<1> QED
  BY <1>2, <1>3, <1>4, <1>7, <1>8 DEF NodeInv

\* A step that leaves the queue alone and takes nothing from the slack.
LEMMA QueueUntouched ==
  ASSUME NodeInv, UNCHANGED inbox, Sound(node'), Slack(node') >= Slack(node),
         flags' \subseteq FlagNames, ticking' \in BOOLEAN
  PROVE  NodeInv'
<1>1. Slack(node) \in Int /\ Cardinality(DataIn(inbox)) \in Int
  BY DataInFinite, SMTT(60) DEF NodeInv, Sound, Slack, NodeStates
<1>2. Slack(node') \in Int
  BY DEF Sound, Slack, NodeStates
<1>3. Sound(node)' /\ Slack(node)' = Slack(node') /\ DataIn(inbox)' = DataIn(inbox)
  BY DEF Sound, Slack, DataIn
<1> QED
  BY <1>1, <1>2, <1>3 DEF NodeInv

\* The flags that the task handles.
LEMMA FlagSteps ==
  ASSUME NodeInv, ProcessInitPeriEvent \/ HandleRescan \/ HandleStickTimer
  PROVE  NodeInv'
<1>1. Slack(node) \in Int /\ Sound(node)
  BY DEF NodeInv, Sound, Slack, NodeStates
<1>2. CASE ProcessInitPeriEvent
  <2> DEFINE s == NWK_ScanReq(node)
             t == [s EXCEPT !.curStickTime = 0]
  <2>1. Sound(s) /\ Slack(s) = Slack(node)
    BY <1>1, ScanReqKeeps
  <2>2. 0 \in 0 .. TickPeriod - 1
    BY NodeAssumption DEF NodeAssumption
  <2>3. /\ t \in NodeStates /\ t.bufs = s.bufs /\ t.datas = s.datas
        /\ t.isPendData = s.isPendData /\ t.isAssociated = s.isAssociated
        /\ t.numPollFail = s.numPollFail
    <3> HIDE DEF s
    <3> QED BY <2>1, <2>2 DEF Sound, NodeStates
  <2>4. Sound(t) /\ Slack(t) = Slack(node)
    <3> HIDE DEF s, t
    <3> QED BY <2>1, <2>3 DEF Sound, Slack
  <2>5. node' = t /\ UNCHANGED inbox /\ flags' \subseteq FlagNames
          /\ ticking' \in BOOLEAN
    BY <1>2 DEF ProcessInitPeriEvent, NodeInv
  <2> HIDE DEF t
  <2> QED
    BY <1>1, <2>4, <2>5, QueueUntouched
<1>3. CASE HandleRescan
  <2>1. Sound(node') /\ Slack(node') = Slack(node)
    BY <1>1, <1>3, ScanReqKeeps DEF HandleRescan
  <2>2. UNCHANGED inbox /\ flags' \subseteq FlagNames /\ ticking' \in BOOLEAN
    BY <1>3 DEF HandleRescan, NodeInv
  <2> QED
    BY <1>1, <2>1, <2>2, QueueUntouched
<1>4. CASE HandleStickTimer
  <2>1. Sound(node') /\ Slack(node') = Slack(node)
    BY <1>1, <1>4, TickKeeps DEF HandleStickTimer
  <2>2. UNCHANGED inbox /\ flags' \subseteq FlagNames /\ ticking' \in BOOLEAN
    BY <1>4 DEF HandleStickTimer, NodeInv
  <2> QED
    BY <1>1, <2>1, <2>2, QueueUntouched
<1> QED
  BY <1>2, <1>3, <1>4

\* The timers set flags.
LEMMA TimerSteps ==
  ASSUME NodeInv, StickTimerFires \/ RescanTimerFires
  PROVE  NodeInv'
<1>1. Slack(node) \in Int /\ Sound(node)
  BY DEF NodeInv, Sound, Slack, NodeStates
<1>2. CASE StickTimerFires
  <2>1. Sound(node') /\ Slack(node') = Slack(node)
    BY <1>1, <1>2 DEF StickTimerFires
  <2>2. UNCHANGED inbox /\ flags' \subseteq FlagNames /\ ticking' \in BOOLEAN
    BY <1>2 DEF StickTimerFires, NodeInv, FlagNames
  <2> QED
    BY <1>1, <2>1, <2>2, QueueUntouched
<1>3. CASE RescanTimerFires
  <2> DEFINE t == [node EXCEPT !.rescanTimer = FALSE]
  <2>1. /\ t \in NodeStates /\ t.bufs = node.bufs /\ t.datas = node.datas
        /\ t.isPendData = node.isPendData /\ t.isAssociated = node.isAssociated
        /\ t.numPollFail = node.numPollFail
    BY <1>1 DEF Sound, NodeStates
  <2>2. Sound(t) /\ Slack(t) = Slack(node)
    <3> HIDE DEF t
    <3> QED BY <1>1, <2>1 DEF Sound, Slack
  <2>3. node' = t /\ UNCHANGED inbox /\ flags' \subseteq FlagNames
          /\ ticking' \in BOOLEAN
    BY <1>3 DEF RescanTimerFires, NodeInv, FlagNames
  <2> HIDE DEF t
  <2> QED
    BY <1>1, <2>2, <2>3, QueueUntouched
<1> QED
  BY <1>2, <1>3

\* What the answer of the MAC does to the node: the answer to a data request
\* gives one to the slack.
LEMMA AnswerFacts ==
  ASSUME NodeInv, NEW c \in Confirms, Answer(c)
  PROVE  /\ Sound(node')
         /\ Slack(node') = Slack(node) + IF c.kind = "data" THEN 1 ELSE 0
<1>1. Sound(node) /\ node \in NodeStates /\ MaxReqs \in Nat /\ MaxBufs \in Nat
  BY NodeAssumption DEF NodeInv, Sound, NodeAssumption
<1>2. CASE ScanAnswer(c)
  <2>1. node.scans - 1 \in 0 .. MaxReqs
    BY <1>1, <1>2 DEF NodeStates, ScanAnswer
  <2> QED
    BY <1>1, <1>2, <2>1 DEF Sound, Slack, NodeStates, ScanAnswer
<1>3. CASE AssocAnswer(c)
  <2>1. node.assocs - 1 \in 0 .. MaxReqs
    BY <1>1, <1>3 DEF NodeStates, AssocAnswer
  <2> QED
    BY <1>1, <1>3, <2>1 DEF Sound, Slack, NodeStates, AssocAnswer
<1>4. CASE PollAnswer(c)
  <2>1. node.polls - 1 \in 0 .. MaxReqs
    BY <1>1, <1>4 DEF NodeStates, PollAnswer
  <2> QED
    BY <1>1, <1>4, <2>1 DEF Sound, Slack, NodeStates, PollAnswer
<1>5. CASE DataAnswer(c)
  <2> DEFINE t == [node EXCEPT !.datas = @ - 1]
  <2>1. node.datas - 1 \in 0 .. MaxBufs
    BY <1>1, <1>5 DEF NodeStates, DataAnswer
  <2>2. /\ t \in NodeStates /\ t.bufs = node.bufs /\ t.datas = node.datas - 1
        /\ t.isPendData = node.isPendData /\ t.isAssociated = node.isAssociated
        /\ t.numPollFail = node.numPollFail
    BY <1>1, <2>1 DEF NodeStates
  <2>3. node' = t /\ c.kind = "data"
    BY <1>5 DEF DataAnswer
  <2>4. node.bufs \in 0 .. MaxBufs /\ node.datas \in 0 .. MaxBufs
    BY <1>1 DEF NodeStates
  <2> HIDE DEF t
  <2> QED
    BY <1>1, <2>2, <2>3, <2>4 DEF Sound, Slack
<1> QED
  BY <1>2, <1>3, <1>4, <1>5 DEF Answer

\* The answer is queued, or lost.
LEMMA AnswerStep ==
  ASSUME NodeInv, MacAnswers
  PROVE  NodeInv'
<1>1. PICK c \in Confirms : Answer(c) /\ MAC_CbackEvent(c)
  BY DEF MacAnswers
<1>2. /\ Sound(node')
      /\ Slack(node') = Slack(node) + IF c.kind = "data" THEN 1 ELSE 0
  BY <1>1, AnswerFacts
<1>3. flags' \subseteq FlagNames /\ ticking' \in BOOLEAN
  BY <1>1 DEF Answer, NodeInv
<1>4. Slack(node) \in Int /\ Cardinality(DataIn(inbox)) \in Nat
  BY DataInFinite DEF NodeInv, Sound, Slack, NodeStates
<1>5. CASE Delivered(c)
  <2>1. inbox' = Append(inbox, c) /\ Len(inbox) < MaxInbox
    BY <1>5 DEF Delivered
  <2>2. inbox' \in Seq(Confirms) /\ Len(inbox') <= MaxInbox
    BY <2>1, NodeAssumption DEF NodeInv, NodeAssumption
  <2>3. Cardinality(DataIn(inbox')) <= Slack(node')
    BY <1>2, <1>4, <2>1, DataInAppend DEF NodeInv
  <2>4. Sound(node)' /\ Slack(node)' = Slack(node') /\ DataIn(inbox)' = DataIn(inbox')
    BY <1>2 DEF Sound, Slack, DataIn
  <2> QED
    BY <1>3, <2>2, <2>3, <2>4 DEF NodeInv
<1>6. CASE UNCHANGED inbox
  BY <1>2, <1>3, <1>4, <1>6, QueueUntouched
<1> QED
  BY <1>1, <1>5, <1>6 DEF MAC_CbackEvent

\* Every step keeps the invariant.
LEMMA NodeStep == NodeInv /\ [Next]_vars => NodeInv'
<1>1. SUFFICES ASSUME NodeInv, [Next]_vars PROVE NodeInv'
  OBVIOUS
<1>2. CASE Task
  BY <1>1, <1>2, MessageStep, FlagSteps DEF Task
<1>3. CASE StickTimerFires \/ RescanTimerFires
  BY <1>1, <1>3, TimerSteps
<1>4. CASE MacAnswers
  BY <1>1, <1>4, AnswerStep
<1>5. CASE UNCHANGED vars
  BY <1>1, <1>5 DEF vars, NodeInv, Sound, Slack, DataIn
<1> QED
  BY <1>1, <1>2, <1>3, <1>4, <1>5 DEF Next

\* The invariant holds of every run.
LEMMA NodeInvariant == Spec => []NodeInv
BY NodeInit, NodeStep, PTL DEF Spec

-----------------------------------------------------------------------------
(***************************************************************************)
(* Type correctness: counters, requests and buffers keep within their       *)
(* bounds, whatever the MAC answers (NODE_ProcessEvent, MAC_CbackEvent).    *)
(***************************************************************************)
THEOREM TypeCorrect == Spec => []TypeOK
<1>1. NodeInv => TypeOK
  BY DEF NodeInv, TypeOK, Sound, FlagNames
<1> QED
  BY <1>1, NodeInvariant, PTL

(***************************************************************************)
(* A measurement waits only for an association (ProcessStickTimerEvent and  *)
(* ProcessAssocConfirmEvent).                                               *)
(***************************************************************************)
THEOREM PendingIsUnassociated == Spec => []PendsUnassociated
<1>1. NodeInv => PendsUnassociated
  BY DEF NodeInv, PendsUnassociated, Sound
<1> QED
  BY <1>1, NodeInvariant, PTL

(***************************************************************************)
(* The comparison for equality that ends an association cannot have been    *)
(* passed by (the MAC_MLME_POLL_CNF case of NODE_ProcessEvent).             *)
(***************************************************************************)
THEOREM PollLimitReachable == Spec => []PollFailInReach
<1>1. NodeInv => PollFailInReach
  BY DEF NodeInv, PollFailInReach, Sound
<1> QED
  BY <1>1, NodeInvariant, PTL

(***************************************************************************)
(* No data request buffer is freed twice or while the MAC holds it (the     *)
(* MAC_MCPS_DATA_CNF case of NODE_ProcessEvent).                            *)
(***************************************************************************)
THEOREM BuffersFreedOnce == Spec => []BuffersCovered
<1>1. NodeInv => BuffersCovered
  <2>1. SUFFICES ASSUME NodeInv PROVE BuffersCovered
    OBVIOUS
  <2>2. Confirmed("data") = DataIn(inbox)
    BY DEF Confirmed, DataIn
  <2>3. node.bufs \in Int /\ node.datas \in Int
          /\ Cardinality(DataIn(inbox)) \in Int
    BY <2>1, DataInFinite DEF NodeInv, Sound, NodeStates
  <2> QED
    BY <2>1, <2>2, <2>3 DEF NodeInv, BuffersCovered, Slack
<1> QED
  BY <1>1, NodeInvariant, PTL

-----------------------------------------------------------------------------
(* Remainders.                                                             *)

\* Dividend, quotient and remainder.
LEMMA ModFacts ==
  ASSUME NEW a \in Int, NEW s \in Nat, s > 0
  PROVE  /\ a % s \in 0 .. s - 1 /\ a \div s \in Int
         /\ a = s * (a \div s) + (a % s)
OBVIOUS

\* A quotient and a remainder are the only ones.
LEMMA DivisionUnique ==
  ASSUME NEW s \in Nat, s > 0, NEW q \in Int, NEW p \in Int, NEW r \in 0 .. s - 1,
         NEW t \in 0 .. s - 1, s * q + r = s * p + t
  PROVE  q = p /\ r = t
<1>1. CASE q = p
  BY <1>1
<1>2. CASE q > p
  <2>1. q - p >= 1 /\ s * (q - p) = t - r
    BY <1>2
  <2>2. s * (q - p) >= s
    BY <2>1
  <2> QED
    BY <2>1, <2>2
<1>3. CASE q < p
  <2>1. p - q >= 1 /\ s * (p - q) = r - t
    BY <1>3
  <2>2. s * (p - q) >= s
    BY <2>1
  <2> QED
    BY <2>1, <2>2
<1> QED
  BY <1>1, <1>2, <1>3

\* Hence a remainder is known from any way to write its dividend.
LEMMA ModIs ==
  ASSUME NEW s \in Nat, s > 0, NEW q \in Int, NEW r \in 0 .. s - 1
  PROVE  (s * q + r) % s = r
<1> DEFINE a == s * q + r
<1>1. a \in Int
  OBVIOUS
<1>2. a % s \in 0 .. s - 1 /\ a = s * (a \div s) + (a % s) /\ a \div s \in Int
  BY <1>1, ModFacts
<1>3. s * (a \div s) + (a % s) = s * q + r
  BY <1>2
<1> HIDE DEF a
<1> QED
  BY <1>2, <1>3, DivisionUnique DEF a

\* The remainder of the next number.
LEMMA ModSucc ==
  ASSUME NEW a \in Nat, NEW s \in Nat, s > 0
  PROVE  (a + 1) % s = IF a % s = s - 1 THEN 0 ELSE (a % s) + 1
<1>1. PICK q \in Int, r \in 0 .. s - 1 : a = s * q + r /\ a % s = r
  BY ModFacts
<1>2. CASE r = s - 1
  <2>1. a + 1 = s * (q + 1) + 0
    BY <1>1, <1>2
  <2>2. (s * (q + 1) + 0) % s = 0
    BY ModIs
  <2> QED
    BY <1>1, <1>2, <2>1, <2>2
<1>3. CASE r # s - 1
  <2>1. a + 1 = s * q + (r + 1) /\ r + 1 \in 0 .. s - 1
    BY <1>1, <1>3
  <2>2. (s * q + (r + 1)) % s = r + 1
    BY <2>1, ModIs
  <2> QED
    BY <1>1, <1>3, <2>1, <2>2
<1> QED
  BY <1>2, <1>3

\* A number less its remainder.
LEMMA ModBack ==
  ASSUME NEW a \in Nat, NEW s \in Nat, s > 0, NEW d \in 0 .. s - 1,
         a % s = d
  PROVE  (a - d) % s = 0
<1>1. PICK q \in Int : a = s * q + d
  BY ModFacts
<1>2. a - d = s * q + 0
  BY <1>1
<1>3. (s * q + 0) % s = 0
  BY ModIs
<1> QED
  BY <1>2, <1>3

\* Counting modulo a multiple does not change the remainder.
LEMMA ModWraps ==
  ASSUME NEW s \in Nat, s > 0, NEW p \in Nat, p > 0, p % s = 0,
         NEW t \in 0 .. p - 1
  PROVE  ((t + 1) % p) % s = (t + 1) % s
<1>1. CASE t + 1 = p
  <2>1. p % p = 0 /\ 0 % s = 0
    BY ModIs
  <2> QED
    BY <1>1, <2>1
<1>2. CASE t + 1 # p
  <2>1. (t + 1) % p = t + 1
    BY <1>2
  <2> QED
    BY <2>1
<1> QED
  BY <1>1, <1>2

-----------------------------------------------------------------------------
(* The sensors are on from the tick preparingDelta says to the measurement. *)

AdcReady(s) == s.curStickTime % sensingTime >= preparingDelta => s.adcOn

SameClock(t, s) == t.curStickTime = s.curStickTime /\ t.adcOn = s.adcOn

\* Requests and what sends them leave the tick count and the sensors alone.
LEMMA RequestsKeepClock ==
  ASSUME NEW s \in NodeStates, NEW mem \in BOOLEAN
  PROVE  /\ SameClock(NWK_ScanReq(s), s)
         /\ SameClock(NODE_PollRequest(s), s)
         /\ SameClock(NODE_SendDirect(s, mem), s)
         /\ SameClock(ProcessScanFail(s, mem), s)
BY DEF SameClock, NodeStates, NWK_ScanReq, NODE_PollRequest, NODE_SendDirect,
       ProcessScanFail

\* So does the handling of a confirm.
LEMMA HandledKeepsClock ==
  ASSUME NEW s, Sound(s), NEW c \in Confirms, NEW mem \in BOOLEAN
  PROVE  SameClock(Handled(s, c, mem), s)
<1>1. c.kind \in {"scan", "assoc", "poll", "data"} /\ c.found \in Nat
  BY NodeAssumption DEF Confirms, NodeAssumption
<1>2. s \in NodeStates
  BY DEF Sound
<1>3. CASE c.kind = "scan"
  <2> DEFINE t == AssociateWithAll(s, c.found)
  <2>1. Sound(t)
    BY <1>1, AssociateKeeps
  <2>2. SameClock(t, s)
    BY <1>2 DEF SameClock, NodeStates, AssociateWithAll
  <2>3. ProcessScanConfirmEvent(s, c, mem)
          \in {t, ProcessScanFail(t, mem), ProcessScanFail(s, mem)}
    BY DEF ProcessScanConfirmEvent
  <2>4. t \in NodeStates
    BY <2>1 DEF Sound
  <2>5. Handled(s, c, mem) = ProcessScanConfirmEvent(s, c, mem)
    BY <1>3 DEF Handled
  <2> HIDE DEF t
  <2>6. SameClock(ProcessScanFail(t, mem), t)
    BY <2>4, RequestsKeepClock
  <2>7. SameClock(ProcessScanFail(s, mem), s)
    BY <1>2, RequestsKeepClock
  <2> QED
    BY <2>2, <2>3, <2>5, <2>6, <2>7 DEF SameClock
<1>4. CASE c.kind = "assoc"
  <2> DEFINE t == Associated(s)
             w == NODE_SendDirect(t, mem)
  <2>1. t \in NodeStates /\ SameClock(t, s)
    <3>1. 0 \in 0 .. Byte - 1
      BY DEF Byte
    <3> QED
      BY <1>2, <3>1 DEF NodeStates, Associated, SameClock
  <2>2. SameClock(w, t)
    <3> HIDE DEF t
    <3> QED BY <2>1, RequestsKeepClock
  <2>3. SameClock([w EXCEPT !.isPendData = FALSE], w)
    <3>1. w \in {t, [t EXCEPT !.bufs = @ + 1, !.datas = @ + 1]}
      BY DEF NODE_SendDirect
    <3> HIDE DEF t, w
    <3> QED BY <2>1, <3>1 DEF NodeStates, SameClock
  <2>4. ProcessAssocConfirmEvent(s, c, mem)
          \in {t, [w EXCEPT !.isPendData = FALSE], ProcessScanFail(s, mem)}
    BY DEF ProcessAssocConfirmEvent, SendPending
  <2>5. Handled(s, c, mem) = ProcessAssocConfirmEvent(s, c, mem)
    BY <1>4 DEF Handled
  <2> HIDE DEF t, w
  <2>6. SameClock(ProcessScanFail(s, mem), s)
    BY <1>2, RequestsKeepClock
  <2> QED
    BY <2>1, <2>2, <2>3, <2>4, <2>5, <2>6 DEF SameClock
<1>5. CASE c.kind = "poll"
  BY <1>2, <1>5 DEF Handled, PollConfirm, NodeStates, SameClock
<1>6. CASE c.kind = "data"
  BY <1>2, <1>6 DEF Handled, DataConfirm, NodeStates, SameClock
<1> QED
  BY <1>1, <1>3, <1>4, <1>5, <1>6

\* The tick before a measurement comes with the sensors on.
LEMMA ReadyBeforeSensing ==
  ASSUME NEW s, Sound(s), AdcReady(s), IsSensingTick(Ticked(s))
  PROVE  s.adcOn
<1> DEFINE r == s.curStickTime % sensingTime
<1>1. /\ s.curStickTime \in 0 .. TickPeriod - 1 /\ s \in NodeStates
      /\ sensingTime \in Nat /\ sensingTime > 0
      /\ TickPeriod \in Nat /\ TickPeriod > 0 /\ TickPeriod % sensingTime = 0
      /\ preparingDelta \in 1 .. sensingTime - 1
  BY NodeAssumption DEF Sound, NodeStates, NodeAssumption
<1>2. Ticked(s).curStickTime = (s.curStickTime + 1) % TickPeriod
  BY <1>1 DEF Ticked, NodeStates
<1>3. (s.curStickTime + 1) % sensingTime = 0
  BY <1>1, <1>2, ModWraps DEF IsSensingTick
<1>4. r \in 0 .. sensingTime - 1
  BY <1>1, ModFacts
<1>5. (s.curStickTime + 1) % sensingTime
        = IF r = sensingTime - 1 THEN 0 ELSE r + 1
  BY <1>1, ModSucc
<1> HIDE DEF r
<1>6. r = sensingTime - 1
  BY <1>3, <1>4, <1>5
<1>7. r >= preparingDelta
  BY <1>1, <1>6
<1> QED
  BY <1>7 DEF AdcReady, r

\* A tick keeps the sensors on until the measurement.
LEMMA TickKeepsReady ==
  ASSUME NEW s, Sound(s), AdcReady(s), NEW mem \in BOOLEAN
  PROVE  AdcReady(ProcessStickTimerEvent(s, mem))
<1> DEFINE t == Ticked(s)
           u == PrepareTick(t)
           x == ProcessStickTimerEvent(s, mem)
           r == s.curStickTime % sensingTime
           q == t.curStickTime % sensingTime
<1>1. /\ s.curStickTime \in 0 .. TickPeriod - 1 /\ s \in NodeStates
      /\ sensingTime \in Nat /\ sensingTime > 0
      /\ TickPeriod \in Nat /\ TickPeriod > 0 /\ TickPeriod % sensingTime = 0
      /\ preparingDelta \in 1 .. sensingTime - 1
  BY NodeAssumption DEF Sound, NodeStates, NodeAssumption
<1>2. /\ t.curStickTime = (s.curStickTime + 1) % TickPeriod
      /\ t.adcOn = s.adcOn /\ t \in NodeStates
  <2>1. (s.curStickTime + 1) % TickPeriod \in 0 .. TickPeriod - 1
    BY <1>1
  <2> QED
    BY <1>1, <2>1 DEF Ticked, NodeStates
<1>3. r \in 0 .. sensingTime - 1
  BY <1>1, ModFacts
<1>4. q = IF r = sensingTime - 1 THEN 0 ELSE r + 1
  <2>1. q = (s.curStickTime + 1) % sensingTime
    BY <1>1, <1>2, ModWraps
  <2>2. s.curStickTime \in Nat
    BY <1>1
  <2>3. (s.curStickTime + 1) % sensingTime
          = IF r = sensingTime - 1 THEN 0 ELSE r + 1
    BY <1>1, <2>2, ModSucc
  <2> HIDE DEF q, r
  <2> QED
    BY <2>1, <2>3
<1>5. r >= preparingDelta => s.adcOn
  BY DEF AdcReady
<1>6. t.curStickTime \in Nat
  BY <1>2 DEF NodeStates
<1>7. CASE IsSensingTick(t)
  <2> DEFINE v == [t EXCEPT !.adcOn = FALSE]
             w == [v EXCEPT !.isPendData = TRUE, !.curRescanNum = 0]
  <2>1. v \in NodeStates /\ v.curStickTime = t.curStickTime
    <3> HIDE DEF t
    <3> QED BY <1>2 DEF NodeStates
  <2>2. w \in NodeStates /\ w.curStickTime = t.curStickTime
    <3>1. 0 \in 0 .. Byte - 1
      BY DEF Byte
    <3> HIDE DEF t, v
    <3> QED BY <2>1, <3>1 DEF NodeStates
  <2>3. x = SensingTick(t, mem)
    BY <1>7 DEF ProcessStickTimerEvent
  <2>4. SensingTick(t, mem) \in {NODE_SendDirect(v, mem), NWK_ScanReq(w)}
    BY DEF SensingTick
  <2>5. x.curStickTime = t.curStickTime
    <3> HIDE DEF t, v, w, x
    <3> QED BY <2>1, <2>2, <2>3, <2>4, RequestsKeepClock DEF SameClock
  <2>6. q = 0
    BY <1>7 DEF IsSensingTick
  <2>7. x.curStickTime % sensingTime = 0
    <3> HIDE DEF t, x
    <3> QED BY <2>5, <2>6
  <2>8. AdcReady(x)
    <3> HIDE DEF t, x
    <3> QED BY <1>1, <2>7 DEF AdcReady
  <2> QED
    BY <2>8
<1>8. CASE ~IsSensingTick(t)
  <2>1. u \in NodeStates /\ u.curStickTime = t.curStickTime
          /\ (u.adcOn = TRUE \/ (u.adcOn = t.adcOn))
    <3> HIDE DEF t
    <3> QED BY <1>2 DEF NodeStates, PrepareTick
  <2>2. q >= preparingDelta => u.adcOn
    <3>1. CASE q = preparingDelta
      <4>1. (t.curStickTime - preparingDelta) % sensingTime = 0
        <5> HIDE DEF t
        <5>1. preparingDelta \in 0 .. sensingTime - 1
          BY <1>1
        <5> QED BY <1>1, <1>6, <3>1, <5>1, ModBack
      <4>2. u = [t EXCEPT !.adcOn = TRUE]
        BY <4>1 DEF PrepareTick
      <4> HIDE DEF t, u
      <4> QED BY <1>2, <4>2 DEF NodeStates
    <3>2. CASE q > preparingDelta
      <4>1. r >= preparingDelta
        <5> HIDE DEF r, q
        <5> QED BY <1>1, <1>3, <1>4, <3>2
      <4>2. t.adcOn
        BY <1>2, <1>5, <4>1
      <4> HIDE DEF t, u
      <4> QED BY <2>1, <4>2
    <3>3. q \in Nat
      <4> HIDE DEF r, q
      <4> QED BY <1>1, <1>3, <1>4
    <3> HIDE DEF q, u
    <3> QED BY <1>1, <3>1, <3>2, <3>3
  <2>3. SameClock(AliveTick(u, mem), u)
    <3>1. Sound(t)
      <4>1. /\ t.bufs = s.bufs /\ t.datas = s.datas
            /\ t.isPendData = s.isPendData /\ t.isAssociated = s.isAssociated
            /\ t.numPollFail = s.numPollFail
        BY <1>1 DEF NodeStates, Ticked
      <4> HIDE DEF t
      <4> QED BY <1>2, <4>1 DEF Sound
    <3>2. Sound(u)
      <4>1. /\ u.bufs = t.bufs /\ u.datas = t.datas
            /\ u.isPendData = t.isPendData /\ u.isAssociated = t.isAssociated
            /\ u.numPollFail = t.numPollFail
        <5> HIDE DEF t
        <5> QED BY <1>2 DEF NodeStates, PrepareTick
      <4> HIDE DEF t, u
      <4> QED BY <2>1, <3>1, <4>1 DEF Sound
    <3> HIDE DEF t, u
    <3>3. NODE_SendDirect(u, mem) \in NodeStates
      BY <3>2, SendKeeps DEF Sound
    <3> QED
      BY <2>1, <3>3, RequestsKeepClock DEF AliveTick, SameClock
  <2>4. x = AliveTick(u, mem)
    BY <1>8 DEF ProcessStickTimerEvent
  <2>5. x.curStickTime = t.curStickTime /\ x.adcOn = u.adcOn
    <3> HIDE DEF t, u, x
    <3> QED BY <2>1, <2>3, <2>4 DEF SameClock
  <2>6. AdcReady(x)
    <3> HIDE DEF t, u, x
    <3> QED BY <2>2, <2>5 DEF AdcReady, q
  <2> QED
    BY <2>6
<1> QED
  BY <1>7, <1>8

\* Every step keeps the sensors ready.
LEMMA ReadyStep ==
  ASSUME NodeInv, AdcReady(node), [Next]_vars
  PROVE  AdcReady(node')
<1>1. Sound(node) /\ node \in NodeStates
  BY DEF NodeInv, Sound
<1>2. CASE HandleMessage
  <2>1. PICK mem \in BOOLEAN : node' = Handled(node, Head(inbox), mem)
    BY <1>2 DEF HandleMessage
  <2>2. Head(inbox) \in Confirms
    BY <1>2, SlackWhenData DEF HandleMessage
  <2>3. SameClock(node', node)
    BY <1>1, <2>1, <2>2, HandledKeepsClock
  <2> QED
    BY <2>3 DEF SameClock, AdcReady
<1>3. CASE ProcessInitPeriEvent
  <2>1. NWK_ScanReq(node) \in NodeStates
    BY <1>1, ScanReqKeeps DEF Sound
  <2>2. node'.curStickTime = 0
    BY <1>3, <2>1 DEF ProcessInitPeriEvent, NodeStates
  <2>3. /\ sensingTime \in Nat /\ sensingTime > 0
        /\ preparingDelta \in Nat /\ preparingDelta > 0
    BY NodeAssumption DEF NodeAssumption
  <2>4. (sensingTime * 0 + 0) % sensingTime = 0 /\ sensingTime * 0 + 0 = 0
    BY <2>3, ModIs
  <2> QED
    BY <2>2, <2>3, <2>4 DEF AdcReady
<1>4. CASE HandleRescan
  BY <1>1, <1>4, RequestsKeepClock DEF HandleRescan, SameClock, AdcReady
<1>5. CASE HandleStickTimer
  BY <1>1, <1>5, TickKeepsReady DEF HandleStickTimer
<1>6. CASE StickTimerFires \/ RescanTimerFires \/ MacAnswers \/ UNCHANGED vars
  <2>1. SameClock(node', node)
    BY <1>1, <1>6 DEF StickTimerFires, RescanTimerFires, MacAnswers, Answer,
         ScanAnswer, AssocAnswer, PollAnswer, DataAnswer, vars, SameClock,
         NodeStates
  <2> QED
    BY <2>1 DEF SameClock, AdcReady
<1> QED
  BY <1>2, <1>3, <1>4, <1>5, <1>6 DEF Next, Task

(***************************************************************************)
(* No measurement is made with the ADC off, where it would wait for ever    *)
(* (ProcessStickTimerEvent and _SS_GetAdc).                                 *)
(***************************************************************************)
THEOREM MeasurementsArePrepared == Spec => MeasuresPrepared
<1>1. Init => AdcReady(node)
  <2>1. /\ sensingTime \in Nat /\ sensingTime > 0
        /\ preparingDelta \in Nat /\ preparingDelta > 0
    BY NodeAssumption DEF NodeAssumption
  <2>2. (sensingTime * 0 + 0) % sensingTime = 0 /\ sensingTime * 0 + 0 = 0
    BY <2>1, ModIs
  <2> QED
    BY <2>1, <2>2 DEF Init, Booted, AdcReady
<1>2. NodeInv /\ AdcReady(node) /\ [Next]_vars => AdcReady(node)'
  BY ReadyStep DEF AdcReady
<1>3. NodeInv /\ AdcReady(node)
        => [HandleStickTimer /\ IsSensingTick(Ticked(node)) => node.adcOn]_vars
  BY ReadyBeforeSensing DEF NodeInv
<1> QED
  BY <1>1, <1>2, <1>3, NodeInvariant, PTL DEF Spec, MeasuresPrepared

=============================================================================
