-------------------------- MODULE SpwmNetworkProofs --------------------------
(***************************************************************************)
(* Theorems on the network: however late, lost or repeated requests and     *)
(* responses are, two associated devices never live on one grant, and they  *)
(* share an address only when the table has been gone through between; the  *)
(* gateway starts once, on the quietest channel; and every node is a        *)
(* NodeApp, of which NodeAppProofs speaks.                                  *)
(***************************************************************************)
EXTENDS SpwmNetwork, GatewayAppProofs

-----------------------------------------------------------------------------
(* What the handlers of a node do to its association.  The counts need no   *)
(* bounds here; bufs may even be negative, which NodeAppProofs excludes.    *)

NodeRecords == [
  isAssociated : BOOLEAN, isGWDetect : BOOLEAN, isPendData : BOOLEAN,
  curRescanNum : Int, numPollFail : Int, curStickTime : Int,
  adcOn : BOOLEAN, battery : BOOLEAN, rescanTimer : BOOLEAN,
  scans : Int, assocs : Int, polls : Int, datas : Int, bufs : Int ]

\* t is no more associated than s and has a request pending if s has.
StaysOut(s, t) ==
  /\ t \in NodeRecords
  /\ t.isAssociated => s.isAssociated
  /\ s.assocs > 0 => t.assocs > 0

\* The count of requests of one kind is a number, and none is forgotten.
LEMMA HeldInt ==
  ASSUME NEW n \in Nodes, NEW i \in Int, NEW k \in Int
  PROVE  /\ N(n)!Held(i, k) \in Int
         /\ i > 0 /\ k >= 0 => N(n)!Held(i, k) > 0
BY NetworkAssumption DEF N!Held

\* A scan request leaves the association as it is.
LEMMA ScanReq ==
  ASSUME NEW n \in Nodes, NEW s \in NodeRecords
  PROVE  StaysOut(s, N(n)!NWK_ScanReq(s))
<1>1. N(n)!Held(s.scans, 1) \in Int
  BY HeldInt DEF NodeRecords
<1> QED
  BY <1>1 DEF StaysOut, NodeRecords, N!NWK_ScanReq

\* A poll request leaves the association as it is.
LEMMA PollReq ==
  ASSUME NEW n \in Nodes, NEW s \in NodeRecords
  PROVE  StaysOut(s, N(n)!NODE_PollRequest(s))
<1>1. N(n)!Held(s.polls, 1) \in Int
  BY HeldInt DEF NodeRecords
<1> QED
  BY <1>1 DEF StaysOut, NodeRecords, N!NODE_PollRequest

\* So does sending data, with memory and without.
LEMMA Send ==
  ASSUME NEW n \in Nodes, NEW s \in NodeRecords, NEW mem \in BOOLEAN
  PROVE  StaysOut(s, N(n)!NODE_SendDirect(s, mem))
<1> DEFINE t == [s EXCEPT !.bufs = s.bufs + 1, !.datas = s.datas + 1]
<1>1. s.bufs + 1 \in Int /\ s.datas + 1 \in Int
  BY DEF NodeRecords
<1>2. t \in NodeRecords
  BY <1>1 DEF NodeRecords
<1>3. t.isAssociated = s.isAssociated /\ t.assocs = s.assocs
  BY DEF NodeRecords
<1>4. N(n)!NODE_SendDirect(s, mem) \in {s, t}
  BY DEF N!NODE_SendDirect
<1> HIDE DEF t
<1> QED
  BY <1>2, <1>3, <1>4 DEF StaysOut

\* A failed scan times another one or gives up.
LEMMA ScanFail ==
  ASSUME NEW n \in Nodes, NEW s \in NodeRecords, NEW mem \in BOOLEAN
  PROVE  StaysOut(s, N(n)!ProcessScanFail(s, mem))
<1> DEFINE t == [s EXCEPT !.curRescanNum = (@ + 1) % N(n)!Byte]
           u == [t EXCEPT !.rescanTimer = @ \/ mem]
           v == [t EXCEPT !.battery = TRUE]
<1>1. (s.curRescanNum + 1) % N(n)!Byte \in Int
  BY DEF NodeRecords, N!Byte
<1>2. t \in NodeRecords
  BY <1>1 DEF NodeRecords
<1>3. t.isAssociated = s.isAssociated /\ t.assocs = s.assocs
  BY DEF NodeRecords
<1>4. N(n)!ProcessScanFail(s, mem) \in {u, v}
  BY DEF N!ProcessScanFail
<1> HIDE DEF t
<1>5. (t.rescanTimer \/ mem) \in BOOLEAN
  OBVIOUS
<1>6. /\ u \in NodeRecords /\ v \in NodeRecords
  BY <1>2, <1>5 DEF NodeRecords
<1>7. /\ u.isAssociated = t.isAssociated /\ v.isAssociated = t.isAssociated
      /\ u.assocs = t.assocs /\ v.assocs = t.assocs
  BY <1>2 DEF NodeRecords
<1> HIDE DEF u, v
<1> QED
  BY <1>3, <1>4, <1>6, <1>7 DEF StaysOut

\* Asking for associations adds to the requests.
LEMMA Associates ==
  ASSUME NEW n \in Nodes, NEW s \in NodeRecords, NEW found \in Nat
  PROVE  StaysOut(s, N(n)!AssociateWithAll(s, found))
<1> DEFINE k == N(n)!Held(s.assocs, found)
           t == [s EXCEPT !.isGWDetect = TRUE, !.battery = TRUE,
                          !.assocs = k]
<1>1. k \in Int /\ (s.assocs > 0 => k > 0)
  BY HeldInt DEF NodeRecords
<1>2. N(n)!AssociateWithAll(s, found) \in {s, t}
  BY DEF N!AssociateWithAll
<1> HIDE DEF k
<1>3. t \in NodeRecords
  BY <1>1 DEF NodeRecords
<1>4. t.isAssociated = s.isAssociated /\ t.assocs = k
  BY DEF NodeRecords
<1> HIDE DEF t
<1> QED
  BY <1>1, <1>2, <1>3, <1>4 DEF StaysOut

\* The confirm of a scan makes no association by itself.
LEMMA ScanConfirm ==
  ASSUME NEW n \in Nodes, NEW s \in NodeRecords, NEW c, c.found \in Nat,
         NEW mem \in BOOLEAN
  PROVE  StaysOut(s, N(n)!ProcessScanConfirmEvent(s, c, mem))
<1> DEFINE t == N(n)!AssociateWithAll(s, c.found)
           f(x) == N(n)!ProcessScanFail(x, mem)
<1>1. StaysOut(s, t) /\ t \in NodeRecords
  BY Associates DEF StaysOut
<1>2. StaysOut(s, f(s)) /\ StaysOut(t, f(t))
  BY <1>1, ScanFail
<1>3. N(n)!ProcessScanConfirmEvent(s, c, mem) \in {f(s), t, f(t)}
  BY DEF N!ProcessScanConfirmEvent
<1> HIDE DEF t, f
<1> QED
  BY <1>1, <1>2, <1>3 DEF StaysOut

\* Only an association that succeeds makes a node associated.
LEMMA AssocConfirm ==
  ASSUME NEW n \in Nodes, NEW s \in NodeRecords, NEW c, NEW mem \in BOOLEAN
  PROVE  LET t == N(n)!ProcessAssocConfirmEvent(s, c, mem)
         IN  /\ t \in NodeRecords
             /\ t.isAssociated => s.isAssociated \/ c.status = "SUCCESS"
             /\ s.assocs > 0 => t.assocs > 0
<1> DEFINE a == N(n)!Associated(s)
           b == N(n)!NODE_SendDirect(a, mem)
           p == [b EXCEPT !.isPendData = FALSE]
           f == N(n)!ProcessScanFail(s, mem)
           t == N(n)!ProcessAssocConfirmEvent(s, c, mem)
<1>1. a \in NodeRecords /\ a.assocs = s.assocs
  <2> DEFINE e == [s EXCEPT !.isAssociated = TRUE]
  <2>1. a = [e EXCEPT !.numPollFail = 0]
    BY DEF N!Associated
  <2>2. e \in NodeRecords /\ e.assocs = s.assocs
    BY DEF NodeRecords
  <2> HIDE DEF e
  <2>3. /\ [e EXCEPT !.numPollFail = 0] \in NodeRecords
        /\ [e EXCEPT !.numPollFail = 0].assocs = e.assocs
    BY <2>2 DEF NodeRecords
  <2> QED
    BY <2>1, <2>2, <2>3
<1>2. N(n)!SendPending(a, mem) \in {a, p}
  BY DEF N!SendPending
<1>3. t = f \/ (c.status = "SUCCESS" /\ t = N(n)!SendPending(a, mem))
  <2>1. CASE ~s.isAssociated /\ c.status = "SUCCESS"
    BY <2>1 DEF N!ProcessAssocConfirmEvent
  <2>2. CASE ~(~s.isAssociated /\ c.status = "SUCCESS")
    BY <2>2 DEF N!ProcessAssocConfirmEvent
  <2> QED
    BY <2>1, <2>2
<1>4. StaysOut(s, f)
  BY ScanFail
<1> HIDE DEF a, f
<1>5. b \in NodeRecords /\ (a.assocs > 0 => b.assocs > 0)
  BY <1>1, Send DEF StaysOut
<1> HIDE DEF b
<1>6. p \in NodeRecords /\ p.assocs = b.assocs
  BY <1>5 DEF NodeRecords
<1> HIDE DEF p, t
<1>7. t = f \/ (c.status = "SUCCESS" /\ t \in {a, p})
  BY <1>2, <1>3
<1>8. t \in NodeRecords
  BY <1>1, <1>4, <1>6, <1>7 DEF StaysOut
<1>9. t.isAssociated => s.isAssociated \/ c.status = "SUCCESS"
  BY <1>4, <1>7 DEF StaysOut
<1>10. s.assocs > 0 => t.assocs > 0
  BY <1>1, <1>4, <1>5, <1>6, <1>7 DEF StaysOut
<1> QED
  BY <1>8, <1>9, <1>10 DEF t

\* A poll that is not acknowledged may end an association.
LEMMA PollConfirmed ==
  ASSUME NEW n \in Nodes, NEW s \in NodeRecords, NEW c
  PROVE  StaysOut(s, N(n)!PollConfirm(s, c))
<1> DEFINE t == [s EXCEPT !.numPollFail = 0]
           a == s.isAssociated /\ s.numPollFail # PollFailLimit
           k == (s.numPollFail + 1) % N(n)!Byte
           u == [s EXCEPT !.numPollFail = k, !.isAssociated = a]
<1>1. /\ t \in NodeRecords
      /\ t.isAssociated = s.isAssociated /\ t.assocs = s.assocs
  BY DEF NodeRecords
<1>2. k \in Int
  BY DEF NodeRecords, N!Byte
<1>3. a \in BOOLEAN /\ (a => s.isAssociated)
  OBVIOUS
<1>4. N(n)!PollConfirm(s, c) \in {s, t, u}
  BY DEF N!PollConfirm
<1> HIDE DEF a, k, t
<1>5. u \in NodeRecords
  BY <1>2, <1>3 DEF NodeRecords
<1>6. u.isAssociated = a /\ u.assocs = s.assocs
  BY DEF NodeRecords
<1> HIDE DEF u
<1> QED
  BY <1>1, <1>3, <1>4, <1>5, <1>6 DEF StaysOut

\* The confirm of a data request only brings a buffer back.
LEMMA DataConfirmed ==
  ASSUME NEW n \in Nodes, NEW s \in NodeRecords
  PROVE  StaysOut(s, N(n)!DataConfirm(s))
<1>1. s.bufs - 1 \in Int
  BY DEF NodeRecords
<1>2. N(n)!DataConfirm(s) \in NodeRecords
  BY <1>1 DEF NodeRecords, N!DataConfirm
<1>3. /\ N(n)!DataConfirm(s).isAssociated = s.isAssociated
      /\ N(n)!DataConfirm(s).assocs = s.assocs
  BY DEF NodeRecords, N!DataConfirm
<1> QED
  BY <1>2, <1>3 DEF StaysOut

\* Of all messages only a successful association associates.
LEMMA MessageHandled ==
  ASSUME NEW n \in Nodes, NEW s \in NodeRecords, NEW mem \in BOOLEAN,
         NEW c, c.found \in Nat, c.kind \in {"scan", "assoc", "poll", "data"}
  PROVE  LET t == N(n)!Handled(s, c, mem)
         IN  /\ t \in NodeRecords
             /\ t.isAssociated => \/ s.isAssociated
                                  \/ c.kind = "assoc" /\ c.status = "SUCCESS"
             /\ s.assocs > 0 => t.assocs > 0
<1> DEFINE t == N(n)!Handled(s, c, mem)
           a == N(n)!ProcessAssocConfirmEvent(s, c, mem)
           o == {N(n)!ProcessScanConfirmEvent(s, c, mem),
                 N(n)!PollConfirm(s, c), N(n)!DataConfirm(s)}
<1>1. t \in o \/ (c.kind = "assoc" /\ t = a)
  BY DEF N!Handled
<1>2. \A x \in o : StaysOut(s, x)
  BY ScanConfirm, PollConfirmed, DataConfirmed
<1>3. a \in NodeRecords
        /\ (a.isAssociated => s.isAssociated \/ c.status = "SUCCESS")
        /\ (s.assocs > 0 => a.assocs > 0)
  BY AssocConfirm
<1> HIDE DEF t, a, o
<1>4. /\ t \in NodeRecords
      /\ t.isAssociated => \/ s.isAssociated
                           \/ c.kind = "assoc" /\ c.status = "SUCCESS"
      /\ s.assocs > 0 => t.assocs > 0
  BY <1>1, <1>2, <1>3 DEF StaysOut
<1> QED
  BY <1>4 DEF t

\* A tick measures, sends, polls or scans, and associates nothing.
LEMMA TickHandled ==
  ASSUME NEW n \in Nodes, NEW s \in NodeRecords, NEW mem \in BOOLEAN
  PROVE  StaysOut(s, N(n)!ProcessStickTimerEvent(s, mem))
<1> DEFINE t == N(n)!Ticked(s)
           m == [t EXCEPT !.adcOn = FALSE]
           r == [m EXCEPT !.isPendData = TRUE]
           p == [r EXCEPT !.curRescanNum = 0]
           q == N(n)!PrepareTick(t)
           d == N(n)!NODE_SendDirect(q, mem)
<1>1. /\ t \in NodeRecords
      /\ t.isAssociated = s.isAssociated /\ t.assocs = s.assocs
  <2>1. (s.curStickTime + 1) % TickPeriod \in Int
    BY NetworkAssumption DEF NodeRecords
  <2>2. t \in NodeRecords
    BY <2>1 DEF NodeRecords, N!Ticked
  <2>3. t.isAssociated = s.isAssociated /\ t.assocs = s.assocs
    BY DEF NodeRecords, N!Ticked
  <2> QED
    BY <2>2, <2>3
<1>2. N(n)!ProcessStickTimerEvent(s, mem)
        \in {N(n)!SensingTick(t, mem), N(n)!AliveTick(q, mem)}
  BY DEF N!ProcessStickTimerEvent
<1>3. N(n)!SensingTick(t, mem)
        \in {N(n)!NODE_SendDirect(m, mem), N(n)!NWK_ScanReq(p)}
  BY DEF N!SensingTick
<1>4. N(n)!AliveTick(q, mem) \in {q, N(n)!NODE_PollRequest(d)}
  BY DEF N!AliveTick
<1>5. q \in {t, [t EXCEPT !.adcOn = TRUE]}
  BY DEF N!PrepareTick
<1> HIDE DEF t, q
<1>6. /\ m \in NodeRecords
      /\ m.isAssociated = t.isAssociated /\ m.assocs = t.assocs
      /\ p \in NodeRecords
      /\ p.isAssociated = t.isAssociated /\ p.assocs = t.assocs
  <2>1. /\ m \in NodeRecords
        /\ m.isAssociated = t.isAssociated /\ m.assocs = t.assocs
    BY <1>1 DEF NodeRecords
  <2> HIDE DEF m
  <2>2. /\ r \in NodeRecords
        /\ r.isAssociated = m.isAssociated /\ r.assocs = m.assocs
    BY <2>1 DEF NodeRecords
  <2> HIDE DEF r
  <2>3. /\ p \in NodeRecords
        /\ p.isAssociated = r.isAssociated /\ p.assocs = r.assocs
    BY <2>2 DEF NodeRecords
  <2> QED
    BY <2>1, <2>2, <2>3
<1>7. /\ q \in NodeRecords
      /\ q.isAssociated = t.isAssociated /\ q.assocs = t.assocs
  BY <1>1, <1>5 DEF NodeRecords
<1> HIDE DEF m, r, p
<1>8. /\ StaysOut(m, N(n)!NODE_SendDirect(m, mem))
      /\ StaysOut(p, N(n)!NWK_ScanReq(p))
      /\ StaysOut(q, d)
  BY <1>6, <1>7, Send, ScanReq
<1> HIDE DEF d
<1>9. StaysOut(d, N(n)!NODE_PollRequest(d))
  BY <1>8, PollReq DEF StaysOut
<1> QED
  BY <1>1, <1>2, <1>3, <1>4, <1>6, <1>7, <1>8, <1>9 DEF StaysOut

-----------------------------------------------------------------------------
(* The inductive invariant *)

NodeMessages ==
  [confirm : [kind : {"scan", "assoc", "poll", "data"},
              status : {"SUCCESS", "NO_BEACON", "NO_ACK", "DENIED", "OTHER"},
              found : Nat],
   response : Responses \cup {NoResponse}]

NodesTyped ==
  /\ nodes \in [Nodes -> NodeRecords]
  /\ inboxes \in [Nodes -> Seq(NodeMessages)]
  /\ addresses \in [Devices -> Responses \cup {NoResponse}]

\* The responses that a device has or may come to have its address from.
Accepts(m) == m.confirm.kind = "assoc" /\ m.confirm.status = "SUCCESS"

AcceptedIn(q) == {q[i].response : i \in {j \in 1 .. Len(q) : Accepts(q[j])}}

Arrived == UNION {AcceptedIn(inboxes[n]) : n \in Nodes}

InUse == {addresses[d] : d \in Associated}

Circulating == answers \cup Arrived \cup InUse

\* A response reaches only the device it was made for.
ToOwner ==
  /\ \A n \in Nodes : \A r \in AcceptedIn(inboxes[n]) : r.device = n
  /\ \A d \in Associated : addresses[d].device = d

\* A grant less than a table ago has an address that counts back from that of
\* the last one.
Age(r) == gw.grants - r.grant

Granted(r) ==
  /\ r \in Responses
  /\ 1 <= r.grant /\ r.grant <= gw.grants
  /\ Age(r) < MaxDeviceNum =>
       \/ r.address = gw.numOfDevices - Age(r)
       \/ r.address = gw.numOfDevices - Age(r) + MaxDeviceNum

\* One grant is one response, and an address comes again after a table.
Apart(r, s) ==
  /\ r.grant = s.grant => r = s
  /\ r.address = s.address /\ r.grant < s.grant
       => r.grant + MaxDeviceNum <= s.grant

InTurn ==
  /\ \A r \in Circulating : Granted(r)
  /\ \A r, s \in Circulating : Apart(r, s)

\* The MAC of a node whose request is on the air has not confirmed it.
AskedHeld == \A n \in asked \cap Nodes : nodes[n].assocs > 0

NetInv == GwInv /\ NodesTyped /\ ToOwner /\ InTurn /\ AskedHeld

-----------------------------------------------------------------------------
(* A step moves responses that circulate to their devices, or makes one. *)

Moves ==
  /\ answers' \subseteq answers
  /\ \A n \in Nodes : \A r \in AcceptedIn(inboxes[n])' :
       \/ r \in AcceptedIn(inboxes[n])
       \/ r \in answers /\ r.device = n
  /\ \A d \in Associated' :
       \/ d \in Associated /\ addresses'[d] = addresses[d]
       \/ addresses'[d] \in Circulating /\ addresses'[d].device = d

\* Responses that only move stay in turn and with their devices.
LEMMA MovesKeep ==
  ASSUME NetInv, Moves, SameGrants
  PROVE  ToOwner' /\ InTurn'
<1>1. Circulating' \subseteq Circulating
  <2> SUFFICES ASSUME NEW r \in Circulating'
               PROVE  r \in Circulating
    OBVIOUS
  <2>1. CASE r \in answers'
    BY <2>1 DEF Circulating, Moves
  <2>2. CASE r \in Arrived'
    <3>1. PICK n \in Nodes : r \in AcceptedIn(inboxes[n])'
      BY <2>2 DEF Arrived
    <3>2. r \in AcceptedIn(inboxes[n]) => r \in Arrived
      BY DEF Arrived
    <3> QED
      BY <3>1, <3>2 DEF Circulating, Moves
  <2>3. CASE r \in InUse'
    <3>1. PICK d \in Associated' : r = addresses'[d]
      BY <2>3 DEF InUse
    <3>2. d \in Associated => addresses[d] \in InUse
      BY DEF InUse
    <3> QED
      BY <3>1, <3>2 DEF Circulating, Moves
  <2> QED
    BY <2>1, <2>2, <2>3 DEF Circulating
<1>2. ToOwner'
  BY DEF NetInv, ToOwner, Moves
<1>3. \A r : Granted(r) => Granted(r)'
  BY DEF Granted, Age, SameGrants
<1>4. \A r, s : Apart(r, s)' = Apart(r, s)
  BY DEF Apart
<1>5. \A r \in Circulating' : Granted(r)'
  BY <1>1, <1>3 DEF NetInv, InTurn
<1>6. \A r, s \in Circulating' : Apart(r, s)'
  BY <1>1, <1>4 DEF NetInv, InTurn
<1> QED
  BY <1>2, <1>5, <1>6 DEF InTurn

\* The address of a new response was not given for a whole table.
LEMMA NewResponse ==
  ASSUME NetInv, GwHandleAssocInd, UNCHANGED netVars
  PROVE  NetInv'
<1>1. /\ gw'.grants = gw.grants + 1
      /\ gw'.numOfDevices \in 1 .. MaxDeviceNum
      /\ gw'.numOfDevices =
           IF gw.numOfDevices = MaxDeviceNum THEN 1 ELSE gw.numOfDevices + 1
  BY NextAddress DEF NetInv, GwInv, GwHandleAssocInd
<1>2. GwInv'
  BY GwStepKeeps DEF NetInv, GwStep, GwOwn, GwTask
<1>3. PICK new \in Responses :
        /\ new.grant = gw'.grants /\ new.address = gw'.numOfDevices
        /\ answers' = answers \cup {new}
  BY AssocTyped DEF NetInv, GwInv
<1>4. Circulating' = Circulating \cup {new}
  BY <1>3 DEF Circulating, Arrived, InUse, AcceptedIn, netVars, nodeVars,
              Associated
<1>5. gw.grants \in Nat /\ gw.numOfDevices \in 0 .. MaxDeviceNum
  BY DEF NetInv, GwInv, GwTypeOK, GwRecords
<1>6. ASSUME NEW r \in Circulating
      PROVE  /\ Granted(r)' /\ r.grant < new.grant
             /\ r.address = new.address => r.grant + MaxDeviceNum <= new.grant
  <2>1. Granted(r)
    BY DEF NetInv, InTurn
  <2>2. /\ r.grant \in Nat /\ r.address \in 1 .. MaxDeviceNum
        /\ r \in Responses
    BY <2>1 DEF Granted, Responses
  <2>3. Age(r)' = Age(r) + 1
    BY <1>1, <1>5, <2>2 DEF Age
  <2>4. /\ r.grant < new.grant
        /\ r.address = new.address => r.grant + MaxDeviceNum <= new.grant
    BY <1>1, <1>3, <1>5, <2>1, <2>2, GatewayAssumption DEF Granted, Age
  <2>5. Granted(r)'
    BY <1>1, <1>5, <2>1, <2>2, GatewayAssumption DEF Granted, Age
  <2> QED
    BY <2>4, <2>5
<1>7. Granted(new)'
  BY <1>1, <1>3, <1>5, GatewayAssumption DEF Granted, Age
<1>8. InTurn'
  <2>1. \A r \in Circulating' : Granted(r)'
    BY <1>4, <1>6, <1>7
  <2>2. ASSUME NEW r \in Circulating', NEW s \in Circulating'
        PROVE  Apart(r, s)'
    <3>1. Granted(r)' /\ Granted(s)'
      BY <2>1
    <3>2. r.grant \in Nat /\ s.grant \in Nat /\ new.grant \in Nat
      BY <3>1, <1>3 DEF Granted, Responses
    <3>3. CASE r \in Circulating /\ s \in Circulating
      BY <3>3 DEF NetInv, InTurn, Apart
    <3>4. CASE r = new \/ s = new
      BY <1>4, <1>6, <3>2, <3>4 DEF Apart
    <3> QED
      BY <1>4, <3>3, <3>4
  <2> QED
    BY <2>1, <2>2 DEF InTurn
<1>9. ToOwner'
  BY DEF NetInv, ToOwner, netVars, nodeVars, Associated, AcceptedIn, Accepts
<1>10. NodesTyped'
  BY DEF NetInv, NodesTyped, netVars, nodeVars
<1>11. AskedHeld'
  BY DEF NetInv, AskedHeld, netVars, nodeVars
<1> QED
  BY <1>2, <1>8, <1>9, <1>10, <1>11 DEF NetInv

-----------------------------------------------------------------------------
(* The nodes. *)

\* A message that arrives adds its own response at most.
LEMMA Arrives ==
  ASSUME NEW q \in Seq(NodeMessages), NEW m \in NodeMessages
  PROVE  /\ Append(q, m) \in Seq(NodeMessages)
         /\ \A r \in AcceptedIn(Append(q, m)) :
              r \in AcceptedIn(q) \/ (Accepts(m) /\ r = m.response)
<1> DEFINE a == Append(q, m)
<1>1. /\ a \in Seq(NodeMessages) /\ Len(a) = Len(q) + 1 /\ Len(q) \in Nat
      /\ \A i \in 1 .. Len(q) : a[i] = q[i]
      /\ a[Len(q) + 1] = m
  OBVIOUS
<1> HIDE DEF a
<1>2. ASSUME NEW r \in AcceptedIn(a)
      PROVE  r \in AcceptedIn(q) \/ (Accepts(m) /\ r = m.response)
  <2>1. PICK i \in 1 .. Len(a) : Accepts(a[i]) /\ r = a[i].response
    BY <1>2 DEF AcceptedIn
  <2>2. i \in 1 .. Len(q) \/ i = Len(q) + 1
    BY <1>1, <2>1
  <2>3. CASE i \in 1 .. Len(q)
    <3>1. Accepts(q[i]) /\ r = q[i].response
      BY <1>1, <2>1, <2>3
    <3>2. i \in {j \in 1 .. Len(q) : Accepts(q[j])}
      BY <2>3, <3>1
    <3> QED
      BY <3>1, <3>2 DEF AcceptedIn
  <2>4. CASE i = Len(q) + 1
    BY <1>1, <2>1, <2>4
  <2> QED
    BY <2>2, <2>3, <2>4
<1> QED
  BY <1>1, <1>2 DEF a

\* The first message of a queue, and what is left without it.
LEMMA Leaves ==
  ASSUME NEW q \in Seq(NodeMessages), q # <<>>
  PROVE  /\ Head(q) \in NodeMessages /\ Tail(q) \in Seq(NodeMessages)
         /\ AcceptedIn(Tail(q)) \subseteq AcceptedIn(q)
         /\ Accepts(Head(q)) => Head(q).response \in AcceptedIn(q)
<1> DEFINE t == Tail(q)
<1>1. /\ t \in Seq(NodeMessages) /\ Head(q) \in NodeMessages
      /\ Len(q) \in Nat /\ Len(q) >= 1 /\ Len(t) = Len(q) - 1
      /\ \A i \in 1 .. Len(t) : t[i] = q[i + 1]
      /\ Head(q) = q[1]
  OBVIOUS
<1> HIDE DEF t
<1>2. ASSUME NEW r \in AcceptedIn(t)
      PROVE  r \in AcceptedIn(q)
  <2>1. PICK i \in 1 .. Len(t) : Accepts(t[i]) /\ r = t[i].response
    BY <1>2 DEF AcceptedIn
  <2>2. i + 1 \in 1 .. Len(q) /\ t[i] = q[i + 1]
    BY <1>1, <2>1
  <2> QED
    BY <2>1, <2>2 DEF AcceptedIn
<1>3. Accepts(q[1]) => q[1].response \in AcceptedIn(q)
  <2>1. 1 \in 1 .. Len(q)
    BY <1>1
  <2> QED
    BY <2>1 DEF AcceptedIn
<1> QED
  BY <1>1, <1>2, <1>3 DEF t

\* What keeps the addresses of a node and gives it only what was made for it.
LEMMA NodeMoves ==
  ASSUME NetInv, NEW n \in Nodes, NEW s \in NodeRecords,
         NEW q \in Seq(NodeMessages),
         nodes' = [nodes EXCEPT ![n] = s],
         inboxes' = [inboxes EXCEPT ![n] = q],
         addresses' = addresses, answers' \subseteq answers,
         s.isAssociated => nodes[n].isAssociated,
         asked' \subseteq asked,
         n \in asked' /\ nodes[n].assocs > 0 => s.assocs > 0,
         \A r \in AcceptedIn(q) : \/ r \in AcceptedIn(inboxes[n])
                                  \/ r \in answers /\ r.device = n
  PROVE  NodesTyped' /\ Moves /\ AskedHeld'
<1>1. NodesTyped'
  BY DEF NetInv, NodesTyped
<1>2. \A k \in Nodes : inboxes'[k] = IF k = n THEN q ELSE inboxes[k]
  BY DEF NetInv, NodesTyped
<1>3. \A k \in Nodes : AcceptedIn(inboxes[k])'
                         = AcceptedIn(IF k = n THEN q ELSE inboxes[k])
  BY <1>2 DEF AcceptedIn, Accepts
<1>4. \A k \in Nodes : nodes'[k] = IF k = n THEN s ELSE nodes[k]
  BY DEF NetInv, NodesTyped
<1>5. Associated' \subseteq Associated
  BY <1>4 DEF Associated
<1>6. Moves
  BY <1>3, <1>5 DEF Moves
<1>7. AskedHeld'
  BY <1>4 DEF NetInv, AskedHeld
<1> QED
  BY <1>1, <1>6, <1>7

\* A request that is answered leaves the association as it is.
LEMMA Answered ==
  ASSUME NEW s \in NodeRecords
  PROVE  /\ LET t == [s EXCEPT !.scans = @ - 1]
            IN  /\ t \in NodeRecords /\ t.isAssociated = s.isAssociated
                /\ t.assocs = s.assocs
         /\ LET t == [s EXCEPT !.polls = @ - 1]
            IN  /\ t \in NodeRecords /\ t.isAssociated = s.isAssociated
                /\ t.assocs = s.assocs
         /\ LET t == [s EXCEPT !.assocs = @ - 1]
            IN  /\ t \in NodeRecords /\ t.isAssociated = s.isAssociated
<1>1. s.scans - 1 \in Int /\ s.polls - 1 \in Int /\ s.assocs - 1 \in Int
  BY DEF NodeRecords
<1>2. /\ [s EXCEPT !.scans = s.scans - 1] \in NodeRecords
      /\ [s EXCEPT !.polls = s.polls - 1] \in NodeRecords
      /\ [s EXCEPT !.assocs = s.assocs - 1] \in NodeRecords
  BY <1>1 DEF NodeRecords
<1>3. /\ [s EXCEPT !.scans = s.scans - 1].isAssociated = s.isAssociated
      /\ [s EXCEPT !.polls = s.polls - 1].isAssociated = s.isAssociated
      /\ [s EXCEPT !.assocs = s.assocs - 1].isAssociated = s.isAssociated
      /\ [s EXCEPT !.scans = s.scans - 1].assocs = s.assocs
      /\ [s EXCEPT !.polls = s.polls - 1].assocs = s.assocs
  BY DEF NodeRecords
<1> QED
  BY <1>2, <1>3

\* The MAC confirms something else than a first association.
LEMMA ConfirmMoves ==
  ASSUME NetInv, NEW n \in Nodes, NEW c, NEW r, NEW t \in NodeRecords,
         [confirm |-> c, response |-> r] \in NodeMessages,
         c.kind = "assoc" /\ c.status = "SUCCESS"
            => r \in answers /\ r.device = n,
         nodes' = [nodes EXCEPT ![n] = t],
         t.isAssociated = nodes[n].isAssociated,
         asked' \subseteq asked, n \in asked' => t.assocs = nodes[n].assocs,
         NodeConfirm(n, c, r), answers' \subseteq answers
  PROVE  NodesTyped' /\ Moves /\ AskedHeld'
<1> DEFINE m == [confirm |-> c, response |-> r]
           q == Append(inboxes[n], m)
<1>1. inboxes[n] \in Seq(NodeMessages)
  BY DEF NetInv, NodesTyped
<1>2. m.confirm = c /\ m.response = r
  OBVIOUS
<1>3. \/ inboxes' = inboxes
      \/ inboxes' = [inboxes EXCEPT ![n] = q]
  BY DEF NodeConfirm
<1>4. inboxes = [inboxes EXCEPT ![n] = inboxes[n]]
  BY DEF NetInv, NodesTyped
<1> HIDE DEF m
<1>5. /\ q \in Seq(NodeMessages)
      /\ \A x \in AcceptedIn(q) :
           x \in AcceptedIn(inboxes[n]) \/ (Accepts(m) /\ x = m.response)
  BY <1>1, Arrives DEF m
<1> HIDE DEF q
<1>6. addresses' = addresses
  BY DEF NodeConfirm
<1>7. CASE inboxes' = inboxes
  BY <1>1, <1>4, <1>6, <1>7, NodeMoves
<1>8. CASE inboxes' = [inboxes EXCEPT ![n] = q]
  BY <1>2, <1>5, <1>6, <1>8, NodeMoves, ZenonT(60) DEF Accepts
<1> QED
  BY <1>3, <1>7, <1>8

\* What a node does with its MAC moves responses to itself only.
LEMMA OwnMoves ==
  ASSUME NetInv, NEW n \in Nodes, Own(n), UNCHANGED gwVars
  PROVE  NodesTyped' /\ Moves /\ AskedHeld'
<1> USE DEF Confirm
<1>1. /\ nodes[n] \in NodeRecords /\ inboxes[n] \in Seq(NodeMessages)
      /\ answers' \subseteq answers
  BY DEF NetInv, NodesTyped, gwVars
<1>2. nodes = [nodes EXCEPT ![n] = nodes[n]]
        /\ inboxes = [inboxes EXCEPT ![n] = inboxes[n]]
  BY DEF NetInv, NodesTyped
<1>3. ASSUME NEW t \in NodeRecords, nodes' = [nodes EXCEPT ![n] = t],
             StaysOut(nodes[n], t),
             UNCHANGED <<inboxes, addresses, asked>>
      PROVE  NodesTyped' /\ Moves /\ AskedHeld'
  BY <1>1, <1>2, <1>3, NodeMoves DEF StaysOut
<1>4. CASE NodeHandleMessage(n)
  <2> DEFINE m == Head(inboxes[n])
             q == Tail(inboxes[n])
  <2>1. /\ inboxes[n] # <<>>
        /\ inboxes' = [inboxes EXCEPT ![n] = q]
        /\ addresses' = IF Takes(n, m)
                          THEN [addresses EXCEPT ![n] = m.response]
                          ELSE addresses
        /\ asked' = asked
    BY <1>4 DEF NodeHandleMessage
  <2>2. PICK mem \in BOOLEAN :
          nodes' = [nodes EXCEPT ![n] = N(n)!Handled(nodes[n], m.confirm, mem)]
    BY <1>4 DEF NodeHandleMessage
  <2> DEFINE t == N(n)!Handled(nodes[n], m.confirm, mem)
  <2>3. /\ m \in NodeMessages /\ q \in Seq(NodeMessages)
        /\ AcceptedIn(q) \subseteq AcceptedIn(inboxes[n])
        /\ Accepts(m) => m.response \in AcceptedIn(inboxes[n])
    BY <1>1, <2>1, Leaves
  <2> HIDE DEF m, q
  <2>4. m.confirm.found \in Nat /\ m.response \in Responses \cup {NoResponse}
          /\ m.confirm.kind \in {"scan", "assoc", "poll", "data"}
    BY <2>3 DEF NodeMessages
  <2>5. /\ t \in NodeRecords
        /\ t.isAssociated => nodes[n].isAssociated \/ Accepts(m)
        /\ nodes[n].assocs > 0 => t.assocs > 0
    BY <1>1, <2>4, MessageHandled DEF Accepts
  <2> HIDE DEF t
  <2>6. nodes' = [nodes EXCEPT ![n] = t]
    BY <2>2 DEF t
  <2>7. CASE ~Takes(n, m)
    <3>1. t.isAssociated => nodes[n].isAssociated
      BY <2>5, <2>7 DEF Takes, Accepts
    <3> QED
      BY <1>1, <2>1, <2>3, <2>5, <2>6, <2>7, <3>1, NodeMoves
  <2>8. CASE Takes(n, m)
    <3>1. /\ Accepts(m)
          /\ addresses' = [addresses EXCEPT ![n] = m.response]
      BY <2>1, <2>8 DEF Takes, Accepts
    <3>2. m.response.device = n /\ m.response \in Arrived
      BY <2>3, <3>1 DEF NetInv, ToOwner, Arrived
    <3>3. NodesTyped' /\ n \in Devices
      BY <2>1, <2>3, <2>4, <2>5, <2>6, <3>1, NetworkAssumption
      DEF NetInv, NodesTyped
    <3>4. \A k \in Nodes : inboxes'[k] = IF k = n THEN q ELSE inboxes[k]
      BY <2>1 DEF NetInv, NodesTyped
    <3>5. \A k \in Nodes : AcceptedIn(inboxes[k])'
                             = AcceptedIn(IF k = n THEN q ELSE inboxes[k])
      BY <3>4 DEF AcceptedIn, Accepts
    <3>6. \A d \in Devices : addresses'[d] = IF d = n THEN m.response
                                                     ELSE addresses[d]
      BY <3>1, <3>3 DEF NetInv, NodesTyped
    <3>7. \A k \in Nodes : k # n => nodes'[k] = nodes[k]
      BY <2>6 DEF NetInv, NodesTyped
    <3>10. AskedHeld'
      <4>1. nodes'[n] = t
        BY <1>1, <2>6 DEF NetInv, NodesTyped
      <4> QED
        BY <2>1, <2>5, <3>7, <4>1 DEF NetInv, AskedHeld
    <3>8. \A d \in Associated' : d = n \/ d \in Associated
      BY <3>6, <3>7 DEF Associated
    <3>9. Associated' \subseteq Devices
      BY DEF Associated
    <3> QED
      BY <1>1, <2>3, <3>2, <3>3, <3>5, <3>6, <3>8, <3>9, <3>10
      DEF Moves, Circulating
  <2> QED
    BY <2>7, <2>8
<1>5. CASE NodeFlag(n)
  <2>0. UNCHANGED <<inboxes, addresses, asked>>
    BY <1>5 DEF NodeFlag, FlagTurn
  <2>1. CASE nodes' = [nodes EXCEPT ![n] = [N(n)!NWK_ScanReq(@)
                                              EXCEPT !.curStickTime = 0]]
    <3> DEFINE u == N(n)!NWK_ScanReq(nodes[n])
               t == [u EXCEPT !.curStickTime = 0]
    <3>1. u \in NodeRecords /\ StaysOut(nodes[n], u)
      BY <1>1, ScanReq DEF StaysOut
    <3> HIDE DEF u
    <3>2. /\ t \in NodeRecords
          /\ t.isAssociated = u.isAssociated /\ t.assocs = u.assocs
      BY <3>1 DEF NodeRecords
    <3>3. nodes' = [nodes EXCEPT ![n] = t]
      BY <2>1 DEF u
    <3> HIDE DEF t
    <3> QED
      BY <1>3, <2>0, <3>1, <3>2, <3>3 DEF StaysOut
  <2>2. CASE nodes' = [nodes EXCEPT ![n] = N(n)!NWK_ScanReq(@)]
    BY <1>1, <1>3, <2>0, <2>2, ScanReq DEF StaysOut
  <2>3. CASE \E mem \in BOOLEAN :
          nodes' = [nodes EXCEPT ![n] = N(n)!ProcessStickTimerEvent(@, mem)]
    <3>1. PICK mem \in BOOLEAN :
          nodes' = [nodes EXCEPT ![n] =
                      N(n)!ProcessStickTimerEvent(nodes[n], mem)]
      BY <2>3
    <3> QED
      BY <1>1, <1>3, <2>0, <3>1, TickHandled DEF StaysOut
  <2> QED
    BY <1>5, <2>1, <2>2, <2>3 DEF NodeFlag, FlagTurn
<1>6. CASE NodeTimerFires(n)
  <2> DEFINE t == [nodes[n] EXCEPT !.rescanTimer = FALSE]
  <2>1. nodes' = nodes \/ nodes' = [nodes EXCEPT ![n] = t]
    BY <1>6 DEF NodeTimerFires
  <2>2. /\ t \in NodeRecords
        /\ t.isAssociated = nodes[n].isAssociated /\ t.assocs = nodes[n].assocs
    BY <1>1 DEF NodeRecords
  <2>3. UNCHANGED <<inboxes, addresses, asked>>
    BY <1>6 DEF NodeTimerFires
  <2> HIDE DEF t
  <2>4. CASE nodes' = nodes
    BY <1>1, <1>2, <1>3, <2>3, <2>4 DEF StaysOut
  <2>5. CASE nodes' = [nodes EXCEPT ![n] = t]
    BY <1>3, <2>2, <2>3, <2>5 DEF StaysOut
  <2> QED
    BY <2>1, <2>4, <2>5
<1>7. CASE NodeScanEnds(n)
  <2>1. PICK c \in {Confirm("scan", "NO_BEACON", 0)}
                     \cup {Confirm("scan", "OTHER", f) :
                             f \in IF gw.onAir THEN 0 .. MaxFound ELSE {0}} :
          NodeConfirm(n, c, NoResponse)
    BY <1>7 DEF NodeScanEnds
  <2>2. PICK v \in {"NO_BEACON", "OTHER"}, f \in Nat :
          c = [kind |-> "scan", status |-> v, found |-> f]
    BY <2>1, NetworkAssumption
  <2>3. c.kind = "scan"
    BY <2>2
  <2>4. [confirm |-> c, response |-> NoResponse] \in NodeMessages
    BY <2>2 DEF NodeMessages
  <2>5. /\ nodes' = [nodes EXCEPT ![n] = [nodes[n] EXCEPT !.scans = @ - 1]]
        /\ asked' = asked
    BY <1>7 DEF NodeScanEnds
  <2> QED
    BY <1>1, <2>1, <2>3, <2>4, <2>5, Answered, ConfirmMoves
<1>8. CASE NodePollEnds(n)
  <2>1. PICK v \in {"SUCCESS", "NO_ACK", "OTHER"} :
          NodeConfirm(n, Confirm("poll", v, 0), NoResponse)
    BY <1>8 DEF NodePollEnds
  <2> DEFINE c == Confirm("poll", v, 0)
  <2>2. c.kind = "poll"
    OBVIOUS
  <2>3. [confirm |-> c, response |-> NoResponse] \in NodeMessages
    BY DEF NodeMessages
  <2> HIDE DEF c
  <2>4. /\ nodes' = [nodes EXCEPT ![n] = [nodes[n] EXCEPT !.polls = @ - 1]]
        /\ asked' = asked
    BY <1>8 DEF NodePollEnds
  <2>5. NodeConfirm(n, c, NoResponse)
    BY <2>1 DEF c
  <2> QED
    BY <1>1, <2>2, <2>3, <2>4, <2>5, Answered, ConfirmMoves
<1>9. CASE NodeGivesUp(n)
  <2> DEFINE c == Confirm("assoc", "DENIED", 0)
  <2>1. NodeConfirm(n, c, NoResponse)
    BY <1>9 DEF NodeGivesUp
  <2>2. c.status = "DENIED"
    OBVIOUS
  <2>3. [confirm |-> c, response |-> NoResponse] \in NodeMessages
    BY DEF NodeMessages
  <2> HIDE DEF c
  <2>4. /\ nodes' = [nodes EXCEPT ![n] = [nodes[n] EXCEPT !.assocs = @ - 1]]
        /\ asked' = asked \ {n}
    BY <1>9 DEF NodeGivesUp
  <2> QED
    BY <1>1, <2>1, <2>2, <2>3, <2>4, Answered, ConfirmMoves
<1> QED
  BY <1>4, <1>5, <1>6, <1>7, <1>8, <1>9 DEF Own

-----------------------------------------------------------------------------
(* The other devices and the air. *)

\* Another device may give up its address.
LEMMA OtherMoves ==
  ASSUME NetInv, NEW d \in Devices \ Nodes, OtherGivesUp(d), UNCHANGED gwVars
  PROVE  NodesTyped' /\ Moves /\ AskedHeld'
<1>1. /\ UNCHANGED <<nodes, inboxes, answers>> /\ asked' \subseteq asked
      /\ \/ addresses' = addresses
         \/ addresses' = [addresses EXCEPT ![d] = NoResponse]
  BY DEF OtherGivesUp, nodeVars, gwVars
<1>2. NodesTyped'
  BY <1>1 DEF NetInv, NodesTyped
<1>3. \A e \in Devices :
        \/ addresses'[e] = addresses[e]
        \/ e = d /\ addresses'[e] = NoResponse
  BY <1>1 DEF NetInv, NodesTyped
<1>4. \A e \in Associated' : e \in Associated /\ addresses'[e] = addresses[e]
  BY <1>1, <1>3, NetworkAssumption DEF Associated
<1>5. \A n \in Nodes : AcceptedIn(inboxes[n])' = AcceptedIn(inboxes[n])
  BY <1>1 DEF AcceptedIn, Accepts
<1>6. AskedHeld'
  BY <1>1 DEF NetInv, AskedHeld
<1> QED
  BY <1>1, <1>2, <1>4, <1>5, <1>6 DEF Moves

\* Nodes that stand still lose nothing when a response expires.
LEMMA StandStill ==
  ASSUME NetInv, UNCHANGED <<nodes, inboxes, addresses>>,
         answers' \subseteq answers, \A n \in asked' \cap Nodes :
                                        n \in asked \/ nodes[n].assocs > 0
  PROVE  NodesTyped' /\ Moves /\ AskedHeld'
<1>1. NodesTyped'
  BY DEF NetInv, NodesTyped
<1>2. Associated' = Associated
  BY DEF Associated
<1>3. \A n \in Nodes : AcceptedIn(inboxes[n])' = AcceptedIn(inboxes[n])
  BY DEF AcceptedIn, Accepts
<1>4. AskedHeld'
  BY DEF NetInv, AskedHeld
<1> QED
  BY <1>1, <1>2, <1>3, <1>4 DEF Moves

\* A response that is fetched goes to the device it was made for.
LEMMA FetchMoves ==
  ASSUME NetInv, NEW r \in answers, GwForgets(r), Fetches(r)
  PROVE  NodesTyped' /\ Moves /\ AskedHeld'
<1>1. r \in Responses /\ r.device \in Devices /\ answers' \subseteq answers
  BY DEF NetInv, GwInv, GwTypeOK, Responses, GwForgets
<1>2. CASE r.device \in Nodes
  <2> DEFINE n == r.device
             c == Confirm("assoc", "SUCCESS", 0)
  <2>1. /\ nodes' = [nodes EXCEPT ![n] = [nodes[n] EXCEPT !.assocs = @ - 1]]
        /\ NodeConfirm(n, c, r) /\ asked' = asked \ {n}
    BY <1>2 DEF Fetches, NodeFetches
  <2>2. c = [kind |-> "assoc", status |-> "SUCCESS", found |-> 0]
    BY DEF Confirm
  <2>3. [confirm |-> c, response |-> r] \in NodeMessages
    BY <1>1, <2>2 DEF NodeMessages
  <2>4. nodes[n] \in NodeRecords
    BY <1>2 DEF NetInv, NodesTyped
  <2> HIDE DEF c
  <2> QED
    BY <1>1, <1>2, <2>1, <2>3, <2>4, Answered, ConfirmMoves
<1>3. CASE r.device \notin Nodes
  <2> DEFINE d == r.device
  <2>1. /\ addresses' = [addresses EXCEPT ![d] = r]
        /\ UNCHANGED <<nodes, inboxes>> /\ asked' \subseteq asked
    BY <1>3 DEF Fetches, OtherFetches, nodeVars
  <2>2. NodesTyped'
    BY <1>1, <2>1 DEF NetInv, NodesTyped
  <2>3. \A e \in Devices :
          \/ e # d /\ addresses'[e] = addresses[e]
          \/ e = d /\ addresses'[e] = r
    BY <1>1, <2>1 DEF NetInv, NodesTyped
  <2>4. \A e \in Associated' : e \in Devices /\ (e # d => e \in Associated)
    BY <2>1, <2>3, NetworkAssumption DEF Associated
  <2>5. \A n \in Nodes : AcceptedIn(inboxes[n])' = AcceptedIn(inboxes[n])
    BY <2>1 DEF AcceptedIn, Accepts
  <2>6. AskedHeld'
    BY <2>1 DEF NetInv, AskedHeld
  <2> QED
    BY <1>1, <2>2, <2>3, <2>4, <2>5, <2>6 DEF Moves, Circulating
<1> QED
  BY <1>2, <1>3

-----------------------------------------------------------------------------
(* The network. *)

\* Nothing circulates when the network is switched on.
LEMMA InitHolds == Init => NetInv
<1> SUFFICES ASSUME Init
             PROVE  NetInv
  OBVIOUS
<1>1. /\ answers = {}
      /\ nodes = [n \in Nodes |-> N(n)!Booted]
      /\ inboxes = [n \in Nodes |-> <<>>]
      /\ addresses = [n \in Devices |-> NoResponse]
      /\ asked = {}
  BY DEF Init, GwInit
<1>2. GwInv
  BY GwInitHolds DEF Init
<1>3. ASSUME NEW n \in Nodes
      PROVE  N(n)!Booted \in NodeRecords /\ ~N(n)!Booted.isAssociated
  BY DEF N!Booted, NodeRecords
<1>4. NodesTyped
  BY <1>1, <1>3 DEF NodesTyped
<1>5. Associated = {}
  BY <1>1, <1>3 DEF Associated
<1>6. ASSUME NEW n \in Nodes
      PROVE  AcceptedIn(inboxes[n]) = {}
  <2>1. inboxes[n] = <<>> /\ Len(<<>>) = 0
    BY <1>1
  <2> QED
    BY <2>1 DEF AcceptedIn
<1>7. Arrived = {} /\ InUse = {} /\ Circulating = {}
  BY <1>1, <1>5, <1>6 DEF Arrived, InUse, Circulating
<1> QED
  BY <1>1, <1>2, <1>4, <1>5, <1>6, <1>7
  DEF NetInv, ToOwner, InTurn, AskedHeld

\* Every step of the network keeps the invariant.
LEMMA StepKeeps == NetInv /\ [Next]_vars => NetInv'
<1> SUFFICES ASSUME NetInv, [Next]_vars
             PROVE  NetInv'
  OBVIOUS
<1>1. GwTypeOK /\ GwInv'
  <2>1. GwStep
    BY DEF Next, GwStep, vars
  <2> QED
    BY <2>1, GwStepKeeps DEF NetInv, GwInv
<1>2. ASSUME NodesTyped', Moves, AskedHeld', SameGrants
      PROVE  NetInv'
  BY <1>2, <1>1, MovesKeep DEF NetInv
<1>3. ASSUME UNCHANGED gwVars
      PROVE  SameGrants /\ answers' \subseteq answers
  BY <1>3 DEF gwVars, SameGrants
<1>4. CASE GwOwn /\ UNCHANGED netVars
  <2>1. CASE GwHandleAssocInd
    BY <1>4, <2>1, NewResponse
  <2>2. CASE ~GwHandleAssocInd
    <3>1. SameGrants /\ answers' = answers
      BY <1>1, <1>4, <2>2, GwKeeps
    <3>2. NodesTyped' /\ Moves /\ AskedHeld'
      BY <1>4, <3>1, StandStill DEF netVars
    <3> QED
      BY <1>2, <3>1, <3>2
  <2> QED
    BY <2>1, <2>2
<1>5. CASE \E n \in Nodes : Own(n) /\ UNCHANGED gwVars
  BY <1>2, <1>3, <1>5, OwnMoves
<1>6. CASE \E d \in Devices \ Nodes : OtherGivesUp(d) /\ UNCHANGED gwVars
  BY <1>2, <1>3, <1>6, OtherMoves
<1>7. CASE \E d \in Devices : Asks(d) /\ (GwHears(d) \/ UNCHANGED gwVars)
  <2>1. PICK d \in Devices : Asks(d) /\ (GwHears(d) \/ UNCHANGED gwVars)
    BY <1>7
  <2>2. SameGrants /\ answers' = answers
    BY <1>1, <2>1, GwHearsKeeps DEF gwVars, SameGrants
  <2>3. NodesTyped' /\ Moves /\ AskedHeld'
    BY <2>1, <2>2, StandStill DEF Asks, nodeVars
  <2> QED
    BY <1>2, <2>2, <2>3
<1>8. CASE \E r \in answers : GwForgets(r) /\ (Fetches(r) \/ UNCHANGED netVars)
  <2>1. PICK r \in answers : GwForgets(r) /\ (Fetches(r) \/ UNCHANGED netVars)
    BY <1>8
  <2>2. SameGrants /\ answers' \subseteq answers
    BY <1>1, <2>1 DEF GwForgets, SameGrants
  <2>3. NodesTyped' /\ Moves /\ AskedHeld'
    BY <2>1, <2>2, FetchMoves, StandStill DEF netVars
  <2> QED
    BY <1>2, <2>2, <2>3
<1>9. CASE UNCHANGED vars
  BY <1>2, <1>3, <1>9, StandStill DEF vars, netVars
<1> QED
  BY <1>4, <1>5, <1>6, <1>7, <1>8, <1>9 DEF Next

\* The inductive invariant holds of the network.
THEOREM NetworkInvariant == Spec => []NetInv
<1> QED
  BY InitHolds, StepKeeps, PTL DEF Spec

\* Two devices that are associated live on different grants; they share an
\* address only when the table of the gateway has been gone through between.
THEOREM AddressesShared == Spec => []AddressesComeRound
<1>1. NetInv => AddressesComeRound
  <2> SUFFICES ASSUME NetInv, NEW m \in Associated, NEW n \in Associated,
                      m # n
               PROVE  /\ addresses[m].grant # addresses[n].grant
                      /\ addresses[m].address = addresses[n].address =>
                           \/ addresses[m].grant >=
                                addresses[n].grant + MaxDeviceNum
                           \/ addresses[n].grant >=
                                addresses[m].grant + MaxDeviceNum
    BY DEF AddressesComeRound
  <2> DEFINE r == addresses[m]
             s == addresses[n]
  <2>1. r \in Circulating /\ s \in Circulating
    BY DEF Circulating, InUse
  <2>2. r.device = m /\ s.device = n
    BY DEF NetInv, ToOwner
  <2>3. Granted(r) /\ Granted(s) /\ Apart(r, s) /\ Apart(s, r)
    BY <2>1 DEF NetInv, InTurn
  <2> HIDE DEF r, s
  <2>4. r.grant \in Nat /\ s.grant \in Nat /\ MaxDeviceNum \in Nat
    BY <2>3, GatewayAssumption DEF Granted, Responses
  <2>5. r.grant # s.grant
    BY <2>2, <2>3 DEF Apart
  <2>6. r.address = s.address => \/ r.grant >= s.grant + MaxDeviceNum
                                 \/ s.grant >= r.grant + MaxDeviceNum
    BY <2>3, <2>4, <2>5 DEF Apart
  <2> QED
    BY <2>5, <2>6 DEF r, s
<1> QED
  BY <1>1, NetworkInvariant, PTL

-----------------------------------------------------------------------------
(* The gateway in the network.                                              *)

\* Requests are those of the devices, and no more than the bound.
Requests == asked \subseteq Devices /\ numAsked \in 0 .. MaxAsked

LEMMA RequestsKept == Requests /\ [Next]_vars => Requests'
<1> SUFFICES ASSUME Requests, [Next]_vars
             PROVE  Requests'
  OBVIOUS
<1>1. ASSUME asked' \subseteq asked, numAsked' = numAsked
      PROVE  Requests'
  BY <1>1 DEF Requests
<1>2. CASE GwOwn /\ UNCHANGED netVars
  BY <1>1, <1>2 DEF netVars
<1>3. CASE \E n \in Nodes : Own(n) /\ UNCHANGED gwVars
  BY <1>1, <1>3
  DEF Own, NodeHandleMessage, NodeFlag, FlagTurn, NodeTimerFires, NodeScanEnds,
      NodePollEnds, NodeGivesUp, NodeConfirm
<1>4. CASE \E d \in Devices \ Nodes : OtherGivesUp(d) /\ UNCHANGED gwVars
  BY <1>1, <1>4 DEF OtherGivesUp
<1>5. CASE \E d \in Devices : Asks(d) /\ (GwHears(d) \/ UNCHANGED gwVars)
  BY <1>5, NetworkAssumption DEF Asks, Requests
<1>6. CASE \E r \in answers : GwForgets(r) /\ (Fetches(r) \/ UNCHANGED netVars)
  BY <1>1, <1>6 DEF Fetches, NodeFetches, OtherFetches, NodeConfirm, netVars
<1>7. CASE UNCHANGED vars
  BY <1>1, <1>7 DEF vars, netVars
<1> QED
  BY <1>2, <1>3, <1>4, <1>5, <1>6, <1>7 DEF Next

\* The gateway's variables keep their types, the channel it asks for among
\* them, and a node has its address from the gateway or none.
THEOREM NetworkTypes == Spec => []TypeOK
<1>1. Init => Requests
  BY NetworkAssumption DEF Init, Requests
<1>2. NetInv /\ Requests => TypeOK
  BY DEF NetInv, GwInv, NodesTyped, Requests, TypeOK
<1> QED
  BY <1>1, <1>2, RequestsKept, NetworkInvariant, PTL DEF Spec

\* Until the PAN is started exactly one step of the start-up is under way: it
\* dies only of a failed scan or of memory that is short, and never runs twice.
THEOREM StartupIsOneThread == Spec => []StartupGoesOn
<1>1. NetInv => StartupGoesOn
  BY DEF NetInv, GwInv
<1> QED
  BY <1>1, NetworkInvariant, PTL

\* The channel that the gateway starts on after a scan is the lowest of the
\* quietest ones.
THEOREM QuietestIsStarted == Spec => StartsOnQuietest
<1> DEFINE A == GwHandleConfirm /\ Head(gwInbox).kind = "scan" /\ gw'.starting # 0
                  => LET energy == Head(gwInbox).energy
                     IN \A c \in 1 .. NumChannels \ {gw'.starting} :
                          \/ energy[gw'.starting] < energy[c]
                          \/ energy[gw'.starting] = energy[c] /\ gw'.starting < c
<1>1. NetInv => A
  BY ScanStarts DEF NetInv, IsQuietest
<1>2. [][A]_gwVars => StartsOnQuietest
  BY PTL DEF StartsOnQuietest
<1> HIDE DEF A
<1> QED
  BY <1>1, <1>2, NetworkInvariant, PTL

-----------------------------------------------------------------------------
(* The network implements NodeApp for each of its nodes: the confirms that  *)
(* the gateway and the air bring about are among those of NodeApp's         *)
(* arbitrary MAC, so what is proved of NodeApp holds of every node.         *)

\* The confirms in a queue of messages, as SpwmNetwork hands them to NodeApp.
Queue(q) == [i \in 1 .. Len(q) |-> q[i].confirm]

FlagsTyped ==
  /\ nodeFlags \in [Nodes -> SUBSET {"PREP_INIT", "RESCAN", "STICK_TIMER"}]
  /\ tickings \in [Nodes -> BOOLEAN]

\* What NodeApp knows of a node is as it was.
NodeSame(n) ==
  /\ nodes'[n] = nodes[n] /\ nodeFlags'[n] = nodeFlags[n]
  /\ tickings'[n] = tickings[n] /\ inboxes'[n] = inboxes[n]

\* The queue of confirms shrinks with that of messages.
LEMMA QueueTail ==
  ASSUME NEW q \in Seq(NodeMessages), q # <<>>
  PROVE  /\ Queue(q) # <<>> /\ Head(Queue(q)) = Head(q).confirm
         /\ Queue(Tail(q)) = Tail(Queue(q))
<1>1. /\ Len(q) \in Nat /\ Len(q) >= 1
      /\ Queue(q) \in Seq({q[i].confirm : i \in 1 .. Len(q)})
      /\ Len(Queue(q)) = Len(q)
  BY DEF Queue
<1>2. Queue(q) # <<>> /\ Head(Queue(q)) = Head(q).confirm
  BY <1>1 DEF Queue
<1>3. Queue(Tail(q)) = Tail(Queue(q))
  BY <1>1 DEF Queue
<1> QED
  BY <1>2, <1>3

\* It grows with it.
LEMMA QueueAppend ==
  ASSUME NEW q \in Seq(NodeMessages), NEW c, NEW r
  PROVE  /\ Len(Queue(q)) = Len(q)
         /\ Queue(Append(q, [confirm |-> c, response |-> r]))
              = Append(Queue(q), c)
<1>1. Len(q) \in Nat
  OBVIOUS
<1> DEFINE m == [confirm |-> c, response |-> r]
<1>2. m.confirm = c
  OBVIOUS
<1> HIDE DEF m
<1>3. Queue(Append(q, m)) = Append(Queue(q), m.confirm)
  BY <1>1 DEF Queue
<1>4. Len(Queue(q)) = Len(q)
  BY <1>1 DEF Queue
<1> QED
  BY <1>2, <1>3, <1>4 DEF m

\* It is empty with it.
LEMMA QueueEmpty ==
  ASSUME NEW q \in Seq(NodeMessages)
  PROVE  q = <<>> <=> Queue(q) = <<>>
BY DEF Queue

\* A node nothing happens to stutters.
LEMMA Stutters ==
  ASSUME NEW n \in Nodes, NodeSame(n)
  PROVE  [N(n)!Next]_(N(n)!vars)
BY DEF NodeSame, N!vars

\* A message that is handled is handled by the node.
LEMMA MessageImplements ==
  ASSUME NetInv, NEW n \in Nodes, NodeHandleMessage(n)
  PROVE  N(n)!HandleMessage
<1>1. /\ Queue(inboxes[n]) # <<>>
      /\ Head(Queue(inboxes[n])) = Head(inboxes[n]).confirm
  BY QueueTail DEF NetInv, NodesTyped, NodeHandleMessage
<1>2. \E mem \in BOOLEAN :
        nodes'[n] = N(n)!Handled(nodes[n], Head(inboxes[n]).confirm, mem)
  BY DEF NetInv, NodesTyped, NodeHandleMessage
<1>3. Queue(inboxes[n])' = Tail(Queue(inboxes[n]))
  <2>1. inboxes'[n] = Tail(inboxes[n])
    BY DEF NetInv, NodesTyped, NodeHandleMessage
  <2> QED
    BY <2>1, QueueTail DEF NetInv, NodesTyped, NodeHandleMessage
<1>4. nodeFlags'[n] = nodeFlags[n] /\ tickings'[n] = tickings[n]
  BY DEF NodeHandleMessage
<1> QED
  BY <1>1, <1>2, <1>3, <1>4 DEF N!HandleMessage, Queue

\* A flag that is served is served by the node, after its messages.
LEMMA FlagImplements ==
  ASSUME NetInv, FlagsTyped, NEW n \in Nodes, NodeFlag(n)
  PROVE  \/ N(n)!ProcessInitPeriEvent
         \/ N(n)!HandleRescan
         \/ N(n)!HandleStickTimer
<1>1. Queue(inboxes[n]) = <<>> /\ inboxes'[n] = inboxes[n]
  BY QueueEmpty DEF NetInv, NodesTyped, NodeFlag, FlagTurn
<1>2. CASE /\ "PREP_INIT" \in nodeFlags[n]
           /\ nodes' = [nodes EXCEPT ![n] = [N(n)!NWK_ScanReq(@)
                                               EXCEPT !.curStickTime = 0]]
           /\ \E mem \in BOOLEAN : tickings' = [tickings EXCEPT ![n] = mem]
           /\ nodeFlags' = [nodeFlags EXCEPT ![n] = @ \ {"PREP_INIT"}]
  <2>1. /\ nodes'[n] = [N(n)!NWK_ScanReq(nodes[n]) EXCEPT !.curStickTime = 0]
        /\ tickings'[n] \in BOOLEAN
        /\ nodeFlags'[n] = nodeFlags[n] \ {"PREP_INIT"}
    BY <1>2 DEF NetInv, NodesTyped, FlagsTyped
  <2> QED
    BY <1>1, <1>2, <2>1 DEF N!ProcessInitPeriEvent, Queue
<1>3. CASE /\ "PREP_INIT" \notin nodeFlags[n] /\ "RESCAN" \in nodeFlags[n]
           /\ nodes' = [nodes EXCEPT ![n] = N(n)!NWK_ScanReq(@)]
           /\ nodeFlags' = [nodeFlags EXCEPT ![n] = @ \ {"RESCAN"}]
           /\ UNCHANGED tickings
  <2>1. /\ nodes'[n] = N(n)!NWK_ScanReq(nodes[n])
        /\ nodeFlags'[n] = nodeFlags[n] \ {"RESCAN"}
    BY <1>3 DEF NetInv, NodesTyped, FlagsTyped
  <2> QED
    BY <1>1, <1>3, <2>1 DEF N!HandleRescan, Queue
<1>4. CASE /\ nodeFlags[n] = {"STICK_TIMER"}
           /\ \E mem \in BOOLEAN :
                nodes' = [nodes EXCEPT ![n] =
                            N(n)!ProcessStickTimerEvent(@, mem)]
           /\ nodeFlags' = [nodeFlags EXCEPT ![n] = {}]
           /\ UNCHANGED tickings
  <2>1. /\ \E mem \in BOOLEAN :
             nodes'[n] = N(n)!ProcessStickTimerEvent(nodes[n], mem)
        /\ nodeFlags'[n] = {}
    BY <1>4 DEF NetInv, NodesTyped, FlagsTyped
  <2> QED
    BY <1>1, <1>4, <2>1 DEF N!HandleStickTimer, Queue
<1> QED
  BY <1>2, <1>3, <1>4 DEF NodeFlag, FlagTurn

\* The timers of a node are those of NodeApp.
LEMMA TimerImplements ==
  ASSUME NetInv, FlagsTyped, NEW n \in Nodes, NodeTimerFires(n)
  PROVE  N(n)!StickTimerFires \/ N(n)!RescanTimerFires
<1>1. inboxes' = inboxes /\ tickings' = tickings
  BY DEF NodeTimerFires
<1>2. CASE /\ tickings[n] /\ nodes' = nodes
           /\ nodeFlags' = [nodeFlags EXCEPT ![n] = @ \cup {"STICK_TIMER"}]
  <2>1. nodeFlags'[n] = nodeFlags[n] \cup {"STICK_TIMER"}
    BY <1>2 DEF FlagsTyped
  <2> QED
    BY <1>1, <1>2, <2>1 DEF N!StickTimerFires
<1>3. CASE /\ nodes[n].rescanTimer
           /\ nodeFlags' = [nodeFlags EXCEPT ![n] = @ \cup {"RESCAN"}]
           /\ nodes' = [nodes EXCEPT ![n].rescanTimer = FALSE]
  <2>1. /\ nodeFlags'[n] = nodeFlags[n] \cup {"RESCAN"}
        /\ nodes'[n] = [nodes[n] EXCEPT !.rescanTimer = FALSE]
    BY <1>3 DEF NetInv, NodesTyped, FlagsTyped
  <2> QED
    BY <1>1, <1>3, <2>1 DEF N!RescanTimerFires
<1> QED
  BY <1>2, <1>3 DEF NodeTimerFires

\* A confirm is queued as MAC_CbackEvent queues it.
LEMMA CallbackImplements ==
  ASSUME NetInv, NEW n \in Nodes, NEW c, NEW r, NodeConfirm(n, c, r)
  PROVE  /\ N(n)!MAC_CbackEvent(c)
         /\ nodeFlags'[n] = nodeFlags[n] /\ tickings'[n] = tickings[n]
<1>1. inboxes[n] \in Seq(NodeMessages)
  BY DEF NetInv, NodesTyped
<1>2. CASE inboxes' = inboxes
  BY <1>2 DEF N!MAC_CbackEvent, NodeConfirm
<1>3. CASE /\ Len(inboxes[n]) < MaxInbox
           /\ inboxes' = [inboxes EXCEPT
                ![n] = Append(@, [confirm |-> c, response |-> r])]
  <2>1. inboxes'[n] = Append(inboxes[n], [confirm |-> c, response |-> r])
    BY <1>3 DEF NetInv, NodesTyped
  <2>2. /\ Queue(inboxes[n])' = Append(Queue(inboxes[n]), c)
        /\ Len(Queue(inboxes[n])) = Len(inboxes[n])
    BY <1>1, <2>1, QueueAppend DEF Queue
  <2> QED
    BY <1>3, <2>2 DEF N!MAC_CbackEvent, N!Delivered, Queue, NodeConfirm
<1> QED
  BY <1>2, <1>3 DEF NodeConfirm

\* What the network answers to a node, an arbitrary MAC may answer.
LEMMA ScanImplements ==
  ASSUME NetInv, NEW n \in Nodes, NodeScanEnds(n)
  PROVE  N(n)!MacAnswers
<1> USE DEF Confirm
<1>1. PICK c \in {Confirm("scan", "NO_BEACON", 0)}
                   \cup {Confirm("scan", "OTHER", f) :
                           f \in IF gw.onAir THEN 0 .. MaxFound ELSE {0}} :
        NodeConfirm(n, c, NoResponse)
  BY DEF NodeScanEnds
<1>2. c \in N(n)!Confirms /\ c.kind = "scan"
  <2>1. CASE c = [kind |-> "scan", status |-> "NO_BEACON", found |-> 0]
    BY <2>1 DEF N!Confirms
  <2>2. CASE \E f \in 0 .. MaxFound :
               c = [kind |-> "scan", status |-> "OTHER", found |-> f]
    BY <2>2 DEF N!Confirms
  <2> QED
    BY <1>1, <2>1, <2>2, NetworkAssumption
<1>3. /\ nodes[n].scans > 0
      /\ nodes'[n] = [nodes[n] EXCEPT !.scans = @ - 1]
  BY DEF NodeScanEnds, NetInv, NodesTyped
<1>4. /\ N(n)!MAC_CbackEvent(c)
      /\ nodeFlags'[n] = nodeFlags[n] /\ tickings'[n] = tickings[n]
  BY <1>1, CallbackImplements
<1>5. N(n)!Answer(c)
  BY <1>2, <1>3, <1>4 DEF N!Answer, N!ScanAnswer
<1> QED
  BY <1>2, <1>4, <1>5 DEF N!MacAnswers

\* A poll ends as some MAC may end it.
LEMMA PollImplements ==
  ASSUME NetInv, NEW n \in Nodes, NodePollEnds(n)
  PROVE  N(n)!MacAnswers
<1>1. PICK v \in {"SUCCESS", "NO_ACK", "OTHER"} :
        NodeConfirm(n, Confirm("poll", v, 0), NoResponse)
  BY DEF NodePollEnds
<1> DEFINE c == Confirm("poll", v, 0)
<1>2. c \in N(n)!Confirms /\ c.kind = "poll"
  BY DEF N!Confirms, Confirm
<1> HIDE DEF c
<1>3. /\ nodes[n].polls > 0
      /\ nodes'[n] = [nodes[n] EXCEPT !.polls = @ - 1]
  BY DEF NodePollEnds, NetInv, NodesTyped
<1>4. /\ N(n)!MAC_CbackEvent(c)
      /\ nodeFlags'[n] = nodeFlags[n] /\ tickings'[n] = tickings[n]
  BY <1>1, CallbackImplements DEF c
<1>5. N(n)!Answer(c)
  BY <1>2, <1>3, <1>4 DEF N!Answer, N!PollAnswer
<1> QED
  BY <1>2, <1>4, <1>5 DEF N!MacAnswers

\* An association ends as some MAC may end it: there is a request.
LEMMA AssocImplements ==
  ASSUME NetInv, NEW n \in Nodes, NEW v \in {"SUCCESS", "DENIED"}, NEW r,
         nodes[n].assocs > 0,
         nodes' = [nodes EXCEPT ![n].assocs = @ - 1],
         NodeConfirm(n, Confirm("assoc", v, 0), r)
  PROVE  N(n)!MacAnswers
<1> DEFINE c == Confirm("assoc", v, 0)
<1>2. c \in N(n)!Confirms /\ c.kind = "assoc"
  BY DEF N!Confirms, Confirm
<1> HIDE DEF c
<1>3. nodes'[n] = [nodes[n] EXCEPT !.assocs = @ - 1]
  BY DEF NetInv, NodesTyped
<1>4. /\ N(n)!MAC_CbackEvent(c)
      /\ nodeFlags'[n] = nodeFlags[n] /\ tickings'[n] = tickings[n]
  BY CallbackImplements DEF c
<1>5. N(n)!Answer(c)
  BY <1>2, <1>3, <1>4 DEF N!Answer, N!AssocAnswer
<1> QED
  BY <1>2, <1>4, <1>5 DEF N!MacAnswers

\* A step of one node leaves the others alone.
LEMMA OthersSame ==
  ASSUME NetInv, FlagsTyped, NEW k \in Nodes, NEW n \in Nodes, n # k,
         Own(k) \/ \E r \in answers : r.device = k /\ NodeFetches(k, r)
  PROVE  NodeSame(n)
<1> USE DEF NetInv, NodesTyped, FlagsTyped, NodeSame
<1>1. CASE NodeHandleMessage(k)
  BY <1>1 DEF NodeHandleMessage
<1>2. CASE NodeFlag(k)
  BY <1>2 DEF NodeFlag, FlagTurn
<1>3. CASE NodeTimerFires(k)
  BY <1>3 DEF NodeTimerFires
<1>4. ASSUME NEW c, NEW r, NodeConfirm(k, c, r)
      PROVE  /\ inboxes'[n] = inboxes[n] /\ nodeFlags'[n] = nodeFlags[n]
             /\ tickings'[n] = tickings[n]
  BY <1>4 DEF NodeConfirm
<1>5. CASE NodeScanEnds(k)
  BY <1>4, <1>5 DEF NodeScanEnds
<1>6. CASE NodePollEnds(k)
  BY <1>4, <1>6 DEF NodePollEnds
<1>7. CASE NodeGivesUp(k)
  BY <1>4, <1>7 DEF NodeGivesUp
<1>8. CASE \E r \in answers : r.device = k /\ NodeFetches(k, r)
  BY <1>4, <1>8 DEF NodeFetches
<1> QED
  BY <1>1, <1>2, <1>3, <1>5, <1>6, <1>7, <1>8 DEF Own

\* Flags and tick timers keep their types.
LEMMA FlagsKept ==
  ASSUME FlagsTyped, [Next]_vars
  PROVE  FlagsTyped'
<1> USE DEF FlagsTyped
<1>1. ASSUME NEW n, NEW c, NEW r, NodeConfirm(n, c, r)
      PROVE  UNCHANGED <<nodeFlags, tickings>>
  BY <1>1 DEF NodeConfirm
<1>2. CASE \E n \in Nodes : Own(n) /\ UNCHANGED gwVars
  <2> PICK n \in Nodes : Own(n)
    BY <1>2
  <2>1. CASE NodeHandleMessage(n)
    BY <2>1 DEF NodeHandleMessage
  <2>2. CASE NodeFlag(n)
    BY <2>2 DEF NodeFlag, FlagTurn
  <2>3. CASE NodeTimerFires(n)
    BY <2>3 DEF NodeTimerFires
  <2>4. CASE NodeScanEnds(n) \/ NodePollEnds(n) \/ NodeGivesUp(n)
    BY <1>1, <2>4 DEF NodeScanEnds, NodePollEnds, NodeGivesUp
  <2> QED
    BY <2>1, <2>2, <2>3, <2>4 DEF Own
<1>3. CASE UNCHANGED netVars \/ UNCHANGED vars
  BY <1>3 DEF vars, netVars
<1>4. CASE \E d \in Devices : OtherGivesUp(d) \/ Asks(d)
  BY <1>4 DEF OtherGivesUp, Asks, nodeVars
<1>5. CASE \E r \in answers : Fetches(r)
  BY <1>1, <1>5 DEF Fetches, NodeFetches, OtherFetches, nodeVars
<1> QED
  BY <1>2, <1>3, <1>4, <1>5 DEF Next

\* A step of a node is one of its NodeApp and of no other.
LEMMA OwnImplements ==
  ASSUME NetInv, FlagsTyped, NEW k \in Nodes, Own(k), NEW n \in Nodes
  PROVE  [N(n)!Next]_(N(n)!vars)
<1>1. CASE n # k
  BY <1>1, OthersSame, Stutters
<1>2. CASE n = k
  <2>1. CASE NodeHandleMessage(n)
    BY <2>1, MessageImplements DEF N!Next, N!Task
  <2>2. CASE NodeFlag(n)
    BY <2>2, FlagImplements DEF N!Next, N!Task
  <2>3. CASE NodeTimerFires(n)
    BY <2>3, TimerImplements DEF N!Next
  <2>4. CASE NodeScanEnds(n)
    BY <2>4, ScanImplements DEF N!Next
  <2>5. CASE NodePollEnds(n)
    BY <2>5, PollImplements DEF N!Next
  <2>6. CASE NodeGivesUp(n)
    BY <2>6, AssocImplements DEF NodeGivesUp, N!Next
  <2> QED
    BY <1>2, <2>1, <2>2, <2>3, <2>4, <2>5, <2>6 DEF Own
<1> QED
  BY <1>1, <1>2

\* So is every step of the network.
LEMMA StepImplements ==
  ASSUME NetInv, FlagsTyped, [Next]_vars, NEW n \in Nodes
  PROVE  [N(n)!Next]_(N(n)!vars)
<1>1. ASSUME UNCHANGED nodeVars
      PROVE  [N(n)!Next]_(N(n)!vars)
  BY <1>1, Stutters DEF nodeVars, NodeSame
<1>2. CASE \E k \in Nodes : Own(k) /\ UNCHANGED gwVars
  BY <1>2, OwnImplements
<1>3. CASE UNCHANGED netVars \/ UNCHANGED vars
  BY <1>1, <1>3 DEF vars, netVars, nodeVars
<1>4. CASE \E d \in Devices : OtherGivesUp(d) \/ Asks(d)
  BY <1>1, <1>4 DEF OtherGivesUp, Asks
<1>5. CASE \E r \in answers : Fetches(r)
  <2>1. PICK r \in answers : Fetches(r)
    BY <1>5
  <2>2. CASE r.device \notin Nodes
    BY <1>1, <2>1, <2>2 DEF Fetches, OtherFetches
  <2>3. CASE r.device \in Nodes
    <3>1. NodeFetches(r.device, r) /\ r.device \in asked
      BY <2>1, <2>3 DEF Fetches
    <3>2. CASE n # r.device
      BY <2>3, <3>1, <3>2, OthersSame, Stutters
    <3>3. CASE n = r.device
      <4>1. nodes[n].assocs > 0
        BY <3>1, <3>3 DEF NetInv, AskedHeld
      <4>2. /\ nodes' = [nodes EXCEPT ![n].assocs = @ - 1]
            /\ NodeConfirm(n, Confirm("assoc", "SUCCESS", 0), r)
        BY <3>1, <3>3 DEF NodeFetches
      <4> QED
        BY <4>1, <4>2, AssocImplements DEF N!Next
    <3> QED
      BY <3>2, <3>3
  <2> QED
    BY <2>2, <2>3
<1> QED
  BY <1>2, <1>3, <1>4, <1>5 DEF Next

\* Every node of the network is a NodeApp, whatever the gateway answers and
\* the air loses: an association is confirmed only to a node whose MAC holds a
\* request, and flags wait for messages.
THEOREM NodesAreNodeApps == Spec => ImplementsNodeApp
<1>1. Init => FlagsTyped
  BY DEF Init, FlagsTyped
<1>2. Init => \A n \in Nodes : N(n)!Init
  <2> SUFFICES ASSUME Init, NEW n \in Nodes
               PROVE  N(n)!Init
    OBVIOUS
  <2>1. /\ nodes[n] = N(n)!Booted /\ inboxes[n] = <<>>
        /\ nodeFlags[n] = {"PREP_INIT"} /\ tickings[n] = FALSE
    BY DEF Init
  <2>2. Queue(inboxes[n]) = <<>>
    BY <2>1 DEF Queue
  <2> QED
    BY <2>1, <2>2 DEF N!Init, Queue
<1>3. NetInv /\ FlagsTyped /\ [Next]_vars
        => [\A n \in Nodes : [N(n)!Next]_(N(n)!vars)]_vars
  BY StepImplements
<1>4. FlagsTyped /\ [Next]_vars => FlagsTyped'
  BY FlagsKept
<1> QED
  BY <1>1, <1>2, <1>3, <1>4, NetworkInvariant, PTL
  DEF Spec, ImplementsNodeApp

=============================================================================
