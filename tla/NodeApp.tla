------------------------------ MODULE NodeApp ------------------------------
(***************************************************************************)
(* The sensor node's application task                                       *)
(* (src/Projects/mac/Sample/exp5438/nodes/apps/node.c): it scans for the    *)
(* gateway, associates, measures every sensingTime ticks and reports, sends *)
(* alive messages and polls in between, and gives the association up when   *)
(* polls go unanswered.                                                     *)
(*                                                                          *)
(* The handlers are operators from one state of the node to the next, so    *)
(* that a network of nodes can use them too.  The MAC library is external:  *)
(* it answers the requests in any order with any status, and its callback   *)
(* may fail to allocate the confirm.  Data indications are printed and      *)
(* freed, which changes nothing here.                                       *)
(***************************************************************************)
EXTENDS Integers, Sequences, FiniteSets

CONSTANTS
  sensingTime,     \* ticks between two measurements
  preparingDelta,  \* the tick of a period that switches the sensors on
  sendAliveTime,   \* ticks between two alive messages
  numRescanTry,    \* rescans after a failed scan
  PollFailLimit,   \* 5: the literal in NODE_ProcessEvent
  TickPeriod,      \* bound: curStickTime is kept modulo this
  MaxFound,        \* bound: descriptors of our PAN in one scan result
  MaxReqs,         \* bound: requests of one kind the MAC holds
  MaxBufs,         \* bound: data request buffers the heap has room for
  MaxInbox         \* bound: confirms waiting for the task

ASSUME NodeAssumption ==
  /\ preparingDelta \in Nat \ {0}
  /\ sensingTime \in Nat /\ preparingDelta < sensingTime
  /\ sendAliveTime \in Nat \ {0}
  /\ TickPeriod \in Nat \ {0}
  /\ TickPeriod % sensingTime = 0 /\ TickPeriod % sendAliveTime = 0
  /\ numRescanTry \in 0 .. 254
  /\ PollFailLimit \in 0 .. 255
  /\ {MaxFound, MaxReqs, MaxBufs, MaxInbox} \subseteq Nat

VARIABLES
  node,    \* the variables of node.c, and the requests it has made
  inbox,   \* the confirms queued for the task
  flags,   \* its event flags other than SYS_EVENT_MSG
  ticking  \* the tick timer runs

vars == <<node, inbox, flags, ticking>>

Byte == 256

NodeStates == [
  isAssociated : BOOLEAN,
  isGWDetect   : BOOLEAN,
  isPendData   : BOOLEAN,
  curRescanNum : 0 .. Byte - 1,
  numPollFail  : 0 .. Byte - 1,
  curStickTime : 0 .. TickPeriod - 1,
  adcOn        : BOOLEAN,               \* SS_Prepare without SS_Shutdown
  battery      : BOOLEAN,               \* PWRMGR_BATTERY
  rescanTimer  : BOOLEAN,               \* NODE_RESCAN_EVENT is timed
  scans        : 0 .. MaxReqs,          \* requests the MAC has not answered
  assocs       : 0 .. MaxReqs,
  polls        : 0 .. MaxReqs,
  datas        : 0 .. MaxBufs,
  bufs         : 0 .. MaxBufs ]         \* data request buffers allocated

Confirms ==
  [kind : {"scan"}, status : {"NO_BEACON", "INVALID"}, found : {0}]
    \cup [kind : {"scan"}, status : {"OTHER"}, found : 0 .. MaxFound]
    \cup [kind : {"assoc"}, status : {"SUCCESS", "DENIED"}, found : {0}]
    \cup [kind : {"poll"}, status : {"SUCCESS", "NO_ACK", "OTHER"},
          found : {0}]
    \cup [kind : {"data"}, status : {"ANY"}, found : {0}]

Booted ==
  [isAssociated |-> FALSE, isGWDetect |-> FALSE, isPendData |-> FALSE,
   curRescanNum |-> 0, numPollFail |-> 0, curStickTime |-> 0, adcOn |-> FALSE,
   battery |-> FALSE, rescanTimer |-> FALSE, scans |-> 0, assocs |-> 0,
   polls |-> 0, datas |-> 0, bufs |-> 0]

Init ==
  /\ node = Booted
  /\ inbox = <<>>
  /\ flags = {"PREP_INIT"}      \* NODE_Init has timed it to a second
  /\ ticking = FALSE

-----------------------------------------------------------------------------
(* What the handlers do to the node's state.  Each allocates once at most   *)
(* (a data request or a timer): mem says whether the heap has the memory.   *)

\* The MAC holds up to MaxReqs requests of a kind and drops more.
Held(n, k) == IF n + k > MaxReqs THEN MaxReqs ELSE n + k

NWK_ScanReq(s) == [s EXCEPT !.scans = Held(@, 1)]

NODE_PollRequest(s) == [s EXCEPT !.polls = Held(@, 1)]

\* Seeded fault for TypeOK: the NULL check is dropped.
MutSendUnchecked(s, mem) == [s EXCEPT !.bufs = @ + 1, !.datas = @ + 1]

\* Seeded fault for BuffersCovered: the buffer is freed after the request.
MutSendFreed(s, mem) ==
  IF s.bufs < MaxBufs /\ mem THEN [s EXCEPT !.datas = @ + 1] ELSE s

\* NODE_SendDirect returns when no buffer can be allocated.
NODE_SendDirect(s, mem) ==
  IF s.bufs < MaxBufs /\ mem
  THEN [s EXCEPT !.bufs = @ + 1, !.datas = @ + 1]
  ELSE s

ProcessScanFail(s, mem) ==
  LET t == [s EXCEPT !.curRescanNum = (@ + 1) % Byte]
  IN  IF t.curRescanNum <= numRescanTry
        THEN [t EXCEPT !.rescanTimer = @ \/ mem]
        ELSE [t EXCEPT !.battery = TRUE]

\* Every descriptor with our PAN id is a NODE_DeviceStartup, which allows
\* power saving, and an association request.
AssociateWithAll(s, found) ==
  IF found = 0 THEN s
  ELSE [s EXCEPT !.isGWDetect = TRUE, !.battery = TRUE,
                 !.assocs = Held(@, found)]

ProcessScanConfirmEvent(s, c, mem) ==
  IF c.status \in {"NO_BEACON", "INVALID"} THEN ProcessScanFail(s, mem)
  ELSE LET t == AssociateWithAll(s, c.found)
       IN  IF t.isGWDetect THEN t ELSE ProcessScanFail(t, mem)

\* Seeded fault for PendsUnassociated: the result stays pending.
MutSendPending(s, mem) == IF s.isPendData THEN NODE_SendDirect(s, mem) ELSE s

SendPending(s, mem) ==
  IF s.isPendData
  THEN [NODE_SendDirect(s, mem) EXCEPT !.isPendData = FALSE]
  ELSE s

\* Seeded fault for PollFailInReach: the failures are not forgotten.
MutAssociated(s) == [s EXCEPT !.isAssociated = TRUE]

Associated(s) == [s EXCEPT !.isAssociated = TRUE, !.numPollFail = 0]

ProcessAssocConfirmEvent(s, c, mem) ==
  IF ~s.isAssociated /\ c.status = "SUCCESS"
  THEN SendPending(Associated(s), mem)
  ELSE ProcessScanFail(s, mem)

PollConfirm(s, c) ==
  CASE c.status = "SUCCESS" -> [s EXCEPT !.numPollFail = 0]
    [] c.status = "NO_ACK"  ->
         [s EXCEPT !.numPollFail = (@ + 1) % Byte,
                   !.isAssociated = @ /\ s.numPollFail # PollFailLimit]
    [] OTHER -> s

\* The confirm of a data request brings its buffer back.
DataConfirm(s) == [s EXCEPT !.bufs = @ - 1]

Handled(s, c, mem) ==
  CASE c.kind = "scan"  -> ProcessScanConfirmEvent(s, c, mem)
    [] c.kind = "assoc" -> ProcessAssocConfirmEvent(s, c, mem)
    [] c.kind = "poll"  -> PollConfirm(s, c)
    [] c.kind = "data"  -> DataConfirm(s)

\* Seeded fault for AlwaysAssociatesAgain: the scan is not started over.
MutSensingTick(s, mem) ==
  LET t == [s EXCEPT !.adcOn = FALSE]
  IN  IF s.isAssociated THEN NODE_SendDirect(t, mem)
      ELSE [t EXCEPT !.isPendData = TRUE, !.curRescanNum = 0]

\* Every sensingTime ticks: SS_Measure, SS_Shutdown, and the result is sent,
\* or kept for the association that a new scan is to bring.
SensingTick(s, mem) ==
  LET t == [s EXCEPT !.adcOn = FALSE]
  IN  IF s.isAssociated
        THEN NODE_SendDirect(t, mem)
        ELSE NWK_ScanReq([t EXCEPT !.isPendData = TRUE, !.curRescanNum = 0])

\* Seeded fault for MeasuresPrepared: the sensors are switched on one tick
\* after the tick preparingDelta says, which may be the measurement's.
MutPrepareTick(s) ==
  IF (s.curStickTime - preparingDelta - 1) % sensingTime = 0
  THEN [s EXCEPT !.adcOn = TRUE] ELSE s

PrepareTick(s) ==
  IF (s.curStickTime - preparingDelta) % sensingTime = 0
  THEN [s EXCEPT !.adcOn = TRUE] ELSE s

AliveTick(s, mem) ==
  IF s.curStickTime % sendAliveTime = 0 /\ s.isAssociated
  THEN NODE_PollRequest(NODE_SendDirect(s, mem)) ELSE s

IsSensingTick(s) == s.curStickTime % sensingTime = 0

Ticked(s) == [s EXCEPT !.curStickTime = (@ + 1) % TickPeriod]

ProcessStickTimerEvent(s, mem) ==
  LET t == Ticked(s)
  IN  IF IsSensingTick(t) THEN SensingTick(t, mem)
      ELSE AliveTick(PrepareTick(t), mem)

-----------------------------------------------------------------------------
(* NODE_ProcessEvent: all messages first, then one flag, by priority.      *)

HandleMessage ==
  /\ inbox # <<>>
  /\ \E mem \in BOOLEAN : node' = Handled(node, Head(inbox), mem)
  /\ inbox' = Tail(inbox)
  /\ UNCHANGED <<flags, ticking>>

\* The tick timer is reloading, unless there was no memory for it.
ProcessInitPeriEvent ==
  /\ inbox = <<>>
  /\ "PREP_INIT" \in flags
  /\ node' = [NWK_ScanReq(node) EXCEPT !.curStickTime = 0]
  /\ ticking' \in BOOLEAN
  /\ flags' = flags \ {"PREP_INIT"}
  /\ UNCHANGED inbox

HandleRescan ==
  /\ inbox = <<>>
  /\ "PREP_INIT" \notin flags
  /\ "RESCAN" \in flags
  /\ node' = NWK_ScanReq(node)
  /\ flags' = flags \ {"RESCAN"}
  /\ UNCHANGED <<inbox, ticking>>

HandleStickTimer ==
  /\ inbox = <<>>
  /\ flags = {"STICK_TIMER"}
  /\ \E mem \in BOOLEAN : node' = ProcessStickTimerEvent(node, mem)
  /\ flags' = {}
  /\ UNCHANGED <<inbox, ticking>>

-----------------------------------------------------------------------------
(* The timers and the MAC.                                                 *)

\* A flag is one bit: ticks that come while one is pending are one.
StickTimerFires ==
  /\ ticking
  /\ flags' = flags \cup {"STICK_TIMER"}
  /\ UNCHANGED <<node, inbox, ticking>>

RescanTimerFires ==
  /\ node.rescanTimer
  /\ node' = [node EXCEPT !.rescanTimer = FALSE]
  /\ flags' = flags \cup {"RESCAN"}
  /\ UNCHANGED <<inbox, ticking>>

\* MAC_CbackEvent queues the confirm, or has no memory for it.
Delivered(c) == Len(inbox) < MaxInbox /\ inbox' = Append(inbox, c)

MAC_CbackEvent(c) == Delivered(c) \/ UNCHANGED inbox

ScanAnswer(c) ==
  /\ c.kind = "scan"
  /\ node.scans > 0
  /\ node' = [node EXCEPT !.scans = @ - 1]

AssocAnswer(c) ==
  /\ c.kind = "assoc"
  /\ node.assocs > 0
  /\ node' = [node EXCEPT !.assocs = @ - 1]

PollAnswer(c) ==
  /\ c.kind = "poll"
  /\ node.polls > 0
  /\ node' = [node EXCEPT !.polls = @ - 1]

DataAnswer(c) ==
  /\ c.kind = "data"
  /\ node.datas > 0
  /\ node' = [node EXCEPT !.datas = @ - 1]

Answer(c) ==
  /\ ScanAnswer(c) \/ AssocAnswer(c) \/ PollAnswer(c) \/ DataAnswer(c)
  /\ UNCHANGED <<flags, ticking>>

MacAnswers == \E c \in Confirms : Answer(c) /\ MAC_CbackEvent(c)

-----------------------------------------------------------------------------
Task == \/ HandleMessage \/ ProcessInitPeriEvent \/ HandleRescan
        \/ HandleStickTimer

Next == Task \/ StickTimerFires \/ RescanTimerFires \/ MacAnswers

Spec == Init /\ [][Next]_vars

\* The scheduler runs the task and its timers, and the MAC answers.
FairTask ==
  /\ WF_vars(Task)
  /\ WF_vars(StickTimerFires)
  /\ WF_vars(RescanTimerFires)
  /\ WF_vars(MacAnswers)

\* The radio works from time to time: a scan that is tried again and again
\* finds the gateway, and an association so tried is granted.
GatewayFound ==
  \E c \in Confirms : c.found = 1 /\ Answer(c) /\ Delivered(c)

Granted ==
  \E c \in Confirms :
    c.kind = "assoc" /\ c.status = "SUCCESS" /\ Answer(c) /\ Delivered(c)

FairSpec == Spec /\ FairTask /\ SF_vars(GatewayFound) /\ SF_vars(Granted)

-----------------------------------------------------------------------------
(***************************************************************************)
(* Types: the counters keep within their bytes, and the requests and        *)
(* buffers within what the MAC and the heap have room for.                  *)
(***************************************************************************)
TypeOK ==
  /\ node \in NodeStates
  /\ inbox \in Seq(Confirms) /\ Len(inbox) <= MaxInbox
  /\ flags \subseteq {"PREP_INIT", "RESCAN", "STICK_TIMER"}
  /\ ticking \in BOOLEAN

(***************************************************************************)
(* _SS_GetAdc waits for a conversion with no way out, so a measurement with *)
(* the ADC off would hang the node: the arithmetic of the tick handler has  *)
(* switched it on, and nothing has switched it off since.                   *)
(***************************************************************************)
MeasuresPrepared ==
  [][HandleStickTimer /\ IsSensingTick(Ticked(node)) => node.adcOn]_vars

(***************************************************************************)
(* A result waits only while the node is not associated: the association    *)
(* sends it, and while it lasts every result is sent at once.               *)
(***************************************************************************)
PendsUnassociated == node.isPendData => ~node.isAssociated

(***************************************************************************)
(* numPollFail is compared for equality and then incremented, also by late  *)
(* confirms after the association was given up: while the node is           *)
(* associated the counter cannot have stepped over the value compared with. *)
(***************************************************************************)
PollFailInReach ==
  node.isAssociated => node.numPollFail <= PollFailLimit

Confirmed(kind) == {i \in 1 .. Len(inbox) : inbox[i].kind = kind}

(***************************************************************************)
(* Every data request buffer is with the MAC or in a confirm that waits for *)
(* the task; one is freed by its own confirm and never twice.               *)
(***************************************************************************)
BuffersCovered ==
  node.datas + Cardinality(Confirmed("data")) <= node.bufs

(***************************************************************************)
(* A node whose tick timer runs gets associated, again and again, as long   *)
(* as the radio works from time to time: no loss of confirms, stale flag or *)
(* exhausted rescan counter leaves it waiting for ever, because the sensing *)
(* tick starts over.                                                        *)
(***************************************************************************)
AlwaysAssociatesAgain == [](ticking => <>node.isAssociated)

ShowsNoGateway(c) == c.kind = "scan" /\ c.status = "OTHER" /\ c.found = 0

(***************************************************************************)
(* node.c:311 treats a scan that shows no gateway ("not DETECT GateWay") as *)
(* failed.  The flag it tests is never reset, so after a first contact a    *)
(* scan that shows none is neither retried nor given up.                    *)
(***************************************************************************)
ScanWithoutGatewayFails ==
  [][HandleMessage /\ ShowsNoGateway(Head(inbox))
       => \E mem \in BOOLEAN : node' = ProcessScanFail(node, mem)]_vars

=============================================================================
