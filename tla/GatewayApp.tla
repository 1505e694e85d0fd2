----------------------------- MODULE GatewayApp -----------------------------
(***************************************************************************)
(* The gateway's application task                                           *)
(* (src/Projects/mac/Sample/exp5438/gateway/apps/gateway.c): it measures    *)
(* the energy of the channels, starts a PAN on the quietest one, tries      *)
(* again when the start fails, and gives every node that associates the     *)
(* next short address of its table, from the first again after the last.    *)
(*                                                                          *)
(* The MAC library is external: it answers a request with any status, and   *)
(* its callback may fail to allocate the message.  Data indications are     *)
(* printed and freed, which changes nothing here; the gateway itself sends  *)
(* no data (GW_SendDataRequest has no callers).                             *)
(***************************************************************************)
EXTENDS Integers, Sequences

CONSTANTS
  Devices,        \* extended addresses of the nodes
  NumChannels,    \* channels an energy scan measures
  Energies,       \* what it may measure on one
  MaxDeviceNum,   \* GW_MAX_DEVICE_NUM, the length of gw_DevShortAddrList
  MaxGwInbox      \* bound: messages waiting for the task

ASSUME GatewayAssumption ==
  /\ NumChannels \in Nat \ {0} /\ MaxDeviceNum \in Nat \ {0}
  /\ Energies \subseteq Nat /\ MaxGwInbox \in Nat

VARIABLES
  gw,       \* the variables of gateway.c, and the requests it has made
  gwInbox,  \* the messages queued for the task
  gwFlags,  \* its event flags other than SYS_EVENT_MSG
  answers   \* associate responses the MAC keeps for the nodes

gwVars == <<gw, gwInbox, gwFlags, answers>>

\* The table counts up from 1.
gw_DevShortAddrList == [i \in 0 .. MaxDeviceNum - 1 |-> i + 1]

Spectra == [1 .. NumChannels -> Energies]

GwMessages ==
  [kind : {"scan"}, status : {"SUCCESS"}, energy : Spectra]
    \cup [kind : {"scan"}, status : {"NO_BEACON", "INVALID", "OTHER"}]
    \cup [kind : {"start"}, status : {"SUCCESS", "OTHER"}]
    \cup [kind : {"assocInd"}, device : Devices]

Responses == [device : Devices, address : 1 .. MaxDeviceNum, grant : Nat]

\* GW_Init has timed the start to ten seconds.
GwInit ==
  /\ gw = [isStarted |-> FALSE, numOfDevices |-> 0,
           prepTimer |-> FALSE, ticking |-> FALSE, scanning |-> FALSE,
           starting |-> 0, onAir |-> FALSE, grants |-> 0, stuck |-> FALSE]
  /\ gwInbox = <<>>
  /\ gwFlags = {"PREP_INIT"}
  /\ answers = {}

-----------------------------------------------------------------------------
(* What the handlers do to the gateway's state.                             *)

\* Seeded fault for StartsOnQuietest: the energy is not remembered with the
\* channel.
MutQuietest(energy) ==
  LET min[i \in 1 .. NumChannels] ==
        IF i = 1 THEN 1
                 ELSE IF energy[1] > energy[i] THEN i ELSE min[i - 1]
  IN  min[NumChannels]

Quietest(energy) ==
  LET min[i \in 1 .. NumChannels] ==  \* the channel after i turns of the loop
        IF i = 1 THEN 1
                 ELSE IF energy[min[i - 1]] > energy[i] THEN i ELSE min[i - 1]
  IN  min[NumChannels]

\* Seeded fault for TypeOK: the channel is counted from the wrong number.
MutCoordinatorStartup(g, usedChannel) ==
  [g EXCEPT !.starting = usedChannel + 1]

GW_CoordinatorStartup(g, usedChannel) ==
  [g EXCEPT !.starting = usedChannel]

\* A scan that fails is only printed.
ProcessingScanConfirm(g, m) ==
  IF m.status = "SUCCESS" THEN GW_CoordinatorStartup(g, Quietest(m.energy))
                          ELSE [g EXCEPT !.stuck = TRUE]

\* Seeded fault for StartupGoesOn: a failed start is not tried again.
MutStartConfirm(g, m, mem) ==
  IF m.status = "SUCCESS" THEN [g EXCEPT !.isStarted = TRUE] ELSE g

\* A start that fails is tried again in ten seconds, if there is memory for
\* the timer.
StartConfirm(g, m, mem) ==
  CASE m.status = "SUCCESS"        -> [g EXCEPT !.isStarted = TRUE]
    [] m.status # "SUCCESS" /\ mem  -> [g EXCEPT !.prepTimer = TRUE]
    [] m.status # "SUCCESS" /\ ~mem -> [g EXCEPT !.stuck = TRUE]

\* Seeded fault for AddressesComeRound: an off-by-one of the table's end.
MutAssocInd(g) ==
  IF g.numOfDevices >= MaxDeviceNum - 1
    THEN [g EXCEPT !.numOfDevices = 1, !.grants = @ + 1]
    ELSE [g EXCEPT !.numOfDevices = @ + 1, !.grants = @ + 1]

\* The address of the response is the entry before the new gw_NumOfDevices.
ProcessAssocIndEvent(g) ==
  IF g.numOfDevices = MaxDeviceNum
    THEN [g EXCEPT !.numOfDevices = 1, !.grants = @ + 1]
    ELSE [g EXCEPT !.numOfDevices = @ + 1, !.grants = @ + 1]

AssocRsp(g, device) ==
  [device |-> device, address |-> gw_DevShortAddrList[g.numOfDevices - 1],
   grant |-> g.grants]

-----------------------------------------------------------------------------
(* GW_ProcessEvent: all messages first, then one flag, by priority.         *)

GwHandleConfirm ==
  /\ gwInbox # <<>>
  /\ \/ /\ Head(gwInbox).kind = "scan"
        /\ gw' = ProcessingScanConfirm(gw, Head(gwInbox))
     \/ /\ Head(gwInbox).kind = "start"
        /\ \E mem \in BOOLEAN : gw' = StartConfirm(gw, Head(gwInbox), mem)
  /\ gwInbox' = Tail(gwInbox)
  /\ UNCHANGED <<gwFlags, answers>>

GwHandleAssocInd ==
  /\ gwInbox # <<>> /\ Head(gwInbox).kind = "assocInd"
  /\ gw' = ProcessAssocIndEvent(gw)
  /\ answers' = answers \cup {AssocRsp(gw', Head(gwInbox).device)}
  /\ gwInbox' = Tail(gwInbox)
  /\ UNCHANGED gwFlags

\* ProcessInitPeriEvent: the tick timer reloads, unless there was no memory.
GwPrepInit ==
  /\ gwInbox = <<>>
  /\ "PREP_INIT" \in gwFlags
  /\ \E mem \in BOOLEAN :
       gw' = [gw EXCEPT !.scanning = TRUE, !.ticking = @ \/ mem]
  /\ gwFlags' = gwFlags \ {"PREP_INIT"}
  /\ UNCHANGED <<gwInbox, answers>>

\* ProcessStickTimerEvent counts the tick and blinks.
GwHandleStickTimer ==
  /\ gwInbox = <<>>
  /\ gwFlags = {"STICK_TIMER"}
  /\ gwFlags' = {}
  /\ UNCHANGED <<gw, gwInbox, answers>>

-----------------------------------------------------------------------------
(* The timers and the MAC.                                                  *)

GwPrepTimerFires ==
  /\ gw.prepTimer
  /\ gw' = [gw EXCEPT !.prepTimer = FALSE]
  /\ gwFlags' = gwFlags \cup {"PREP_INIT"}
  /\ UNCHANGED <<gwInbox, answers>>

GwStickTimerFires ==
  /\ gw.ticking
  /\ gwFlags' = gwFlags \cup {"STICK_TIMER"}
  /\ UNCHANGED <<gw, gwInbox, answers>>

\* MAC_CbackEvent queues the message or, without memory, drops it.
GwQueue(m) == Len(gwInbox) < MaxGwInbox /\ gwInbox' = Append(gwInbox, m)

GwConfirm(g, m) ==
  \/ GwQueue(m) /\ gw' = g
  \/ UNCHANGED gwInbox /\ gw' = [g EXCEPT !.stuck = TRUE]

GwScanEnds ==
  /\ gw.scanning
  /\ \E m \in {x \in GwMessages : x.kind = "scan"} :
       GwConfirm([gw EXCEPT !.scanning = FALSE], m)
  /\ UNCHANGED <<gwFlags, answers>>

GwStartEnds ==
  /\ gw.starting # 0
  /\ \E m \in {x \in GwMessages : x.kind = "start"} :
       GwConfirm([gw EXCEPT !.starting = 0,
                            !.onAir = @ \/ m.status = "SUCCESS"], m)
  /\ UNCHANGED <<gwFlags, answers>>

\* A node's association request is heard while the PAN is on the air.
GwHears(device) ==
  /\ gw.onAir
  /\ GwQueue([kind |-> "assocInd", device |-> device]) \/ UNCHANGED gwInbox
  /\ UNCHANGED <<gw, gwFlags, answers>>

\* A response is fetched by its node or expires.
GwForgets(r) ==
  /\ answers' = answers \ {r}
  /\ UNCHANGED <<gw, gwInbox, gwFlags>>

GwTask == GwHandleConfirm \/ GwHandleAssocInd \/ GwPrepInit
            \/ GwHandleStickTimer

GwOwn == GwTask \/ GwPrepTimerFires \/ GwStickTimerFires
           \/ GwScanEnds \/ GwStartEnds

-----------------------------------------------------------------------------
(* Properties *)

GwRecords ==
  [isStarted : BOOLEAN, numOfDevices : 0 .. MaxDeviceNum,
   prepTimer : BOOLEAN, ticking : BOOLEAN, scanning : BOOLEAN,
   starting : 0 .. NumChannels,  \* the channel of the request
   onAir : BOOLEAN, grants : Nat, stuck : BOOLEAN]

\* Types: numOfDevices stays within the table.
GwTypeOK ==
  /\ gw \in GwRecords
  /\ gwInbox \in Seq(GwMessages) /\ Len(gwInbox) <= MaxGwInbox
  /\ gwFlags \subseteq {"PREP_INIT", "STICK_TIMER"}
  /\ answers \subseteq Responses

Queued(kind) == {i \in 1 .. Len(gwInbox) : gwInbox[i].kind = kind}

\* The steps of the start-up that are under way.
UnderWay ==
  {s \in {"timer", "flag", "scanning", "scanned", "starting", "started"} :
     CASE s = "timer"    -> gw.prepTimer
       [] s = "flag"     -> "PREP_INIT" \in gwFlags
       [] s = "scanning" -> gw.scanning
       [] s = "scanned"  -> Queued("scan") # {}
       [] s = "starting" -> gw.starting # 0
       [] s = "started"  -> Queued("start") # {}}

\* The start-up is one thread of events through timer, flag, requests and
\* confirms: exactly one of them is under way until the PAN is started, so that
\* it neither dies nor runs twice.  It dies only of a scan that fails, which is
\* not tried again, or of memory that is short for a confirm or a timer.
StartupGoesOn ==
  \/ gw.isStarted /\ ~gw.stuck /\ UnderWay = {}
  \/ ~gw.isStarted /\ gw.stuck /\ UnderWay = {}
  \/ ~gw.isStarted /\ ~gw.stuck /\ \E s \in UnderWay : UnderWay = {s}

\* The PAN is started on the quietest channel, the lowest of them.
StartsOnQuietest ==
  [][GwHandleConfirm /\ Head(gwInbox).kind = "scan" /\ gw'.starting # 0
       => LET energy == Head(gwInbox).energy
          IN \A c \in 1 .. NumChannels \ {gw'.starting} :
               \/ energy[gw'.starting] < energy[c]
               \/ energy[gw'.starting] = energy[c] /\ gw'.starting < c]_gwVars

=============================================================================
