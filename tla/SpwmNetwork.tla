---------------------------- MODULE SpwmNetwork ----------------------------
(***************************************************************************)
(* The gateway and its nodes on the air: GatewayApp with one NodeApp for    *)
(* every node, the nodes' confirms now coming from what the gateway does.   *)
(* A scan finds the PAN once the gateway is on the air, an association is   *)
(* granted when the gateway has answered it; beacons, requests and          *)
(* responses may be lost, and a response may come late, to a node that has  *)
(* asked again.                                                             *)
(*                                                                          *)
(* Some of the devices are nodes in full; of the others only the            *)
(* association counts, which they may ask for and give up at any time.      *)
(* Data requests are left to NodeApp: the nodes have no memory for them     *)
(* when MaxBufs is 0.                                                       *)
(***************************************************************************)
EXTENDS GatewayApp

CONSTANTS
  Nodes,          \* the devices that are nodes in full
  sensingTime, preparingDelta, sendAliveTime, numRescanTry, PollFailLimit,
  TickPeriod, MaxFound, MaxReqs, MaxBufs, MaxInbox,  \* of NodeApp
  MaxAsked        \* bound: association requests of all nodes

ASSUME NetworkAssumption ==
  /\ Nodes \subseteq Devices
  /\ MaxAsked \in Nat /\ MaxInbox \in Nat
  /\ MaxReqs \in Nat \ {0} /\ MaxBufs \in Nat /\ MaxFound \in Nat
  /\ TickPeriod \in Nat \ {0}

VARIABLES
  nodes,      \* node of NodeApp, for every node
  inboxes,    \* its inbox; a confirm of an association has its response
  nodeFlags,
  tickings,
  addresses,  \* the response that a device has its node_DevShortAddr from
  asked,      \* devices whose request has been sent and not been answered
  numAsked

netVars == <<nodes, inboxes, nodeFlags, tickings, addresses, asked, numAsked>>
nodeVars == <<nodes, inboxes, nodeFlags, tickings>>
vars == <<gwVars, netVars>>

N(n) == INSTANCE NodeApp
  WITH node <- nodes[n], flags <- nodeFlags[n], ticking <- tickings[n],
       inbox <- [i \in 1 .. Len(inboxes[n]) |-> inboxes[n][i].confirm]

NoResponse == [device |-> "none"]

Init ==
  /\ GwInit
  /\ nodes = [n \in Nodes |-> N(n)!Booted]
  /\ inboxes = [n \in Nodes |-> <<>>]
  /\ nodeFlags = [n \in Nodes |-> {"PREP_INIT"}]
  /\ tickings = [n \in Nodes |-> FALSE]
  /\ addresses = [n \in Devices |-> NoResponse]
  /\ asked = {} /\ numAsked = 0

-----------------------------------------------------------------------------
(* The nodes' tasks and timers. *)

\* A node takes the address of the first association that is confirmed.
Takes(n, m) ==
  /\ m.confirm.kind = "assoc" /\ m.confirm.status = "SUCCESS"
  /\ ~nodes[n].isAssociated

NodeHandleMessage(n) ==
  /\ inboxes[n] # <<>>
  /\ LET m == Head(inboxes[n])
     IN /\ \E mem \in BOOLEAN :
             nodes' = [nodes EXCEPT ![n] = N(n)!Handled(@, m.confirm, mem)]
        /\ addresses' = IF Takes(n, m)
                          THEN [addresses EXCEPT ![n] = m.response]
                          ELSE addresses
  /\ inboxes' = [inboxes EXCEPT ![n] = Tail(@)]
  /\ UNCHANGED <<nodeFlags, tickings, asked, numAsked>>

FlagTurn(n) ==
  /\ \/ /\ "PREP_INIT" \in nodeFlags[n]
        /\ nodes' = [nodes EXCEPT ![n] = [N(n)!NWK_ScanReq(@)
                                            EXCEPT !.curStickTime = 0]]
        /\ \E mem \in BOOLEAN : tickings' = [tickings EXCEPT ![n] = mem]
        /\ nodeFlags' = [nodeFlags EXCEPT ![n] = @ \ {"PREP_INIT"}]
     \/ /\ "PREP_INIT" \notin nodeFlags[n] /\ "RESCAN" \in nodeFlags[n]
        /\ nodes' = [nodes EXCEPT ![n] = N(n)!NWK_ScanReq(@)]
        /\ nodeFlags' = [nodeFlags EXCEPT ![n] = @ \ {"RESCAN"}]
        /\ UNCHANGED tickings
     \/ /\ nodeFlags[n] = {"STICK_TIMER"}
        /\ \E mem \in BOOLEAN :
             nodes' = [nodes EXCEPT ![n] = N(n)!ProcessStickTimerEvent(@, mem)]
        /\ nodeFlags' = [nodeFlags EXCEPT ![n] = {}]
        /\ UNCHANGED tickings
  /\ UNCHANGED <<inboxes, addresses, asked, numAsked>>

\* Seeded fault for ImplementsNodeApp: a flag does not wait for the messages.
MutNodeFlag(n) == FlagTurn(n)

NodeFlag(n) == inboxes[n] = <<>> /\ FlagTurn(n)

NodeTimerFires(n) ==
  /\ \/ /\ tickings[n]
        /\ nodeFlags' = [nodeFlags EXCEPT ![n] = @ \cup {"STICK_TIMER"}]
        /\ UNCHANGED nodes
     \/ /\ nodes[n].rescanTimer
        /\ nodeFlags' = [nodeFlags EXCEPT ![n] = @ \cup {"RESCAN"}]
        /\ nodes' = [nodes EXCEPT ![n].rescanTimer = FALSE]
  /\ UNCHANGED <<inboxes, tickings, addresses, asked, numAsked>>

-----------------------------------------------------------------------------
(* The MACs and the air between them. *)

Confirm(kind, status, found) ==
  [kind |-> kind, status |-> status, found |-> found]

\* MAC_CbackEvent of the node, which may have no memory.
NodeConfirm(n, c, response) ==
  /\ \/ UNCHANGED inboxes
     \/ /\ Len(inboxes[n]) < MaxInbox
        /\ inboxes' = [inboxes EXCEPT
                         ![n] = Append(@, [confirm |-> c,
                                           response |-> response])]
  /\ UNCHANGED <<nodeFlags, tickings, addresses, numAsked>>

\* The beacon of the gateway is heard or not.
NodeScanEnds(n) ==
  /\ nodes[n].scans > 0
  /\ nodes' = [nodes EXCEPT ![n].scans = @ - 1]
  /\ \E c \in {Confirm("scan", "NO_BEACON", 0)}
               \cup {Confirm("scan", "OTHER", f) :
                       f \in IF gw.onAir THEN 0 .. MaxFound ELSE {0}} :
       NodeConfirm(n, c, NoResponse)
  /\ UNCHANGED asked

NodePollEnds(n) ==
  /\ nodes[n].polls > 0
  /\ nodes' = [nodes EXCEPT ![n].polls = @ - 1]
  /\ \E status \in {"SUCCESS", "NO_ACK", "OTHER"} :
       NodeConfirm(n, Confirm("poll", status, 0), NoResponse)
  /\ UNCHANGED asked

Asks(d) ==
  /\ d \notin asked /\ (d \in Nodes => nodes[d].assocs > 0)
  /\ numAsked < MaxAsked /\ numAsked' = numAsked + 1
  /\ asked' = asked \cup {d}
  /\ UNCHANGED <<nodeVars, addresses>>

\* A device fetches a response, of this request or of an earlier one, or gives
\* up; before the request is sent the MAC of a node may refuse it.
NodeFetches(n, r) ==
  /\ asked' = asked \ {n}
  /\ nodes' = [nodes EXCEPT ![n].assocs = @ - 1]
  /\ NodeConfirm(n, Confirm("assoc", "SUCCESS", 0), r)

NodeGivesUp(n) ==
  /\ nodes[n].assocs > 0
  /\ asked' = asked \ {n}
  /\ nodes' = [nodes EXCEPT ![n].assocs = @ - 1]
  /\ NodeConfirm(n, Confirm("assoc", "DENIED", 0), NoResponse)

OtherFetches(d, r) ==
  /\ asked' = asked \ {d}
  /\ addresses' = [addresses EXCEPT ![d] = r]
  /\ UNCHANGED <<nodeVars, numAsked>>

OtherGivesUp(d) ==
  /\ \/ asked' = asked \ {d} /\ UNCHANGED addresses
     \/ addresses' = [addresses EXCEPT ![d] = NoResponse] /\ UNCHANGED asked
  /\ UNCHANGED <<nodeVars, numAsked>>

Fetches(r) ==
  /\ r.device \in asked
  /\ IF r.device \in Nodes THEN NodeFetches(r.device, r)
                           ELSE OtherFetches(r.device, r)

Own(n) == \/ NodeHandleMessage(n) \/ NodeFlag(n) \/ NodeTimerFires(n)
          \/ NodeScanEnds(n) \/ NodePollEnds(n) \/ NodeGivesUp(n)

Next ==
  \/ GwOwn /\ UNCHANGED netVars
  \/ \E n \in Nodes : Own(n) /\ UNCHANGED gwVars
  \/ \E d \in Devices \ Nodes : OtherGivesUp(d) /\ UNCHANGED gwVars
  \/ \E d \in Devices : Asks(d) /\ (GwHears(d) \/ UNCHANGED gwVars)
  \/ \E r \in answers : GwForgets(r) /\ (Fetches(r) \/ UNCHANGED netVars)

Spec == Init /\ [][Next]_vars

-----------------------------------------------------------------------------
(* Properties *)

\* The gateway's types, and every address in a node comes from the gateway.
TypeOK ==
  /\ GwTypeOK
  /\ \A n \in Devices :
       addresses[n] = NoResponse \/ addresses[n] \in Responses
  /\ asked \subseteq Devices /\ numAsked \in 0 .. MaxAsked

\* What the network does to a node, NodeApp's arbitrary MAC may do: what is
\* checked and proved of NodeApp holds of every node of the network.
ImplementsNodeApp ==
  /\ \A n \in Nodes : N(n)!Init
  /\ [][\A n \in Nodes : [N(n)!Next]_(N(n)!vars)]_vars

Associated ==
  {d \in Devices : IF d \in Nodes THEN nodes[d].isAssociated
                                  ELSE addresses[d] # NoResponse}

\* Two associated devices never live on the same grant, however late, lost or
\* repeated the requests and responses were; they have the same address only
\* when the table has been gone through between their grants.
AddressesComeRound ==
  \A m, n \in Associated :
    m # n =>
      /\ addresses[m].grant # addresses[n].grant
      /\ addresses[m].address = addresses[n].address =>
           \/ addresses[m].grant >= addresses[n].grant + MaxDeviceNum
           \/ addresses[n].grant >= addresses[m].grant + MaxDeviceNum

=============================================================================
