-------------------------- MODULE GatewayAppProofs --------------------------
(***************************************************************************)
(* Lemmas on the gateway, for any numbers of channels, devices and table    *)
(* entries: its types, the channel it chooses, and its start-up, which is   *)
(* one thread of events.  SpwmNetworkProofs makes theorems of the network   *)
(* of them.                                                                 *)
(***************************************************************************)
EXTENDS GatewayApp, WellFoundedInduction, TLAPS

-----------------------------------------------------------------------------
(* Induction over the natural numbers, on sets instead of predicates.       *)

Below == {p \in Nat \X Nat : p[1] < p[2]}

\* A set of natural numbers that is not empty has a least element.
LEMMA LeastNat ==
  ASSUME NEW T, T \subseteq Nat, T # {}
  PROVE  \E x \in T : \A y \in T : x <= y
<1>1. IsWellFoundedOn(Below, Nat)
  BY NatLessThanWellFounded, Zenon DEF OpToRel, Below
<1>2. PICK x \in T : \A y \in T : <<y, x>> \notin Below
  BY <1>1, WFMin
<1>3. \A y \in T : ~(y < x)
  BY <1>2 DEF Below
<1> QED
  BY <1>3

-----------------------------------------------------------------------------
(* The loop over the channels.                                              *)

\* min holds what the loop has found after each of its first k channels.
Loops(min, energy, k) ==
  min = [i \in 1 .. k |->
           IF i = 1 THEN 1
                    ELSE IF energy[min[i - 1]] > energy[i] THEN i
                                                           ELSE min[i - 1]]

\* c is the quietest of the first k channels, and the lowest of the quietest.
IsQuietest(c, energy, k) ==
  /\ c \in 1 .. k
  /\ \A d \in 1 .. k \ {c} : \/ energy[c] < energy[d]
                             \/ energy[c] = energy[d] /\ c < d

\* The loop can be run over any number of channels.
LEMMA LoopRuns ==
  ASSUME NEW energy, NEW k \in Nat \ {0}
  PROVE  \E min : Loops(min, energy, k)
<1> DEFINE T == {j \in Nat \ {0} : ~\E min : Loops(min, energy, j)}
<1> SUFFICES ASSUME T # {}
             PROVE  FALSE
  OBVIOUS
<1>1. PICK j \in T : \A i \in T : j <= i
  BY LeastNat
<1>2. j # 1
  <2> DEFINE one == [i \in 1 .. 1 |-> 1]
  <2>1. Loops(one, energy, 1)
    BY DEF Loops
  <2> QED
    BY <2>1
<1>3. PICK h : Loops(h, energy, j - 1)
  BY <1>1, <1>2
<1> DEFINE turn(i) == IF i = 1 THEN 1
                      ELSE IF energy[h[i - 1]] > energy[i] THEN i ELSE h[i - 1]
           g == [i \in 1 .. j |-> turn(i)]
<1>4. \A i \in 1 .. j - 1 : h[i] = turn(i)
  BY <1>3, Zenon DEF Loops
<1>5. \A i \in 1 .. j - 1 : g[i] = h[i]
  BY <1>4
<1> HIDE DEF g
<1>6. \A i \in 1 .. j : i = 1 \/ g[i - 1] = h[i - 1]
  BY <1>1, <1>5
<1> USE DEF g
<1>7. Loops(g, energy, j)
  BY <1>6 DEF Loops
<1> QED
  BY <1>7

\* After every turn it has the quietest of the channels seen so far.
LEMMA LoopKeeps ==
  ASSUME NEW energy \in Spectra, NEW k \in 1 .. NumChannels, NEW min,
         Loops(min, energy, NumChannels)
  PROVE  IsQuietest(min[k], energy, k)
<1> DEFINE T == {i \in 1 .. NumChannels : ~IsQuietest(min[i], energy, i)}
<1> SUFFICES ASSUME T # {}
             PROVE  FALSE
  OBVIOUS
<1>1. T \subseteq Nat
  OBVIOUS
<1> HIDE DEF T
<1>2. PICK j \in T : \A i \in T : j <= i
  BY <1>1, LeastNat
<1> USE DEF T
<1>3. /\ min[1] = 1
      /\ \A i \in 2 .. NumChannels :
           min[i] = IF energy[min[i - 1]] > energy[i] THEN i ELSE min[i - 1]
  BY GatewayAssumption DEF Loops
<1>4. j # 1
  BY <1>2, <1>3 DEF IsQuietest
<1> DEFINE m == min[j - 1]
<1>5. IsQuietest(m, energy, j - 1)
  <2>1. j - 1 \in 1 .. NumChannels /\ ~(j <= j - 1)
    BY <1>2, <1>4, GatewayAssumption
  <2>2. j - 1 \notin T
    BY <1>2, <2>1
  <2> QED
    BY <2>1, <2>2
<1>6. /\ j \in 2 .. NumChannels /\ m \in 1 .. j - 1
      /\ min[j] = IF energy[m] > energy[j] THEN j ELSE m
  BY <1>2, <1>3, <1>4, <1>5 DEF IsQuietest
<1>7. \A d \in 1 .. j - 1 :
        \/ d = m
        \/ energy[m] < energy[d]
        \/ energy[m] = energy[d] /\ m < d
  BY <1>5 DEF IsQuietest
<1>8. ~IsQuietest(min[j], energy, j)
  OBVIOUS
<1> HIDE DEF m, T
<1>9. min[j] \in 1 .. j
  BY <1>6
<1>10. ASSUME NEW d \in 1 .. j, d # min[j]
       PROVE  \/ energy[min[j]] < energy[d]
              \/ energy[min[j]] = energy[d] /\ min[j] < d
  <2>1. energy[d] \in Nat /\ energy[j] \in Nat /\ energy[m] \in Nat
    <3>1. {d, j, m} \subseteq 1 .. NumChannels
      BY <1>6, GatewayAssumption
    <3> QED
      BY <3>1, GatewayAssumption DEF Spectra
  <2>2. CASE d = j
    BY <1>6, <1>10, <2>1, <2>2
  <2>3. CASE d # j
    <3>1. d \in 1 .. j - 1
      BY <1>6, <2>3
    <3> QED
      BY <1>6, <1>7, <1>10, <2>1, <3>1
  <2> QED
    BY <2>2, <2>3
<1> QED
  BY <1>8, <1>9, <1>10 DEF IsQuietest

\* The loop's result is the quietest of all channels.
LEMMA QuietestIs ==
  ASSUME NEW energy \in Spectra
  PROVE  IsQuietest(Quietest(energy), energy, NumChannels)
<1> DEFINE min == CHOOSE f : Loops(f, energy, NumChannels)
<1>1. Loops(min, energy, NumChannels)
  BY GatewayAssumption, LoopRuns
<1>2. Quietest(energy) = min[NumChannels]
  BY DEF Quietest, Loops
<1>3. NumChannels \in 1 .. NumChannels
  BY GatewayAssumption
<1> QED
  BY <1>1, <1>2, <1>3, LoopKeeps

-----------------------------------------------------------------------------
(* Types.                                                                   *)

SameGrants == gw'.numOfDevices = gw.numOfDevices /\ gw'.grants = gw.grants

\* The gateway starts with its variables cleared.
LEMMA GwInitTyped == GwInit => GwTypeOK
<1> SUFFICES ASSUME GwInit
             PROVE  GwTypeOK
  OBVIOUS
<1>1. 0 \in 0 .. MaxDeviceNum /\ 0 \in 0 .. NumChannels /\ 0 \in Nat
  BY GatewayAssumption
<1>2. gw \in GwRecords
  BY <1>1 DEF GwInit, GwRecords
<1>3. /\ gwInbox = <<>> /\ gwFlags = {"PREP_INIT"} /\ answers = {}
      /\ MaxGwInbox >= 0
  BY GatewayAssumption DEF GwInit
<1> QED
  BY <1>2, <1>3 DEF GwTypeOK

\* The next address is one of the table: the first again after the last.
LEMMA NextAddress ==
  ASSUME GwTypeOK
  PROVE  LET g == ProcessAssocIndEvent(gw)
         IN  /\ g \in GwRecords
             /\ g.grants = gw.grants + 1
             /\ g.numOfDevices \in 1 .. MaxDeviceNum
             /\ g.numOfDevices =
                  IF gw.numOfDevices = MaxDeviceNum THEN 1
                                                    ELSE gw.numOfDevices + 1
<1> DEFINE k == IF gw.numOfDevices = MaxDeviceNum THEN 1
                                                  ELSE gw.numOfDevices + 1
           c == gw.grants + 1
           g == [gw EXCEPT !.numOfDevices = k, !.grants = c]
<1>1. gw.numOfDevices \in 0 .. MaxDeviceNum /\ gw.grants \in Nat
  BY DEF GwTypeOK, GwRecords
<1>2. k \in 1 .. MaxDeviceNum /\ k \in 0 .. MaxDeviceNum /\ c \in Nat
  BY <1>1, GatewayAssumption
<1>3. ProcessAssocIndEvent(gw) = g
  BY DEF ProcessAssocIndEvent
<1> HIDE DEF k, c
<1>4. g \in GwRecords
  BY <1>2 DEF GwTypeOK, GwRecords
<1>5. g.numOfDevices = k /\ g.grants = c
  BY DEF GwTypeOK, GwRecords
<1> HIDE DEF g
<1> QED
  BY <1>2, <1>3, <1>4, <1>5 DEF k, c

\* An association makes the one response for its device.
LEMMA AssocTyped ==
  ASSUME GwTypeOK, GwHandleAssocInd
  PROVE  /\ GwTypeOK'
         /\ \E new \in Responses :
              /\ new.grant = gw'.grants /\ new.address = gw'.numOfDevices
              /\ answers' = answers \cup {new}
<1>1. /\ gw' = ProcessAssocIndEvent(gw)
      /\ gw' \in GwRecords
      /\ gw'.numOfDevices \in 1 .. MaxDeviceNum
  BY NextAddress DEF GwHandleAssocInd
<1>2. /\ gwInbox \in Seq(GwMessages) /\ gwInbox # <<>>
      /\ Head(gwInbox).kind = "assocInd"
      /\ answers' = answers \cup {AssocRsp(gw', Head(gwInbox).device)}
      /\ gwInbox' = Tail(gwInbox) /\ gwFlags' = gwFlags
  BY DEF GwTypeOK, GwHandleAssocInd
<1>3. /\ Head(gwInbox) \in GwMessages /\ gwInbox' \in Seq(GwMessages)
      /\ Len(gwInbox') <= Len(gwInbox)
  BY <1>2
<1>4. Head(gwInbox).device \in Devices
  BY <1>2, <1>3 DEF GwMessages
<1> DEFINE new == AssocRsp(gw', Head(gwInbox).device)
<1>5. gw'.numOfDevices - 1 \in 0 .. MaxDeviceNum - 1
  BY <1>1, GatewayAssumption
<1>6. gw_DevShortAddrList[gw'.numOfDevices - 1] = gw'.numOfDevices
  BY <1>1, <1>5 DEF gw_DevShortAddrList
<1>7. gw'.grants \in Nat
  BY <1>1 DEF GwRecords
<1>8. /\ new \in Responses
      /\ new.grant = gw'.grants /\ new.address = gw'.numOfDevices
  BY <1>1, <1>4, <1>6, <1>7 DEF AssocRsp, Responses
<1>9. Len(gwInbox') <= MaxGwInbox
  BY <1>2, <1>3, GatewayAssumption DEF GwTypeOK
<1> QED
  BY <1>1, <1>2, <1>3, <1>8, <1>9 DEF GwTypeOK

\* A message that is queued fits.
LEMMA GwQueued ==
  ASSUME GwTypeOK, NEW m \in GwMessages, GwQueue(m)
  PROVE  gwInbox' \in Seq(GwMessages) /\ Len(gwInbox') <= MaxGwInbox
<1>1. Len(gwInbox') = Len(gwInbox) + 1 /\ Len(gwInbox) < MaxGwInbox
  BY DEF GwTypeOK, GwQueue
<1>2. Len(gwInbox') <= MaxGwInbox
  BY <1>1, GatewayAssumption DEF GwTypeOK
<1> QED
  BY <1>2 DEF GwTypeOK, GwQueue

\* A message that is handled leaves the queue.
LEMMA GwTaken ==
  ASSUME GwTypeOK, gwInbox # <<>>, gwInbox' = Tail(gwInbox)
  PROVE  /\ Head(gwInbox) \in GwMessages
         /\ gwInbox' \in Seq(GwMessages) /\ Len(gwInbox') <= MaxGwInbox
<1>1. Len(gwInbox') = Len(gwInbox) - 1 /\ Len(gwInbox) \in Nat
  BY DEF GwTypeOK
<1>2. Len(gwInbox') <= MaxGwInbox
  BY <1>1, GatewayAssumption DEF GwTypeOK
<1> QED
  BY <1>2 DEF GwTypeOK

\* A confirm that is queued or lost touches no grant.
LEMMA GwConfirmed ==
  ASSUME GwTypeOK, NEW m \in GwMessages, NEW g \in GwRecords, GwConfirm(g, m)
  PROVE  /\ gwInbox' \in Seq(GwMessages) /\ Len(gwInbox') <= MaxGwInbox
         /\ gw' \in GwRecords
         /\ gw'.numOfDevices = g.numOfDevices /\ gw'.grants = g.grants
<1> DEFINE h == [g EXCEPT !.stuck = TRUE]
<1>1. h \in GwRecords
  BY DEF GwRecords
<1>2. h.numOfDevices = g.numOfDevices /\ h.grants = g.grants
  BY DEF GwRecords
<1>3. /\ gw' \in {g, h} /\ gwInbox' \in Seq(GwMessages)
      /\ Len(gwInbox') <= MaxGwInbox
  BY GwQueued DEF GwConfirm, GwTypeOK
<1> HIDE DEF h
<1> QED
  BY <1>1, <1>2, <1>3

\* Nor does the confirm that is handled.
LEMMA GwConfirmHandled ==
  ASSUME GwTypeOK, GwHandleConfirm
  PROVE  GwTypeOK' /\ SameGrants /\ answers' = answers
<1> DEFINE q == Quietest(Head(gwInbox).energy)
           a == [gw EXCEPT !.starting = q]
           b == [gw EXCEPT !.stuck = TRUE]
           c == [gw EXCEPT !.isStarted = TRUE]
           d == [gw EXCEPT !.prepTimer = TRUE]
<1>1. /\ Head(gwInbox) \in GwMessages
      /\ gwInbox' \in Seq(GwMessages) /\ Len(gwInbox') <= MaxGwInbox
  BY GwTaken DEF GwHandleConfirm
<1>2. /\ gw' \in {a, b, c, d}
      /\ gw' = a => \/ q \in 0 .. NumChannels
                    \/ gw' \in {b, c, d}
  <2>1. CASE /\ Head(gwInbox).kind = "scan"
             /\ gw' = ProcessingScanConfirm(gw, Head(gwInbox))
    <3>1. CASE Head(gwInbox).status = "SUCCESS"
      <4>1. Head(gwInbox).energy \in Spectra
        BY <1>1, <2>1, <3>1 DEF GwMessages
      <4>2. q \in 0 .. NumChannels
        BY <4>1, QuietestIs, GatewayAssumption DEF IsQuietest
      <4> HIDE DEF q
      <4>3. gw' = a
        BY <2>1, <3>1 DEF ProcessingScanConfirm, GW_CoordinatorStartup, q
      <4> QED
        BY <4>2, <4>3
    <3>2. CASE Head(gwInbox).status # "SUCCESS"
      BY <2>1, <3>2 DEF ProcessingScanConfirm
    <3> QED
      BY <3>1, <3>2
  <2>2. CASE \E mem \in BOOLEAN : gw' = StartConfirm(gw, Head(gwInbox), mem)
    BY <2>2 DEF StartConfirm
  <2> QED
    BY <2>1, <2>2 DEF GwHandleConfirm
<1> HIDE DEF q
<1>3. /\ q \in 0 .. NumChannels => a \in GwRecords
      /\ b \in GwRecords /\ c \in GwRecords /\ d \in GwRecords
  BY DEF GwTypeOK, GwRecords
<1>4. \A g \in {a, b, c, d} :
        g.numOfDevices = gw.numOfDevices /\ g.grants = gw.grants
  BY DEF GwTypeOK, GwRecords
<1>5. answers' = answers /\ gwFlags' = gwFlags
  BY DEF GwHandleConfirm
<1> HIDE DEF a, b, c, d
<1> QED
  BY <1>1, <1>2, <1>3, <1>4, <1>5 DEF GwTypeOK, SameGrants

\* Only an association indication makes a grant.
LEMMA GwKeeps ==
  ASSUME GwTypeOK, GwOwn, ~GwHandleAssocInd
  PROVE  GwTypeOK' /\ SameGrants /\ answers' = answers
<1>1. CASE GwHandleConfirm
  BY <1>1, GwConfirmHandled
<1>2. CASE GwPrepInit
  <2>1. PICK mem \in BOOLEAN :
          gw' = [gw EXCEPT !.scanning = TRUE, !.ticking = @ \/ mem]
    BY <1>2 DEF GwPrepInit
  <2>2. (gw.ticking \/ mem) \in BOOLEAN
    OBVIOUS
  <2>3. gw' \in GwRecords
    BY <2>1, <2>2 DEF GwTypeOK, GwRecords
  <2>4. SameGrants
    BY <2>1 DEF GwTypeOK, GwRecords, SameGrants
  <2> QED
    BY <1>2, <2>3, <2>4 DEF GwPrepInit, GwTypeOK
<1>3. CASE GwHandleStickTimer \/ GwStickTimerFires
  BY <1>3 DEF GwHandleStickTimer, GwStickTimerFires, GwTypeOK, SameGrants
<1>4. CASE GwPrepTimerFires
  <2>1. gw' \in GwRecords
    BY <1>4 DEF GwPrepTimerFires, GwTypeOK, GwRecords
  <2>2. SameGrants
    BY <1>4 DEF GwPrepTimerFires, GwTypeOK, GwRecords, SameGrants
  <2> QED
    BY <1>4, <2>1, <2>2 DEF GwPrepTimerFires, GwTypeOK
<1>5. CASE GwScanEnds
  <2> DEFINE g == [gw EXCEPT !.scanning = FALSE]
  <2>1. PICK m \in GwMessages : GwConfirm(g, m)
    BY <1>5 DEF GwScanEnds
  <2>2. g \in GwRecords
    BY DEF GwTypeOK, GwRecords
  <2>3. g.numOfDevices = gw.numOfDevices /\ g.grants = gw.grants
    BY DEF GwTypeOK, GwRecords
  <2> HIDE DEF g
  <2>4. answers' = answers /\ gwFlags' = gwFlags
    BY <1>5 DEF GwScanEnds
  <2> QED
    BY <2>1, <2>2, <2>3, <2>4, GwConfirmed DEF SameGrants, GwTypeOK
<1>6. CASE GwStartEnds
  <2>1. PICK m \in GwMessages :
          GwConfirm([gw EXCEPT !.starting = 0,
                               !.onAir = @ \/ m.status = "SUCCESS"], m)
    BY <1>6 DEF GwStartEnds
  <2> DEFINE o == gw.onAir \/ m.status = "SUCCESS"
             f == [gw EXCEPT !.starting = 0]
             g == [f EXCEPT !.onAir = o]
  <2>2. o \in BOOLEAN
    OBVIOUS
  <2> HIDE DEF o
  <2>3. f \in GwRecords
    BY GatewayAssumption DEF GwTypeOK, GwRecords
  <2>4. f.numOfDevices = gw.numOfDevices /\ f.grants = gw.grants
    BY DEF GwTypeOK, GwRecords
  <2> HIDE DEF f
  <2>5. g \in GwRecords
    BY <2>2, <2>3 DEF GwRecords
  <2>6. g.numOfDevices = f.numOfDevices /\ g.grants = f.grants
    BY <2>3 DEF GwRecords
  <2>7. GwConfirm(g, m)
    BY <2>1 DEF f, o
  <2> HIDE DEF g
  <2>8. answers' = answers /\ gwFlags' = gwFlags
    BY <1>6 DEF GwStartEnds
  <2> QED
    BY <2>4, <2>5, <2>6, <2>7, <2>8, GwConfirmed DEF SameGrants, GwTypeOK
<1> QED
  BY <1>1, <1>2, <1>3, <1>4, <1>5, <1>6 DEF GwOwn, GwTask

\* A request that is heard is queued or lost.
LEMMA GwHearsKeeps ==
  ASSUME GwTypeOK, NEW d \in Devices, GwHears(d)
  PROVE  GwTypeOK' /\ SameGrants /\ answers' = answers
<1> DEFINE m == [kind |-> "assocInd", device |-> d]
<1>1. m \in GwMessages
  BY DEF GwMessages
<1>2. GwQueue(m) \/ gwInbox' = gwInbox
  BY DEF GwHears
<1> HIDE DEF m
<1>3. gwInbox' \in Seq(GwMessages) /\ Len(gwInbox') <= MaxGwInbox
  BY <1>1, <1>2, GwQueued DEF GwTypeOK
<1> QED
  BY <1>3 DEF GwHears, GwTypeOK, SameGrants

\* Every step of the gateway keeps the types.
GwStep ==
  \/ GwOwn
  \/ \E d \in Devices : GwHears(d)
  \/ \E r \in answers : GwForgets(r)
  \/ UNCHANGED gwVars

LEMMA GwStepTyped == GwTypeOK /\ GwStep => GwTypeOK'
<1> SUFFICES ASSUME GwTypeOK, GwStep
             PROVE  GwTypeOK'
  OBVIOUS
<1>1. CASE GwOwn
  BY <1>1, AssocTyped, GwKeeps
<1>2. CASE \E d \in Devices : GwHears(d)
  BY <1>2, GwHearsKeeps
<1>3. CASE (\E r \in answers : GwForgets(r)) \/ UNCHANGED gwVars
  BY <1>3 DEF GwForgets, gwVars, GwTypeOK
<1> QED
  BY <1>1, <1>2, <1>3 DEF GwStep

-----------------------------------------------------------------------------
(* The start-up.                                                            *)

Steps == {"timer", "flag", "scanning", "scanned", "starting", "started"}

\* The gateway has at most one confirm of a kind before it.
Sole(kind) == \A i, j \in Queued(kind) : i = j

\* The inductive invariant: of the confirms, too, there is only one.
GwInv == GwTypeOK /\ StartupGoesOn /\ Sole("scan") /\ Sole("start")

\* What each step of the start-up means, before an action and after it.
LEMMA StepsMean ==
  /\ UnderWay \subseteq Steps /\ UnderWay' \subseteq Steps
  /\ "timer" \in UnderWay <=> gw.prepTimer
  /\ "flag" \in UnderWay <=> "PREP_INIT" \in gwFlags
  /\ "scanning" \in UnderWay <=> gw.scanning
  /\ "scanned" \in UnderWay <=> Queued("scan") # {}
  /\ "starting" \in UnderWay <=> gw.starting # 0
  /\ "started" \in UnderWay <=> Queued("start") # {}
  /\ "timer" \in UnderWay' <=> gw'.prepTimer
  /\ "flag" \in UnderWay' <=> "PREP_INIT" \in gwFlags'
  /\ "scanning" \in UnderWay' <=> gw'.scanning
  /\ "scanned" \in UnderWay' <=> Queued("scan")' # {}
  /\ "starting" \in UnderWay' <=> gw'.starting # 0
  /\ "started" \in UnderWay' <=> Queued("start")' # {}
BY DEF UnderWay, Steps

\* What an action leaves alone stays under way.
Same(step) == step \in UnderWay' <=> step \in UnderWay

\* The start-up passes from one step to another ...
LEMMA PassesOn ==
  ASSUME StartupGoesOn, NEW a \in Steps, NEW b \in Steps, a \in UnderWay,
         a # b => a \notin UnderWay', b \in UnderWay',
         \A s \in Steps \ {a, b} : Same(s),
         gw'.isStarted = gw.isStarted, gw'.stuck = gw.stuck
  PROVE  StartupGoesOn'
<1>1. UnderWay \subseteq Steps /\ UnderWay' \subseteq Steps
  BY StepsMean
<1>2. UnderWay = {a} /\ ~gw.isStarted /\ ~gw.stuck
  BY DEF StartupGoesOn
<1>3. UnderWay' = {b}
  BY <1>1, <1>2 DEF Same
<1>4. ~gw'.isStarted /\ ~gw'.stuck
  BY <1>2
<1> QED
  BY <1>3, <1>4 DEF StartupGoesOn

\* ... or ends, with the PAN started or stuck ...
LEMMA Ends ==
  ASSUME StartupGoesOn, NEW a \in Steps, a \in UnderWay, a \notin UnderWay',
         \A s \in Steps \ {a} : Same(s),
         \/ gw'.isStarted /\ gw'.stuck = gw.stuck
         \/ gw'.stuck /\ gw'.isStarted = gw.isStarted
  PROVE  StartupGoesOn'
<1>1. UnderWay \subseteq Steps /\ UnderWay' \subseteq Steps
  BY StepsMean
<1>2. UnderWay = {a} /\ ~gw.isStarted /\ ~gw.stuck
  BY DEF StartupGoesOn
<1>3. UnderWay' = {}
  BY <1>1, <1>2 DEF Same
<1>4. \/ gw'.isStarted /\ ~gw'.stuck
      \/ gw'.stuck /\ ~gw'.isStarted
  BY <1>2
<1> QED
  BY <1>3, <1>4 DEF StartupGoesOn

\* ... or stays where it is.
LEMMA Stays ==
  ASSUME StartupGoesOn, \A s \in Steps : Same(s),
         gw'.isStarted = gw.isStarted, gw'.stuck = gw.stuck
  PROVE  StartupGoesOn'
<1>1. UnderWay' = UnderWay
  BY StepsMean DEF Same
<1> QED
  BY <1>1 DEF StartupGoesOn

\* Of what is queued only the confirm of the step under way is one of the
\* start-up.
LEMMA NoOther ==
  ASSUME StartupGoesOn, NEW a \in UnderWay
  PROVE  /\ UnderWay = {a}
         /\ a # "scanned" => Queued("scan") = {}
         /\ a # "started" => Queued("start") = {}
<1>1. UnderWay = {a}
  BY DEF StartupGoesOn
<1> QED
  BY <1>1, StepsMean

\* A message that is queued comes last ...
LEMMA QueuedAppend ==
  ASSUME GwTypeOK, NEW m \in GwMessages, gwInbox' = Append(gwInbox, m),
         NEW kind
  PROVE  Queued(kind)' = IF m.kind = kind THEN Queued(kind) \cup {Len(gwInbox) + 1}
                                          ELSE Queued(kind)
<1>1. /\ Len(gwInbox) \in Nat /\ Len(gwInbox') = Len(gwInbox) + 1
      /\ \A i \in 1 .. Len(gwInbox) : gwInbox'[i] = gwInbox[i]
      /\ gwInbox'[Len(gwInbox) + 1] = m
  BY DEF GwTypeOK
<1> QED
  BY <1>1 DEF Queued

\* ... and the first one is taken from the queue.
LEMMA QueuedTail ==
  ASSUME GwTypeOK, gwInbox # <<>>, gwInbox' = Tail(gwInbox), NEW kind
  PROVE  /\ \A i \in Queued(kind)' : i + 1 \in Queued(kind) /\ i \in Nat \ {0}
         /\ \A i \in Queued(kind) :
              i # 1 => i - 1 \in Queued(kind)' /\ i \in Nat
         /\ 1 \in Queued(kind) <=> Head(gwInbox).kind = kind
<1>1. /\ Len(gwInbox) \in Nat \ {0} /\ Len(gwInbox') = Len(gwInbox) - 1
      /\ \A i \in 1 .. Len(gwInbox') : gwInbox'[i] = gwInbox[i + 1]
      /\ Head(gwInbox) = gwInbox[1]
  BY DEF GwTypeOK
<1> QED
  BY <1>1 DEF Queued

LEMMA SoleTail ==
  ASSUME GwTypeOK, gwInbox # <<>>, gwInbox' = Tail(gwInbox), NEW kind,
         Sole(kind)
  PROVE  /\ Sole(kind)'
         /\ Queued(kind)' # {} <=>
              Queued(kind) # {} /\ Head(gwInbox).kind # kind
<1> DEFINE q == Queued(kind)
           r == Queued(kind)'
<1>1. /\ \A i \in r : i + 1 \in q /\ i \in Nat \ {0}
      /\ \A i \in q : i # 1 => i - 1 \in r /\ i \in Nat
      /\ 1 \in q <=> Head(gwInbox).kind = kind
  BY QueuedTail
<1>2. \A i, j \in q : i = j
  BY DEF Sole
<1> HIDE DEF q, r
<1>3. \A i, j \in r : i = j
  BY <1>1, <1>2
<1>4. r # {} <=> q # {} /\ Head(gwInbox).kind # kind
  BY <1>1, <1>2
<1> QED
  BY <1>3, <1>4 DEF Sole, q, r

\* A confirm that is handled is followed by the request of the start, by a new
\* try or by nothing.
LEMMA ConfirmGoesOn ==
  ASSUME GwInv, GwHandleConfirm
  PROVE  StartupGoesOn' /\ Sole("scan")' /\ Sole("start")'
<1> DEFINE m == Head(gwInbox)
<1>1. /\ GwTypeOK /\ StartupGoesOn /\ Sole("scan") /\ Sole("start")
      /\ gwInbox # <<>> /\ gwInbox' = Tail(gwInbox) /\ gwFlags' = gwFlags
      /\ gw \in GwRecords
  BY DEF GwInv, GwHandleConfirm, GwTypeOK
<1>2. /\ m \in GwMessages
      /\ Sole("scan")' /\ Sole("start")'
      /\ Queued("scan")' # {} <=> Queued("scan") # {} /\ m.kind # "scan"
      /\ Queued("start")' # {} <=> Queued("start") # {} /\ m.kind # "start"
  BY <1>1, GwTaken, SoleTail
<1> HIDE DEF m
<1>3. CASE m.kind = "scan" /\ gw' = ProcessingScanConfirm(gw, m)
  <2>1. "scanned" \in UnderWay
    <3>1. 1 \in Queued("scan")
      BY <1>1, <1>3, QueuedTail DEF m
    <3> QED
      BY <3>1, StepsMean
  <2>2. /\ "scanned" \notin UnderWay' /\ Same("started") /\ Same("flag")
    BY <1>1, <1>2, <1>3, StepsMean DEF Same
  <2>3. CASE m.status = "SUCCESS"
    <3> DEFINE q == Quietest(m.energy)
    <3>1. m.energy \in Spectra
      BY <1>2, <1>3, <2>3 DEF GwMessages
    <3>2. q # 0
      BY <3>1, QuietestIs DEF IsQuietest
    <3>3. gw' = [gw EXCEPT !.starting = q]
      BY <1>3, <2>3 DEF ProcessingScanConfirm, GW_CoordinatorStartup
    <3> HIDE DEF q
    <3>4. /\ gw'.starting # 0
          /\ gw'.prepTimer = gw.prepTimer /\ gw'.scanning = gw.scanning
          /\ gw'.isStarted = gw.isStarted /\ gw'.stuck = gw.stuck
      BY <1>1, <3>2, <3>3 DEF GwRecords
    <3>5. /\ "starting" \in UnderWay' /\ Same("timer") /\ Same("scanning")
      BY <3>4, StepsMean DEF Same
    <3> QED
      BY <1>1, <1>2, <2>1, <2>2, <3>4, <3>5, PassesOn DEF Steps
  <2>4. CASE m.status # "SUCCESS"
    <3>1. gw' = [gw EXCEPT !.stuck = TRUE]
      BY <1>3, <2>4 DEF ProcessingScanConfirm
    <3>2. /\ gw'.starting = gw.starting /\ gw'.isStarted = gw.isStarted
          /\ gw'.prepTimer = gw.prepTimer /\ gw'.scanning = gw.scanning
          /\ gw'.stuck
      BY <1>1, <3>1 DEF GwRecords
    <3>3. Same("starting") /\ Same("timer") /\ Same("scanning")
      BY <3>2, StepsMean DEF Same
    <3> QED
      BY <1>1, <1>2, <2>1, <2>2, <3>2, <3>3, Ends DEF Steps
  <2> QED
    BY <2>3, <2>4
<1>4. CASE m.kind = "start"
             /\ \E mem \in BOOLEAN : gw' = StartConfirm(gw, m, mem)
  <2>1. "started" \in UnderWay
    <3>1. 1 \in Queued("start")
      BY <1>1, <1>4, QueuedTail DEF m
    <3> QED
      BY <3>1, StepsMean
  <2>2. "started" \notin UnderWay' /\ Same("scanned") /\ Same("flag")
    BY <1>1, <1>2, <1>4, StepsMean DEF Same
  <2>3. gw' \in {[gw EXCEPT !.isStarted = TRUE], [gw EXCEPT !.prepTimer = TRUE],
                 [gw EXCEPT !.stuck = TRUE]}
    BY <1>4 DEF StartConfirm
  <2>4. /\ gw'.starting = gw.starting /\ gw'.scanning = gw.scanning
        /\ \/ gw'.isStarted /\ gw'.stuck = gw.stuck
                            /\ gw'.prepTimer = gw.prepTimer
           \/ gw'.stuck /\ gw'.isStarted = gw.isStarted
                        /\ gw'.prepTimer = gw.prepTimer
           \/ gw'.prepTimer /\ gw'.isStarted = gw.isStarted
                            /\ gw'.stuck = gw.stuck
    BY <1>1, <2>3 DEF GwRecords
  <2>5. Same("starting") /\ Same("scanning")
    BY <2>4, StepsMean DEF Same
  <2>6. CASE gw'.prepTimer /\ gw'.isStarted = gw.isStarted
                           /\ gw'.stuck = gw.stuck
    <3>1. "timer" \in UnderWay'
      BY <2>6, StepsMean
    <3> QED
      BY <1>1, <1>2, <2>1, <2>2, <2>5, <2>6, <3>1, PassesOn DEF Steps
  <2>7. CASE gw'.prepTimer = gw.prepTimer
    <3>1. Same("timer")
      BY <2>7, StepsMean DEF Same
    <3>2. ~gw.isStarted /\ ~gw.stuck
      BY <1>1, <2>1 DEF StartupGoesOn
    <3>3. CASE gw'.prepTimer /\ gw'.isStarted = gw.isStarted
                             /\ gw'.stuck = gw.stuck
      BY <2>6, <3>3
    <3>4. CASE \/ gw'.isStarted /\ gw'.stuck = gw.stuck
               \/ gw'.stuck /\ gw'.isStarted = gw.isStarted
      BY <1>1, <1>2, <2>1, <2>2, <2>5, <3>1, <3>4, Ends DEF Steps
    <3> QED
      BY <2>4, <3>3, <3>4
  <2> QED
    BY <2>4, <2>6, <2>7
<1> QED
  BY <1>3, <1>4 DEF GwHandleConfirm, m

\* The scan and the start are confirmed once, or the confirm is lost.
LEMMA RequestGoesOn ==
  ASSUME GwInv, GwScanEnds \/ GwStartEnds
  PROVE  StartupGoesOn' /\ Sole("scan")' /\ Sole("start")'
<1>1. /\ GwTypeOK /\ StartupGoesOn /\ Sole("scan") /\ Sole("start")
      /\ gwFlags' = gwFlags /\ gw \in GwRecords
  BY DEF GwInv, GwScanEnds, GwStartEnds, GwTypeOK
<1>2. PICK m \in GwMessages, g \in GwRecords, a, b \in Steps :
        /\ GwConfirm(g, m)
        /\ a \in UnderWay
        /\ \/ a = "scanning" /\ b = "scanned" /\ m.kind = "scan"
              /\ ~g.scanning /\ g.starting = gw.starting
           \/ a = "starting" /\ b = "started" /\ m.kind = "start"
              /\ g.starting = 0 /\ g.scanning = gw.scanning
        /\ g.prepTimer = gw.prepTimer /\ g.stuck = gw.stuck
        /\ g.isStarted = gw.isStarted
  <2>1. CASE GwScanEnds
    <3> DEFINE g == [gw EXCEPT !.scanning = FALSE]
    <3>1. PICK m \in GwMessages : m.kind = "scan" /\ GwConfirm(g, m)
      BY <2>1 DEF GwScanEnds
    <3>2. /\ g \in GwRecords /\ ~g.scanning
          /\ g.starting = gw.starting /\ g.prepTimer = gw.prepTimer
          /\ g.stuck = gw.stuck /\ g.isStarted = gw.isStarted
      BY <1>1 DEF GwRecords
    <3>3. "scanning" \in UnderWay
      BY <2>1, StepsMean DEF GwScanEnds
    <3> HIDE DEF g
    <3> QED
      BY <3>1, <3>2, <3>3 DEF Steps
  <2>2. CASE GwStartEnds
    <3>1. PICK m \in GwMessages :
            /\ m.kind = "start"
            /\ GwConfirm([gw EXCEPT !.starting = 0,
                                    !.onAir = @ \/ m.status = "SUCCESS"], m)
      BY <2>2 DEF GwStartEnds
    <3> DEFINE o == gw.onAir \/ m.status = "SUCCESS"
               f == [gw EXCEPT !.starting = 0]
               g == [f EXCEPT !.onAir = o]
    <3>2. o \in BOOLEAN
      OBVIOUS
    <3>3. GwConfirm(g, m)
      BY <3>1
    <3> HIDE DEF o
    <3>4. f \in GwRecords
      BY <1>1, GatewayAssumption DEF GwRecords
    <3>5. /\ f.starting = 0 /\ f.scanning = gw.scanning
          /\ f.prepTimer = gw.prepTimer
          /\ f.stuck = gw.stuck /\ f.isStarted = gw.isStarted
      BY <1>1 DEF GwRecords
    <3> HIDE DEF f
    <3>6. g \in GwRecords
      BY <3>2, <3>4 DEF GwRecords
    <3>7. /\ g.starting = f.starting /\ g.scanning = f.scanning
          /\ g.prepTimer = f.prepTimer
          /\ g.stuck = f.stuck /\ g.isStarted = f.isStarted
      BY <3>4 DEF GwRecords
    <3>8. "starting" \in UnderWay
      BY <2>2, StepsMean DEF GwStartEnds
    <3> HIDE DEF g
    <3> QED
      BY <3>1, <3>3, <3>5, <3>6, <3>7, <3>8 DEF Steps
  <2> QED
    BY <2>1, <2>2
<1>3. /\ UnderWay = {a}
      /\ Queued("scan") = {} /\ Queued("start") = {}
  BY <1>1, <1>2, NoOther
<1>4. CASE GwQueue(m) /\ gw' = g
  <2>1. gwInbox' = Append(gwInbox, m)
    BY <1>4 DEF GwQueue
  <2>2. /\ Queued("scan")' = IF m.kind = "scan" THEN {Len(gwInbox) + 1} ELSE {}
        /\ Queued("start")' = IF m.kind = "start" THEN {Len(gwInbox) + 1} ELSE {}
    BY <1>1, <1>3, <2>1, QueuedAppend
  <2>3. Sole("scan")' /\ Sole("start")'
    BY <2>2 DEF Sole
  <2>4. b \in UnderWay' /\ a \notin UnderWay'
    BY <1>2, <1>4, <2>2, StepsMean
  <2>5. \A s \in Steps \ {a, b} : Same(s)
    BY <1>1, <1>2, <1>3, <1>4, <2>2, StepsMean DEF Same, Steps
  <2>6. a # b
    BY <1>2
  <2> QED
    BY <1>1, <1>2, <1>4, <2>3, <2>4, <2>5, PassesOn
<1>5. CASE gwInbox' = gwInbox /\ gw' = [g EXCEPT !.stuck = TRUE]
  <2>1. /\ gw'.stuck /\ gw'.isStarted = g.isStarted
        /\ gw'.scanning = g.scanning /\ gw'.starting = g.starting
        /\ gw'.prepTimer = g.prepTimer
    BY <1>2, <1>5 DEF GwRecords
  <2>2. Queued("scan")' = {} /\ Queued("start")' = {}
    BY <1>3, <1>5 DEF Queued
  <2>3. Sole("scan")' /\ Sole("start")'
    BY <2>2 DEF Sole
  <2>4. a \notin UnderWay'
    BY <1>2, <2>1, StepsMean
  <2>5. \A s \in Steps \ {a} : Same(s)
    BY <1>1, <1>2, <1>3, <2>1, <2>2, StepsMean DEF Same, Steps
  <2> QED
    BY <1>1, <1>2, <2>1, <2>3, <2>4, <2>5, Ends
<1> QED
  BY <1>2, <1>4, <1>5 DEF GwConfirm

\* What does not belong to the start-up leaves it where it is.
LEMMA OtherwiseStays ==
  ASSUME GwInv, \A k \in {"scan", "start"} : Queued(k)' = Queued(k),
         gw'.prepTimer = gw.prepTimer, gw'.scanning = gw.scanning,
         gw'.starting = gw.starting, gw'.isStarted = gw.isStarted,
         gw'.stuck = gw.stuck,
         "PREP_INIT" \in gwFlags' <=> "PREP_INIT" \in gwFlags
  PROVE  StartupGoesOn' /\ Sole("scan")' /\ Sole("start")'
<1>1. \A s \in Steps : Same(s)
  BY StepsMean DEF Same, Steps
<1>2. StartupGoesOn'
  BY <1>1, Stays DEF GwInv
<1> QED
  BY <1>2 DEF GwInv, Sole

\* Timer and flag pass the start-up on to the request of the scan.
LEMMA TimerGoesOn ==
  ASSUME GwInv, GwPrepInit \/ GwPrepTimerFires
  PROVE  StartupGoesOn' /\ Sole("scan")' /\ Sole("start")'
<1>1. /\ StartupGoesOn /\ gw \in GwRecords /\ gwInbox' = gwInbox
  BY DEF GwInv, GwTypeOK, GwPrepInit, GwPrepTimerFires
<1>2. \A k : Queued(k)' = Queued(k)
  BY <1>1 DEF Queued
<1>3. Sole("scan")' /\ Sole("start")'
  BY <1>2 DEF GwInv, Sole
<1>4. Same("scanned") /\ Same("started")
  BY <1>2, StepsMean DEF Same
<1>5. CASE GwPrepInit
  <2>1. PICK mem \in BOOLEAN :
          gw' = [gw EXCEPT !.scanning = TRUE, !.ticking = @ \/ mem]
    BY <1>5 DEF GwPrepInit
  <2>2. /\ gw'.scanning /\ gw'.prepTimer = gw.prepTimer
        /\ gw'.starting = gw.starting
        /\ gw'.isStarted = gw.isStarted /\ gw'.stuck = gw.stuck
    BY <1>1, <2>1 DEF GwRecords
  <2>3. "PREP_INIT" \in gwFlags /\ "PREP_INIT" \notin gwFlags'
    BY <1>5 DEF GwPrepInit
  <2>4. /\ "flag" \in UnderWay /\ "flag" \notin UnderWay'
        /\ "scanning" \in UnderWay' /\ Same("timer") /\ Same("starting")
    BY <2>2, <2>3, StepsMean DEF Same
  <2> QED
    BY <1>1, <1>3, <1>4, <2>2, <2>4, PassesOn DEF Steps
<1>6. CASE GwPrepTimerFires
  <2>1. /\ gw.prepTimer /\ gw' = [gw EXCEPT !.prepTimer = FALSE]
        /\ "PREP_INIT" \in gwFlags'
    BY <1>6 DEF GwPrepTimerFires
  <2>2. /\ ~gw'.prepTimer /\ gw'.scanning = gw.scanning
        /\ gw'.starting = gw.starting
        /\ gw'.isStarted = gw.isStarted /\ gw'.stuck = gw.stuck
    BY <1>1, <2>1 DEF GwRecords
  <2>3. /\ "timer" \in UnderWay /\ "timer" \notin UnderWay'
        /\ "flag" \in UnderWay' /\ Same("scanning") /\ Same("starting")
    BY <2>1, <2>2, StepsMean DEF Same
  <2> QED
    BY <1>1, <1>3, <1>4, <2>2, <2>3, PassesOn DEF Steps
<1> QED
  BY <1>5, <1>6

\* The first flag starts the start-up.
LEMMA GwInitHolds == GwInit => GwInv
<1> SUFFICES ASSUME GwInit
             PROVE  GwInv
  OBVIOUS
<1>1. /\ ~gw.isStarted /\ ~gw.stuck /\ ~gw.prepTimer /\ ~gw.scanning
      /\ gw.starting = 0 /\ gwInbox = <<>> /\ gwFlags = {"PREP_INIT"}
  BY DEF GwInit
<1>2. Queued("scan") = {} /\ Queued("start") = {}
  BY <1>1 DEF Queued
<1>3. UnderWay = {"flag"}
  BY <1>1, <1>2, StepsMean DEF Steps
<1> QED
  BY <1>1, <1>2, <1>3, GwInitTyped DEF GwInv, StartupGoesOn, Sole

\* Every step of the gateway keeps the start-up one thread.
LEMMA GwStepKeeps == GwInv /\ GwStep => GwInv'
<1> SUFFICES ASSUME GwInv, GwStep
             PROVE  StartupGoesOn' /\ Sole("scan")' /\ Sole("start")'
  BY GwStepTyped DEF GwInv
<1>1. GwTypeOK /\ gw \in GwRecords
  BY DEF GwInv, GwTypeOK
<1>2. ASSUME gwInbox' = gwInbox, gw' = gw,
             "PREP_INIT" \in gwFlags' <=> "PREP_INIT" \in gwFlags
      PROVE  StartupGoesOn' /\ Sole("scan")' /\ Sole("start")'
  <2>1. \A k \in {"scan", "start"} : Queued(k)' = Queued(k)
    BY <1>2 DEF Queued
  <2> QED
    BY <1>2, <2>1, OtherwiseStays
<1>3. CASE GwHandleAssocInd
  <2>1. /\ gwInbox # <<>> /\ Head(gwInbox).kind = "assocInd"
        /\ gwInbox' = Tail(gwInbox) /\ gwFlags' = gwFlags
        /\ gw' = ProcessAssocIndEvent(gw)
    BY <1>3 DEF GwHandleAssocInd
  <2>2. /\ gw'.prepTimer = gw.prepTimer /\ gw'.scanning = gw.scanning
        /\ gw'.starting = gw.starting /\ gw'.isStarted = gw.isStarted
        /\ gw'.stuck = gw.stuck
    BY <1>1, <2>1 DEF ProcessAssocIndEvent, GwRecords
  <2>3. \A k \in {"scan", "start"} :
          Sole(k)' /\ (Queued(k)' # {} <=> Queued(k) # {})
    BY <1>1, <2>1, SoleTail DEF GwInv
  <2>4. \A s \in Steps : Same(s)
    BY <2>1, <2>2, <2>3, StepsMean DEF Same, Steps
  <2> QED
    BY <2>2, <2>3, <2>4, Stays DEF GwInv
<1>4. CASE GwHandleStickTimer \/ GwStickTimerFires
  BY <1>2, <1>4 DEF GwHandleStickTimer, GwStickTimerFires
<1>5. CASE \E d \in Devices : GwHears(d)
  <2>1. PICK d \in Devices : GwHears(d)
    BY <1>5
  <2> DEFINE m == [kind |-> "assocInd", device |-> d]
  <2>2. m \in GwMessages /\ m.kind = "assocInd"
    BY DEF GwMessages
  <2>3. /\ gw' = gw /\ gwFlags' = gwFlags
        /\ gwInbox' = Append(gwInbox, m) \/ gwInbox' = gwInbox
    BY <2>1 DEF GwHears, GwQueue
  <2> HIDE DEF m
  <2>4. CASE gwInbox' = Append(gwInbox, m)
    <3>1. \A k \in {"scan", "start"} : Queued(k)' = Queued(k)
      BY <1>1, <2>2, <2>4, QueuedAppend
    <3> QED
      BY <2>3, <3>1, OtherwiseStays
  <2> QED
    BY <1>2, <2>3, <2>4
<1>6. CASE (\E r \in answers : GwForgets(r)) \/ UNCHANGED gwVars
  BY <1>2, <1>6 DEF GwForgets, gwVars
<1> QED
  BY <1>3, <1>4, <1>5, <1>6, ConfirmGoesOn, RequestGoesOn, TimerGoesOn
  DEF GwStep, GwOwn, GwTask

\* What is started on is the quietest channel: while a scan is confirmed no
\* other start is requested.
LEMMA ScanStarts ==
  ASSUME GwInv, GwHandleConfirm, Head(gwInbox).kind = "scan",
         gw'.starting # 0
  PROVE  IsQuietest(gw'.starting, Head(gwInbox).energy, NumChannels)
<1>1. Head(gwInbox) \in GwMessages /\ gw \in GwRecords
  BY GwTaken DEF GwHandleConfirm, GwTypeOK, GwInv
<1>2. gw.starting = 0
  <2>1. 1 \in Queued("scan")
    BY QueuedTail DEF GwInv, GwHandleConfirm
  <2>2. UnderWay = {"scanned"}
    BY <2>1, StepsMean, NoOther DEF GwInv
  <2> QED
    BY <2>2, StepsMean
<1> DEFINE m == Head(gwInbox)
           q == Quietest(m.energy)
<1>3. gw' = ProcessingScanConfirm(gw, m)
  BY DEF GwHandleConfirm
<1>4. CASE m.status = "SUCCESS"
  <2>1. m.energy \in Spectra
    BY <1>1, <1>4 DEF GwMessages
  <2>2. IsQuietest(q, m.energy, NumChannels)
    BY <2>1, QuietestIs
  <2>3. gw' = [gw EXCEPT !.starting = q]
    BY <1>3, <1>4 DEF ProcessingScanConfirm, GW_CoordinatorStartup
  <2> HIDE DEF q
  <2> QED
    BY <1>1, <2>2, <2>3 DEF GwRecords
<1>5. CASE m.status # "SUCCESS"
  BY <1>2, <1>1, <1>3, <1>5 DEF ProcessingScanConfirm, GwRecords
<1> QED
  BY <1>4, <1>5

=============================================================================
