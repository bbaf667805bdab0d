------------------------ MODULE GatewaySystemProofs ------------------------
(***************************************************************************)
(* Proofs about GatewaySystem: the gateway with an ECU.  Its steps are     *)
(* steps of UdsGateway, whose theorems hold here too.                      *)
(***************************************************************************)
EXTENDS GatewaySystem, UdsGatewayProofs, FiniteSetTheorems

-----------------------------------------------------------------------------
(* Sequences *)

LEMMA Elements ==
  ASSUME NEW S, NEW s \in Seq(S)
  PROVE  /\ DOMAIN s = 1 .. Len(s) /\ Len(s) \in Nat
         /\ \A i \in DOMAIN s : s[i] \in S
OBVIOUS

LEMMA Appended ==
  ASSUME NEW S, NEW s \in Seq(S), NEW e, NEW t, t = Append(s, e)
  PROVE  /\ DOMAIN s = 1 .. Len(s) /\ DOMAIN t = 1 .. Len(s) + 1
         /\ Len(s) \in Nat /\ Len(t) = Len(s) + 1 /\ t[Len(s) + 1] = e
         /\ \A i \in DOMAIN s : t[i] = s[i]
         /\ \A i \in DOMAIN t : i \in DOMAIN s \/ i = Len(s) + 1
OBVIOUS

LEMMA Tailed ==
  ASSUME NEW S, NEW s \in Seq(S), s # <<>>, NEW t, t = Tail(s)
  PROVE  /\ DOMAIN s = 1 .. Len(s) /\ DOMAIN t = 1 .. Len(s) - 1
         /\ Len(s) \in Nat /\ Len(t) = Len(s) - 1 /\ 1 \in DOMAIN s
         /\ Head(s) = s[1] /\ s[1] \in S /\ t \in Seq(S)
         /\ \A i \in DOMAIN t : t[i] = s[i + 1] /\ i + 1 \in DOMAIN s
OBVIOUS

LEMMA Shortened ==
  ASSUME NEW S, NEW s \in Seq(S), s # <<>>, NEW t, t = Tail(s)
  PROVE  /\ 1 \in DOMAIN s /\ Head(s) = s[1]
         /\ \A i \in DOMAIN t :
              t[i] = s[i + 1] /\ i \in Int /\ i + 1 \in DOMAIN s /\ i + 1 # 1
OBVIOUS

-----------------------------------------------------------------------------
(* Footprints *)

GatewayStep == Accept \/ MainStep \/ ForwarderStep \/ TesterStep
Asleep == UNCHANGED <<ecu_rx_vars, ecu_tx_vars, grants, periodic>>

\* A step is one of the gateway or the tester, while the ECU does nothing, or the ECU's.
LEMMA SystemSteps ==
  ASSUME [SystemNext]_system_vars
  PROVE  \/ /\ GatewayStep /\ Asleep
            /\ msgs' = msgs \/ (msgs < MaxRequests /\ msgs' = msgs + 1)
         \/ Ecu
         \/ UNCHANGED system_vars
<1> USE DEF GatewayStep, Asleep, ecu_vars, budget
<1>1. CASE SystemAccept
  BY <1>1 DEF SystemAccept, Accept
<1>2. CASE SystemTester
  <2>1. CASE TesterCloses /\ UNCHANGED <<ecu_vars, asked>>
    BY <2>1 DEF TesterStep, TesterCloses
  <2>2. ASSUME msgs < MaxRequests, NEW cfs \in RequestSizes, TesterSends("diag", cfs),
               UNCHANGED ecu_vars
        PROVE  /\ TesterStep /\ Asleep
               /\ msgs < MaxRequests /\ msgs' = msgs + 1
    BY <2>2 DEF TesterStep, TesterSends
  <2> QED BY <1>2, <2>1, <2>2 DEF SystemTester
<1>3. CASE SystemMain
  <2>1. MainStep /\ UNCHANGED ecu_vars BY <1>3 DEF SystemMain
  <2>2. UNCHANGED msgs
    BY <2>1 DEF MainStep, OpenSession, SetupFails, Teardown, CloseSession, LoopHead,
         ReceiveMessage, ConnectionLost, BeginRoutingReply, EndRoutingReply, BeginAck,
         EndAck, BeginReply, EndReply, SendSingleFrame, SendFirstFrame,
         TakeFlowControl, FlowControlTimeout, SendConsecutiveFrame, AbortTransfer,
         client_vars
  <2> QED BY <2>1, <2>2
<1>4. CASE SystemForwarder
  <2>1. ForwarderStep /\ UNCHANGED ecu_vars BY <1>4 DEF SystemForwarder
  <2>2. UNCHANGED msgs
    BY <2>1 DEF ForwarderStep, FwdLoop, FwdTimeout, FwdFlowControl, FwdStray,
         FwdSingleFrame, FwdFirstFrame, FwdConsecutiveFrame, FwdUnexpected,
         FwdCfTimeout, FwdBeginWrite, FwdEndWrite, FwdWriteFails, client_vars
  <2> QED BY <2>1, <2>2
<1>5. CASE Rest
  BY <1>5 DEF Rest
<1> QED BY <1>1, <1>2, <1>3, <1>4, <1>5 DEF SystemNext

-----------------------------------------------------------------------------
(* Requests are numbered in the order they were sent *)

\* Main has a request in hand; it has not begun to send it.
Handling == {"routing", "routing_w", "ack", "ack_w", "send", "wait_fc", "block"}
Fresh    == Handling \ {"wait_fc", "block"}

\* The tester's messages have growing numbers.
Numbered ==
  /\ msgs <= MaxRequests /\ cur.id <= msgs
  /\ \A i \in DOMAIN client_rx : cur.id < client_rx[i].id /\ client_rx[i].id <= msgs
  /\ \A i, j \in DOMAIN client_rx : i < j => client_rx[i].id < client_rx[j].id

\* So have the frames of the requests on the bus, and a request is begun once.
Started(i) == bus[i].pci \in {"SF", "FF"}
BusOrdered ==
  /\ mpc \in Handling => cur.id > 0
  /\ \A i \in DOMAIN bus : bus[i].pci # "FC" =>
       /\ 0 < bus[i].data[1] /\ bus[i].data[1] <= cur.id
       /\ mpc \in Fresh => bus[i].data[1] < cur.id
  /\ \A i, j \in DOMAIN bus : i < j /\ bus[i].pci # "FC" =>
       /\ bus[j].pci = "CF" => bus[i].data[1] <= bus[j].data[1]
       /\ Started(j) => bus[i].data[1] < bus[j].data[1]

\* What can happen to the tester's messages and to main's.
LEMMA ClientSteps ==
  ASSUME [Next]_vars
  PROVE  \/ client_rx' \in {client_rx, <<>>} /\ cur' = cur
         \/ /\ client_rx # <<>> /\ client_rx' = Tail(client_rx)
            /\ ReceiveMessage /\ cur' = Head(client_rx)
         \/ /\ \E m : client_rx' = Append(client_rx, m) /\ m.id = msgs'
            /\ cur' = cur /\ msgs' = msgs + 1
<1> USE DEF client_vars, tx_vars
<1>1. CASE ReceiveMessage
  BY <1>1 DEF ReceiveMessage, Dispatch
<1>2. CASE TesterStep
  <2>1. ASSUME NEW type, NEW cfs, TesterSends(type, cfs)
        PROVE  /\ \E m : client_rx' = Append(client_rx, m) /\ m.id = msgs'
               /\ cur' = cur /\ msgs' = msgs + 1
    <3> DEFINE m == [type |-> type, id |-> msgs', cfs |-> cfs]
    <3>1. client_rx' = Append(client_rx, m) /\ cur' = cur /\ msgs' = msgs + 1
      BY <2>1 DEF TesterSends
    <3>2. m.id = msgs' OBVIOUS
    <3> QED BY <3>1, <3>2
  <2>2. CASE TesterCloses BY <2>2 DEF TesterCloses
  <2> QED BY <1>2, <2>1, <2>2 DEF TesterStep
<1>3. CASE MainStep /\ ~ReceiveMessage
  BY <1>3 DEF MainStep, OpenSession, SetupFails, Teardown, CloseSession, LoopHead,
       ConnectionLost, BeginRoutingReply, EndRoutingReply, BeginAck, EndAck, BeginReply,
       EndReply, SendSingleFrame, SendFirstFrame, TakeFlowControl, FlowControlTimeout,
       SendConsecutiveFrame, AbortTransfer
<1>4. CASE ForwarderStep
  BY <1>4 DEF ForwarderStep, FwdLoop, FwdTimeout, FwdFlowControl, FwdStray,
       FwdSingleFrame, FwdFirstFrame, FwdConsecutiveFrame, FwdUnexpected, FwdCfTimeout,
       FwdBeginWrite, FwdEndWrite, FwdWriteFails
<1>5. CASE Accept \/ (\E f \in Frame : BusDelivers(f)) \/ UNCHANGED vars
  BY <1>5 DEF Accept, BusDelivers, vars
<1> QED BY <1>1, <1>2, <1>3, <1>4, <1>5 DEF Next

\* How main gets a message into its hands.
LEMMA HandlingSteps ==
  ASSUME [Next]_vars, mpc' \in Handling, ~ReceiveMessage
  PROVE  mpc \in Handling /\ (mpc' \in Fresh => mpc \in Fresh)
<1> USE DEF Handling, Fresh
<1>1. CASE MainStep
  <2>1. CASE SendConsecutiveFrame
    BY <2>1 DEF SendConsecutiveFrame
  <2>2. CASE ~SendConsecutiveFrame
    BY <1>1, <2>2 DEF MainStep, Main, OpenSession, SetupFails, Teardown, CloseSession,
       LoopHead, ReceiveMessage, ConnectionLost, BeginRoutingReply, EndRoutingReply,
       BeginAck, EndAck, BeginReply, EndReply, SendSingleFrame, SendFirstFrame,
       TakeFlowControl, FlowControlTimeout, AbortTransfer
  <2> QED BY <2>1, <2>2
<1>2. CASE ForwarderStep
  BY <1>2 DEF ForwarderStep, FwdLoop, FwdTimeout, FwdFlowControl, FwdStray,
       FwdSingleFrame, FwdFirstFrame, FwdConsecutiveFrame, FwdUnexpected, FwdCfTimeout,
       FwdBeginWrite, FwdEndWrite, FwdWriteFails
<1>3. CASE Accept \/ TesterStep \/ (\E f \in Frame : BusDelivers(f)) \/ UNCHANGED vars
  BY <1>3 DEF Accept, Main, TesterStep, TesterSends, TesterCloses, BusDelivers, vars
<1> QED BY <1>1, <1>2, <1>3 DEF Next

\* What can happen to the bus.
LEMMA BusSteps ==
  ASSUME [Next]_vars, bus' # bus
  PROVE  \/ /\ mpc = "send" /\ mpc' \notin Fresh /\ cur' = cur
            /\ bus' \in {Append(bus, SF(cur.id)), Append(bus, FF(cur.id, cur.cfs))}
         \/ /\ mpc = "block" /\ mpc' \notin Fresh /\ cur' = cur
            /\ bus' = Append(bus, CF(cur.id, sent + 1, seq_num))
         \/ /\ UNCHANGED <<mpc, cur>>
            /\ \E m : bus' = Append(bus, FC("CTS", 0, m))
<1> USE DEF Handling, Fresh, Main, CanWrite
<1>1. CASE \E ok \in BOOLEAN : SendSingleFrame(ok)
  BY <1>1 DEF SendSingleFrame, tx_vars
<1>2. CASE \E ok \in BOOLEAN : SendFirstFrame(ok)
  BY <1>2 DEF SendFirstFrame
<1>3. CASE SendConsecutiveFrame
  <2>1. mpc' \notin Fresh BY <1>3 DEF SendConsecutiveFrame
  <2> QED BY <1>3, <2>1 DEF SendConsecutiveFrame
<1>4. CASE \E ok \in BOOLEAN : FwdFirstFrame(ok)
  BY <1>4 DEF FwdFirstFrame, tx_vars
<1> QED BY <1>1, <1>2, <1>3, <1>4, BusFootprint DEF BusWrites, vars

LEMMA NumberedStep ==
  ASSUME TypeInv, Numbered, [Next]_vars,
         msgs' = msgs \/ (msgs < MaxRequests /\ msgs' = msgs + 1)
  PROVE  Numbered' /\ IF ReceiveMessage THEN cur.id < cur'.id ELSE cur' = cur
<1>1. /\ client_rx \in Seq(DoipMessage) /\ msgs \in Nat /\ cur.id \in Nat
      /\ \A i \in DOMAIN client_rx : client_rx[i].id \in Nat
  <2>1. client_rx \in Seq(DoipMessage) /\ msgs \in Nat /\ cur \in DoipMessage
    BY DEF TypeInv, TypeOK, ChannelTypeOK, TransferTypeOK
  <2>2. \A i \in DOMAIN client_rx : client_rx[i] \in DoipMessage BY <2>1
  <2> QED BY <2>1, <2>2 DEF DoipMessage
<1>2. msgs' \in Nat /\ msgs <= msgs' /\ msgs' <= MaxRequests
  BY <1>1, SystemAssumption DEF Numbered
<1>3. CASE client_rx' \in {client_rx, <<>>} /\ cur' = cur
  <2>1. Numbered' BY <1>1, <1>2, <1>3 DEF Numbered
  <2>2. ~ReceiveMessage
    <3> SUFFICES ASSUME ReceiveMessage PROVE FALSE
      OBVIOUS
    <3>1. /\ client_rx # <<>> /\ cur' = Head(client_rx) /\ 1 \in DOMAIN client_rx
          /\ Head(client_rx) = client_rx[1]
      BY <1>1 DEF ReceiveMessage
    <3> QED BY <3>1, <1>1, <1>3 DEF Numbered
  <2> QED BY <2>1, <2>2, <1>3
<1>4. CASE /\ client_rx # <<>> /\ client_rx' = Tail(client_rx)
           /\ ReceiveMessage /\ cur' = Head(client_rx)
  <2>1. /\ 1 \in DOMAIN client_rx /\ cur' = client_rx[1]
        /\ \A i \in DOMAIN client_rx' :
             client_rx'[i] = client_rx[i + 1] /\ i + 1 \in DOMAIN client_rx /\ 1 < i + 1
                /\ i \in Int
    BY <1>1, <1>4
  <2>2. cur'.id <= msgs' BY <1>1, <1>2, <2>1 DEF Numbered
  <2>3. \A i \in DOMAIN client_rx' : cur'.id < client_rx'[i].id /\ client_rx'[i].id <= msgs'
    BY <1>1, <1>2, <2>1 DEF Numbered
  <2>4. \A i, j \in DOMAIN client_rx' : i < j => client_rx'[i].id < client_rx'[j].id
    BY <2>1 DEF Numbered
  <2>5. cur.id < cur'.id BY <2>1 DEF Numbered
  <2> QED BY <1>2, <1>4, <2>2, <2>3, <2>4, <2>5 DEF Numbered
<1>5. ASSUME NEW m, client_rx' = Append(client_rx, m), m.id = msgs', cur' = cur,
             msgs' = msgs + 1
      PROVE  Numbered' /\ cur' = cur /\ ~ReceiveMessage
  <2>1. /\ DOMAIN client_rx = 1 .. Len(client_rx) /\ Len(client_rx) \in Nat
        /\ DOMAIN client_rx' = 1 .. Len(client_rx) + 1
        /\ client_rx'[Len(client_rx) + 1] = m
        /\ \A i \in DOMAIN client_rx : client_rx'[i] = client_rx[i]
    BY <1>1, <1>5
  <2>2. ASSUME NEW i \in DOMAIN client_rx'
        PROVE  cur'.id < client_rx'[i].id /\ client_rx'[i].id <= msgs'
    <3>1. CASE i \in DOMAIN client_rx BY <3>1, <2>1, <1>1, <1>5 DEF Numbered
    <3>2. CASE i = Len(client_rx) + 1 BY <3>2, <2>1, <1>1, <1>5 DEF Numbered
    <3> QED BY <3>1, <3>2, <2>1
  <2>3. ASSUME NEW i \in DOMAIN client_rx', NEW j \in DOMAIN client_rx', i < j
        PROVE  client_rx'[i].id < client_rx'[j].id
    <3>1. CASE j \in DOMAIN client_rx BY <3>1, <2>1, <2>3 DEF Numbered
    <3>2. CASE j = Len(client_rx) + 1
      <4>1. i \in DOMAIN client_rx BY <3>2, <2>1, <2>3
      <4> QED BY <3>2, <4>1, <2>1, <1>1, <1>5 DEF Numbered
    <3> QED BY <3>1, <3>2, <2>1
  <2>4. cur'.id <= msgs' BY <1>1, <1>5 DEF Numbered
  <2>5. ~ReceiveMessage BY <1>1, <1>5 DEF ReceiveMessage, client_vars
  <2> QED BY <1>2, <1>5, <2>2, <2>3, <2>4, <2>5 DEF Numbered
<1> QED BY <1>3, <1>4, <1>5, ClientSteps

\* The frames of the bus, one more than before.
LEMMA BusAppended ==
  ASSUME TypeInv, NEW f, bus' = Append(bus, f)
  PROVE  /\ DOMAIN bus = 1 .. Len(bus) /\ DOMAIN bus' = 1 .. Len(bus) + 1
         /\ Len(bus) \in Nat /\ Len(bus') = Len(bus) + 1
         /\ bus'[Len(bus) + 1] = f
         /\ \A i \in DOMAIN bus : bus'[i] = bus[i] /\ i < Len(bus) + 1 /\ i # Len(bus) + 1
<1>1. bus \in Seq(Frame) BY DEF TypeInv, TypeOK, ChannelTypeOK
<1> QED BY <1>1

\* A frame on the bus carries a number.
LEMMA BusNumbers ==
  ASSUME TypeInv
  PROVE  \A i \in DOMAIN bus : bus[i].pci # "FC" => bus[i].data[1] \in Nat
<1> SUFFICES ASSUME NEW i \in DOMAIN bus, bus[i].pci # "FC"
             PROVE  bus[i].data[1] \in Nat
  OBVIOUS
<1>1. bus[i] \in Frame BY DEF TypeInv, TypeOK, ChannelTypeOK
<1>2. bus[i].data \in Chunk BY <1>1, FrameKinds
<1> QED BY <1>2 DEF Chunk

LEMMA BusOrderedStep ==
  ASSUME TypeInv, BusOrdered, [Next]_vars,
         IF ReceiveMessage THEN cur.id < cur'.id ELSE cur' = cur, cur'.id \in Nat
  PROVE  BusOrdered'
<1>1. cur.id \in Nat /\ cur.cfs \in Nat
  BY DEF TypeInv, TypeOK, TransferTypeOK, DoipMessage
<1>2. mpc' \in Handling => cur'.id > 0
  <2>1. CASE ReceiveMessage BY <2>1, <1>1
  <2>2. CASE ~ReceiveMessage BY <2>2, HandlingSteps DEF BusOrdered
  <2> QED BY <2>1, <2>2
<1>3. CASE bus' = bus
  <2>1. ASSUME NEW i \in DOMAIN bus, bus[i].pci # "FC"
        PROVE  /\ 0 < bus[i].data[1] /\ bus[i].data[1] <= cur'.id
               /\ mpc' \in Fresh => bus[i].data[1] < cur'.id
    <3>1. /\ 0 < bus[i].data[1] /\ bus[i].data[1] <= cur.id /\ bus[i].data[1] \in Nat
          /\ mpc \in Fresh => bus[i].data[1] < cur.id
      BY <2>1, BusNumbers DEF BusOrdered
    <3>2. CASE ReceiveMessage BY <3>1, <3>2, <1>1
    <3>3. CASE ~ReceiveMessage /\ mpc' \notin Fresh BY <3>1, <3>3
    <3>4. CASE ~ReceiveMessage /\ mpc' \in Fresh
      <4>1. mpc \in Fresh BY <3>4, HandlingSteps DEF Fresh
      <4> QED BY <3>1, <3>4, <4>1
    <3> QED BY <3>2, <3>3, <3>4
  <2> QED BY <1>2, <1>3, <2>1 DEF BusOrdered, Started
<1>4. ASSUME NEW f, bus' = Append(bus, f), mpc' \notin Fresh, cur' = cur,
             f.pci # "FC", f.data[1] = cur.id, cur.id > 0,
             f.pci # "CF" => mpc = "send"
      PROVE  BusOrdered'
  <2>1. ASSUME NEW i \in DOMAIN bus', bus'[i].pci # "FC"
        PROVE  0 < bus'[i].data[1] /\ bus'[i].data[1] <= cur'.id
    <3>1. CASE i \in DOMAIN bus BY <3>1, <2>1, <1>4, BusAppended DEF BusOrdered
    <3>2. CASE i = Len(bus) + 1 BY <3>2, <1>1, <1>4, BusAppended
    <3> QED BY <3>1, <3>2, <1>4, BusAppended
  <2>2. ASSUME NEW i \in DOMAIN bus', NEW j \in DOMAIN bus', i < j, bus'[i].pci # "FC"
        PROVE  /\ bus'[j].pci = "CF" => bus'[i].data[1] <= bus'[j].data[1]
               /\ bus'[j].pci \in {"SF", "FF"} => bus'[i].data[1] < bus'[j].data[1]
    <3>1. i \in DOMAIN bus /\ bus'[i] = bus[i] BY <2>2, <1>4, BusAppended
    <3>2. CASE j \in DOMAIN bus
      BY <3>1, <3>2, <2>2, <1>4, BusAppended DEF BusOrdered, Started
    <3>3. CASE j = Len(bus) + 1
      <4>1. bus'[j] = f BY <3>3, <1>4, BusAppended
      <4>2. bus[i].data[1] <= cur.id /\ (mpc = "send" => bus[i].data[1] < cur.id)
        BY <3>1, <2>2 DEF BusOrdered, Fresh, Handling
      <4> QED BY <3>1, <4>1, <4>2, <1>4
    <3> QED BY <3>2, <3>3, <1>4, BusAppended
  <2> QED BY <1>2, <1>4, <2>1, <2>2 DEF BusOrdered, Started
<1>5. ASSUME NEW m, bus' = Append(bus, FC("CTS", 0, m)), UNCHANGED <<mpc, cur>>
      PROVE  BusOrdered'
  <2> DEFINE f == FC("CTS", 0, m)
  <2>1. bus' = Append(bus, f) /\ f.pci = "FC" BY <1>5 DEF FC
  <2> HIDE DEF f
  <2>2. \A i \in DOMAIN bus' : (i \in DOMAIN bus /\ bus'[i] = bus[i]) \/ bus'[i].pci = "FC"
    BY <2>1, BusAppended
  <2>3. \A i, j \in DOMAIN bus' : i < j /\ bus'[i].pci # "FC" =>
          /\ bus'[j].pci = "CF" => bus'[i].data[1] <= bus'[j].data[1]
          /\ bus'[j].pci \in {"SF", "FF"} => bus'[i].data[1] < bus'[j].data[1]
    BY <2>2 DEF BusOrdered, Started
  <2> QED BY <1>2, <1>5, <2>2, <2>3 DEF BusOrdered, Started
<1>6. CASE bus' # bus
  <2>1. mpc \in {"send", "block"} => cur.id > 0 BY DEF BusOrdered, Handling
  <2>2. CASE /\ mpc = "send" /\ mpc' \notin Fresh /\ cur' = cur
             /\ bus' \in {Append(bus, SF(cur.id)), Append(bus, FF(cur.id, cur.cfs))}
    BY <2>1, <2>2, <1>4 DEF SF, FF
  <2>3. CASE /\ mpc = "block" /\ mpc' \notin Fresh /\ cur' = cur
             /\ bus' = Append(bus, CF(cur.id, sent + 1, seq_num))
    BY <2>1, <2>3, <1>4 DEF CF
  <2> QED BY <2>2, <2>3, <1>5, <1>6, BusSteps
<1> QED BY <1>3, <1>6

-----------------------------------------------------------------------------
(* The ECU's variables, and the gateway's steps *)

\* The ECU's part of SystemTypeOK.
EcuTypes ==
  /\ seen \in Nat /\ seen <= Len(bus)
  /\ ecu_rx \in [data : Seq(Chunk), cfs : Nat, block : Nat, owes : BOOLEAN]
  /\ ecu_tx \in [id : Nat, cfs : Nat, sent : Nat, go : BOOLEAN]
  /\ due \in Seq(1 .. MaxRequests)
  /\ requests \in Seq(Seq(Chunk))
  /\ answers \in Seq([id : Nat, cfs : Nat])
  /\ grants \in [1 .. MaxRequests -> Nat]
  /\ periodic \in Nat

\* A request in hand has its first bytes, and they are of a frame that was on the bus.
InHand == ecu_rx.data[1][1]
Id(i)  == requests[i][1][1]
SeenIds == {m \in Nat : \E k \in 1 .. seen : bus[k].pci # "FC" /\ bus[k].data[1] = m}

RequestsSeen ==
  /\ ecu_rx # NoRx => ecu_rx.data # <<>> /\ InHand \in SeenIds
  /\ \A i \in DOMAIN requests : requests[i] # <<>> /\ Id(i) \in SeenIds

\* What the ECU deals with of a frame of the gateway.
Drops      == ecu_rx' = NoRx /\ UNCHANGED <<requests, due, ecu_tx>>
Begins(f)  ==
  /\ f.pci = "FF"
  /\ ecu_rx' = [data |-> <<f.data>>, cfs |-> f.cfs, block |-> 0, owes |-> TRUE]
  /\ UNCHANGED <<requests, due, ecu_tx>>
Waits(f)   == f.pci = "CF" /\ ecu_rx # NoRx /\ ecu_rx.block > 0
Goes(f)    ==
  /\ Waits(f) /\ Len(Append(ecu_rx.data, f.data)) <= ecu_rx.cfs
  /\ ecu_rx' = [ecu_rx EXCEPT !.data = Append(ecu_rx.data, f.data), !.block = @ - 1,
                              !.owes = ecu_rx.block = 1]
  /\ UNCHANGED <<requests, due, ecu_tx>>
Takes(f, data) ==
  /\ \/ f.pci = "SF" /\ data = <<f.data>>
     \/ /\ Waits(f) /\ data = Append(ecu_rx.data, f.data)
        /\ Len(data) = ecu_rx.cfs + 1
  /\ Take(data) /\ ecu_rx' = NoRx /\ UNCHANGED ecu_tx

LEMMA ReceiveSteps ==
  ASSUME EcuReceives
  PROVE  /\ seen < Len(bus) /\ seen' = seen + 1
         /\ UNCHANGED <<vars, answers, grants, periodic>>
         /\ \/ /\ bus[seen + 1].pci = "FC"
               /\ ecu_tx' = IF ecu_tx = NoTx THEN NoTx ELSE [ecu_tx EXCEPT !.go = TRUE]
               /\ UNCHANGED <<ecu_rx, requests, due>>
            \/ /\ bus[seen + 1].pci # "FC"
               /\ \/ Drops
                  \/ Begins(bus[seen + 1])
                  \/ Goes(bus[seen + 1])
                  \/ \E data : Takes(bus[seen + 1], data)
<1> DEFINE f == bus[seen + 1]
<1>1. /\ seen < Len(bus) /\ seen' = seen + 1
      /\ UNCHANGED <<vars, answers, grants, periodic>>
      /\ \/ /\ f.pci = "FC"
            /\ ecu_tx' = IF ecu_tx = NoTx THEN NoTx ELSE [ecu_tx EXCEPT !.go = TRUE]
            /\ UNCHANGED <<ecu_rx, requests, due>>
         \/ f.pci # "FC" /\ EcuReceivesRequest(f) /\ UNCHANGED ecu_tx
  BY DEF EcuReceives, budget
<1> HIDE DEF f
<1>2. ASSUME EcuReceivesRequest(f), UNCHANGED ecu_tx
      PROVE  Drops \/ Begins(f) \/ Goes(f) \/ \E data : Takes(f, data)
  <2>1. CASE f.pci = "SF" /\ Take(<<f.data>>) /\ ecu_rx' = NoRx
    BY <1>2, <2>1 DEF Takes
  <2>2. CASE /\ f.pci = "FF"
             /\ ecu_rx' = [data |-> <<f.data>>, cfs |-> f.cfs, block |-> 0,
                           owes |-> TRUE]
             /\ UNCHANGED <<requests, due>>
    BY <1>2, <2>2 DEF Begins
  <2> DEFINE got == Append(ecu_rx.data, f.data)
             next == ecu_rx # NoRx /\ ecu_rx.block > 0
                       /\ f.sn = Len(ecu_rx.data) % SeqMod
  <2>3. CASE /\ f.pci = "CF"
             /\ \/ ~next /\ ecu_rx' = NoRx /\ UNCHANGED <<requests, due>>
                \/ next /\ Len(got) = ecu_rx.cfs + 1 /\ Take(got) /\ ecu_rx' = NoRx
                \/ /\ next /\ Len(got) <= ecu_rx.cfs
                   /\ ecu_rx' = [ecu_rx EXCEPT !.data = got, !.block = @ - 1,
                                               !.owes = ecu_rx.block = 1]
                   /\ UNCHANGED <<requests, due>>
    <3>1. CASE ~next /\ ecu_rx' = NoRx /\ UNCHANGED <<requests, due>>
      BY <1>2, <3>1 DEF Drops
    <3>2. CASE next /\ Len(got) = ecu_rx.cfs + 1 /\ Take(got) /\ ecu_rx' = NoRx
      BY <1>2, <2>3, <3>2 DEF Takes, Waits
    <3>3. CASE /\ next /\ Len(got) <= ecu_rx.cfs
               /\ ecu_rx' = [ecu_rx EXCEPT !.data = got, !.block = @ - 1,
                                           !.owes = ecu_rx.block = 1]
               /\ UNCHANGED <<requests, due>>
      BY <1>2, <2>3, <3>3 DEF Goes, Waits
    <3> QED BY <2>3, <3>1, <3>2, <3>3
  <2> QED BY <1>2, <2>1, <2>2, <2>3 DEF EcuReceivesRequest
<1> QED BY <1>1, <1>2 DEF f

\* A number of the ECU's is one the tester gave.
LEMMA SeenNumbers ==
  ASSUME TypeInv, BusOrdered, Numbered, EcuTypes, NEW m, m \in SeenIds
  PROVE  m \in 1 .. MaxRequests /\ m <= cur.id /\ m \in Nat
<1>1. PICK k \in 1 .. seen : bus[k].pci # "FC" /\ bus[k].data[1] = m
  BY DEF SeenIds
<1>2. /\ cur.id \in Nat /\ msgs \in Nat /\ bus \in Seq(Frame) /\ seen \in Nat
      /\ seen <= Len(bus)
  BY DEF TypeInv, TypeOK, ChannelTypeOK, TransferTypeOK, DoipMessage, EcuTypes
<1>3. k \in DOMAIN bus BY <1>2
<1>4. m \in Nat /\ 0 < m /\ m <= cur.id BY <1>1, <1>3, BusNumbers DEF BusOrdered
<1> QED BY <1>2, <1>4, SystemAssumption DEF Numbered

\* And stays so.
LEMMA SeenStays ==
  ASSUME TypeInv, EcuTypes, NEW m, m \in SeenIds,
         bus' = bus \/ \E f : bus' = Append(bus, f),
         seen' = seen \/ seen' = seen + 1
  PROVE  m \in SeenIds'
<1>1. PICK k \in 1 .. seen : bus[k].pci # "FC" /\ bus[k].data[1] = m
  BY DEF SeenIds
<1>2. seen \in Nat /\ seen <= Len(bus) /\ bus \in Seq(Frame)
  BY DEF EcuTypes, TypeInv, TypeOK, ChannelTypeOK
<1>3. k \in 1 .. seen' /\ k \in DOMAIN bus BY <1>2
<1>4. bus'[k] = bus[k] BY <1>3, BusAppended
<1> QED BY <1>1, <1>3, <1>4 DEF SeenIds

\* A frame for the gateway reaches its socket, or no step of the gateway's is taken.
LEMMA SendSteps ==
  ASSUME NEW f \in Frame, Send(f)
  PROVE  [Next]_vars /\ (BusDelivers(f) \/ UNCHANGED vars)
BY DEF Send, Next

\* What the ECU puts on the bus are frames.
LEMMA EcuFrames ==
  ASSUME TypeInv, EcuTypes, RequestsSeen
  PROVE  /\ \A fs \in EcuStatuses : ecu_rx.owes => FC(fs, BlockSize, InHand) \in Frame
         /\ \A m \in Nat, cfs \in Nat : /\ SF(m) \in Frame
                                        /\ cfs > 0 => FF(m, cfs) \in Frame
         /\ LET k == ecu_tx.sent + 1
            IN CF(ecu_tx.id, k, k % SeqMod) \in Frame
<1>1. ASSUME NEW fs \in EcuStatuses, ecu_rx.owes
      PROVE  FC(fs, BlockSize, InHand) \in Frame
  <2>1. ecu_rx # NoRx BY <1>1 DEF NoRx
  <2>2. ecu_rx.data \in Seq(Chunk) /\ ecu_rx.data # <<>>
    BY <2>1 DEF EcuTypes, RequestsSeen
  <2>3. ecu_rx.data[1] \in Chunk BY <2>2
  <2>4. InHand \in Nat BY <2>3 DEF Chunk, InHand
  <2>5. fs \in FlowStatus /\ BlockSize \in 0 .. 255 BY SystemAssumption
  <2> QED BY <2>4, <2>5 DEF FC, Frame, FlowFrame
<1>2. ASSUME NEW m \in Nat, NEW cfs \in Nat
      PROVE  SF(m) \in Frame /\ (cfs > 0 => FF(m, cfs) \in Frame)
  BY DEF SF, FF, Frame, SingleFrame, FirstFrame, Chunk
<1>3. ASSUME NEW k, k = ecu_tx.sent + 1
      PROVE  CF(ecu_tx.id, k, k % SeqMod) \in Frame
  <2>1. k \in Nat /\ ecu_tx.id \in Nat BY <1>3 DEF EcuTypes
  <2>2. k % SeqMod \in 0 .. SeqMod - 1 BY <2>1, GatewayAssumption
  <2> QED BY <2>1, <2>2 DEF CF, Frame, ConsFrame, Chunk
<1> QED BY <1>1, <1>2, <1>3

\* The next request to answer.
LEMMA DueNumbers ==
  ASSUME EcuTypes, due # <<>>
  PROVE  /\ Head(due) \in 1 .. MaxRequests /\ Tail(due) \in Seq(1 .. MaxRequests)
         /\ ResponseTo(Head(due)) \in Nat
<1>1. ASSUME NEW S, NEW s \in Seq(S), s # <<>> PROVE Head(s) \in S /\ Tail(s) \in Seq(S)
  BY <1>1
<1>2. Head(due) \in 1 .. MaxRequests /\ Tail(due) \in Seq(1 .. MaxRequests)
  BY <1>1 DEF EcuTypes
<1> QED BY <1>2, SystemAssumption DEF ResponseTo

\* Every step of the system is one of UdsGateway, or none.
LEMMA GatewaySteps ==
  ASSUME TypeInv, EcuTypes, RequestsSeen, [SystemNext]_system_vars
  PROVE  [Next]_vars
<1>1. CASE GatewayStep BY <1>1 DEF GatewayStep, Next
<1>2. CASE Ecu
  <2>1. ASSUME NEW fs \in EcuStatuses, EcuFlowControl(fs) PROVE [Next]_vars
    <3>1. ecu_rx.owes /\ Send(FC(fs, BlockSize, InHand)) BY <2>1 DEF EcuFlowControl, InHand
    <3> QED BY <3>1, EcuFrames, SendSteps
  <2>2. ASSUME NEW m \in Nat, NEW cfs \in ResponseSizes, StartMessage(m, cfs)
        PROVE  [Next]_vars
    <3>1. cfs \in Nat BY SystemAssumption
    <3>2. (cfs = 0 /\ Send(SF(m))) \/ (cfs > 0 /\ Send(FF(m, cfs)))
      BY <2>2 DEF StartMessage
    <3> QED BY <3>1, <3>2, EcuFrames, SendSteps
  <2>3. ASSUME NEW cfs \in ResponseSizes, EcuAnswer(cfs) PROVE [Next]_vars
    <3>1. due # <<>> /\ StartMessage(ResponseTo(Head(due)), cfs) BY <2>3 DEF EcuAnswer
    <3> QED BY <2>2, <3>1, DueNumbers
  <2>4. ASSUME NEW cfs \in ResponseSizes, EcuPeriodic(cfs) PROVE [Next]_vars
    <3>1. periodic' = periodic + 1 /\ StartMessage(PeriodicId(periodic'), cfs)
      BY <2>4 DEF EcuPeriodic
    <3>2. PeriodicId(periodic') \in Nat BY <3>1 DEF EcuTypes, PeriodicId
    <3> QED BY <2>2, <3>1, <3>2
  <2>5. CASE EcuConsecutiveFrame
    <3> DEFINE f == CF(ecu_tx.id, ecu_tx.sent + 1, (ecu_tx.sent + 1) % SeqMod)
    <3>1. f \in Frame BY EcuFrames
    <3>2. Send(f) BY <2>5 DEF EcuConsecutiveFrame
    <3> QED BY <3>1, <3>2, SendSteps
  <2>6. CASE EcuGivesUp \/ EcuReceives \/ EcuMisses
    BY <2>6 DEF EcuGivesUp, EcuReceives, EcuMisses
  <2> QED BY <1>2, <2>1, <2>3, <2>4, <2>5, <2>6 DEF Ecu
<1>3. CASE UNCHANGED system_vars BY <1>3 DEF system_vars
<1> QED BY <1>1, <1>2, <1>3, SystemSteps

\* What changes of the ECU's side in each of its steps that sends.
LEMMA StartSteps ==
  ASSUME EcuTypes, NEW m \in Nat, NEW cfs \in Nat, StartMessage(m, cfs)
  PROVE  /\ ecu_tx = NoTx /\ answers' = Append(answers, [id |-> m, cfs |-> cfs])
         /\ ecu_tx' \in {NoTx, [id |-> m, cfs |-> cfs, sent |-> 0, go |-> FALSE]}
         /\ UNCHANGED bus
<1>1. ASSUME NEW f, Send(f) PROVE UNCHANGED bus BY <1>1 DEF Send, BusDelivers, vars
<1> QED BY <1>1 DEF StartMessage

LEMMA EcuSilent ==
  ASSUME \/ \E fs \in EcuStatuses : EcuFlowControl(fs)
         \/ EcuConsecutiveFrame \/ EcuGivesUp \/ EcuMisses
  PROVE  /\ UNCHANGED <<bus, due, requests, answers, periodic>>
         /\ seen' = seen \/ (seen < Len(bus) /\ seen' = seen + 1)
<1> USE DEF ecu_rx_vars, ecu_tx_vars, budget, vars
<1>1. ASSUME NEW f, Send(f) PROVE UNCHANGED bus BY <1>1 DEF Send, BusDelivers
<1>2. ASSUME NEW fs \in EcuStatuses, EcuFlowControl(fs)
      PROVE  UNCHANGED <<bus, due, requests, answers, periodic, seen>>
  BY <1>1, <1>2 DEF EcuFlowControl
<1>3. CASE EcuConsecutiveFrame BY <1>1, <1>3 DEF EcuConsecutiveFrame
<1>4. CASE EcuGivesUp BY <1>4 DEF EcuGivesUp
<1>5. CASE EcuMisses BY <1>5 DEF EcuMisses
<1> QED BY <1>2, <1>3, <1>4, <1>5

\* The ECU touches nothing of the gateway but its socket's buffer.
LEMMA EcuFootprint ==
  ASSUME Ecu
  PROVE  UNCHANGED <<mpc, fpc, session_active, client_socket_mutex, fc_frame_queue,
                     client_vars, to_tester, can_open, bus, tx_vars, rx_vars>>
<1> DEFINE rest == <<mpc, fpc, session_active, client_socket_mutex, fc_frame_queue,
                     client_vars, to_tester, can_open, bus, tx_vars, rx_vars>>
<1>1. ASSUME NEW f, Send(f) PROVE UNCHANGED rest
  BY <1>1 DEF Send, BusDelivers, vars, can_vars
<1>2. UNCHANGED vars => UNCHANGED rest BY DEF vars, can_vars
<1> HIDE DEF rest
<1>3. UNCHANGED rest
  BY <1>1, <1>2 DEF Ecu, EcuFlowControl, EcuAnswer, EcuPeriodic, StartMessage,
     EcuConsecutiveFrame, EcuGivesUp, EcuReceives, EcuMisses
<1> QED BY <1>3 DEF rest

LEMMA EcuTypesInit == SystemInit => EcuTypes /\ RequestsSeen
<1> SUFFICES ASSUME SystemInit PROVE EcuTypes /\ RequestsSeen
  OBVIOUS
<1>1. bus = <<>> BY DEF SystemInit, Init
<1> QED BY <1>1, SystemAssumption
        DEF SystemInit, EcuTypes, RequestsSeen, NoRx, NoTx

\* What the ECU does keeps its types.
LEMMA EcuTypesStep ==
  ASSUME TypeInv, BusOrdered, Numbered, EcuTypes, RequestsSeen, Ecu
  PROVE  EcuTypes'
<1>0. bus \in Seq(Frame) BY DEF TypeInv, TypeOK, ChannelTypeOK
<1> USE DEF ecu_rx_vars, ecu_tx_vars, budget
<1>1. ASSUME NEW f, Send(f) PROVE UNCHANGED bus BY <1>1 DEF Send, BusDelivers, vars
<1>2. ASSUME NEW fs \in EcuStatuses, EcuFlowControl(fs) PROVE EcuTypes'
  <2>1. UNCHANGED <<seen, due, requests, ecu_tx, answers, periodic, bus>>
    BY <1>1, <1>2 DEF EcuFlowControl
  <2>2. EcuBlock \in Nat BY SystemAssumption, GatewayAssumption DEF EcuBlock
  <2>3. ecu_rx' \in {ecu_rx, NoRx, [ecu_rx EXCEPT !.owes = FALSE, !.block = EcuBlock]}
    BY <1>2 DEF EcuFlowControl
  <2>4. /\ ecu_rx \in [data : Seq(Chunk), cfs : Nat, block : Nat, owes : BOOLEAN]
        /\ NoRx \in [data : Seq(Chunk), cfs : Nat, block : Nat, owes : BOOLEAN]
    BY DEF EcuTypes, NoRx
  <2>5. [ecu_rx EXCEPT !.owes = FALSE, !.block = EcuBlock]
          \in [data : Seq(Chunk), cfs : Nat, block : Nat, owes : BOOLEAN]
    BY <2>2, <2>4
  <2>6. ecu_rx' \in [data : Seq(Chunk), cfs : Nat, block : Nat, owes : BOOLEAN]
    BY <2>3, <2>4, <2>5
  <2>7. grants' = grants \/ grants' = [grants EXCEPT ![InHand] = @ + EcuBlock]
    BY <1>2 DEF EcuFlowControl, InHand
  <2>8. grants' \in [1 .. MaxRequests -> Nat] BY <2>2, <2>7 DEF EcuTypes
  <2> QED BY <2>1, <2>6, <2>8 DEF EcuTypes
<1>3. ASSUME NEW m \in Nat, NEW cfs \in ResponseSizes, StartMessage(m, cfs)
      PROVE  /\ ecu_tx' \in [id : Nat, cfs : Nat, sent : Nat, go : BOOLEAN]
             /\ answers' \in Seq([id : Nat, cfs : Nat])
             /\ UNCHANGED bus
  <2>1. cfs \in Nat BY SystemAssumption
  <2>2. /\ answers' = Append(answers, [id |-> m, cfs |-> cfs]) /\ UNCHANGED bus
        /\ ecu_tx' \in {NoTx, [id |-> m, cfs |-> cfs, sent |-> 0, go |-> FALSE]}
    BY <1>3, <2>1, StartSteps
  <2>3. ecu_tx' \in [id : Nat, cfs : Nat, sent : Nat, go : BOOLEAN]
    <3>1. NoTx \in [id : Nat, cfs : Nat, sent : Nat, go : BOOLEAN] BY DEF NoTx
    <3>2. [id |-> m, cfs |-> cfs, sent |-> 0, go |-> FALSE]
            \in [id : Nat, cfs : Nat, sent : Nat, go : BOOLEAN]
      BY <2>1
    <3> QED BY <2>2, <3>1, <3>2
  <2>4. [id |-> m, cfs |-> cfs] \in [id : Nat, cfs : Nat] BY <2>1
  <2>5. answers' \in Seq([id : Nat, cfs : Nat]) BY <2>2, <2>4 DEF EcuTypes
  <2> QED BY <2>2, <2>3, <2>5
<1>4. ASSUME NEW cfs \in ResponseSizes, EcuAnswer(cfs) PROVE EcuTypes'
  <2>1. /\ due # <<>> /\ due' = Tail(due) /\ StartMessage(ResponseTo(Head(due)), cfs)
        /\ UNCHANGED <<seen, ecu_rx, requests, grants, periodic>>
    BY <1>4 DEF EcuAnswer
  <2>2. ResponseTo(Head(due)) \in Nat /\ due' \in Seq(1 .. MaxRequests)
    BY <2>1, DueNumbers
  <2> QED BY <2>1, <2>2, <1>3 DEF EcuTypes
<1>5. ASSUME NEW cfs \in ResponseSizes, EcuPeriodic(cfs) PROVE EcuTypes'
  <2>1. /\ periodic' = periodic + 1 /\ StartMessage(PeriodicId(periodic'), cfs)
        /\ UNCHANGED <<seen, ecu_rx, due, requests, grants>>
    BY <1>5 DEF EcuPeriodic
  <2>2. PeriodicId(periodic') \in Nat /\ periodic' \in Nat
    BY <2>1 DEF EcuTypes, PeriodicId
  <2> QED BY <2>1, <2>2, <1>3 DEF EcuTypes
<1>6. CASE EcuConsecutiveFrame
  <2>1. /\ UNCHANGED <<seen, ecu_rx, due, requests, answers, grants, periodic, bus>>
        /\ ecu_tx' \in {NoTx, [ecu_tx EXCEPT !.sent = ecu_tx.sent + 1]}
    BY <1>1, <1>6 DEF EcuConsecutiveFrame
  <2>2. ecu_tx' \in [id : Nat, cfs : Nat, sent : Nat, go : BOOLEAN]
    <3>1. NoTx \in [id : Nat, cfs : Nat, sent : Nat, go : BOOLEAN] BY DEF NoTx
    <3>2. [ecu_tx EXCEPT !.sent = ecu_tx.sent + 1]
            \in [id : Nat, cfs : Nat, sent : Nat, go : BOOLEAN]
      <4>1. ecu_tx \in [id : Nat, cfs : Nat, sent : Nat, go : BOOLEAN] BY DEF EcuTypes
      <4>2. ecu_tx.sent + 1 \in Nat BY <4>1
      <4> QED BY <4>1, <4>2
    <3> QED BY <2>1, <3>1, <3>2
  <2> QED BY <2>1, <2>2 DEF EcuTypes
<1>7. CASE EcuGivesUp
  BY <1>7 DEF EcuGivesUp, EcuTypes, NoTx, vars
<1>8. CASE EcuMisses
  <2>1. UNCHANGED <<ecu_rx, due, requests, ecu_tx, answers, grants, periodic, bus>>
        /\ seen < Len(bus) /\ seen' = seen + 1
    BY <1>8 DEF EcuMisses, vars
  <2> QED BY <2>1, <1>0 DEF EcuTypes
<1>9. CASE EcuReceives
  <2> DEFINE f == bus[seen + 1]
  <2>1. /\ seen < Len(bus) /\ seen' = seen + 1 /\ UNCHANGED bus
        /\ UNCHANGED <<answers, grants, periodic>>
    BY <1>9, ReceiveSteps DEF vars
  <2>2. seen' \in Nat /\ seen' <= Len(bus') /\ f \in Frame /\ seen + 1 \in DOMAIN bus
    BY <2>1, <1>0 DEF EcuTypes
  <2>3. f.pci # "FC" => /\ f.data \in Chunk /\ f.data[1] \in 1 .. MaxRequests
    <3>1. f.pci # "FC" => f.data \in Chunk BY <2>2, FrameKinds
    <3>2. f.pci # "FC" => 0 < f.data[1] /\ f.data[1] <= cur.id
      BY <2>2 DEF BusOrdered
    <3>3. cur.id <= msgs /\ msgs <= MaxRequests /\ cur.id \in Nat /\ msgs \in Nat
      BY DEF Numbered, TypeInv, TypeOK, ChannelTypeOK, TransferTypeOK, DoipMessage
    <3>4. f.pci # "FC" => f.data[1] \in Nat BY <2>2, BusNumbers
    <3> QED BY <3>1, <3>2, <3>3, <3>4, SystemAssumption
  <2>4. f.pci = "FF" => f.cfs \in Nat BY <2>2, FrameKinds
  <2> HIDE DEF f
  <2>5. CASE /\ ecu_tx' = IF ecu_tx = NoTx THEN NoTx ELSE [ecu_tx EXCEPT !.go = TRUE]
             /\ UNCHANGED <<ecu_rx, requests, due>>
    BY <2>1, <2>2, <2>5 DEF EcuTypes, NoTx
  <2>6. CASE Drops
    BY <2>1, <2>2, <2>6 DEF EcuTypes, Drops, NoRx
  <2>7. CASE Begins(f)
    <3>1. <<f.data>> \in Seq(Chunk) BY <2>3, <2>7 DEF Begins
    <3> QED BY <2>1, <2>2, <2>4, <2>7, <3>1 DEF EcuTypes, Begins
  <2>8. CASE Goes(f)
    <3>1. Append(ecu_rx.data, f.data) \in Seq(Chunk)
      BY <2>3, <2>8 DEF Goes, Waits, EcuTypes
    <3>2. ecu_rx.block - 1 \in Nat /\ (ecu_rx.block = 1) \in BOOLEAN
      BY <2>8 DEF Goes, Waits, EcuTypes
    <3>3. ecu_rx' \in [data : Seq(Chunk), cfs : Nat, block : Nat, owes : BOOLEAN]
      BY <2>8, <3>1, <3>2 DEF Goes, EcuTypes
    <3> QED BY <2>1, <2>2, <2>8, <3>3 DEF EcuTypes, Goes
  <2>9. ASSUME NEW data, Takes(f, data) PROVE EcuTypes'
    <3>1. data \in Seq(Chunk) /\ data[1][1] \in 1 .. MaxRequests
      <4>1. CASE f.pci = "SF" /\ data = <<f.data>> BY <4>1, <2>3
      <4>2. CASE Waits(f) /\ data = Append(ecu_rx.data, f.data)
        <5>1. /\ ecu_rx.data \in Seq(Chunk) /\ ecu_rx.data # <<>> /\ f.data \in Chunk
              /\ InHand \in SeenIds
          BY <4>2, <2>3 DEF Waits, EcuTypes, RequestsSeen
        <5>2. data \in Seq(Chunk) /\ data[1] = ecu_rx.data[1] BY <4>2, <5>1
        <5> QED BY <5>1, <5>2, SeenNumbers DEF InHand
      <4> QED BY <2>9, <4>1, <4>2 DEF Takes
    <3>2. /\ requests' = Append(requests, data) /\ due' = Append(due, data[1][1])
          /\ ecu_rx' = NoRx /\ UNCHANGED ecu_tx
      BY <2>9 DEF Takes, Take
    <3>3. requests' \in Seq(Seq(Chunk)) /\ due' \in Seq(1 .. MaxRequests)
      BY <3>1, <3>2 DEF EcuTypes
    <3> QED BY <2>1, <2>2, <3>2, <3>3 DEF EcuTypes, NoRx
  <2> QED BY <1>9, <2>5, <2>6, <2>7, <2>8, <2>9, ReceiveSteps DEF f
<1> QED BY <1>2, <1>4, <1>5, <1>6, <1>7, <1>8, <1>9 DEF Ecu

\* The bus only grows.
LEMMA BusGrows ==
  ASSUME [Next]_vars
  PROVE  bus' = bus \/ \E f : bus' = Append(bus, f)
BY BusSteps

LEMMA SeenKept ==
  ASSUME TypeInv, EcuTypes, RequestsSeen,
         bus' = bus \/ \E f : bus' = Append(bus, f),
         seen' = seen \/ seen' = seen + 1, requests' = requests,
         \/ ecu_rx' \in {NoRx, ecu_rx}
         \/ ecu_rx # NoRx /\ ecu_rx'.data # <<>> /\ ecu_rx'.data[1] = ecu_rx.data[1]
  PROVE  RequestsSeen'
<1>1. \A m : m \in SeenIds => m \in SeenIds' BY SeenStays
<1>2. ecu_rx' # NoRx =>
        ecu_rx # NoRx /\ ecu_rx'.data # <<>> /\ ecu_rx'.data[1][1] = ecu_rx.data[1][1]
  BY DEF RequestsSeen
<1>3. ecu_rx' # NoRx => ecu_rx'.data # <<>> /\ ecu_rx.data[1][1] \in SeenIds'
  BY <1>1, <1>2 DEF RequestsSeen, InHand
<1>4. \A i \in DOMAIN requests : requests[i] # <<>> /\ requests[i][1][1] \in SeenIds'
  BY <1>1 DEF RequestsSeen, Id
<1> QED BY <1>2, <1>3, <1>4 DEF RequestsSeen, InHand, Id

\* Why the ECU knows a frame's number.
LEMMA JustSeen ==
  ASSUME TypeInv, EcuTypes, seen < Len(bus), seen' = seen + 1, bus' = bus,
         bus[seen + 1].pci # "FC"
  PROVE  bus[seen + 1].data[1] \in SeenIds' /\ seen + 1 \in DOMAIN bus
<1>1. seen \in Nat /\ bus \in Seq(Frame)
  BY DEF EcuTypes, TypeInv, TypeOK, ChannelTypeOK
<1>2. seen + 1 \in 1 .. seen' /\ seen + 1 \in DOMAIN bus BY <1>1
<1> QED BY <1>2, BusNumbers DEF SeenIds

LEMMA RequestsSeenStep ==
  ASSUME TypeInv, BusOrdered, Numbered, EcuTypes, RequestsSeen, [Next]_vars,
         Ecu \/ Asleep
  PROVE  RequestsSeen'
<1>1. CASE Asleep
  BY <1>1, BusGrows, SeenKept DEF Asleep, ecu_rx_vars
<1>2. ASSUME NEW fs \in EcuStatuses, EcuFlowControl(fs) PROVE RequestsSeen'
  <2>1. /\ UNCHANGED <<bus, requests, seen>> /\ ecu_rx.owes
        /\ ecu_rx' \in {ecu_rx, NoRx, [ecu_rx EXCEPT !.owes = FALSE, !.block = EcuBlock]}
    <3>1. UNCHANGED <<bus, requests>> BY <1>2, EcuSilent
    <3> QED BY <1>2, <3>1 DEF EcuFlowControl
  <2>2. CASE ecu_rx' \in {ecu_rx, NoRx} BY <2>1, <2>2, SeenKept
  <2>3. CASE ecu_rx' = [ecu_rx EXCEPT !.owes = FALSE, !.block = EcuBlock]
    <3>1. ecu_rx'.data = ecu_rx.data /\ ecu_rx # NoRx
      BY <2>1, <2>3 DEF EcuTypes, NoRx
    <3> QED BY <2>1, <3>1, SeenKept DEF RequestsSeen
  <2> QED BY <2>1, <2>2, <2>3
<1>3. CASE \E cfs \in ResponseSizes : EcuAnswer(cfs) \/ EcuPeriodic(cfs)
  <2>1. UNCHANGED <<requests, seen, ecu_rx>>
    BY <1>3 DEF EcuAnswer, EcuPeriodic, ecu_rx_vars
  <2> QED BY <2>1, BusGrows, SeenKept
<1>4. CASE EcuConsecutiveFrame \/ EcuGivesUp \/ EcuMisses
  <2>1. UNCHANGED <<requests, ecu_rx>> /\ seen' \in {seen, seen + 1}
    BY <1>4 DEF EcuConsecutiveFrame, EcuGivesUp, EcuMisses, ecu_rx_vars
  <2> QED BY <2>1, BusGrows, SeenKept
<1>5. CASE EcuReceives
  <2> DEFINE f == bus[seen + 1]
  <2>1. /\ seen < Len(bus) /\ seen' = seen + 1 /\ bus' = bus
        /\ \/ UNCHANGED <<ecu_rx, requests>>
           \/ /\ f.pci # "FC"
              /\ Drops \/ Begins(f) \/ Goes(f) \/ \E data : Takes(f, data)
    BY <1>5, ReceiveSteps DEF vars
  <2>2. f.pci # "FC" => f.data[1] \in SeenIds' BY <2>1, JustSeen
  <2>3. f.pci # "FC" => f.data \in Chunk
    BY <2>1, JustSeen, FrameKinds DEF TypeInv, TypeOK, ChannelTypeOK
  <2> HIDE DEF f
  <2>4. CASE UNCHANGED <<ecu_rx, requests>> \/ Drops
    BY <2>1, <2>4, SeenKept DEF Drops
  <2>5. \A m : m \in SeenIds => m \in SeenIds' BY <2>1, SeenStays
  <2>6. CASE f.pci # "FC" /\ Begins(f)
    <3>1. ecu_rx'.data = <<f.data>> /\ requests' = requests BY <2>6 DEF Begins
    <3>2. ecu_rx'.data # <<>> /\ ecu_rx'.data[1][1] \in SeenIds' BY <2>2, <2>6, <3>1
    <3> QED BY <2>5, <3>1, <3>2 DEF RequestsSeen, InHand, Id
  <2>7. CASE f.pci # "FC" /\ Goes(f)
    <3>1. /\ ecu_rx.data \in Seq(Chunk) /\ ecu_rx.data # <<>> /\ ecu_rx # NoRx
          /\ requests' = requests
      BY <2>7 DEF Goes, Waits, EcuTypes, RequestsSeen
    <3>2. ecu_rx'.data = Append(ecu_rx.data, f.data) BY <2>7 DEF Goes, EcuTypes
    <3>3. ecu_rx'.data # <<>> /\ ecu_rx'.data[1] = ecu_rx.data[1]
      BY <2>3, <2>7, <3>1, <3>2
    <3> QED BY <2>1, <3>1, <3>3, SeenKept
  <2>8. ASSUME NEW data, f.pci # "FC", Takes(f, data) PROVE RequestsSeen'
    <3>1. data # <<>> /\ data[1][1] \in SeenIds'
      <4>1. CASE f.pci = "SF" /\ data = <<f.data>> BY <4>1, <2>2
      <4>2. CASE Waits(f) /\ data = Append(ecu_rx.data, f.data)
        <5>1. ecu_rx.data \in Seq(Chunk) /\ ecu_rx.data # <<>> /\ InHand \in SeenIds
          BY <4>2 DEF Waits, EcuTypes, RequestsSeen
        <5>2. data # <<>> /\ data[1] = ecu_rx.data[1] BY <2>3, <2>8, <4>2, <5>1
        <5> QED BY <2>5, <5>1, <5>2 DEF InHand
      <4> QED BY <2>8, <4>1, <4>2 DEF Takes
    <3>2. requests' = Append(requests, data) /\ ecu_rx' = NoRx
      BY <2>8 DEF Takes, Take
    <3>3. requests \in Seq(Seq(Chunk)) BY DEF EcuTypes
    <3>4. \A i \in DOMAIN requests' :
             \/ i \in DOMAIN requests /\ requests'[i] = requests[i]
             \/ requests'[i] = data
      BY <3>2, <3>3
    <3>5. \A i \in DOMAIN requests' : requests'[i] # <<>> /\ requests'[i][1][1] \in SeenIds'
      BY <2>5, <3>1, <3>4 DEF RequestsSeen, Id
    <3> QED BY <3>2, <3>5 DEF RequestsSeen, Id
  <2> QED BY <2>1, <2>4, <2>6, <2>7, <2>8
<1> QED BY <1>1, <1>2, <1>3, <1>4, <1>5 DEF Ecu

-----------------------------------------------------------------------------
(* The system runs in its types, and takes the gateway's steps only *)

\* TypeInv and AckInv are UdsGateway's.
SystemInv ==
  TypeInv /\ AckInv /\ Numbered /\ BusOrdered /\ EcuTypes /\ RequestsSeen

LEMMA SystemInvInit == SystemInit => SystemInv
<1> SUFFICES ASSUME SystemInit PROVE SystemInv
  OBVIOUS
<1>1. Init BY DEF SystemInit
<1>2. Numbered /\ BusOrdered
  BY <1>1, SystemAssumption DEF Init, Numbered, BusOrdered, Handling, NoMessage
<1> QED BY <1>1, <1>2, TypeInit, AckInit, EcuTypesInit DEF SystemInv

LEMMA SystemInvStep ==
  ASSUME SystemInv, [SystemNext]_system_vars
  PROVE  SystemInv' /\ [Next]_vars
<1> USE DEF SystemInv
<1>1. [Next]_vars BY GatewaySteps
<1>2. TypeInv' /\ AckInv' BY <1>1, TypeStep, AckStep
<1>3. Asleep \/ Ecu
  BY SystemSteps DEF Asleep, system_vars, ecu_vars, budget
<1>4. msgs' = msgs \/ (msgs < MaxRequests /\ msgs' = msgs + 1)
  <2>1. CASE Ecu BY <2>1, EcuFootprint DEF client_vars
  <2> QED BY <2>1, SystemSteps DEF system_vars, vars, client_vars
<1>5. /\ Numbered'
      /\ IF ReceiveMessage THEN cur.id < cur'.id ELSE cur' = cur
  BY <1>1, <1>4, NumberedStep
<1>6. cur'.id \in Nat BY <1>2 DEF TypeInv, TypeOK, TransferTypeOK, DoipMessage
<1>7. BusOrdered' BY <1>1, <1>5, <1>6, BusOrderedStep
<1>8. EcuTypes'
  <2>1. CASE Asleep
    <3>1. seen \in Nat /\ seen <= Len(bus') /\ Len(bus') \in Nat
      <4>1. bus \in Seq(Frame) /\ seen \in Nat /\ seen <= Len(bus)
        BY <1>1 DEF EcuTypes, TypeInv, TypeOK, ChannelTypeOK
      <4>2. CASE bus' = bus BY <4>1, <4>2
      <4>3. ASSUME NEW f, bus' = Append(bus, f)
            PROVE  seen <= Len(bus') /\ Len(bus') \in Nat
        <5>1. Len(bus) \in Nat /\ Len(bus') = Len(bus) + 1 BY <1>1, <4>3, BusAppended
        <5> QED BY <4>1, <5>1
      <4> QED BY <1>1, <4>1, <4>2, <4>3, BusGrows
    <3> QED BY <2>1, <3>1 DEF Asleep, EcuTypes, ecu_rx_vars, ecu_tx_vars
  <2> QED BY <1>3, <2>1, EcuTypesStep
<1>9. RequestsSeen' BY <1>1, <1>3, RequestsSeenStep
<1> QED BY <1>1, <1>2, <1>5, <1>7, <1>8, <1>9

\* Every variable of the gateway and the ECU keeps to its type, and the ECU is never
\* ahead of the bus.
THEOREM SystemTypeCorrect == SystemSpec => []SystemTypeOK
<1>1. SystemInv => SystemTypeOK
  <2> SUFFICES ASSUME SystemInv PROVE SystemTypeOK
    OBVIOUS
  <2>1. seen \in 0 .. Len(bus)
    BY DEF SystemInv, EcuTypes, TypeInv, TypeOK, ChannelTypeOK
  <2> QED BY <2>1 DEF SystemInv, EcuTypes, TypeInv, SystemTypeOK
<1> QED BY <1>1, SystemInvInit, SystemInvStep, PTL DEF SystemSpec

\* The system is a gateway: the ECU only sends it frames, the tester requests. What is
\* proved about UdsGateway holds of the system.
THEOREM SystemIsGateway == SystemSpec => Spec
<1>1. SystemInit => Init BY DEF SystemInit
<1>2. SystemInv /\ [SystemNext]_system_vars => [Next]_vars BY SystemInvStep
<1> QED BY <1>1, <1>2, SystemInvInit, SystemInvStep, PTL DEF SystemSpec, Spec

-----------------------------------------------------------------------------
(* The ECU gets the requests in order, and answers each once *)

\* What the ECU has put together grows in number; what it has in hand is newer.
RequestsGrow ==
  /\ \A i, j \in DOMAIN requests : i < j => Id(i) < Id(j)
  /\ ecu_rx # NoRx => \A i \in DOMAIN requests : Id(i) < InHand

\* The last requests are those it has still to answer.
Paid == Len(requests) - Len(due)
DueInv ==
  /\ Paid \in Nat
  /\ \A k \in DOMAIN due : due[k] = Id(Paid + k)

\* What it has sent is periodic data or a response to a request that is no longer due,
\* and no two messages of it have the same number.
AnswersInv ==
  /\ \A a \in DOMAIN answers :
       \/ \E n \in 1 .. periodic : answers[a].id = PeriodicId(n)
       \/ \E k \in 1 .. Paid : answers[a].id = ResponseTo(Id(k))
  /\ \A a, b \in DOMAIN answers : a # b => answers[a].id # answers[b].id

LogInv == RequestsGrow /\ DueInv /\ AnswersInv

\* The number of the next frame of the bus is newer than those of the whole requests
\* and that of the request in hand.
LEMMA NextStartNewer ==
  ASSUME SystemInv, seen < Len(bus), bus[seen + 1].pci \in {"SF", "FF"}
  PROVE  /\ \A m \in SeenIds : m < bus[seen + 1].data[1]
         /\ bus[seen + 1].data[1] \in Nat
<1>1. seen \in Nat /\ bus \in Seq(Frame)
  BY DEF SystemInv, EcuTypes, TypeInv, TypeOK, ChannelTypeOK
<1>2. seen + 1 \in DOMAIN bus BY <1>1
<1>3. ASSUME NEW m \in SeenIds PROVE m < bus[seen + 1].data[1]
  <2>1. PICK k \in 1 .. seen : bus[k].pci # "FC" /\ bus[k].data[1] = m
    BY DEF SeenIds
  <2>2. k \in DOMAIN bus /\ k < seen + 1 BY <1>1
  <2> QED BY <1>2, <2>1, <2>2 DEF SystemInv, BusOrdered, Started
<1> QED BY <1>2, <1>3, BusNumbers DEF SystemInv

\* What a step does to the ECU's logs.
Grows(data) ==
  /\ requests' = Append(requests, data) /\ due' = Append(due, data[1][1])
  /\ ecu_rx' = NoRx /\ UNCHANGED <<answers, periodic>>
HandsOver ==
  /\ \/ ecu_rx' = NoRx
     \/ ecu_rx # NoRx /\ ecu_rx'.data[1] = ecu_rx.data[1]
     \/ \A i \in DOMAIN requests : Id(i) < ecu_rx'.data[1][1]
  /\ UNCHANGED requests
StartsAnswer(m, cfs) ==
  /\ cfs \in Nat /\ m \in Nat
  /\ answers' = Append(answers, [id |-> m, cfs |-> cfs]) /\ UNCHANGED <<requests, ecu_rx>>
  /\ \/ /\ due # <<>> /\ due' = Tail(due) /\ m = ResponseTo(Head(due))
        /\ UNCHANGED periodic
     \/ periodic' = periodic + 1 /\ m = PeriodicId(periodic') /\ UNCHANGED due

LEMMA LogSteps ==
  ASSUME SystemInv, RequestsGrow, Ecu \/ Asleep
  PROVE  \/ HandsOver /\ UNCHANGED <<due, answers, periodic>>
         \/ \E data \in Seq(Chunk) :
              /\ Grows(data) /\ data # <<>>
              /\ \A i \in DOMAIN requests : Id(i) < data[1][1]
         \/ \E m, cfs : StartsAnswer(m, cfs)
<1>0. ecu_rx' = ecu_rx => ecu_rx' = NoRx \/ ecu_rx # NoRx OBVIOUS
<1>1. CASE Asleep
  BY <1>0, <1>1 DEF Asleep, ecu_rx_vars, ecu_tx_vars, HandsOver
<1>2. ASSUME NEW fs \in EcuStatuses, EcuFlowControl(fs)
      PROVE  HandsOver /\ UNCHANGED <<due, answers, periodic>>
  <2>1. /\ UNCHANGED <<requests, due, answers, periodic>> /\ ecu_rx.owes
        /\ ecu_rx' \in {ecu_rx, NoRx, [ecu_rx EXCEPT !.owes = FALSE, !.block = EcuBlock]}
    <3>1. UNCHANGED <<requests, due, answers, periodic>> BY <1>2, EcuSilent
    <3> QED BY <1>2, <3>1 DEF EcuFlowControl
  <2>2. ecu_rx # NoRx BY <2>1 DEF NoRx
  <2>3. ecu_rx' = NoRx \/ ecu_rx'.data = ecu_rx.data
    BY <2>1 DEF SystemInv, EcuTypes
  <2> QED BY <2>1, <2>2, <2>3 DEF HandsOver
<1>3. ASSUME NEW cfs \in ResponseSizes, EcuAnswer(cfs) \/ EcuPeriodic(cfs)
      PROVE  \E m, n : StartsAnswer(m, n)
  <2>1. EcuTypes /\ cfs \in Nat BY SystemAssumption DEF SystemInv
  <2>2. CASE EcuAnswer(cfs)
    <3>1. /\ due # <<>> /\ due' = Tail(due) /\ StartMessage(ResponseTo(Head(due)), cfs)
          /\ UNCHANGED <<requests, ecu_rx, periodic>>
      BY <2>2 DEF EcuAnswer
    <3>2. answers' = Append(answers, [id |-> ResponseTo(Head(due)), cfs |-> cfs])
      BY <3>1 DEF StartMessage
    <3>3. StartsAnswer(ResponseTo(Head(due)), cfs)
      BY <2>1, <3>1, <3>2, DueNumbers DEF StartsAnswer
    <3> QED BY <3>3
  <2>3. CASE EcuPeriodic(cfs)
    <3>1. /\ periodic' = periodic + 1 /\ StartMessage(PeriodicId(periodic'), cfs)
          /\ UNCHANGED <<requests, ecu_rx, due>>
      BY <2>3 DEF EcuPeriodic, ecu_rx_vars
    <3>2. answers' = Append(answers, [id |-> PeriodicId(periodic'), cfs |-> cfs])
      BY <3>1 DEF StartMessage
    <3>3. PeriodicId(periodic') \in Nat BY <2>1, <3>1 DEF EcuTypes, PeriodicId
    <3>4. StartsAnswer(PeriodicId(periodic'), cfs)
      BY <2>1, <3>1, <3>2, <3>3 DEF StartsAnswer
    <3> QED BY <3>4
  <2> QED BY <1>3, <2>2, <2>3
<1>4. CASE EcuConsecutiveFrame \/ EcuGivesUp \/ EcuMisses
  <2>1. UNCHANGED <<requests, due, answers, periodic>> BY <1>4, EcuSilent
  <2>2. ecu_rx' = ecu_rx
    BY <1>4 DEF EcuConsecutiveFrame, EcuGivesUp, EcuMisses, ecu_rx_vars
  <2> QED BY <2>1, <2>2, <1>0 DEF HandsOver
<1>5. CASE EcuReceives
  <2> DEFINE f == bus[seen + 1]
  <2>1. /\ seen < Len(bus) /\ UNCHANGED <<answers, periodic>>
        /\ \/ UNCHANGED <<ecu_rx, requests, due>>
           \/ /\ f.pci # "FC"
              /\ Drops \/ Begins(f) \/ Goes(f) \/ \E data : Takes(f, data)
    BY <1>5, ReceiveSteps
  <2>2. f.pci # "FC" => f.data \in Chunk
    <3>1. bus \in Seq(Frame) /\ seen \in Nat
      BY DEF SystemInv, TypeInv, TypeOK, ChannelTypeOK, EcuTypes
    <3>2. f \in Frame BY <2>1, <3>1
    <3> HIDE DEF f
    <3> QED BY <3>2, FrameKinds
  <2>3. f.pci \in {"SF", "FF"} => \A i \in DOMAIN requests : Id(i) < f.data[1]
    BY <2>1, NextStartNewer DEF SystemInv, RequestsSeen
  <2> HIDE DEF f
  <2>4. CASE UNCHANGED <<ecu_rx, requests, due>> \/ Drops
    BY <2>1, <2>4, <1>0 DEF Drops, HandsOver
  <2>5. CASE Begins(f)
    <3>1. ecu_rx'.data[1] = f.data /\ f.pci = "FF" /\ UNCHANGED <<requests, due>>
      BY <2>5 DEF Begins
    <3> QED BY <2>1, <2>3, <3>1 DEF HandsOver
  <2>6. f.pci # "FC" /\ Waits(f) =>
          /\ ecu_rx.data \in Seq(Chunk) /\ ecu_rx.data # <<>> /\ ecu_rx # NoRx
          /\ Append(ecu_rx.data, f.data)[1] = ecu_rx.data[1]
          /\ Append(ecu_rx.data, f.data) \in Seq(Chunk)
          /\ Append(ecu_rx.data, f.data) # <<>>
    <3>1. ASSUME NEW s \in Seq(Chunk), NEW c \in Chunk, s # <<>>
          PROVE  Append(s, c) \in Seq(Chunk) /\ Append(s, c)[1] = s[1] /\ Append(s, c) # <<>>
      BY <3>1
    <3>2. ecu_rx.data \in Seq(Chunk) BY DEF SystemInv, EcuTypes
    <3>3. ecu_rx # NoRx => ecu_rx.data # <<>> BY DEF SystemInv, RequestsSeen
    <3> QED BY <2>2, <3>1, <3>2, <3>3 DEF Waits
  <2>7. CASE f.pci # "FC" /\ Goes(f)
    <3>1. ecu_rx'.data = Append(ecu_rx.data, f.data) /\ UNCHANGED <<requests, due>>
      BY <2>7 DEF Goes, SystemInv, EcuTypes
    <3> QED BY <2>1, <2>6, <2>7, <3>1 DEF HandsOver, Goes
  <2>8. ASSUME NEW data, f.pci # "FC", Takes(f, data)
        PROVE  /\ data \in Seq(Chunk) /\ Grows(data) /\ data # <<>>
               /\ \A i \in DOMAIN requests : Id(i) < data[1][1]
    <3>1. Grows(data) BY <2>1, <2>8 DEF Grows, Takes, Take
    <3>2. CASE f.pci = "SF" /\ data = <<f.data>> BY <2>2, <2>3, <3>1, <3>2
    <3>3. CASE Waits(f) /\ data = Append(ecu_rx.data, f.data)
      BY <2>6, <2>8, <3>1, <3>3 DEF RequestsGrow, InHand
    <3> QED BY <2>8, <3>2, <3>3 DEF Takes
  <2> QED BY <2>1, <2>4, <2>5, <2>7, <2>8
<1> QED BY <1>1, <1>2, <1>3, <1>4, <1>5 DEF Ecu

LEMMA LogInit == SystemInit => LogInv
  BY DEF SystemInit, LogInv, RequestsGrow, DueInv, AnswersInv, Paid

\* A request's number is a number.
LEMMA IdNumbers ==
  ASSUME SystemInv, NEW i \in DOMAIN requests
  PROVE  Id(i) \in Nat
BY DEF SystemInv, RequestsSeen, SeenIds

LEMMA AnswerNumbers ==
  ASSUME SystemInv
  PROVE  /\ answers \in Seq([id : Nat, cfs : Nat]) /\ periodic \in Nat
         /\ \A a \in DOMAIN answers : answers[a].id \in Nat
<1>1. answers \in Seq([id : Nat, cfs : Nat]) /\ periodic \in Nat BY DEF SystemInv, EcuTypes
<1>2. \A a \in DOMAIN answers : answers[a] \in [id : Nat, cfs : Nat] BY <1>1, Elements
<1> QED BY <1>1, <1>2

LEMMA GrowthStep ==
  ASSUME SystemInv, LogInv, NEW data \in Seq(Chunk), Grows(data), data # <<>>,
         \A i \in DOMAIN requests : Id(i) < data[1][1]
  PROVE  LogInv'
<1>1. /\ requests \in Seq(Seq(Chunk)) /\ due \in Seq(1 .. MaxRequests)
      /\ requests' = Append(requests, data) /\ due' = Append(due, data[1][1])
      /\ ecu_rx' = NoRx /\ UNCHANGED <<answers, periodic>>
  BY DEF SystemInv, EcuTypes, Grows
<1>2. /\ DOMAIN requests = 1 .. Len(requests) /\ Len(requests) \in Nat
      /\ DOMAIN requests' = 1 .. Len(requests) + 1 /\ Len(requests') = Len(requests) + 1
      /\ requests'[Len(requests) + 1] = data
      /\ \A i \in DOMAIN requests : requests'[i] = requests[i]
  BY <1>1
<1>3. /\ DOMAIN due = 1 .. Len(due) /\ Len(due) \in Nat
      /\ DOMAIN due' = 1 .. Len(due) + 1 /\ Len(due') = Len(due) + 1
      /\ due'[Len(due) + 1] = data[1][1]
      /\ \A k \in DOMAIN due : due'[k] = due[k]
  BY <1>1
<1>4. Paid' = Paid /\ Paid \in Nat /\ Paid + Len(due) = Len(requests)
  BY <1>2, <1>3 DEF Paid, LogInv, DueInv
<1>5. \A i \in DOMAIN requests : Id(i)' = Id(i) BY <1>2 DEF Id
<1>7. RequestsGrow'
  <2>1. ASSUME NEW i \in DOMAIN requests', NEW j \in DOMAIN requests', i < j
        PROVE  requests'[i][1][1] < requests'[j][1][1]
    <3>1. i \in DOMAIN requests BY <1>2, <2>1
    <3>2. CASE j \in DOMAIN requests
      BY <1>2, <2>1, <3>1, <3>2 DEF LogInv, RequestsGrow, Id
    <3>3. CASE j = Len(requests) + 1 BY <1>2, <3>1, <3>3 DEF Id
    <3> QED BY <1>2, <3>2, <3>3
  <2> QED BY <1>1, <2>1 DEF RequestsGrow, Id
<1>8. DueInv'
  <2>1. ASSUME NEW k \in DOMAIN due' PROVE due'[k] = requests'[Paid + k][1][1]
    <3>1. CASE k \in DOMAIN due
      <4>1. Paid + k \in DOMAIN requests BY <1>2, <1>3, <1>4, <3>1
      <4> QED BY <1>2, <1>3, <3>1, <4>1 DEF LogInv, DueInv, Id
    <3>2. CASE k = Len(due) + 1 BY <1>2, <1>3, <1>4, <3>2
    <3> QED BY <1>3, <3>1, <3>2
  <2> QED BY <1>4, <2>1 DEF DueInv, Id
<1>9. AnswersInv'
  <2>1. \A k \in 1 .. Paid : Id(k)' = Id(k) BY <1>2, <1>3, <1>4, <1>5
  <2> QED BY <1>1, <1>4, <2>1 DEF AnswersInv, LogInv, Id
<1> QED BY <1>7, <1>8, <1>9 DEF LogInv

LEMMA HandOverStep ==
  ASSUME LogInv, HandsOver, UNCHANGED <<due, answers, periodic>>
  PROVE  LogInv'
<1>1. requests' = requests BY DEF HandsOver
<1>2. RequestsGrow' BY <1>1 DEF LogInv, RequestsGrow, HandsOver, Id, InHand
<1>3. DueInv' /\ AnswersInv' BY <1>1 DEF LogInv, DueInv, AnswersInv, Paid, Id
<1> QED BY <1>2, <1>3 DEF LogInv

\* A message that is begun has a number no message had.
LEMMA NewAnswer ==
  ASSUME SystemInv, LogInv, NEW m, NEW cfs, StartsAnswer(m, cfs)
  PROVE  \A a \in DOMAIN answers : answers[a].id # m
<1>1. /\ periodic \in Nat /\ \A a \in DOMAIN answers : answers[a].id \in Nat
  BY AnswerNumbers
<1>2. \A i \in DOMAIN requests : Id(i) \in Nat BY IdNumbers
<1>3. DOMAIN requests = 1 .. Len(requests) /\ Len(requests) \in Nat
  BY Elements DEF SystemInv, EcuTypes
<1>4. Paid \in Nat /\ Paid <= Len(requests)
  <2>1. Len(due) \in Nat BY Elements DEF SystemInv, EcuTypes
  <2> QED BY <1>3, <2>1 DEF LogInv, DueInv, Paid
<1>5. \A k \in 1 .. Paid : k \in DOMAIN requests BY <1>3, <1>4
<1> SUFFICES ASSUME NEW a \in DOMAIN answers PROVE answers[a].id # m
  OBVIOUS
<1>6. CASE periodic' = periodic + 1 /\ m = PeriodicId(periodic')
  <2>1. ASSUME NEW n \in 1 .. periodic PROVE PeriodicId(n) # m
    BY <1>1, <1>6 DEF PeriodicId
  <2>2. ASSUME NEW k \in 1 .. Paid PROVE ResponseTo(Id(k)) # m
    BY <1>1, <1>2, <1>5, <1>6 DEF PeriodicId, ResponseTo
  <2> QED BY <2>1, <2>2 DEF LogInv, AnswersInv
<1>7. CASE due # <<>> /\ m = ResponseTo(Head(due))
  <2>1. /\ 1 \in DOMAIN due /\ Head(due) = due[1] /\ DOMAIN due = 1 .. Len(due)
        /\ Len(due) \in Nat
    BY <1>7, Tailed DEF SystemInv, EcuTypes
  <2>2. Head(due) = Id(Paid + 1) /\ Paid + 1 \in DOMAIN requests
    BY <1>3, <1>4, <2>1 DEF LogInv, DueInv, Paid
  <2>3. ASSUME NEW n \in 1 .. periodic PROVE PeriodicId(n) # m
    BY <1>1, <1>2, <1>7, <2>2 DEF PeriodicId, ResponseTo
  <2>4. ASSUME NEW k \in 1 .. Paid PROVE ResponseTo(Id(k)) # m
    <3>1. Id(k) < Id(Paid + 1) BY <1>4, <1>5, <2>2 DEF LogInv, RequestsGrow
    <3> QED BY <1>2, <1>5, <1>7, <2>2, <3>1 DEF ResponseTo
  <2> QED BY <2>3, <2>4 DEF LogInv, AnswersInv
<1> QED BY <1>6, <1>7 DEF StartsAnswer

LEMMA AnswerStep ==
  ASSUME SystemInv, LogInv, NEW m, NEW cfs, StartsAnswer(m, cfs)
  PROVE  LogInv'
<1>1. /\ DOMAIN answers = 1 .. Len(answers) /\ DOMAIN answers' = 1 .. Len(answers) + 1
      /\ Len(answers) \in Nat /\ answers'[Len(answers) + 1].id = m
      /\ \A a \in DOMAIN answers : answers'[a] = answers[a]
  <2>1. answers' = Append(answers, [id |-> m, cfs |-> cfs]) BY DEF StartsAnswer
  <2> QED BY <2>1, AnswerNumbers, Appended
<1>2. UNCHANGED <<requests, ecu_rx>> BY DEF StartsAnswer
<1>3. RequestsGrow' BY <1>2 DEF LogInv, RequestsGrow, Id, InHand
<1>4. periodic \in Nat BY AnswerNumbers
<1>5. /\ Len(due) \in Nat /\ Len(requests) \in Nat /\ Paid \in Nat
      /\ DOMAIN due = 1 .. Len(due)
  BY Elements DEF SystemInv, EcuTypes, LogInv, DueInv
<1>6. \A a, b \in DOMAIN answers' : a # b => answers'[a].id # answers'[b].id
  BY <1>1, NewAnswer DEF LogInv, AnswersInv
<1>7. CASE /\ due # <<>> /\ due' = Tail(due) /\ m = ResponseTo(Head(due))
           /\ UNCHANGED periodic
  <2>1. /\ 1 \in DOMAIN due /\ Head(due) = due[1] /\ Len(due') = Len(due) - 1
        /\ DOMAIN due' = 1 .. Len(due) - 1
        /\ \A i \in DOMAIN due' : due'[i] = due[i + 1] /\ i + 1 \in DOMAIN due
    BY <1>7, Tailed DEF SystemInv, EcuTypes
  <2>2. Paid' = Paid + 1 BY <1>2, <1>5, <2>1 DEF Paid
  <2>3. ASSUME NEW k \in DOMAIN due' PROVE due'[k] = requests[Paid + 1 + k][1][1]
    <3>1. due'[k] = Id(Paid + (k + 1)) BY <2>1 DEF LogInv, DueInv
    <3>2. Paid + (k + 1) = Paid + 1 + k BY <1>5, <2>1
    <3> QED BY <3>1, <3>2 DEF Id
  <2>4. DueInv' BY <1>2, <1>5, <2>2, <2>3 DEF DueInv, Id
  <2>5. m = ResponseTo(Id(Paid + 1)) BY <1>7, <2>1 DEF LogInv, DueInv
  <2>6. ASSUME NEW a \in DOMAIN answers'
        PROVE  \/ \E n \in 1 .. periodic : answers'[a].id = PeriodicId(n)
               \/ \E k \in 1 .. Paid + 1 : answers'[a].id = ResponseTo(Id(k))
    <3>1. CASE a \in DOMAIN answers
      BY <1>1, <1>5, <3>1 DEF LogInv, AnswersInv
    <3>2. CASE a = Len(answers) + 1 BY <1>1, <1>5, <2>5, <3>2
    <3> QED BY <1>1, <3>1, <3>2
  <2>7. AnswersInv' BY <1>2, <1>6, <1>7, <2>2, <2>6 DEF AnswersInv, Id
  <2> QED BY <1>3, <2>4, <2>7 DEF LogInv
<1>8. CASE periodic' = periodic + 1 /\ m = PeriodicId(periodic') /\ UNCHANGED due
  <2>1. DueInv' /\ Paid' = Paid BY <1>2, <1>8 DEF LogInv, DueInv, Paid, Id
  <2>2. ASSUME NEW a \in DOMAIN answers'
        PROVE  \/ \E n \in 1 .. periodic + 1 : answers'[a].id = PeriodicId(n)
               \/ \E k \in 1 .. Paid : answers'[a].id = ResponseTo(Id(k))
    <3>1. CASE a \in DOMAIN answers
      BY <1>1, <1>4, <3>1 DEF LogInv, AnswersInv
    <3>2. CASE a = Len(answers) + 1 BY <1>1, <1>4, <1>8, <3>2
    <3> QED BY <1>1, <3>1, <3>2
  <2>3. AnswersInv' BY <1>2, <1>6, <1>8, <2>1, <2>2 DEF AnswersInv, Id
  <2> QED BY <1>3, <2>1, <2>3 DEF LogInv
<1> QED BY <1>7, <1>8 DEF StartsAnswer

LEMMA LogStep ==
  ASSUME SystemInv, LogInv, [SystemNext]_system_vars
  PROVE  LogInv'
<1>1. Asleep \/ Ecu
  BY SystemSteps DEF Asleep, system_vars, ecu_vars, budget
<1>2. RequestsGrow BY DEF LogInv
<1> QED BY <1>1, <1>2, LogSteps, HandOverStep, GrowthStep, AnswerStep

-----------------------------------------------------------------------------
(* What the gateway relays to the tester *)

\* The forwarder has the beginning of a response, if not all of it.
Live == fpc \in {"cfs", "resp", "resp_w"}
BufferId == uds_rx_buffer[1][1]
IsStart(i) == can_rx[i].pci \in {"SF", "FF"}
StartId(i) == can_rx[i].data[1]
IsResponse(j) == to_tester[j].type = "response"
ResponseId(j) == to_tester[j].data[1][1]

\* How a response goes through the gateway.
Keeps ==
  /\ \/ can_rx' \in {can_rx, <<>>}
     \/ can_rx # <<>> /\ can_rx' = Tail(can_rx)
  /\ Live' => /\ Live /\ \/ uds_rx_buffer' = uds_rx_buffer
                         \/ \E c \in Chunk : uds_rx_buffer' = Append(uds_rx_buffer, c)
  /\ \/ to_tester' = to_tester
     \/ \E r : to_tester' = Append(to_tester, r) /\ r.type # "response"
PicksUp ==
  /\ can_rx # <<>> /\ can_rx' = Tail(can_rx)
  /\ Head(can_rx).pci \in {"SF", "FF"} /\ uds_rx_buffer' = <<Head(can_rx).data>>
  /\ UNCHANGED to_tester
HandsOn ==
  /\ Live /\ ~Live' /\ UNCHANGED can_rx
  /\ to_tester' = Append(to_tester, DoipResponse(uds_rx_buffer))

LEMMA RelaySteps ==
  ASSUME TypeInv, GatewayStep
  PROVE  Keeps \/ PicksUp \/ HandsOn
<1> USE DEF Keeps, Live, client_vars, can_vars, rx_vars
<1>1. CASE Accept \/ TesterStep
  BY <1>1 DEF Accept, TesterStep, TesterSends, TesterCloses, Main
<1>2. CASE MainStep
  <2>1. CASE OpenSession \/ SetupFails \/ Teardown \/ CloseSession
    BY <2>1 DEF OpenSession, SetupFails, Teardown, CloseSession, Main, Join
  <2>2. CASE EndRoutingReply
    <3> DEFINE ok == [type |-> "routing_ok", id |-> cur.id]
               r == IF peer = "reset" THEN Refused(ok.id) ELSE ok
    <3>1. to_tester' = Append(to_tester, r) /\ r.type # "response"
      BY <2>2 DEF EndRoutingReply, EndReply, EndWrite, Refused
    <3> HIDE DEF r
    <3> QED BY <2>2, <3>1 DEF EndRoutingReply, EndReply
  <2>3. CASE EndAck
    <3> DEFINE ack == Ack(cur.id)
               r == IF peer = "reset" THEN Refused(ack.id) ELSE ack
    <3>1. to_tester' = Append(to_tester, r) /\ r.type # "response"
      BY <2>3 DEF EndAck, EndReply, EndWrite, Ack, Refused
    <3> HIDE DEF r
    <3> QED BY <2>3, <3>1 DEF EndAck, EndReply
  <2>4. CASE LoopHead \/ ReceiveMessage \/ ConnectionLost \/ BeginRoutingReply \/ BeginAck
    BY <2>4 DEF LoopHead, ReceiveMessage, ConnectionLost, BeginRoutingReply, BeginAck,
       BeginReply, BeginWrite
  <2>5. CASE \/ \E ok \in BOOLEAN : SendSingleFrame(ok) \/ SendFirstFrame(ok)
             \/ TakeFlowControl \/ FlowControlTimeout
             \/ SendConsecutiveFrame \/ AbortTransfer
    BY <2>5 DEF SendSingleFrame, SendFirstFrame, TakeFlowControl, FlowControlTimeout,
       SendConsecutiveFrame, AbortTransfer
  <2> QED BY <1>2, <2>1, <2>2, <2>3, <2>4, <2>5 DEF MainStep
<1>3. CASE ForwarderStep
  <2> USE DEF Fwd, Read
  <2>1. CASE FwdLoop \/ FwdTimeout \/ FwdCfTimeout
    BY <2>1 DEF FwdLoop, FwdTimeout, FwdCfTimeout, LoopOrDone
  <2>2. CASE FwdFlowControl \/ FwdStray \/ FwdUnexpected
    BY <2>2 DEF FwdFlowControl, FwdStray, FwdUnexpected, LoopOrDone
  <2>3. CASE FwdSingleFrame \/ \E ok \in BOOLEAN : FwdFirstFrame(ok)
    BY <2>3 DEF FwdSingleFrame, FwdFirstFrame, PicksUp
  <2>4. CASE FwdConsecutiveFrame
    <3> DEFINE c == Head(can_rx).data
    <3>1. /\ can_rx # <<>> /\ can_rx' = Tail(can_rx) /\ UNCHANGED to_tester
          /\ fpc = "cfs" /\ uds_rx_buffer' = Append(uds_rx_buffer, c)
          /\ Head(can_rx).pci = "CF"
      BY <2>4 DEF FwdConsecutiveFrame
    <3>2. Head(can_rx) \in Frame
      BY <3>1, Tailed DEF TypeInv, TypeOK, ChannelTypeOK
    <3>3. c \in Chunk BY <3>1, <3>2, FrameKinds
    <3> HIDE DEF c
    <3> QED BY <3>1, <3>3
  <2>5. CASE FwdBeginWrite
    BY <2>5 DEF FwdBeginWrite, BeginWrite
  <2>6. CASE FwdEndWrite
    BY <2>6 DEF FwdEndWrite, EndWrite, HandsOn
  <2>7. CASE FwdWriteFails
    BY <2>7 DEF FwdWriteFails
  <2> QED BY <1>3, <2>1, <2>2, <2>3, <2>4, <2>5, <2>6, <2>7 DEF ForwarderStep
<1> QED BY <1>1, <1>2, <1>3 DEF GatewayStep

\* What the ECU sends starts a message that was not begun yet, or no message at all.
LEMMA EcuSends ==
  ASSUME Ecu
  PROVE  \/ can_rx' = can_rx
         \/ \E f : /\ can_rx' = Append(can_rx, f)
                   /\ \/ f.pci \in {"FC", "CF"} /\ UNCHANGED answers
                      \/ /\ f.pci \in {"SF", "FF"}
                         /\ \E cfs : answers' = Append(answers, [id |-> f.data[1],
                                                                 cfs |-> cfs])
<1>1. ASSUME NEW f, Send(f)
      PROVE  can_rx' = can_rx \/ can_rx' = Append(can_rx, f)
  BY <1>1 DEF Send, BusDelivers, vars, can_vars
<1>2. ASSUME NEW fs \in EcuStatuses, EcuFlowControl(fs)
      PROVE  \E f : /\ can_rx' = can_rx \/ can_rx' = Append(can_rx, f)
                    /\ f.pci \in {"FC", "CF"} /\ UNCHANGED answers
  <2> DEFINE f == FC(fs, BlockSize, InHand)
  <2>1. Send(f) BY <1>2 DEF EcuFlowControl, InHand
  <2>2. f.pci = "FC" BY DEF FC
  <2>3. UNCHANGED answers BY <1>2 DEF EcuFlowControl, ecu_tx_vars
  <2> HIDE DEF f
  <2> QED BY <1>1, <2>1, <2>2, <2>3
<1>3. ASSUME NEW m, NEW cfs, StartMessage(m, cfs)
      PROVE  \E f : /\ can_rx' = can_rx \/ can_rx' = Append(can_rx, f)
                    /\ f.pci \in {"SF", "FF"}
                    /\ \E n : answers' = Append(answers, [id |-> f.data[1], cfs |-> n])
  <2>1. PICK f \in {SF(m), FF(m, cfs)} : Send(f) BY <1>3 DEF StartMessage
  <2>2. f.pci \in {"SF", "FF"} /\ f.data[1] = m BY DEF SF, FF
  <2>3. answers' = Append(answers, [id |-> f.data[1], cfs |-> cfs])
    BY <1>3, <2>2 DEF StartMessage
  <2> QED BY <1>1, <2>1, <2>2, <2>3
<1>4. CASE \E cfs \in ResponseSizes : EcuAnswer(cfs) \/ EcuPeriodic(cfs)
  BY <1>3, <1>4 DEF EcuAnswer, EcuPeriodic
<1>5. CASE EcuConsecutiveFrame
  <2> DEFINE k == ecu_tx.sent + 1
             f == CF(ecu_tx.id, k, k % SeqMod)
  <2>1. Send(f) BY <1>5 DEF EcuConsecutiveFrame
  <2>2. f.pci = "CF" BY DEF CF
  <2>3. UNCHANGED answers BY <1>5 DEF EcuConsecutiveFrame
  <2> HIDE DEF f
  <2> QED BY <1>1, <2>1, <2>2, <2>3
<1>6. CASE EcuGivesUp \/ EcuReceives \/ EcuMisses
  BY <1>6 DEF EcuGivesUp, EcuReceives, EcuMisses, vars, can_vars
<1> QED BY <1>2, <1>4, <1>5, <1>6 DEF Ecu

\* The messages the ECU began, and the order in which it began them.
AnswerIds == {answers[a].id : a \in DOMAIN answers}
Order == {p \in Nat \X Nat : \E a, b \in DOMAIN answers :
                               a < b /\ answers[a].id = p[1] /\ answers[b].id = p[2]}

\* Every start of a message on its way to the tester is of one the ECU began.
FromEcu ==
  /\ \A i \in DOMAIN can_rx : IsStart(i) => StartId(i) \in AnswerIds
  /\ Live => uds_rx_buffer # <<>> /\ BufferId \in AnswerIds
  /\ \A j \in DOMAIN to_tester : IsResponse(j) => ResponseId(j) \in AnswerIds

\* They are in the order in which it began them: those with the tester, the one in the
\* forwarder's buffer, those in the socket's.
InSequence ==
  /\ \A i, l \in DOMAIN can_rx :
       i < l /\ IsStart(i) /\ IsStart(l) => <<StartId(i), StartId(l)>> \in Order
  /\ Live => \A i \in DOMAIN can_rx : IsStart(i) => <<BufferId, StartId(i)>> \in Order
  /\ \A j \in DOMAIN to_tester : IsResponse(j) =>
       /\ Live => <<ResponseId(j), BufferId>> \in Order
       /\ \A i \in DOMAIN can_rx : IsStart(i) => <<ResponseId(j), StartId(i)>> \in Order
       /\ \A l \in DOMAIN to_tester :
            j < l /\ IsResponse(l) => <<ResponseId(j), ResponseId(l)>> \in Order

RelayInv == FromEcu /\ InSequence

LEMMA RelayInit == SystemInit => RelayInv
  BY DEF SystemInit, Init, RelayInv, FromEcu, InSequence, Live

\* What was begun stays begun, in the same order, and a new message comes last.
LEMMA OrderStays ==
  ASSUME SystemInv, answers' = answers \/ \E e : answers' = Append(answers, e)
  PROVE  AnswerIds \subseteq AnswerIds' /\ Order \subseteq Order'
<1>1. CASE answers' = answers BY <1>1 DEF AnswerIds, Order
<1>2. ASSUME NEW e, answers' = Append(answers, e)
      PROVE  AnswerIds \subseteq AnswerIds' /\ Order \subseteq Order'
  <2>1. \A a \in DOMAIN answers : a \in DOMAIN answers' /\ answers'[a] = answers[a]
    BY <1>2, AnswerNumbers, Appended
  <2> QED BY <2>1 DEF AnswerIds, Order
<1> QED BY <1>1, <1>2

LEMMA NewIsLast ==
  ASSUME SystemInv, NEW m \in Nat, NEW cfs,
         answers' = Append(answers, [id |-> m, cfs |-> cfs])
  PROVE  m \in AnswerIds' /\ \A x \in AnswerIds : <<x, m>> \in Order'
<1>1. /\ DOMAIN answers = 1 .. Len(answers) /\ DOMAIN answers' = 1 .. Len(answers) + 1
      /\ Len(answers) \in Nat /\ answers'[Len(answers) + 1].id = m
      /\ \A a \in DOMAIN answers : answers'[a] = answers[a]
  BY AnswerNumbers, Appended
<1>2. m \in AnswerIds' BY <1>1 DEF AnswerIds
<1>3. ASSUME NEW x \in AnswerIds PROVE <<x, m>> \in Order'
  <2>1. PICK a \in DOMAIN answers : answers[a].id = x BY DEF AnswerIds
  <2>2. x \in Nat BY <2>1, AnswerNumbers
  <2>3. /\ a \in DOMAIN answers' /\ answers'[a].id = x /\ a < Len(answers) + 1
        /\ Len(answers) + 1 \in DOMAIN answers'
    BY <1>1, <2>1
  <2> QED BY <1>1, <2>2, <2>3 DEF Order
<1> QED BY <1>2, <1>3

\* The socket's buffer after a read, or when it is emptied.
LEMMA Shifted ==
  ASSUME TypeInv, \/ can_rx' \in {can_rx, <<>>}
                  \/ can_rx # <<>> /\ can_rx' = Tail(can_rx)
  PROVE  \E d \in {0, 1} : \A i \in DOMAIN can_rx' :
           i + d \in DOMAIN can_rx /\ can_rx'[i] = can_rx[i + d] /\ i \in Int
<1>1. can_rx \in Seq(Frame) BY DEF TypeInv, TypeOK, ChannelTypeOK
<1>2. CASE can_rx' = can_rx
  <2>1. \A i \in DOMAIN can_rx' :
          i + 0 \in DOMAIN can_rx /\ can_rx'[i] = can_rx[i + 0] /\ i \in Int
    BY <1>1, <1>2, Elements
  <2> QED BY <2>1
<1>3. CASE can_rx' = <<>> BY <1>3
<1>4. CASE can_rx # <<>> /\ can_rx' = Tail(can_rx)
  <2>1. \A i \in DOMAIN can_rx' :
          i + 1 \in DOMAIN can_rx /\ can_rx'[i] = can_rx[i + 1] /\ i \in Int
    BY <1>1, <1>4, Tailed
  <2> QED BY <2>1
<1> QED BY <1>2, <1>3, <1>4

LEMMA KeepsStep ==
  ASSUME SystemInv, RelayInv, Keeps, UNCHANGED answers
  PROVE  RelayInv'
<1>1. AnswerIds' = AnswerIds /\ Order' = Order BY DEF AnswerIds, Order
<1>2. PICK d \in {0, 1} : \A i \in DOMAIN can_rx' :
        i + d \in DOMAIN can_rx /\ can_rx'[i] = can_rx[i + d] /\ i \in Int
  BY Shifted DEF SystemInv, Keeps
<1>3. \A j \in DOMAIN to_tester' : to_tester'[j].type = "response" =>
         j \in DOMAIN to_tester /\ to_tester'[j] = to_tester[j]
  <2>1. to_tester \in Seq(Reply \cup Response)
    BY DEF SystemInv, TypeInv, TypeOK, ChannelTypeOK
  <2> QED BY <2>1, Appended DEF Keeps
<1>4. Live' => /\ Live /\ uds_rx_buffer # <<>> /\ uds_rx_buffer' # <<>>
               /\ uds_rx_buffer'[1] = uds_rx_buffer[1]
  <2>1. uds_rx_buffer \in Seq(Chunk)
    BY DEF SystemInv, TypeInv, TypeOK, ReassemblyTypeOK
  <2>2. ASSUME NEW c \in Chunk, uds_rx_buffer # <<>>
        PROVE  /\ Append(uds_rx_buffer, c) # <<>>
               /\ Append(uds_rx_buffer, c)[1] = uds_rx_buffer[1]
    BY <2>1, <2>2
  <2>3. Live => uds_rx_buffer # <<>> BY DEF RelayInv, FromEcu
  <2> QED BY <2>2, <2>3 DEF Keeps
<1>5. FromEcu'
  BY <1>1, <1>2, <1>3, <1>4
  DEF RelayInv, FromEcu, IsStart, StartId, BufferId, IsResponse, ResponseId
<1>6. InSequence'
  <2>1. \A i, l \in DOMAIN can_rx' :
          /\ i < l /\ can_rx'[i].pci \in {"SF", "FF"} /\ can_rx'[l].pci \in {"SF", "FF"}
          => <<can_rx'[i].data[1], can_rx'[l].data[1]>> \in Order
    BY <1>2 DEF RelayInv, InSequence, IsStart, StartId
  <2>2. Live' => \A i \in DOMAIN can_rx' : can_rx'[i].pci \in {"SF", "FF"} =>
                   <<uds_rx_buffer'[1][1], can_rx'[i].data[1]>> \in Order
    BY <1>2, <1>4 DEF RelayInv, InSequence, IsStart, StartId, BufferId
  <2>3. \A j \in DOMAIN to_tester' : to_tester'[j].type = "response" =>
          /\ Live' => <<to_tester'[j].data[1][1], uds_rx_buffer'[1][1]>> \in Order
          /\ \A i \in DOMAIN can_rx' : can_rx'[i].pci \in {"SF", "FF"} =>
               <<to_tester'[j].data[1][1], can_rx'[i].data[1]>> \in Order
          /\ \A l \in DOMAIN to_tester' : j < l /\ to_tester'[l].type = "response" =>
               <<to_tester'[j].data[1][1], to_tester'[l].data[1][1]>> \in Order
    BY <1>2, <1>3, <1>4
    DEF RelayInv, InSequence, IsStart, StartId, BufferId, IsResponse, ResponseId
  <2> QED BY <1>1, <2>1, <2>2, <2>3
       DEF InSequence, IsStart, StartId, BufferId, IsResponse, ResponseId
<1> QED BY <1>5, <1>6 DEF RelayInv

LEMMA PicksUpStep ==
  ASSUME SystemInv, RelayInv, PicksUp, UNCHANGED answers
  PROVE  RelayInv'
<1>1. /\ AnswerIds' = AnswerIds /\ Order' = Order /\ to_tester' = to_tester
      /\ uds_rx_buffer' = <<Head(can_rx).data>>
  BY DEF AnswerIds, Order, PicksUp
<1>2. /\ 1 \in DOMAIN can_rx /\ Head(can_rx) = can_rx[1]
      /\ \A i \in DOMAIN can_rx' : /\ i + 1 \in DOMAIN can_rx /\ 1 < i + 1
                                   /\ can_rx'[i] = can_rx[i + 1] /\ i \in Int
  <2>1. can_rx \in Seq(Frame) /\ can_rx # <<>> /\ can_rx' = Tail(can_rx)
    BY DEF SystemInv, TypeInv, TypeOK, ChannelTypeOK, PicksUp
  <2> QED BY <2>1, Tailed
<1>3. /\ can_rx[1].pci \in {"SF", "FF"} /\ uds_rx_buffer' # <<>>
      /\ uds_rx_buffer'[1][1] = can_rx[1].data[1]
  BY <1>1, <1>2 DEF PicksUp
<1>4. FromEcu'
  BY <1>1, <1>2, <1>3
  DEF RelayInv, FromEcu, IsStart, StartId, BufferId, IsResponse, ResponseId
<1>5. \A i, l \in DOMAIN can_rx' :
        /\ i < l /\ can_rx'[i].pci \in {"SF", "FF"} /\ can_rx'[l].pci \in {"SF", "FF"}
        => <<can_rx'[i].data[1], can_rx'[l].data[1]>> \in Order
  BY <1>2 DEF RelayInv, InSequence, IsStart, StartId
<1>6. \A i \in DOMAIN can_rx' : can_rx'[i].pci \in {"SF", "FF"} =>
        <<uds_rx_buffer'[1][1], can_rx'[i].data[1]>> \in Order
  BY <1>2, <1>3 DEF RelayInv, InSequence, IsStart, StartId
<1>7. \A j \in DOMAIN to_tester : to_tester[j].type = "response" =>
        /\ <<to_tester[j].data[1][1], uds_rx_buffer'[1][1]>> \in Order
        /\ \A i \in DOMAIN can_rx' : can_rx'[i].pci \in {"SF", "FF"} =>
             <<to_tester[j].data[1][1], can_rx'[i].data[1]>> \in Order
        /\ \A l \in DOMAIN to_tester : j < l /\ to_tester[l].type = "response" =>
             <<to_tester[j].data[1][1], to_tester[l].data[1][1]>> \in Order
  BY <1>2, <1>3 DEF RelayInv, InSequence, IsStart, StartId, IsResponse, ResponseId
<1>8. InSequence'
  BY <1>1, <1>5, <1>6, <1>7
  DEF InSequence, IsStart, StartId, BufferId, IsResponse, ResponseId
<1> QED BY <1>4, <1>8 DEF RelayInv

LEMMA HandsOnStep ==
  ASSUME SystemInv, RelayInv, HandsOn, UNCHANGED answers
  PROVE  RelayInv'
<1> DEFINE r == DoipResponse(uds_rx_buffer)
<1>1. /\ AnswerIds' = AnswerIds /\ Order' = Order /\ can_rx' = can_rx
      /\ to_tester' = Append(to_tester, r) /\ Live /\ ~Live'
  BY DEF AnswerIds, Order, HandsOn
<1>2. r.data = uds_rx_buffer BY DEF DoipResponse
<1> HIDE DEF r
<1>3. /\ DOMAIN to_tester = 1 .. Len(to_tester) /\ Len(to_tester) \in Nat
      /\ DOMAIN to_tester' = 1 .. Len(to_tester) + 1
      /\ to_tester'[Len(to_tester) + 1] = r
      /\ \A j \in DOMAIN to_tester : to_tester'[j] = to_tester[j]
  BY <1>1, Appended DEF SystemInv, TypeInv, TypeOK, ChannelTypeOK
<1>4. FromEcu'
  BY <1>1, <1>2, <1>3
  DEF RelayInv, FromEcu, IsStart, StartId, BufferId, IsResponse, ResponseId
<1>5. ASSUME NEW j \in DOMAIN to_tester', to_tester'[j].type = "response"
      PROVE  /\ \A i \in DOMAIN can_rx : IsStart(i) =>
                  <<to_tester'[j].data[1][1], StartId(i)>> \in Order
             /\ \A l \in DOMAIN to_tester' : j < l /\ to_tester'[l].type = "response" =>
                  <<to_tester'[j].data[1][1], to_tester'[l].data[1][1]>> \in Order
  <2>1. CASE j \in DOMAIN to_tester
    <3>1. /\ to_tester'[j] = to_tester[j] /\ IsResponse(j)
          /\ to_tester'[j].data[1][1] = ResponseId(j)
      BY <1>3, <1>5, <2>1 DEF IsResponse, ResponseId
    <3>2. \A i \in DOMAIN can_rx : IsStart(i) => <<ResponseId(j), StartId(i)>> \in Order
      BY <2>1, <3>1 DEF RelayInv, InSequence
    <3>3. ASSUME NEW l \in DOMAIN to_tester', j < l, to_tester'[l].type = "response"
          PROVE  <<ResponseId(j), to_tester'[l].data[1][1]>> \in Order
      <4>1. CASE l \in DOMAIN to_tester
        BY <1>3, <2>1, <3>1, <3>3, <4>1
        DEF RelayInv, InSequence, IsResponse, ResponseId
      <4>2. CASE l = Len(to_tester) + 1
        BY <1>1, <1>2, <1>3, <2>1, <3>1, <4>2 DEF RelayInv, InSequence, BufferId
      <4> QED BY <1>3, <4>1, <4>2
    <3> QED BY <3>1, <3>2, <3>3
  <2>2. CASE j = Len(to_tester) + 1
    <3>1. to_tester'[j].data[1][1] = BufferId BY <1>2, <1>3, <2>2 DEF BufferId
    <3>2. ~ \E l \in DOMAIN to_tester' : j < l BY <1>3, <2>2
    <3> QED BY <1>1, <3>1, <3>2 DEF RelayInv, InSequence
  <2> QED BY <1>3, <2>1, <2>2
<1>6. \A i, l \in DOMAIN can_rx :
        i < l /\ IsStart(i) /\ IsStart(l) => <<StartId(i), StartId(l)>> \in Order
  BY DEF RelayInv, InSequence
<1>7. InSequence'
  BY <1>1, <1>5, <1>6 DEF InSequence, IsStart, StartId, IsResponse, ResponseId
<1> QED BY <1>4, <1>7 DEF RelayInv

LEMMA EcuGrows ==
  ASSUME Ecu
  PROVE  answers' = answers \/ \E e : answers' = Append(answers, e)
BY DEF Ecu, EcuFlowControl, EcuAnswer, EcuPeriodic, StartMessage, EcuConsecutiveFrame,
       EcuGivesUp, EcuReceives, EcuMisses, ecu_tx_vars

LEMMA ArrivalStep ==
  ASSUME SystemInv, RelayInv, Ecu, TypeInv'
  PROVE  RelayInv'
<1>1. /\ UNCHANGED <<to_tester, uds_rx_buffer, fpc>>
      /\ \E f : \/ can_rx' = can_rx
                \/ can_rx' = Append(can_rx, f)
  BY EcuFootprint, EcuSends DEF rx_vars
<1>2. answers' = answers \/ \E e : answers' = Append(answers, e)
  BY EcuGrows
<1>3. AnswerIds \subseteq AnswerIds' /\ Order \subseteq Order' BY <1>2, OrderStays
<1>4. FromEcu /\ InSequence BY DEF RelayInv
<1> USE DEF IsStart, StartId, BufferId, IsResponse, ResponseId, Live
<1>5. CASE can_rx' = can_rx
  BY <1>1, <1>3, <1>4, <1>5 DEF RelayInv, FromEcu, InSequence
<1>6. ASSUME NEW f, can_rx' = Append(can_rx, f),
             f.pci \in {"SF", "FF"} =>
               /\ f.data[1] \in AnswerIds'
               /\ \A x \in AnswerIds : <<x, f.data[1]>> \in Order'
      PROVE  RelayInv'
  <2>1. /\ DOMAIN can_rx = 1 .. Len(can_rx) /\ Len(can_rx) \in Nat
        /\ DOMAIN can_rx' = 1 .. Len(can_rx) + 1 /\ can_rx'[Len(can_rx) + 1] = f
        /\ \A i \in DOMAIN can_rx : can_rx'[i] = can_rx[i]
    BY <1>6, Appended DEF SystemInv, TypeInv, TypeOK, ChannelTypeOK
  <2>2. FromEcu'
    <3>1. \A i \in DOMAIN can_rx' : can_rx'[i].pci \in {"SF", "FF"} =>
             can_rx'[i].data[1] \in AnswerIds'
      <4> SUFFICES ASSUME NEW i \in DOMAIN can_rx', can_rx'[i].pci \in {"SF", "FF"}
                   PROVE  can_rx'[i].data[1] \in AnswerIds'
        OBVIOUS
      <4>1. CASE i \in DOMAIN can_rx BY <1>3, <1>4, <2>1, <4>1 DEF FromEcu
      <4>2. CASE i = Len(can_rx) + 1 BY <1>6, <2>1, <4>2
      <4> QED BY <2>1, <4>1, <4>2
    <3> QED BY <1>1, <1>3, <1>4, <3>1 DEF FromEcu
  <2>3. \A i, l \in DOMAIN can_rx' :
        /\ i < l /\ can_rx'[i].pci \in {"SF", "FF"} /\ can_rx'[l].pci \in {"SF", "FF"}
        => <<can_rx'[i].data[1], can_rx'[l].data[1]>> \in Order'
    <3> SUFFICES ASSUME NEW i \in DOMAIN can_rx', NEW l \in DOMAIN can_rx', i < l,
                        can_rx'[i].pci \in {"SF", "FF"}, can_rx'[l].pci \in {"SF", "FF"}
                 PROVE  <<can_rx'[i].data[1], can_rx'[l].data[1]>> \in Order'
      OBVIOUS
    <3>1. i \in DOMAIN can_rx BY <2>1
    <3>2. CASE l \in DOMAIN can_rx
      BY <1>3, <1>4, <2>1, <3>1, <3>2 DEF InSequence
    <3>3. CASE l = Len(can_rx) + 1
      BY <1>4, <1>6, <2>1, <3>1, <3>3 DEF FromEcu
    <3> QED BY <2>1, <3>2, <3>3
  <2>4. Live => \A i \in DOMAIN can_rx' : can_rx'[i].pci \in {"SF", "FF"} =>
                  <<uds_rx_buffer[1][1], can_rx'[i].data[1]>> \in Order'
    BY <1>3, <1>4, <1>6, <2>1 DEF InSequence, FromEcu
  <2>5. \A j \in DOMAIN to_tester : to_tester[j].type = "response" =>
          \A i \in DOMAIN can_rx' : can_rx'[i].pci \in {"SF", "FF"} =>
            <<to_tester[j].data[1][1], can_rx'[i].data[1]>> \in Order'
    <3> SUFFICES ASSUME NEW j \in DOMAIN to_tester, to_tester[j].type = "response",
                        NEW i \in DOMAIN can_rx', can_rx'[i].pci \in {"SF", "FF"}
                 PROVE  <<to_tester[j].data[1][1], can_rx'[i].data[1]>> \in Order'
      OBVIOUS
    <3>1. CASE i \in DOMAIN can_rx BY <1>3, <1>4, <2>1, <3>1 DEF InSequence
    <3>2. CASE i = Len(can_rx) + 1 BY <1>4, <1>6, <2>1, <3>2 DEF FromEcu
    <3> QED BY <2>1, <3>1, <3>2
  <2>6. InSequence'
    BY <1>1, <1>3, <1>4, <2>3, <2>4, <2>5 DEF InSequence
  <2> QED BY <2>2, <2>6 DEF RelayInv
<1>7. CASE \E f : /\ can_rx' = Append(can_rx, f)
                  /\ \/ f.pci \in {"FC", "CF"} /\ UNCHANGED answers
                     \/ /\ f.pci \in {"SF", "FF"}
                        /\ \E cfs : answers' = Append(answers, [id |-> f.data[1],
                                                                cfs |-> cfs])
  <2>1. PICK f : /\ can_rx' = Append(can_rx, f)
                 /\ \/ f.pci \in {"FC", "CF"} /\ UNCHANGED answers
                    \/ /\ f.pci \in {"SF", "FF"}
                       /\ \E cfs : answers' = Append(answers, [id |-> f.data[1],
                                                               cfs |-> cfs])
    BY <1>7
  <2>2. ASSUME f.pci \in {"SF", "FF"}
        PROVE  /\ f.data[1] \in AnswerIds'
               /\ \A x \in AnswerIds : <<x, f.data[1]>> \in Order'
    <3>1. PICK cfs : answers' = Append(answers, [id |-> f.data[1], cfs |-> cfs])
      BY <2>1, <2>2
    <3>2. f.data[1] \in Nat
      <4>1. can_rx' \in Seq(Frame) BY DEF TypeInv, TypeOK, ChannelTypeOK
      <4>2. f \in Frame
        <5>1. /\ DOMAIN can_rx' = 1 .. Len(can_rx) + 1 /\ can_rx'[Len(can_rx) + 1] = f
              /\ Len(can_rx) \in Nat
          BY <2>1, Appended DEF SystemInv, TypeInv, TypeOK, ChannelTypeOK
        <5> QED BY <4>1, <5>1, Elements
      <4> QED BY <2>2, <4>2, FrameKinds DEF Chunk
    <3> QED BY <3>1, <3>2, NewIsLast
  <2> QED BY <1>6, <2>1, <2>2
<1> QED BY <1>5, <1>7, EcuSends

\* Every response with the tester has the acknowledgement of its request before it, or
\* the attempt at it.
AckedBefore ==
  \A j \in DOMAIN to_tester : IsResponse(j) =>
    \A m \in Nat : ResponseId(j) = ResponseTo(m) =>
      \E i \in 1 .. j - 1 : to_tester[i] \in {Ack(m), Refused(m)}

\* Request m was acknowledged, or that refused, when a message in answer to it was begun.
LEMMA AnsweredAcked ==
  ASSUME SystemInv, LogInv, NEW m \in Nat, ResponseTo(m) \in AnswerIds
  PROVE  AckTried(m)
<1>1. PICK a \in DOMAIN answers : answers[a].id = ResponseTo(m) BY DEF AnswerIds
<1>2. /\ periodic \in Nat /\ DOMAIN requests = 1 .. Len(requests)
      /\ Len(requests) \in Nat /\ Len(due) \in Nat
  BY Elements DEF SystemInv, EcuTypes
<1>3. ASSUME NEW n \in 1 .. periodic PROVE answers[a].id # PeriodicId(n)
  BY <1>1, <1>2 DEF PeriodicId, ResponseTo
<1>4. PICK k \in 1 .. Paid : answers[a].id = ResponseTo(Id(k))
  BY <1>3 DEF LogInv, AnswersInv
<1>5. k \in DOMAIN requests BY <1>2 DEF LogInv, DueInv, Paid
<1>6. Id(k) = m BY <1>1, <1>4, <1>5, IdNumbers DEF ResponseTo
<1>7. m \in SeenIds BY <1>5, <1>6 DEF SystemInv, RequestsSeen
<1>8. PICK i \in 1 .. seen : bus[i].pci # "FC" /\ bus[i].data[1] = m
  BY <1>7 DEF SeenIds
<1>9. i \in DOMAIN bus
  <2>1. bus \in Seq(Frame) /\ seen \in Nat /\ seen <= Len(bus)
    BY DEF SystemInv, EcuTypes, TypeInv, TypeOK, ChannelTypeOK
  <2> QED BY <1>8, <2>1
<1> QED BY <1>8, <1>9 DEF SystemInv, AckInv, AckPrecedesFrames, AckTried

LEMMA AckedBeforeStep ==
  ASSUME SystemInv, LogInv, RelayInv, AckedBefore,
         \/ UNCHANGED to_tester
         \/ \E r : /\ to_tester' = Append(to_tester, r)
                   /\ r.type = "response" => Live /\ r = DoipResponse(uds_rx_buffer)
  PROVE  AckedBefore'
<1>1. CASE UNCHANGED to_tester
  BY <1>1 DEF AckedBefore, IsResponse, ResponseId, Ack, Refused
<1>2. ASSUME NEW r, to_tester' = Append(to_tester, r),
             r.type = "response" => Live /\ r = DoipResponse(uds_rx_buffer)
      PROVE  AckedBefore'
  <2>1. /\ DOMAIN to_tester = 1 .. Len(to_tester) /\ Len(to_tester) \in Nat
        /\ DOMAIN to_tester' = 1 .. Len(to_tester) + 1
        /\ to_tester'[Len(to_tester) + 1] = r
        /\ \A j \in DOMAIN to_tester : to_tester'[j] = to_tester[j]
    BY <1>2, Appended DEF SystemInv, TypeInv, TypeOK, ChannelTypeOK
  <2>2. ASSUME NEW j \in DOMAIN to_tester', to_tester'[j].type = "response",
               NEW m \in Nat, to_tester'[j].data[1][1] = ResponseTo(m)
        PROVE  \E i \in 1 .. j - 1 : to_tester'[i] \in {Ack(m), Refused(m)}
    <3>1. CASE j \in DOMAIN to_tester
      <4>1. PICK i \in 1 .. j - 1 : to_tester[i] \in {Ack(m), Refused(m)}
        BY <2>1, <2>2, <3>1 DEF AckedBefore, IsResponse, ResponseId
      <4>2. i \in DOMAIN to_tester BY <2>1, <3>1
      <4> QED BY <2>1, <4>1, <4>2
    <3>2. CASE j = Len(to_tester) + 1
      <4>1. Live /\ to_tester'[j].data = uds_rx_buffer
        <5>1. to_tester'[j] = r BY <2>1, <3>2
        <5>2. Live /\ r = DoipResponse(uds_rx_buffer) BY <1>2, <2>2, <5>1
        <5> QED BY <5>1, <5>2 DEF DoipResponse
      <4>2. ResponseTo(m) \in AnswerIds
        BY <2>2, <4>1 DEF RelayInv, FromEcu, BufferId
      <4>3. PICK i \in DOMAIN to_tester : to_tester[i] \in {Ack(m), Refused(m)}
        BY <4>2, AnsweredAcked DEF AckTried, Acked, AckRefused
      <4>4. i \in 1 .. j - 1 BY <2>1, <3>2
      <4> QED BY <2>1, <4>3, <4>4
    <3> QED BY <2>1, <3>1, <3>2
  <2> QED BY <2>2 DEF AckedBefore, IsResponse, ResponseId, Ack, Refused
<1> QED BY <1>1, <1>2

\* All that the orders rest on, in one step of the system.
OrderInv == SystemInv /\ LogInv /\ RelayInv /\ AckedBefore

LEMMA OrderInvInit == SystemInit => OrderInv
<1>1. SystemInit => AckedBefore BY DEF SystemInit, Init, AckedBefore
<1> QED BY <1>1, SystemInvInit, LogInit, RelayInit DEF OrderInv

LEMMA OrderInvStep == OrderInv /\ [SystemNext]_system_vars => OrderInv'
<1> SUFFICES ASSUME OrderInv, [SystemNext]_system_vars PROVE OrderInv'
  OBVIOUS
<1>1. SystemInv' /\ LogInv' BY SystemInvStep, LogStep DEF OrderInv
<1>2. CASE GatewayStep /\ Asleep
  <2>1. Keeps \/ PicksUp \/ HandsOn
    BY <1>2, RelaySteps DEF OrderInv, SystemInv
  <2>2. RelayInv'
    BY <1>2, <2>1, KeepsStep, PicksUpStep, HandsOnStep
    DEF OrderInv, Asleep, ecu_tx_vars
  <2>3. \/ UNCHANGED to_tester
        \/ \E r : /\ to_tester' = Append(to_tester, r)
                  /\ r.type = "response" => Live /\ r = DoipResponse(uds_rx_buffer)
    BY <2>1 DEF Keeps, PicksUp, HandsOn
  <2>4. AckedBefore' BY <2>3, AckedBeforeStep DEF OrderInv
  <2> QED BY <1>1, <2>2, <2>4 DEF OrderInv
<1>3. CASE Ecu
  <2>1. UNCHANGED to_tester BY <1>3, EcuFootprint
  <2>2. RelayInv' BY <1>1, <1>3, ArrivalStep DEF OrderInv, SystemInv
  <2>3. AckedBefore' BY <2>1, AckedBeforeStep DEF OrderInv
  <2> QED BY <1>1, <2>2, <2>3 DEF OrderInv
<1>4. CASE UNCHANGED system_vars
  <2>1. UNCHANGED <<can_rx, fpc, uds_rx_buffer, to_tester, answers>>
    BY <1>4 DEF system_vars, vars, can_vars, rx_vars, ecu_vars, ecu_tx_vars
  <2>2. Keeps BY <2>1 DEF Keeps, Live
  <2>3. RelayInv' BY <2>1, <2>2, KeepsStep DEF OrderInv
  <2>4. AckedBefore' BY <2>1, AckedBeforeStep DEF OrderInv
  <2> QED BY <1>1, <2>3, <2>4 DEF OrderInv
<1> QED BY <1>2, <1>3, <1>4, SystemSteps

\* Whatever two threads do at once, the tester sees the acknowledgement of a request
\* before its response.
THEOREM AcknowledgedBeforeResponse == SystemSpec => []AckBeforeResponse
<1>1. OrderInv => AckBeforeResponse
  <2> SUFFICES ASSUME OrderInv PROVE AckBeforeResponse
    OBVIOUS
  <2>1. \A m \in 1 .. msgs : m \in Nat
    BY DEF OrderInv, SystemInv, TypeInv, TypeOK, ChannelTypeOK
  <2> QED BY <2>1 DEF OrderInv, AckedBefore, AckBeforeResponse, IsResponse, ResponseId
<1> QED BY <1>1, OrderInvInit, OrderInvStep, PTL DEF SystemSpec

\* The forwarder neither reorders nor doubles what the ECU sends, though it may lose it.
THEOREM ResponsesOrdered == SystemSpec => []ResponsesInOrder
<1>1. OrderInv => ResponsesInOrder
  <2> SUFFICES ASSUME OrderInv,
                      NEW j \in DOMAIN to_tester, NEW l \in DOMAIN to_tester, j < l,
                      {to_tester[j].type, to_tester[l].type} = {"response"},
                      NEW a \in BegunAt(to_tester[j]), NEW b \in BegunAt(to_tester[l])
               PROVE  a < b
    BY DEF ResponsesInOrder
  <2>1. IsResponse(j) /\ IsResponse(l) BY DEF IsResponse
  <2>2. <<ResponseId(j), ResponseId(l)>> \in Order
    BY <2>1 DEF OrderInv, RelayInv, InSequence
  <2>3. PICK c, d \in DOMAIN answers :
          c < d /\ answers[c].id = ResponseId(j) /\ answers[d].id = ResponseId(l)
    BY <2>2 DEF Order
  <2>4. /\ a \in DOMAIN answers /\ answers[a].id = ResponseId(j)
        /\ b \in DOMAIN answers /\ answers[b].id = ResponseId(l)
    BY DEF BegunAt, ResponseId
  <2>5. a = c /\ b = d BY <2>3, <2>4 DEF OrderInv, LogInv, AnswersInv
  <2> QED BY <2>3, <2>5
<1> QED BY <1>1, OrderInvInit, OrderInvStep, PTL DEF SystemSpec

-----------------------------------------------------------------------------
(* The transfer of a request *)

Transferring == mpc \in {"wait_fc", "block"}

\* How main goes through a request, and what the forwarder does with the frames it
\* finds meanwhile.
Reading == fpc \notin {"none", "done"}
TransferIdle ==
  /\ ~Transferring /\ ~Transferring'
  /\ bus' = bus \/ (mpc = "send" /\ cur' = cur /\ bus' = Append(bus, SF(cur.id)))
  /\ UNCHANGED fc_frame_queue
  /\ can_rx' = <<>> \/ UNCHANGED <<fpc, can_rx>>
TransferStarts ==
  /\ mpc = "send" /\ mpc' = "wait_fc" /\ sent' = 0 /\ cur.cfs > 0
  /\ bus' \in {bus, Append(bus, FF(cur.id, cur.cfs))}
  /\ UNCHANGED <<cur, fpc, fc_frame_queue, can_rx>>
Transfers ==
  /\ TakeFlowControl \/ FlowControlTimeout \/ SendConsecutiveFrame \/ AbortTransfer
  /\ UNCHANGED <<cur, fpc, can_rx>>
Elsewhere ==
  /\ UNCHANGED <<mpc, cur, sent, block_left>>
  /\ bus' = bus \/ \E m : bus' = Append(bus, FC("CTS", 0, m))
  /\ \/ UNCHANGED <<fc_frame_queue, can_rx>> /\ (Reading' => Reading)
     \/ /\ Reading /\ can_rx # <<>> /\ can_rx' = Tail(can_rx)
        /\ \/ UNCHANGED fc_frame_queue
           \/ /\ Head(can_rx).pci = "FC" /\ Reading'
              /\ fc_frame_queue' = Append(fc_frame_queue, Head(can_rx))

LEMMA TransferSteps ==
  ASSUME GatewayStep
  PROVE  TransferIdle \/ TransferStarts \/ Transfers \/ Elsewhere
<1> USE DEF Transferring, Reading, client_vars, can_vars, tx_vars
<1>1. CASE Accept \/ TesterStep
  BY <1>1 DEF Accept, Main, TesterStep, TesterSends, TesterCloses, TransferIdle, Elsewhere
<1>2. CASE MainStep
  <2>1. CASE OpenSession \/ SetupFails \/ Teardown \/ CloseSession
    BY <2>1 DEF OpenSession, SetupFails, Teardown, CloseSession, Main, TransferIdle
  <2>2. CASE LoopHead \/ ReceiveMessage \/ ConnectionLost
    BY <2>2 DEF LoopHead, ReceiveMessage, ConnectionLost, Main, Dispatch, TransferIdle
  <2>3. CASE BeginRoutingReply \/ EndRoutingReply \/ BeginAck \/ EndAck
    BY <2>3 DEF BeginRoutingReply, EndRoutingReply, BeginAck, EndAck, BeginReply,
       EndReply, Main, TransferIdle
  <2>4. CASE \E ok \in BOOLEAN : SendSingleFrame(ok)
    BY <2>4 DEF SendSingleFrame, Main, CanWrite, TransferIdle
  <2>5. CASE \E ok \in BOOLEAN : SendFirstFrame(ok)
    BY <2>5 DEF SendFirstFrame, StartTransfer, Main, CanWrite, TransferStarts
  <2>6. CASE TakeFlowControl \/ FlowControlTimeout \/ SendConsecutiveFrame \/ AbortTransfer
    BY <2>6 DEF TakeFlowControl, FlowControlTimeout, SendConsecutiveFrame, AbortTransfer,
       Transfers
  <2> QED BY <1>2, <2>1, <2>2, <2>3, <2>4, <2>5, <2>6 DEF MainStep
<1>3. CASE ForwarderStep
  <2> USE DEF Fwd, Read, Elsewhere
  <2>1. CASE FwdLoop \/ FwdTimeout \/ FwdCfTimeout
    BY <2>1 DEF FwdLoop, FwdTimeout, FwdCfTimeout
  <2>2. CASE FwdStray \/ FwdUnexpected
    BY <2>2 DEF FwdStray, FwdUnexpected
  <2>3. CASE FwdFlowControl
    BY <2>3 DEF FwdFlowControl
  <2>4. CASE FwdSingleFrame \/ FwdConsecutiveFrame
    BY <2>4 DEF FwdSingleFrame, FwdConsecutiveFrame
  <2>5. CASE \E ok \in BOOLEAN : FwdFirstFrame(ok)
    BY <2>5 DEF FwdFirstFrame, CanWrite
  <2>6. CASE FwdBeginWrite \/ FwdEndWrite \/ FwdWriteFails
    BY <2>6 DEF FwdBeginWrite, FwdEndWrite, FwdWriteFails
  <2> QED BY <1>3, <2>1, <2>2, <2>3, <2>4, <2>5, <2>6 DEF ForwarderStep
<1> QED BY <1>1, <1>2, <1>3 DEF GatewayStep

\* The indices of a request's frames on the bus.
CfOrdered ==
  /\ \A i \in DOMAIN bus : Started(i) => bus[i].data[2] = 0
  /\ \A i, j \in DOMAIN bus :
       /\ i < j /\ bus[i].pci = "CF" /\ bus[j].pci = "CF"
       /\ bus[i].data[1] = bus[j].data[1]
       => bus[i].data[2] < bus[j].data[2]
  /\ Transferring => \A i \in DOMAIN bus :
       bus[i].pci = "CF" /\ bus[i].data[1] = cur.id => bus[i].data[2] <= sent

LEMMA CfAppended ==
  ASSUME SystemInv, TypeInv', CfOrdered, NEW f, bus' = Append(bus, f), cur' = cur,
         f.pci \in {"SF", "FF"} => f.data[2] = 0,
         f.pci = "CF" => Transferring /\ f.data[1] = cur.id /\ sent < f.data[2],
         Transferring' =>
           /\ f.pci = "CF" => f.data[2] <= sent'
           /\ \A i \in DOMAIN bus :
                bus[i].pci = "CF" /\ bus[i].data[1] = cur.id => bus[i].data[2] <= sent'
  PROVE  CfOrdered'
<1> USE DEF SystemInv
<1>1. \A i \in DOMAIN bus' : bus'[i].pci \in {"SF", "FF"} => bus'[i].data[2] = 0
  <2> SUFFICES ASSUME NEW i \in DOMAIN bus', bus'[i].pci \in {"SF", "FF"}
               PROVE  bus'[i].data[2] = 0
    OBVIOUS
  <2>1. CASE i \in DOMAIN bus BY <2>1, BusAppended DEF CfOrdered, Started
  <2>2. CASE i = Len(bus) + 1 BY <2>2, BusAppended
  <2> QED BY <2>1, <2>2, BusAppended
<1>2. ASSUME NEW i \in DOMAIN bus', NEW j \in DOMAIN bus', i < j,
             bus'[i].pci = "CF", bus'[j].pci = "CF", bus'[i].data[1] = bus'[j].data[1]
      PROVE  bus'[i].data[2] < bus'[j].data[2]
  <2>1. i \in DOMAIN bus /\ bus'[i] = bus[i] BY <1>2, BusAppended
  <2>2. CASE j \in DOMAIN bus BY <1>2, <2>1, <2>2, BusAppended DEF CfOrdered
  <2>3. CASE j = Len(bus) + 1
    <3>1. bus'[j] = f BY <2>3, BusAppended
    <3>2. bus[i].data[2] <= sent /\ sent < f.data[2]
      BY <1>2, <2>1, <3>1 DEF CfOrdered
    <3>3. bus[i].data[2] \in Nat /\ sent \in Nat /\ f.data[2] \in Int
      <4>1. bus[i] \in Frame /\ f \in Frame /\ sent \in Nat
        <5>1. bus' \in Seq(Frame) /\ bus \in Seq(Frame) /\ sent \in Nat
          BY DEF TypeInv, TypeOK, ChannelTypeOK, TransferTypeOK
        <5> QED BY <2>1, <3>1, <5>1, Elements
      <4> QED BY <1>2, <2>1, <3>1, <4>1, FrameKinds DEF Chunk
    <3> QED BY <2>1, <3>1, <3>2, <3>3
  <2> QED BY <2>2, <2>3, BusAppended
<1>3. ASSUME Transferring', NEW i \in DOMAIN bus', bus'[i].pci = "CF",
             bus'[i].data[1] = cur.id
      PROVE  bus'[i].data[2] <= sent'
  <2>1. CASE i \in DOMAIN bus BY <1>3, <2>1, BusAppended
  <2>2. CASE i = Len(bus) + 1 BY <1>3, <2>2, BusAppended
  <2> QED BY <2>1, <2>2, BusAppended
<1> QED BY <1>1, <1>2, <1>3 DEF CfOrdered, Started

LEMMA CfOrderedStep ==
  ASSUME SystemInv, CfOrdered, GatewayStep \/ UNCHANGED <<bus, mpc, cur, sent>>,
         SystemInv'
  PROVE  CfOrdered'
<1> USE DEF SystemInv
<1>1. sent \in Nat /\ cur.id \in Nat
  BY DEF TypeInv, TypeOK, TransferTypeOK, DoipMessage
<1>2. CASE UNCHANGED <<bus, mpc, cur, sent>>
  BY <1>2 DEF CfOrdered, Transferring, Started
<1>3. CASE TransferIdle
  <2>1. CASE bus' = bus BY <1>3, <2>1 DEF TransferIdle, CfOrdered, Started
  <2>2. CASE cur' = cur /\ bus' = Append(bus, SF(cur.id))
    BY <1>3, <2>2, CfAppended DEF TransferIdle, SF
  <2> QED BY <1>3, <2>1, <2>2 DEF TransferIdle
<1>4. CASE TransferStarts
  <2>1. \A i \in DOMAIN bus : bus[i].pci = "CF" => bus[i].data[1] # cur.id
    <3>1. mpc \in Fresh BY <1>4 DEF TransferStarts, Fresh, Handling
    <3>2. \A i \in DOMAIN bus : bus[i].pci = "CF" =>
            bus[i].data[1] < cur.id /\ bus[i].data[1] \in Nat
      BY <3>1, BusNumbers DEF BusOrdered
    <3> QED BY <1>1, <3>2
  <2>2. CASE bus' = bus BY <1>4, <2>1, <2>2 DEF TransferStarts, CfOrdered, Started
  <2>3. CASE bus' = Append(bus, FF(cur.id, cur.cfs))
    BY <1>4, <2>1, <2>3, CfAppended DEF TransferStarts, FF
  <2> QED BY <1>4, <2>2, <2>3 DEF TransferStarts
<1>5. CASE Transfers
  <2>1. CASE TakeFlowControl \/ FlowControlTimeout \/ AbortTransfer
    <3>1. UNCHANGED <<bus, cur, sent>> /\ Transferring
      BY <2>1 DEF TakeFlowControl, FlowControlTimeout, AbortTransfer, CanWrite, Main,
         Transferring, tx_vars
    <3> QED BY <3>1 DEF CfOrdered, Started
  <2>2. CASE SendConsecutiveFrame
    <3> DEFINE f == CF(cur.id, sent + 1, seq_num)
    <3>1. /\ bus' = Append(bus, f) /\ sent' = sent + 1 /\ cur' = cur /\ Transferring
      BY <2>2 DEF SendConsecutiveFrame, CanWrite, Transferring
    <3>2. f.pci = "CF" /\ f.data[1] = cur.id /\ f.data[2] = sent + 1 BY DEF CF
    <3> HIDE DEF f
    <3>3. \A i \in DOMAIN bus : bus[i].pci = "CF" /\ bus[i].data[1] = cur.id =>
            bus[i].data[2] <= sent + 1
      <4>1. \A i \in DOMAIN bus : bus[i].pci = "CF" => bus[i].data \in Chunk
        BY Elements, FrameKinds DEF TypeInv, TypeOK, ChannelTypeOK
      <4> QED BY <1>1, <3>1, <4>1 DEF CfOrdered, Chunk
    <3> QED BY <1>1, <3>1, <3>2, <3>3, CfAppended
  <2> QED BY <1>5, <2>1, <2>2 DEF Transfers
<1>6. CASE Elsewhere
  <2>1. UNCHANGED <<mpc, cur, sent>> BY <1>6 DEF Elsewhere
  <2>2. CASE bus' = bus BY <2>1, <2>2 DEF CfOrdered, Transferring, Started
  <2>3. ASSUME NEW m, bus' = Append(bus, FC("CTS", 0, m)) PROVE CfOrdered'
    <3> DEFINE f == FC("CTS", 0, m)
    <3>1. bus' = Append(bus, f) /\ f.pci = "FC" BY <2>3 DEF FC
    <3> HIDE DEF f
    <3>2. Transferring' => \A i \in DOMAIN bus :
            bus[i].pci = "CF" /\ bus[i].data[1] = cur.id => bus[i].data[2] <= sent'
      BY <2>1 DEF CfOrdered, Transferring
    <3> QED BY <2>1, <3>1, <3>2, CfAppended
  <2> QED BY <1>6, <2>2, <2>3 DEF Elsewhere
<1> QED BY <1>2, <1>3, <1>4, <1>5, <1>6, TransferSteps

-----------------------------------------------------------------------------
(* Flow control, where no timeout strikes although what it waits for is coming *)

\* The ECU has a request in hand; how many consecutive frames of it, and the index of
\* the last.
Active == ecu_rx # NoRx
Got    == Len(ecu_rx.data) - 1
LastIndex == ecu_rx.data[Len(ecu_rx.data)][2]

\* What may end main's wait, on its way from the ECU to main.
Flying == {fc_frame_queue[i] : i \in DOMAIN fc_frame_queue}
            \cup (IF Reading THEN {can_rx[i] : i \in DOMAIN can_rx} ELSE {})
Answering(f) == f.pci = "FC" /\ f.fs # "WAIT"

\* There is one answer at most.
OneAnswer ==
  /\ \A i, j \in DOMAIN fc_frame_queue :
       Answering(fc_frame_queue[i]) /\ Answering(fc_frame_queue[j]) => i = j
  /\ Reading =>
       /\ \A i, j \in DOMAIN can_rx : Answering(can_rx[i]) /\ Answering(can_rx[j]) => i = j
       /\ \A i \in DOMAIN fc_frame_queue, j \in DOMAIN can_rx :
            ~ (Answering(fc_frame_queue[i]) /\ Answering(can_rx[j]))

\* Nothing of a request is on its way to the ECU, which has all that main sent.
NothingNew == \A k \in seen + 1 .. Len(bus) : bus[k].pci = "FC"
AtOne ==
  /\ InHand = cur.id /\ ecu_rx.cfs = cur.cfs
  /\ sent = Got /\ LastIndex = Got

\* An answer finds main waiting for it, and a clear-to-send means the same to both.
Awaited(f) ==
  /\ mpc = "wait_fc" /\ ~ecu_rx.owes /\ NothingNew
  /\ f.fs = "CTS" => /\ f.bs = BlockSize /\ sent + EcuBlock <= grants[cur.id]
                     /\ Active => AtOne /\ ecu_rx.block = EcuBlock
AnswersAwaited == \A f \in Flying : Answering(f) => Awaited(f)

\* Main waits where the ECU has yet to answer: a first frame it has not seen, or one
\* of its blocks.
FirstAwaits ==
  \A k \in seen + 1 .. Len(bus) : bus[k].pci = "FF" =>
    /\ mpc = "wait_fc" /\ sent = 0 /\ bus[k].data[1] = cur.id /\ bus[k].cfs = cur.cfs
    /\ \A l \in k + 1 .. Len(bus) : bus[l].pci = "FC"
OwedAwaited == ecu_rx.owes => mpc = "wait_fc" /\ AtOne /\ NothingNew

\* Main sends no more of a block than the ECU takes.
BlockAgreed ==
  mpc = "block" /\ Active =>
    /\ InHand = cur.id /\ ecu_rx.cfs = cur.cfs /\ ~ecu_rx.owes
    /\ LastIndex <= sent /\ sent + block_left <= Got + ecu_rx.block
OwesOrBlock == Active => (ecu_rx.owes <=> ecu_rx.block = 0)

\* Nor is more on its way; what ends the block ends the request, or main waits.
InBlock(f) ==
  /\ f.data[1] = InHand
  /\ LastIndex < f.data[2] /\ f.data[2] <= ecu_rx.cfs
  /\ \/ f.data[2] < Got + ecu_rx.block
     \/ /\ f.data[2] = Got + ecu_rx.block
        /\ \/ f.data[2] = ecu_rx.cfs
           \/ /\ mpc = "wait_fc" /\ InHand = cur.id /\ ecu_rx.cfs = cur.cfs
              /\ sent = f.data[2]
NewInBlock ==
  Active /\ ecu_rx.block > 0 =>
    \A k \in seen + 1 .. Len(bus) : bus[k].pci = "CF" => InBlock(bus[k])

\* What the ECU has in hand is of one request; the more that was lost between its
\* frames, the higher the last one's index.
Growing ==
  Active => \A i \in DOMAIN ecu_rx.data :
    /\ ecu_rx.data[i][1] = InHand /\ i - 1 <= ecu_rx.data[i][2]
    /\ ecu_rx.data[i][2] - (i - 1) <= LastIndex - Got

\* The frames of a request are within what the ECU granted.
WithinGrants ==
  /\ mpc = "wait_fc" => sent <= grants[cur.id]
  /\ mpc = "block" => sent + block_left <= grants[cur.id]
  /\ \A i \in DOMAIN bus : bus[i].pci = "CF" =>
       1 <= bus[i].data[2] /\ bus[i].data[2] <= grants[bus[i].data[1]]

FlowInv ==
  /\ OneAnswer /\ AnswersAwaited /\ FirstAwaits /\ OwedAwaited /\ BlockAgreed
  /\ OwesOrBlock /\ NewInBlock /\ Growing /\ WithinGrants

LEMMA FlowTypes ==
  ASSUME SystemInv
  PROVE  /\ sent \in Nat /\ block_left \in Nat /\ cur.id \in Nat /\ cur.cfs \in Nat
         /\ seen \in Nat /\ Len(bus) \in Nat /\ seen <= Len(bus)
         /\ DOMAIN bus = 1 .. Len(bus)
         /\ bus \in Seq(Frame) /\ can_rx \in Seq(Frame)
         /\ fc_frame_queue \in Seq(FlowFrame)
         /\ ecu_rx.block \in Nat /\ ecu_rx.cfs \in Nat /\ ecu_rx.owes \in BOOLEAN
         /\ ecu_rx.data \in Seq(Chunk)
         /\ grants \in [1 .. MaxRequests -> Nat]
         /\ mpc \in Handling => cur.id \in 1 .. MaxRequests
<1>1. /\ bus \in Seq(Frame) /\ can_rx \in Seq(Frame) /\ cur \in DoipMessage
      /\ fc_frame_queue \in Seq(FlowFrame) /\ msgs \in Nat
      /\ sent \in Nat /\ block_left \in Nat
  BY DEF SystemInv, TypeInv, TypeOK, ChannelTypeOK, TransferTypeOK
<1>2. cur.id \in Nat /\ cur.cfs \in Nat BY <1>1 DEF DoipMessage
<1>3. /\ ecu_rx \in [data : Seq(Chunk), cfs : Nat, block : Nat, owes : BOOLEAN]
      /\ seen \in Nat /\ seen <= Len(bus) /\ grants \in [1 .. MaxRequests -> Nat]
  BY DEF SystemInv, EcuTypes
<1>4. mpc \in Handling => cur.id \in 1 .. MaxRequests
  BY <1>1, <1>2, SystemAssumption DEF SystemInv, BusOrdered, Numbered
<1> QED BY <1>1, <1>2, <1>3, <1>4, Elements

\* A request in hand has its first bytes.
LEMMA ActiveTypes ==
  ASSUME SystemInv, Active
  PROVE  /\ Got \in Nat /\ Len(ecu_rx.data) = Got + 1
         /\ DOMAIN ecu_rx.data = 1 .. Got + 1
         /\ \A i \in DOMAIN ecu_rx.data : /\ ecu_rx.data[i] \in Chunk
                                          /\ ecu_rx.data[i][2] \in Nat
         /\ LastIndex \in Nat
<1>1. ecu_rx.data \in Seq(Chunk) /\ ecu_rx.data # <<>>
  BY FlowTypes DEF SystemInv, RequestsSeen, Active
<1>2. Got \in Nat /\ Len(ecu_rx.data) = Got + 1 /\ DOMAIN ecu_rx.data = 1 .. Got + 1
  BY <1>1 DEF Got
<1>3. \A i \in DOMAIN ecu_rx.data : ecu_rx.data[i] \in Chunk BY <1>1, Elements
<1> QED BY <1>2, <1>3 DEF LastIndex, Chunk

LEMMA BlockTypes == EcuBlock \in Nat /\ EcuBlock > 0 /\ Granted(BlockSize) = EcuBlock
  BY SystemAssumption, GatewayAssumption DEF EcuBlock, Granted

\* A frame read, dropped or handed over is not a new one.
LEMMA FlyingShrinks ==
  ASSUME SystemInv, OneAnswer,
         \/ UNCHANGED <<fc_frame_queue, can_rx>> /\ (Reading' => Reading)
         \/ UNCHANGED fc_frame_queue /\ can_rx' = <<>>
         \/ /\ fc_frame_queue # <<>> /\ fc_frame_queue' = Tail(fc_frame_queue)
            /\ UNCHANGED <<can_rx, fpc>>
         \/ /\ Reading /\ can_rx # <<>> /\ can_rx' = Tail(can_rx)
            /\ UNCHANGED fc_frame_queue
         \/ /\ Reading /\ can_rx # <<>> /\ can_rx' = Tail(can_rx) /\ Reading'
            /\ fc_frame_queue' = Append(fc_frame_queue, Head(can_rx))
  PROVE  Flying' \subseteq Flying /\ OneAnswer'
<1> USE DEF Answering
<1>1. CASE UNCHANGED <<fc_frame_queue, can_rx>> /\ (Reading' => Reading)
  BY <1>1 DEF Flying, OneAnswer
<1>2. CASE UNCHANGED fc_frame_queue /\ can_rx' = <<>>
  BY <1>2 DEF Flying, OneAnswer
<1>3. CASE /\ fc_frame_queue # <<>> /\ fc_frame_queue' = Tail(fc_frame_queue)
           /\ UNCHANGED <<can_rx, fpc>>
  <2>1. \A i \in DOMAIN fc_frame_queue' :
          /\ fc_frame_queue'[i] = fc_frame_queue[i + 1] /\ i \in Int
          /\ i + 1 \in DOMAIN fc_frame_queue
    <3>1. fc_frame_queue \in Seq(FlowFrame) BY FlowTypes
    <3> QED BY <1>3, <3>1, Shortened
  <2>2. Flying' \subseteq Flying BY <1>3, <2>1 DEF Flying, Reading
  <2>3. ASSUME NEW i \in DOMAIN fc_frame_queue', NEW j \in DOMAIN fc_frame_queue',
               Answering(fc_frame_queue'[i]), Answering(fc_frame_queue'[j])
        PROVE  i = j
    <3>1. i + 1 = j + 1 BY <2>1, <2>3 DEF OneAnswer
    <3> QED BY <2>1, <3>1
  <2> QED BY <1>3, <2>1, <2>2, <2>3 DEF OneAnswer, Reading
<1>4. ASSUME Reading, can_rx # <<>>, can_rx' = Tail(can_rx)
      PROVE  /\ 1 \in DOMAIN can_rx /\ Head(can_rx) = can_rx[1]
             /\ \A i \in DOMAIN can_rx' : /\ can_rx'[i] = can_rx[i + 1] /\ i \in Int
                                          /\ i + 1 \in DOMAIN can_rx /\ i + 1 # 1
  <2>1. can_rx \in Seq(Frame) BY FlowTypes
  <2> QED BY <1>4, <2>1, Shortened
<1>5. CASE /\ Reading /\ can_rx # <<>> /\ can_rx' = Tail(can_rx)
           /\ UNCHANGED fc_frame_queue
  <2>1. Flying' \subseteq Flying BY <1>4, <1>5 DEF Flying
  <2>2. \A i, j \in DOMAIN can_rx' : Answering(can_rx'[i]) /\ Answering(can_rx'[j]) => i = j
    BY <1>4, <1>5 DEF OneAnswer
  <2> QED BY <1>4, <1>5, <2>1, <2>2 DEF OneAnswer
<1>6. CASE /\ Reading /\ can_rx # <<>> /\ can_rx' = Tail(can_rx) /\ Reading'
           /\ fc_frame_queue' = Append(fc_frame_queue, Head(can_rx))
  <2>1. /\ DOMAIN fc_frame_queue' = 1 .. Len(fc_frame_queue) + 1
        /\ DOMAIN fc_frame_queue = 1 .. Len(fc_frame_queue) /\ Len(fc_frame_queue) \in Nat
        /\ fc_frame_queue'[Len(fc_frame_queue) + 1] = can_rx[1]
        /\ \A i \in DOMAIN fc_frame_queue : fc_frame_queue'[i] = fc_frame_queue[i]
        /\ \A i \in DOMAIN fc_frame_queue' :
             i \in DOMAIN fc_frame_queue \/ i = Len(fc_frame_queue) + 1
    BY <1>4, <1>6, FlowTypes, Appended
  <2>2. Flying' \subseteq Flying
    <3>1. ASSUME NEW i \in DOMAIN fc_frame_queue' PROVE fc_frame_queue'[i] \in Flying
      <4>1. CASE i \in DOMAIN fc_frame_queue BY <2>1, <4>1 DEF Flying
      <4>2. CASE i = Len(fc_frame_queue) + 1 BY <1>4, <1>6, <2>1, <4>2 DEF Flying
      <4> QED BY <2>1, <4>1, <4>2
    <3>2. ASSUME NEW i \in DOMAIN can_rx' PROVE can_rx'[i] \in Flying
      BY <1>4, <1>6 DEF Flying
    <3> QED BY <3>1, <3>2 DEF Flying
  <2>3. ASSUME NEW i \in DOMAIN fc_frame_queue', NEW j \in DOMAIN fc_frame_queue',
               Answering(fc_frame_queue'[i]), Answering(fc_frame_queue'[j])
        PROVE  i = j
    <3>1. CASE i \in DOMAIN fc_frame_queue /\ j \in DOMAIN fc_frame_queue
      BY <2>1, <2>3, <3>1 DEF OneAnswer
    <3>2. CASE i = Len(fc_frame_queue) + 1 /\ j \in DOMAIN fc_frame_queue
      <4>1. Answering(can_rx[1]) BY <2>1, <2>3, <3>2
      <4>2. Answering(fc_frame_queue[j]) BY <2>1, <2>3, <3>2
      <4> QED BY <1>4, <1>6, <3>2, <4>1, <4>2 DEF OneAnswer
    <3>3. CASE i \in DOMAIN fc_frame_queue /\ j = Len(fc_frame_queue) + 1
      <4>1. Answering(can_rx[1]) BY <2>1, <2>3, <3>3
      <4>2. Answering(fc_frame_queue[i]) BY <2>1, <2>3, <3>3
      <4> QED BY <1>4, <1>6, <3>3, <4>1, <4>2 DEF OneAnswer
    <3>4. CASE i = Len(fc_frame_queue) + 1 /\ j = Len(fc_frame_queue) + 1
      BY <3>4
    <3> QED BY <2>1, <3>1, <3>2, <3>3, <3>4
  <2>4. \A i, j \in DOMAIN can_rx' : Answering(can_rx'[i]) /\ Answering(can_rx'[j]) => i = j
    BY <1>4, <1>6 DEF OneAnswer
  <2>5. ASSUME NEW i \in DOMAIN fc_frame_queue', NEW j \in DOMAIN can_rx',
               Answering(fc_frame_queue'[i]), Answering(can_rx'[j])
        PROVE  FALSE
    <3>1. j + 1 \in DOMAIN can_rx /\ Answering(can_rx[j + 1]) /\ j + 1 # 1
      BY <1>4, <1>6, <2>5
    <3>2. CASE i \in DOMAIN fc_frame_queue
      <4>1. Answering(fc_frame_queue[i]) BY <2>1, <2>5, <3>2
      <4> QED BY <1>6, <3>1, <3>2, <4>1 DEF OneAnswer
    <3>3. CASE i = Len(fc_frame_queue) + 1
      BY <1>4, <1>6, <2>1, <2>5, <3>1, <3>3 DEF OneAnswer
    <3> QED BY <2>1, <3>2, <3>3
  <2> QED BY <2>2, <2>3, <2>4, <2>5 DEF OneAnswer
<1> QED BY <1>1, <1>2, <1>3, <1>5, <1>6

\* Once the answer is taken, there is none.
LEMMA AnswerTaken ==
  ASSUME SystemInv, OneAnswer, fc_frame_queue # <<>>, Answering(Head(fc_frame_queue)),
         fc_frame_queue' = Tail(fc_frame_queue), UNCHANGED <<can_rx, fpc>>
  PROVE  \A f \in Flying' : ~Answering(f)
<1>1. /\ 1 \in DOMAIN fc_frame_queue /\ Answering(fc_frame_queue[1])
      /\ \A i \in DOMAIN fc_frame_queue' :
           /\ fc_frame_queue'[i] = fc_frame_queue[i + 1] /\ i + 1 # 1
           /\ i + 1 \in DOMAIN fc_frame_queue
  <2>1. fc_frame_queue \in Seq(FlowFrame) BY FlowTypes
  <2> QED BY <2>1, Shortened
<1>2. \A i \in DOMAIN fc_frame_queue' : ~Answering(fc_frame_queue'[i])
  BY <1>1 DEF OneAnswer
<1>3. Reading => \A i \in DOMAIN can_rx : ~Answering(can_rx[i])
  BY <1>1 DEF OneAnswer
<1> QED BY <1>2, <1>3 DEF Flying, Reading

\* What reaches the socket is flying then.
LEMMA FlyingGrows ==
  ASSUME SystemInv, OneAnswer, NEW f, can_rx' \in {can_rx, Append(can_rx, f)},
         UNCHANGED <<fpc, fc_frame_queue>>,
         Answering(f) => \A g \in Flying : ~Answering(g)
  PROVE  Flying' \subseteq Flying \cup {f} /\ OneAnswer'
<1>1. CASE can_rx' = can_rx
  BY <1>1, FlyingShrinks DEF Reading
<1>2. CASE can_rx' = Append(can_rx, f)
  <2>1. /\ DOMAIN can_rx = 1 .. Len(can_rx) /\ Len(can_rx) \in Nat
        /\ can_rx'[Len(can_rx) + 1] = f
        /\ \A i \in DOMAIN can_rx : can_rx'[i] = can_rx[i]
        /\ \A i \in DOMAIN can_rx' : i \in DOMAIN can_rx \/ i = Len(can_rx) + 1
    BY <1>2, FlowTypes, Appended
  <2>2. Reading' = Reading BY DEF Reading
  <2>3. Flying' \subseteq Flying \cup {f}
    <3>1. ASSUME Reading, NEW i \in DOMAIN can_rx' PROVE can_rx'[i] \in Flying \cup {f}
      <4>1. CASE i \in DOMAIN can_rx BY <2>1, <3>1, <4>1 DEF Flying
      <4>2. CASE i = Len(can_rx) + 1 BY <2>1, <4>2
      <4> QED BY <2>1, <3>1, <4>1, <4>2
    <3> QED BY <2>2, <3>1 DEF Flying
  <2>4. ASSUME Reading, NEW i \in DOMAIN can_rx', Answering(can_rx'[i])
        PROVE  /\ \A j \in DOMAIN can_rx : Answering(can_rx[j]) => i = j
               /\ \A j \in DOMAIN fc_frame_queue : ~Answering(fc_frame_queue[j])
    <3>1. CASE i \in DOMAIN can_rx
      <4>1. Answering(can_rx[i]) BY <2>1, <2>4, <3>1
      <4> QED BY <2>4, <3>1, <4>1 DEF OneAnswer
    <3>2. CASE i = Len(can_rx) + 1
      <4>1. \A g \in Flying : ~Answering(g) BY <2>1, <2>4, <3>2
      <4> QED BY <2>4, <4>1 DEF Flying
    <3> QED BY <2>1, <2>4, <3>1, <3>2
  <2>5. ASSUME Reading, NEW i \in DOMAIN can_rx', Answering(can_rx'[i]),
               NEW j \in DOMAIN can_rx', Answering(can_rx'[j])
        PROVE  i = j
    <3>1. CASE j \in DOMAIN can_rx
      <4>1. Answering(can_rx[j]) BY <2>1, <2>5, <3>1
      <4> QED BY <2>4, <2>5, <3>1, <4>1
    <3>2. CASE i \in DOMAIN can_rx
      <4>1. Answering(can_rx[i]) BY <2>1, <2>5, <3>2
      <4> QED BY <2>4, <2>5, <3>2, <4>1
    <3>3. CASE i = Len(can_rx) + 1 /\ j = Len(can_rx) + 1 BY <3>3
    <3> QED BY <2>1, <2>5, <3>1, <3>2, <3>3
  <2> QED BY <2>2, <2>3, <2>4, <2>5 DEF OneAnswer
<1> QED BY <1>1, <1>2

\* Where main does not wait, nobody answers it, and nothing is owed to it.
LEMMA NobodyAnswers ==
  ASSUME SystemInv, FlowInv, mpc # "wait_fc"
  PROVE  /\ \A f \in Flying : ~Answering(f)
         /\ ~ecu_rx.owes
         /\ \A k \in seen + 1 .. Len(bus) : bus[k].pci # "FF"
BY DEF FlowInv, AnswersAwaited, Awaited, OwedAwaited, FirstAwaits

\* The new frames on the bus, when there is one more, or none.
LEMMA NewFrames ==
  ASSUME SystemInv, seen' = seen, NEW f, bus' \in {bus, Append(bus, f)}
  PROVE  /\ \A k \in seen + 1 .. Len(bus') :
              \/ k \in seen + 1 .. Len(bus) /\ bus'[k] = bus[k]
              \/ k = Len(bus) + 1 /\ bus' = Append(bus, f) /\ bus'[k] = f
         /\ \A k \in DOMAIN bus' :
              \/ k \in DOMAIN bus /\ bus'[k] = bus[k]
              \/ k = Len(bus) + 1 /\ bus' = Append(bus, f) /\ bus'[k] = f
         /\ Len(bus') \in {Len(bus), Len(bus) + 1}
         /\ \A k \in seen + 1 .. Len(bus) : k \in DOMAIN bus /\ k \in Int
<1>1. CASE bus' = bus
  <2>1. DOMAIN bus = 1 .. Len(bus) /\ Len(bus) \in Nat /\ seen \in Nat BY FlowTypes
  <2>2. \A k \in seen + 1 .. Len(bus) : k \in DOMAIN bus /\ k \in Int BY <2>1
  <2> QED BY <1>1, <2>2
<1>2. CASE bus' = Append(bus, f)
  <2>1. /\ DOMAIN bus = 1 .. Len(bus) /\ Len(bus) \in Nat /\ seen \in Nat
        /\ bus'[Len(bus) + 1] = f /\ Len(bus') = Len(bus) + 1
        /\ \A k \in DOMAIN bus : bus'[k] = bus[k]
        /\ \A k \in DOMAIN bus' : k \in DOMAIN bus \/ k = Len(bus) + 1
    BY <1>2, FlowTypes, Appended
  <2>2. ASSUME NEW k \in seen + 1 .. Len(bus')
        PROVE  \/ k \in seen + 1 .. Len(bus) /\ bus'[k] = bus[k]
               \/ k = Len(bus) + 1 /\ bus'[k] = f
    BY <2>1
  <2>3. \A k \in seen + 1 .. Len(bus) : k \in DOMAIN bus /\ k \in Int BY <2>1
  <2> QED BY <1>2, <2>1, <2>2, <2>3
<1> QED BY <1>1, <1>2

\* The ECU's side of a gateway's step.
LEMMA AsleepFacts ==
  ASSUME Asleep
  PROVE  /\ UNCHANGED <<seen, ecu_rx, due, requests, grants>>
         /\ InHand' = InHand /\ Active' = Active /\ Got' = Got /\ LastIndex' = LastIndex
BY DEF Asleep, ecu_rx_vars, InHand, Active, Got, LastIndex

LEMMA IdleFlow ==
  ASSUME SystemInv, FlowInv, Asleep, TransferIdle
  PROVE  FlowInv'
<1> USE DEF Transferring
<1> DEFINE f == SF(cur.id)
<1>1. /\ mpc \notin {"wait_fc", "block"} /\ mpc' \notin {"wait_fc", "block"}
      /\ bus' \in {bus, Append(bus, f)}
  BY DEF TransferIdle
<1>2. f.pci = "SF" BY DEF SF
<1> HIDE DEF f
<1>3. /\ \A g \in Flying : ~Answering(g)
      /\ ~ecu_rx.owes /\ \A k \in seen + 1 .. Len(bus) : bus[k].pci # "FF"
  BY <1>1, NobodyAnswers
<1>4. Flying' \subseteq Flying /\ OneAnswer'
  BY FlyingShrinks DEF TransferIdle, FlowInv, Reading
<1>5. AnswersAwaited' BY <1>3, <1>4 DEF AnswersAwaited, Answering
<1>6. \A k \in seen + 1 .. Len(bus') :
        \/ k \in seen + 1 .. Len(bus) /\ bus'[k] = bus[k]
        \/ bus'[k].pci = "SF"
  BY <1>1, <1>2, NewFrames, AsleepFacts
<1>7. FirstAwaits' BY <1>3, <1>6, AsleepFacts DEF FirstAwaits
<1>8. OwedAwaited' /\ BlockAgreed' /\ OwesOrBlock'
  BY <1>1, <1>3, AsleepFacts DEF OwedAwaited, BlockAgreed, OwesOrBlock, FlowInv
<1>9. NewInBlock'
  <2> SUFFICES ASSUME Active, ecu_rx.block > 0,
                      NEW k \in seen + 1 .. Len(bus'), bus'[k].pci = "CF"
               PROVE  InBlock(bus[k])' /\ bus'[k] = bus[k]
    BY AsleepFacts DEF NewInBlock, InBlock
  <2>1. k \in seen + 1 .. Len(bus) /\ bus'[k] = bus[k] BY <1>6
  <2>2. InBlock(bus[k]) BY <2>1 DEF FlowInv, NewInBlock
  <2> QED BY <1>1, <2>1, <2>2, AsleepFacts DEF InBlock
<1>10. Growing' BY AsleepFacts DEF Growing, FlowInv
<1>11. WithinGrants'
  <2>1. \A k \in DOMAIN bus' : (k \in DOMAIN bus /\ bus'[k] = bus[k]) \/ bus'[k].pci = "SF"
    BY <1>1, <1>2, NewFrames, AsleepFacts
  <2> QED BY <1>1, <2>1, AsleepFacts DEF WithinGrants, FlowInv
<1> QED BY <1>4, <1>5, <1>7, <1>8, <1>9, <1>10, <1>11 DEF FlowInv

LEMMA StartFlow ==
  ASSUME SystemInv, FlowInv, Asleep, TransferStarts
  PROVE  FlowInv'
<1> DEFINE f == FF(cur.id, cur.cfs)
<1>1. /\ mpc = "send" /\ mpc' = "wait_fc" /\ sent' = 0 /\ cur' = cur
      /\ bus' \in {bus, Append(bus, f)}
  BY DEF TransferStarts
<1>2. f.pci = "FF" /\ f.data[1] = cur.id /\ f.cfs = cur.cfs BY DEF FF
<1> HIDE DEF f
<1>3. /\ \A g \in Flying : ~Answering(g)
      /\ ~ecu_rx.owes /\ \A k \in seen + 1 .. Len(bus) : bus[k].pci # "FF"
  BY <1>1, NobodyAnswers
<1>4. Flying' \subseteq Flying /\ OneAnswer'
  BY FlyingShrinks DEF TransferStarts, FlowInv, Reading
<1>5. AnswersAwaited' BY <1>3, <1>4 DEF AnswersAwaited, Answering
<1>6. \A k \in seen + 1 .. Len(bus') :
        \/ k \in seen + 1 .. Len(bus) /\ bus'[k] = bus[k]
        \/ k = Len(bus) + 1 /\ bus' = Append(bus, f) /\ bus'[k] = f
  BY <1>1, NewFrames, AsleepFacts
<1>7. FirstAwaits'
  <2>1. ASSUME NEW k \in seen + 1 .. Len(bus'), bus'[k].pci = "FF"
        PROVE  bus'[k] = f /\ \A l \in k + 1 .. Len(bus') : bus'[l].pci = "FC"
    <3>1. k = Len(bus) + 1 /\ bus' = Append(bus, f) /\ bus'[k] = f
      BY <1>3, <1>6, <2>1
    <3>2. Len(bus') = Len(bus) + 1 /\ Len(bus) \in Nat BY <3>1, FlowTypes, Appended
    <3> QED BY <3>1, <3>2
  <2> QED BY <1>1, <1>2, <2>1, AsleepFacts DEF FirstAwaits
<1>8. OwedAwaited' /\ BlockAgreed' /\ OwesOrBlock'
  BY <1>1, <1>3, AsleepFacts DEF OwedAwaited, BlockAgreed, OwesOrBlock, FlowInv
<1>9. NewInBlock'
  <2> SUFFICES ASSUME Active, ecu_rx.block > 0,
                      NEW k \in seen + 1 .. Len(bus'), bus'[k].pci = "CF"
               PROVE  InBlock(bus[k])' /\ bus'[k] = bus[k]
    BY AsleepFacts DEF NewInBlock, InBlock
  <2>1. k \in seen + 1 .. Len(bus) /\ bus'[k] = bus[k] BY <1>2, <1>6
  <2>2. InBlock(bus[k]) BY <2>1 DEF FlowInv, NewInBlock
  <2> QED BY <1>1, <2>1, <2>2, AsleepFacts DEF InBlock
<1>10. Growing' BY AsleepFacts DEF Growing, FlowInv
<1>11. WithinGrants'
  <2>1. \A k \in DOMAIN bus' : (k \in DOMAIN bus /\ bus'[k] = bus[k]) \/ bus'[k].pci = "FF"
    BY <1>1, <1>2, NewFrames, AsleepFacts
  <2>2. grants[cur.id] \in Nat
    <3>1. cur.id \in 1 .. MaxRequests BY <1>1, FlowTypes DEF Handling
    <3> QED BY <3>1, FlowTypes
  <2> QED BY <1>1, <2>1, <2>2, AsleepFacts DEF WithinGrants, FlowInv
<1> QED BY <1>4, <1>5, <1>7, <1>8, <1>9, <1>10, <1>11 DEF FlowInv

\* Main's wait ends: a block, or no more of the request.
LEMMA WaitEnds ==
  ASSUME SystemInv, FlowInv, Asleep, mpc = "wait_fc", UNCHANGED <<cur, sent, bus>>,
         Flying' \subseteq Flying, OneAnswer', \A f \in Flying' : ~Answering(f),
         ~ecu_rx.owes, NothingNew,
         \/ mpc' \notin {"wait_fc", "block"}
         \/ /\ mpc' = "block" /\ block_left' = EcuBlock
            /\ sent + EcuBlock <= grants[cur.id]
            /\ Active => AtOne /\ ecu_rx.block = EcuBlock
  PROVE  FlowInv'
<1>1. AnswersAwaited' BY DEF AnswersAwaited, Answering
<1>2. FirstAwaits' /\ OwedAwaited' /\ OwesOrBlock' /\ NewInBlock' /\ Growing'
  BY AsleepFacts
  DEF FirstAwaits, OwedAwaited, OwesOrBlock, NewInBlock, Growing, FlowInv, NothingNew
<1>3. BlockAgreed'
  <2> SUFFICES ASSUME mpc' = "block", Active
               PROVE  /\ InHand = cur.id /\ ecu_rx.cfs = cur.cfs /\ ~ecu_rx.owes
                      /\ LastIndex <= sent /\ sent + block_left' <= Got + ecu_rx.block
    BY AsleepFacts DEF BlockAgreed
  <2>1. AtOne /\ ecu_rx.block = EcuBlock /\ block_left' = EcuBlock OBVIOUS
  <2>2. Got \in Nat /\ EcuBlock \in Nat BY ActiveTypes, BlockTypes
  <2> QED BY <2>1, <2>2 DEF AtOne
<1>4. WithinGrants' BY AsleepFacts DEF WithinGrants, FlowInv
<1> QED BY <1>1, <1>2, <1>3, <1>4 DEF FlowInv

\* Nothing main waits for changes.
LEMMA WaitGoesOn ==
  ASSUME SystemInv, FlowInv, Asleep, UNCHANGED <<mpc, cur, sent, block_left>>,
         Flying' \subseteq Flying, OneAnswer',
         bus' = bus \/ \E m : bus' = Append(bus, FC("CTS", 0, m))
  PROVE  FlowInv'
<1>1. PICK f : bus' \in {bus, Append(bus, f)} /\ f.pci = "FC"
  <2>1. \A m : FC("CTS", 0, m).pci = "FC" BY DEF FC
  <2> QED BY <2>1
<1>2. \A k \in seen + 1 .. Len(bus') :
        \/ k \in seen + 1 .. Len(bus) /\ bus'[k] = bus[k] /\ k \in Int
        \/ bus'[k].pci = "FC"
  BY <1>1, NewFrames, AsleepFacts
<1>3. \A k \in DOMAIN bus' : (k \in DOMAIN bus /\ bus'[k] = bus[k]) \/ bus'[k].pci = "FC"
  BY <1>1, NewFrames, AsleepFacts
<1>4. NothingNew => NothingNew' BY <1>2, AsleepFacts DEF NothingNew
<1>5. AtOne => AtOne' BY AsleepFacts DEF AtOne
<1>6. AnswersAwaited'
  BY <1>4, <1>5, AsleepFacts DEF AnswersAwaited, Awaited, Answering, FlowInv, EcuBlock
<1>7. FirstAwaits'
  <2> SUFFICES ASSUME NEW k \in seen + 1 .. Len(bus'), bus'[k].pci = "FF"
               PROVE  /\ mpc = "wait_fc" /\ sent = 0 /\ bus'[k].data[1] = cur.id
                      /\ bus'[k].cfs = cur.cfs
                      /\ \A l \in k + 1 .. Len(bus') : bus'[l].pci = "FC"
    BY AsleepFacts DEF FirstAwaits
  <2>1. k \in seen + 1 .. Len(bus) /\ bus'[k] = bus[k] BY <1>2
  <2>2. \A l \in k + 1 .. Len(bus') : l \in seen + 1 .. Len(bus') /\ k < l /\ l \in Int
    BY <2>1, FlowTypes
  <2>3. \A l \in k + 1 .. Len(bus') :
          \/ bus'[l].pci = "FC"
          \/ l \in k + 1 .. Len(bus) /\ bus'[l] = bus[l]
    <3>1. ASSUME NEW l \in seen + 1 .. Len(bus), k < l PROVE l \in k + 1 .. Len(bus)
      BY <2>1, <3>1, FlowTypes
    <3> QED BY <1>2, <2>2, <3>1
  <2> QED BY <2>1, <2>3 DEF FirstAwaits, FlowInv
<1>8. OwedAwaited' /\ BlockAgreed' /\ OwesOrBlock' /\ Growing'
  BY <1>4, <1>5, AsleepFacts DEF OwedAwaited, BlockAgreed, OwesOrBlock, Growing, FlowInv
<1>9. NewInBlock'
  <2> SUFFICES ASSUME Active, ecu_rx.block > 0,
                      NEW k \in seen + 1 .. Len(bus'), bus'[k].pci = "CF"
               PROVE  InBlock(bus[k])' /\ bus'[k] = bus[k]
    BY AsleepFacts DEF NewInBlock, InBlock
  <2>1. k \in seen + 1 .. Len(bus) /\ bus'[k] = bus[k] BY <1>2
  <2>2. InBlock(bus[k]) BY <2>1 DEF FlowInv, NewInBlock
  <2> QED BY <2>1, <2>2, AsleepFacts DEF InBlock
<1>10. WithinGrants' BY <1>3, AsleepFacts DEF WithinGrants, FlowInv
<1> QED BY <1>6, <1>7, <1>8, <1>9, <1>10 DEF FlowInv

\* A consecutive frame is sent.
LEMMA BlockFlow ==
  ASSUME SystemInv, SegInv, CfOrdered, FlowInv, Asleep, SendConsecutiveFrame
  PROVE  FlowInv'
<1> DEFINE f == CF(cur.id, sent + 1, seq_num)
<1>1. /\ mpc = "block" /\ cur' = cur /\ sent' = sent + 1 /\ block_left' = block_left - 1
      /\ bus' = Append(bus, f) /\ UNCHANGED <<fpc, fc_frame_queue, can_rx>>
  BY DEF SendConsecutiveFrame, CanWrite, can_vars
<1>2. f.pci = "CF" /\ f.data[1] = cur.id /\ f.data[2] = sent + 1 BY DEF CF
<1>3. /\ sent \in Nat /\ cur.cfs \in Nat /\ sent < cur.cfs /\ block_left \in Nat
      /\ block_left > 0
  BY <1>1, FlowTypes DEF SegInv, SystemInv, TypeInv, BlockOpen
<1>4. \/ mpc' = "loop" /\ sent + 1 = cur.cfs
      \/ mpc' = "wait_fc" /\ block_left = 1
      \/ mpc' = "block" /\ block_left > 1
  <2>1. CASE sent' >= cur.cfs BY <1>1, <1>3, <2>1 DEF SendConsecutiveFrame
  <2>2. CASE sent' < cur.cfs /\ block_left' = 0
    <3>1. ~(sent' >= cur.cfs) BY <1>1, <1>3, <2>2
    <3> QED BY <1>1, <1>3, <2>2, <3>1 DEF SendConsecutiveFrame
  <2>3. CASE ~(sent' >= cur.cfs) /\ ~(sent' < cur.cfs /\ block_left' = 0)
    <3>1. block_left > 1 BY <1>1, <1>3, <2>3
    <3> QED BY <1>1, <2>3, <3>1 DEF SendConsecutiveFrame
  <2> QED BY <2>1, <2>2, <2>3
<1> HIDE DEF f
<1>5. /\ \A g \in Flying : ~Answering(g)
      /\ ~ecu_rx.owes /\ \A k \in seen + 1 .. Len(bus) : bus[k].pci # "FF"
  BY <1>1, NobodyAnswers
<1>6. Flying' \subseteq Flying /\ OneAnswer'
  BY <1>1, FlyingShrinks DEF FlowInv, Reading
<1>7. AnswersAwaited' BY <1>5, <1>6 DEF AnswersAwaited, Answering
<1>8. \A k \in seen + 1 .. Len(bus') :
        \/ k \in seen + 1 .. Len(bus) /\ bus'[k] = bus[k]
        \/ bus'[k] = f
  BY <1>1, NewFrames, AsleepFacts
<1>9. FirstAwaits' BY <1>2, <1>5, <1>8, AsleepFacts DEF FirstAwaits
<1>10. OwedAwaited' /\ OwesOrBlock' /\ Growing'
  BY <1>5, AsleepFacts DEF OwedAwaited, OwesOrBlock, Growing, FlowInv
<1>11. ASSUME Active
       PROVE  /\ InHand = cur.id /\ ecu_rx.cfs = cur.cfs /\ LastIndex <= sent
              /\ sent + block_left <= Got + ecu_rx.block
              /\ Got \in Nat /\ LastIndex \in Nat /\ ecu_rx.block \in Nat
  BY <1>1, <1>11, ActiveTypes, FlowTypes DEF FlowInv, BlockAgreed
<1>12. BlockAgreed'
  <2> SUFFICES ASSUME mpc' = "block", Active
               PROVE  /\ InHand = cur.id /\ ecu_rx.cfs = cur.cfs /\ ~ecu_rx.owes
                      /\ LastIndex <= sent' /\ sent' + block_left' <= Got + ecu_rx.block
    BY <1>1, AsleepFacts DEF BlockAgreed
  <2> QED BY <1>1, <1>3, <1>5, <1>11
<1>13. NewInBlock'
  <2> SUFFICES ASSUME Active, ecu_rx.block > 0,
                      NEW k \in seen + 1 .. Len(bus'), bus'[k].pci = "CF"
               PROVE  /\ bus'[k].data[1] = InHand /\ LastIndex < bus'[k].data[2]
                      /\ bus'[k].data[2] <= ecu_rx.cfs
                      /\ \/ bus'[k].data[2] < Got + ecu_rx.block
                         \/ /\ bus'[k].data[2] = Got + ecu_rx.block
                            /\ \/ bus'[k].data[2] = ecu_rx.cfs
                               \/ /\ mpc' = "wait_fc" /\ InHand = cur.id
                                  /\ ecu_rx.cfs = cur.cfs /\ sent' = bus'[k].data[2]
    BY <1>1, AsleepFacts DEF NewInBlock, InBlock
  <2>1. CASE k \in seen + 1 .. Len(bus) /\ bus'[k] = bus[k]
    <3>1. InBlock(bus[k]) BY <2>1 DEF FlowInv, NewInBlock
    <3> QED BY <1>1, <2>1, <3>1 DEF InBlock
  <2>2. CASE bus'[k] = f
    <3>1. /\ f.data[1] = InHand /\ LastIndex < f.data[2] /\ f.data[2] <= ecu_rx.cfs
          /\ f.data[2] <= Got + ecu_rx.block
      BY <1>2, <1>3, <1>11
    <3>2. f.data[2] = Got + ecu_rx.block => block_left = 1 BY <1>2, <1>3, <1>11
    <3>3. f.data[2] < Got + ecu_rx.block \/ f.data[2] = Got + ecu_rx.block
      BY <1>2, <1>3, <1>11, <3>1
    <3>4. CASE f.data[2] = Got + ecu_rx.block
      BY <1>1, <1>2, <1>4, <1>11, <2>2, <3>1, <3>2, <3>4
    <3> QED BY <2>2, <3>1, <3>3, <3>4
  <2> QED BY <1>8, <2>1, <2>2
<1>14. WithinGrants'
  <2>1. sent + block_left <= grants[cur.id] /\ grants[cur.id] \in Nat
    <3>1. cur.id \in 1 .. MaxRequests BY <1>1, FlowTypes DEF Handling
    <3> QED BY <1>1, <3>1, FlowTypes DEF FlowInv, WithinGrants
  <2>2. /\ mpc' = "wait_fc" => sent' <= grants[cur.id]
        /\ mpc' = "block" => sent' + block_left' <= grants[cur.id]
        /\ 1 <= f.data[2] /\ f.data[2] <= grants[f.data[1]]
    BY <1>1, <1>2, <1>3, <2>1
  <2>3. \A k \in DOMAIN bus' : (k \in DOMAIN bus /\ bus'[k] = bus[k]) \/ bus'[k] = f
    BY <1>1, NewFrames, AsleepFacts
  <2>4. \A i \in DOMAIN bus' : bus'[i].pci = "CF" =>
          1 <= bus'[i].data[2] /\ bus'[i].data[2] <= grants[bus'[i].data[1]]
    BY <2>2, <2>3 DEF FlowInv, WithinGrants
  <2> QED BY <1>1, <2>2, <2>4, AsleepFacts DEF WithinGrants
<1> QED BY <1>6, <1>7, <1>9, <1>10, <1>12, <1>13, <1>14 DEF FlowInv

\* The transfer is given up in a block.
LEMMA AbortFlow ==
  ASSUME SystemInv, FlowInv, Asleep, AbortTransfer
  PROVE  FlowInv'
<1>1. /\ mpc = "block" /\ mpc' = "loop" /\ UNCHANGED <<cur, sent, bus>>
      /\ UNCHANGED <<fpc, fc_frame_queue, can_rx>>
  BY DEF AbortTransfer, Main, CanWrite, can_vars, tx_vars
<1>2. /\ \A g \in Flying : ~Answering(g)
      /\ ~ecu_rx.owes /\ \A k \in seen + 1 .. Len(bus) : bus[k].pci # "FF"
  BY <1>1, NobodyAnswers
<1>3. Flying' \subseteq Flying /\ OneAnswer'
  BY <1>1, FlyingShrinks DEF FlowInv, Reading
<1>4. AnswersAwaited' BY <1>2, <1>3 DEF AnswersAwaited, Answering
<1>5. FirstAwaits' /\ OwedAwaited' /\ BlockAgreed' /\ OwesOrBlock' /\ Growing'
  BY <1>1, <1>2, AsleepFacts
  DEF FirstAwaits, OwedAwaited, BlockAgreed, OwesOrBlock, Growing, FlowInv
<1>6. NewInBlock'
  <2> SUFFICES ASSUME Active, ecu_rx.block > 0,
                      NEW k \in seen + 1 .. Len(bus), bus[k].pci = "CF"
               PROVE  InBlock(bus[k])'
    BY <1>1, AsleepFacts DEF NewInBlock
  <2>1. InBlock(bus[k]) BY DEF FlowInv, NewInBlock
  <2> QED BY <1>1, <2>1, AsleepFacts DEF InBlock
<1>7. WithinGrants' BY <1>1, AsleepFacts DEF WithinGrants, FlowInv
<1> QED BY <1>3, <1>4, <1>5, <1>6, <1>7 DEF FlowInv

\* A punctual timeout strikes when nothing that main waits for is coming.
LEMMA TimeoutGuard ==
  ASSUME [SystemNext]_system_vars, Punctual, FlowControlTimeout
  PROVE  ~GrantComing
<1>1. mpc = "wait_fc" /\ mpc' = "loop" /\ fc_frame_queue = <<>>
  BY DEF FlowControlTimeout, Main
<1>2. CASE SystemMain BY <1>1, <1>2 DEF SystemMain
<1>3. CASE SystemForwarder
  <2>1. UNCHANGED mpc
    BY <1>3 DEF SystemForwarder, ForwarderStep, FwdLoop, FwdTimeout, FwdFlowControl,
       FwdStray, FwdSingleFrame, FwdFirstFrame, FwdConsecutiveFrame, FwdUnexpected,
       FwdCfTimeout, FwdBeginWrite, FwdEndWrite, FwdWriteFails
  <2> QED BY <1>1, <2>1
<1>4. CASE Ecu BY <1>1, <1>4, EcuFootprint
<1>5. CASE SystemAccept BY <1>1, <1>5 DEF SystemAccept, Accept, Main
<1>6. CASE SystemTester
  BY <1>1, <1>6 DEF SystemTester, TesterSends, TesterCloses
<1>7. CASE Rest \/ UNCHANGED system_vars
  BY <1>1, <1>7 DEF Rest, system_vars, vars
<1> QED BY <1>2, <1>3, <1>4, <1>5, <1>6, <1>7 DEF SystemNext

LEMMA TimeoutFlow ==
  ASSUME SystemInv, FlowInv, Asleep, FlowControlTimeout, ~GrantComing
  PROVE  FlowInv'
<1>1. /\ mpc = "wait_fc" /\ mpc' = "loop" /\ fc_frame_queue = <<>>
      /\ UNCHANGED <<cur, sent, bus, fpc, fc_frame_queue, can_rx>>
  BY DEF FlowControlTimeout, Main, can_vars, tx_vars
<1>2. /\ ~ecu_rx.owes /\ ~ (seen < Len(bus))
      /\ Reading => \A i \in DOMAIN can_rx : can_rx[i].pci # "FC"
  BY DEF GrantComing, Reading
<1>3. Flying' \subseteq Flying /\ OneAnswer'
  BY <1>1, FlyingShrinks DEF FlowInv, Reading
<1>4. \A f \in Flying : ~Answering(f)
  <2>1. DOMAIN fc_frame_queue = {} BY <1>1
  <2> QED BY <1>2, <2>1 DEF Flying, Answering
<1>5. NothingNew
  <2>1. seen + 1 .. Len(bus) = {} BY <1>2, FlowTypes
  <2> QED BY <2>1 DEF NothingNew
<1>6. mpc' \notin {"wait_fc", "block"} BY <1>1
<1> QED BY <1>1, <1>2, <1>3, <1>4, <1>5, <1>6, WaitEnds

\* Main takes a Flow Control frame.
LEMMA TakeFlow ==
  ASSUME SystemInv, FlowInv, Asleep, TakeFlowControl
  PROVE  FlowInv'
<1> DEFINE f == Head(fc_frame_queue)
<1>1. /\ mpc = "wait_fc" /\ fc_frame_queue # <<>>
      /\ fc_frame_queue' = Tail(fc_frame_queue)
      /\ UNCHANGED <<cur, sent, bus, fpc, can_rx>>
      /\ \/ f.fs = "CTS" /\ mpc' = "block" /\ block_left' = Granted(f.bs)
         \/ f.fs = "WAIT" /\ UNCHANGED <<mpc, block_left>>
         \/ f.fs = "OVFLW" /\ mpc' = "loop"
  BY DEF TakeFlowControl, can_vars
<1>2. f = fc_frame_queue[1] /\ 1 \in DOMAIN fc_frame_queue /\ f \in FlowFrame
  BY <1>1, FlowTypes, Tailed
<1>3. f \in Flying /\ f.pci = "FC" BY <1>2 DEF Flying, FlowFrame
<1>4. Flying' \subseteq Flying /\ OneAnswer'
  BY <1>1, FlyingShrinks DEF FlowInv
<1>5. CASE f.fs = "WAIT"
  BY <1>1, <1>4, <1>5, WaitGoesOn
<1>6. CASE f.fs \in {"CTS", "OVFLW"}
  <2>1. Answering(f) BY <1>3, <1>6 DEF Answering
  <2>2. Awaited(f) BY <1>3, <2>1 DEF FlowInv, AnswersAwaited
  <2>3. \A g \in Flying' : ~Answering(g)
    BY <1>1, <2>1, AnswerTaken DEF FlowInv
  <2>4. ~ecu_rx.owes /\ NothingNew BY <2>2 DEF Awaited
  <2>5. \/ mpc' \notin {"wait_fc", "block"}
        \/ /\ mpc' = "block" /\ block_left' = EcuBlock
           /\ sent + EcuBlock <= grants[cur.id]
           /\ Active => AtOne /\ ecu_rx.block = EcuBlock
    <3>1. CASE f.fs = "CTS"
      <4>1. mpc' = "block" /\ block_left' = Granted(f.bs) /\ f.bs = BlockSize
        BY <1>1, <2>2, <3>1 DEF Awaited
      <4> QED BY <2>2, <3>1, <4>1, BlockTypes DEF Awaited
    <3>2. CASE f.fs = "OVFLW" BY <1>1, <3>2
    <3> QED BY <1>6, <3>1, <3>2
  <2> HIDE DEF f
  <2> QED BY <1>1, <1>4, <2>3, <2>4, <2>5, WaitEnds
<1> QED BY <1>1, <1>5, <1>6

\* The gateway's side of the inductive step.
LEMMA GatewayFlow ==
  ASSUME SystemInv, SegInv, CfOrdered, FlowInv, GatewayStep, Asleep,
         [SystemNext]_system_vars, Punctual
  PROVE  FlowInv'
<1>1. CASE TransferIdle BY <1>1, IdleFlow
<1>2. CASE TransferStarts BY <1>2, StartFlow
<1>3. CASE Transfers
  BY <1>3, TakeFlow, TimeoutGuard, TimeoutFlow, BlockFlow, AbortFlow DEF Transfers
<1>4. CASE Elsewhere
  <2>1. Flying' \subseteq Flying /\ OneAnswer'
    BY <1>4, FlyingShrinks DEF Elsewhere, FlowInv
  <2> QED BY <1>4, <2>1, WaitGoesOn DEF Elsewhere
<1> QED BY <1>1, <1>2, <1>3, <1>4, TransferSteps

\* A frame of a request carries one of the tester's numbers.
LEMMA ConsNumbers ==
  ASSUME SystemInv, NEW i \in DOMAIN bus, bus[i].pci # "FC"
  PROVE  /\ bus[i].data \in Chunk /\ bus[i].data[2] \in Nat
         /\ bus[i].data[1] \in 1 .. MaxRequests
<1>1. bus[i] \in Frame BY FlowTypes, Elements
<1>2. bus[i].data \in Chunk BY <1>1, FrameKinds
<1>3. bus[i].data[1] \in Nat /\ bus[i].data[2] \in Nat BY <1>2 DEF Chunk
<1>4. 0 < bus[i].data[1] /\ bus[i].data[1] <= cur.id
  BY DEF SystemInv, BusOrdered
<1>5. cur.id <= msgs /\ msgs <= MaxRequests /\ cur.id \in Nat /\ msgs \in Nat
  BY FlowTypes DEF SystemInv, Numbered, TypeInv, TypeOK, ChannelTypeOK
<1> QED BY <1>2, <1>3, <1>4, <1>5, SystemAssumption

\* What the ECU leaves alone.
Still == UNCHANGED <<mpc, fpc, fc_frame_queue, cur, sent, block_left, bus>>

\* The ECU gets nothing, or forgets what it has in hand; what it sends, if it answers,
\* is no clear-to-send.
LEMMA LessFlow ==
  ASSUME SystemInv, FlowInv, Still, UNCHANGED grants,
         seen' = seen \/ seen' = seen + 1, ecu_rx' \in {ecu_rx, NoRx},
         NEW f, can_rx' \in {can_rx, Append(can_rx, f)},
         Answering(f) =>
           /\ \A g \in Flying : ~Answering(g)
           /\ mpc = "wait_fc" /\ ~ecu_rx'.owes /\ NothingNew /\ f.fs # "CTS"
  PROVE  FlowInv'
<1> USE DEF Still
<1>1. ~NoRx.owes BY DEF NoRx
<1>2. Flying' \subseteq Flying \cup {f} /\ OneAnswer' BY FlyingGrows DEF FlowInv
<1>3. \A k \in seen' + 1 .. Len(bus') : k \in seen + 1 .. Len(bus) BY FlowTypes
<1>4. NothingNew => NothingNew' BY <1>3 DEF NothingNew
<1>5. Active' => Active /\ ecu_rx' = ecu_rx BY DEF Active
<1>6. ecu_rx' = ecu_rx => /\ InHand' = InHand /\ Got' = Got /\ LastIndex' = LastIndex
                          /\ AtOne => AtOne'
  BY DEF InHand, Got, LastIndex, AtOne
<1>7. AnswersAwaited'
  <2> SUFFICES ASSUME NEW g \in Flying', Answering(g)
               PROVE  /\ mpc = "wait_fc" /\ ~ecu_rx'.owes /\ NothingNew'
                      /\ g.fs = "CTS" =>
                           /\ g.bs = BlockSize /\ sent + EcuBlock <= grants[cur.id]
                           /\ Active' => AtOne' /\ ecu_rx'.block = EcuBlock
    BY DEF AnswersAwaited, Awaited, Answering, EcuBlock
  <2>1. CASE g \in Flying
    <3>1. Awaited(g) BY <2>1 DEF FlowInv, AnswersAwaited
    <3> QED BY <1>1, <1>4, <1>5, <1>6, <3>1 DEF Awaited
  <2>2. CASE g = f BY <1>4, <2>2
  <2> QED BY <1>2, <2>1, <2>2
<1>8. FirstAwaits'
  <2> SUFFICES ASSUME NEW k \in seen' + 1 .. Len(bus'), bus[k].pci = "FF"
               PROVE  /\ mpc = "wait_fc" /\ sent = 0 /\ bus[k].data[1] = cur.id
                      /\ bus[k].cfs = cur.cfs
                      /\ \A l \in k + 1 .. Len(bus) : bus[l].pci = "FC"
    BY DEF FirstAwaits
  <2> QED BY <1>3 DEF FlowInv, FirstAwaits
<1>9. OwedAwaited' BY <1>1, <1>4, <1>6 DEF FlowInv, OwedAwaited
<1>10. BlockAgreed' BY <1>5, <1>6 DEF FlowInv, BlockAgreed
<1>11. OwesOrBlock' BY <1>5 DEF FlowInv, OwesOrBlock
<1>12. NewInBlock'
  <2> SUFFICES ASSUME Active', ecu_rx'.block > 0,
                      NEW k \in seen' + 1 .. Len(bus'), bus[k].pci = "CF"
               PROVE  InBlock(bus[k])'
    BY DEF NewInBlock
  <2>1. InBlock(bus[k]) BY <1>3, <1>5 DEF FlowInv, NewInBlock
  <2> QED BY <1>5, <1>6, <2>1 DEF InBlock
<1>13. Growing' BY <1>5, <1>6 DEF FlowInv, Growing
<1>14. WithinGrants' BY DEF FlowInv, WithinGrants
<1> QED BY <1>2, <1>7, <1>8, <1>9, <1>10, <1>11, <1>12, <1>13, <1>14 DEF FlowInv

\* A clear-to-send, which the ECU owes to main.
LEMMA ClearFlow ==
  ASSUME SystemInv, FlowInv, Still, UNCHANGED seen, ecu_rx.owes,
         NEW f, can_rx' \in {can_rx, Append(can_rx, f)}, f.bs = BlockSize,
         ecu_rx' = [ecu_rx EXCEPT !.owes = FALSE, !.block = EcuBlock],
         grants' = [grants EXCEPT ![InHand] = @ + EcuBlock]
  PROVE  FlowInv'
<1> USE DEF Still
<1>1. mpc = "wait_fc" /\ AtOne /\ NothingNew /\ \A g \in Flying : ~Answering(g)
  BY DEF FlowInv, OwedAwaited, AnswersAwaited, Awaited
<1>2. ecu_rx \in [data : Seq(Chunk), cfs : Nat, block : Nat, owes : BOOLEAN]
  BY DEF SystemInv, EcuTypes
<1>3. /\ ecu_rx'.data = ecu_rx.data /\ ecu_rx'.cfs = ecu_rx.cfs
      /\ ~ecu_rx'.owes /\ ecu_rx'.block = EcuBlock
  BY <1>2
<1>4. Active BY DEF Active, NoRx
<1>5. InHand' = InHand /\ Got' = Got /\ LastIndex' = LastIndex /\ AtOne'
  BY <1>1, <1>3 DEF InHand, Got, LastIndex, AtOne
<1>6. NothingNew' BY <1>1 DEF NothingNew
<1>7. /\ cur.id \in 1 .. MaxRequests /\ InHand = cur.id
      /\ grants \in [1 .. MaxRequests -> Nat] /\ EcuBlock \in Nat /\ EcuBlock > 0
  BY <1>1, FlowTypes, BlockTypes DEF AtOne, Handling
<1>8. /\ grants'[cur.id] = grants[cur.id] + EcuBlock
      /\ \A m \in 1 .. MaxRequests :
           grants[m] <= grants'[m] /\ grants[m] \in Nat /\ grants'[m] \in Nat
  BY <1>7
<1>9. sent <= grants[cur.id] /\ sent \in Nat
  BY <1>1, FlowTypes DEF FlowInv, WithinGrants
<1>10. Flying' \subseteq Flying \cup {f} /\ OneAnswer'
  <2>1. /\ OneAnswer /\ UNCHANGED <<fpc, fc_frame_queue>>
        /\ Answering(f) => \A g \in Flying : ~Answering(g)
    BY <1>1 DEF FlowInv
  <2> HIDE DEF Still
  <2> QED BY <2>1, FlyingGrows
<1>11. AnswersAwaited'
  <2>1. sent + EcuBlock <= grants'[cur.id] BY <1>7, <1>8, <1>9
  <2>2. \A g \in Flying' : Answering(g) => g.bs = BlockSize BY <1>1, <1>10
  <2> QED BY <1>1, <1>3, <1>5, <1>6, <2>1, <2>2
          DEF AnswersAwaited, Awaited, Answering, EcuBlock
<1>12. FirstAwaits' BY DEF FlowInv, FirstAwaits
<1>13. OwedAwaited' /\ BlockAgreed' BY <1>1, <1>3 DEF OwedAwaited, BlockAgreed
<1>14. OwesOrBlock' BY <1>3, <1>7 DEF OwesOrBlock
<1>15. NewInBlock' BY <1>6 DEF NewInBlock, NothingNew
<1>16. Growing' BY <1>3, <1>4, <1>5 DEF FlowInv, Growing
<1>17. WithinGrants'
  <2>1. ASSUME NEW i \in DOMAIN bus, bus[i].pci = "CF"
        PROVE  1 <= bus[i].data[2] /\ bus[i].data[2] <= grants'[bus[i].data[1]]
    <3>1. 1 <= bus[i].data[2] /\ bus[i].data[2] <= grants[bus[i].data[1]]
      BY <2>1 DEF FlowInv, WithinGrants
    <3>2. bus[i].data[2] \in Nat /\ bus[i].data[1] \in 1 .. MaxRequests
      BY <2>1, ConsNumbers
    <3> QED BY <1>8, <3>1, <3>2
  <2>2. sent <= grants'[cur.id] BY <1>7, <1>8, <1>9
  <2> QED BY <1>1, <2>1, <2>2 DEF WithinGrants
<1> QED BY <1>10, <1>11, <1>12, <1>13, <1>14, <1>15, <1>16, <1>17 DEF FlowInv

LEMMA NextToSee ==
  ASSUME SystemInv, seen < Len(bus)
  PROVE  seen + 1 \in DOMAIN bus /\ seen + 1 \in seen + 1 .. Len(bus)
<1>1. seen \in Nat /\ Len(bus) \in Nat /\ DOMAIN bus = 1 .. Len(bus) BY FlowTypes
<1> QED BY <1>1

\* The next frame of the gateway's, when it is one of a request; nobody answers main
\* before the ECU has it.
LEMMA FrameToCome ==
  ASSUME SystemInv, seen < Len(bus), bus[seen + 1].pci # "FC"
  PROVE  /\ seen + 1 \in DOMAIN bus /\ ~NothingNew
         /\ FlowInv => \A g \in Flying : ~Answering(g)
<1>1. seen + 1 \in DOMAIN bus /\ seen + 1 \in seen + 1 .. Len(bus) BY NextToSee
<1>2. ~NothingNew BY <1>1 DEF NothingNew
<1> QED BY <1>1, <1>2 DEF FlowInv, AnswersAwaited, Awaited

\* A first frame.
LEMMA BeginFlow ==
  ASSUME SystemInv, CfOrdered, FlowInv, Still, UNCHANGED <<grants, can_rx>>,
         seen < Len(bus), seen' = seen + 1, Begins(bus[seen + 1])
  PROVE  FlowInv'
<1> USE DEF Still
<1> DEFINE f == bus[seen + 1]
<1>1. /\ f.pci = "FF" /\ ecu_rx'.data = <<f.data>> /\ ecu_rx'.cfs = f.cfs
      /\ ecu_rx'.block = 0 /\ ecu_rx'.owes
  BY DEF Begins
<1>2. /\ seen + 1 \in DOMAIN bus /\ f.data[2] = 0
      /\ \A g \in Flying : ~Answering(g)
  BY <1>1, FrameToCome DEF CfOrdered, Started
<1>3. /\ mpc = "wait_fc" /\ sent = 0 /\ f.data[1] = cur.id /\ f.cfs = cur.cfs
      /\ \A l \in seen + 1 + 1 .. Len(bus) : bus[l].pci = "FC"
  <2>1. seen + 1 \in seen + 1 .. Len(bus) BY NextToSee DEF Begins
  <2> QED BY <1>1, <2>1 DEF FlowInv, FirstAwaits
<1> HIDE DEF f
<1>4. NothingNew' BY <1>3 DEF NothingNew
<1>5. Len(ecu_rx'.data) = 1 /\ ecu_rx'.data[1] = f.data /\ DOMAIN ecu_rx'.data = {1}
  BY <1>1
<1>6. InHand' = f.data[1] /\ Got' = 0 /\ LastIndex' = 0
  BY <1>2, <1>5 DEF InHand, Got, LastIndex
<1>7. Flying' \subseteq Flying /\ OneAnswer'
  BY FlyingShrinks DEF FlowInv, Reading
<1>8. AnswersAwaited' BY <1>2, <1>7 DEF AnswersAwaited, Answering
<1>9. FirstAwaits' /\ NewInBlock' BY <1>4 DEF FirstAwaits, NewInBlock, NothingNew
<1>10. OwedAwaited' BY <1>1, <1>3, <1>4, <1>6 DEF OwedAwaited, AtOne
<1>11. BlockAgreed' /\ OwesOrBlock' BY <1>1, <1>3 DEF BlockAgreed, OwesOrBlock
<1>12. Growing' BY <1>2, <1>5, <1>6 DEF Growing
<1>13. WithinGrants' BY DEF FlowInv, WithinGrants
<1> QED BY <1>7, <1>8, <1>9, <1>10, <1>11, <1>12, <1>13 DEF FlowInv

\* A consecutive frame that fits is one of the block, and higher than what is there.
LEMMA FrameFits ==
  ASSUME SystemInv, FlowInv, seen < Len(bus), Waits(bus[seen + 1])
  PROVE  /\ Active /\ InBlock(bus[seen + 1]) /\ seen + 1 \in DOMAIN bus
         /\ Got <= LastIndex /\ LastIndex < bus[seen + 1].data[2]
         /\ bus[seen + 1].data \in Chunk /\ bus[seen + 1].data[2] \in Nat
<1>1. Active /\ bus[seen + 1].pci = "CF" /\ ecu_rx.block > 0 BY DEF Waits, Active
<1>2. seen + 1 \in DOMAIN bus /\ seen + 1 \in seen + 1 .. Len(bus)
  BY NextToSee DEF Waits
<1>3. InBlock(bus[seen + 1]) BY <1>1, <1>2 DEF FlowInv, NewInBlock
<1>4. Got <= LastIndex
  <2>1. /\ Got \in Nat /\ LastIndex \in Nat /\ Len(ecu_rx.data) = Got + 1
        /\ Got + 1 \in DOMAIN ecu_rx.data
    BY <1>1, ActiveTypes
  <2>2. Got + 1 - 1 <= ecu_rx.data[Got + 1][2] BY <1>1, <2>1 DEF FlowInv, Growing
  <2> QED BY <2>1, <2>2 DEF LastIndex
<1> QED BY <1>1, <1>2, <1>3, <1>4, ConsNumbers DEF InBlock

\* The frame that ends a block which does not end the request is the last one there is.
LEMMA BlockEnds ==
  ASSUME SystemInv, CfOrdered, FlowInv, seen < Len(bus), Waits(bus[seen + 1]),
         ecu_rx.block = 1, bus[seen + 1].data[2] # ecu_rx.cfs
  PROVE  /\ mpc = "wait_fc" /\ InHand = cur.id /\ ecu_rx.cfs = cur.cfs
         /\ sent = Got + 1 /\ bus[seen + 1].data[2] = Got + 1
         /\ \A k \in seen + 1 + 1 .. Len(bus) : bus[k].pci = "FC"
<1> DEFINE f == bus[seen + 1]
<1>1. /\ Active /\ InBlock(f) /\ seen + 1 \in DOMAIN bus /\ f.pci = "CF"
      /\ Got <= LastIndex /\ LastIndex < f.data[2] /\ f.data[2] \in Nat
      /\ Got \in Nat /\ LastIndex \in Nat
  BY FrameFits, ActiveTypes DEF Waits
<1>2. f.data[2] = Got + 1 /\ f.data[1] = InHand BY <1>1 DEF InBlock
<1>3. mpc = "wait_fc" /\ InHand = cur.id /\ ecu_rx.cfs = cur.cfs /\ sent = f.data[2]
  BY <1>1, <1>2 DEF InBlock
<1>4. ASSUME NEW k \in seen + 1 + 1 .. Len(bus) PROVE bus[k].pci = "FC"
  <2>1. /\ k \in DOMAIN bus /\ seen + 1 < k /\ k \in seen + 1 .. Len(bus)
        /\ bus[k] \in Frame
    <3>1. seen \in Nat /\ Len(bus) \in Nat /\ DOMAIN bus = 1 .. Len(bus) BY FlowTypes
    <3>2. k \in DOMAIN bus /\ seen + 1 < k /\ k \in seen + 1 .. Len(bus) BY <3>1
    <3>3. bus \in Seq(Frame) BY FlowTypes
    <3> QED BY <3>2, <3>3, Elements
  <2>2. bus[k].pci # "FF" BY <1>1, <1>2, <1>3, <2>1 DEF FlowInv, FirstAwaits
  <2>3. bus[k].pci # "SF"
    <3> SUFFICES ASSUME bus[k].pci = "SF" PROVE FALSE
      OBVIOUS
    <3>1. f.data[1] < bus[k].data[1] /\ bus[k].data[1] <= cur.id
      BY <1>1, <2>1 DEF SystemInv, BusOrdered, Started
    <3>2. bus[k].data[1] \in Nat /\ cur.id \in Nat
      BY <2>1, BusNumbers, FlowTypes DEF SystemInv
    <3> QED BY <1>2, <1>3, <3>1, <3>2
  <2>4. bus[k].pci # "CF"
    <3> SUFFICES ASSUME bus[k].pci = "CF" PROVE FALSE
      OBVIOUS
    <3>1. InBlock(bus[k]) BY <1>1, <2>1 DEF FlowInv, NewInBlock
    <3>2. bus[k].data[2] \in Nat BY <2>1, ConsNumbers
    <3>3. bus[k].data[1] = InHand /\ bus[k].data[2] <= Got + 1
      BY <1>1, <3>1, <3>2 DEF InBlock
    <3>4. f.data[2] < bus[k].data[2] BY <1>1, <1>2, <2>1, <3>3 DEF CfOrdered
    <3> QED BY <1>1, <1>2, <3>2, <3>3, <3>4
  <2> QED BY <2>1, <2>2, <2>3, <2>4 DEF Frame, SingleFrame, FirstFrame, ConsFrame, FlowFrame
<1> QED BY <1>2, <1>3, <1>4

\* A consecutive frame that does not end the request.
LEMMA GoFlow ==
  ASSUME SystemInv, CfOrdered, FlowInv, Still, UNCHANGED <<grants, can_rx>>,
         seen < Len(bus), seen' = seen + 1, Goes(bus[seen + 1])
  PROVE  FlowInv'
<1> USE DEF Still
<1> DEFINE f == bus[seen + 1]
           data == ecu_rx.data
<1>1. /\ Active /\ InBlock(f) /\ seen + 1 \in DOMAIN bus /\ f.pci = "CF"
      /\ Got <= LastIndex /\ LastIndex < f.data[2] /\ f.data[2] \in Nat
      /\ Got \in Nat /\ LastIndex \in Nat /\ ecu_rx.block > 0 /\ ecu_rx.block \in Nat
      /\ f.data \in Chunk
  BY FrameFits, ActiveTypes, FlowTypes DEF Goes, Waits
<1>2. \A g \in Flying : ~Answering(g) BY <1>1, FrameToCome
<1>3. ecu_rx \in [data : Seq(Chunk), cfs : Nat, block : Nat, owes : BOOLEAN]
  BY DEF SystemInv, EcuTypes
<1>4. /\ ecu_rx'.data = Append(data, f.data) /\ ecu_rx'.cfs = ecu_rx.cfs
      /\ ecu_rx'.block = ecu_rx.block - 1 /\ ecu_rx'.owes = (ecu_rx.block = 1)
      /\ Len(Append(data, f.data)) <= ecu_rx.cfs
  BY <1>3 DEF Goes
<1>5. /\ Len(ecu_rx'.data) = Got + 2 /\ ecu_rx'.data[Got + 2] = f.data
      /\ ecu_rx'.data[1] = data[1]
      /\ \A i \in DOMAIN ecu_rx'.data :
           (i \in DOMAIN data /\ ecu_rx'.data[i] = data[i] /\ i \in Int) \/ i = Got + 2
  <2>1. data \in Seq(Chunk) BY <1>3
  <2>2. Len(data) = Got + 1 /\ DOMAIN data = 1 .. Got + 1 BY <1>1, ActiveTypes
  <2> HIDE DEF f, data
  <2> QED BY <1>1, <1>4, <2>1, <2>2, Appended
<1>6. InHand' = InHand /\ Got' = Got + 1 /\ LastIndex' = f.data[2]
  BY <1>1, <1>5 DEF InHand, Got, LastIndex
<1>7. Got + 1 < ecu_rx.cfs /\ ecu_rx.cfs \in Nat
  BY <1>1, <1>3, <1>4, <1>5
<1>8. Got' + ecu_rx'.block = Got + ecu_rx.block
  <2>1. \A m, n \in Nat : (m + 1) + (n - 1) = m + n OBVIOUS
  <2>2. Got \in Nat /\ ecu_rx.block \in Nat BY <1>1
  <2>3. Got' = Got + 1 /\ ecu_rx'.block = ecu_rx.block - 1 BY <1>4, <1>6
  <2> QED BY <2>1, <2>2, <2>3
<1>9. Flying' \subseteq Flying /\ OneAnswer' BY FlyingShrinks DEF FlowInv, Reading
<1>10. AnswersAwaited' BY <1>2, <1>9 DEF AnswersAwaited, Answering
<1>11. \A k \in seen' + 1 .. Len(bus) :
         k \in seen + 1 .. Len(bus) /\ seen + 1 < k /\ k \in DOMAIN bus
  BY FlowTypes
<1>12. FirstAwaits'
  <2> SUFFICES ASSUME NEW k \in seen' + 1 .. Len(bus), bus[k].pci = "FF"
               PROVE  /\ mpc = "wait_fc" /\ sent = 0 /\ bus[k].data[1] = cur.id
                      /\ bus[k].cfs = cur.cfs
                      /\ \A l \in k + 1 .. Len(bus) : bus[l].pci = "FC"
    BY DEF FirstAwaits
  <2> QED BY <1>11 DEF FlowInv, FirstAwaits
<1>13. OwedAwaited'
  <2> SUFFICES ASSUME ecu_rx.block = 1 PROVE mpc = "wait_fc" /\ AtOne' /\ NothingNew'
    BY <1>4 DEF OwedAwaited
  <2>1. f.data[2] # ecu_rx.cfs BY <1>1, <1>7 DEF InBlock
  <2>2. /\ mpc = "wait_fc" /\ InHand = cur.id /\ ecu_rx.cfs = cur.cfs
        /\ sent = Got + 1 /\ f.data[2] = Got + 1
        /\ \A k \in seen' + 1 .. Len(bus) : bus[k].pci = "FC"
    BY <2>1, BlockEnds DEF Goes
  <2> QED BY <1>4, <1>6, <2>2 DEF AtOne, NothingNew
<1>14. OwesOrBlock'
  <2>1. ecu_rx'.block = 0 <=> ecu_rx.block = 1 BY <1>1, <1>4
  <2>2. ecu_rx'.owes <=> ecu_rx.block = 1 BY <1>4
  <2> QED BY <2>1, <2>2 DEF OwesOrBlock
<1>15. BlockAgreed'
  <2> SUFFICES ASSUME mpc = "block"
               PROVE  /\ InHand' = cur.id /\ ecu_rx'.cfs = cur.cfs /\ ~ecu_rx'.owes
                      /\ LastIndex' <= sent /\ sent + block_left <= Got' + ecu_rx'.block
    BY DEF BlockAgreed
  <2>1. /\ InHand = cur.id /\ ecu_rx.cfs = cur.cfs
        /\ sent + block_left <= Got + ecu_rx.block
    BY <1>1 DEF FlowInv, BlockAgreed
  <2>2. ecu_rx.block # 1 BY <1>1, <1>7, BlockEnds DEF Goes, InBlock
  <2>3. f.data[1] = InHand BY <1>1 DEF InBlock
  <2>4. f.data[2] <= sent BY <1>1, <2>1, <2>3 DEF CfOrdered, Transferring
  <2>5. ~ecu_rx'.owes BY <1>4, <2>2
  <2> QED BY <1>4, <1>6, <1>8, <2>1, <2>4, <2>5
<1>16. NewInBlock'
  <2> SUFFICES ASSUME ecu_rx'.block > 0,
                      NEW k \in seen' + 1 .. Len(bus), bus[k].pci = "CF"
               PROVE  InBlock(bus[k])'
    BY DEF NewInBlock
  <2>1. InBlock(bus[k]) BY <1>1, <1>11 DEF FlowInv, NewInBlock
  <2>2. f.data[1] = InHand BY <1>1 DEF InBlock
  <2>3. f.data[2] < bus[k].data[2]
    BY <1>1, <1>11, <2>1, <2>2 DEF CfOrdered, InBlock
  <2> QED BY <1>4, <1>6, <1>8, <2>1, <2>3 DEF InBlock
<1>17. Growing'
  <2> SUFFICES ASSUME NEW i \in DOMAIN ecu_rx'.data
               PROVE  /\ ecu_rx'.data[i][1] = InHand /\ i - 1 <= ecu_rx'.data[i][2]
                      /\ ecu_rx'.data[i][2] - (i - 1) <= f.data[2] - (Got + 1)
    BY <1>6 DEF Growing
  <2>1. CASE i \in DOMAIN data /\ ecu_rx'.data[i] = data[i] /\ i \in Int
    <3>1. /\ data[i][1] = InHand /\ i - 1 <= data[i][2]
          /\ data[i][2] - (i - 1) <= LastIndex - Got
      BY <1>1, <2>1 DEF FlowInv, Growing
    <3>2. data[i][2] \in Nat BY <1>1, <2>1, ActiveTypes
    <3>3. /\ f.data[2] \in Nat /\ Got \in Nat /\ LastIndex \in Nat
          /\ LastIndex < f.data[2]
      BY <1>1
    <3> QED BY <2>1, <3>1, <3>2, <3>3
  <2>2. CASE i = Got + 2
    <3>1. f.data[1] = InHand BY <1>1 DEF InBlock
    <3> QED BY <1>1, <1>5, <2>2, <3>1
  <2> QED BY <1>5, <2>1, <2>2
<1>18. WithinGrants' BY DEF FlowInv, WithinGrants
<1> QED BY <1>9, <1>10, <1>12, <1>13, <1>14, <1>15, <1>16, <1>17, <1>18 DEF FlowInv

\* The ECU's Flow Control frames.
LEMMA AnswerFlow ==
  ASSUME SystemInv, FlowInv, Still, NEW fs \in EcuStatuses, EcuFlowControl(fs)
  PROVE  FlowInv'
<1> DEFINE f == FC(fs, BlockSize, InHand)
<1>1. /\ ecu_rx.owes /\ Send(f) /\ UNCHANGED seen
      /\ \/ /\ fs = "CTS"
            /\ ecu_rx' = [ecu_rx EXCEPT !.owes = FALSE, !.block = EcuBlock]
            /\ grants' = [grants EXCEPT ![InHand] = @ + EcuBlock]
         \/ fs = "WAIT" /\ UNCHANGED <<ecu_rx, grants>>
         \/ fs = "OVFLW" /\ ecu_rx' = NoRx /\ UNCHANGED grants
  BY DEF EcuFlowControl, InHand
<1>2. can_rx' \in {can_rx, Append(can_rx, f)}
  BY <1>1 DEF Send, BusDelivers, vars, can_vars
<1>3. f.fs = fs /\ f.bs = BlockSize BY DEF FC
<1> HIDE DEF f
<1>4. mpc = "wait_fc" /\ NothingNew /\ \A g \in Flying : ~Answering(g)
  BY <1>1 DEF FlowInv, OwedAwaited, AnswersAwaited, Awaited
<1>5. CASE fs = "CTS" BY <1>1, <1>2, <1>3, <1>5, ClearFlow
<1>6. CASE fs = "WAIT"
  <2>1. ~Answering(f) BY <1>3, <1>6 DEF Answering
  <2> QED BY <1>1, <1>2, <1>6, <2>1, LessFlow
<1>7. CASE fs = "OVFLW"
  <2>1. ecu_rx' = NoRx /\ UNCHANGED grants BY <1>1, <1>7
  <2>2. ~ecu_rx'.owes /\ f.fs # "CTS" BY <1>3, <1>7, <2>1 DEF NoRx
  <2> QED BY <1>1, <1>2, <1>4, <2>1, <2>2, LessFlow
<1> QED BY <1>1, <1>5, <1>6, <1>7

\* What else it sends answers nothing.
LEMMA ResponseFlow ==
  ASSUME SystemInv, FlowInv, Still,
         \/ \E cfs \in ResponseSizes : EcuAnswer(cfs) \/ EcuPeriodic(cfs)
         \/ EcuConsecutiveFrame
  PROVE  FlowInv'
<1>1. ASSUME NEW m, NEW cfs, StartMessage(m, cfs)
      PROVE  \E f : f.pci # "FC" /\ Send(f)
  <2>1. SF(m).pci # "FC" /\ FF(m, cfs).pci # "FC" BY DEF SF, FF
  <2> QED BY <1>1, <2>1 DEF StartMessage
<1>2. UNCHANGED <<seen, ecu_rx, grants>> /\ \E f : f.pci # "FC" /\ Send(f)
  <2>1. ASSUME NEW cfs \in ResponseSizes, EcuAnswer(cfs) \/ EcuPeriodic(cfs)
        PROVE  UNCHANGED <<seen, ecu_rx, grants>> /\ \E f : f.pci # "FC" /\ Send(f)
    <3>1. \E m : StartMessage(m, cfs) BY <2>1 DEF EcuAnswer, EcuPeriodic
    <3>2. UNCHANGED <<seen, ecu_rx, grants>>
      BY <2>1 DEF EcuAnswer, EcuPeriodic, ecu_rx_vars
    <3> QED BY <1>1, <3>1, <3>2
  <2>2. CASE EcuConsecutiveFrame
    <3>1. \A m, k, sn : CF(m, k, sn).pci # "FC" BY DEF CF
    <3> QED BY <2>2, <3>1 DEF EcuConsecutiveFrame, ecu_rx_vars
  <2> QED BY <2>1, <2>2
<1>3. PICK f : f.pci # "FC" /\ Send(f) BY <1>2
<1>4. can_rx' \in {can_rx, Append(can_rx, f)} /\ ~Answering(f)
  BY <1>3 DEF Send, BusDelivers, vars, can_vars, Answering
<1> QED BY <1>2, <1>4, LessFlow

\* The ECU's side of the inductive step.
LEMMA EcuFlow ==
  ASSUME SystemInv, CfOrdered, FlowInv, Ecu
  PROVE  FlowInv'
<1>1. Still BY EcuFootprint DEF Still, tx_vars
<1>2. ASSUME UNCHANGED <<grants, can_rx>>, seen' = seen \/ seen' = seen + 1,
             ecu_rx' \in {ecu_rx, NoRx}
      PROVE  FlowInv'
  <2> DEFINE f == SF(0)
  <2>1. ~Answering(f) BY DEF SF, Answering
  <2> HIDE DEF f
  <2> QED BY <1>1, <1>2, <2>1, LessFlow
<1>3. CASE EcuGivesUp \/ EcuMisses
  BY <1>2, <1>3 DEF EcuGivesUp, EcuMisses, ecu_rx_vars, vars, can_vars
<1>4. CASE EcuReceives
  <2>1. /\ seen < Len(bus) /\ seen' = seen + 1 /\ UNCHANGED <<grants, can_rx>>
        /\ \/ UNCHANGED ecu_rx
           \/ Drops \/ Begins(bus[seen + 1]) \/ Goes(bus[seen + 1])
           \/ \E data : Takes(bus[seen + 1], data)
    BY <1>4, ReceiveSteps DEF vars, can_vars
  <2>2. CASE UNCHANGED ecu_rx \/ Drops \/ \E data : Takes(bus[seen + 1], data)
    BY <1>2, <2>1, <2>2 DEF Drops, Takes
  <2> QED BY <1>1, <2>1, <2>2, BeginFlow, GoFlow
<1> QED BY <1>1, <1>3, <1>4, AnswerFlow, ResponseFlow DEF Ecu

-----------------------------------------------------------------------------
(* Requests are whole *)

WholeRequests == \A i \in DOMAIN requests : requests[i] = Whole(Id(i), Len(requests[i]) - 1)

\* The frames in hand and the last one are the whole request, when they are as many.
LEMMA WholeTaken ==
  ASSUME SystemInv, CfOrdered, FlowInv, seen < Len(bus), NEW data,
         bus[seen + 1].pci # "FC", Takes(bus[seen + 1], data)
  PROVE  data = Whole(data[1][1], Len(data) - 1)
<1> DEFINE f == bus[seen + 1]
<1>1. seen + 1 \in DOMAIN bus BY FlowTypes
<1>2. f.data \in Chunk BY <1>1, ConsNumbers
<1>3. CASE f.pci = "SF" /\ data = <<f.data>>
  <2>1. f.data[2] = 0 BY <1>1, <1>3 DEF CfOrdered, Started
  <2>2. f.data = <<f.data[1], 0>> BY <1>2, <2>1 DEF Chunk
  <2> HIDE DEF f
  <2>3. DOMAIN data = 1 .. 1 /\ Len(data) = 1 /\ data[1] = f.data BY <1>3
  <2>4. data = [i \in 1 .. 1 |-> data[i]] BY <1>3
  <2>5. \A i \in 1 .. 1 : data[i] = <<data[1][1], i - 1>> BY <2>2, <2>3
  <2> QED BY <2>3, <2>4, <2>5 DEF Whole
<1>4. CASE /\ Waits(f) /\ data = Append(ecu_rx.data, f.data)
           /\ Len(data) = ecu_rx.cfs + 1
  <2>1. /\ Active /\ InBlock(f) /\ Got <= LastIndex /\ LastIndex < f.data[2]
        /\ f.data[2] \in Nat /\ Got \in Nat /\ LastIndex \in Nat /\ ecu_rx.cfs \in Nat
    BY <1>4, FrameFits, ActiveTypes, FlowTypes
  <2>2. /\ ecu_rx.data \in Seq(Chunk) /\ Len(ecu_rx.data) = Got + 1
        /\ DOMAIN ecu_rx.data = 1 .. Got + 1
        /\ \A i \in DOMAIN ecu_rx.data : ecu_rx.data[i] \in Chunk
    BY <2>1, ActiveTypes, FlowTypes
  <2>3. f.data[1] = InHand /\ f.data[2] <= ecu_rx.cfs BY <2>1 DEF InBlock
  <2> HIDE DEF f
  <2>4. /\ data \in Seq(Chunk) /\ Len(data) = Got + 2 /\ DOMAIN data = 1 .. Got + 2
        /\ data[Got + 2] = f.data /\ data[1] = ecu_rx.data[1]
        /\ \A i \in DOMAIN data :
             (i \in DOMAIN ecu_rx.data /\ data[i] = ecu_rx.data[i] /\ i \in Int)
                \/ i = Got + 2
    <3>1. data \in Seq(Chunk)
      <4>1. ecu_rx.data \in Seq(Chunk) /\ data = Append(ecu_rx.data, f.data)
        BY <1>4, <2>2
      <4> QED BY <1>2, <4>1
    <3>2. /\ Len(data) = Got + 1 + 1 /\ DOMAIN data = 1 .. Got + 1 + 1
          /\ data[Got + 1 + 1] = f.data
          /\ \A i \in DOMAIN ecu_rx.data : data[i] = ecu_rx.data[i]
          /\ \A i \in DOMAIN data : i \in DOMAIN ecu_rx.data \/ i = Got + 1 + 1
      BY <1>4, <2>2, Appended
    <3>3. Got + 1 + 1 = Got + 2 /\ 1 \in 1 .. Got + 1 BY <2>1
    <3>4. data[1] = ecu_rx.data[1] BY <2>2, <3>2, <3>3
    <3>5. \A i \in DOMAIN data : i \in Int BY <3>2
    <3> QED BY <3>1, <3>2, <3>3, <3>4, <3>5
  <2>5. f.data[2] = Got + 1 /\ LastIndex = Got BY <1>4, <2>1, <2>3, <2>4
  <2>6. ASSUME NEW i \in DOMAIN data PROVE data[i] = <<InHand, i - 1>>
    <3>1. CASE i \in DOMAIN ecu_rx.data /\ data[i] = ecu_rx.data[i] /\ i \in Int
      <4>1. /\ data[i][1] = InHand /\ i - 1 <= data[i][2]
            /\ data[i][2] - (i - 1) <= LastIndex - Got
        BY <2>1, <3>1 DEF FlowInv, Growing
      <4>2. data[i] \in Chunk BY <2>2, <3>1
      <4>3. data[i] = <<data[i][1], data[i][2]>> /\ data[i][2] \in Nat BY <4>2 DEF Chunk
      <4>4. data[i][2] = i - 1 BY <2>1, <2>5, <3>1, <4>1, <4>3
      <4> QED BY <4>1, <4>3, <4>4
    <3>2. CASE i = Got + 2
      <4>1. f.data = <<f.data[1], f.data[2]>> BY <1>2 DEF Chunk
      <4>2. i - 1 = Got + 1 BY <2>1, <3>2
      <4> QED BY <2>3, <2>4, <2>5, <3>2, <4>1, <4>2
    <3> QED BY <2>4, <3>1, <3>2
  <2>7. data = [i \in 1 .. Got + 2 |-> data[i]] BY <2>4
  <2>8. data[1][1] = InHand BY <2>4 DEF InHand
  <2>9. Len(data) - 1 + 1 = Got + 2 BY <2>1, <2>4
  <2> QED BY <2>4, <2>6, <2>7, <2>8, <2>9 DEF Whole
<1> QED BY <1>3, <1>4 DEF Takes

LEMMA WholeRequestsStep ==
  ASSUME SystemInv, CfOrdered, FlowInv, WholeRequests, [SystemNext]_system_vars
  PROVE  WholeRequests'
<1>1. CASE UNCHANGED requests BY <1>1 DEF WholeRequests, Id
<1>2. ASSUME seen < Len(bus), bus[seen + 1].pci # "FC",
             NEW data, Takes(bus[seen + 1], data)
      PROVE  WholeRequests'
  <2>1. data = Whole(data[1][1], Len(data) - 1) BY <1>2, WholeTaken
  <2>2. requests' = Append(requests, data) BY <1>2 DEF Takes, Take
  <2>3. requests \in Seq(Seq(Chunk)) BY DEF SystemInv, EcuTypes
  <2>4. \A i \in DOMAIN requests' :
          \/ i \in DOMAIN requests /\ requests'[i] = requests[i]
          \/ requests'[i] = data
    BY <2>2, <2>3, Appended
  <2> QED BY <2>1, <2>4 DEF WholeRequests, Id
<1>3. CASE GatewayStep /\ Asleep BY <1>1, <1>3, AsleepFacts
<1>4. CASE Ecu
  <2>1. CASE EcuReceives
    BY <1>1, <1>2, <2>1, ReceiveSteps DEF Drops, Begins, Goes
  <2>2. CASE ~EcuReceives
    <3>1. UNCHANGED requests
      BY <1>4, <2>2 DEF Ecu, EcuFlowControl, EcuAnswer, EcuPeriodic, EcuConsecutiveFrame,
         EcuGivesUp, EcuMisses, ecu_rx_vars
    <3> QED BY <1>1, <3>1
  <2> QED BY <2>1, <2>2
<1>5. CASE UNCHANGED system_vars
  BY <1>1, <1>5 DEF system_vars, ecu_vars, ecu_rx_vars
<1> QED BY <1>3, <1>4, <1>5, SystemSteps

\* The inductive invariant of the transfers.  What a late timeout breaks, it may only
\* break where timeouts may be late.
TransferInv ==
  /\ SystemInv /\ LogInv /\ SegInv /\ CfOrdered
  /\ Punctual => FlowInv /\ WholeRequests

LEMMA TransferInvInit == SystemInit => TransferInv
<1> SUFFICES ASSUME SystemInit PROVE TransferInv
  OBVIOUS
<1>1. SystemInv /\ LogInv /\ SegInv
  BY SystemInvInit, LogInit, SegInit DEF SystemInit
<1>2. /\ bus = <<>> /\ requests = <<>> /\ fc_frame_queue = <<>> /\ can_rx = <<>>
      /\ mpc = "accept" /\ fpc = "none" /\ ecu_rx = NoRx
  BY DEF SystemInit, Init
<1>3. /\ DOMAIN bus = {} /\ \A k \in seen + 1 .. Len(bus) : FALSE
      /\ DOMAIN requests = {} /\ DOMAIN fc_frame_queue = {} /\ ~Reading /\ ~ecu_rx.owes
  BY <1>1, <1>2, FlowTypes DEF NoRx, Reading
<1>4. CfOrdered BY <1>2, <1>3 DEF CfOrdered, Transferring
<1>5. OneAnswer /\ AnswersAwaited BY <1>3 DEF OneAnswer, AnswersAwaited, Flying
<1>6. FirstAwaits /\ OwedAwaited /\ NewInBlock BY <1>3 DEF FirstAwaits, OwedAwaited, NewInBlock
<1>7. BlockAgreed /\ OwesOrBlock /\ Growing
  BY <1>2 DEF BlockAgreed, OwesOrBlock, Growing, Active
<1>8. WithinGrants BY <1>2, <1>3 DEF WithinGrants
<1>9. WholeRequests BY <1>3 DEF WholeRequests
<1> QED BY <1>1, <1>4, <1>5, <1>6, <1>7, <1>8, <1>9 DEF TransferInv, FlowInv

LEMMA TransferInvStep == TransferInv /\ [SystemNext]_system_vars => TransferInv'
<1> SUFFICES ASSUME TransferInv, [SystemNext]_system_vars PROVE TransferInv'
  OBVIOUS
<1> USE DEF TransferInv
<1>1. SystemInv' /\ LogInv' /\ [Next]_vars BY SystemInvStep, LogStep
<1>2. SegInv' BY <1>1, SegStep DEF SystemInv
<1>3. \/ GatewayStep /\ Asleep
      \/ Ecu
      \/ UNCHANGED system_vars
  BY SystemSteps
<1>4. CfOrdered'
  <2>1. Ecu => UNCHANGED <<bus, mpc, cur, sent>> BY EcuFootprint DEF tx_vars
  <2>2. UNCHANGED system_vars => UNCHANGED <<bus, mpc, cur, sent>>
    BY DEF system_vars, vars, tx_vars
  <2> QED BY <1>1, <1>3, <2>1, <2>2, CfOrderedStep
<1>5. Punctual' => Punctual
  <2>1. UNCHANGED setting
    BY DEF SystemNext, SystemMain, SystemForwarder, Ecu, Rest, system_vars
  <2> QED BY <2>1 DEF Punctual
<1>6. Punctual => FlowInv'
  <2> SUFFICES ASSUME Punctual PROVE FlowInv'
    OBVIOUS
  <2>1. CASE UNCHANGED system_vars
    <3> DEFINE f == SF(0)
    <3>1. ~Answering(f) BY DEF SF, Answering
    <3>2. /\ Still /\ UNCHANGED <<seen, ecu_rx, can_rx, grants>>
      BY <2>1 DEF Still, system_vars, vars, tx_vars, can_vars, ecu_vars, ecu_rx_vars
    <3> HIDE DEF f
    <3> QED BY <3>1, <3>2, LessFlow
  <2> QED BY <1>3, <2>1, GatewayFlow, EcuFlow
<1>7. Punctual => WholeRequests' BY WholeRequestsStep
<1> QED BY <1>1, <1>2, <1>4, <1>5, <1>6, <1>7

\* Unless a timeout strikes too early, a request the ECU puts together is what the
\* tester sent, whatever frames are lost; and none gets there twice or out of turn.
THEOREM RequestsIntact == SystemSpec => [](Punctual => RequestIntact)
<1>1. TransferInv => (Punctual => RequestIntact)
  <2> SUFFICES ASSUME TransferInv, Punctual, NEW i \in DOMAIN requests
               PROVE  /\ requests[i] = Whole(requests[i][1][1], Len(requests[i]) - 1)
                      /\ \A j \in 1 .. i - 1 : requests[j][1][1] < requests[i][1][1]
    BY DEF RequestIntact
  <2>1. \A j \in 1 .. i - 1 : j \in DOMAIN requests /\ j < i
    <3>1. requests \in Seq(Seq(Chunk)) BY DEF TransferInv, SystemInv, EcuTypes
    <3> QED BY <3>1, Elements
  <2> QED BY <2>1 DEF TransferInv, WholeRequests, LogInv, RequestsGrow, Id
<1> QED BY <1>1, TransferInvInit, TransferInvStep, PTL DEF SystemSpec

\* As many frames as there are of different indices.
LEMMA FramesCounted ==
  ASSUME SystemInv, CfOrdered, WithinGrants, NEW m \in 1 .. msgs
  PROVE  Cardinality({i \in DOMAIN bus : bus[i].pci = "CF" /\ bus[i].data[1] = m})
           <= grants[m]
<1> DEFINE S == {i \in DOMAIN bus : bus[i].pci = "CF" /\ bus[i].data[1] = m}
           T == 1 .. grants[m]
           g == [i \in S |-> bus[i].data[2]]
<1>1. grants[m] \in Nat
  <2>1. msgs \in Nat /\ msgs <= MaxRequests /\ MaxRequests \in Nat
    BY SystemAssumption DEF SystemInv, Numbered, TypeInv, TypeOK, ChannelTypeOK
  <2>2. m \in 1 .. MaxRequests BY <2>1
  <2> QED BY <2>2, FlowTypes
<1>2. ASSUME NEW i \in S PROVE bus[i].data[2] \in T
  <2>1. 1 <= bus[i].data[2] /\ bus[i].data[2] <= grants[m] BY DEF WithinGrants
  <2>2. bus[i].data[2] \in Nat BY ConsNumbers
  <2> QED BY <1>1, <2>1, <2>2
<1>3. ASSUME NEW i \in S, NEW j \in S, g[i] = g[j] PROVE i = j
  <2>1. bus[i].data[2] = bus[j].data[2] /\ bus[i].data[2] \in Nat
    BY <1>3, ConsNumbers
  <2>2. ~ (i < j) /\ ~ (j < i) BY <2>1 DEF CfOrdered
  <2>3. i \in Nat /\ j \in Nat BY FlowTypes
  <2> QED BY <2>2, <2>3
<1>4. g \in Injection(S, T) BY <1>2, <1>3 DEF Injection, IsInjective
<1>5. IsFiniteSet(T) /\ Cardinality(T) = grants[m]
  <2>1. /\ IsFiniteSet(T)
        /\ Cardinality(T) = IF 1 > grants[m] THEN 0 ELSE grants[m] - 1 + 1
    <3>1. 1 \in Int /\ grants[m] \in Int BY <1>1
    <3> HIDE DEF S, g
    <3> QED BY <3>1, FS_Interval
  <2> QED BY <1>1, <2>1
<1>6. Cardinality(S) <= Cardinality(T) BY <1>4, <1>5, FS_Injection
<1> QED BY <1>5, <1>6

\* Unless a timeout strikes too early, the gateway sends no consecutive frame that no
\* clear-to-send of the ECU for that request granted.
THEOREM NothingUngranted == SystemSpec => [](Punctual => NoUngrantedCF)
<1>1. TransferInv => (Punctual => NoUngrantedCF)
  BY FramesCounted DEF TransferInv, FlowInv, NoUngrantedCF
<1> QED BY <1>1, TransferInvInit, TransferInvStep, PTL DEF SystemSpec

-----------------------------------------------------------------------------
(* Responses are whole *)

\* The messages the ECU began.
Begun    == {answers[a] : a \in DOMAIN answers}
Messages == {Whole(b.id, b.cfs) : b \in Begun}

\* What lets the ECU send consecutive frames: a first frame the forwarder has yet to
\* read, then its Flow Control frame, then the ECU's own flag.
FirstFrames == {i \in DOMAIN can_rx : Reading /\ can_rx[i].pci = "FF"}
Clearances  == {k \in seen + 1 .. Len(bus) : bus[k].pci = "FC"}

SendsBegun ==
  ecu_tx # NoTx =>
    /\ [id |-> ecu_tx.id, cfs |-> ecu_tx.cfs] \in Begun
    /\ ecu_tx.sent < ecu_tx.cfs /\ (ecu_tx.go \/ ecu_tx.sent = 0)

\* There is one of the three at most, and it is for what the ECU is sending.
OneGoAhead ==
  /\ \A i, j \in FirstFrames : i = j
  /\ \A k, l \in Clearances : k = l
  /\ FirstFrames = {} \/ Clearances = {}
  /\ FirstFrames # {} \/ Clearances # {} => ecu_tx # NoTx /\ ~ecu_tx.go
  /\ \A i \in FirstFrames : can_rx[i] = FF(ecu_tx.id, ecu_tx.cfs)
NoneAfterFirst ==
  \A i \in FirstFrames : \A j \in DOMAIN can_rx : i < j => can_rx[j].pci # "CF"

\* A single frame is all of a message.
SinglesWhole ==
  Reading => \A i \in DOMAIN can_rx : can_rx[i].pci = "SF" => <<can_rx[i].data>> \in Messages

GoAheadInv == SendsBegun /\ OneGoAhead /\ NoneAfterFirst /\ SinglesWhole

LEMMA ResponseTypes ==
  ASSUME SystemInv
  PROVE  /\ can_rx \in Seq(Frame) /\ DOMAIN can_rx = 1 .. Len(can_rx) /\ Len(can_rx) \in Nat
         /\ \A i \in DOMAIN can_rx : can_rx[i] \in Frame
         /\ uds_rx_buffer \in Seq(Chunk) /\ cfs_due \in Nat
         /\ ecu_tx \in [id : Nat, cfs : Nat, sent : Nat, go : BOOLEAN]
         /\ answers \in Seq([id : Nat, cfs : Nat])
         /\ \A b \in Begun : b.id \in Nat /\ b.cfs \in Nat
         /\ ~NoTx.go
<1>1. answers \in Seq([id : Nat, cfs : Nat]) BY DEF SystemInv, EcuTypes
<1>2. \A b \in Begun : b \in [id : Nat, cfs : Nat]
  <2>1. \A a \in DOMAIN answers : answers[a] \in [id : Nat, cfs : Nat]
    BY <1>1, Elements
  <2> QED BY <2>1 DEF Begun
<1> QED BY <1>1, <1>2, FlowTypes, Elements
        DEF SystemInv, EcuTypes, TypeInv, TypeOK, ReassemblyTypeOK, NoTx

\* What was begun stays so.
LEMMA BegunStays ==
  ASSUME SystemInv, answers' = answers \/ \E e : answers' = Append(answers, e)
  PROVE  Begun \subseteq Begun' /\ Messages \subseteq Messages'
<1>1. Begun \subseteq Begun'
  <2>1. CASE answers' = answers BY <2>1 DEF Begun
  <2>2. ASSUME NEW e, answers' = Append(answers, e) PROVE Begun \subseteq Begun'
    <3>1. \A a \in DOMAIN answers : a \in DOMAIN answers' /\ answers'[a] = answers[a]
      BY <2>2, ResponseTypes, Appended
    <3> QED BY <3>1 DEF Begun
  <2> QED BY <2>1, <2>2
<1> QED BY <1>1 DEF Messages, Whole

LEMMA JustBegun ==
  ASSUME SystemInv, NEW e, answers' = Append(answers, e)
  PROVE  e \in Begun'
<1>1. Len(answers) + 1 \in DOMAIN answers' /\ answers'[Len(answers) + 1] = e
  BY ResponseTypes, Appended
<1> QED BY <1>1 DEF Begun

\* The forwarder reads, skips or forgets frames; main sends its own.
LEMMA GoAheadKept ==
  ASSUME SystemInv, GoAheadInv, UNCHANGED <<seen, ecu_tx, answers>>,
         \/ can_rx' \in {can_rx, <<>>}
         \/ can_rx # <<>> /\ can_rx' = Tail(can_rx),
         Reading' => Reading \/ can_rx' = <<>>,
         bus' = bus \/ \E f : f.pci # "FC" /\ bus' = Append(bus, f)
  PROVE  GoAheadInv' /\ Clearances' = Clearances
<1>1. PICK d \in {0, 1} : \A i \in DOMAIN can_rx' :
        i + d \in DOMAIN can_rx /\ can_rx'[i] = can_rx[i + d] /\ i \in Int
  BY Shifted DEF SystemInv
<1>2. \A i \in DOMAIN can_rx' : Reading' => Reading BY <1>1
<1>3. \A i \in FirstFrames' :
        /\ i + d \in FirstFrames /\ can_rx'[i] = can_rx[i + d] /\ i \in Int
        /\ i \in DOMAIN can_rx'
  BY <1>1, <1>2 DEF FirstFrames
<1>4. Clearances' = Clearances
  <2>1. PICK f : f.pci # "FC" /\ bus' \in {bus, Append(bus, f)}
    <3>1. SF(0).pci # "FC" BY DEF SF
    <3> QED BY <3>1
  <2>2. /\ \A k \in seen + 1 .. Len(bus') :
             \/ k \in seen + 1 .. Len(bus) /\ bus'[k] = bus[k]
             \/ bus'[k].pci # "FC"
        /\ \A k \in seen + 1 .. Len(bus) : k \in seen + 1 .. Len(bus') /\ bus'[k] = bus[k]
    <3>0. bus \in Seq(Frame) /\ Len(bus) \in Nat BY FlowTypes
    <3>1. Len(bus) <= Len(bus') /\ \A k \in DOMAIN bus : bus'[k] = bus[k]
      <4>1. CASE bus' = bus BY <3>0, <4>1
      <4>2. CASE bus' = Append(bus, f) BY <3>0, <4>2
      <4> QED BY <2>1, <4>1, <4>2
    <3>2. Len(bus') \in Nat
      <4>1. CASE bus' = bus BY <3>0, <4>1
      <4>2. CASE bus' = Append(bus, f) BY <3>0, <4>2
      <4> QED BY <2>1, <4>1, <4>2
    <3>3. \A k \in seen + 1 .. Len(bus) : k \in DOMAIN bus /\ k \in seen + 1 .. Len(bus')
      BY <3>1, <3>2, FlowTypes
    <3> QED BY <2>1, <3>1, <3>3, NewFrames
  <2> QED BY <2>2 DEF Clearances
<1>5. SendsBegun' BY DEF GoAheadInv, SendsBegun, Begun
<1>6. OneGoAhead'
  <2>1. \A i, j \in FirstFrames' : i = j
    <3> SUFFICES ASSUME NEW i \in FirstFrames', NEW j \in FirstFrames' PROVE i = j
      OBVIOUS
    <3>1. i + d = j + d BY <1>3 DEF GoAheadInv, OneGoAhead
    <3> QED BY <1>3, <3>1
  <2>2. FirstFrames' # {} => FirstFrames # {} BY <1>3
  <2> QED BY <1>3, <1>4, <2>1, <2>2 DEF GoAheadInv, OneGoAhead
<1>7. NoneAfterFirst'
  <2> SUFFICES ASSUME NEW i \in FirstFrames', NEW j \in DOMAIN can_rx', i < j
               PROVE  can_rx'[j].pci # "CF"
    BY DEF NoneAfterFirst
  <2>1. i + d \in FirstFrames /\ j + d \in DOMAIN can_rx /\ i + d < j + d
    BY <1>1, <1>3
  <2> QED BY <1>1, <2>1 DEF GoAheadInv, NoneAfterFirst
<1>8. SinglesWhole'
  <2>1. Messages' = Messages BY DEF Messages, Begun, Whole
  <2> QED BY <1>1, <1>2, <2>1 DEF GoAheadInv, SinglesWhole
<1> QED BY <1>4, <1>5, <1>6, <1>7, <1>8 DEF GoAheadInv

\* The forwarder reads a first frame, and clears the ECU to send.
LEMMA GoAheadGiven ==
  ASSUME SystemInv, GoAheadInv, UNCHANGED <<seen, ecu_tx, answers>>,
         NEW ok \in BOOLEAN, FwdFirstFrame(ok)
  PROVE  /\ GoAheadInv' /\ Head(can_rx) = FF(ecu_tx.id, ecu_tx.cfs) /\ ecu_tx # NoTx
         /\ \A i \in DOMAIN can_rx' : can_rx'[i].pci # "CF"
         /\ ~ecu_tx.go /\ ecu_tx.sent = 0
<1> DEFINE f == FC("CTS", 0, Head(can_rx).data[1])
<1>1. /\ fpc = "read" /\ can_rx # <<>> /\ Head(can_rx).pci = "FF" /\ can_rx' = Tail(can_rx)
      /\ bus' \in {bus, Append(bus, f)}
  BY DEF FwdFirstFrame, Fwd, Read, CanWrite
<1> HIDE DEF f
<1>2. Reading BY <1>1 DEF Reading
<1>3. /\ 1 \in DOMAIN can_rx /\ Head(can_rx) = can_rx[1]
      /\ \A i \in DOMAIN can_rx' : /\ can_rx'[i] = can_rx[i + 1]
                                   /\ i + 1 \in DOMAIN can_rx /\ i \in Int /\ 1 < i + 1
  BY <1>1, ResponseTypes, Tailed
<1>4. 1 \in FirstFrames BY <1>1, <1>2, <1>3 DEF FirstFrames
<1>5. /\ Clearances = {} /\ ecu_tx # NoTx /\ ~ecu_tx.go
      /\ Head(can_rx) = FF(ecu_tx.id, ecu_tx.cfs)
  BY <1>3, <1>4 DEF GoAheadInv, OneGoAhead
<1>6. \A i \in DOMAIN can_rx' : can_rx'[i].pci # "CF"
  BY <1>3, <1>4 DEF GoAheadInv, NoneAfterFirst
<1>7. FirstFrames' = {}
  <2> SUFFICES ASSUME NEW i \in FirstFrames' PROVE FALSE
    OBVIOUS
  <2>1. i \in DOMAIN can_rx' /\ can_rx'[i].pci = "FF" BY DEF FirstFrames
  <2>2. i + 1 \in FirstFrames BY <1>2, <1>3, <2>1 DEF FirstFrames
  <2>3. i + 1 = 1 BY <1>4, <2>2 DEF GoAheadInv, OneGoAhead
  <2> QED BY <1>3, <2>1, <2>3
<1>8. \A k, l \in Clearances' : k = l
  <2>1. \A k \in Clearances' : k = Len(bus) + 1
    <3>1. \A k \in seen + 1 .. Len(bus') :
            \/ k \in seen + 1 .. Len(bus) /\ bus'[k] = bus[k]
            \/ k = Len(bus) + 1
      BY <1>1, NewFrames
    <3> QED BY <1>5, <3>1 DEF Clearances
  <2> QED BY <2>1
<1>9. SendsBegun' BY DEF GoAheadInv, SendsBegun, Begun
<1>10. OneGoAhead' BY <1>5, <1>7, <1>8 DEF OneGoAhead
<1>11. NoneAfterFirst' BY <1>7 DEF NoneAfterFirst
<1>12. SinglesWhole'
  <2>1. Messages' = Messages BY DEF Messages, Begun, Whole
  <2> QED BY <1>2, <1>3, <2>1 DEF GoAheadInv, SinglesWhole
<1>13. ecu_tx.sent = 0 BY <1>5 DEF GoAheadInv, SendsBegun
<1> QED BY <1>5, <1>6, <1>9, <1>10, <1>11, <1>12, <1>13 DEF GoAheadInv

NoGoAhead == FirstFrames = {} /\ Clearances = {}

\* What the ECU may send, and do, in a step that leaves both of these as they are.
SendsInTurn(f) ==
  /\ f.pci = "CF" => ecu_tx.go
  /\ f.pci = "SF" => <<f.data>> \in Messages'
  /\ \/ f.pci # "FF" /\ (ecu_tx' = ecu_tx \/ NoGoAhead)
     \/ /\ NoGoAhead /\ ecu_tx' # NoTx /\ ~ecu_tx'.go
        /\ f = FF(ecu_tx'.id, ecu_tx'.cfs)

\* Whether anything lets the ECU send is not changed by what it sends, but by first
\* frames.
LEMMA GoAheadSent ==
  ASSUME SystemInv, GoAheadInv, UNCHANGED <<fpc, bus, seen>>, SendsBegun',
         answers' = answers \/ \E e : answers' = Append(answers, e),
         NEW f, can_rx' \in {can_rx, Append(can_rx, f)}, SendsInTurn(f)
  PROVE  GoAheadInv' /\ Clearances' = Clearances
<1> USE DEF NoGoAhead, SendsInTurn
<1>1. Clearances' = Clearances /\ Reading' = Reading BY DEF Clearances, Reading
<1>2. /\ \A i \in DOMAIN can_rx : can_rx'[i] = can_rx[i] /\ i # Len(can_rx) + 1 /\ i \in Int
      /\ \A i \in DOMAIN can_rx' :
           \/ i \in DOMAIN can_rx
           \/ i = Len(can_rx) + 1 /\ can_rx'[i] = f
  BY ResponseTypes, Appended
<1>3. \A i \in FirstFrames' :
        \/ i \in FirstFrames /\ can_rx'[i] = can_rx[i]
        \/ i = Len(can_rx) + 1 /\ can_rx'[i] = f /\ f.pci = "FF"
  BY <1>1, <1>2 DEF FirstFrames
<1>4. OneGoAhead'
  <2>1. CASE f.pci # "FF" /\ ecu_tx' = ecu_tx
    <3>1. \A i \in FirstFrames' : i \in FirstFrames /\ can_rx'[i] = can_rx[i]
      BY <1>3, <2>1
    <3>2. FirstFrames' \subseteq FirstFrames BY <3>1
    <3> QED BY <1>1, <2>1, <3>1, <3>2 DEF GoAheadInv, OneGoAhead
  <2>2. CASE f.pci # "FF" /\ FirstFrames = {} /\ Clearances = {}
    <3>1. FirstFrames' = {} BY <1>3, <2>2
    <3> QED BY <1>1, <2>2, <3>1 DEF OneGoAhead
  <2>3. CASE /\ FirstFrames = {} /\ Clearances = {} /\ ecu_tx' # NoTx /\ ~ecu_tx'.go
             /\ f = FF(ecu_tx'.id, ecu_tx'.cfs)
    <3>1. \A i \in FirstFrames' : i = Len(can_rx) + 1 /\ can_rx'[i] = f BY <1>3, <2>3
    <3> QED BY <1>1, <2>3, <3>1 DEF OneGoAhead
  <2> QED BY <2>1, <2>2, <2>3
<1>5. NoneAfterFirst'
  <2> SUFFICES ASSUME NEW i \in FirstFrames', NEW j \in DOMAIN can_rx', i < j
               PROVE  can_rx'[j].pci # "CF"
    BY DEF NoneAfterFirst
  <2>1. CASE i \in FirstFrames /\ j \in DOMAIN can_rx
    BY <1>2, <2>1 DEF GoAheadInv, NoneAfterFirst
  <2>2. CASE i \in FirstFrames /\ j = Len(can_rx) + 1 /\ can_rx'[j] = f
    BY <2>2 DEF GoAheadInv, OneGoAhead
  <2>3. CASE i = Len(can_rx) + 1
    <3>1. j <= Len(can_rx) + 1 /\ j \in Int BY <1>2, ResponseTypes
    <3> QED BY <2>3, <3>1, ResponseTypes
  <2> QED BY <1>2, <1>3, <2>1, <2>2, <2>3
<1>6. SinglesWhole'
  <2>1. Messages \subseteq Messages' BY BegunStays
  <2> QED BY <1>1, <1>2, <2>1 DEF GoAheadInv, SinglesWhole
<1> QED BY <1>1, <1>4, <1>5, <1>6 DEF GoAheadInv

\* The ECU gets, or misses, a frame of the gateway.
LEMMA GoAheadTaken ==
  ASSUME SystemInv, GoAheadInv, UNCHANGED <<fpc, bus, can_rx, answers>>,
         seen < Len(bus), seen' = seen + 1,
         \/ ecu_tx' = ecu_tx
         \/ bus[seen + 1].pci = "FC" /\ ecu_tx' = [ecu_tx EXCEPT !.go = TRUE]
  PROVE  /\ GoAheadInv'
         /\ Clearances' \subseteq Clearances
         /\ bus[seen + 1].pci = "FC" => Clearances # {} /\ Clearances' = {}
<1>1. /\ seen + 1 \in seen + 1 .. Len(bus)
      /\ \A k \in seen' + 1 .. Len(bus) : k \in seen + 1 .. Len(bus) /\ k # seen + 1
  BY FlowTypes
<1>2. Clearances' \subseteq Clearances BY <1>1 DEF Clearances
<1>3. bus[seen + 1].pci = "FC" => seen + 1 \in Clearances /\ Clearances' = {}
  <2> SUFFICES ASSUME bus[seen + 1].pci = "FC"
               PROVE  seen + 1 \in Clearances /\ Clearances' = {}
    OBVIOUS
  <2>1. seen + 1 \in Clearances BY <1>1 DEF Clearances
  <2>2. \A k \in Clearances' : k \in Clearances /\ k # seen + 1 BY <1>1 DEF Clearances
  <2> QED BY <2>1, <2>2 DEF GoAheadInv, OneGoAhead
<1>4. FirstFrames' = FirstFrames /\ Messages' = Messages /\ Begun' = Begun
  BY DEF FirstFrames, Reading, Messages, Begun, Whole
<1>5. NoneAfterFirst' /\ SinglesWhole'
  BY <1>4 DEF GoAheadInv, NoneAfterFirst, SinglesWhole, Reading
<1>6. CASE ecu_tx' = ecu_tx
  BY <1>2, <1>3, <1>4, <1>5, <1>6 DEF GoAheadInv, SendsBegun, OneGoAhead
<1>7. CASE bus[seen + 1].pci = "FC" /\ ecu_tx' = [ecu_tx EXCEPT !.go = TRUE]
  <2>1. /\ Clearances' = {} /\ FirstFrames = {} /\ ecu_tx # NoTx
    BY <1>3, <1>7 DEF GoAheadInv, OneGoAhead
  <2>2. /\ ecu_tx'.id = ecu_tx.id /\ ecu_tx'.cfs = ecu_tx.cfs /\ ecu_tx'.sent = ecu_tx.sent
        /\ ecu_tx'.go
    BY <1>7, ResponseTypes
  <2>3. SendsBegun' BY <1>4, <2>1, <2>2 DEF GoAheadInv, SendsBegun
  <2>4. OneGoAhead' BY <1>4, <2>1 DEF OneGoAhead
  <2> QED BY <1>2, <1>3, <1>5, <2>3, <2>4 DEF GoAheadInv
<1> QED BY <1>6, <1>7

\* The response the forwarder puts together has as many consecutive frames; the index
\* of the last it has.
Total    == Len(uds_rx_buffer) - 1 + cfs_due
LastRead == uds_rx_buffer[Len(uds_rx_buffer)][2]
ConsFrames == {i \in DOMAIN can_rx : can_rx[i].pci = "CF"}

\* It is one the ECU began.  The more was lost between two of its frames, the higher
\* the last one's index, so that none is missing when there are enough.
PartBegun ==
  /\ uds_rx_buffer # <<>> /\ cfs_due > 0 /\ LastRead <= Total
  /\ [id |-> BufferId, cfs |-> Total] \in Begun
PartGrows ==
  \A i \in DOMAIN uds_rx_buffer :
    /\ uds_rx_buffer[i][1] = BufferId /\ i - 1 <= uds_rx_buffer[i][2]
    /\ uds_rx_buffer[i][2] - (i - 1) <= LastRead - (Len(uds_rx_buffer) - 1)

\* The consecutive frames that wait are the rest of it, and as the ECU sent them.
RestFits ==
  \A i \in ConsFrames :
    /\ can_rx[i].data[1] = BufferId
    /\ LastRead < can_rx[i].data[2] /\ can_rx[i].data[2] <= Total
    /\ \A j \in ConsFrames : i < j => can_rx[i].data[2] < can_rx[j].data[2]

\* So will those be that may still come.
Coming == Clearances # {} \/ ecu_tx.go
RestComes ==
  Coming =>
    /\ ecu_tx.id = BufferId /\ ecu_tx.cfs = Total /\ LastRead <= ecu_tx.sent
    /\ \A i \in ConsFrames : can_rx[i].data[2] <= ecu_tx.sent
Part == PartBegun /\ PartGrows /\ RestFits /\ RestComes

ResponseInv ==
  /\ fpc = "cfs" => Part
  /\ fpc \in {"resp", "resp_w"} => uds_rx_buffer \in Messages
  /\ \A j \in DOMAIN to_tester : IsResponse(j) => to_tester[j].data \in Messages

\* Steps of the gateway, as the response sees them.
Beside ==
  /\ UNCHANGED <<can_rx, uds_rx_buffer, cfs_due>>
  /\ \/ fpc' = fpc \/ fpc' \notin {"cfs", "resp", "resp_w"}
     \/ fpc = "resp" /\ fpc' = "resp_w"
  /\ Reading' => Reading
  /\ \/ to_tester' = to_tester
     \/ \E r : to_tester' = Append(to_tester, r) /\ r.type # "response"
  /\ bus' = bus \/ \E f : f.pci # "FC" /\ bus' = Append(bus, f)
Leaves ==
  /\ can_rx' = <<>> \/ (Reading /\ can_rx # <<>> /\ can_rx' = Tail(can_rx))
  /\ fpc' \notin {"cfs", "resp", "resp_w"}
  /\ UNCHANGED <<to_tester, bus>>

LEMMA ResponseSteps ==
  ASSUME GatewayStep
  PROVE  \/ Beside \/ Leaves \/ FwdSingleFrame \/ FwdConsecutiveFrame \/ FwdEndWrite
         \/ \E ok \in BOOLEAN : FwdFirstFrame(ok)
<1> USE DEF Beside, Leaves, Reading, client_vars, can_vars, rx_vars
<1>1. CASE Accept \/ TesterStep
  BY <1>1 DEF Accept, TesterStep, TesterSends, TesterCloses, Main
<1>2. CASE MainStep
  <2>1. CASE OpenSession \/ CloseSession
    BY <2>1 DEF OpenSession, CloseSession, Main, Join
  <2>2. CASE SetupFails \/ Teardown \/ LoopHead \/ ReceiveMessage \/ ConnectionLost
    BY <2>2 DEF SetupFails, Teardown, LoopHead, ReceiveMessage, ConnectionLost, Main
  <2>3. CASE EndRoutingReply
    <3> DEFINE ok == [type |-> "routing_ok", id |-> cur.id]
               r == IF peer = "reset" THEN Refused(ok.id) ELSE ok
    <3>1. to_tester' = Append(to_tester, r) /\ r.type # "response"
      BY <2>3 DEF EndRoutingReply, EndReply, EndWrite, Refused
    <3> HIDE DEF r
    <3> QED BY <2>3, <3>1 DEF EndRoutingReply, EndReply
  <2>4. CASE EndAck
    <3> DEFINE ack == Ack(cur.id)
               r == IF peer = "reset" THEN Refused(ack.id) ELSE ack
    <3>1. to_tester' = Append(to_tester, r) /\ r.type # "response"
      BY <2>4 DEF EndAck, EndReply, EndWrite, Ack, Refused
    <3> HIDE DEF r
    <3> QED BY <2>4, <3>1 DEF EndAck, EndReply
  <2>5. CASE BeginRoutingReply \/ BeginAck
    BY <2>5 DEF BeginRoutingReply, BeginAck, BeginReply, BeginWrite
  <2>6. CASE \/ \E ok \in BOOLEAN : SendSingleFrame(ok) \/ SendFirstFrame(ok)
             \/ SendConsecutiveFrame \/ AbortTransfer
    <3>1. /\ \A m : SF(m).pci # "FC"
          /\ \A m, n : FF(m, n).pci # "FC"
          /\ \A m, k, sn : CF(m, k, sn).pci # "FC"
      BY DEF SF, FF, CF
    <3> QED BY <2>6, <3>1 DEF SendSingleFrame, SendFirstFrame, SendConsecutiveFrame,
            AbortTransfer, CanWrite
  <2>7. CASE TakeFlowControl \/ FlowControlTimeout
    BY <2>7 DEF TakeFlowControl, FlowControlTimeout
  <2> QED BY <1>2, <2>1, <2>2, <2>3, <2>4, <2>5, <2>6, <2>7 DEF MainStep
<1>3. CASE ForwarderStep
  <2> USE DEF Fwd, Read
  <2>1. CASE FwdLoop \/ FwdTimeout \/ FwdCfTimeout
    BY <2>1 DEF FwdLoop, FwdTimeout, FwdCfTimeout, LoopOrDone
  <2>2. CASE FwdFlowControl \/ FwdStray \/ FwdUnexpected
    BY <2>2 DEF FwdFlowControl, FwdStray, FwdUnexpected, LoopOrDone
  <2>3. CASE FwdBeginWrite BY <2>3 DEF FwdBeginWrite, BeginWrite
  <2>4. CASE FwdWriteFails BY <2>4 DEF FwdWriteFails
  <2> QED BY <1>3, <2>1, <2>2, <2>3, <2>4 DEF ForwarderStep
<1> QED BY <1>1, <1>2, <1>3 DEF GatewayStep

\* The responses with the tester stay whole; so is a new one, if it is there.
LEMMA DeliveredStays ==
  ASSUME SystemInv, ResponseInv, Messages \subseteq Messages',
         \/ to_tester' = to_tester
         \/ \E r : /\ to_tester' = Append(to_tester, r)
                   /\ r.type = "response" => r.data \in Messages
  PROVE  \A j \in DOMAIN to_tester' :
           to_tester'[j].type = "response" => to_tester'[j].data \in Messages'
<1>1. \A j \in DOMAIN to_tester :
        to_tester[j].type = "response" => to_tester[j].data \in Messages'
  BY DEF ResponseInv, IsResponse
<1>2. ASSUME NEW r, to_tester' = Append(to_tester, r),
             r.type = "response" => r.data \in Messages,
             NEW j \in DOMAIN to_tester', to_tester'[j].type = "response"
      PROVE  to_tester'[j].data \in Messages'
  <2>1. to_tester \in Seq(Reply \cup Response)
    BY DEF SystemInv, TypeInv, TypeOK, ChannelTypeOK
  <2>2. (j \in DOMAIN to_tester /\ to_tester'[j] = to_tester[j]) \/ to_tester'[j] = r
    BY <1>2, <2>1, Appended
  <2> QED BY <1>1, <1>2, <2>2
<1> QED BY <1>1, <1>2

LEMMA PartTypes ==
  ASSUME SystemInv, uds_rx_buffer # <<>>
  PROVE  /\ DOMAIN uds_rx_buffer = 1 .. Len(uds_rx_buffer)
         /\ Len(uds_rx_buffer) \in Nat /\ Len(uds_rx_buffer) > 0
         /\ LastRead \in Nat /\ Total \in Nat /\ BufferId \in Nat /\ cfs_due \in Nat
         /\ \A i \in DOMAIN uds_rx_buffer : uds_rx_buffer[i] \in Chunk /\ i \in Nat
         /\ \A i \in ConsFrames : /\ can_rx[i].data \in Chunk /\ can_rx[i].data[2] \in Nat
                                  /\ i \in DOMAIN can_rx /\ i \in Nat
<1>1. uds_rx_buffer \in Seq(Chunk) /\ cfs_due \in Nat BY ResponseTypes
<1>2. /\ DOMAIN uds_rx_buffer = 1 .. Len(uds_rx_buffer)
      /\ Len(uds_rx_buffer) \in Nat /\ Len(uds_rx_buffer) > 0
      /\ \A i \in DOMAIN uds_rx_buffer : uds_rx_buffer[i] \in Chunk
  BY <1>1
<1>3. uds_rx_buffer[1] \in Chunk /\ uds_rx_buffer[Len(uds_rx_buffer)] \in Chunk BY <1>2
<1>4. LastRead \in Nat /\ BufferId \in Nat BY <1>3 DEF LastRead, BufferId, Chunk
<1>5. Total \in Nat BY <1>1, <1>2 DEF Total
<1>6. \A i \in ConsFrames : can_rx[i] \in Frame /\ can_rx[i].pci = "CF" /\ i \in DOMAIN can_rx
  BY ResponseTypes DEF ConsFrames
<1>7. \A i \in ConsFrames : can_rx[i].data \in Chunk BY <1>6, FrameKinds
<1>8. \A i \in ConsFrames : can_rx[i].data[2] \in Nat BY <1>7 DEF Chunk
<1>9. \A i \in ConsFrames : i \in Nat BY <1>6, ResponseTypes
<1> QED BY <1>1, <1>2, <1>4, <1>5, <1>6, <1>7, <1>8, <1>9

\* What is put together stays so while no consecutive frame is sent or read, and no
\* more become possible.
LEMMA PartStays ==
  ASSUME SystemInv, Part, UNCHANGED <<uds_rx_buffer, cfs_due>>, Begun \subseteq Begun',
         NEW f, f.pci # "CF", can_rx' \in {can_rx, Append(can_rx, f)},
         Coming' => /\ Coming /\ ecu_tx'.id = ecu_tx.id /\ ecu_tx'.cfs = ecu_tx.cfs
                    /\ ecu_tx'.sent = ecu_tx.sent
  PROVE  Part'
<1>1. \A i \in DOMAIN can_rx' :
        can_rx'[i].pci = "CF" => i \in DOMAIN can_rx /\ can_rx'[i] = can_rx[i]
  BY ResponseTypes, Appended
<1>2. \A i \in ConsFrames' : i \in ConsFrames /\ can_rx'[i] = can_rx[i]
  BY <1>1 DEF ConsFrames
<1>3. /\ LastRead' = LastRead /\ Total' = Total /\ BufferId' = BufferId
  BY DEF LastRead, Total, BufferId
<1>4. PartBegun' BY <1>3 DEF Part, PartBegun
<1>5. PartGrows' BY <1>3 DEF Part, PartGrows
<1>6. RestFits' BY <1>2, <1>3 DEF Part, RestFits
<1>7. RestComes' BY <1>2, <1>3 DEF Part, RestComes
<1> QED BY <1>4, <1>5, <1>6, <1>7 DEF Part

\* A message of which no frame is missing is whole.
LEMMA NoneMissing ==
  ASSUME NEW s \in Seq(Chunk), s # <<>>, NEW m, NEW n \in Nat, n = Len(s) - 1,
         \A i \in DOMAIN s : s[i][1] = m /\ i - 1 <= s[i][2] /\ s[i][2] - (i - 1) <= 0,
         [id |-> m, cfs |-> n] \in Begun
  PROVE  s \in Messages
<1>1. ASSUME NEW i \in DOMAIN s PROVE s[i] = <<m, i - 1>>
  <2>1. s[i] \in Chunk /\ i \in Nat BY Elements
  <2>2. s[i] = <<s[i][1], s[i][2]>> /\ s[i][2] \in Nat BY <2>1 DEF Chunk
  <2>3. s[i][1] = m /\ i - 1 <= s[i][2] /\ s[i][2] - (i - 1) <= 0 OBVIOUS
  <2>4. s[i][2] = i - 1 BY <2>1, <2>2, <2>3
  <2> QED BY <2>2, <2>3, <2>4
<1>2. DOMAIN s = 1 .. n + 1 /\ Len(s) = n + 1 BY Elements
<1>3. s = [i \in 1 .. n + 1 |-> s[i]] BY <1>2
<1>4. s = Whole(m, n) BY <1>1, <1>2, <1>3 DEF Whole
<1> DEFINE b == [id |-> m, cfs |-> n]
<1>5. b \in Begun /\ b.id = m /\ b.cfs = n OBVIOUS
<1> HIDE DEF b
<1> QED BY <1>4, <1>5 DEF Messages

\* The forwarder puts a consecutive frame to those it has: it is of the same message,
\* and if it is the last one then none is missing.
LEMMA FrameRead ==
  ASSUME SystemInv, Part, UNCHANGED <<seen, ecu_tx, answers>>, FwdConsecutiveFrame
  PROVE  /\ cfs_due # 1 => Part'
         /\ cfs_due = 1 => uds_rx_buffer' \in Messages
<1> DEFINE c == Head(can_rx).data
<1>1. /\ can_rx # <<>> /\ Head(can_rx).pci = "CF" /\ can_rx' = Tail(can_rx)
      /\ uds_rx_buffer' = Append(uds_rx_buffer, c) /\ cfs_due' = cfs_due - 1
      /\ UNCHANGED bus
  BY DEF FwdConsecutiveFrame, Read
<1>2. /\ uds_rx_buffer # <<>> /\ cfs_due > 0 /\ LastRead <= Total
      /\ [id |-> BufferId, cfs |-> Total] \in Begun
  BY DEF Part, PartBegun
<1>3. /\ 1 \in DOMAIN can_rx /\ Head(can_rx) = can_rx[1]
      /\ \A i \in DOMAIN can_rx' : /\ can_rx'[i] = can_rx[i + 1]
                                   /\ i + 1 \in DOMAIN can_rx /\ i \in Int /\ 1 < i + 1
  BY <1>1, ResponseTypes, Tailed
<1>4. 1 \in ConsFrames BY <1>1, <1>3 DEF ConsFrames
<1>5. \A i \in ConsFrames' : i + 1 \in ConsFrames /\ can_rx'[i] = can_rx[i + 1] /\ 1 < i + 1
                             /\ i \in Int
  BY <1>3 DEF ConsFrames
<1>6. /\ c[1] = BufferId /\ LastRead < c[2] /\ c[2] <= Total /\ c \in Chunk
      /\ \A j \in ConsFrames : 1 < j => c[2] < can_rx[j].data[2]
      /\ c[2] \in Nat
  BY <1>2, <1>3, <1>4, PartTypes DEF Part, RestFits
<1> HIDE DEF c
<1> DEFINE n == Len(uds_rx_buffer)
<1>7. /\ n \in Nat /\ n > 0 /\ cfs_due \in Nat /\ LastRead \in Nat /\ Total \in Nat
      /\ Total = n - 1 + cfs_due
      /\ DOMAIN uds_rx_buffer = 1 .. n
      /\ \A i \in DOMAIN uds_rx_buffer : uds_rx_buffer[i] \in Chunk /\ i \in Nat
  BY <1>2, PartTypes DEF Total
<1>8. /\ Len(uds_rx_buffer') = n + 1 /\ uds_rx_buffer' \in Seq(Chunk) /\ uds_rx_buffer'[n + 1] = c
      /\ \A i \in DOMAIN uds_rx_buffer : uds_rx_buffer'[i] = uds_rx_buffer[i]
      /\ \A i \in DOMAIN uds_rx_buffer' : i \in DOMAIN uds_rx_buffer \/ i = n + 1
  <2>1. uds_rx_buffer \in Seq(Chunk) BY ResponseTypes
  <2>2. uds_rx_buffer' \in Seq(Chunk) BY <1>1, <1>6, <2>1
  <2> QED BY <1>1, <2>1, <2>2, Appended
<1>9. /\ LastRead' = c[2] /\ BufferId' = BufferId /\ Total' = Total
  <2>1. LastRead' = c[2] BY <1>8 DEF LastRead
  <2>2. 1 \in DOMAIN uds_rx_buffer BY <1>7
  <2>3. BufferId' = BufferId BY <1>8, <2>2 DEF BufferId
  <2>4. Total' = n + 1 - 1 + (cfs_due - 1) BY <1>1, <1>8 DEF Total
  <2> QED BY <1>7, <2>1, <2>3, <2>4
<1>10. n <= c[2]
  <2>1. n \in DOMAIN uds_rx_buffer BY <1>7
  <2>2. n - 1 <= LastRead BY <2>1 DEF Part, PartGrows, LastRead
  <2> QED BY <1>6, <1>7, <2>2
<1>11. ASSUME NEW i \in DOMAIN uds_rx_buffer'
       PROVE  /\ uds_rx_buffer'[i][1] = BufferId /\ i - 1 <= uds_rx_buffer'[i][2]
              /\ uds_rx_buffer'[i][2] - (i - 1) <= c[2] - n
  <2>1. CASE i \in DOMAIN uds_rx_buffer
    <3>1. /\ uds_rx_buffer[i][1] = BufferId /\ i - 1 <= uds_rx_buffer[i][2]
          /\ uds_rx_buffer[i][2] - (i - 1) <= LastRead - (n - 1)
      BY <2>1 DEF Part, PartGrows
    <3>2. uds_rx_buffer[i][2] \in Nat /\ i \in Nat
      <4>1. uds_rx_buffer[i] \in Chunk /\ i \in Nat BY <1>7, <2>1
      <4> QED BY <4>1 DEF Chunk
    <3>3. LastRead - (n - 1) <= c[2] - n BY <1>6, <1>7
    <3>4. uds_rx_buffer[i][2] - (i - 1) <= c[2] - n
      <4> DEFINE at == uds_rx_buffer[i][2]
                 past == LastRead - (n - 1)
                 rest == c[2] - n
      <4>1. at - (i - 1) <= past /\ past <= rest BY <3>1, <3>3
      <4>2. at \in Int /\ i \in Int /\ past \in Int /\ rest \in Int
        BY <1>6, <1>7, <3>2
      <4> HIDE DEF at, past, rest
      <4>3. at - (i - 1) <= rest BY <4>1, <4>2
      <4> QED BY <4>3 DEF at, rest
    <3> QED BY <1>8, <2>1, <3>1, <3>4
  <2>2. CASE i = n + 1
    <3>1. uds_rx_buffer'[i] = c BY <1>8, <2>2
    <3>2. i - 1 = n BY <1>7, <2>2
    <3> QED BY <1>6, <1>7, <1>10, <3>1, <3>2
  <2> QED BY <1>8, <2>1, <2>2
<1>12. ASSUME cfs_due # 1 PROVE Part'
  <2>1. cfs_due' > 0 BY <1>1, <1>2, <1>7, <1>12
  <2>2. Begun' = Begun BY DEF Begun
  <2>3. PartBegun' BY <1>2, <1>6, <1>8, <1>9, <2>1, <2>2 DEF PartBegun
  <2>4. PartGrows'
    <3>1. n + 1 - 1 = n BY <1>7
    <3> QED BY <1>8, <1>9, <1>11, <3>1 DEF PartGrows
  <2>5. RestFits'
    <3> SUFFICES ASSUME NEW i \in ConsFrames'
                 PROVE  /\ can_rx'[i].data[1] = BufferId
                        /\ c[2] < can_rx'[i].data[2] /\ can_rx'[i].data[2] <= Total
                        /\ \A j \in ConsFrames' :
                             i < j => can_rx'[i].data[2] < can_rx'[j].data[2]
      BY <1>9 DEF RestFits
    <3>1. \A j \in ConsFrames' : i < j => i + 1 < j + 1 BY <1>5
    <3> QED BY <1>5, <1>6, <3>1 DEF Part, RestFits
  <2>6. RestComes'
    <3>1. Coming' => Coming BY <1>1 DEF Coming, Clearances
    <3>2. Coming => /\ ecu_tx.id = BufferId /\ ecu_tx.cfs = Total /\ c[2] <= ecu_tx.sent
                    /\ \A i \in ConsFrames : can_rx[i].data[2] <= ecu_tx.sent
      BY <1>3, <1>4 DEF Part, RestComes, c
    <3> QED BY <1>5, <1>9, <3>1, <3>2 DEF RestComes
  <2> QED BY <2>3, <2>4, <2>5, <2>6 DEF Part
<1>13. ASSUME cfs_due = 1 PROVE uds_rx_buffer' \in Messages
  <2>1. Total = n /\ c[2] = n BY <1>6, <1>7, <1>10, <1>13
  <2>2. \A i \in DOMAIN uds_rx_buffer' :
          /\ uds_rx_buffer'[i][1] = BufferId /\ i - 1 <= uds_rx_buffer'[i][2]
          /\ uds_rx_buffer'[i][2] - (i - 1) <= 0
    <3>1. c[2] - n = 0 BY <1>7, <2>1
    <3> QED BY <1>11, <3>1
  <2>3. uds_rx_buffer' # <<>> /\ n = Len(uds_rx_buffer') - 1 BY <1>7, <1>8
  <2>4. [id |-> BufferId, cfs |-> n] \in Begun BY <1>2, <2>1
  <2> QED BY <1>7, <1>8, <2>2, <2>3, <2>4, NoneMissing
<1> QED BY <1>12, <1>13

\* The forwarder begins a response with the first frame of what the ECU is sending.
LEMMA FirstRead ==
  ASSUME SystemInv, GoAheadInv, UNCHANGED <<seen, ecu_tx, answers>>,
         NEW ok \in BOOLEAN, FwdFirstFrame(ok)
  PROVE  Part'
<1>1. /\ uds_rx_buffer' = <<Head(can_rx).data>> /\ cfs_due' = Head(can_rx).cfs
  BY DEF FwdFirstFrame
<1>2. /\ Head(can_rx) = FF(ecu_tx.id, ecu_tx.cfs) /\ ecu_tx # NoTx
      /\ \A i \in DOMAIN can_rx' : can_rx'[i].pci # "CF"
      /\ ~ecu_tx.go /\ ecu_tx.sent = 0
  BY GoAheadGiven
<1>3. /\ uds_rx_buffer' = <<<<ecu_tx.id, 0>>>> /\ cfs_due' = ecu_tx.cfs
  BY <1>1, <1>2 DEF FF
<1>4. /\ [id |-> ecu_tx.id, cfs |-> ecu_tx.cfs] \in Begun /\ ecu_tx.sent < ecu_tx.cfs
      /\ ecu_tx.cfs \in Nat
  BY <1>2, ResponseTypes DEF GoAheadInv, SendsBegun
<1>5. Len(uds_rx_buffer') = 1 /\ uds_rx_buffer'[1] = <<ecu_tx.id, 0>> BY <1>3
<1>6. LastRead' = 0 /\ BufferId' = ecu_tx.id /\ Total' = ecu_tx.cfs
  BY <1>3, <1>4, <1>5 DEF LastRead, BufferId, Total
<1>7. ConsFrames' = {} BY <1>2 DEF ConsFrames
<1>8. PartBegun'
  <2>1. Begun' = Begun BY DEF Begun
  <2> QED BY <1>2, <1>3, <1>4, <1>6, <2>1 DEF PartBegun
<1>9. PartGrows'
  <2>1. DOMAIN uds_rx_buffer' = {1} BY <1>3
  <2> QED BY <1>5, <1>6, <2>1 DEF PartGrows
<1>10. RestFits' BY <1>7 DEF RestFits
<1>11. RestComes' BY <1>2, <1>6, <1>7 DEF RestComes
<1> QED BY <1>8, <1>9, <1>10, <1>11 DEF Part

\* Every step of the gateway and the tester keeps what the forwarder has of a response,
\* and what it gave the tester.
LEMMA ResponseGateway ==
  ASSUME SystemInv, GoAheadInv, ResponseInv, GatewayStep, Asleep
  PROVE  GoAheadInv' /\ ResponseInv'
<1>1. UNCHANGED <<seen, ecu_tx, answers>> BY DEF Asleep, ecu_rx_vars, ecu_tx_vars
<1>2. Messages' = Messages /\ Begun' = Begun BY <1>1 DEF Messages, Begun, Whole
<1> DEFINE Given == \A j \in DOMAIN to_tester' : to_tester'[j].type = "response" =>
                                                     to_tester'[j].data \in Messages'
<1>3. ResponseInv' <=> /\ fpc' = "cfs" => Part'
                       /\ fpc' \in {"resp", "resp_w"} => uds_rx_buffer' \in Messages'
                       /\ Given
  BY DEF ResponseInv, IsResponse
<1>4. UNCHANGED to_tester => Given BY <1>2, DeliveredStays
<1> HIDE DEF Given
<1>5. CASE Beside
  <2>1. GoAheadInv' /\ Clearances' = Clearances
    <3>1. Reading' => Reading \/ can_rx' = <<>> BY <1>5 DEF Beside
    <3>2. can_rx' \in {can_rx, <<>>} BY <1>5 DEF Beside
    <3>3. bus' = bus \/ \E f : f.pci # "FC" /\ bus' = Append(bus, f) BY <1>5 DEF Beside
    <3> QED BY <1>1, <3>1, <3>2, <3>3, GoAheadKept
  <2>2. ASSUME fpc' = "cfs" PROVE Part'
    <3>1. Part /\ UNCHANGED <<uds_rx_buffer, cfs_due, can_rx>>
      BY <1>5, <2>2 DEF Beside, ResponseInv
    <3>2. Coming' => Coming BY <1>1, <2>1 DEF Coming
    <3> DEFINE f == SF(0)
    <3>3. f.pci # "CF" BY DEF SF
    <3> HIDE DEF f
    <3> QED BY <1>1, <1>2, <3>1, <3>2, <3>3, PartStays
  <2>3. fpc' \in {"resp", "resp_w"} => uds_rx_buffer' \in Messages'
    BY <1>2, <1>5 DEF Beside, ResponseInv
  <2>4. Given
    <3>1. \/ to_tester' = to_tester
          \/ \E r : to_tester' = Append(to_tester, r) /\ r.type # "response"
      BY <1>5 DEF Beside
    <3> QED BY <1>2, <3>1, DeliveredStays DEF Given
  <2> QED BY <1>3, <2>1, <2>2, <2>3, <2>4
<1>6. CASE Leaves
  <2>1. GoAheadInv'
    <3>1. /\ \/ can_rx' \in {can_rx, <<>>}
             \/ can_rx # <<>> /\ can_rx' = Tail(can_rx)
          /\ Reading' => Reading \/ can_rx' = <<>>
          /\ bus' = bus
      BY <1>6 DEF Leaves
    <3> QED BY <1>1, <3>1, GoAheadKept
  <2> QED BY <1>3, <1>4, <1>6, <2>1 DEF Leaves
<1>7. ASSUME FwdSingleFrame \/ FwdConsecutiveFrame
      PROVE  /\ GoAheadInv' /\ Given /\ Reading
             /\ can_rx # <<>> /\ can_rx' = Tail(can_rx)
  <2>1. /\ Reading /\ can_rx # <<>> /\ can_rx' = Tail(can_rx) /\ UNCHANGED <<bus, to_tester>>
    BY <1>7 DEF FwdSingleFrame, FwdConsecutiveFrame, Fwd, Read, Reading
  <2>2. GoAheadInv' BY <1>1, <2>1, GoAheadKept
  <2> QED BY <1>4, <2>1, <2>2
<1>8. CASE FwdSingleFrame
  <2>1. /\ Head(can_rx).pci = "SF" /\ uds_rx_buffer' = <<Head(can_rx).data>>
        /\ fpc' # "cfs"
    BY <1>8 DEF FwdSingleFrame, Fwd, Read, RespondOrDone
  <2>2. 1 \in DOMAIN can_rx /\ Head(can_rx) = can_rx[1] BY <1>7, <1>8, ResponseTypes, Tailed
  <2>3. uds_rx_buffer' \in Messages'
    BY <1>2, <1>7, <1>8, <2>1, <2>2 DEF GoAheadInv, SinglesWhole
  <2> QED BY <1>3, <1>7, <1>8, <2>1, <2>3
<1>9. CASE FwdConsecutiveFrame
  <2>1. /\ fpc = "cfs" /\ fpc' = IF cfs_due = 1 THEN RespondOrDone ELSE "cfs"
        /\ RespondOrDone # "cfs"
    BY <1>9 DEF FwdConsecutiveFrame, Fwd, RespondOrDone
  <2>2. /\ cfs_due # 1 => Part'
        /\ cfs_due = 1 => uds_rx_buffer' \in Messages
    BY <1>1, <1>9, <2>1, FrameRead DEF ResponseInv
  <2>3. fpc' = "cfs" => Part' BY <2>1, <2>2
  <2>4. fpc' \in {"resp", "resp_w"} => uds_rx_buffer' \in Messages' BY <1>2, <2>1, <2>2
  <2> QED BY <1>3, <1>7, <1>9, <2>3, <2>4
<1>10. CASE FwdEndWrite
  <2> DEFINE r == DoipResponse(uds_rx_buffer)
  <2>1. /\ fpc = "resp_w" /\ fpc' = "loop" /\ to_tester' = Append(to_tester, r)
        /\ UNCHANGED <<can_rx, bus>>
    BY <1>10 DEF FwdEndWrite, Fwd, EndWrite, can_vars
  <2>2. r.data \in Messages BY <2>1 DEF ResponseInv, DoipResponse
  <2> HIDE DEF r
  <2>3. Given BY <1>2, <2>1, <2>2, DeliveredStays DEF Given
  <2>4. Reading BY <2>1 DEF Reading
  <2>5. GoAheadInv' BY <1>1, <2>1, <2>4, GoAheadKept
  <2> QED BY <1>3, <2>1, <2>3, <2>5
<1>11. ASSUME NEW ok \in BOOLEAN, FwdFirstFrame(ok) PROVE GoAheadInv' /\ ResponseInv'
  <2>1. fpc' = "cfs" /\ UNCHANGED to_tester BY <1>11 DEF FwdFirstFrame, Fwd
  <2>2. GoAheadInv' /\ Part' BY <1>1, <1>11, GoAheadGiven, FirstRead
  <2> QED BY <1>3, <1>4, <2>1, <2>2
<1> QED BY <1>5, <1>6, <1>8, <1>9, <1>10, <1>11, ResponseSteps

\* What the ECU leaves of the forwarder's and the tester's.
Steady ==
  /\ UNCHANGED <<fpc, bus, to_tester, uds_rx_buffer, cfs_due>>
  /\ answers' = answers \/ \E e : answers' = Append(answers, e)

\* It sends no consecutive frame, and becomes able to send no more of them.
LEMMA ResponseKept ==
  ASSUME SystemInv, ResponseInv, Steady,
         NEW f, f.pci # "CF", can_rx' \in {can_rx, Append(can_rx, f)},
         Coming' => /\ Coming /\ ecu_tx'.id = ecu_tx.id /\ ecu_tx'.cfs = ecu_tx.cfs
                    /\ ecu_tx'.sent = ecu_tx.sent
  PROVE  ResponseInv'
<1>1. Begun \subseteq Begun' /\ Messages \subseteq Messages' BY BegunStays DEF Steady
<1>2. fpc' = "cfs" => Part' BY <1>1, PartStays DEF Steady, ResponseInv
<1>3. fpc' \in {"resp", "resp_w"} => uds_rx_buffer' \in Messages'
  BY <1>1 DEF Steady, ResponseInv
<1>4. \A j \in DOMAIN to_tester' :
        to_tester'[j].type = "response" => to_tester'[j].data \in Messages'
  BY <1>1, DeliveredStays DEF Steady
<1> QED BY <1>2, <1>3, <1>4 DEF ResponseInv, IsResponse

\* The ECU's steps leave alone what they should, and send what they send.
LEMMA SteadySteps ==
  ASSUME SystemInv, Ecu
  PROVE  Steady
<1>1. UNCHANGED <<fpc, bus, to_tester, uds_rx_buffer, cfs_due>>
  BY EcuFootprint DEF rx_vars
<1>2. answers' = answers \/ \E e : answers' = Append(answers, e)
  BY EcuGrows
<1> QED BY <1>1, <1>2 DEF Steady

LEMMA Sent ==
  ASSUME NEW f, Send(f)
  PROVE  can_rx' \in {can_rx, Append(can_rx, f)}
BY DEF Send, BusDelivers, vars, can_vars

\* The ECU starts a message, when it sends no other.
LEMMA MessageStarts ==
  ASSUME SystemInv, GoAheadInv, ResponseInv, Steady, UNCHANGED seen,
         NEW m \in Nat, NEW cfs \in Nat, StartMessage(m, cfs)
  PROVE  GoAheadInv' /\ ResponseInv'
<1>1. ecu_tx = NoTx /\ answers' = Append(answers, [id |-> m, cfs |-> cfs])
  BY DEF StartMessage
<1>2. FirstFrames = {} /\ Clearances = {} BY <1>1 DEF GoAheadInv, OneGoAhead
<1>3. [id |-> m, cfs |-> cfs] \in Begun' BY <1>1, JustBegun
<1>4. UNCHANGED <<fpc, bus>> /\ \E e : answers' = Append(answers, e) BY <1>1 DEF Steady
<1>5. CASE cfs = 0 /\ Send(SF(m)) /\ UNCHANGED ecu_tx
  <2> DEFINE f == SF(m)
  <2>1. f.pci = "SF" /\ f.data = <<m, 0>> BY DEF SF
  <2>2. <<<<m, 0>>>> \in Messages'
    <3>1. Whole(m, 0) = <<<<m, 0>>>>
      <4>1. Whole(m, 0) = [i \in 1 .. 1 |-> <<m, i - 1>>] BY DEF Whole
      <4>2. \A i \in 1 .. 1 : i - 1 = 0 /\ i = 1 OBVIOUS
      <4>3. [i \in 1 .. 1 |-> <<m, i - 1>>] = [i \in 1 .. 1 |-> <<m, 0>>] BY <4>2
      <4> QED BY <4>1, <4>3
    <3> DEFINE b == [id |-> m, cfs |-> cfs]
    <3>2. b \in Begun' /\ b.id = m /\ b.cfs = 0 BY <1>3, <1>5
    <3> HIDE DEF b
    <3> QED BY <3>1, <3>2 DEF Messages, Whole
  <2>3. Send(f) BY <1>5
  <2> HIDE DEF f
  <2>4. can_rx' \in {can_rx, Append(can_rx, f)} BY <2>3, Sent
  <2>5. SendsBegun' BY <1>1, <1>5 DEF SendsBegun
  <2>6. GoAheadInv' /\ Clearances' = Clearances
    <3>1. SendsInTurn(f) BY <1>5, <2>1, <2>2 DEF SendsInTurn
    <3> QED BY <1>4, <2>4, <2>5, <3>1, GoAheadSent
  <2>7. ~Coming' BY <1>1, <1>2, <1>5, <2>6 DEF Coming, NoTx
  <2> QED BY <2>1, <2>4, <2>6, <2>7, ResponseKept
<1>6. CASE /\ cfs > 0 /\ Send(FF(m, cfs))
           /\ ecu_tx' = [id |-> m, cfs |-> cfs, sent |-> 0, go |-> FALSE]
  <2> DEFINE f == FF(m, cfs)
  <2>1. ecu_tx'.id = m /\ ecu_tx'.cfs = cfs /\ ecu_tx'.sent = 0 /\ ~ecu_tx'.go
    BY <1>6
  <2>2. ecu_tx' # NoTx
    <3>1. NoTx.cfs = 0 BY DEF NoTx
    <3> QED BY <1>6, <2>1, <3>1
  <2>3. f.pci = "FF" /\ Send(f) /\ f = FF(ecu_tx'.id, ecu_tx'.cfs) BY <1>6, <2>1 DEF FF
  <2> HIDE DEF f
  <2>4. can_rx' \in {can_rx, Append(can_rx, f)} BY <2>3, Sent
  <2>5. SendsBegun' BY <1>3, <1>6, <2>1 DEF SendsBegun
  <2>6. GoAheadInv' /\ Clearances' = Clearances
    <3>1. SendsInTurn(f) BY <1>2, <2>1, <2>2, <2>3 DEF SendsInTurn, NoGoAhead
    <3> QED BY <1>4, <2>4, <2>5, <3>1, GoAheadSent
  <2>7. ~Coming' BY <1>2, <2>1, <2>6 DEF Coming
  <2> QED BY <2>3, <2>4, <2>6, <2>7, ResponseKept
<1> QED BY <1>5, <1>6 DEF StartMessage

\* The ECU sends the next consecutive frame of its message.
LEMMA FrameSent ==
  ASSUME SystemInv, GoAheadInv, ResponseInv, Steady, EcuConsecutiveFrame
  PROVE  GoAheadInv' /\ ResponseInv'
<1> DEFINE k == ecu_tx.sent + 1
           f == CF(ecu_tx.id, k, k % SeqMod)
<1>1. /\ ecu_tx.go /\ Send(f) /\ UNCHANGED <<seen, answers>>
      /\ ecu_tx' = IF k = ecu_tx.cfs THEN NoTx ELSE [ecu_tx EXCEPT !.sent = k]
  BY DEF EcuConsecutiveFrame, ecu_rx_vars
<1>2. ecu_tx # NoTx BY <1>1, ResponseTypes
<1>3. FirstFrames = {} /\ Clearances = {} BY <1>1 DEF GoAheadInv, OneGoAhead
<1>4. /\ [id |-> ecu_tx.id, cfs |-> ecu_tx.cfs] \in Begun /\ k <= ecu_tx.cfs
      /\ k \in Nat /\ ecu_tx.sent \in Nat /\ ecu_tx.cfs \in Nat /\ ecu_tx.sent < k
  BY <1>2, ResponseTypes DEF GoAheadInv, SendsBegun
<1>5. f.pci = "CF" /\ f.data[1] = ecu_tx.id /\ f.data[2] = k BY DEF CF
<1> HIDE DEF f, k
<1>6. ecu_tx' # NoTx => /\ ecu_tx'.id = ecu_tx.id /\ ecu_tx'.cfs = ecu_tx.cfs
                        /\ ecu_tx'.sent = k /\ ecu_tx'.go /\ k < ecu_tx.cfs
  BY <1>1, <1>4, ResponseTypes
<1>7. Begun' = Begun /\ Messages' = Messages BY <1>1 DEF Begun, Messages, Whole
<1>8. SendsBegun' BY <1>4, <1>6, <1>7 DEF SendsBegun
<1>9. can_rx' \in {can_rx, Append(can_rx, f)} BY <1>1, Sent
<1>10. GoAheadInv' /\ Clearances' = {}
  <2>1. SendsInTurn(f) BY <1>1, <1>3, <1>5 DEF SendsInTurn, NoGoAhead
  <2>2. UNCHANGED <<fpc, bus, seen>> /\ answers' = answers BY <1>1 DEF Steady
  <2>3. GoAheadInv' /\ Clearances' = Clearances BY <1>8, <1>9, <2>1, <2>2, GoAheadSent
  <2> QED BY <1>3, <2>3
<1>11. ASSUME fpc = "cfs" PROVE Part'
  <2>1. Part /\ UNCHANGED <<uds_rx_buffer, cfs_due>> BY <1>11 DEF ResponseInv, Steady
  <2>2. /\ LastRead' = LastRead /\ Total' = Total /\ BufferId' = BufferId
    BY <2>1 DEF LastRead, Total, BufferId
  <2>3. /\ ecu_tx.id = BufferId /\ ecu_tx.cfs = Total /\ LastRead <= ecu_tx.sent
        /\ \A i \in ConsFrames : can_rx[i].data[2] <= ecu_tx.sent
    BY <1>1, <2>1 DEF Part, RestComes, Coming
  <2>4. LastRead \in Nat /\ \A i \in ConsFrames : can_rx[i].data[2] \in Nat /\ i \in Nat
    BY <2>1, PartTypes DEF Part, PartBegun
  <2>5. /\ LastRead < k /\ LastRead <= k
        /\ \A i \in ConsFrames : can_rx[i].data[2] < k /\ can_rx[i].data[2] <= k
    BY <1>4, <2>3, <2>4
  <2>6. /\ \A i \in DOMAIN can_rx : can_rx'[i] = can_rx[i] /\ i < Len(can_rx) + 1 /\ i \in Nat
        /\ \A i \in DOMAIN can_rx' :
             i \in DOMAIN can_rx \/ (i = Len(can_rx) + 1 /\ can_rx'[i] = f)
        /\ Len(can_rx) \in Nat
    BY <1>9, ResponseTypes, Appended
  <2>7. \A i \in ConsFrames' : \/ /\ i \in ConsFrames /\ can_rx'[i] = can_rx[i]
                                  /\ i < Len(can_rx) + 1
                               \/ i = Len(can_rx) + 1 /\ can_rx'[i] = f
    BY <2>6 DEF ConsFrames
  <2>8. PartBegun' BY <1>7, <2>1, <2>2 DEF Part, PartBegun
  <2>9. PartGrows' BY <2>1, <2>2 DEF Part, PartGrows
  <2>10. RestFits'
    <3> SUFFICES ASSUME NEW i \in ConsFrames'
                 PROVE  /\ can_rx'[i].data[1] = BufferId
                        /\ LastRead < can_rx'[i].data[2] /\ can_rx'[i].data[2] <= Total
                        /\ \A j \in ConsFrames' :
                             i < j => can_rx'[i].data[2] < can_rx'[j].data[2]
      BY <2>2 DEF RestFits
    <3>1. CASE i \in ConsFrames /\ can_rx'[i] = can_rx[i]
      BY <1>5, <2>1, <2>5, <2>7, <3>1 DEF Part, RestFits
    <3>2. CASE i = Len(can_rx) + 1 /\ can_rx'[i] = f
      <4>1. \A j \in ConsFrames' : ~ (i < j)
        <5>1. \A j \in ConsFrames' : (j < i \/ j = i) /\ j \in Int BY <2>4, <2>6, <2>7, <3>2
        <5>2. i \in Int BY <2>6, <3>2
        <5> QED BY <5>1, <5>2
      <4> QED BY <1>4, <1>5, <2>3, <2>5, <3>2, <4>1
    <3> QED BY <2>7, <3>1, <3>2
  <2>11. RestComes'
    <3>1. Coming' => ecu_tx' # NoTx BY <1>10, ResponseTypes DEF Coming, NoTx
    <3>2. \A i \in ConsFrames' : can_rx'[i].data[2] <= k
      <4>1. k <= k BY <1>4
      <4> QED BY <1>5, <2>5, <2>7, <4>1
    <3> QED BY <1>6, <2>2, <2>3, <2>5, <3>1, <3>2 DEF RestComes
  <2> QED BY <2>8, <2>9, <2>10, <2>11 DEF Part
<1>12. \A j \in DOMAIN to_tester' :
         to_tester'[j].type = "response" => to_tester'[j].data \in Messages'
  BY <1>7, DeliveredStays DEF Steady
<1> QED BY <1>7, <1>10, <1>11, <1>12 DEF ResponseInv, IsResponse, Steady

\* The ECU's other steps leave the messages it began alone, and are no reason for more
\* consecutive frames: its Flow Control frames,
LEMMA FlowControlSent ==
  ASSUME SystemInv, GoAheadInv, ResponseInv, Steady,
         NEW f, f.pci = "FC", can_rx' \in {can_rx, Append(can_rx, f)},
         UNCHANGED <<seen, ecu_tx, answers>>
  PROVE  GoAheadInv' /\ ResponseInv'
<1>1. SendsBegun' BY DEF GoAheadInv, SendsBegun, Begun
<1>2. SendsInTurn(f) BY DEF SendsInTurn
<1>3. GoAheadInv' /\ Clearances' = Clearances BY <1>1, <1>2, GoAheadSent DEF Steady
<1>4. Coming' => Coming BY <1>3 DEF Coming
<1> QED BY <1>3, <1>4, ResponseKept

\* giving up a response that no Flow Control frame comes for,
LEMMA GivenUp ==
  ASSUME SystemInv, SyncInv, GoAheadInv, ResponseInv, Steady, Punctual, EcuGivesUp
  PROVE  GoAheadInv' /\ ResponseInv'
<1>1. /\ ~ecu_tx.go /\ ~FlowControlComing /\ ecu_tx' = NoTx
      /\ UNCHANGED <<seen, can_rx, answers>>
  BY DEF EcuGivesUp, ecu_rx_vars, vars, can_vars
<1>2. NoGoAhead
  <2>1. Clearances = {} BY <1>1 DEF FlowControlComing, Clearances
  <2>2. ASSUME NEW i \in FirstFrames PROVE FALSE
    <3>1. Reading /\ i \in DOMAIN can_rx /\ can_rx[i].pci = "FF" BY DEF FirstFrames
    <3>2. can_open /\ fpc # "done" BY <3>1 DEF Reading, SyncInv, CanLives
    <3> QED BY <1>1, <3>1, <3>2 DEF FlowControlComing
  <2> QED BY <2>1, <2>2 DEF NoGoAhead
<1> DEFINE f == FC("CTS", 0, 0)
<1>3. f.pci = "FC" BY DEF FC
<1> HIDE DEF f
<1>4. SendsBegun' BY <1>1 DEF SendsBegun
<1>5. GoAheadInv' /\ Clearances' = Clearances
  <2>1. SendsInTurn(f) BY <1>2, <1>3 DEF SendsInTurn
  <2> QED BY <1>1, <1>4, <2>1, GoAheadSent DEF Steady
<1>6. ~Coming' BY <1>1, <1>2, <1>5, ResponseTypes DEF Coming, NoGoAhead
<1> QED BY <1>1, <1>3, <1>5, <1>6, ResponseKept

\* and what it gets, or misses, of the gateway's frames.
LEMMA FrameTaken ==
  ASSUME SystemInv, GoAheadInv, ResponseInv, Steady, UNCHANGED <<can_rx, answers>>,
         seen < Len(bus), seen' = seen + 1,
         \/ ecu_tx' = ecu_tx
         \/ bus[seen + 1].pci = "FC" /\ ecu_tx' = [ecu_tx EXCEPT !.go = TRUE]
  PROVE  GoAheadInv' /\ ResponseInv'
<1>1. /\ GoAheadInv' /\ Clearances' \subseteq Clearances
      /\ bus[seen + 1].pci = "FC" => Clearances # {}
  BY GoAheadTaken DEF Steady
<1>2. Coming' => /\ Coming /\ ecu_tx'.id = ecu_tx.id /\ ecu_tx'.cfs = ecu_tx.cfs
                 /\ ecu_tx'.sent = ecu_tx.sent
  BY <1>1, ResponseTypes DEF Coming
<1> DEFINE f == FC("CTS", 0, 0)
<1>3. f.pci # "CF" BY DEF FC
<1> HIDE DEF f
<1> QED BY <1>1, <1>2, <1>3, ResponseKept

LEMMA ResponseEcu ==
  ASSUME SystemInv, SyncInv, GoAheadInv, ResponseInv, Punctual, Ecu
  PROVE  GoAheadInv' /\ ResponseInv'
<1>1. Steady BY SteadySteps
<1>2. ASSUME NEW fs \in EcuStatuses, EcuFlowControl(fs) PROVE GoAheadInv' /\ ResponseInv'
  <2> DEFINE f == FC(fs, BlockSize, InHand)
  <2>1. f.pci = "FC" BY DEF FC
  <2>2. Send(f) /\ UNCHANGED <<seen, ecu_tx, answers>>
    BY <1>2 DEF EcuFlowControl, InHand, ecu_tx_vars
  <2> HIDE DEF f
  <2>3. can_rx' \in {can_rx, Append(can_rx, f)} BY <2>2, Sent
  <2> QED BY <1>1, <2>1, <2>2, <2>3, FlowControlSent
<1>3. ASSUME NEW cfs \in ResponseSizes, EcuAnswer(cfs) PROVE GoAheadInv' /\ ResponseInv'
  <2>1. due # <<>> /\ UNCHANGED seen /\ StartMessage(ResponseTo(Head(due)), cfs)
    BY <1>3 DEF EcuAnswer
  <2>2. ResponseTo(Head(due)) \in Nat /\ cfs \in Nat
    BY <2>1, DueNumbers, SystemAssumption DEF SystemInv
  <2> QED BY <1>1, <2>1, <2>2, MessageStarts
<1>4. ASSUME NEW cfs \in ResponseSizes, EcuPeriodic(cfs) PROVE GoAheadInv' /\ ResponseInv'
  <2>1. periodic' = periodic + 1 /\ UNCHANGED seen /\ StartMessage(PeriodicId(periodic'), cfs)
    BY <1>4 DEF EcuPeriodic, ecu_rx_vars
  <2>2. periodic \in Nat /\ cfs \in Nat BY SystemAssumption DEF SystemInv, EcuTypes
  <2>3. PeriodicId(periodic') \in Nat BY <2>1, <2>2 DEF PeriodicId
  <2> QED BY <1>1, <2>1, <2>2, <2>3, MessageStarts
<1>5. CASE EcuConsecutiveFrame BY <1>1, <1>5, FrameSent
<1>6. CASE EcuGivesUp BY <1>1, <1>6, GivenUp
<1>7. CASE EcuReceives
  <2>1. /\ seen < Len(bus) /\ seen' = seen + 1 /\ UNCHANGED <<can_rx, answers>>
        /\ \/ ecu_tx' = ecu_tx
           \/ bus[seen + 1].pci = "FC" /\ ecu_tx' = [ecu_tx EXCEPT !.go = TRUE]
    BY <1>7, ReceiveSteps DEF Drops, Begins, Goes, Takes, vars, can_vars
  <2> QED BY <1>1, <2>1, FrameTaken
<1>8. CASE EcuMisses
  <2>1. seen < Len(bus) /\ seen' = seen + 1 /\ UNCHANGED <<can_rx, answers, ecu_tx>>
    BY <1>8 DEF EcuMisses, ecu_tx_vars, vars, can_vars
  <2> QED BY <1>1, <2>1, FrameTaken
<1> QED BY <1>2, <1>3, <1>4, <1>5, <1>6, <1>7, <1>8 DEF Ecu

\* The inductive invariant of the responses.
MessageInv == SystemInv /\ SyncInv /\ (Punctual => GoAheadInv /\ ResponseInv)

LEMMA MessageInvInit == SystemInit => MessageInv
<1> SUFFICES ASSUME SystemInit PROVE MessageInv
  OBVIOUS
<1>1. SystemInv /\ SyncInv BY SystemInvInit, SyncInit DEF SystemInit
<1>2. /\ fpc = "none" /\ can_rx = <<>> /\ bus = <<>> /\ to_tester = <<>> /\ ecu_tx = NoTx
  BY DEF SystemInit, Init
<1>3. FirstFrames = {} /\ Clearances = {} /\ DOMAIN can_rx = {} /\ DOMAIN to_tester = {}
  BY <1>1, <1>2, FlowTypes DEF FirstFrames, Clearances, Reading
<1>4. GoAheadInv
  BY <1>2, <1>3 DEF GoAheadInv, SendsBegun, OneGoAhead, NoneAfterFirst, SinglesWhole
<1>5. ResponseInv BY <1>2, <1>3 DEF ResponseInv
<1> QED BY <1>1, <1>4, <1>5 DEF MessageInv

LEMMA MessageInvStep == MessageInv /\ [SystemNext]_system_vars => MessageInv'
<1> SUFFICES ASSUME MessageInv, [SystemNext]_system_vars PROVE MessageInv'
  OBVIOUS
<1> USE DEF MessageInv
<1>1. SystemInv' /\ [Next]_vars BY SystemInvStep
<1>2. SyncInv' BY <1>1, SyncStep DEF SystemInv, TypeInv, TypeOK
<1>3. Punctual' => Punctual
  <2>1. UNCHANGED setting
    BY DEF SystemNext, SystemMain, SystemForwarder, Ecu, Rest, system_vars
  <2> QED BY <2>1 DEF Punctual
<1>4. ASSUME Punctual PROVE GoAheadInv' /\ ResponseInv'
  <2>1. CASE GatewayStep /\ Asleep BY <1>4, <2>1, ResponseGateway
  <2>2. CASE Ecu BY <1>4, <2>2, ResponseEcu
  <2>3. CASE UNCHANGED system_vars
    <3>1. Steady /\ UNCHANGED <<can_rx, seen, ecu_tx, answers>>
      BY <2>3 DEF Steady, system_vars, vars, can_vars, rx_vars, ecu_vars, ecu_rx_vars,
                  ecu_tx_vars
    <3> DEFINE f == FC("CTS", 0, 0)
    <3>2. f.pci = "FC" BY DEF FC
    <3> HIDE DEF f
    <3> QED BY <1>4, <3>1, <3>2, FlowControlSent
  <2> QED BY <2>1, <2>2, <2>3, SystemSteps
<1> QED BY <1>1, <1>2, <1>3, <1>4

\* Unless a timeout strikes too early, what the tester is given as a response is one
\* message of the ECU, whole, whatever frames are lost.
THEOREM ResponsesUnmixed == SystemSpec => [](Punctual => NoMixedResponse)
<1>1. MessageInv => (Punctual => NoMixedResponse)
  <2> SUFFICES ASSUME MessageInv, Punctual, NEW r \in Delivered
               PROVE  \E i \in DOMAIN answers : r.data = Whole(answers[i].id, answers[i].cfs)
    BY DEF NoMixedResponse
  <2>1. PICK j \in DOMAIN to_tester : r = to_tester[j] /\ to_tester[j].type = "response"
    BY DEF Delivered
  <2>2. r.data \in Messages BY <2>1 DEF MessageInv, ResponseInv, IsResponse
  <2> QED BY <2>2 DEF Messages, Begun
<1> QED BY <1>1, MessageInvInit, MessageInvStep, PTL DEF SystemSpec

=============================================================================
