-------------------------- MODULE UdsGatewayProofs --------------------------
(***************************************************************************)
(* What UdsGateway keeps for every value of its constants, every tester    *)
(* and every sequence of frames on the bus.                                *)
(***************************************************************************)
EXTENDS UdsGateway, TLAPS

-----------------------------------------------------------------------------
(* Types *)

\* What types alone do not say: a counter that is about to be decremented is
\* positive.
BlockOpen == mpc = "block" => block_left > 0
CfsOpen   == fpc = "cfs" => cfs_due > 0
TypeInv   == TypeOK /\ BlockOpen /\ CfsOpen

\* Every frame the gateway builds is a frame.
LEMMA FrameTypes ==
  ASSUME NEW m \in Nat, NEW n \in Nat \ {0}, NEW k \in Nat,
         NEW sn \in 0 .. SeqMod - 1
  PROVE  /\ SF(m) \in Frame /\ FF(m, n) \in Frame /\ CF(m, k, sn) \in Frame
         /\ FC("CTS", 0, m) \in Frame
  BY DEF SF, FF, CF, FC, Frame, SingleFrame, FirstFrame, ConsFrame, FlowFrame,
         FlowStatus, Chunk

\* A frame has the fields of its kind.
LEMMA FrameKinds ==
  ASSUME NEW f \in Frame
  PROVE  /\ f.pci = "FC" => f \in FlowFrame
         /\ f.pci # "FC" => f.data \in Chunk
         /\ f.pci = "FF" => f.cfs \in Nat \ {0} /\ f.data[1] \in Nat
  BY DEF Frame, SingleFrame, FirstFrame, ConsFrame, FlowFrame, Chunk

\* Every message the gateway writes to the tester is well formed.
LEMMA ReplyTypes ==
  ASSUME NEW m \in Nat, NEW data \in Seq(Chunk)
  PROVE  /\ Ack(m) \in Reply /\ [type |-> "routing_ok", id |-> m] \in Reply
         /\ Refused(m) \in Reply /\ DoipResponse(data) \in Response
  BY DEF Ack, Refused, Reply, Response, DoipResponse

\* The sequence number stays in its nibble.
LEMMA NextSeqType ==
  ASSUME NEW sn \in 0 .. SeqMod - 1
  PROVE  NextSeq(sn) \in 0 .. SeqMod - 1 /\ 1 \in 0 .. SeqMod - 1
  BY GatewayAssumption DEF NextSeq

\* The program starts in its types.
LEMMA TypeInit == Init => TypeInv
<1> SUFFICES ASSUME Init PROVE TypeInv
  OBVIOUS
<1>1. ThreadTypeOK
  BY DEF Init, ThreadTypeOK, MainPC, FwdPC
<1>2. ChannelTypeOK
  BY DEF Init, ChannelTypeOK
<1>3. TransferTypeOK
  BY GatewayAssumption DEF Init, TransferTypeOK, NoMessage, DoipMessage
<1>4. ReassemblyTypeOK /\ BlockOpen /\ CfsOpen
  BY GatewayAssumption DEF Init, ReassemblyTypeOK, BlockOpen, CfsOpen
<1> QED
  BY <1>1, <1>2, <1>3, <1>4 DEF TypeInv, TypeOK

\* Every step keeps the types of the program counters, the flag, the mutex and
\* the sockets.
LEMMA ThreadTypeStep == ThreadTypeOK /\ Next => ThreadTypeOK'
<1> SUFFICES ASSUME ThreadTypeOK, Next PROVE ThreadTypeOK'
  OBVIOUS
<1> USE DEF ThreadTypeOK, MainPC, FwdPC, client_vars, can_vars, BeginWrite,
            EndWrite
<1>1. CASE MainStep
  BY <1>1 DEF MainStep, Main, OpenSession, SetupFails, Teardown, Join,
       CloseSession, LoopHead, ReceiveMessage, Dispatch, ConnectionLost,
       BeginRoutingReply, EndRoutingReply, BeginAck, EndAck, BeginReply,
       EndReply, SendSingleFrame, SendFirstFrame, TakeFlowControl,
       FlowControlTimeout, SendConsecutiveFrame, AbortTransfer
<1>2. CASE ForwarderStep
  BY <1>2 DEF ForwarderStep, Fwd, LoopOrDone, RespondOrDone, Read, FwdLoop,
       FwdTimeout, FwdFlowControl, FwdStray, FwdSingleFrame, FwdFirstFrame,
       FwdConsecutiveFrame, FwdUnexpected, FwdCfTimeout, FwdBeginWrite,
       FwdEndWrite, FwdWriteFails
<1>3. CASE Accept \/ TesterStep \/ \E f \in Frame : BusDelivers(f)
  BY <1>3 DEF Accept, Main, TesterStep, TesterSends, TesterCloses, BusDelivers
<1> QED
  BY <1>1, <1>2, <1>3 DEF Next

\* Every step keeps the types of main's transfer.
LEMMA TransferTypeStep ==
  TypeInv /\ Next => TransferTypeOK' /\ BlockOpen'
<1> SUFFICES ASSUME TypeInv, Next PROVE TransferTypeOK' /\ BlockOpen'
  OBVIOUS
<1> USE DEF TypeInv, TypeOK, TransferTypeOK, BlockOpen, tx_vars
<1>1. CASE ReceiveMessage
  BY <1>1 DEF ReceiveMessage, ChannelTypeOK, Dispatch
<1>2. CASE \E ok \in BOOLEAN : SendFirstFrame(ok)
  BY <1>2, NextSeqType DEF SendFirstFrame, StartTransfer, Main
<1>3. CASE TakeFlowControl
  <2>0. Head(fc_frame_queue) \in FlowFrame
    BY <1>3 DEF TakeFlowControl, ChannelTypeOK
  <2>1. Head(fc_frame_queue).bs \in 0 .. 255
    BY <2>0 DEF FlowFrame
  <2>2. UNCHANGED <<cur, sent, seq_num>>
    BY <1>3 DEF TakeFlowControl
  <2>3. \/ block_left' = MAX_CONSECUTIVE_FRAMES_IN_BLOCK
        \/ block_left' = Head(fc_frame_queue).bs /\ block_left' # 0
        \/ block_left' = block_left /\ mpc' # "block"
    BY <1>3 DEF TakeFlowControl, Granted
  <2>4. block_left' \in Nat /\ BlockOpen'
    BY <2>1, <2>3, GatewayAssumption
  <2> QED
    BY <2>2, <2>4
<1>4. CASE SendConsecutiveFrame
  <2>1. seq_num' \in 0 .. SeqMod - 1
    BY <1>4, NextSeqType DEF SendConsecutiveFrame
  <2>2. UNCHANGED cur /\ cur.cfs \in Nat
    BY <1>4 DEF SendConsecutiveFrame, DoipMessage
  <2>3. sent' \in Nat /\ block_left > 0 /\ block_left' = block_left - 1
    BY <1>4 DEF SendConsecutiveFrame
  <2>4. mpc' = "block" => block_left' # 0
    BY <1>4, <2>2, <2>3 DEF SendConsecutiveFrame
  <2> QED
    BY <2>1, <2>2, <2>3, <2>4
<1>5. CASE OpenSession \/ SetupFails \/ Teardown \/ CloseSession \/ LoopHead
             \/ ConnectionLost \/ BeginRoutingReply \/ EndRoutingReply
             \/ BeginAck \/ EndAck
  BY <1>5 DEF Main, OpenSession, SetupFails, Teardown, CloseSession, LoopHead,
       ConnectionLost, BeginRoutingReply, EndRoutingReply, BeginAck, EndAck,
       BeginReply, EndReply
<1>6. CASE (\E ok \in BOOLEAN : SendSingleFrame(ok)) \/ FlowControlTimeout
             \/ AbortTransfer
  BY <1>6 DEF Main, SendSingleFrame, FlowControlTimeout, AbortTransfer
<1>7. CASE ForwarderStep
  BY <1>7 DEF ForwarderStep, FwdLoop, FwdTimeout, FwdFlowControl, FwdStray,
       FwdSingleFrame, FwdFirstFrame, FwdConsecutiveFrame, FwdUnexpected,
       FwdCfTimeout, FwdBeginWrite, FwdEndWrite, FwdWriteFails
<1>8. CASE Accept \/ TesterStep \/ \E f \in Frame : BusDelivers(f)
  BY <1>8 DEF Accept, Main, TesterStep, TesterSends, TesterCloses, BusDelivers
<1> QED
  BY <1>1, <1>2, <1>3, <1>4, <1>5, <1>6, <1>7, <1>8 DEF Next, MainStep

\* Every step keeps the types of the forwarder's reassembly.
LEMMA ReassemblyTypeStep ==
  TypeInv /\ Next => ReassemblyTypeOK' /\ CfsOpen'
<1> SUFFICES ASSUME TypeInv, Next PROVE ReassemblyTypeOK' /\ CfsOpen'
  OBVIOUS
<1> USE DEF TypeInv, TypeOK, ReassemblyTypeOK, CfsOpen, rx_vars
<1>1. CASE FwdSingleFrame
  BY <1>1, FrameKinds
  DEF FwdSingleFrame, Fwd, Read, RespondOrDone, ChannelTypeOK
<1>2. CASE \E ok \in BOOLEAN : FwdFirstFrame(ok)
  <2>1. Head(can_rx) \in Frame /\ Head(can_rx).pci = "FF"
    BY <1>2 DEF FwdFirstFrame, Read, ChannelTypeOK
  <2>2. Head(can_rx).cfs \in Nat \ {0} /\ Head(can_rx).data \in Chunk
    BY <2>1, FrameKinds
  <2>3. 1 \in 0 .. SeqMod - 1
    BY GatewayAssumption
  <2> QED
    BY <1>2, <2>2, <2>3 DEF FwdFirstFrame
<1>3. CASE FwdConsecutiveFrame
  <2>1. Head(can_rx) \in Frame /\ Head(can_rx).pci = "CF"
    BY <1>3 DEF FwdConsecutiveFrame, Read, ChannelTypeOK
  <2>2. Head(can_rx).data \in Chunk
    BY <2>1, FrameKinds
  <2>3. expected_seq_num' \in 0 .. SeqMod - 1
    BY <1>3, NextSeqType DEF FwdConsecutiveFrame
  <2>4. cfs_due' \in Nat /\ CfsOpen'
    BY <1>3 DEF FwdConsecutiveFrame, Fwd, RespondOrDone
  <2> QED
    BY <1>3, <2>2, <2>3, <2>4 DEF FwdConsecutiveFrame
<1>4. CASE FwdLoop \/ FwdTimeout \/ FwdFlowControl \/ FwdStray
             \/ FwdUnexpected \/ FwdCfTimeout \/ FwdBeginWrite \/ FwdEndWrite
             \/ FwdWriteFails
  BY <1>4 DEF Fwd, LoopOrDone, FwdLoop, FwdTimeout, FwdFlowControl, FwdStray,
       FwdUnexpected, FwdCfTimeout, FwdBeginWrite, FwdEndWrite, FwdWriteFails
<1>5. CASE MainStep
  BY <1>5 DEF MainStep, Main, OpenSession, SetupFails, Teardown, Join,
       CloseSession, LoopHead, ReceiveMessage, ConnectionLost,
       BeginRoutingReply, EndRoutingReply, BeginAck, EndAck, BeginReply,
       EndReply, SendSingleFrame, SendFirstFrame, TakeFlowControl,
       FlowControlTimeout, SendConsecutiveFrame, AbortTransfer
<1>6. CASE Accept \/ TesterStep \/ \E f \in Frame : BusDelivers(f)
  BY <1>6 DEF Accept, TesterStep, TesterSends, TesterCloses, BusDelivers
<1> QED
  BY <1>1, <1>2, <1>3, <1>4, <1>5, <1>6 DEF Next, ForwarderStep

\* Only these actions move a frame into or out of fc_frame_queue.
LEMMA QueueTypeStep ==
  fc_frame_queue \in Seq(FlowFrame) /\ can_rx \in Seq(Frame) /\ Next
    => fc_frame_queue' \in Seq(FlowFrame)
<1> SUFFICES ASSUME fc_frame_queue \in Seq(FlowFrame), can_rx \in Seq(Frame),
                    Next
             PROVE  fc_frame_queue' \in Seq(FlowFrame)
  OBVIOUS
<1>1. CASE TakeFlowControl
  BY <1>1 DEF TakeFlowControl
<1>2. CASE FwdFlowControl
  <2>1. Head(can_rx) \in Frame /\ Head(can_rx).pci = "FC"
    BY <1>2 DEF FwdFlowControl, Read
  <2>2. Head(can_rx) \in FlowFrame
    BY <2>1, FrameKinds
  <2> QED
    BY <1>2, <2>2 DEF FwdFlowControl
<1>3. CASE ~TakeFlowControl /\ ~FwdFlowControl
  BY <1>3 DEF Next, MainStep, ForwarderStep, TesterStep, Accept, OpenSession,
       SetupFails, Teardown, CloseSession, LoopHead, ReceiveMessage,
       ConnectionLost, BeginRoutingReply, EndRoutingReply, BeginAck, EndAck,
       BeginReply, EndReply, SendSingleFrame, SendFirstFrame,
       FlowControlTimeout, SendConsecutiveFrame, AbortTransfer, FwdLoop,
       FwdTimeout, FwdStray, FwdSingleFrame, FwdFirstFrame,
       FwdConsecutiveFrame, FwdUnexpected, FwdCfTimeout, FwdBeginWrite,
       FwdEndWrite, FwdWriteFails, TesterSends, TesterCloses, BusDelivers
<1> QED
  BY <1>1, <1>2, <1>3

\* Only the tester puts messages into client_rx.
LEMMA ClientTypeStep ==
  client_rx \in Seq(DoipMessage) /\ msgs \in Nat /\ Next
    => client_rx' \in Seq(DoipMessage) /\ msgs' \in Nat
<1> SUFFICES ASSUME client_rx \in Seq(DoipMessage), msgs \in Nat, Next
             PROVE  client_rx' \in Seq(DoipMessage) /\ msgs' \in Nat
  OBVIOUS
<1>1. CASE TesterStep
  <2>1. CASE TesterCloses
    BY <2>1 DEF TesterCloses
  <2>2. ASSUME NEW type \in {"diag", "routing", "other"}, NEW cfs \in Nat,
               TesterSends(type, cfs)
        PROVE  client_rx' \in Seq(DoipMessage) /\ msgs' \in Nat
    <3>1. msgs' \in Nat
      BY <2>2 DEF TesterSends
    <3>2. [type |-> type, id |-> msgs', cfs |-> cfs] \in DoipMessage
      BY <3>1 DEF DoipMessage
    <3> QED
      BY <2>2, <3>1, <3>2 DEF TesterSends
  <2> QED
    BY <1>1, <2>1, <2>2, GatewayAssumption DEF TesterStep
<1>2. CASE ReceiveMessage \/ Accept \/ SetupFails \/ CloseSession
  <2>1. /\ UNCHANGED msgs
        /\ \/ client_rx # <<>> /\ client_rx' = Tail(client_rx)
           \/ client_rx' = <<>>
    BY <1>2 DEF ReceiveMessage, Accept, SetupFails, CloseSession
  <2>2. <<>> \in Seq(DoipMessage)
    OBVIOUS
  <2>3. client_rx # <<>> => Tail(client_rx) \in Seq(DoipMessage)
    OBVIOUS
  <2> QED
    BY <2>1, <2>2, <2>3
<1>3. CASE ~(TesterStep \/ ReceiveMessage \/ Accept \/ SetupFails
               \/ CloseSession)
  BY <1>3 DEF Next, MainStep, ForwarderStep, OpenSession, Teardown, LoopHead,
       ConnectionLost, BeginRoutingReply, EndRoutingReply, BeginAck, EndAck,
       BeginReply, EndReply, SendSingleFrame, SendFirstFrame, TakeFlowControl,
       FlowControlTimeout, SendConsecutiveFrame, AbortTransfer, FwdLoop,
       FwdTimeout, FwdFlowControl, FwdStray, FwdSingleFrame, FwdFirstFrame,
       FwdConsecutiveFrame, FwdUnexpected, FwdCfTimeout, FwdBeginWrite,
       FwdEndWrite, FwdWriteFails, BusDelivers, client_vars
<1> QED
  BY <1>1, <1>2, <1>3

\* A log of messages stays one.
LEMMA Extended ==
  ASSUME NEW S, NEW s \in Seq(S), NEW r \in S
  PROVE  Append(s, r) \in Seq(S)
  OBVIOUS

\* Only the ends of write() add to the log of the tester's socket.
LEMMA ReplyTypeStep ==
  to_tester \in Seq(Reply \cup Response) /\ cur.id \in Nat
    /\ uds_rx_buffer \in Seq(Chunk) /\ Next
    => to_tester' \in Seq(Reply \cup Response)
<1> SUFFICES ASSUME to_tester \in Seq(Reply \cup Response), cur.id \in Nat,
                    uds_rx_buffer \in Seq(Chunk), Next
             PROVE  to_tester' \in Seq(Reply \cup Response)
  OBVIOUS
<1>0. Refused(cur.id) \in Reply
  BY ReplyTypes
<1>1. CASE EndRoutingReply
  <2>1. [type |-> "routing_ok", id |-> cur.id] \in Reply
    BY ReplyTypes
  <2>2. \/ to_tester' = Append(to_tester, [type |-> "routing_ok", id |-> cur.id])
        \/ to_tester' = Append(to_tester, Refused(cur.id))
    BY <1>1 DEF EndRoutingReply, EndReply, EndWrite
  <2>3. [type |-> "routing_ok", id |-> cur.id] \in Reply \cup Response
    BY <2>1
  <2>4. Refused(cur.id) \in Reply \cup Response
    BY <1>0
  <2> QED
    BY <2>2, <2>3, <2>4, Extended
<1>2. CASE EndAck
  <2>1. Ack(cur.id) \in Reply
    BY ReplyTypes
  <2>2. to_tester' = Append(to_tester, Ack(cur.id))
        \/ to_tester' = Append(to_tester, Refused(cur.id))
    BY <1>2 DEF EndAck, EndReply, EndWrite, Ack
  <2>3. Ack(cur.id) \in Reply \cup Response /\ Refused(cur.id) \in Reply \cup Response
    BY <1>0, <2>1
  <2> QED
    BY <2>2, <2>3, Extended
<1>3. CASE FwdEndWrite
  <2>1. DoipResponse(uds_rx_buffer) \in Response
    BY ReplyTypes
  <2> QED
    BY <1>3, <2>1 DEF FwdEndWrite, EndWrite
<1>4. CASE ~(EndRoutingReply \/ EndAck \/ FwdEndWrite)
  BY <1>4 DEF Next, MainStep, ForwarderStep, TesterStep, Accept, OpenSession,
       SetupFails, Teardown, CloseSession, LoopHead, ReceiveMessage,
       ConnectionLost, BeginRoutingReply, BeginAck, BeginReply, BeginWrite,
       SendSingleFrame, SendFirstFrame, TakeFlowControl, FlowControlTimeout,
       SendConsecutiveFrame, AbortTransfer, FwdLoop, FwdTimeout,
       FwdFlowControl, FwdStray, FwdSingleFrame, FwdFirstFrame,
       FwdConsecutiveFrame, FwdUnexpected, FwdCfTimeout, FwdBeginWrite,
       FwdWriteFails, TesterSends, TesterCloses, BusDelivers
<1> QED
  BY <1>1, <1>2, <1>3, <1>4

\* The CAN socket's buffer: filled by the bus, drained by the forwarder.
LEMMA CanRxTypeStep ==
  can_rx \in Seq(Frame) /\ Next => can_rx' \in Seq(Frame)
<1> SUFFICES ASSUME can_rx \in Seq(Frame), Next PROVE can_rx' \in Seq(Frame)
  OBVIOUS
<1>1. CASE \E f \in Frame : BusDelivers(f)
  BY <1>1 DEF BusDelivers
<1>2. CASE ForwarderStep
  <2>1. can_rx' = can_rx \/ (can_rx # <<>> /\ can_rx' = Tail(can_rx))
    BY <1>2 DEF ForwarderStep, FwdLoop, FwdTimeout, FwdFlowControl, FwdStray,
         FwdSingleFrame, FwdFirstFrame, FwdConsecutiveFrame, FwdUnexpected,
         FwdCfTimeout, FwdBeginWrite, FwdEndWrite, FwdWriteFails, Read, can_vars
  <2> QED
    BY <2>1
<1>3. CASE Accept \/ MainStep \/ TesterStep
  <2>1. can_rx' = can_rx \/ can_rx' = <<>>
    BY <1>3 DEF MainStep, TesterStep, Accept, OpenSession, SetupFails, Teardown,
         CloseSession, LoopHead, ReceiveMessage, ConnectionLost,
         BeginRoutingReply, EndRoutingReply, BeginAck, EndAck, BeginReply,
         EndReply, SendSingleFrame, SendFirstFrame, TakeFlowControl,
         FlowControlTimeout, SendConsecutiveFrame, AbortTransfer, TesterSends,
         TesterCloses, can_vars
  <2>2. <<>> \in Seq(Frame)
    OBVIOUS
  <2> QED
    BY <2>1, <2>2
<1> QED
  BY <1>1, <1>2, <1>3 DEF Next

\* The actions that put a frame on the bus.
BusWrites ==
  \/ \E ok \in BOOLEAN : SendSingleFrame(ok)
  \/ \E ok \in BOOLEAN : SendFirstFrame(ok)
  \/ SendConsecutiveFrame
  \/ \E ok \in BOOLEAN : FwdFirstFrame(ok)

\* Every other step leaves the bus as it is.
LEMMA BusFootprint == Next /\ ~BusWrites => UNCHANGED bus
  BY DEF Next, MainStep, ForwarderStep, TesterStep, BusWrites, Accept,
     OpenSession, SetupFails, Teardown, CloseSession, LoopHead, ReceiveMessage,
     ConnectionLost, BeginRoutingReply, EndRoutingReply, BeginAck, EndAck,
     BeginReply, EndReply, TakeFlowControl, FlowControlTimeout, AbortTransfer,
     CanWrite, FwdLoop, FwdTimeout, FwdFlowControl, FwdStray, FwdSingleFrame,
     FwdConsecutiveFrame, FwdUnexpected, FwdCfTimeout, FwdBeginWrite,
     FwdEndWrite, FwdWriteFails, TesterSends, TesterCloses, BusDelivers

\* What is put on the bus are frames.
LEMMA BusTypeStep ==
  bus \in Seq(Frame) /\ can_rx \in Seq(Frame) /\ TransferTypeOK /\ Next
    => bus' \in Seq(Frame)
<1> SUFFICES ASSUME bus \in Seq(Frame), can_rx \in Seq(Frame),
                    TransferTypeOK, Next
             PROVE  bus' \in Seq(Frame)
  OBVIOUS
<1>1. cur.id \in Nat /\ cur.cfs \in Nat /\ sent + 1 \in Nat
  BY DEF TransferTypeOK, DoipMessage
<1>2. CASE \E ok \in BOOLEAN : SendSingleFrame(ok)
  <2>1. SF(cur.id) \in Frame
    BY <1>1 DEF SF, Frame, SingleFrame, Chunk
  <2> QED
    BY <1>2, <2>1 DEF SendSingleFrame, CanWrite
<1>3. CASE \E ok \in BOOLEAN : SendFirstFrame(ok)
  <2>1. cur.cfs > 0
    BY <1>3 DEF SendFirstFrame
  <2>2. FF(cur.id, cur.cfs) \in Frame
    BY <1>1, <2>1 DEF FF, Frame, FirstFrame, Chunk
  <2> QED
    BY <1>3, <2>2 DEF SendFirstFrame, CanWrite
<1>4. CASE SendConsecutiveFrame
  <2>1. CF(cur.id, sent + 1, seq_num) \in Frame
    BY <1>1 DEF CF, Frame, ConsFrame, Chunk, TransferTypeOK
  <2> QED
    BY <1>4, <2>1 DEF SendConsecutiveFrame, CanWrite
<1>5. CASE \E ok \in BOOLEAN : FwdFirstFrame(ok)
  <2>1. Head(can_rx) \in Frame /\ Head(can_rx).pci = "FF"
    BY <1>5 DEF FwdFirstFrame, Read
  <2>2. Head(can_rx).data[1] \in Nat
    BY <2>1, FrameKinds
  <2>3. FC("CTS", 0, Head(can_rx).data[1]) \in Frame
    BY <2>2 DEF FC, Frame, FlowFrame, FlowStatus
  <2> QED
    BY <1>5, <2>3 DEF FwdFirstFrame, CanWrite
<1> QED
  BY <1>2, <1>3, <1>4, <1>5, BusFootprint DEF BusWrites

\* Together: one step keeps every type.
LEMMA TypeStep == TypeInv /\ [Next]_vars => TypeInv'
<1> SUFFICES ASSUME TypeInv, [Next]_vars PROVE TypeInv'
  OBVIOUS
<1>1. CASE Next
  <2>1. cur.id \in Nat /\ uds_rx_buffer \in Seq(Chunk)
    BY DEF TypeInv, TypeOK, TransferTypeOK, ReassemblyTypeOK, DoipMessage
  <2>2. ChannelTypeOK'
    BY <1>1, <2>1, QueueTypeStep, ClientTypeStep, ReplyTypeStep, CanRxTypeStep,
       BusTypeStep DEF TypeInv, TypeOK, ChannelTypeOK
  <2> QED
    BY <1>1, <2>2, ThreadTypeStep, TransferTypeStep, ReassemblyTypeStep
    DEF TypeInv, TypeOK
<1>2. CASE UNCHANGED vars
  BY <1>2 DEF TypeInv, TypeOK, BlockOpen, CfsOpen, ThreadTypeOK, ChannelTypeOK,
       TransferTypeOK, ReassemblyTypeOK, vars, client_vars, can_vars, tx_vars,
       rx_vars
<1> QED
  BY <1>1, <1>2

\* The gateway's variables keep to their types in every behaviour.
THEOREM TypeCorrect == Spec => []TypeOK
<1>1. TypeInv => TypeOK
  BY DEF TypeInv
<1> QED
  BY TypeInit, TypeStep, <1>1, PTL DEF Spec

-----------------------------------------------------------------------------
(* The two threads and their sockets *)

\* The mutex is held by whoever is writing.
MainHolds == MainWrites <=> client_socket_mutex = "main"
FwdHolds  == FwdWrites <=> client_socket_mutex = "fwd"

\* The forwarder lives from OpenSession to CloseSession, and the CAN socket at
\* least as long; the tester's socket is open while main is in the session.
FwdLives  == fpc = "none" <=> mpc \in {"accept", "setup"}
CanLives  == fpc # "none" => can_open
PeerLives == peer = "none" <=> mpc = "accept"

SyncInv ==
  /\ MainHolds /\ FwdHolds
  /\ FwdLives /\ CanLives /\ PeerLives
  /\ ForwarderServesSession

\* At the start no thread but main runs.
LEMMA SyncInit == Init => SyncInv
  BY DEF Init, SyncInv, MainHolds, FwdHolds, FwdLives, CanLives, PeerLives,
     MainWrites, FwdWrites, ForwarderServesSession

\* Every step of main keeps them so.
LEMMA SyncMain == ThreadTypeOK /\ SyncInv /\ MainStep => SyncInv'
<1> SUFFICES ASSUME ThreadTypeOK, SyncInv, MainStep PROVE SyncInv'
  OBVIOUS
<1> USE DEF MainStep, Main, OpenSession, SetupFails, Teardown, Join,
       CloseSession, LoopHead, ReceiveMessage, Dispatch, ConnectionLost,
       BeginRoutingReply, EndRoutingReply, BeginAck, EndAck, BeginReply,
       EndReply, SendSingleFrame, SendFirstFrame, TakeFlowControl,
       FlowControlTimeout, SendConsecutiveFrame, AbortTransfer,
       BeginWrite, EndWrite, ThreadTypeOK, MainPC, SyncInv, client_vars,
       can_vars
<1>1. MainHolds'
  BY DEF MainHolds, MainWrites
<1>2. FwdHolds'
  <2>1. \/ UNCHANGED client_socket_mutex
        \/ client_socket_mutex = "free" /\ client_socket_mutex' = "main"
        \/ client_socket_mutex = "main" /\ client_socket_mutex' = "free"
    BY DEF MainHolds, MainWrites
  <2>2. FwdWrites' <=> FwdWrites
    BY DEF FwdWrites, FwdLives
  <2> QED
    BY <2>1, <2>2 DEF FwdHolds
<1>3. FwdLives'
  BY DEF FwdLives
<1>4. CanLives'
  BY <1>3 DEF CanLives, FwdLives
<1>5. PeerLives'
  BY DEF PeerLives
<1>6. ForwarderServesSession'
  BY DEF ForwarderServesSession
<1> QED
  BY <1>1, <1>2, <1>3, <1>4, <1>5, <1>6

\* And every step of the forwarder.
LEMMA SyncForwarder == ThreadTypeOK /\ SyncInv /\ ForwarderStep => SyncInv'
<1> SUFFICES ASSUME ThreadTypeOK, SyncInv, ForwarderStep PROVE SyncInv'
  OBVIOUS
<1> USE DEF ForwarderStep, Fwd, LoopOrDone, RespondOrDone, Read, FwdLoop,
       FwdTimeout, FwdFlowControl, FwdStray, FwdSingleFrame, FwdFirstFrame,
       FwdConsecutiveFrame, FwdUnexpected, FwdCfTimeout, FwdBeginWrite,
       FwdEndWrite, FwdWriteFails,
       BeginWrite, EndWrite, ThreadTypeOK, FwdPC, SyncInv, client_vars,
       can_vars
<1>1. MainHolds'
  BY DEF MainHolds, FwdHolds, MainWrites, FwdWrites
<1>2. FwdHolds'
  BY DEF FwdHolds, FwdWrites
<1>3. FwdLives'
  BY DEF FwdLives
<1>4. CanLives'
  BY DEF CanLives
<1>5. PeerLives'
  BY DEF PeerLives
<1>6. ForwarderServesSession'
  BY DEF ForwarderServesSession
<1> QED
  BY <1>1, <1>2, <1>3, <1>4, <1>5, <1>6

\* And the tester, the bus and a new connection.
LEMMA SyncStep == ThreadTypeOK /\ SyncInv /\ [Next]_vars => SyncInv'
<1> SUFFICES ASSUME ThreadTypeOK, SyncInv, [Next]_vars PROVE SyncInv'
  OBVIOUS
<1> USE DEF MainHolds, FwdHolds, FwdLives, CanLives, PeerLives, MainWrites,
            FwdWrites, ForwarderServesSession, SyncInv, client_vars, can_vars
<1>1. CASE Accept
  BY <1>1 DEF Accept, Main
<1>2. CASE TesterStep
  <2>1. /\ UNCHANGED <<mpc, fpc, session_active, client_socket_mutex, can_open>>
        /\ peer # "none" /\ peer' # "none"
    BY <1>2 DEF TesterStep, TesterSends, TesterCloses
  <2> QED
    BY <2>1
<1>3. CASE (\E f \in Frame : BusDelivers(f)) \/ UNCHANGED vars
  <2>1. UNCHANGED <<mpc, fpc, session_active, client_socket_mutex, can_open,
                    peer>>
    BY <1>3 DEF BusDelivers, vars
  <2> QED
    BY <2>1
<1> QED
  BY <1>1, <1>2, <1>3, SyncMain, SyncForwarder DEF Next

\* The two threads never write to the tester at once, the forwarder never uses
\* a closed descriptor, and it never leaves a session main goes on serving.
THEOREM ThreadsSynchronised ==
  Spec => [](WriteMutex /\ SocketLifetime /\ ForwarderServesSession)
<1>1. SyncInv => WriteMutex /\ SocketLifetime /\ ForwarderServesSession
  BY DEF SyncInv, MainHolds, FwdHolds, FwdLives, CanLives, PeerLives,
     WriteMutex, SocketLifetime
<1>2. TypeInv => ThreadTypeOK
  BY DEF TypeInv, TypeOK
<1> QED
  BY TypeInit, TypeStep, SyncInit, SyncStep, <1>1, <1>2, PTL DEF Spec

\* Of these, that the forwarder never reads or writes a descriptor main has closed,
\* which may be the next session's by then.
COROLLARY SocketsOutliveForwarder == Spec => []SocketLifetime
BY ThreadsSynchronised, PTL

\* And that a session main serves has its forwarder, whatever write failed in it.
COROLLARY SessionsKeepForwarder == Spec => []ForwarderServesSession
BY ThreadsSynchronised, PTL

-----------------------------------------------------------------------------
(* Acknowledge first, transmit after *)

\* From the end of the acknowledgement's write to the end of isotp_send, the log has it:
\* as written, unless the tester has reset the connection.
AckTried(m) == Acked(m) \/ AckRefused(m)
AckInv ==
  /\ AckPrecedesFrames
  /\ mpc \in {"send", "wait_fc", "block"} => AckTried(cur.id)

\* At the start the bus carries nothing.
LEMMA AckInit == Init => AckInv
  BY DEF Init, AckInv, AckPrecedesFrames

\* No step takes anything from the log of the tester's socket.
LEMMA LogStays ==
  ASSUME TypeInv, [Next]_vars, NEW j \in DOMAIN to_tester
  PROVE  j \in DOMAIN to_tester' /\ to_tester'[j] = to_tester[j]
<1>1. to_tester \in Seq(Reply \cup Response)
  BY DEF TypeInv, TypeOK, ChannelTypeOK
<1>2. to_tester' = to_tester \/ \E r : to_tester' = Append(to_tester, r)
  BY DEF Next, MainStep, ForwarderStep, TesterStep, Accept, OpenSession,
     SetupFails, Teardown, CloseSession, LoopHead, ReceiveMessage,
     ConnectionLost, BeginRoutingReply, EndRoutingReply, BeginAck, EndAck,
     BeginReply, EndReply, BeginWrite, EndWrite, SendSingleFrame,
     SendFirstFrame, TakeFlowControl, FlowControlTimeout, SendConsecutiveFrame,
     AbortTransfer, FwdLoop, FwdTimeout, FwdFlowControl, FwdStray,
     FwdSingleFrame, FwdFirstFrame, FwdConsecutiveFrame, FwdUnexpected,
     FwdCfTimeout, FwdBeginWrite, FwdEndWrite, FwdWriteFails, TesterSends,
     TesterCloses, BusDelivers, vars
<1> QED
  BY <1>1, <1>2

\* So what was acknowledged, or refused, stays so.
LEMMA AckedStays ==
  ASSUME TypeInv, [Next]_vars, NEW m
  PROVE  /\ Acked(m) => \E j \in DOMAIN to_tester' : to_tester'[j] = Ack(m)
         /\ AckRefused(m) => \E j \in DOMAIN to_tester' : to_tester'[j] = Refused(m)
  BY LogStays DEF Acked, AckRefused

\* EndAck acknowledges cur, or the connection refuses it.
LEMMA EndAckAcks ==
  ASSUME TypeInv, EndAck
  PROVE  /\ cur' = cur /\ peer' = peer
         /\ Acked(cur.id)' \/ AckRefused(cur.id)'
         /\ peer # "reset" => Acked(cur.id)'
<1> DEFINE reply == IF peer = "reset" THEN Refused(cur.id) ELSE Ack(cur.id)
<1>1. to_tester \in Seq(Reply \cup Response)
  BY DEF TypeInv, TypeOK, ChannelTypeOK
<1>2. to_tester' = Append(to_tester, reply) /\ cur' = cur /\ peer' = peer
  BY DEF EndAck, EndReply, EndWrite, tx_vars, client_vars, Ack
<1>3. to_tester'[Len(to_tester) + 1] = reply
  BY <1>1, <1>2
<1>4. Len(to_tester) + 1 \in DOMAIN to_tester'
  BY <1>1, <1>2
<1> QED
  BY <1>2, <1>3, <1>4 DEF Acked, AckRefused, Ack, Refused

\* main's frames carry cur.id, and are sent inside isotp_send.
LEMMA BusAppends ==
  ASSUME [Next]_vars, bus' # bus
  PROVE  \E f : /\ bus' = Append(bus, f)
                /\ f.pci # "FC" => /\ mpc \in {"send", "wait_fc", "block"}
                                   /\ f.data[1] = cur.id
<1>1. CASE \E ok \in BOOLEAN : SendSingleFrame(ok)
  BY <1>1 DEF SendSingleFrame, Main, CanWrite, SF
<1>2. CASE \E ok \in BOOLEAN : SendFirstFrame(ok)
  BY <1>2 DEF SendFirstFrame, Main, CanWrite, FF
<1>3. CASE SendConsecutiveFrame
  BY <1>3 DEF SendConsecutiveFrame, CanWrite, CF
<1>4. CASE \E ok \in BOOLEAN : FwdFirstFrame(ok)
  BY <1>4 DEF FwdFirstFrame, CanWrite, FC
<1> QED
  BY <1>1, <1>2, <1>3, <1>4, BusFootprint DEF BusWrites, vars

\* Only the end of the acknowledgement leads main to isotp_send.
LEMMA EntersIsotpSend ==
  ASSUME [Next]_vars, ~EndAck, mpc' \in {"send", "wait_fc", "block"}
  PROVE  /\ mpc \in {"send", "wait_fc", "block"} /\ cur' = cur
         /\ peer' # "reset" => peer # "reset"
<1>1. CASE MainStep
  BY <1>1 DEF MainStep, Main, OpenSession, SetupFails, Teardown, CloseSession,
       LoopHead, ReceiveMessage, Dispatch, ConnectionLost, BeginRoutingReply,
       EndRoutingReply, BeginAck, BeginReply, EndReply, SendSingleFrame,
       SendFirstFrame, TakeFlowControl, FlowControlTimeout,
       SendConsecutiveFrame, AbortTransfer, tx_vars, client_vars
<1>2. CASE ForwarderStep
  BY <1>2 DEF ForwarderStep, FwdLoop, FwdTimeout, FwdFlowControl, FwdStray,
       FwdSingleFrame, FwdFirstFrame, FwdConsecutiveFrame, FwdUnexpected,
       FwdCfTimeout, FwdBeginWrite, FwdEndWrite, FwdWriteFails, tx_vars,
       client_vars
<1>3. CASE Accept \/ TesterStep \/ (\E f \in Frame : BusDelivers(f))
             \/ UNCHANGED vars
  BY <1>3 DEF Accept, Main, TesterStep, TesterSends, TesterCloses, BusDelivers,
       vars, tx_vars, client_vars
<1> QED
  BY <1>1, <1>2, <1>3 DEF Next

\* Every step keeps every frame behind its acknowledgement.
LEMMA AckStep == TypeInv /\ AckInv /\ [Next]_vars => AckInv'
<1> SUFFICES ASSUME TypeInv, AckInv, [Next]_vars PROVE AckInv'
  OBVIOUS
<1>1. \A m : AckTried(m) =>
        \E j \in DOMAIN to_tester' : to_tester'[j] \in {Ack(m), Refused(m)}
  BY AckedStays DEF AckTried
<1>2. (mpc \in {"send", "wait_fc", "block"} =>
         AckTried(cur.id) /\ (peer # "reset" => Acked(cur.id)))'
  <2>1. CASE EndAck
    BY <2>1, EndAckAcks DEF AckTried, Acked, AckRefused, Ack, Refused
  <2>2. CASE ~EndAck /\ mpc' \in {"send", "wait_fc", "block"}
    <3>1. /\ mpc \in {"send", "wait_fc", "block"} /\ cur' = cur
          /\ peer' # "reset" => peer # "reset"
      BY <2>2, EntersIsotpSend
    <3>2. AckTried(cur.id) /\ (peer' # "reset" => Acked(cur.id))
      BY <3>1 DEF AckInv, AckPrecedesFrames
    <3>3. \E j \in DOMAIN to_tester' : to_tester'[j] \in {Ack(cur.id), Refused(cur.id)}
      BY <1>1, <3>2
    <3>4. Acked(cur.id) => \E j \in DOMAIN to_tester' : to_tester'[j] = Ack(cur.id)
      BY AckedStays
    <3> QED
      BY <3>1, <3>2, <3>3, <3>4 DEF AckTried, Acked, AckRefused, Ack, Refused
  <2> QED
    BY <2>1, <2>2
<1>3. (\A i \in DOMAIN bus : bus[i].pci # "FC" => AckTried(bus[i].data[1]))'
  <2> SUFFICES ASSUME NEW i \in DOMAIN bus', bus'[i].pci # "FC"
               PROVE  \E j \in DOMAIN to_tester' :
                        to_tester'[j] \in {Ack(bus'[i].data[1]), Refused(bus'[i].data[1])}
    BY DEF AckTried, Acked, AckRefused, Ack, Refused
  <2>1. AckTried(bus'[i].data[1])
    <3>1. CASE i \in DOMAIN bus /\ bus'[i] = bus[i]
      BY <3>1 DEF AckInv, AckPrecedesFrames, AckTried
    <3>2. CASE ~(i \in DOMAIN bus /\ bus'[i] = bus[i])
      <4>1. bus' # bus
        BY <3>2
      <4>2. PICK f : /\ bus' = Append(bus, f)
                     /\ f.pci # "FC" => /\ mpc \in {"send", "wait_fc", "block"}
                                        /\ f.data[1] = cur.id
        BY <4>1, BusAppends
      <4>3. bus \in Seq(Frame)
        BY DEF TypeInv, TypeOK, ChannelTypeOK
      <4>4. bus'[i] = f
        BY <3>2, <4>2, <4>3
      <4> QED
        BY <4>2, <4>4 DEF AckInv
    <3> QED
      BY <3>1, <3>2
  <2> QED
    BY <1>1, <2>1
<1> QED
  BY <1>2, <1>3 DEF AckInv, AckPrecedesFrames, AckTried

\* A UDS request reaches the CAN bus only after its 0x8002 was written, or was refused
\* by a connection the tester had reset: main sends the request all the same.
THEOREM AcknowledgedFirst == Spec => []AckPrecedesFrames
<1>1. AckInv => AckPrecedesFrames
  BY DEF AckInv
<1> QED
  BY TypeInit, TypeStep, AckInit, AckStep, <1>1, PTL DEF Spec

-----------------------------------------------------------------------------
(* Segmentation *)

\* Multiples of M lie M apart.
LEMMA MultiplesApart ==
  ASSUME NEW M \in Nat, NEW p \in Int, NEW q \in Int, p < q
  PROVE  M * p + M <= M * q
<1>1. PICK d \in Nat : q = p + 1 + d
  <2>1. q - p - 1 \in Nat /\ q = p + 1 + (q - p - 1)
    OBVIOUS
  <2> QED
    BY <2>1
<1>2. M * q = M * p + M + M * d
  BY <1>1
<1>3. M * d \in Nat
  OBVIOUS
<1> QED
  BY <1>2, <1>3

\* Division leaves one remainder.
LEMMA RemainderUnique ==
  ASSUME NEW M \in Nat \ {0}, NEW p \in Int, NEW q \in Int,
         NEW r \in 0 .. M - 1, NEW s \in 0 .. M - 1, M * p + r = M * q + s
  PROVE  r = s
<1>1. CASE p < q
  BY <1>1, MultiplesApart
<1>2. CASE q < p
  BY <1>2, MultiplesApart
<1> QED
  BY <1>1, <1>2

\* Counting modulo M and reducing afterwards agree.
LEMMA ModSucc ==
  ASSUME NEW M \in Nat \ {0, 1}, NEW a \in Nat
  PROVE  ((a % M) + 1) % M = (a + 1) % M
<1> DEFINE q == a \div M
           r == a % M
           p == (a + 1) \div M
           s == (a + 1) % M
<1>1. a = M * q + r /\ r \in 0 .. M - 1 /\ q \in Int
  OBVIOUS
<1>2. a + 1 = M * p + s /\ s \in 0 .. M - 1 /\ p \in Int
  OBVIOUS
<1> HIDE DEF q, r, p, s
<1>3. CASE r + 1 < M
  <2>1. r + 1 \in 0 .. M - 1 /\ M * q + (r + 1) = M * p + s
    BY <1>1, <1>2, <1>3
  <2>2. s = r + 1
    BY <2>1, <1>1, <1>2, RemainderUnique
  <2>3. (r + 1) % M = r + 1
    BY <2>1
  <2> QED
    BY <2>2, <2>3 DEF r, s
<1>4. CASE r + 1 = M
  <2>1. 0 \in 0 .. M - 1 /\ M * (q + 1) + 0 = M * p + s
    BY <1>1, <1>2, <1>4
  <2>2. s = 0
    BY <2>1, <1>1, <1>2, RemainderUnique
  <2>3. (r + 1) % M = 0
    BY <1>4
  <2> QED
    BY <2>2, <2>3 DEF r, s
<1> QED
  BY <1>1, <1>3, <1>4

\* While main is in a transfer, the next consecutive frame would follow the
\* last segment on the bus and carry the number it should.
SegInv ==
  /\ SegmentsInOrder
  /\ mpc \in {"wait_fc", "block"} =>
       /\ sent < cur.cfs
       /\ seq_num = (sent + 1) % SeqMod
       /\ Follows(Len(bus) + 1, cur.id, sent + 1)

\* At the start no transfer is under way.
LEMMA SegInit == Init => SegInv
  BY DEF Init, SegInv, SegmentsInOrder

\* A transfer starts, or goes on, only in these actions.
LEMMA EntersTransfer ==
  ASSUME [Next]_vars, ~\E ok \in BOOLEAN : SendFirstFrame(ok),
         ~SendConsecutiveFrame, mpc' \in {"wait_fc", "block"}
  PROVE  mpc \in {"wait_fc", "block"} /\ UNCHANGED <<cur, sent, seq_num>>
<1>1. CASE MainStep
  BY <1>1 DEF MainStep, Main, OpenSession, SetupFails, Teardown, CloseSession,
       LoopHead, ReceiveMessage, Dispatch, ConnectionLost, BeginRoutingReply,
       EndRoutingReply, BeginAck, EndAck, BeginReply, EndReply,
       SendSingleFrame, TakeFlowControl, FlowControlTimeout, AbortTransfer,
       tx_vars
<1>2. CASE ForwarderStep
  BY <1>2 DEF ForwarderStep, FwdLoop, FwdTimeout, FwdFlowControl, FwdStray,
       FwdSingleFrame, FwdFirstFrame, FwdConsecutiveFrame, FwdUnexpected,
       FwdCfTimeout, FwdBeginWrite, FwdEndWrite, FwdWriteFails, tx_vars
<1>3. CASE Accept \/ TesterStep \/ (\E f \in Frame : BusDelivers(f))
             \/ UNCHANGED vars
  BY <1>3 DEF Accept, Main, TesterStep, TesterSends, TesterCloses, BusDelivers,
       vars, tx_vars
<1> QED
  BY <1>1, <1>2, <1>3 DEF Next

\* The first frame opens the sequence.
LEMMA SegFirst ==
  ASSUME TypeInv, NEW ok \in BOOLEAN, SendFirstFrame(ok)
  PROVE  /\ sent' < cur'.cfs
         /\ seq_num' = (sent' + 1) % SeqMod
         /\ Follows(Len(bus) + 1, cur.id, sent + 1)'
<1>1. cur' = cur /\ cur.cfs > 0 /\ sent' = 0 /\ seq_num' = 1
  BY DEF SendFirstFrame, StartTransfer
<1>2. 1 % SeqMod = 1
  BY GatewayAssumption
<1>3. Follows(Len(bus) + 1, cur.id, sent + 1)'
  <2>1. CASE ok
    <3>1. bus \in Seq(Frame) /\ bus' = Append(bus, FF(cur.id, cur.cfs))
      BY <2>1 DEF SendFirstFrame, CanWrite, TypeInv, TypeOK, ChannelTypeOK
    <3>2. Len(bus') = Len(bus) + 1 /\ bus'[Len(bus')] = FF(cur.id, cur.cfs)
      BY <3>1
    <3>3. Precedes(bus'[Len(bus')], cur.id, 1)
      BY <1>1, <3>2 DEF Precedes, FF, TypeInv, TypeOK, TransferTypeOK,
           DoipMessage
    <3> QED
      BY <1>1, <3>1, <3>2, <3>3 DEF Follows, Precedes
  <2>2. CASE ~ok
    BY <1>1, <2>2 DEF SendFirstFrame, CanWrite, Follows
  <2> QED
    BY <2>1, <2>2
<1> QED
  BY <1>1, <1>2, <1>3

\* A consecutive frame goes on with it.
LEMMA SegNext ==
  ASSUME TypeInv, SegInv, SendConsecutiveFrame
  PROVE  /\ mpc' \in {"wait_fc", "block"} => sent' < cur'.cfs
         /\ seq_num' = (sent' + 1) % SeqMod
         /\ Follows(Len(bus) + 1, cur.id, sent + 1)'
<1>1. /\ cur' = cur /\ sent' = sent + 1 /\ seq_num' = NextSeq(seq_num)
      /\ bus' = Append(bus, CF(cur.id, sent + 1, seq_num)) /\ mpc = "block"
  BY DEF SendConsecutiveFrame, CanWrite
<1>2. bus \in Seq(Frame) /\ sent \in Nat /\ cur.cfs \in Nat
  BY DEF TypeInv, TypeOK, ChannelTypeOK, TransferTypeOK, DoipMessage
<1>3. mpc' \in {"wait_fc", "block"} => sent' < cur'.cfs
  BY <1>1, <1>2 DEF SendConsecutiveFrame
<1>4. seq_num' = (sent' + 1) % SeqMod
  <2>1. seq_num = (sent + 1) % SeqMod
    BY <1>1 DEF SegInv
  <2>2. sent + 1 \in Nat
    BY <1>2
  <2>3. (((sent + 1) % SeqMod) + 1) % SeqMod = ((sent + 1) + 1) % SeqMod
    BY <2>2, ModSucc, GatewayAssumption
  <2> QED
    BY <1>1, <2>1, <2>3 DEF NextSeq
<1>5. Len(bus') = Len(bus) + 1
      /\ bus'[Len(bus')] = CF(cur.id, sent + 1, seq_num)
  BY <1>1, <1>2
<1>6. Precedes(bus'[Len(bus')], cur.id, (sent + 1) + 1)
  BY <1>2, <1>5 DEF Precedes, CF
<1>7. Follows(Len(bus) + 1, cur.id, sent + 1)'
  BY <1>1, <1>2, <1>5, <1>6 DEF Follows, Precedes
<1> QED
  BY <1>3, <1>4, <1>7

\* Every step keeps the segments in order.
LEMMA SegStep == TypeInv /\ SegInv /\ [Next]_vars => SegInv'
<1> SUFFICES ASSUME TypeInv, SegInv, [Next]_vars PROVE SegInv'
  OBVIOUS
<1> USE DEF SegInv
<1>0. bus \in Seq(Frame)
  BY DEF TypeInv, TypeOK, ChannelTypeOK
<1>1. SegmentsInOrder'
  <2> SUFFICES ASSUME NEW i \in DOMAIN bus', bus'[i].pci = "CF"
               PROVE  (/\ bus[i].sn = bus[i].data[2] % SeqMod
                       /\ Follows(i, bus[i].data[1], bus[i].data[2]))'
    BY DEF SegmentsInOrder
  <2>1. CASE bus' = bus
    BY <2>1 DEF SegmentsInOrder, Follows, Precedes
  <2>2. CASE bus' # bus
    <3>1. PICK f : bus' = Append(bus, f)
      BY <2>2, BusAppends
    <3>2. \A n \in 1 .. Len(bus) + 1 : \A m, k : Follows(n, m, k) =>
            \/ CanTxFails /\ k = 1
            \/ \E j \in 1 .. n - 1 :
                 /\ Precedes(bus'[j], m, k)
                 /\ \A l \in j + 1 .. n - 1 : bus'[l].pci = "FC"
      BY <1>0, <3>1 DEF Follows
    <3>3. CASE i \in DOMAIN bus
      <4>1. bus'[i] = bus[i] /\ i \in 1 .. Len(bus) + 1
        BY <1>0, <3>1, <3>3
      <4>2. /\ bus[i].sn = bus[i].data[2] % SeqMod
            /\ Follows(i, bus[i].data[1], bus[i].data[2])
        BY <3>3, <4>1 DEF SegmentsInOrder
      <4>3. \/ CanTxFails /\ bus[i].data[2] = 1
            \/ \E j \in 1 .. i - 1 :
                 /\ Precedes(bus'[j], bus[i].data[1], bus[i].data[2])
                 /\ \A l \in j + 1 .. i - 1 : bus'[l].pci = "FC"
        BY <3>2, <4>1, <4>2
      <4>4. Follows(i, bus[i].data[1], bus[i].data[2])'
        BY <4>1, <4>3 DEF Follows, Precedes
      <4> QED
        BY <4>1, <4>2, <4>4
    <3>4. CASE i = Len(bus) + 1
      <4>1. bus'[i] = f
        BY <1>0, <3>1, <3>4
      <4>2. SendConsecutiveFrame
        <5>1. ~\E ok \in BOOLEAN : SendSingleFrame(ok)
          BY <1>0, <2>2, <3>4 DEF SendSingleFrame, CanWrite, SF
        <5>2. ~\E ok \in BOOLEAN : SendFirstFrame(ok)
          BY <1>0, <2>2, <3>4 DEF SendFirstFrame, CanWrite, FF
        <5>3. ~\E ok \in BOOLEAN : FwdFirstFrame(ok)
          BY <1>0, <2>2, <3>4 DEF FwdFirstFrame, CanWrite, FC
        <5> QED
          BY <2>2, <5>1, <5>2, <5>3, BusFootprint DEF BusWrites, vars
      <4>3. bus'[i] = CF(cur.id, sent + 1, seq_num) /\ mpc = "block"
        BY <1>0, <3>4, <4>2 DEF SendConsecutiveFrame, CanWrite
      <4>4. /\ bus'[i].data[1] = cur.id /\ bus'[i].data[2] = sent + 1
            /\ bus'[i].sn = seq_num
        BY <4>3 DEF CF
      <4>5. seq_num = (sent + 1) % SeqMod /\ Follows(i, cur.id, sent + 1)
        BY <3>4, <4>3
      <4>6. \/ CanTxFails /\ sent + 1 = 1
            \/ \E j \in 1 .. i - 1 :
                 /\ Precedes(bus'[j], cur.id, sent + 1)
                 /\ \A l \in j + 1 .. i - 1 : bus'[l].pci = "FC"
        BY <1>0, <3>2, <3>4, <4>5
      <4>7. Follows(i, bus[i].data[1], bus[i].data[2])'
        BY <4>4, <4>6 DEF Follows, Precedes
      <4> QED
        BY <4>4, <4>5, <4>7
    <3> QED
      BY <1>0, <3>1, <3>3, <3>4
  <2> QED
    BY <2>1, <2>2
<1>2. (mpc \in {"wait_fc", "block"} =>
         /\ sent < cur.cfs
         /\ seq_num = (sent + 1) % SeqMod
         /\ Follows(Len(bus) + 1, cur.id, sent + 1))'
  <2>1. CASE \E ok \in BOOLEAN : SendFirstFrame(ok)
    BY <2>1, SegFirst
  <2>2. CASE SendConsecutiveFrame
    BY <2>2, SegNext
  <2>3. CASE /\ ~\E ok \in BOOLEAN : SendFirstFrame(ok)
             /\ ~SendConsecutiveFrame
             /\ mpc' \in {"wait_fc", "block"}
    <3>1. /\ mpc \in {"wait_fc", "block"}
          /\ cur' = cur /\ sent' = sent /\ seq_num' = seq_num
      BY <2>3, EntersTransfer
    <3>2. Follows(Len(bus) + 1, cur.id, sent + 1)
      BY <3>1
    <3>3. CASE bus' = bus
      BY <3>1, <3>2, <3>3 DEF Follows, Precedes
    <3>4. CASE bus' # bus
      <4>1. bus' = Append(bus, FC("CTS", 0, Head(can_rx).data[1]))
        <5>1. ~\E ok \in BOOLEAN : SendSingleFrame(ok)
          BY <3>1 DEF SendSingleFrame, Main
        <5> QED
          BY <2>3, <3>4, <5>1, BusFootprint
          DEF BusWrites, vars, FwdFirstFrame, CanWrite
      <4>2. Len(bus') = Len(bus) + 1 /\ bus'[Len(bus')].pci = "FC"
        BY <1>0, <4>1 DEF FC
      <4>3. \A j \in 1 .. Len(bus) : bus'[j] = bus[j]
        BY <1>0, <4>1
      <4>4. Follows(Len(bus) + 1, cur.id, sent + 1)'
        <5>1. CASE CanTxFails /\ sent + 1 = 1
          BY <3>1, <5>1 DEF Follows
        <5>2. CASE ~(CanTxFails /\ sent + 1 = 1)
          <6>1. PICK j \in 1 .. Len(bus) :
                  /\ Precedes(bus[j], cur.id, sent + 1)
                  /\ \A l \in j + 1 .. Len(bus) : bus[l].pci = "FC"
            BY <1>0, <3>2, <5>2 DEF Follows
          <6>2. j \in 1 .. Len(bus') /\ Precedes(bus'[j], cur.id, sent + 1)
            BY <1>0, <4>2, <4>3, <6>1
          <6>3. \A l \in j + 1 .. Len(bus') : bus'[l].pci = "FC"
            <7> TAKE l \in j + 1 .. Len(bus')
            <7>1. CASE l = Len(bus') BY <4>2, <7>1
            <7>2. CASE l # Len(bus')
              <8>1. l \in j + 1 .. Len(bus) /\ l \in 1 .. Len(bus)
                BY <1>0, <4>2, <7>2
              <8> QED BY <4>3, <6>1, <8>1
            <7> QED BY <7>1, <7>2
          <6>4. j \in 1 .. (Len(bus') + 1) - 1
                /\ \A l \in j + 1 .. (Len(bus') + 1) - 1 : bus'[l].pci = "FC"
            BY <1>0, <4>2, <6>2, <6>3
          <6> QED BY <3>1, <6>2, <6>4 DEF Follows, Precedes
        <5> QED BY <5>1, <5>2
      <4> QED
        BY <3>1, <4>4
    <3> QED
      BY <3>3, <3>4
  <2> QED
    BY <2>1, <2>2, <2>3
<1> QED
  BY <1>1, <1>2

\* A receiver that follows the gateway's frames finds each request's segments
\* in order, whatever the tester, the ECU and the scheduler do.
THEOREM SegmentsOrdered == Spec => []SegmentsInOrder
<1>1. SegInv => SegmentsInOrder
  BY DEF SegInv
<1> QED
  BY TypeInit, TypeStep, SegInit, SegStep, <1>1, PTL DEF Spec

=============================================================================
