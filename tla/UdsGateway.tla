----------------------------- MODULE UdsGateway -----------------------------
(***************************************************************************)
(* uds_gateway.cpp: a DoIP tester talks TCP to the gateway, the gateway    *)
(* talks ISO-TP over CAN to the TC375 ECU.  Two threads share a session:   *)
(*                                                                         *)
(*   main       accepts a tester, reads DoIP messages, acknowledges them   *)
(*              and segments each UDS request onto the bus (isotp_send);   *)
(*   forwarder  can_to_doip_forwarder: reads the CAN socket, hands Flow    *)
(*              Control frames to main through fc_frame_queue, reassembles *)
(*              the ECU's responses and writes them to the tester.         *)
(*                                                                         *)
(* The environment is open: the tester sends any messages and closes when  *)
(* it likes, and any frame may arrive on the CAN socket at any time.       *)
(* GatewaySystem closes the model with an ECU that follows ISO-TP.         *)
(*                                                                         *)
(* Data.  A message (a UDS request, or a response of the ECU) is a number, *)
(* and its bytes are the chunks <<message, 0>>, <<message, 1>>, ... that   *)
(* its single/first frame and its consecutive frames carry.  The size of a *)
(* message is the number of its consecutive frames, 0 for a single frame.  *)
(* Timeouts are untimed: one may strike whenever what it waits for is not  *)
(* there.                                                                  *)
(***************************************************************************)
EXTENDS Integers, Sequences, FiniteSets

CONSTANTS
  SeqMod,          \* the sequence nibble's modulus (16)
  MAX_CONSECUTIVE_FRAMES_IN_BLOCK, \* what BS = 0 grants in one block (4095)
  RequestSizes,    \* the sizes of the UDS requests, in consecutive frames
  NonStandard,     \* the ECU's messages whose first byte is no response SID
  CanTxFails       \* may a write to the CAN socket fail (ENOBUFS)?

ASSUME GatewayAssumption ==
  /\ SeqMod \in Nat \ {0, 1}
  /\ MAX_CONSECUTIVE_FRAMES_IN_BLOCK \in Nat \ {0}
  /\ RequestSizes \subseteq Nat
  /\ CanTxFails \in BOOLEAN

VARIABLES
  mpc,                 \* main's program counter
  fpc,                 \* the forwarder's, "none" when there is no thread
  session_active,      \* the session's atomic flag
  client_socket_mutex, \* its holder: "free", "main" or "fwd"
  fc_frame_queue,      \* global: FC frames on their way to main
  peer,                \* client_sock: "none", "open", or "closed" or "reset" by
                       \* the tester
  client_rx,           \* what the tester sent and main has not read
  to_tester,           \* log of the messages written to client_sock, and of
                       \* main's that it refused
  msgs,                \* how many messages the testers have sent
  can_open,            \* is the session's CAN socket open?
  can_rx,              \* its receive buffer
  bus,                 \* log of the frames the gateway put on the bus
  cur,                 \* the DoIP message main is handling
  sent, seq_num, block_left,               \* main's transfer of cur
  uds_rx_buffer, expected_seq_num, cfs_due \* the forwarder's reassembly

tx_vars == <<cur, sent, seq_num, block_left>>
rx_vars == <<uds_rx_buffer, expected_seq_num, cfs_due>>
client_vars == <<peer, client_rx, msgs>>
can_vars == <<can_open, can_rx>>
vars == <<mpc, fpc, session_active, client_socket_mutex, fc_frame_queue,
          client_vars, to_tester, can_vars, bus, tx_vars, rx_vars>>

-----------------------------------------------------------------------------
(* Frames and messages *)

Chunk       == Nat \X Nat
SingleFrame == [pci : {"SF"}, data : Chunk]
FirstFrame  == [pci : {"FF"}, data : Chunk, cfs : Nat \ {0}]
ConsFrame   == [pci : {"CF"}, data : Chunk, sn : 0 .. SeqMod - 1]
FlowStatus  == {"CTS", "WAIT", "OVFLW"}
\* "to" is the message the sender of the frame had in mind: it is not on the
\* wire, no action reads it, and only properties mention it.
FlowFrame   == [pci : {"FC"}, fs : FlowStatus, bs : 0 .. 255, to : Nat]
Frame       == SingleFrame \cup FirstFrame \cup ConsFrame \cup FlowFrame

SF(m)    == [pci |-> "SF", data |-> <<m, 0>>]
FF(m, n) == [pci |-> "FF", data |-> <<m, 0>>, cfs |-> n]
CF(m, k, sn)   == [pci |-> "CF", data |-> <<m, k>>, sn |-> sn]
FC(fs, bs, m)  == [pci |-> "FC", fs |-> fs, bs |-> bs, to |-> m]

\* The payload types 0x0005, 0x8001 and any other.
DoipMessage == [type : {"routing", "diag", "other"}, id : Nat, cfs : Nat]
NoMessage   == [type |-> "other", id |-> 0, cfs |-> 0]

\* What the gateway writes: 0x0006, 0x8002, and 0x8001 with a UDS response; and
\* what stands in the log for a 0x0006 or 0x8002 whose write failed.
Reply    == [type : {"routing_ok", "ack", "refused"}, id : Nat]
Response == [type : {"response"}, rdbi : BOOLEAN, data : Seq(Chunk)]
Ack(m)     == [type |-> "ack", id |-> m]
Refused(m) == [type |-> "refused", id |-> m]

\* A response whose first byte is outside 0x40..0x7F gets a 0x62 in front.
DoipResponse(data) ==
  [type |-> "response", rdbi |-> data[1][1] \in NonStandard, data |-> data]

-----------------------------------------------------------------------------
(* Steps of the two threads, and their writes *)

NextSeq_NoWrap(seq) == seq + 1
NextSeq(seq) == (seq + 1) % SeqMod

Main(from, to) == mpc = from /\ mpc' = to
Fwd(from, to)  == fpc = from /\ fpc' = to

\* write() on the CAN socket: the frame reaches the bus, or the write fails.
CanWrite(f, ok) ==
  /\ ok \/ CanTxFails
  /\ bus' = IF ok THEN Append(bus, f) ELSE bus

\* The lock_guard's scope around write(client_sock, ...): the socket may take
\* a message in pieces, so the call is a step in and a step out.
BeginWrite_NoLock(thread) ==
  /\ client_socket_mutex' = thread
  /\ UNCHANGED to_tester
BeginWrite(thread) ==
  /\ client_socket_mutex = "free"
  /\ client_socket_mutex' = thread
  /\ UNCHANGED to_tester

EndWrite(reply) ==
  /\ client_socket_mutex' = "free"
  /\ to_tester' = Append(to_tester, reply)

-----------------------------------------------------------------------------
(* main: accept, set up, tear down *)

Accept ==
  /\ Main("accept", "setup")
  /\ peer' = "open"
  /\ client_rx' = <<>>
  /\ UNCHANGED <<fpc, session_active, client_socket_mutex, fc_frame_queue,
                 to_tester, msgs, can_vars, bus, tx_vars, rx_vars>>

\* setup_can_socket succeeds and the forwarder starts.
OpenSession ==
  /\ Main("setup", "loop")
  /\ can_open' = TRUE
  /\ can_rx' = <<>>
  /\ session_active' = TRUE
  /\ fpc' = "loop"
  /\ UNCHANGED <<client_socket_mutex, fc_frame_queue, client_vars, to_tester,
                 bus, tx_vars, rx_vars>>

\* setup_can_socket fails: the tester is hung up on.
SetupFails ==
  /\ Main("setup", "accept")
  /\ peer' = "none"
  /\ client_rx' = <<>>
  /\ UNCHANGED <<fpc, session_active, client_socket_mutex, fc_frame_queue,
                 to_tester, msgs, can_vars, bus, tx_vars, rx_vars>>

Teardown ==
  /\ Main("teardown", "join")
  /\ session_active' = FALSE
  /\ UNCHANGED <<fpc, client_socket_mutex, fc_frame_queue, client_vars,
                 to_tester, can_vars, bus, tx_vars, rx_vars>>

\* can_reader.join() returns.
Join_Skipped == fpc' = fpc
Join == fpc = "done" /\ fpc' = "none"

\* Then both sockets are closed.
CloseSession ==
  /\ Main("join", "accept")
  /\ Join
  /\ can_open' = FALSE
  /\ can_rx' = <<>>
  /\ peer' = "none"
  /\ client_rx' = <<>>
  /\ UNCHANGED <<session_active, client_socket_mutex, fc_frame_queue,
                 to_tester, msgs, bus, tx_vars, rx_vars>>

-----------------------------------------------------------------------------
(* main: read a DoIP message, answer it *)

LoopHead ==
  /\ mpc = "loop"
  /\ mpc' = IF session_active THEN "recv" ELSE "teardown"
  /\ UNCHANGED <<fpc, session_active, client_socket_mutex, fc_frame_queue,
                 client_vars, to_tester, can_vars, bus, tx_vars, rx_vars>>

Dispatch_AckLate(type) ==
  CASE type = "routing" -> "routing" [] type = "diag" -> "send" [] OTHER -> "loop"
Dispatch(type) ==
  CASE type = "routing" -> "routing" [] type = "diag" -> "ack" [] OTHER -> "loop"

\* A whole header and payload are read.  The flag is looked at once more, and
\* a message read while it was down is dropped.
ReceiveMessage ==
  /\ mpc = "recv"
  /\ client_rx # <<>>
  /\ cur' = Head(client_rx)
  /\ client_rx' = Tail(client_rx)
  /\ mpc' = IF session_active THEN Dispatch(cur'.type) ELSE "teardown"
  /\ UNCHANGED <<fpc, session_active, client_socket_mutex, fc_frame_queue,
                 peer, to_tester, msgs, can_vars, bus, sent, seq_num,
                 block_left, rx_vars>>

\* read() returns <= 0: end of file, or an error that discards what is left.
ConnectionLost ==
  /\ Main("recv", "teardown")
  /\ peer \in {"closed", "reset"}
  /\ session_active' = FALSE
  /\ UNCHANGED <<fpc, client_socket_mutex, fc_frame_queue, client_vars,
                 to_tester, can_vars, bus, tx_vars, rx_vars>>

BeginReply(from, to) ==
  /\ Main(from, to)
  /\ BeginWrite("main")
  /\ UNCHANGED <<fpc, session_active, fc_frame_queue, client_vars, can_vars,
                 bus, tx_vars, rx_vars>>

\* A connection the tester has reset refuses the message (SIGPIPE is ignored); main
\* does not look at the result of its writes.
EndReply(from, to, reply) ==
  /\ Main(from, to)
  /\ EndWrite(IF peer = "reset" THEN Refused(reply.id) ELSE reply)
  /\ UNCHANGED <<fpc, session_active, fc_frame_queue, client_vars, can_vars,
                 bus, tx_vars, rx_vars>>

BeginRoutingReply == BeginReply("routing", "routing_w")
EndRoutingReply ==
  EndReply("routing_w", "loop", [type |-> "routing_ok", id |-> cur.id])
BeginAck == BeginReply("ack", "ack_w")
EndAck   == EndReply("ack_w", "send", Ack(cur.id))

-----------------------------------------------------------------------------
(* main: isotp_send *)

SendSingleFrame(ok) ==
  /\ Main("send", "loop")
  /\ cur.cfs = 0
  /\ CanWrite(SF(cur.id), ok)
  /\ UNCHANGED <<fpc, session_active, client_socket_mutex, fc_frame_queue,
                 client_vars, to_tester, can_vars, tx_vars, rx_vars>>

StartTransfer_FromZero == sent' = -1 /\ seq_num' = 1
StartTransfer_SeqZero == sent' = 0 /\ seq_num' = 0
StartTransfer == sent' = 0 /\ seq_num' = 1

\* Whether the first frame was written is not looked at.
SendFirstFrame(ok) ==
  /\ Main("send", "wait_fc")
  /\ cur.cfs > 0
  /\ CanWrite(FF(cur.id, cur.cfs), ok)
  /\ StartTransfer
  /\ UNCHANGED <<fpc, session_active, client_socket_mutex, fc_frame_queue,
                 client_vars, to_tester, can_vars, cur, block_left, rx_vars>>

\* What a Flow Control frame's block size grants.
Granted_OneMore(bs) == bs + 1
Granted(bs) == IF bs = 0 THEN MAX_CONSECUTIVE_FRAMES_IN_BLOCK ELSE bs

\* wait_for_flow_control pops the oldest FC: clear to send a block, wait for
\* another FC, or give the transfer up.
TakeFlowControl ==
  /\ mpc = "wait_fc"
  /\ fc_frame_queue # <<>>
  /\ fc_frame_queue' = Tail(fc_frame_queue)
  /\ LET fc == Head(fc_frame_queue) IN
       \/ /\ fc.fs = "CTS"
          /\ mpc' = "block"
          /\ block_left' = Granted(fc.bs)
       \/ fc.fs = "WAIT"  /\ UNCHANGED <<mpc, block_left>>
       \/ fc.fs = "OVFLW" /\ mpc' = "loop" /\ UNCHANGED block_left
  /\ UNCHANGED <<fpc, session_active, client_socket_mutex, client_vars,
                 to_tester, can_vars, bus, cur, sent, seq_num, rx_vars>>

\* wait_for's two seconds pass with the queue empty.
FlowControlTimeout ==
  /\ Main("wait_fc", "loop")
  /\ fc_frame_queue = <<>>
  /\ UNCHANGED <<fpc, session_active, client_socket_mutex, fc_frame_queue,
                 client_vars, to_tester, can_vars, bus, tx_vars, rx_vars>>

SendConsecutiveFrame ==
  /\ mpc = "block"
  /\ CanWrite(CF(cur.id, sent + 1, seq_num), TRUE)
  /\ sent' = sent + 1
  /\ seq_num' = NextSeq(seq_num)
  /\ block_left' = block_left - 1
  /\ mpc' = CASE sent' >= cur.cfs  -> "loop"
              [] sent' < cur.cfs /\ block_left' = 0 -> "wait_fc"
              [] OTHER             -> "block"
  /\ UNCHANGED <<fpc, session_active, client_socket_mutex, fc_frame_queue,
                 client_vars, to_tester, can_vars, cur, rx_vars>>

\* A consecutive frame's write fails: the transfer is given up.
AbortTransfer ==
  /\ Main("block", "loop")
  /\ CanWrite(CF(cur.id, sent + 1, seq_num), FALSE)
  /\ UNCHANGED <<fpc, session_active, client_socket_mutex, fc_frame_queue,
                 client_vars, to_tester, can_vars, tx_vars, rx_vars>>

-----------------------------------------------------------------------------
(* forwarder: can_to_doip_forwarder *)

\* Where the thread goes once a frame has been handled.
LoopOrDone_Hasty == "done"
LoopOrDone_Never == "read"
LoopOrDone == IF session_active THEN "read" ELSE "done"

\* A whole response is written, unless the session has ended meanwhile.
RespondOrDone == IF session_active THEN "resp" ELSE "done"

FwdLoop ==
  /\ Fwd("loop", LoopOrDone)
  /\ UNCHANGED <<mpc, session_active, client_socket_mutex, fc_frame_queue,
                 client_vars, to_tester, can_vars, bus, tx_vars, rx_vars>>

\* SO_RCVTIMEO: the read returns after two seconds without a frame.
FwdTimeout ==
  /\ Fwd("read", LoopOrDone)
  /\ can_rx = <<>>
  /\ UNCHANGED <<mpc, session_active, client_socket_mutex, fc_frame_queue,
                 client_vars, to_tester, can_vars, bus, tx_vars, rx_vars>>

Read(kind) ==
  /\ can_rx # <<>>
  /\ Head(can_rx).pci = kind
  /\ can_rx' = Tail(can_rx)
  /\ UNCHANGED can_open

FwdFlowControl_Dropped ==
  /\ Fwd("read", "loop")
  /\ Read("FC")
  /\ UNCHANGED <<mpc, session_active, client_socket_mutex, fc_frame_queue,
                 client_vars, to_tester, bus, tx_vars, rx_vars>>
FwdFlowControl_FallsThrough ==
  /\ Fwd("read", IF uds_rx_buffer = <<>> THEN "loop" ELSE RespondOrDone)
  /\ Read("FC")
  /\ fc_frame_queue' = Append(fc_frame_queue, Head(can_rx))
  /\ UNCHANGED <<mpc, session_active, client_socket_mutex, client_vars,
                 to_tester, bus, tx_vars, rx_vars>>
FwdFlowControl ==
  /\ Fwd("read", "loop")
  /\ Read("FC")
  /\ fc_frame_queue' = Append(fc_frame_queue, Head(can_rx))
  /\ UNCHANGED <<mpc, session_active, client_socket_mutex, client_vars,
                 to_tester, bus, tx_vars, rx_vars>>

\* A consecutive frame, or a single frame of no length, starts nothing.
FwdStray ==
  /\ Fwd("read", "loop")
  /\ Read("CF")
  /\ UNCHANGED <<mpc, session_active, client_socket_mutex, fc_frame_queue,
                 client_vars, to_tester, bus, tx_vars, rx_vars>>

FwdSingleFrame ==
  /\ Fwd("read", RespondOrDone)
  /\ Read("SF")
  /\ uds_rx_buffer' = <<Head(can_rx).data>>
  /\ UNCHANGED <<mpc, session_active, client_socket_mutex, fc_frame_queue,
                 client_vars, to_tester, bus, tx_vars, expected_seq_num,
                 cfs_due>>

\* Whether the Flow Control that answers was written is not looked at.
FwdFirstFrame(ok) ==
  /\ Fwd("read", "cfs")
  /\ Read("FF")
  /\ LET ff == Head(can_rx) IN
       /\ uds_rx_buffer' = <<ff.data>>
       /\ cfs_due' = ff.cfs
       /\ expected_seq_num' = 1
       /\ CanWrite(FC("CTS", 0, ff.data[1]), ok)
  /\ UNCHANGED <<mpc, session_active, client_socket_mutex, fc_frame_queue,
                 client_vars, to_tester, tx_vars>>

\* isotp_handle_multi_frame reads the socket itself.
Expected(f) == f.pci = "CF" /\ f.sn = expected_seq_num

FwdConsecutiveFrame ==
  /\ Fwd("cfs", IF cfs_due = 1 THEN RespondOrDone ELSE "cfs")
  /\ Read("CF")
  /\ Expected(Head(can_rx))
  /\ uds_rx_buffer' = Append(uds_rx_buffer, Head(can_rx).data)
  /\ expected_seq_num' = NextSeq(expected_seq_num)
  /\ cfs_due' = cfs_due - 1
  /\ UNCHANGED <<mpc, session_active, client_socket_mutex, fc_frame_queue,
                 client_vars, to_tester, bus, tx_vars>>

\* Whatever else arrives here is lost, together with the partial response: a
\* Flow Control frame meant for main as well.
FwdUnexpected_KeepsPartial ==
  /\ Fwd("cfs", RespondOrDone)
  /\ can_rx # <<>>
  /\ ~Expected(Head(can_rx))
  /\ can_rx' = Tail(can_rx)
  /\ UNCHANGED <<mpc, session_active, client_socket_mutex, fc_frame_queue,
                 client_vars, to_tester, can_open, bus, tx_vars, rx_vars>>
FwdUnexpected ==
  /\ Fwd("cfs", LoopOrDone)
  /\ can_rx # <<>>
  /\ ~Expected(Head(can_rx))
  /\ can_rx' = Tail(can_rx)
  /\ UNCHANGED <<mpc, session_active, client_socket_mutex, fc_frame_queue,
                 client_vars, to_tester, can_open, bus, tx_vars, rx_vars>>

FwdCfTimeout ==
  /\ Fwd("cfs", LoopOrDone)
  /\ can_rx = <<>>
  /\ UNCHANGED <<mpc, session_active, client_socket_mutex, fc_frame_queue,
                 client_vars, to_tester, can_vars, bus, tx_vars, rx_vars>>

FwdBeginWrite ==
  /\ Fwd("resp", "resp_w")
  /\ BeginWrite("fwd")
  /\ UNCHANGED <<mpc, session_active, fc_frame_queue, client_vars, can_vars,
                 bus, tx_vars, rx_vars>>

FwdEndWrite ==
  /\ Fwd("resp_w", "loop")
  /\ peer # "reset"
  /\ EndWrite(DoipResponse(uds_rx_buffer))
  /\ UNCHANGED <<mpc, session_active, fc_frame_queue, client_vars, can_vars,
                 bus, tx_vars, rx_vars>>

\* The forwarder does look: the session ends.
FwdWriteFails ==
  /\ Fwd("resp_w", "loop")
  /\ peer = "reset"
  /\ client_socket_mutex' = "free"
  /\ session_active' = FALSE
  /\ UNCHANGED <<mpc, fc_frame_queue, client_vars, to_tester, can_vars, bus,
                 tx_vars, rx_vars>>

-----------------------------------------------------------------------------
(* The tester and the CAN bus *)

TesterSends(type, cfs) ==
  /\ peer = "open"
  /\ msgs' = msgs + 1
  /\ client_rx' = Append(client_rx, [type |-> type, id |-> msgs', cfs |-> cfs])
  /\ UNCHANGED <<mpc, fpc, session_active, client_socket_mutex, peer,
                 fc_frame_queue, to_tester, can_vars, bus, tx_vars, rx_vars>>

\* The tester closes; its TCP then resets the connection, at once or in answer to
\* what the gateway still writes, and every later write fails.
TesterCloses ==
  /\ \/ peer = "open" /\ peer' = "closed"
     \/ peer = "closed" /\ peer' = "reset"
  /\ UNCHANGED <<mpc, fpc, session_active, client_socket_mutex, msgs,
                 fc_frame_queue, to_tester, client_rx, can_vars, bus, tx_vars,
                 rx_vars>>

\* A frame with the ECU's identifier reaches the socket's receive buffer.
BusDelivers(f) ==
  /\ can_open
  /\ can_rx' = Append(can_rx, f)
  /\ UNCHANGED <<mpc, fpc, session_active, client_socket_mutex, client_vars,
                 fc_frame_queue, to_tester, can_open, bus, tx_vars, rx_vars>>

-----------------------------------------------------------------------------
(* The specification *)

Init ==
  /\ mpc = "accept"
  /\ fpc = "none"
  /\ session_active = FALSE
  /\ client_socket_mutex = "free"
  /\ fc_frame_queue = <<>>
  /\ peer = "none"
  /\ client_rx = <<>>
  /\ to_tester = <<>>
  /\ msgs = 0
  /\ can_open = FALSE
  /\ can_rx = <<>>
  /\ bus = <<>>
  /\ cur = NoMessage
  /\ sent = 0
  /\ seq_num = 0
  /\ block_left = 0
  /\ uds_rx_buffer = <<>>
  /\ expected_seq_num = 0
  /\ cfs_due = 0

\* main inside handle_doip_session.  A write may fail where CanTxFails says so.
MainStep ==
  \/ OpenSession \/ SetupFails \/ Teardown \/ CloseSession
  \/ LoopHead \/ ReceiveMessage \/ ConnectionLost
  \/ BeginRoutingReply \/ EndRoutingReply \/ BeginAck \/ EndAck
  \/ \E ok \in BOOLEAN : SendSingleFrame(ok) \/ SendFirstFrame(ok)
  \/ TakeFlowControl \/ FlowControlTimeout
  \/ SendConsecutiveFrame \/ AbortTransfer

ForwarderStep ==
  \/ FwdLoop \/ FwdTimeout \/ FwdFlowControl \/ FwdStray
  \/ FwdSingleFrame \/ (\E ok \in BOOLEAN : FwdFirstFrame(ok))
  \/ FwdConsecutiveFrame \/ FwdUnexpected \/ FwdCfTimeout
  \/ FwdBeginWrite \/ FwdEndWrite \/ FwdWriteFails

TesterStep ==
  \/ \E cfs \in RequestSizes : TesterSends("diag", cfs)
  \/ \E type \in {"routing", "other"} : TesterSends(type, 0)
  \/ TesterCloses

Next ==
  \/ Accept \/ MainStep \/ ForwarderStep \/ TesterStep
  \/ \E f \in Frame : BusDelivers(f)

Spec == Init /\ [][Next]_vars

-----------------------------------------------------------------------------
(* Properties *)

MainPC == {"accept", "setup", "loop", "recv", "routing", "routing_w", "ack",
           "ack_w", "send", "wait_fc", "block", "teardown", "join"}
FwdPC  == {"none", "loop", "read", "cfs", "resp", "resp_w", "done"}

ThreadTypeOK ==
  /\ mpc \in MainPC /\ fpc \in FwdPC
  /\ session_active \in BOOLEAN
  /\ client_socket_mutex \in {"free", "main", "fwd"}
  /\ peer \in {"none", "open", "closed", "reset"}
  /\ can_open \in BOOLEAN

ChannelTypeOK ==
  /\ fc_frame_queue \in Seq(FlowFrame)
  /\ client_rx \in Seq(DoipMessage) /\ msgs \in Nat
  /\ to_tester \in Seq(Reply \cup Response)
  /\ can_rx \in Seq(Frame)
  /\ bus \in Seq(Frame)

TransferTypeOK ==
  /\ cur \in DoipMessage
  /\ sent \in Nat /\ block_left \in Nat
  /\ seq_num \in 0 .. SeqMod - 1

ReassemblyTypeOK ==
  /\ expected_seq_num \in 0 .. SeqMod - 1
  /\ uds_rx_buffer \in Seq(Chunk)
  /\ cfs_due \in Nat

\* Every variable keeps to its type: the sequence numbers to their nibble, the
\* counters to the naturals, the sockets' logs to well-formed messages.
TypeOK ==
  ThreadTypeOK /\ ChannelTypeOK /\ TransferTypeOK /\ ReassemblyTypeOK

MainWrites == mpc \in {"routing_w", "ack_w"}
FwdWrites  == fpc = "resp_w"

\* The bytes of two messages never interleave on the tester's connection: main
\* and the forwarder are never both inside write(client_sock, ...).
WriteMutex == ~(MainWrites /\ FwdWrites)

\* The forwarder uses no descriptor after main has closed it: it has ended, and
\* been joined, before close(can_sock) and close(client_sock), so that the next
\* session's descriptors, which get the same numbers, are never its own.
SocketLifetime == fpc \notin {"none", "done"} => can_open /\ peer # "none"

\* The forwarder never leaves a session that main goes on serving: its thread
\* ends only after session_active has been lowered.
ForwarderServesSession == fpc = "done" => ~session_active

Acked(m)       == \E j \in DOMAIN to_tester : to_tester[j] = Ack(m)
AckRefused(m)  == \E j \in DOMAIN to_tester : to_tester[j] = Refused(m)

\* A request reaches the bus only after its 0x8002 was written to its tester, or was
\* refused because the tester had reset the connection; and while the connection is
\* not reset, main sends no request whose 0x8002 its tester was not sent.
AckPrecedesFrames ==
  /\ \A i \in DOMAIN bus : bus[i].pci # "FC" =>
       Acked(bus[i].data[1]) \/ AckRefused(bus[i].data[1])
  /\ mpc \in {"send", "wait_fc", "block"} /\ peer # "reset" => Acked(cur.id)

\* Frame f is the segment of a request that comes just before CF <<m, k>>.
Precedes(f, m, k) ==
  /\ f.pci \in {"FF", "CF"} /\ f.data = <<m, k - 1>>
  /\ f.pci = "FF" => k <= f.cfs

\* The segment before CF <<m, k>>, put at place i, is the last one on the bus.
Follows(i, m, k) ==
  \/ CanTxFails /\ k = 1
  \/ \E j \in 1 .. i - 1 : /\ Precedes(bus[j], m, k)
                           /\ \A l \in j + 1 .. i - 1 : bus[l].pci = "FC"

\* What the gateway segments a receiver can put together: every consecutive
\* frame has its request's previous segment before it on the bus, with nothing
\* but the forwarder's Flow Control frames between, and carries the next number
\* of the sequence.  Only the first frame may be missing, when its write failed.
SegmentsInOrder ==
  \A i \in DOMAIN bus : bus[i].pci = "CF" =>
    /\ bus[i].sn = bus[i].data[2] % SeqMod
    /\ Follows(i, bus[i].data[1], bus[i].data[2])

\* can_to_doip_forwarder's comment: a frame of type 3 is unconditionally put in
\* the queue.
TakesFlowControl ==
  /\ fpc \in {"read", "cfs"} /\ fpc' # fpc
  /\ can_rx # <<>> /\ can_rx' = Tail(can_rx)
  /\ Head(can_rx).pci = "FC"
FcAlwaysQueued ==
  [][TakesFlowControl => fc_frame_queue' = Append(fc_frame_queue, Head(can_rx))]_vars

=============================================================================
