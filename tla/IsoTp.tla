-------------------------------- MODULE IsoTp --------------------------------
(***************************************************************************)
(* isotp_send and isotp_handle_multi_frame, byte by byte.  UdsGateway      *)
(* counts a message in frames; here are the sizes the code computes them   *)
(* from, with the widths it has for them.                                  *)
(*                                                                         *)
(* A frame carries the bytes from .. from + n - 1 of its message, and      *)
(* padding up to dlc.  A buffer is how many bytes it holds and whether     *)
(* they are, so far, the message's first.                                  *)
(***************************************************************************)
EXTENDS Integers, Sequences

VARIABLES
  frame,         \* what the last write() put on the bus
  fc_frame_queue,
  sending,       \* isotp_send: "idle", "wait_fc" or "block"
  size, bytes_sent, seq_num, block_left,
  receiving,     \* the forwarder: "idle", "cfs" or "aborted"
  total_size, uds_rx_buffer, expected_seq_num,
  responses      \* log of the responses put together

send_vars == <<frame, fc_frame_queue, sending, size, bytes_sent, seq_num, block_left>>
receive_vars == <<receiving, total_size, uds_rx_buffer, expected_seq_num, responses>>

Least(a, b) == IF a < b THEN a ELSE b
NextNibble(seq) == (seq + 1) % 16
MAX_CONSECUTIVE_FRAMES_IN_BLOCK == 4095

SingleFrame(n) == [pci |-> "SF", len |-> n, from |-> 0, dlc |-> n + 1]
FirstFrame(announced, dlc) ==
  [pci |-> "FF", len |-> announced, from |-> 0, dlc |-> dlc]
ConsFrame(sn, from, dlc) == [pci |-> "CF", len |-> sn, from |-> from, dlc |-> dlc]
FlowControl(fs, bs) == [fs |-> fs, bs |-> bs]

\* write() on the CAN socket: one that fails puts nothing on the bus.
NoFrame == [pci |-> "none", len |-> 0, from |-> 0, dlc |-> 0]
Write(f, ok) == frame' = IF ok THEN f ELSE NoFrame

\* n more bytes, the message's from on.
Empty == [n |-> 0, whole |-> TRUE]
Extend(buffer, from, n) ==
  [n |-> buffer.n + n, whole |-> buffer.whole /\ from = buffer.n]

-----------------------------------------------------------------------------
(* isotp_send *)

SendSingleFrame(n, ok) ==
  /\ sending = "idle" /\ n <= 7
  /\ Write(SingleFrame(n), ok)
  /\ UNCHANGED <<fc_frame_queue, sending, size, bytes_sent, seq_num, block_left>>

\* The length has twelve bits.  Whether the frame was written is not looked at.
Announced_OneByte(n) == n % 256
Announced(n) == n % 4096
SendFirstFrame(n, ok) ==
  /\ sending = "idle" /\ n > 7
  /\ Write(FirstFrame(Announced(n), 8), ok)
  /\ size' = n /\ bytes_sent' = 6 /\ seq_num' = 1
  /\ sending' = "wait_fc"
  /\ UNCHANGED <<fc_frame_queue, block_left>>

\* wait_for_flow_control pops the oldest: a block may be sent, another Flow Control
\* frame is waited for, or the transfer is given up.
Granted(bs) == IF bs = 0 THEN MAX_CONSECUTIVE_FRAMES_IN_BLOCK ELSE bs
TakeFlowControl ==
  /\ sending = "wait_fc" /\ fc_frame_queue # <<>>
  /\ fc_frame_queue' = Tail(fc_frame_queue)
  /\ LET fc == Head(fc_frame_queue) IN
       \/ fc.fs = "CTS" /\ sending' = "block" /\ block_left' = Granted(fc.bs)
       \/ fc.fs = "WAIT" /\ UNCHANGED <<sending, block_left>>
       \/ fc.fs = "OVFLW" /\ sending' = "idle" /\ UNCHANGED block_left
  /\ UNCHANGED <<frame, size, bytes_sent, seq_num>>

Timeout ==
  /\ sending = "wait_fc" /\ fc_frame_queue = <<>>
  /\ sending' = "idle"
  /\ UNCHANGED <<frame, fc_frame_queue, size, bytes_sent, seq_num, block_left>>

SendConsecutiveFrame ==
  LET n == Least(7, size - bytes_sent)
  IN /\ sending = "block"
     /\ Write(ConsFrame(seq_num, bytes_sent, n + 1), TRUE)
     /\ bytes_sent' = bytes_sent + n
     /\ seq_num' = NextNibble(seq_num)
     /\ block_left' = block_left - 1
     /\ sending' = CASE bytes_sent' = size -> "idle"
                     [] bytes_sent' < size /\ block_left' = 0 -> "wait_fc"
                     [] OTHER -> "block"
     /\ UNCHANGED <<fc_frame_queue, size>>

\* A consecutive frame's write fails: the transfer is given up.
AbortTransfer ==
  /\ sending = "block" /\ sending' = "idle"
  /\ Write(ConsFrame(seq_num, bytes_sent, Least(7, size - bytes_sent) + 1), FALSE)
  /\ UNCHANGED <<fc_frame_queue, size, bytes_sent, seq_num, block_left>>

\* isotp_send returns true with its last write.
SendSucceeds == sending' = "idle" /\ frame' # NoFrame

-----------------------------------------------------------------------------
(* The forwarder: isotp_handle_single_frame, isotp_handle_multi_frame *)

Locals(total, buffer, seq) ==
  total_size' = total /\ uds_rx_buffer' = buffer /\ expected_seq_num' = seq

GoOn(total, buffer, seq) ==
  IF buffer.n < total
  THEN receiving' = "cfs" /\ Locals(total, buffer, seq) /\ UNCHANGED responses
  ELSE /\ receiving' = "idle" /\ Locals(0, Empty, 0)
       /\ responses' = Append(responses, buffer)

\* The function returns no bytes.
GiveUp == receiving' = "idle" /\ Locals(0, Empty, 0) /\ UNCHANGED responses

\* Nothing for a length of 0, or of more than 7.
HandleSingleFrame(f) ==
  /\ receiving = "idle" /\ f.pci = "SF"
  /\ responses' = IF f.len \in 1 .. 7 THEN Append(responses, Extend(Empty, 0, f.len))
                                      ELSE responses
  /\ UNCHANGED <<receiving, total_size, uds_rx_buffer, expected_seq_num>>

\* assign() from the third byte to the dlc-th: with a dlc below 2, of which only 1 has a
\* first byte, the range is upside down, and std::length_error ends the process.
HandleFirstFrame(f) ==
  /\ receiving = "idle" /\ f.pci = "FF" /\ f.dlc >= 2
  /\ GoOn(f.len, Extend(Empty, f.from, f.dlc - 2), 1)

FirstFrameTooShort(f) ==
  /\ receiving = "idle" /\ f.pci = "FF" /\ f.dlc < 2
  /\ receiving' = "aborted"
  /\ UNCHANGED <<total_size, uds_rx_buffer, expected_seq_num, responses>>

\* The least of what is missing and what the frame has, both as uint16_t.
BytesToCopy_Frame(f) == f.dlc - 1
BytesToCopy(f) ==
  Least((total_size - uds_rx_buffer.n) % 65536, (f.dlc - 1) % 65536)
HandleConsecutiveFrame(f) ==
  /\ receiving = "cfs" /\ f.pci = "CF" /\ f.len = expected_seq_num
  /\ GoOn(total_size, Extend(uds_rx_buffer, f.from, BytesToCopy(f)),
          NextNibble(expected_seq_num))

\* Anything else drops the response; so does the timeout.
Unexpected(f) ==
  /\ receiving = "cfs" /\ (f.pci # "CF" \/ f.len # expected_seq_num)
  /\ GiveUp
Stray(f) == receiving = "idle" /\ f.pci = "CF" /\ UNCHANGED receive_vars

Receive(f) ==
  \/ HandleSingleFrame(f) \/ HandleFirstFrame(f) \/ FirstFrameTooShort(f)
  \/ HandleConsecutiveFrame(f) \/ Unexpected(f) \/ Stray(f)

CfTimeout == receiving = "cfs" /\ GiveUp

IsoTpInit ==
  /\ frame = NoFrame /\ fc_frame_queue = <<>> /\ sending = "idle"
  /\ size = 0 /\ bytes_sent = 0 /\ seq_num = 0 /\ block_left = 0
  /\ receiving = "idle" /\ total_size = 0 /\ uds_rx_buffer = Empty
  /\ expected_seq_num = 0 /\ responses = <<>>

=============================================================================
