---------------------------- MODULE GatewayBytes ----------------------------
(***************************************************************************)
(* The gateway's byte counts: a tester that writes DoIP messages to a TCP  *)
(* stream, isotp_send, and an ECU that puts the requests together; or an   *)
(* ECU that sends, and the forwarder that puts the responses together.     *)
(* The two ways share no counter, and a behaviour shows one of them.  A    *)
(* write may fail, a Flow Control frame be lost or come too late; a frame  *)
(* once written arrives (GatewaySystem has the ones that do not).          *)
(*                                                                         *)
(* The ECU follows ISO 15765-2: it ignores a first frame that announces    *)
(* fewer than eight bytes, and may pad its frames to eight.  A runt is a   *)
(* frame of one byte, which no ECU should send.  Bounds: an ECU grants     *)
(* blocks of one size, and sends a Flow Control frame once main has taken  *)
(* the one before.                                                         *)
(***************************************************************************)
EXTENDS DoipStream, IsoTp

CONSTANTS
  Lengths,         \* payload lengths of the tester's messages
  Cuts,            \* where in a message a piece of the stream may end
  BlockSizes,      \* what an ECU's Flow Control frames grant
  ResponseSizes,   \* sizes of the ECU's messages
  MaxMessages, MaxAnswers, MaxRunts, MaxWaits, MaxMishaps   \* bounds

\* ISO-TP messages have 1 to 4095 bytes.
ASSUME BytesAssumption ==
  /\ Lengths \subseteq Nat /\ Cuts \subseteq Nat
  /\ BlockSizes \subseteq 0 .. 255 /\ ResponseSizes \subseteq 1 .. 4095
  /\ {MaxMessages, MaxAnswers, MaxRunts, MaxWaits, MaxMishaps} \subseteq Nat

VARIABLES
  way,        \* "requests" or "responses"
  block_size, \* what the ECU grants
  e_total, e_buffer, e_seq, e_block,  \* the request it puts together
  requests,   \* log of those it has whole, as buffers
  asked,      \* log of the requests main began to send, by their places in taken
  succeeded,  \* log of those for which isotp_send returned true
  waits, mishaps,   \* what is spent of the bounds
  late,       \* has main given up waiting for a Flow Control frame still to come?
  t_size, t_sent, t_seq,              \* the response it sends
  answers,    \* log of the sizes of its responses
  runts

ecu_rx == <<e_total, e_buffer, e_seq, e_block, requests>>
results == <<asked, succeeded>>
faults == <<waits, mishaps, late>>
ecu_tx == <<t_size, t_sent, t_seq, answers>>
bytes_vars == <<stream_vars, send_vars, receive_vars, way, block_size, ecu_rx, results,
                faults, ecu_tx, runts>>

-----------------------------------------------------------------------------
(* Requests *)

NothingMore == e_total' = 0 /\ e_buffer' = Empty /\ e_seq' = 0 /\ e_block' = 0

EcuTakes(f) ==
  \/ f.pci = "none" /\ UNCHANGED ecu_rx
  \/ /\ f.pci = "SF"
     /\ requests' = IF f.len = 0 THEN requests
                    ELSE Append(requests, Extend(Empty, f.from, f.len))
     /\ NothingMore
  \/ /\ f.pci = "FF" /\ f.len < 8
     /\ NothingMore /\ UNCHANGED requests
  \/ /\ f.pci = "FF" /\ f.len >= 8
     /\ e_total' = f.len /\ e_buffer' = Extend(Empty, f.from, 6)
     /\ e_seq' = 1 /\ e_block' = 0
     /\ UNCHANGED requests
  \/ /\ f.pci = "CF"
     /\ LET n == Least(7, e_total - e_buffer.n)
            buffer == Extend(e_buffer, f.from, n)
            next == e_block > 0 /\ f.len = e_seq /\ f.dlc > n
        IN \/ ~next /\ NothingMore /\ UNCHANGED requests
           \/ /\ next /\ buffer.n = e_total
              /\ requests' = Append(requests, buffer) /\ NothingMore
           \/ /\ next /\ buffer.n < e_total
              /\ e_buffer' = buffer /\ e_seq' = NextNibble(e_seq)
              /\ e_block' = e_block - 1
              /\ UNCHANGED <<e_total, requests>>

\* A mishap: a write that fails, a Flow Control frame lost or saying there is no room,
\* a timeout although it was still to come.
Goes(well) ==
  /\ well \/ mishaps < MaxMishaps
  /\ mishaps' = IF well THEN mishaps ELSE mishaps + 1

Request == taken[Len(taken)]
MainReturns ==
  succeeded' = IF SendSucceeds /\ UdsSize(Request) > 0 THEN Append(succeeded, Len(taken))
                                                      ELSE succeeded
MainGoesOn ==
  /\ phase' = IF sending' = "idle" THEN "header" ELSE "transfer"
  /\ UNCHANGED <<wire, closed, here, got, torn, taken>>

MainSends(ok) ==
  /\ phase = "send"
  /\ SendSingleFrame(UdsSize(Request), ok) \/ SendFirstFrame(UdsSize(Request), ok)
  /\ asked' = IF UdsSize(Request) > 0 THEN Append(asked, Len(taken)) ELSE asked
  /\ MainReturns /\ MainGoesOn
  /\ EcuTakes(frame') /\ Goes(ok)
  /\ UNCHANGED <<waits, late>>

MainContinues(ok) ==
  /\ IF ok THEN SendConsecutiveFrame ELSE AbortTransfer
  /\ MainReturns /\ MainGoesOn
  /\ EcuTakes(frame') /\ Goes(ok)
  /\ UNCHANGED <<asked, waits, late>>

MainTakesFlowControl ==
  /\ TakeFlowControl
  /\ MainGoesOn
  /\ UNCHANGED <<ecu_rx, results, faults>>

\* The ECU has a request it will send a Flow Control frame for.
Owes == e_total > 0 /\ e_block = 0

MainTimesOut ==
  /\ Timeout
  /\ MainGoesOn
  /\ late' = (late \/ Owes) /\ Goes(~Owes)
  /\ UNCHANGED <<ecu_rx, results, waits>>

\* The forwarder, which has nothing else to do, hands it to main.
EcuFlowControl(fs, lost) ==
  /\ Owes /\ fc_frame_queue = <<>>
  /\ fc_frame_queue' = IF lost THEN <<>> ELSE << FlowControl(fs, block_size) >>
  /\ \/ /\ fs = "CTS"
        /\ e_block' = Granted(block_size)
        /\ UNCHANGED <<e_total, e_buffer, e_seq, waits>>
     \/ /\ fs = "WAIT" /\ waits < MaxWaits
        /\ waits' = waits + 1
        /\ UNCHANGED <<e_total, e_buffer, e_seq, e_block>>
     \/ fs = "OVFLW" /\ NothingMore /\ UNCHANGED waits
  /\ Goes(~lost /\ fs # "OVFLW")
  /\ UNCHANGED <<stream_vars, frame, sending, size, bytes_sent, seq_num, block_left,
                 requests, results, late>>

Stream ==
  /\ \/ /\ Len(wire) < MaxMessages
        /\ \E type \in {"diag", "other"}, n \in Lengths : TesterWrites(type, n)
     \/ TesterLeaves
     \/ Len(taken) < Len(wire) /\ \E n \in Cuts \cup {Total} : Arrive(n)
     \/ ReadHeader \/ ReadHeaderInPieces \/ ReadPayload \/ Dispatch
     \/ ConnectionLost
  /\ UNCHANGED <<send_vars, ecu_rx, results, faults>>

Requests ==
  /\ way = "requests"
  /\ \/ Stream \/ MainTakesFlowControl \/ MainTimesOut
     \/ \E ok \in BOOLEAN : MainSends(ok) \/ MainContinues(ok)
     \/ \E fs \in {"CTS", "WAIT", "OVFLW"}, lost \in BOOLEAN : EcuFlowControl(fs, lost)
  /\ UNCHANGED <<receive_vars, way, block_size, ecu_tx, runts>>

-----------------------------------------------------------------------------
(* Responses *)

EcuSends(n, padded) ==
  /\ t_size = 0 /\ receiving = "idle" /\ Len(answers) < MaxAnswers
  /\ answers' = Append(answers, n)
  /\ IF n <= 7
     THEN /\ Receive([SingleFrame(n) EXCEPT !.dlc = IF padded THEN 8 ELSE @])
          /\ UNCHANGED <<t_size, t_sent, t_seq>>
     ELSE /\ Receive(FirstFrame(n, 8))
          /\ t_size' = n /\ t_sent' = 6 /\ t_seq' = 1
  /\ UNCHANGED runts

EcuContinues(padded) ==
  /\ t_size > 0
  /\ LET n == Least(7, t_size - t_sent)
     IN /\ Receive(ConsFrame(t_seq, t_sent, IF padded THEN 8 ELSE n + 1))
        /\ IF t_sent + n = t_size
           THEN t_size' = 0 /\ t_sent' = 0 /\ t_seq' = 0
           ELSE t_size' = t_size /\ t_sent' = t_sent + n /\ t_seq' = NextNibble(t_seq)
  /\ UNCHANGED <<answers, runts>>

Runt ==
  /\ runts < MaxRunts /\ runts' = runts + 1
  /\ \/ Receive(FirstFrame(256, 1))
     \/ Receive(ConsFrame(expected_seq_num, uds_rx_buffer.n, 1))
  /\ UNCHANGED ecu_tx

ForwarderTimesOut ==
  /\ t_size = 0
  /\ CfTimeout
  /\ UNCHANGED <<ecu_tx, runts>>

Responses ==
  /\ way = "responses"
  /\ receiving # "aborted"
  /\ \/ \E padded \in BOOLEAN :
          EcuContinues(padded) \/ \E n \in ResponseSizes : EcuSends(n, padded)
     \/ Runt \/ ForwarderTimesOut
  /\ UNCHANGED <<stream_vars, send_vars, way, block_size, ecu_rx, results, faults>>

BytesInit ==
  /\ StreamInit /\ IsoTpInit
  /\ way \in {"requests", "responses"} /\ block_size \in BlockSizes
  /\ e_total = 0 /\ e_buffer = Empty /\ e_seq = 0 /\ e_block = 0 /\ requests = <<>>
  /\ asked = <<>> /\ succeeded = <<>> /\ waits = 0 /\ mishaps = 0 /\ late = FALSE
  /\ t_size = 0 /\ t_sent = 0 /\ t_seq = 0 /\ answers = <<>> /\ runts = 0

BytesNext == Requests \/ Responses

BytesSpec == BytesInit /\ [][BytesNext]_bytes_vars

-----------------------------------------------------------------------------
(* Properties *)

\* While every header comes in one piece, main takes the tester's messages one by one
\* and whole, however the stream is cut elsewhere.
InStep == torn \/ taken = SubSeq(wire, 1, Len(taken))

\* Main sends every request it takes, once and in their order.  While requests have up
\* to 4095 bytes and main gives up no Flow Control frame still to come, the requests the
\* ECU has are those for which isotp_send returned true, with all their bytes in order,
\* whatever blocks it grants and whatever write fails; and without a mishap these are
\* all the requests.
IsRequest(i) == taken[i].type = "diag" /\ taken[i].length > 4
InHand(i) == i = Len(taken) /\ phase = "send"
SentOnce ==
  /\ \A i \in DOMAIN taken :
       IsRequest(i) => InHand(i) \/ \E j \in DOMAIN asked : asked[j] = i
  /\ \A i, j \in DOMAIN asked : i < j => asked[i] < asked[j]

WholeMessages(sizes) == [i \in DOMAIN sizes |-> [n |-> sizes[i], whole |-> TRUE]]
AllButLast(log) == SubSeq(log, 1, Len(log) - 1)
Sizes(log) == [j \in DOMAIN log |-> UdsSize(taken[log[j]])]
Small == \A j \in DOMAIN asked : UdsSize(taken[asked[j]]) <= 4095
RequestWhole ==
  /\ SentOnce
  /\ Small /\ ~late => requests = WholeMessages(Sizes(succeeded))
  /\ Small /\ mishaps = 0 =>
       \/ succeeded = asked
       \/ phase = "transfer" /\ succeeded = AllButLast(asked)

\* Every response the ECU sends, up to the 4095 bytes ISO-TP allows, is put together with
\* its own bytes and none of the padding, unless a runt comes.  No other frame comes
\* between the frames of a response here: NoMixedResponse has those, and the lost ones.
ResponseWhole ==
  runts = 0 =>
    \/ responses = WholeMessages(answers)
    \/ receiving = "cfs" /\ responses = WholeMessages(AllButLast(answers))

=============================================================================
