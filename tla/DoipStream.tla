----------------------------- MODULE DoipStream -----------------------------
(***************************************************************************)
(* How handle_doip_session cuts the TCP stream into DoIP messages: a read  *)
(* for the eight bytes of the header, and as many as it takes for the      *)
(* payload.  TCP delivers the bytes in pieces of its own making.           *)
(*                                                                         *)
(* Only the message at the front of the stream matters: "here" of its      *)
(* bytes have arrived, "got" of them were read.  UdsGateway's              *)
(* ReceiveMessage is all of this in one step.                              *)
(***************************************************************************)
EXTENDS Integers, Sequences

VARIABLES
  wire,    \* log of the messages the tester sent
  closed,  \* has it closed the connection?
  here, got,
  phase,   \* main: "header", "payload", "dispatch", "send", "transfer", "ended"
           \* or "aborted"; "astray" once it takes other bytes for a header
  torn,    \* has a header come in pieces?
  taken    \* log of the messages main dispatched

stream_vars == <<wire, closed, here, got, phase, torn, taken>>

HeaderSize == 8
Front == wire[Len(taken) + 1]
Total == HeaderSize + Front.length

\* The payload has the addresses and the UDS request.
UdsSize(message) == message.length - 4

TesterWrites(type, length) ==
  /\ ~closed
  /\ wire' = Append(wire, [type |-> type, length |-> length])
  /\ UNCHANGED <<closed, here, got, phase, torn, taken>>

TesterLeaves ==
  /\ ~closed /\ closed' = TRUE
  /\ UNCHANGED <<wire, here, got, phase, torn, taken>>

Arrive(bytes) ==
  /\ Len(taken) < Len(wire)
  /\ here < bytes /\ bytes <= Total
  /\ here' = bytes
  /\ UNCHANGED <<wire, closed, got, phase, torn, taken>>

ReadHeader ==
  /\ phase = "header" /\ here >= HeaderSize
  /\ got' = HeaderSize
  /\ phase' = IF Front.length = 0 THEN "dispatch" ELSE "payload"
  /\ UNCHANGED <<wire, closed, here, torn, taken>>

\* Fewer than eight bytes: they are dropped, and what comes next is taken for a
\* header.  Bound: what main does with such a stream is not followed.
ReadHeaderInPieces ==
  /\ phase = "header" /\ 0 < here /\ here < HeaderSize
  /\ torn' = TRUE
  /\ phase' = "astray"
  /\ UNCHANGED <<wire, closed, here, got, taken>>

\* The loop ends with the last byte of the payload, however it came.
Received_Once == "dispatch"
Received == IF got' = Total THEN "dispatch" ELSE "payload"
ReadPayload ==
  /\ phase = "payload" /\ got < here
  /\ got' = here
  /\ phase' = Received
  /\ UNCHANGED <<wire, closed, here, torn, taken>>

\* A diagnostic message without room for the addresses: std::length_error.
HasAddresses(message) == message.length >= 4
Dispatch ==
  /\ phase = "dispatch"
  /\ taken' = Append(taken, [type |-> Front.type, length |-> got - HeaderSize])
  /\ here' = here - got /\ got' = 0
  /\ phase' = IF Front.type = "diag"
              THEN IF HasAddresses(Front) THEN "send" ELSE "aborted"
              ELSE "header"
  /\ UNCHANGED <<wire, closed, torn>>

ConnectionLost ==
  /\ phase \in {"header", "payload"} /\ closed /\ here = got
  /\ phase' = "ended"
  /\ UNCHANGED <<wire, closed, here, got, torn, taken>>

StreamInit ==
  /\ wire = <<>> /\ closed = FALSE /\ here = 0 /\ got = 0
  /\ phase = "header" /\ torn = FALSE /\ taken = <<>>

=============================================================================
