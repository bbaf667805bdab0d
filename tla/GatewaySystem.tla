---------------------------- MODULE GatewaySystem ----------------------------
(***************************************************************************)
(* The gateway between a tester and an ECU that follows ISO 15765-2.  The  *)
(* ECU is not part of the repository: it is what uds_gateway.cpp takes it  *)
(* to be.  It answers a Flow Control frame to a first frame and after each *)
(* block of BlockSize, puts requests together by their sequence numbers    *)
(* alone, answers each request it has whole, and sends periodic data       *)
(* unasked; a response longer than a frame waits for the gateway's Flow    *)
(* Control.                                                                *)
(*                                                                         *)
(* Every step is a step of UdsGateway, or leaves its variables alone.      *)
(***************************************************************************)
EXTENDS UdsGateway

CONSTANTS
  BlockSize,       \* the ECU's BS
  EcuStatuses,     \* what its Flow Control frames may say
  ResponseSizes,   \* sizes of its messages, in consecutive frames
  Settings,        \* under which conditions the system may run, see below
  MaxSessions, MaxRequests, MaxWaits, MaxLosses,   \* bounds
  MaxPeriodic, MaxQuietPeriodic   \* bounds on unasked messages: outside, in a quiet setting

ASSUME SystemAssumption ==
  /\ BlockSize \in 0 .. 255
  /\ EcuStatuses \subseteq FlowStatus
  /\ ResponseSizes \subseteq Nat
  /\ Settings \subseteq {"quiet", "busy", "late"}
  /\ {MaxSessions, MaxRequests, MaxWaits, MaxLosses} \subseteq Nat
  /\ {MaxPeriodic, MaxQuietPeriodic} \subseteq Nat

VARIABLES
  setting,   \* the conditions the system runs under
  seen,      \* how many of the gateway's frames the ECU has dealt with
  ecu_rx,    \* the request it is putting together
  ecu_tx,    \* the response it is sending
  due,       \* the requests it has still to answer
  requests,  \* log: the requests it got, as chunks
  answers,   \* log: the messages it began to send
  grants,    \* log: the consecutive frames its FCs granted, by request
  asked,     \* the tester's last request on this connection, 0 for none
  sessions, periodic, waits, losses   \* what is spent of the bounds

ecu_rx_vars == <<seen, ecu_rx, due, requests>>
ecu_tx_vars == <<ecu_tx, answers>>
budget == <<sessions, periodic, waits, losses>>
ecu_vars == <<ecu_rx_vars, ecu_tx_vars, grants, budget>>
system_vars == <<vars, ecu_vars, asked, setting>>

\* In a quiet setting there is one session, nothing is lost or refused, the tester waits
\* for a response before its next request, and what the ECU sends unasked is a single
\* frame: the reassembly of a longer message swallows the Flow Control frame of a request
\* sent meanwhile.  Only in a late setting does a timeout strike although what it waits
\* for is coming.
Quiet == setting = "quiet"
Pipelined == setting # "quiet"
Punctual == setting # "late"

\* The consecutive frames one clear-to-send stands for.
EcuBlock == IF BlockSize = 0 THEN MAX_CONSECUTIVE_FRAMES_IN_BLOCK ELSE BlockSize

NoRx == [data |-> <<>>, cfs |-> 0, block |-> 0, owes |-> FALSE]
NoTx == [id |-> 0, cfs |-> 0, sent |-> 0, go |-> FALSE]

\* All the chunks of a message.
Whole(m, cfs) == [i \in 1 .. cfs + 1 |-> <<m, i - 1>>]

\* The ids of the response to request m, and of the n-th periodic message.
ResponseTo(m) == 2 * m
PeriodicId(n) == 2 * n + 1

-----------------------------------------------------------------------------
(* The ECU sends *)

\* A frame for the gateway gets lost in the socket's full buffer, or where no
\* session listens.
Send(f) ==
  \/ BusDelivers(f) /\ UNCHANGED losses
  \/ ~Quiet /\ can_open /\ losses < MaxLosses /\ losses' = losses + 1 /\ UNCHANGED vars
  \/ ~can_open /\ UNCHANGED <<losses, vars>>

\* Clear to send, or wait, or no room.
EcuFlowControl(fs) ==
  /\ ecu_rx.owes
  /\ LET m == ecu_rx.data[1][1] IN
       /\ Send(FC(fs, BlockSize, m))
       /\ \/ /\ fs = "CTS"
             /\ ecu_rx' = [ecu_rx EXCEPT !.owes = FALSE, !.block = EcuBlock]
             /\ grants' = [grants EXCEPT ![m] = @ + EcuBlock]
             /\ UNCHANGED waits
          \/ /\ fs = "WAIT" /\ waits < MaxWaits
             /\ waits' = waits + 1
             /\ UNCHANGED <<ecu_rx, grants>>
          \/ /\ fs = "OVFLW" /\ ~Quiet /\ waits < MaxWaits
             /\ waits' = waits + 1
             /\ ecu_rx' = NoRx
             /\ UNCHANGED grants
  /\ UNCHANGED <<seen, due, requests, ecu_tx_vars, asked, sessions, periodic>>

StartMessage(m, cfs) ==
  /\ ecu_tx = NoTx
  /\ answers' = Append(answers, [id |-> m, cfs |-> cfs])
  /\ \/ cfs = 0 /\ Send(SF(m)) /\ UNCHANGED ecu_tx
     \/ /\ cfs > 0 /\ Send(FF(m, cfs))
        /\ ecu_tx' = [id |-> m, cfs |-> cfs, sent |-> 0, go |-> FALSE]

EcuAnswer(cfs) ==
  /\ due # <<>>
  /\ due' = Tail(due)
  /\ StartMessage(ResponseTo(Head(due)), cfs)
  /\ UNCHANGED <<seen, ecu_rx, requests, grants, asked, sessions, periodic,
                 waits>>

EcuPeriodic(cfs) ==
  /\ periodic < IF Quiet THEN MaxQuietPeriodic ELSE MaxPeriodic
  /\ Quiet => cfs = 0
  /\ periodic' = periodic + 1
  /\ StartMessage(PeriodicId(periodic'), cfs)
  /\ UNCHANGED <<ecu_rx_vars, grants, asked, sessions, waits>>

EcuConsecutiveFrame ==
  /\ ecu_tx.go
  /\ LET k == ecu_tx.sent + 1 IN
       /\ Send(CF(ecu_tx.id, k, k % SeqMod))
       /\ ecu_tx' = IF k = ecu_tx.cfs THEN NoTx ELSE [ecu_tx EXCEPT !.sent = k]
  /\ UNCHANGED <<ecu_rx_vars, answers, grants, asked, sessions, periodic,
                 waits>>

\* No Flow Control comes for the response.
FlowControlComing ==
  \/ \E i \in seen + 1 .. Len(bus) : bus[i].pci = "FC"
  \/ can_open /\ fpc # "done" /\ \E i \in DOMAIN can_rx : can_rx[i].pci = "FF"
EcuGivesUp ==
  /\ ecu_tx # NoTx /\ ~ecu_tx.go
  /\ Punctual => ~FlowControlComing
  /\ ecu_tx' = NoTx
  /\ UNCHANGED <<vars, ecu_rx_vars, answers, grants, asked, budget>>

-----------------------------------------------------------------------------
(* The ECU receives *)

\* The ECU has a whole request.
Take(data) ==
  /\ requests' = Append(requests, data)
  /\ due' = Append(due, data[1][1])

EcuReceivesRequest(f) ==
  \/ f.pci = "SF" /\ Take(<<f.data>>) /\ ecu_rx' = NoRx
  \/ /\ f.pci = "FF"
     /\ ecu_rx' = [data |-> <<f.data>>, cfs |-> f.cfs, block |-> 0, owes |-> TRUE]
     /\ UNCHANGED <<requests, due>>
  \/ /\ f.pci = "CF"
     /\ LET got == Append(ecu_rx.data, f.data)
            next == ecu_rx # NoRx /\ ecu_rx.block > 0
                      /\ f.sn = Len(ecu_rx.data) % SeqMod
        IN \/ ~next /\ ecu_rx' = NoRx /\ UNCHANGED <<requests, due>>
           \/ next /\ Len(got) = ecu_rx.cfs + 1 /\ Take(got) /\ ecu_rx' = NoRx
           \/ /\ next /\ Len(got) <= ecu_rx.cfs
              /\ ecu_rx' = [ecu_rx EXCEPT !.data = got, !.block = @ - 1,
                                          !.owes = ecu_rx.block = 1]
              /\ UNCHANGED <<requests, due>>

EcuReceives ==
  /\ seen < Len(bus)
  /\ seen' = seen + 1
  /\ LET f == bus[seen'] IN
       \/ /\ f.pci = "FC"
          /\ ecu_tx' = IF ecu_tx = NoTx THEN NoTx ELSE [ecu_tx EXCEPT !.go = TRUE]
          /\ UNCHANGED <<ecu_rx, requests, due>>
       \/ f.pci # "FC" /\ EcuReceivesRequest(f) /\ UNCHANGED ecu_tx
  /\ UNCHANGED <<vars, answers, grants, asked, budget>>

\* A frame of the gateway is lost on the way.
EcuMisses ==
  /\ ~Quiet /\ seen < Len(bus) /\ losses < MaxLosses
  /\ seen' = seen + 1 /\ losses' = losses + 1
  /\ UNCHANGED <<vars, ecu_rx, due, requests, ecu_tx_vars, grants, asked,
                 sessions, periodic, waits>>

-----------------------------------------------------------------------------
(* The system *)

Delivered == {to_tester[j] : j \in {i \in DOMAIN to_tester : to_tester[i].type = "response"}}
Answered(m) == \E r \in Delivered : r.data[1][1] = ResponseTo(m)

SessionsOver == sessions = IF Quiet THEN 1 ELSE MaxSessions
SystemAccept ==
  /\ Accept /\ ~SessionsOver
  /\ sessions' = sessions + 1 /\ asked' = 0
  /\ UNCHANGED <<ecu_rx_vars, ecu_tx_vars, grants, periodic, waits, losses>>

\* A Flow Control frame, or the end of the response, is on its way.
GrantComing ==
  \/ ecu_rx.owes \/ seen < Len(bus)
  \/ fpc # "done" /\ \E i \in DOMAIN can_rx : can_rx[i].pci = "FC"
FramesComing == ecu_tx.go \/ \E i \in seen + 1 .. Len(bus) : bus[i].pci = "FC"

\* Every frame either thread has for the bus gets there.
AllWritten ==
  (\/ mpc \in {"send", "block"} /\ mpc' # mpc
   \/ fpc = "read" /\ fpc' = "cfs") => bus' # bus

SystemMain ==
  /\ MainStep
  /\ Quiet => AllWritten
  /\ Punctual /\ mpc = "wait_fc" /\ fc_frame_queue = <<>> => ~GrantComing
  /\ UNCHANGED <<ecu_vars, asked, setting>>

SystemForwarder ==
  /\ ForwarderStep
  /\ Quiet => AllWritten
  /\ Punctual /\ fpc = "cfs" /\ can_rx = <<>> => ~FramesComing
  /\ UNCHANGED <<ecu_vars, asked, setting>>

SystemTester ==
  \/ /\ msgs < MaxRequests
     /\ Pipelined \/ asked = 0 \/ Answered(asked)
     /\ \E cfs \in RequestSizes : TesterSends("diag", cfs)
     /\ asked' = msgs'
     /\ UNCHANGED ecu_vars
  \/ TesterCloses /\ UNCHANGED <<ecu_vars, asked>>

Ecu ==
  /\ \/ \E fs \in EcuStatuses : EcuFlowControl(fs)
     \/ \E cfs \in ResponseSizes : EcuAnswer(cfs) \/ EcuPeriodic(cfs)
     \/ EcuConsecutiveFrame \/ EcuGivesUp \/ EcuReceives \/ EcuMisses
  /\ UNCHANGED setting

\* The last session is over.
Rest ==
  /\ mpc = "accept" /\ SessionsOver
  /\ UNCHANGED system_vars

SystemInit ==
  /\ Init /\ setting \in Settings
  /\ seen = 0 /\ ecu_rx = NoRx /\ ecu_tx = NoTx
  /\ due = <<>> /\ requests = <<>> /\ answers = <<>>
  /\ grants = [m \in 1 .. MaxRequests |-> 0]
  /\ asked = 0
  /\ sessions = 0 /\ periodic = 0 /\ waits = 0 /\ losses = 0

SystemNext ==
  \/ (SystemAccept \/ SystemTester) /\ UNCHANGED setting
  \/ SystemMain \/ SystemForwarder \/ Ecu \/ Rest

\* The scheduler runs both threads and the ECU; the tester does as it likes.
Fairness ==
  /\ WF_system_vars(SystemMain)
  /\ WF_system_vars(SystemForwarder)
  /\ WF_system_vars(Ecu)

SystemSpec == SystemInit /\ [][SystemNext]_system_vars
FairSystem == SystemSpec /\ Fairness

-----------------------------------------------------------------------------
(* Properties *)

\* The ECU's variables keep to their types.
SystemTypeOK ==
  /\ TypeOK
  /\ seen \in 0 .. Len(bus)
  /\ ecu_rx \in [data : Seq(Chunk), cfs : Nat, block : Nat, owes : BOOLEAN]
  /\ ecu_tx \in [id : Nat, cfs : Nat, sent : Nat, go : BOOLEAN]
  /\ due \in Seq(1 .. MaxRequests)
  /\ requests \in Seq(Seq(Chunk))
  /\ answers \in Seq([id : Nat, cfs : Nat])
  /\ grants \in [1 .. MaxRequests -> Nat]

\* What the tester is given as a response is one message of the ECU, whole:
\* never a part of one, nor frames of two, whatever frames were lost.
NoMixedResponse ==
  \A r \in Delivered :
    \E i \in DOMAIN answers : r.data = Whole(answers[i].id, answers[i].cfs)

\* Responses reach the tester in the order the ECU began them, none of them
\* twice.
BegunAt(r) == {i \in DOMAIN answers : answers[i].id = r.data[1][1]}
ResponsesInOrder ==
  \A j, l \in DOMAIN to_tester :
    j < l /\ {to_tester[j].type, to_tester[l].type} = {"response"} =>
      \A a \in BegunAt(to_tester[j]), b \in BegunAt(to_tester[l]) : a < b

\* The tester never sees a response before the acknowledgement of its request, though
\* two threads write them.  Where the connection refused the acknowledgement, a response
\* may still come in the next session.
AckBeforeResponse ==
  \A j \in DOMAIN to_tester : to_tester[j].type = "response" =>
    \A m \in 1 .. msgs : to_tester[j].data[1][1] = ResponseTo(m) =>
      \E i \in 1 .. j - 1 : to_tester[i] \in {Ack(m), Refused(m)}

\* A request the ECU has put together is what the tester sent, whole, and no
\* request gets there twice or overtakes another.
RequestIntact ==
  \A i \in DOMAIN requests :
    /\ requests[i] = Whole(requests[i][1][1], Len(requests[i]) - 1)
    /\ \A j \in 1 .. i - 1 : requests[j][1][1] < requests[i][1][1]

\* The gateway sends no more consecutive frames of a request than the ECU's
\* Flow Control frames for that request granted.
NoUngrantedCF ==
  \A m \in 1 .. msgs :
    Cardinality({i \in DOMAIN bus : bus[i].pci = "CF" /\ bus[i].data[1] = m})
      <= grants[m]

\* A session whose tester has hung up ends, and main accepts the next one.
SessionEnds == peer \in {"closed", "reset"} ~> mpc = "accept"

\* In a quiet setting, with no message of several frames sent unasked, a request
\* acknowledged to a tester that stays gets its response.
RequestAnswered ==
  \A m \in 1 .. MaxRequests :
    Quiet /\ mpc = "send" /\ cur.id = m /\ peer = "open" ~> Answered(m) \/ peer # "open"

=============================================================================
