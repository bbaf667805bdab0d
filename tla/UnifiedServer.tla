---------------------------- MODULE UnifiedServer ----------------------------
(***************************************************************************)
(* server/veh_unified_server.cpp: the SOME/IP server in front of the CAN   *)
(* bus.  Three threads share it:                                           *)
(*                                                                         *)
(*   main      opens the sending socket, starts the others, sleeps until a *)
(*             signal lowers g_running, and shuts the server down;         *)
(*   vsomeip   app_->start(): offers the services once registered, and     *)
(*             turns each control request into a CAN frame and an answer;  *)
(*   listener  can_listener_loop: turns each status frame into an event.   *)
(*                                                                         *)
(* vsomeip is external: it calls one handler at a time, none after stop(), *)
(* and start() returns after stop() once no handler runs.                  *)
(*                                                                         *)
(* A request is a number and the length of its payload, a CAN frame its    *)
(* number, kind and length.                                                *)
(***************************************************************************)
EXTENDS Integers, Sequences

CONSTANTS
  RequestLengths,  \* lengths of the control requests' payloads
  FrameLengths     \* can_dlc of the frames on the bus

ASSUME ServerAssumption ==
  RequestLengths \subseteq Nat /\ FrameLengths \subseteq 0 .. 8

VARIABLES
  g_running,
  mpc, vpc, cpc,   \* where main, vsomeip's thread and the listener are
  stopped,         \* app_->stop() was called
  offered,         \* the services on offer
  can_tx_fd, can_rx_fd,   \* are the sockets open?
  inbox,           \* requests vsomeip has received and not dispatched
  req,             \* the one on_control_request is at
  can_rx,          \* frames can_rx_fd holds
  frame,           \* the one the listener is at
  received,        \* how many requests the clients have sent
  heard,           \* how many frames the bus has carried
  commands,        \* log of the frames written to the bus
  responses,       \* log of the requests answered VEH_RESP_OK
  events           \* log of the status events notified

main_vars == <<mpc, stopped>>
vsomeip_vars == <<vpc, inbox, req>>
listener_vars == <<cpc, can_rx_fd, can_rx, frame>>
logs == <<commands, responses, events>>
world == <<received, heard>>
vars == <<g_running, main_vars, offered, can_tx_fd, vsomeip_vars,
          listener_vars, logs, world>>

Services == {"control", "status"}
Request  == [id : Nat, len : Nat]
CanFrame == [id : Nat, kind : {"tof", "status", "foreign"}, dlc : 0 .. 8]
Event    == [id : Nat, bytes : Nat]
Command  == [id : Nat, dlc : 0 .. 8]
NoRequest == [id |-> 0, len |-> 0]
NoFrame   == [id |-> 0, kind |-> "foreign", dlc |-> 0]

Main(from, to) == mpc = from /\ mpc' = to
Vsomeip(from, to) == vpc = from /\ vpc' = to
Listener(from, to) == cpc = from /\ cpc' = to

-----------------------------------------------------------------------------
(* main: init, start, shutdown *)

\* Without vsomeip or the sending socket the program returns -1.
InitFails ==
  /\ Main("init", "exit")
  /\ UNCHANGED <<g_running, stopped, offered, can_tx_fd, vsomeip_vars,
                 listener_vars, logs, world>>

InitSucceeds ==
  /\ Main("init", "start")
  /\ can_tx_fd' = TRUE
  /\ UNCHANGED <<g_running, stopped, offered, vsomeip_vars, listener_vars, logs,
                 world>>

StartThreads ==
  /\ Main("start", "sleep")
  /\ vpc' = "dispatch"
  /\ cpc' = "open"
  /\ UNCHANGED <<g_running, stopped, offered, can_tx_fd, inbox, req, can_rx_fd,
                 can_rx, frame, logs, world>>

WakeUp ==
  /\ Main("sleep", "withdraw_control")
  /\ ~g_running
  /\ UNCHANGED <<g_running, stopped, offered, can_tx_fd, vsomeip_vars,
                 listener_vars, logs, world>>

StopOffer(from, to, service) ==
  /\ Main(from, to)
  /\ offered' = offered \ {service}
  /\ UNCHANGED <<g_running, stopped, can_tx_fd, vsomeip_vars, listener_vars,
                 logs, world>>
StopOfferControl == StopOffer("withdraw_control", "withdraw_status", "control")
StopOfferStatus  == StopOffer("withdraw_status", "join_can", "status")

\* can_rx_thread_.join() returns.
ListenerJoined_Skipped == TRUE
ListenerJoined == cpc = "done"
JoinListener ==
  /\ Main("join_can", "stop_app")
  /\ ListenerJoined
  /\ g_running' = FALSE
  /\ UNCHANGED <<stopped, offered, can_tx_fd, vsomeip_vars, listener_vars, logs,
                 world>>

\* app_->stop() takes back whatever is still on offer.
StopApp ==
  /\ Main("stop_app", "join_vsomeip")
  /\ stopped' = TRUE
  /\ offered' = {}
  /\ UNCHANGED <<g_running, can_tx_fd, vsomeip_vars, listener_vars, logs, world>>

VsomeipJoined_Skipped == TRUE
VsomeipJoined == vpc = "done"
JoinVsomeip ==
  /\ Main("join_vsomeip", "close")
  /\ VsomeipJoined
  /\ UNCHANGED <<g_running, stopped, offered, can_tx_fd, vsomeip_vars,
                 listener_vars, logs, world>>

CloseSocket ==
  /\ Main("close", "exit")
  /\ can_tx_fd' = FALSE
  /\ UNCHANGED <<g_running, stopped, offered, vsomeip_vars, listener_vars, logs,
                 world>>

-----------------------------------------------------------------------------
(* vsomeip's thread *)

\* The state handler, each time the routing manager reports ST_REGISTERED.
OfferServices ==
  /\ vpc = "dispatch" /\ ~stopped
  /\ offered' = Services
  /\ UNCHANGED <<g_running, main_vars, can_tx_fd, vsomeip_vars, listener_vars,
                 logs, world>>

\* on_control_request returns at once for an empty payload, with no answer.
HasCommand_OrEmpty(r) == TRUE
HasCommand_Uncut(r) == r.len \in 1 .. 8
HasCommand(r) == r.len >= 1

BeginRequest ==
  /\ vpc = "dispatch" /\ ~stopped
  /\ inbox # <<>>
  /\ req' = Head(inbox)
  /\ inbox' = Tail(inbox)
  /\ vpc' = IF HasCommand(req') THEN "write" ELSE "dispatch"
  /\ UNCHANGED <<g_running, main_vars, offered, can_tx_fd, listener_vars, logs,
                 world>>

\* A frame holds the first eight bytes.
Cut(len) == IF len > 8 THEN 8 ELSE len

\* The write may fail; with no socket none is tried.
WriteCommand(ok) ==
  /\ Vsomeip("write", "respond")
  /\ ok => can_tx_fd
  /\ commands' = IF ok THEN Append(commands, [id |-> req.id, dlc |-> Cut(req.len)])
                 ELSE commands
  /\ UNCHANGED <<g_running, main_vars, offered, can_tx_fd, inbox, req,
                 listener_vars, responses, events, world>>

\* Either way the client is answered VEH_RESP_OK.
Respond ==
  /\ Vsomeip("respond", "dispatch")
  /\ responses' = Append(responses, req)
  /\ UNCHANGED <<g_running, main_vars, offered, can_tx_fd, inbox, req,
                 listener_vars, commands, events, world>>

StartReturns ==
  /\ Vsomeip("dispatch", "done")
  /\ stopped
  /\ UNCHANGED <<g_running, main_vars, offered, can_tx_fd, inbox, req,
                 listener_vars, logs, world>>

-----------------------------------------------------------------------------
(* The listener *)

\* Without a socket the thread ends, and the server goes on without status.
OpenListener(ok) ==
  /\ Listener("open", IF ok THEN "loop" ELSE "done")
  /\ can_rx_fd' = ok
  /\ UNCHANGED <<g_running, main_vars, offered, can_tx_fd, vsomeip_vars, can_rx,
                 frame, logs, world>>

WhileRunning_Forever == "poll"
WhileRunning == IF g_running THEN "poll" ELSE "close"
ListenerLoop ==
  /\ Listener("loop", WhileRunning)
  /\ UNCHANGED <<g_running, main_vars, offered, can_tx_fd, vsomeip_vars,
                 can_rx_fd, can_rx, frame, logs, world>>

PollTimeout ==
  /\ Listener("poll", "loop")
  /\ can_rx = <<>>
  /\ UNCHANGED <<g_running, main_vars, offered, can_tx_fd, vsomeip_vars,
                 can_rx_fd, can_rx, frame, logs, world>>

\* The status identifier, and a type and a value at least.
IsStatus_AnyLength(f) == f.kind # "foreign"
IsStatus_AnySender(f) == f.dlc >= 2
IsStatus_FullFrame(f) == f.kind # "foreign" /\ f.dlc = 8
IsStatus(f) == f.kind # "foreign" /\ f.dlc >= 2

\* A read() or a poll() that reports an error goes on with the loop: nothing changes.
ReadFrame ==
  /\ can_rx # <<>>
  /\ frame' = Head(can_rx)
  /\ Listener("poll", IF IsStatus(frame') THEN "publish" ELSE "loop")
  /\ can_rx' = Tail(can_rx)
  /\ UNCHANGED <<g_running, main_vars, offered, can_tx_fd, vsomeip_vars,
                 can_rx_fd, logs, world>>

\* The type and the value; a distance is cut to three bytes.
EventBytes(f) == IF f.kind = "tof" /\ f.dlc >= 4 THEN 4 ELSE f.dlc

PublishStatus ==
  /\ Listener("publish", "loop")
  /\ events' = Append(events, [id |-> frame.id, bytes |-> EventBytes(frame)])
  /\ UNCHANGED <<g_running, main_vars, offered, can_tx_fd, vsomeip_vars,
                 can_rx_fd, can_rx, frame, commands, responses, world>>

CloseListener ==
  /\ Listener("close", "done")
  /\ can_rx_fd' = FALSE
  /\ can_rx' = <<>>
  /\ UNCHANGED <<g_running, main_vars, offered, can_tx_fd, vsomeip_vars, frame,
                 logs, world>>

-----------------------------------------------------------------------------
(* The user, the clients and the bus *)

Signal ==
  /\ g_running
  /\ g_running' = FALSE
  /\ UNCHANGED <<main_vars, offered, can_tx_fd, vsomeip_vars, listener_vars,
                 logs, world>>

ClientRequests(len) ==
  /\ "control" \in offered
  /\ received' = received + 1
  /\ inbox' = Append(inbox, [id |-> received', len |-> len])
  /\ UNCHANGED <<g_running, main_vars, offered, can_tx_fd, vpc, req,
                 listener_vars, logs, heard>>

\* bind comes before the filter, which may fail: foreign frames get in.
BusDelivers(kind, dlc) ==
  /\ can_rx_fd
  /\ heard' = heard + 1
  /\ can_rx' = Append(can_rx, [id |-> heard', kind |-> kind, dlc |-> dlc])
  /\ UNCHANGED <<g_running, main_vars, offered, can_tx_fd, vsomeip_vars, cpc,
                 can_rx_fd, frame, logs, received>>

-----------------------------------------------------------------------------
(* The specification *)

Init ==
  /\ g_running = TRUE
  /\ mpc = "init" /\ vpc = "none" /\ cpc = "none"
  /\ stopped = FALSE
  /\ offered = {}
  /\ can_tx_fd = FALSE /\ can_rx_fd = FALSE
  /\ inbox = <<>> /\ req = NoRequest
  /\ can_rx = <<>> /\ frame = NoFrame
  /\ received = 0 /\ heard = 0
  /\ commands = <<>> /\ responses = <<>> /\ events = <<>>

MainStep ==
  \/ InitFails \/ InitSucceeds \/ StartThreads \/ WakeUp
  \/ StopOfferControl \/ StopOfferStatus \/ JoinListener \/ StopApp
  \/ JoinVsomeip \/ CloseSocket

VsomeipStep ==
  \/ BeginRequest \/ (\E ok \in BOOLEAN : WriteCommand(ok)) \/ Respond
  \/ StartReturns

ListenerStep ==
  \/ \E ok \in BOOLEAN : OpenListener(ok)
  \/ ListenerLoop \/ PollTimeout \/ ReadFrame \/ PublishStatus \/ CloseListener

EnvironmentStep ==
  \/ Signal
  \/ \E len \in RequestLengths : ClientRequests(len)
  \/ \E kind \in {"tof", "status", "foreign"}, dlc \in FrameLengths :
       BusDelivers(kind, dlc)

Next ==
  MainStep \/ VsomeipStep \/ OfferServices \/ ListenerStep \/ EnvironmentStep

Spec == Init /\ [][Next]_vars

\* The scheduler runs the three threads; the signal, the clients, the bus and
\* the routing manager do as they like.
Fairness == WF_vars(MainStep) /\ WF_vars(VsomeipStep) /\ WF_vars(ListenerStep)
FairSpec == Spec /\ Fairness

-----------------------------------------------------------------------------
(* Properties *)

\* Every variable keeps to its type.
TypeOK ==
  /\ g_running \in BOOLEAN /\ stopped \in BOOLEAN
  /\ mpc \in {"init", "start", "sleep", "withdraw_control", "withdraw_status",
              "join_can", "stop_app", "join_vsomeip", "close", "exit"}
  /\ vpc \in {"none", "dispatch", "write", "respond", "done"}
  /\ cpc \in {"none", "open", "loop", "poll", "publish", "close", "done"}
  /\ offered \subseteq Services
  /\ can_tx_fd \in BOOLEAN /\ can_rx_fd \in BOOLEAN
  /\ inbox \in Seq(Request) /\ req \in Request
  /\ can_rx \in Seq(CanFrame) /\ frame \in CanFrame
  /\ received \in Nat /\ heard \in Nat
  /\ commands \in Seq(Command) /\ responses \in Seq(Request)
  /\ events \in Seq([id : Nat, bytes : 2 .. 8])

\* No handler of vsomeip's runs while main closes the sending socket, or after:
\* on_control_request tests can_tx_fd_ and writes to it without a lock.
HandlersBeforeClose ==
  mpc \in {"close", "exit"} => vpc \notin {"dispatch", "write", "respond"}

\* When main returns, both threads have ended and both sockets are closed: a
\* std::thread destroyed while joinable would abort the program.
CleanExit ==
  mpc = "exit" => /\ vpc \in {"none", "done"} /\ cpc \in {"none", "done"}
                  /\ ~can_tx_fd /\ ~can_rx_fd

\* Whatever the shutdown interrupts, the server does what veh_control_service
\* promises.
Service == INSTANCE CommandService WITH
  pending <- IF vpc \in {"write", "respond"} THEN <<req>> \o inbox ELSE inbox,
  tried <- vpc = "respond"
ImplementsService == Service!Spec

\* And what veh_status_service promises.
Status == INSTANCE StatusService WITH
  buffered <- IF cpc = "publish" THEN <<frame>> \o can_rx ELSE can_rx
ImplementsStatus == Status!Spec

\* A signal always brings the server to its end.
ShutdownEnds == ~g_running ~> mpc = "exit"

\* "Client response, in the role of an ACK": a command answered VEH_RESP_OK was
\* put on the bus.
OkMeansSent ==
  \A i \in DOMAIN responses :
    \E j \in DOMAIN commands : commands[j].id = responses[i].id

=============================================================================
