------------------------- MODULE UnifiedServerProofs -------------------------
(***************************************************************************)
(* Proofs about UnifiedServer: its types, its shutdown, and that it        *)
(* implements CommandService.                                              *)
(***************************************************************************)
EXTENDS UnifiedServer, TLAPS

StatusEvent == [id : Nat, bytes : 2 .. 8]

\* Where the threads are.
ThreadTypes ==
  /\ mpc \in {"init", "start", "sleep", "withdraw_control", "withdraw_status",
              "join_can", "stop_app", "join_vsomeip", "close", "exit"}
  /\ vpc \in {"none", "dispatch", "write", "respond", "done"}
  /\ cpc \in {"none", "open", "loop", "poll", "publish", "close", "done"}

\* The flags and the services.
FlagTypes ==
  /\ g_running \in BOOLEAN /\ stopped \in BOOLEAN
  /\ can_tx_fd \in BOOLEAN /\ can_rx_fd \in BOOLEAN
  /\ offered \subseteq Services

\* The requests and what is done about them.
RequestTypes ==
  /\ inbox \in Seq(Request) /\ req \in Request /\ received \in Nat
  /\ commands \in Seq(Command) /\ responses \in Seq(Request)

\* The status frames and the events made of them.
StatusTypes ==
  /\ can_rx \in Seq(CanFrame) /\ frame \in CanFrame /\ heard \in Nat
  /\ events \in Seq(StatusEvent)

HasStatus(f) == f.kind # "foreign" /\ f.dlc >= 2

\* What the handlers of the two threads hold: a request with a command, and a
\* status frame with a type and a value.
HandledInv ==
  /\ vpc \in {"write", "respond"} => req.len >= 1
  /\ cpc = "publish" => HasStatus(frame)

\* How far main's start and shutdown are tells where the other threads are; the
\* receiving socket is the listener's own.
ShutdownInv ==
  /\ mpc \in {"init", "start"} => vpc = "none" /\ cpc = "none"
  /\ mpc = "init" => can_tx_fd = FALSE
  /\ mpc \in {"stop_app", "join_vsomeip", "close"} => cpc = "done"
  /\ mpc = "close" => vpc = "done"
  /\ mpc = "exit" => /\ can_tx_fd = FALSE
                     /\ vpc \in {"none", "done"} /\ cpc \in {"none", "done"}
  /\ cpc \in {"none", "open", "done"} => can_rx_fd = FALSE

TypeInv == ThreadTypes /\ FlagTypes /\ RequestTypes /\ StatusTypes
ServerInv == TypeInv /\ HandledInv /\ ShutdownInv

-----------------------------------------------------------------------------
(* Types *)

\* The program starts in its types, with main alone.
LEMMA ServerInit == Init => ServerInv
<1> SUFFICES ASSUME Init PROVE ServerInv
  OBVIOUS
<1>1. ThreadTypes BY DEF Init, ThreadTypes
<1>2. FlagTypes
  <2>1. g_running \in BOOLEAN /\ stopped \in BOOLEAN BY DEF Init
  <2>2. can_tx_fd \in BOOLEAN /\ can_rx_fd \in BOOLEAN BY DEF Init
  <2>3. offered \subseteq Services BY DEF Init
  <2> QED BY <2>1, <2>2, <2>3 DEF FlagTypes
<1>3. RequestTypes
  <2>1. <<>> \in Seq(Request) OBVIOUS
  <2>2. <<>> \in Seq(Command) OBVIOUS
  <2>3. NoRequest \in Request BY DEF Request, NoRequest
  <2> QED BY <2>1, <2>2, <2>3 DEF Init, RequestTypes
<1>4. StatusTypes
  <2>1. <<>> \in Seq(CanFrame) OBVIOUS
  <2>2. <<>> \in Seq(StatusEvent) OBVIOUS
  <2>3. NoFrame \in CanFrame BY DEF CanFrame, NoFrame
  <2> QED BY <2>1, <2>2, <2>3 DEF Init, StatusTypes
<1>5. HandledInv BY DEF Init, HandledInv
<1>6. ShutdownInv BY DEF Init, ShutdownInv
<1> QED BY <1>1, <1>2, <1>3, <1>4, <1>5, <1>6 DEF ServerInv, TypeInv

\* main's steps touch no request and no frame.
LEMMA MainTypes == ServerInv /\ MainStep => TypeInv' /\ HandledInv'
<1> SUFFICES ASSUME ServerInv, MainStep PROVE TypeInv' /\ HandledInv'
  OBVIOUS
<1> USE DEF ServerInv, TypeInv
<1> USE DEF MainStep, InitFails, InitSucceeds, StartThreads, WakeUp, StopOffer,
            StopOfferControl, StopOfferStatus, JoinListener, StopApp, JoinVsomeip,
            CloseSocket, Main, main_vars, vsomeip_vars, listener_vars, logs, world
<1>1. ThreadTypes' BY DEF ThreadTypes
<1>2. FlagTypes'
  <2>1. g_running' \in BOOLEAN /\ stopped' \in BOOLEAN BY Zenon DEF FlagTypes
  <2>2. can_tx_fd' \in BOOLEAN /\ can_rx_fd' \in BOOLEAN BY Zenon DEF FlagTypes
  <2>3. offered' \subseteq Services BY DEF FlagTypes
  <2> QED BY <2>1, <2>2, <2>3 DEF FlagTypes
<1>3. UNCHANGED <<inbox, req, received, commands, responses>>
  OBVIOUS
<1>4. UNCHANGED <<can_rx, frame, heard, events>>
  OBVIOUS
<1>5. RequestTypes' BY <1>3 DEF RequestTypes
<1>6. StatusTypes' BY <1>4 DEF StatusTypes
<1>7. HandledInv' BY <1>3, <1>4 DEF HandledInv
<1> QED BY <1>1, <1>2, <1>5, <1>6, <1>7

\* vsomeip's steps move requests from the inbox to the logs.
LEMMA VsomeipTypes == ServerInv /\ VsomeipStep => TypeInv' /\ HandledInv'
<1> SUFFICES ASSUME ServerInv, VsomeipStep PROVE TypeInv' /\ HandledInv'
  OBVIOUS
<1> USE DEF ServerInv, TypeInv
<1> USE DEF Vsomeip, main_vars, vsomeip_vars, listener_vars, logs, world
<1>1. ThreadTypes'
  BY DEF VsomeipStep, BeginRequest, WriteCommand, Respond, StartReturns, ThreadTypes
<1>2. UNCHANGED <<g_running, stopped, can_tx_fd, can_rx_fd, offered>>
  BY DEF VsomeipStep, BeginRequest, WriteCommand, Respond, StartReturns
<1>3. FlagTypes' BY <1>2 DEF FlagTypes
<1>4. UNCHANGED <<cpc, can_rx, frame, heard, events>>
  BY DEF VsomeipStep, BeginRequest, WriteCommand, Respond, StartReturns
<1>5. StatusTypes' BY <1>4 DEF StatusTypes
<1>6. RequestTypes' /\ (vpc' \in {"write", "respond"} => req'.len >= 1)
  <2>1. CASE BeginRequest
    <3>1. Head(inbox) \in Request /\ Tail(inbox) \in Seq(Request)
      BY <2>1 DEF BeginRequest, RequestTypes
    <3>2. RequestTypes' BY <2>1, <3>1 DEF BeginRequest, RequestTypes
    <3> QED BY <2>1, <3>2 DEF BeginRequest, HasCommand
  <2>2. ASSUME NEW ok \in BOOLEAN, WriteCommand(ok)
        PROVE  RequestTypes' /\ (vpc' \in {"write", "respond"} => req'.len >= 1)
    <3> DEFINE f == [id |-> req.id, dlc |-> Cut(req.len)]
    <3>1. f \in Command
      <4>1. req.id \in Nat /\ req.len \in Nat BY DEF RequestTypes, Request
      <4>2. Cut(req.len) \in 0 .. 8 BY <4>1 DEF Cut
      <4> QED BY <4>1, <4>2 DEF Command
    <3>2. commands' \in Seq(Command)
      <4>1. commands' = IF ok THEN Append(commands, f) ELSE commands
        BY <2>2 DEF WriteCommand
      <4>2. commands \in Seq(Command) BY DEF RequestTypes
      <4> HIDE DEF f
      <4> QED BY <3>1, <4>1, <4>2
    <3>3. RequestTypes' BY <2>2, <3>2 DEF WriteCommand, RequestTypes
    <3> QED BY <2>2, <3>3 DEF WriteCommand, HandledInv
  <2>3. CASE Respond
    <3>1. /\ responses' = Append(responses, req)
          /\ UNCHANGED <<inbox, req, received, commands>>
      BY <2>3 DEF Respond
    <3>2. vpc' = "dispatch" BY <2>3 DEF Respond
    <3>3. responses' \in Seq(Request) BY <3>1 DEF RequestTypes
    <3> QED BY <3>1, <3>2, <3>3 DEF RequestTypes
  <2>4. CASE StartReturns
    BY <2>4 DEF StartReturns, RequestTypes
  <2> QED BY <2>1, <2>2, <2>3, <2>4 DEF VsomeipStep
<1> QED BY <1>1, <1>3, <1>4, <1>5, <1>6 DEF HandledInv

\* The listener's steps move status frames from its socket to the events, each
\* with a type and a value.
LEMMA ListenerTypes == ServerInv /\ ListenerStep => TypeInv' /\ HandledInv'
<1> SUFFICES ASSUME ServerInv, ListenerStep PROVE TypeInv' /\ HandledInv'
  OBVIOUS
<1> USE DEF ServerInv, TypeInv
<1> USE DEF Listener, main_vars, vsomeip_vars, listener_vars, logs, world
<1>1. ThreadTypes'
  BY DEF ListenerStep, OpenListener, ListenerLoop, WhileRunning, PollTimeout,
         ReadFrame, PublishStatus, CloseListener, ThreadTypes
<1>2. UNCHANGED <<g_running, stopped, can_tx_fd, offered>>
  BY DEF ListenerStep, OpenListener, ListenerLoop, PollTimeout, ReadFrame,
         PublishStatus, CloseListener
<1>3. can_rx_fd' \in BOOLEAN
  BY Zenon DEF ListenerStep, OpenListener, ListenerLoop, PollTimeout, ReadFrame,
               PublishStatus, CloseListener, FlagTypes
<1>4. FlagTypes' BY <1>2, <1>3 DEF FlagTypes
<1>5. UNCHANGED <<vpc, inbox, req, received, commands, responses>>
  BY DEF ListenerStep, OpenListener, ListenerLoop, PollTimeout, ReadFrame,
         PublishStatus, CloseListener
<1>6. RequestTypes' BY <1>5 DEF RequestTypes
<1>7. StatusTypes' /\ (cpc' = "publish" => HasStatus(frame'))
  <2>1. ASSUME NEW ok \in BOOLEAN, OpenListener(ok)
        PROVE  StatusTypes' /\ (cpc' = "publish" => HasStatus(frame'))
    BY <2>1 DEF OpenListener, StatusTypes
  <2>2. CASE ListenerLoop
    BY <2>2 DEF ListenerLoop, WhileRunning, StatusTypes
  <2>3. CASE PollTimeout
    BY <2>3 DEF PollTimeout, StatusTypes
  <2>4. CASE ReadFrame
    <3>1. Head(can_rx) \in CanFrame /\ Tail(can_rx) \in Seq(CanFrame)
      BY <2>4 DEF ReadFrame, StatusTypes
    <3>2. StatusTypes' BY <2>4, <3>1 DEF ReadFrame, StatusTypes
    <3> QED BY <2>4, <3>2 DEF ReadFrame, IsStatus, HasStatus
  <2>5. CASE PublishStatus
    <3>1. frame.id \in Nat /\ frame.dlc \in 2 .. 8
      BY <2>5 DEF PublishStatus, StatusTypes, CanFrame, HandledInv, HasStatus
    <3>2. EventBytes(frame) \in 2 .. 8
      BY <3>1 DEF EventBytes
    <3>3. [id |-> frame.id, bytes |-> EventBytes(frame)] \in StatusEvent
      BY <3>1, <3>2 DEF StatusEvent
    <3> QED BY <2>5, <3>3 DEF PublishStatus, StatusTypes
  <2>6. CASE CloseListener
    <3>1. <<>> \in Seq(CanFrame) OBVIOUS
    <3> QED BY <2>6, <3>1 DEF CloseListener, StatusTypes
  <2> QED BY <2>1, <2>2, <2>3, <2>4, <2>5, <2>6 DEF ListenerStep
<1> QED BY <1>1, <1>4, <1>5, <1>6, <1>7 DEF HandledInv

\* What comes from outside is of its type.
LEMMA OutsideTypes ==
  ServerInv /\ (OfferServices \/ EnvironmentStep) => TypeInv' /\ HandledInv'
<1> SUFFICES ASSUME ServerInv, OfferServices \/ EnvironmentStep
             PROVE  TypeInv' /\ HandledInv'
  OBVIOUS
<1> USE DEF ServerInv, TypeInv
<1> USE DEF main_vars, vsomeip_vars, listener_vars, logs, world
<1>1. UNCHANGED <<mpc, vpc, cpc, req, frame, commands, responses, events>>
  BY DEF OfferServices, EnvironmentStep, Signal, ClientRequests, BusDelivers
<1>2. ThreadTypes' BY <1>1 DEF ThreadTypes
<1>3. HandledInv' BY <1>1 DEF HandledInv
<1>4. FlagTypes'
  <2>1. UNCHANGED <<stopped, can_tx_fd, can_rx_fd>>
    BY DEF OfferServices, EnvironmentStep, Signal, ClientRequests, BusDelivers
  <2>2. g_running' \in BOOLEAN
    BY Zenon DEF OfferServices, EnvironmentStep, Signal, ClientRequests,
                 BusDelivers, FlagTypes
  <2>3. offered' \subseteq Services
    BY DEF OfferServices, EnvironmentStep, Signal, ClientRequests, BusDelivers,
           FlagTypes
  <2> QED BY <2>1, <2>2, <2>3 DEF FlagTypes
<1>5. RequestTypes' /\ StatusTypes'
  <2>1. CASE OfferServices \/ Signal
    <3>1. UNCHANGED <<inbox, received, can_rx, heard>>
      BY <2>1 DEF OfferServices, Signal
    <3> QED BY <1>1, <3>1 DEF RequestTypes, StatusTypes
  <2>2. ASSUME NEW len \in RequestLengths, ClientRequests(len)
        PROVE  RequestTypes' /\ StatusTypes'
    <3>1. [id |-> received + 1, len |-> len] \in Request
      BY ServerAssumption DEF RequestTypes, Request
    <3>2. inbox' \in Seq(Request) /\ received' \in Nat
      BY <2>2, <3>1 DEF ClientRequests, RequestTypes
    <3>3. UNCHANGED <<can_rx, heard>> BY <2>2 DEF ClientRequests
    <3> QED BY <1>1, <3>2, <3>3 DEF RequestTypes, StatusTypes
  <2>3. ASSUME NEW kind \in {"tof", "status", "foreign"}, NEW dlc \in FrameLengths,
               BusDelivers(kind, dlc)
        PROVE  RequestTypes' /\ StatusTypes'
    <3>1. [id |-> heard + 1, kind |-> kind, dlc |-> dlc] \in CanFrame
      BY ServerAssumption DEF StatusTypes, CanFrame
    <3>2. can_rx' \in Seq(CanFrame) /\ heard' \in Nat
      BY <2>3, <3>1 DEF BusDelivers, StatusTypes
    <3>3. UNCHANGED <<inbox, received>>
      BY <2>3 DEF BusDelivers
    <3> QED BY <1>1, <3>2, <3>3 DEF RequestTypes, StatusTypes
  <2> QED BY <2>1, <2>2, <2>3 DEF EnvironmentStep
<1> QED BY <1>2, <1>3, <1>4, <1>5

-----------------------------------------------------------------------------
(* The shutdown *)

\* main passes a join only when the thread it waits for has ended.
LEMMA MainShutdown == ThreadTypes /\ ShutdownInv /\ MainStep => ShutdownInv'
<1> SUFFICES ASSUME ThreadTypes, ShutdownInv, MainStep PROVE ShutdownInv'
  OBVIOUS
<1> USE DEF Main, main_vars, vsomeip_vars, listener_vars, logs, world, ShutdownInv
<1>1. CASE InitFails BY <1>1 DEF InitFails
<1>2. CASE InitSucceeds BY <1>2 DEF InitSucceeds
<1>3. CASE StartThreads BY <1>3 DEF StartThreads
<1>4. CASE WakeUp BY <1>4 DEF WakeUp
<1>5. CASE StopOfferControl \/ StopOfferStatus
  BY <1>5 DEF StopOfferControl, StopOfferStatus, StopOffer
<1>6. CASE JoinListener BY <1>6 DEF JoinListener, ListenerJoined
<1>7. CASE StopApp BY <1>7 DEF StopApp
<1>8. CASE JoinVsomeip BY <1>8 DEF JoinVsomeip, VsomeipJoined
<1>9. CASE CloseSocket BY <1>9 DEF CloseSocket
<1> QED BY <1>1, <1>2, <1>3, <1>4, <1>5, <1>6, <1>7, <1>8, <1>9 DEF MainStep

\* A thread that has ended, or has not begun, takes no step.
LEMMA OthersShutdown ==
  ThreadTypes /\ ShutdownInv /\ (VsomeipStep \/ ListenerStep) => ShutdownInv'
<1> SUFFICES ASSUME ThreadTypes, ShutdownInv, VsomeipStep \/ ListenerStep
             PROVE  ShutdownInv'
  OBVIOUS
<1> USE DEF main_vars, vsomeip_vars, listener_vars, logs, world, ShutdownInv
<1>1. CASE VsomeipStep
  <2>1. vpc \in {"dispatch", "write", "respond"} /\ vpc' # "none"
        /\ UNCHANGED <<mpc, cpc, can_tx_fd, can_rx_fd>>
    BY <1>1 DEF VsomeipStep, BeginRequest, WriteCommand, Respond, StartReturns,
                Vsomeip
  <2> QED BY <2>1
<1>2. CASE ListenerStep
  <2>1. cpc \notin {"none", "done"} /\ UNCHANGED <<mpc, vpc, can_tx_fd>>
    BY <1>2 DEF ListenerStep, OpenListener, ListenerLoop, PollTimeout, ReadFrame,
                PublishStatus, CloseListener, Listener
  <2>2. cpc' \in {"none", "open", "done"} => can_rx_fd' = FALSE
    BY <1>2 DEF ListenerStep, OpenListener, ListenerLoop, WhileRunning, PollTimeout,
                ReadFrame, PublishStatus, CloseListener, Listener
  <2> QED BY <2>1, <2>2
<1> QED BY <1>1, <1>2

\* Every step keeps the types and the order of the shutdown.
LEMMA ServerNext == ServerInv /\ [Next]_vars => ServerInv'
<1> SUFFICES ASSUME ServerInv, [Next]_vars PROVE ServerInv'
  OBVIOUS
<1>1. CASE MainStep
  BY <1>1, MainTypes, MainShutdown DEF ServerInv, TypeInv
<1>2. CASE VsomeipStep
  BY <1>2, VsomeipTypes, OthersShutdown DEF ServerInv, TypeInv
<1>3. CASE ListenerStep
  BY <1>3, ListenerTypes, OthersShutdown DEF ServerInv, TypeInv
<1>4. CASE OfferServices \/ EnvironmentStep
  <2>1. UNCHANGED <<mpc, vpc, cpc, can_tx_fd, can_rx_fd>>
    BY <1>4 DEF OfferServices, EnvironmentStep, Signal, ClientRequests, BusDelivers,
                main_vars, vsomeip_vars, listener_vars, logs, world
  <2>2. ShutdownInv' BY <2>1 DEF ServerInv, ShutdownInv
  <2> QED BY <1>4, <2>2, OutsideTypes DEF ServerInv
<1>5. CASE UNCHANGED vars
  <2> USE <1>5 DEF vars, main_vars, vsomeip_vars, listener_vars, logs, world,
                   ServerInv, TypeInv
  <2>1. ThreadTypes' BY DEF ThreadTypes
  <2>2. FlagTypes' BY DEF FlagTypes
  <2>3. RequestTypes' BY DEF RequestTypes
  <2>4. StatusTypes' BY DEF StatusTypes
  <2>5. HandledInv' BY DEF HandledInv
  <2>6. ShutdownInv' BY DEF ShutdownInv
  <2> QED BY <2>1, <2>2, <2>3, <2>4, <2>5, <2>6
<1> QED BY <1>1, <1>2, <1>3, <1>4, <1>5 DEF Next

\* Every variable keeps to its type.
THEOREM ServerTypes == Spec => []TypeOK
<1>1. ServerInv => TypeOK
  BY DEF ServerInv, TypeInv, ThreadTypes, FlagTypes, RequestTypes, StatusTypes,
         TypeOK, StatusEvent
<1> QED BY ServerInit, ServerNext, <1>1, PTL DEF Spec

\* Whenever the signal comes, and wherever it finds the other threads, no handler
\* runs when main closes the sending socket, and main returns with both threads
\* joined and both sockets closed.
THEOREM ShutdownSafe == Spec => [](HandlersBeforeClose /\ CleanExit)
<1>1. ServerInv => HandlersBeforeClose
  BY DEF ServerInv, ShutdownInv, HandlersBeforeClose
<1>2. ServerInv => CleanExit
  BY DEF ServerInv, ShutdownInv, CleanExit
<1> QED BY ServerInit, ServerNext, <1>1, <1>2, PTL DEF Spec

\* Of these, that main returns with nothing left behind, whenever the signal came.
COROLLARY ServerExitsClean == Spec => []CleanExit
BY ShutdownSafe, PTL

-----------------------------------------------------------------------------
(* The refinement *)

\* How the request at the head of a sequence comes and goes.
LEMMA HeadFacts ==
  ASSUME NEW r \in Request, NEW s \in Seq(Request)
  PROVE  /\ <<r>> \o s # <<>> /\ Head(<<r>> \o s) = r /\ Tail(<<r>> \o s) = s
         /\ \A x \in Request : Append(<<r>> \o s, x) = <<r>> \o Append(s, x)
         /\ s # <<>> => <<Head(s)>> \o Tail(s) = s
OBVIOUS

\* Steps of main, of the listener, of the bus and of the signal change nothing of
\* the service.
LEMMA ServiceStutters ==
  ASSUME MainStep \/ ListenerStep \/ OfferServices \/ Signal \/ UNCHANGED vars
         \/ (\E kind \in {"tof", "status", "foreign"}, dlc \in FrameLengths :
               BusDelivers(kind, dlc)),
         ShutdownInv
  PROVE  UNCHANGED Service!vars
<1> USE DEF vars, main_vars, vsomeip_vars, listener_vars, logs, world
<1>1. UNCHANGED <<inbox, req, received, commands, responses>>
  BY DEF MainStep, InitFails, InitSucceeds, StartThreads, WakeUp, StopOffer,
         StopOfferControl, StopOfferStatus, JoinListener, StopApp, JoinVsomeip,
         CloseSocket, ListenerStep, OpenListener, ListenerLoop, PollTimeout,
         ReadFrame, PublishStatus, CloseListener, OfferServices, Signal, BusDelivers
<1>2. vpc' = vpc \/ (vpc = "none" /\ vpc' = "dispatch")
  BY DEF MainStep, InitFails, InitSucceeds, StartThreads, WakeUp, StopOffer, Main,
         StopOfferControl, StopOfferStatus, JoinListener, StopApp, JoinVsomeip,
         CloseSocket, ListenerStep, OpenListener, ListenerLoop, PollTimeout,
         ReadFrame, PublishStatus, CloseListener, OfferServices, Signal,
         BusDelivers, ShutdownInv
<1> QED BY <1>1, <1>2 DEF Service!vars

\* The steps of vsomeip's thread are steps of the service, or change nothing of it.
LEMMA ServiceHandles ==
  ASSUME ServerInv, VsomeipStep
  PROVE  [Service!Next]_(Service!vars)
<1> USE DEF ServerInv, TypeInv
<1>1. CASE BeginRequest
  <2>1. Head(inbox) \in Request /\ Tail(inbox) \in Seq(Request)
    BY <1>1 DEF BeginRequest, RequestTypes
  <2>2. /\ vpc = "dispatch" /\ inbox # <<>> /\ req' = Head(inbox)
        /\ inbox' = Tail(inbox) /\ UNCHANGED <<received, commands, responses>>
    BY <1>1 DEF BeginRequest, logs, world
  <2>3. CASE Head(inbox).len >= 1
    <3>1. <<req'>> \o inbox' = inbox
      BY <2>1, <2>2, HeadFacts DEF RequestTypes
    <3>2. vpc' = "write" BY <1>1, <2>3 DEF BeginRequest, HasCommand
    <3> QED BY <2>2, <3>1, <3>2 DEF Service!vars
  <2>4. CASE ~(Head(inbox).len >= 1)
    <3>1. Head(inbox).len = 0 BY <2>1, <2>4 DEF Request
    <3>2. vpc' = "dispatch" BY <1>1, <2>4 DEF BeginRequest, HasCommand
    <3>3. Service!Drop BY <2>2, <3>1, <3>2 DEF Service!Drop
    <3> QED BY <3>3 DEF Service!Next
  <2> QED BY <2>3, <2>4
<1>2. ASSUME NEW ok \in BOOLEAN, WriteCommand(ok) PROVE Service!Next
  <2>1. /\ <<req>> \o inbox # <<>> /\ Head(<<req>> \o inbox) = req
    BY HeadFacts DEF RequestTypes
  <2>2. /\ vpc = "write" /\ vpc' = "respond"
        /\ commands' = IF ok THEN Append(commands, [id |-> req.id, dlc |-> Cut(req.len)])
                       ELSE commands
        /\ UNCHANGED <<inbox, req, received, responses>>
    BY <1>2 DEF WriteCommand, Vsomeip, world
  <2>3. req.len >= 1 BY <2>2 DEF HandledInv
  <2>4. Service!Frame(req) = [id |-> req.id, dlc |-> Cut(req.len)]
    BY DEF Service!Frame, Cut
  <2>5. Service!Try(ok)
    BY <2>1, <2>2, <2>3, <2>4 DEF Service!Try
  <2> QED BY <2>5 DEF Service!Next
<1>3. CASE Respond
  <2>1. /\ Head(<<req>> \o inbox) = req /\ Tail(<<req>> \o inbox) = inbox
    BY HeadFacts DEF RequestTypes
  <2>2. vpc = "respond" /\ vpc' = "dispatch" /\ (vpc' = "respond") = FALSE
    BY <1>3 DEF Respond, Vsomeip
  <2>3. /\ responses' = Append(responses, req)
        /\ UNCHANGED <<inbox, received, commands>>
    BY <1>3 DEF Respond, world
  <2>4. Service!Answer BY <2>1, <2>2, <2>3 DEF Service!Answer
  <2> QED BY <2>4 DEF Service!Next
<1>4. CASE StartReturns
  <2>1. /\ vpc = "dispatch" /\ vpc' = "done"
        /\ UNCHANGED <<inbox, req, received, commands, responses>>
    BY <1>4 DEF StartReturns, Vsomeip, logs, world
  <2> QED BY <2>1 DEF Service!vars
<1> QED BY <1>1, <1>2, <1>3, <1>4 DEF VsomeipStep

\* A client's request is the service's, whatever the handler is at.
LEMMA ServiceArrives ==
  ASSUME ServerInv, NEW len \in RequestLengths, ClientRequests(len)
  PROVE  Service!Next
<1> USE DEF ServerInv, TypeInv
<1> DEFINE r == [id |-> received + 1, len |-> len]
<1>1. r \in Request
  BY ServerAssumption DEF RequestTypes, Request
<1>2. /\ received' = received + 1 /\ inbox' = Append(inbox, r)
      /\ UNCHANGED <<vpc, req, commands, responses>>
  BY DEF ClientRequests, logs
<1> HIDE DEF r
<1>3. Append(<<req>> \o inbox, r) = <<req>> \o inbox'
  <2>1. req \in Request /\ inbox \in Seq(Request) BY DEF RequestTypes
  <2>2. \A x \in Request : Append(<<req>> \o inbox, x) = <<req>> \o Append(inbox, x)
    BY <2>1, HeadFacts
  <2> QED BY <1>1, <1>2, <2>2
<1> USE DEF r
<1>4. Service!Arrive(len)
  BY <1>2, <1>3 DEF Service!Arrive
<1> QED BY <1>4 DEF Service!Next

\* The unified server does what veh_control_service promises, whatever a shutdown
\* interrupts.
THEOREM UnifiedImplements == Spec => ImplementsService
<1>1. Init => Service!Init
  BY DEF Init, Service!Init
<1>2. ServerInv /\ [Next]_vars => [Service!Next]_(Service!vars)
  <2> SUFFICES ASSUME ServerInv, [Next]_vars PROVE [Service!Next]_(Service!vars)
    OBVIOUS
  <2>1. CASE VsomeipStep BY <2>1, ServiceHandles
  <2>2. ASSUME NEW len \in RequestLengths, ClientRequests(len)
        PROVE  [Service!Next]_(Service!vars)
    BY <2>2, ServiceArrives
  <2>3. CASE MainStep \/ ListenerStep \/ OfferServices \/ Signal \/ UNCHANGED vars
             \/ (\E kind \in {"tof", "status", "foreign"}, dlc \in FrameLengths :
                   BusDelivers(kind, dlc))
    BY <2>3, ServiceStutters DEF ServerInv
  <2> QED BY <2>1, <2>2, <2>3 DEF Next, EnvironmentStep
<1> QED BY ServerInit, ServerNext, <1>1, <1>2, PTL
        DEF Spec, ImplementsService, Service!Spec

-----------------------------------------------------------------------------
(* The status service *)

\* How the frame at the head of a sequence comes and goes.
LEMMA FrameFacts ==
  ASSUME NEW f \in CanFrame, NEW s \in Seq(CanFrame)
  PROVE  /\ <<f>> \o s # <<>> /\ Head(<<f>> \o s) = f /\ Tail(<<f>> \o s) = s
         /\ \A x \in CanFrame : Append(<<f>> \o s, x) = <<f>> \o Append(s, x)
         /\ s # <<>> => <<Head(s)>> \o Tail(s) = s
OBVIOUS

\* Only the listener and the bus have to do with status frames.
LEMMA StatusStutters ==
  ASSUME MainStep \/ VsomeipStep \/ OfferServices \/ Signal \/ UNCHANGED vars
         \/ (\E len \in RequestLengths : ClientRequests(len)),
         ShutdownInv, StatusTypes
  PROVE  UNCHANGED Status!vars
<1> USE DEF vars, main_vars, vsomeip_vars, listener_vars, logs, world
<1>1. UNCHANGED <<can_rx, frame, heard, events>>
  BY DEF MainStep, InitFails, InitSucceeds, StartThreads, WakeUp, StopOffer,
         StopOfferControl, StopOfferStatus, JoinListener, StopApp, JoinVsomeip,
         CloseSocket, VsomeipStep, BeginRequest, WriteCommand, Respond,
         StartReturns, OfferServices, Signal, ClientRequests
<1>2. cpc' = cpc \/ (cpc = "none" /\ cpc' = "open")
  BY DEF MainStep, InitFails, InitSucceeds, StartThreads, WakeUp, StopOffer, Main,
         StopOfferControl, StopOfferStatus, JoinListener, StopApp, JoinVsomeip,
         CloseSocket, VsomeipStep, BeginRequest, WriteCommand, Respond,
         StartReturns, OfferServices, Signal, ClientRequests, ShutdownInv
<1> QED BY <1>1, <1>2 DEF Status!vars

\* The listener's steps are steps of the status service, or change nothing of it.
LEMMA StatusListens ==
  ASSUME ServerInv, ListenerStep
  PROVE  [Status!Next]_(Status!vars)
<1> USE DEF ServerInv, TypeInv
<1>1. CASE ReadFrame
  <2>1. Head(can_rx) \in CanFrame /\ Tail(can_rx) \in Seq(CanFrame)
    BY <1>1 DEF ReadFrame, StatusTypes
  <2>2. /\ cpc = "poll" /\ can_rx # <<>> /\ frame' = Head(can_rx)
        /\ can_rx' = Tail(can_rx) /\ UNCHANGED <<heard, events>>
    BY <1>1 DEF ReadFrame, Listener, logs, world
  <2>3. CASE IsStatus(Head(can_rx))
    <3>1. <<frame'>> \o can_rx' = can_rx
      BY <2>1, <2>2, FrameFacts DEF StatusTypes
    <3>2. cpc' = "publish" BY <1>1, <2>3 DEF ReadFrame, Listener
    <3> QED BY <2>2, <3>1, <3>2 DEF Status!vars
  <2>4. CASE ~IsStatus(Head(can_rx))
    <3>1. ~Status!IsStatus(Head(can_rx)) BY <2>4 DEF IsStatus, Status!IsStatus
    <3>2. cpc' = "loop" BY <1>1, <2>4 DEF ReadFrame, Listener
    <3>3. Status!Ignore BY <2>2, <3>1, <3>2 DEF Status!Ignore
    <3> QED BY <3>3 DEF Status!Next
  <2> QED BY <2>3, <2>4
<1>2. CASE PublishStatus
  <2>1. /\ <<frame>> \o can_rx # <<>> /\ Head(<<frame>> \o can_rx) = frame
        /\ Tail(<<frame>> \o can_rx) = can_rx
    BY FrameFacts DEF StatusTypes
  <2>2. /\ cpc = "publish" /\ cpc' = "loop"
        /\ events' = Append(events, [id |-> frame.id, bytes |-> EventBytes(frame)])
        /\ UNCHANGED <<can_rx, heard>>
    BY <1>2 DEF PublishStatus, Listener, world
  <2>3. Status!IsStatus(frame)
    BY <2>2 DEF HandledInv, HasStatus, Status!IsStatus
  <2>4. EventBytes(frame) \in Status!Bytes(frame)
    BY DEF EventBytes, Status!Bytes
  <2>5. Status!Publish
    BY <2>1, <2>2, <2>3, <2>4 DEF Status!Publish
  <2> QED BY <2>5 DEF Status!Next
<1>3. CASE CloseListener
  <2>1. /\ cpc = "close" /\ cpc' = "done" /\ can_rx' = <<>>
        /\ UNCHANGED <<heard, events>>
    BY <1>3 DEF CloseListener, Listener, logs, world
  <2>2. Status!Forget BY <2>1 DEF Status!Forget
  <2> QED BY <2>2 DEF Status!Next
<1>4. CASE (\E ok \in BOOLEAN : OpenListener(ok)) \/ ListenerLoop \/ PollTimeout
  <2>1. /\ cpc # "publish" /\ cpc' # "publish"
        /\ UNCHANGED <<can_rx, frame, heard, events>>
    BY <1>4 DEF OpenListener, ListenerLoop, WhileRunning, PollTimeout, Listener,
                logs, world
  <2> QED BY <2>1 DEF Status!vars
<1> QED BY <1>1, <1>2, <1>3, <1>4 DEF ListenerStep

\* A frame from the bus is the service's, whatever the listener is at.
LEMMA StatusHears ==
  ASSUME ServerInv, NEW kind \in {"tof", "status", "foreign"},
         NEW dlc \in FrameLengths, BusDelivers(kind, dlc)
  PROVE  Status!Next
<1> USE DEF ServerInv, TypeInv
<1> DEFINE f == [id |-> heard + 1, kind |-> kind, dlc |-> dlc]
<1>1. f \in CanFrame
  BY ServerAssumption DEF StatusTypes, CanFrame
<1>2. /\ heard' = heard + 1 /\ can_rx' = Append(can_rx, f)
      /\ UNCHANGED <<cpc, frame, events>>
  BY DEF BusDelivers, logs
<1> HIDE DEF f
<1>3. Append(<<frame>> \o can_rx, f) = <<frame>> \o can_rx'
  <2>1. frame \in CanFrame /\ can_rx \in Seq(CanFrame) BY DEF StatusTypes
  <2>2. \A x \in CanFrame :
          Append(<<frame>> \o can_rx, x) = <<frame>> \o Append(can_rx, x)
    BY <2>1, FrameFacts
  <2> QED BY <1>1, <1>2, <2>2
<1> USE DEF f
<1>4. Status!Hear(kind, dlc)
  BY <1>2, <1>3 DEF Status!Hear
<1> QED BY <1>4 DEF Status!Next, Status!Kinds

\* The unified server does what veh_status_service promises, whatever a shutdown
\* interrupts.
THEOREM UnifiedPublishes == Spec => ImplementsStatus
<1>1. Init => Status!Init
  BY DEF Init, Status!Init
<1>2. ServerInv /\ [Next]_vars => [Status!Next]_(Status!vars)
  <2> SUFFICES ASSUME ServerInv, [Next]_vars PROVE [Status!Next]_(Status!vars)
    OBVIOUS
  <2>1. CASE ListenerStep BY <2>1, StatusListens
  <2>2. ASSUME NEW kind \in {"tof", "status", "foreign"}, NEW dlc \in FrameLengths,
               BusDelivers(kind, dlc)
        PROVE  [Status!Next]_(Status!vars)
    BY <2>2, StatusHears
  <2>3. CASE MainStep \/ VsomeipStep \/ OfferServices \/ Signal \/ UNCHANGED vars
             \/ (\E len \in RequestLengths : ClientRequests(len))
    BY <2>3, StatusStutters DEF ServerInv, TypeInv
  <2> QED BY <2>1, <2>2, <2>3 DEF Next, EnvironmentStep
<1> QED BY ServerInit, ServerNext, <1>1, <1>2, PTL
        DEF Spec, ImplementsStatus, Status!Spec

-----------------------------------------------------------------------------
(* What the service guarantees, of this server *)

ServiceFacts == INSTANCE CommandServiceProofs WITH
  pending <- IF vpc \in {"write", "respond"} THEN <<req>> \o inbox ELSE inbox,
  tried <- vpc = "respond"

\* The service that is proved about is the service that is implemented.
LEMMA SameService ==
  /\ Service!Init <=> ServiceFacts!Init
  /\ [Service!Next]_(Service!vars) <=> [ServiceFacts!Next]_(ServiceFacts!vars)
  /\ Service!AnsweredInOrder <=> ServiceFacts!AnsweredInOrder
<1>1. Service!Init <=> ServiceFacts!Init BY DEF Service!Init, ServiceFacts!Init
<1>2. Service!Next <=> ServiceFacts!Next
  BY DEF Service!Next, Service!Arrive, Service!Drop, Service!Try, Service!Frame,
         Service!Answer, ServiceFacts!Next, ServiceFacts!Arrive, ServiceFacts!Drop,
         ServiceFacts!Try, ServiceFacts!Frame, ServiceFacts!Answer
<1>3. UNCHANGED Service!vars <=> UNCHANGED ServiceFacts!vars
  BY DEF Service!vars, ServiceFacts!vars
<1>4. Service!AnsweredInOrder <=> ServiceFacts!AnsweredInOrder
  BY DEF Service!AnsweredInOrder, Service!Increasing, ServiceFacts!AnsweredInOrder,
         ServiceFacts!Increasing
<1> QED BY <1>1, <1>2, <1>3, <1>4

LEMMA ServiceOrdered == ImplementsService => []Service!AnsweredInOrder
<1>1. RequestLengths \subseteq Nat BY ServerAssumption
<1>2. ServiceFacts!Spec => []ServiceFacts!AnsweredInOrder
  BY <1>1, ServiceFacts!ServiceInOrder
<1> QED BY <1>2, SameService, PTL DEF ImplementsService, Service!Spec, ServiceFacts!Spec

\* The unified server tries and answers commands in the order they came, none twice,
\* also while a shutdown interrupts it.
THEOREM UnifiedInOrder == Spec => []Service!AnsweredInOrder
BY UnifiedImplements, ServiceOrdered, PTL

StatusFacts == INSTANCE StatusServiceProofs WITH
  buffered <- IF cpc = "publish" THEN <<frame>> \o can_rx ELSE can_rx

LEMMA SameStatus ==
  /\ Status!Init <=> StatusFacts!Init
  /\ [Status!Next]_(Status!vars) <=> [StatusFacts!Next]_(StatusFacts!vars)
  /\ Status!EventsInOrder <=> StatusFacts!EventsInOrder
<1>1. Status!Init <=> StatusFacts!Init BY DEF Status!Init, StatusFacts!Init
<1>2. Status!Next <=> StatusFacts!Next
  BY DEF Status!Next, Status!Hear, Status!Ignore, Status!Publish, Status!Forget,
         Status!Kinds, Status!IsStatus, Status!Bytes, StatusFacts!Next,
         StatusFacts!Hear, StatusFacts!Ignore, StatusFacts!Publish, StatusFacts!Forget,
         StatusFacts!Kinds, StatusFacts!IsStatus, StatusFacts!Bytes
<1>3. UNCHANGED Status!vars <=> UNCHANGED StatusFacts!vars
  BY DEF Status!vars, StatusFacts!vars
<1>4. Status!EventsInOrder <=> StatusFacts!EventsInOrder
  BY DEF Status!EventsInOrder, StatusFacts!EventsInOrder
<1> QED BY <1>1, <1>2, <1>3, <1>4

LEMMA StatusOrdered == ImplementsStatus => []Status!EventsInOrder
<1>1. FrameLengths \subseteq Nat BY ServerAssumption
<1>2. StatusFacts!Spec => []StatusFacts!EventsInOrder
  BY <1>1, StatusFacts!ServicePublishesInOrder
<1> QED BY <1>2, SameStatus, PTL DEF ImplementsStatus, Status!Spec, StatusFacts!Spec

\* It publishes events in the order of their frames, one for a frame at most.
THEOREM UnifiedPublishesInOrder == Spec => []Status!EventsInOrder
BY UnifiedPublishes, StatusOrdered, PTL

=============================================================================
