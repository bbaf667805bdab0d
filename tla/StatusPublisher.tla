--------------------------- MODULE StatusPublisher ---------------------------
(***************************************************************************)
(* server/veh_status_publisher.cpp, the status service on its own.  Three  *)
(* threads:                                                                *)
(*                                                                         *)
(*   main       init, then sleeps until a signal, then returns, whereupon  *)
(*              the publisher object is destroyed;                         *)
(*   vsomeip    detached, never stopped: its state handler offers the      *)
(*              service and starts pub_thread_;                            *)
(*   publisher  publish_loop: blocks in read() and turns each status frame *)
(*              into an event.  Nobody joins it.                           *)
(*                                                                         *)
(* A std::thread that is assigned to, or destroyed, while it is joinable   *)
(* calls std::terminate.                                                   *)
(***************************************************************************)
EXTENDS Integers, Sequences

CONSTANTS
  FrameLengths,    \* can_dlc of the frames on the bus
  MaxFrames        \* bound

ASSUME PublisherAssumption == FrameLengths \subseteq 0 .. 8 /\ MaxFrames \in Nat

VARIABLES
  g_running,
  process,         \* "running", "exited" or "aborted"
  mpc, ppc,        \* where main and the publisher are
  joinable,        \* pub_thread_.joinable()
  offered,         \* is the service on offer?
  can_rx, frame,   \* frames the socket holds, and the one publish_loop is at
  heard,           \* how many frames the bus has carried to the socket
  events           \* log of the status events notified

frame_vars == <<can_rx, frame, heard, events>>
vars == <<g_running, process, mpc, ppc, joinable, offered, frame_vars>>

CanFrame == [id : Nat, kind : {"tof", "status", "foreign"}, dlc : 0 .. 8]

Running == process = "running"
Publisher(from, to) == Running /\ ppc = from /\ ppc' = to

-----------------------------------------------------------------------------
(* main *)

InitFails ==
  /\ Running /\ mpc = "init"
  /\ process' = "exited"
  /\ UNCHANGED <<g_running, mpc, ppc, joinable, offered, frame_vars>>

Start ==
  /\ Running /\ mpc = "init"
  /\ mpc' = "sleep"
  /\ UNCHANGED <<g_running, process, ppc, joinable, offered, frame_vars>>

\* ~VehStatusPublisher destroys pub_thread_.
Destroyed_Joined ==
  IF joinable THEN ppc = "done" /\ mpc' = "destroyed" /\ process' = process
              ELSE mpc' = "destroyed" /\ process' = process
Destroyed ==
  IF joinable THEN process' = "aborted" /\ mpc' = mpc
              ELSE mpc' = "destroyed" /\ process' = process
Return ==
  /\ Running /\ mpc = "sleep"
  /\ ~g_running
  /\ Destroyed
  /\ UNCHANGED <<g_running, ppc, joinable, offered, frame_vars>>

Exit ==
  /\ Running /\ mpc = "destroyed"
  /\ process' = "exited"
  /\ UNCHANGED <<g_running, mpc, ppc, joinable, offered, frame_vars>>

-----------------------------------------------------------------------------
(* vsomeip's thread *)

\* ST_REGISTERED, the first time.
Registered ==
  /\ Running /\ mpc = "sleep" /\ ~joinable
  /\ offered' = TRUE
  /\ joinable' = TRUE
  /\ ppc' = "open"
  /\ UNCHANGED <<g_running, process, mpc, frame_vars>>

\* And again: pub_thread_ is assigned to, joinable even when publish_loop is over.
RegisteredAgain ==
  /\ Running /\ mpc = "sleep" /\ joinable
  /\ process' = "aborted"
  /\ UNCHANGED <<g_running, mpc, ppc, joinable, offered, frame_vars>>

\* The handler of the detached thread uses the destroyed object: anything, of
\* which a crash and no effect stand here.
RegisteredLate ==
  /\ Running /\ mpc = "destroyed"
  /\ process' = "aborted"
  /\ UNCHANGED <<g_running, mpc, ppc, joinable, offered, frame_vars>>

-----------------------------------------------------------------------------
(* publish_loop *)

\* Whether ioctl() found can0 is not looked at: the index may be 0, and bind() then gives
\* the frames of every CAN interface, which BusDelivers has as frames like any others.
OpenSocket(ok) ==
  /\ Publisher("open", IF ok THEN "loop" ELSE "done")
  /\ UNCHANGED <<g_running, process, mpc, joinable, offered, frame_vars>>

PublishLoop ==
  /\ Publisher("loop", IF g_running THEN "read" ELSE "close")
  /\ UNCHANGED <<g_running, process, mpc, joinable, offered, frame_vars>>

\* An error of the interface.
ReadFails ==
  /\ Publisher("read", "loop")
  /\ can_rx = <<>>
  /\ UNCHANGED <<g_running, process, mpc, joinable, offered, frame_vars>>

IsStatus_AnyLength(f) == f.kind # "foreign"
IsStatus_ThreeBytes(f) == f.kind # "foreign" /\ f.dlc >= 3
IsStatus(f) == f.kind # "foreign" /\ f.dlc >= 2

ReadFrame ==
  /\ can_rx # <<>>
  /\ frame' = Head(can_rx)
  /\ can_rx' = Tail(can_rx)
  /\ Publisher("read", IF IsStatus(frame') THEN "publish" ELSE "loop")
  /\ UNCHANGED <<g_running, process, mpc, joinable, offered, heard, events>>

\* All the bytes of the frame go into the event.
PublishOnce ==
  /\ Publisher("publish", "loop")
  /\ events' = Append(events, [id |-> frame.id, bytes |-> frame.dlc])
  /\ UNCHANGED <<g_running, process, mpc, joinable, offered, can_rx, frame, heard>>

CloseSocket ==
  /\ Publisher("close", "done")
  /\ can_rx' = <<>>
  /\ UNCHANGED <<g_running, process, mpc, joinable, offered, frame, heard, events>>

-----------------------------------------------------------------------------
(* The user and the bus *)

Signal ==
  /\ Running /\ g_running
  /\ g_running' = FALSE
  /\ UNCHANGED <<process, mpc, ppc, joinable, offered, frame_vars>>

BusDelivers(kind, dlc) ==
  /\ Running /\ ppc \in {"loop", "read", "publish", "close"}
  /\ heard < MaxFrames
  /\ heard' = heard + 1
  /\ can_rx' = Append(can_rx, [id |-> heard', kind |-> kind, dlc |-> dlc])
  /\ UNCHANGED <<g_running, process, mpc, ppc, joinable, offered, frame, events>>

\* The process is gone.
Gone == ~Running /\ UNCHANGED vars

Init ==
  /\ g_running = TRUE /\ process = "running"
  /\ mpc = "init" /\ ppc = "none"
  /\ joinable = FALSE /\ offered = FALSE
  /\ can_rx = <<>> /\ frame = [id |-> 0, kind |-> "foreign", dlc |-> 0]
  /\ heard = 0 /\ events = <<>>

MainStep == InitFails \/ Start \/ Return \/ Exit
HandlerStep == Registered \/ RegisteredAgain \/ RegisteredLate
PublisherStep ==
  \/ \E ok \in BOOLEAN : OpenSocket(ok)
  \/ PublishLoop \/ ReadFails \/ ReadFrame \/ PublishOnce \/ CloseSocket
EnvironmentStep ==
  \/ Signal
  \/ \E kind \in {"tof", "status", "foreign"}, dlc \in FrameLengths :
       BusDelivers(kind, dlc)

Next == MainStep \/ HandlerStep \/ PublisherStep \/ EnvironmentStep \/ Gone

\* The scheduler runs main and the publisher.  A read need not return.
Fairness ==
  /\ WF_vars(MainStep)
  /\ WF_vars(PublisherStep /\ ~ReadFails)

Spec == Init /\ [][Next]_vars /\ Fairness

-----------------------------------------------------------------------------
(* Properties *)

\* Every variable keeps to its type.
TypeOK ==
  /\ g_running \in BOOLEAN /\ process \in {"running", "exited", "aborted"}
  /\ mpc \in {"init", "sleep", "destroyed"}
  /\ ppc \in {"none", "open", "loop", "read", "publish", "close", "done"}
  /\ joinable \in BOOLEAN /\ offered \in BOOLEAN
  /\ can_rx \in Seq(CanFrame) /\ frame \in CanFrame /\ heard \in Nat
  /\ events \in Seq([id : Nat, bytes : 2 .. 8])

\* The publisher does what veh_status_service promises, as far as it gets.
Service == INSTANCE StatusService WITH
  buffered <- IF ppc = "publish" THEN <<frame>> \o can_rx ELSE can_rx
ImplementsStatus == Service!Spec

\* A signal always ends the process, though publish_loop may be blocked in read()
\* for ever, because nobody waits for it: not cleanly, but it ends.
SignalEnds == ~g_running ~> ~Running

\* A status frame in the socket of a server that keeps running becomes an event.
Waiting(n) == \E i \in DOMAIN can_rx : can_rx[i].id = n /\ Service!IsStatus(can_rx[i])
Published(n) == \E i \in DOMAIN events : events[i].id = n
StatusServed ==
  \A n \in 1 .. MaxFrames : Waiting(n) ~> Published(n) \/ ~g_running \/ ~Running

=============================================================================
