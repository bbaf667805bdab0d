---------------------------- MODULE ControlServer ----------------------------
(***************************************************************************)
(* server/veh_control_server.cpp, the control service on its own, and the  *)
(* CanInterface of server/veh_can_tx.cpp it writes commands through.       *)
(*                                                                         *)
(* The program is one thread, vsomeip's: it opens the CAN socket only when *)
(* the first command comes (veh_can_send), and closes it when it exits.    *)
(* Meanwhile can0 comes and goes: it may not exist, be down, or be up.     *)
(*                                                                         *)
(* veh_can_send copies a command whole into the eight bytes of a CanFrame: *)
(* a longer one is undefined behaviour, for which a crash stands here, and *)
(* no more than a frame the kernel refuses.                                *)
(***************************************************************************)
EXTENDS Integers, Sequences

CONSTANTS
  RequestLengths,  \* lengths of the requests' payloads
  MaxRequests      \* bound

ASSUME ControlAssumption == RequestLengths \subseteq Nat /\ MaxRequests \in Nat

VARIABLES
  pc,              \* the thread; "exited" and "crashed" for the process
  offered,         \* is the service on offer?
  can0,            \* "absent", "down" or "up"
  sock_fd,         \* CanInterface: "none" (-1), "unbound" or "bound"
  descriptors,     \* how many sockets the process holds
  inbox, req,      \* requests to come, and the one on_request is at
  received,        \* how many requests the clients have sent
  commands,        \* log of the frames on the bus
  responses        \* log of the requests answered VEH_RESP_OK

server_vars == <<inbox, req, received, commands, responses>>
vars == <<pc, offered, can0, sock_fd, descriptors, server_vars>>

Request == [id : Nat, len : Nat]

Ended == pc \in {"exited", "crashed"}

-----------------------------------------------------------------------------
(* CanInterface *)

IsOpen_Bound == sock_fd = "bound"
IsOpen == sock_fd # "none"

\* init: socket() fails and nothing is open; or there is no can0, SIOCGIFINDEX or
\* bind fails, and the socket stays, bound to nothing; or it is bound to can0.
CanInit(result) ==
  /\ sock_fd' = result
  /\ result = "none" \/ result = IF can0 = "absent" THEN "unbound" ELSE "bound"
  /\ descriptors' = IF result = "none" THEN descriptors ELSE descriptors + 1

\* sendFrame: write() needs a bound socket, an interface that is up and at most
\* eight bytes.
SendFrame_Twice(ok) ==
  /\ ok => sock_fd' = "bound" /\ can0 = "up" /\ req.len <= 8
  /\ commands' = IF ok THEN commands \o [i \in {1, 2} |-> [id |-> req.id, dlc |-> req.len]]
                 ELSE commands
SendFrame(ok) ==
  /\ ok => sock_fd' = "bound" /\ can0 = "up" /\ req.len <= 8
  /\ commands' = IF ok THEN Append(commands, [id |-> req.id, dlc |-> req.len])
                 ELSE commands

\* close, by the destructor.
CanClose == sock_fd' = "none" /\ descriptors' = 0

-----------------------------------------------------------------------------
(* main: init and start *)

InitFails ==
  /\ pc = "init" /\ pc' = "exited"
  /\ UNCHANGED <<offered, can0, sock_fd, descriptors, server_vars>>

InitSucceeds ==
  /\ pc = "init" /\ pc' = "dispatch"
  /\ UNCHANGED <<offered, can0, sock_fd, descriptors, server_vars>>

\* ST_REGISTERED.
OfferService ==
  /\ pc = "dispatch"
  /\ offered' = TRUE
  /\ UNCHANGED <<pc, can0, sock_fd, descriptors, server_vars>>

\* A signal makes start() return, between two handlers.
Exit ==
  /\ pc = "dispatch" /\ pc' = "exited"
  /\ CanClose
  /\ UNCHANGED <<offered, can0, server_vars>>

-----------------------------------------------------------------------------
(* on_request *)

HasCommand_OrEmpty(r) == TRUE
HasCommand_TwoBytes(r) == r.len >= 2
HasCommand(r) == r.len >= 1

BeginRequest ==
  /\ pc = "dispatch"
  /\ inbox # <<>>
  /\ req' = Head(inbox)
  /\ inbox' = Tail(inbox)
  /\ pc' = IF HasCommand(req') THEN "handle" ELSE "dispatch"
  /\ UNCHANGED <<offered, can0, sock_fd, descriptors, received, commands, responses>>

\* veh_can_send on an open interface.
VehCanSend(ok) ==
  /\ pc = "handle" /\ pc' = "respond"
  /\ IsOpen
  /\ UNCHANGED <<sock_fd, descriptors>>
  /\ SendFrame(ok)
  /\ UNCHANGED <<offered, can0, inbox, req, received, responses>>

\* veh_can_send initialises first, and sends nothing if that fails.
InitAndSend(result, ok) ==
  /\ pc = "handle" /\ pc' = "respond"
  /\ ~IsOpen
  /\ CanInit(result)
  /\ SendFrame(ok)
  /\ UNCHANGED <<offered, can0, inbox, req, received, responses>>

\* The copy into the frame, once the interface counts as open.
Overflow ==
  /\ pc = "handle" /\ pc' = "crashed"
  /\ req.len > 8
  /\ IsOpen \/ can0 # "absent"
  /\ UNCHANGED <<offered, can0, sock_fd, descriptors, server_vars>>

Respond ==
  /\ pc = "respond" /\ pc' = "dispatch"
  /\ responses' = Append(responses, req)
  /\ UNCHANGED <<offered, can0, sock_fd, descriptors, inbox, req, received, commands>>

-----------------------------------------------------------------------------
(* The clients, and can0 *)

ClientRequests(len) ==
  /\ offered /\ ~Ended
  /\ received < MaxRequests
  /\ received' = received + 1
  /\ inbox' = Append(inbox, [id |-> received', len |-> len])
  /\ UNCHANGED <<pc, offered, can0, sock_fd, descriptors, req, commands,
                 responses>>

\* A device that goes away leaves the sockets bound to it bound to nothing.
InterfaceChanges(state) ==
  /\ state # can0
  /\ can0' = state
  /\ sock_fd' = IF state = "absent" /\ sock_fd = "bound" THEN "unbound" ELSE sock_fd
  /\ UNCHANGED <<pc, offered, descriptors, server_vars>>

Init ==
  /\ pc = "init" /\ offered = FALSE
  /\ can0 \in {"absent", "down", "up"}
  /\ sock_fd = "none" /\ descriptors = 0
  /\ inbox = <<>> /\ req = [id |-> 0, len |-> 0] /\ received = 0
  /\ commands = <<>> /\ responses = <<>>

ServerStep ==
  \/ InitFails \/ InitSucceeds \/ OfferService
  \/ BeginRequest \/ Overflow \/ Respond
  \/ \E ok \in BOOLEAN : VehCanSend(ok)
  \/ \E ok \in BOOLEAN, result \in {"none", "unbound", "bound"} :
       InitAndSend(result, ok)

Next ==
  \/ ServerStep \/ Exit
  \/ \E len \in RequestLengths : ClientRequests(len)
  \/ \E state \in {"absent", "down", "up"} : InterfaceChanges(state)

Spec == Init /\ [][Next]_vars /\ WF_vars(ServerStep)

-----------------------------------------------------------------------------
(* Properties *)

\* Every variable keeps to its type.
TypeOK ==
  /\ pc \in {"init", "dispatch", "handle", "respond", "exited", "crashed"}
  /\ offered \in BOOLEAN
  /\ can0 \in {"absent", "down", "up"}
  /\ sock_fd \in {"none", "unbound", "bound"} /\ descriptors \in Nat
  /\ inbox \in Seq(Request) /\ req \in Request /\ received \in Nat
  /\ commands \in Seq([id : Nat, dlc : 1 .. 8]) /\ responses \in Seq(Request)

\* The process holds one CAN socket at most, however often can0 comes and goes
\* and init fails: CanInterface never overwrites a descriptor it still holds.
OneDescriptor == descriptors = IF sock_fd = "none" THEN 0 ELSE 1

\* The server does what veh_control_service promises.
Service == INSTANCE CommandService WITH
  pending <- IF pc \in {"handle", "respond", "crashed"} THEN <<req>> \o inbox
             ELSE inbox,
  tried <- pc = "respond"
ImplementsService == Service!Spec

\* Every command is answered, whatever becomes of can0, by a server that goes on.
Waiting(n) == \E i \in DOMAIN inbox : inbox[i].id = n /\ inbox[i].len >= 1
Answered(n) == \E i \in DOMAIN responses : responses[i].id = n
RequestServed == \A n \in 1 .. MaxRequests : Waiting(n) ~> Answered(n) \/ Ended

\* veh_can_send "initialises on its own when it must": with can0 there, a command
\* finds the interface initialised, or the socket() call itself failed.
SendInitialises ==
  [][pc = "handle" /\ pc' = "respond" /\ can0 # "absent" => sock_fd' # "unbound"]_vars

=============================================================================
