----------------------------- MODULE ControlPath -----------------------------
(***************************************************************************)
(* From the keyboard to the CAN bus: the control server with the           *)
(* repository's clients, and any other vsomeip client.                     *)
(* A request reaches the server in the order it was sent, or not at all:   *)
(* nothing tells its sender.                                               *)
(***************************************************************************)
EXTENDS ControlServer, SequencesExt

CONSTANTS
  Together,      \* which of "unified", "control", "cli", "qt", "python" and
                 \* "other" run at once
  Interfaces,    \* the states of can0
  OtherLengths,  \* lengths of another client's requests
  Numbers,       \* what the user may type to the unified client
  CliInputs,     \* and to veh_cli
  Passwords,     \* lengths of the passwords in the Qt window
  Positions,     \* where its slider is moved to
  Directions, Speeds,  \* the buttons and the slider of the Python window
  NotANumber, Eof,  \* a word, and the end of the input
  MaxLines       \* bound

ASSUME PathAssumption ==
  /\ Together \subseteq SUBSET {"unified", "control", "cli", "qt", "python", "other"}
  /\ Interfaces \subseteq {"absent", "down", "up"}
  /\ Numbers \subseteq Int /\ CliInputs \ {NotANumber, Eof} \subseteq Int
  /\ NotANumber \notin Int /\ Eof \notin Int
  /\ OtherLengths \cup Passwords \subseteq Nat
  /\ {1, 2, 5} \cup OtherLengths \cup {n + 1 : n \in Passwords} \subseteq RequestLengths

VARIABLES
  who,           \* the clients that run
  origin,        \* log of the requests that reached the server
  g_running, process, mpc, kpc, detached, requested, typed, lines, cin, cmd,
  usent, in_time,                          \* veh_unified_client
  cpc, capp, csent,                        \* veh_control_client
  vpc, vapp, vcin_good, vcmd_type, vsent,  \* veh_cli
  vtyped,        \* log of what was typed to it, and what it had asked for
  gui, qpc, qapp, qvs, running_, interrupted, handling, queue, shown, slider,
  qsent,                                   \* the Qt client
  qorders,       \* log of what was ordered of it: buttons, and speeds
  ppc, worker, speed, aeb, psent           \* the Python client

u_vars == <<g_running, process, mpc, kpc, detached, requested, typed, lines, cin,
            cmd, usent, in_time>>
c_vars == <<cpc, capp, csent>>
v_vars == <<vpc, vapp, vcin_good, vcmd_type, vsent, vtyped>>
q_vars == <<gui, qpc, qapp, qvs, running_, interrupted, handling, queue, shown,
            slider, qsent, qorders>>
p_vars == <<ppc, worker, speed, aeb, psent>>
path_vars == <<vars, who, origin, u_vars, c_vars, v_vars, q_vars, p_vars>>

U == INSTANCE UnifiedClient WITH sent <- usent
C == INSTANCE ControlClient WITH pc <- cpc, app <- capp, sent <- csent
V == INSTANCE VehCli WITH
  pc <- vpc, app <- vapp, cin_good <- vcin_good, cmd_type <- vcmd_type,
  sent <- vsent
Q == INSTANCE QtClient WITH app <- qapp, vs <- qvs, sent <- qsent
P == INSTANCE PyClient WITH pc <- ppc, sent <- psent

-----------------------------------------------------------------------------
(* Requests on their way *)

Arrives(by, payload) ==
  /\ ClientRequests(Len(payload))
  /\ origin' = Append(origin, [by |-> by, payload |-> payload])

\* app_->send(): a client that vsomeip does not know yet, or a service that is not
\* on offer, and the request is dropped.
Sends(by, payload, known) ==
  \/ known /\ Arrives(by, payload)
  \/ UNCHANGED <<vars, origin>>

UnifiedSends ==
  /\ U!SendCommand
  /\ Sends("unified", Last(usent'), requested)
  /\ UNCHANGED <<c_vars, v_vars, q_vars, p_vars>>

ControlSends ==
  /\ C!SendCommand
  /\ Sends("control", Last(csent'), capp = "registered")
  /\ UNCHANGED <<u_vars, v_vars, q_vars, p_vars>>

CliReads(input) ==
  /\ Len(vsent) < MaxLines
  /\ V!Read(input)
  /\ vtyped' = Append(vtyped, [asked |-> vpc, input |-> input])
  /\ IF vsent' = vsent THEN UNCHANGED <<vars, origin>>
                       ELSE Sends("cli", Last(vsent'), vapp = "registered")
  /\ UNCHANGED <<u_vars, c_vars, q_vars, p_vars>>

QtPresses == {<<1, 8>>} \cup {<<5>> \o [i \in 1 .. n |-> 49] : n \in Passwords}
Ordering(payload) ==
  Len(qorders) < MaxLines /\ qorders' = Append(qorders, payload)
QtCommand ==
  \/ \E payload \in QtPresses : Q!Press(payload) /\ Ordering(payload)
  \/ \E v \in Positions : Q!MoveSlider(v) /\ Ordering(Q!Speed(v))
  \/ Q!SendAgain /\ UNCHANGED qorders
QtSends ==
  /\ QtCommand
  /\ IF qsent' = qsent THEN UNCHANGED <<vars, origin>>
                       ELSE Sends("qt", Last(qsent'), qvs = "registered")
  /\ UNCHANGED <<u_vars, c_vars, v_vars, p_vars>>

PythonSends ==
  /\ Len(psent) < MaxLines
  /\ P!Click(Directions)
  /\ Sends("python", Last(psent'), worker = "registered")
  /\ UNCHANGED <<u_vars, c_vars, v_vars, q_vars>>

OtherSends(len) ==
  /\ Arrives("other", [i \in 1 .. len |-> 0])
  /\ UNCHANGED <<u_vars, c_vars, v_vars, q_vars, p_vars>>

-----------------------------------------------------------------------------
(* The clients' other steps *)

UnifiedStep ==
  \/ U!MainStep \/ U!ConsoleStep \/ U!Registered \/ U!UseAfterDestruction
  \/ U!Signal \/ U!UserEndsInput
  \/ \E line \in Numbers \cup {NotANumber} :
       U!UserTypes(line) /\ Len(typed) < MaxLines /\ lines = Len(typed)

UnifiedAlone ==
  /\ UnifiedStep
  /\ kpc' = "send" => Len(usent) < MaxLines
  /\ UNCHANGED <<vars, origin, c_vars, v_vars, q_vars, p_vars>>
ControlAlone ==
  /\ (C!InitFails \/ C!Start \/ C!Registered \/ C!Signal)
  /\ UNCHANGED <<vars, origin, u_vars, v_vars, q_vars, p_vars>>
CliAlone ==
  /\ (V!InitFails \/ V!Start \/ V!Registered \/ V!Signal)
  /\ UNCHANGED <<vtyped, vars, origin, u_vars, c_vars, q_vars, p_vars>>

QtAlone ==
  /\ Q!ThreadStep \/ Q!VsomeipStep \/ Q!WindowStep \/ Q!CloseWindow
  /\ UNCHANGED <<qorders, vars, origin, u_vars, c_vars, v_vars, p_vars>>

PythonAlone ==
  /\ P!Alone \/ \E v \in Speeds : P!OnSpeedChange(v)
  /\ UNCHANGED <<vars, origin, u_vars, c_vars, v_vars, q_vars>>

Unified == "unified" \in who /\ (UnifiedSends \/ UnifiedAlone)
Control == "control" \in who /\ (ControlSends \/ ControlAlone)
Cli == "cli" \in who /\ (CliAlone \/ \E input \in CliInputs : CliReads(input))
Qt == "qt" \in who /\ (QtSends \/ QtAlone)
Python == "python" \in who /\ (PythonSends \/ PythonAlone)
Other == "other" \in who /\ \E len \in OtherLengths : OtherSends(len)

Server ==
  /\ \/ ServerStep \/ Exit
     \/ \E state \in Interfaces : InterfaceChanges(state)
  /\ UNCHANGED <<origin, u_vars, c_vars, v_vars, q_vars, p_vars>>

PathInit ==
  /\ Init /\ can0 \in Interfaces /\ who \in Together /\ origin = <<>>
  /\ U!Init /\ C!Init /\ V!Init /\ Q!Init /\ P!Init
  /\ vtyped = <<>> /\ qorders = <<>>

PathNext == (Server \/ Unified \/ Control \/ Cli \/ Qt \/ Python \/ Other)
            /\ UNCHANGED who

\* The scheduler runs the server, and the unified client's two threads.
PathFairness ==
  /\ WF_path_vars(/\ ServerStep
                  /\ UNCHANGED <<who, origin, u_vars, c_vars, v_vars, q_vars, p_vars>>)
  /\ WF_path_vars("unified" \in who /\ U!MainStep /\ UnifiedAlone /\ UNCHANGED who)
  /\ WF_path_vars(/\ "unified" \in who /\ UNCHANGED who
                  /\ (UnifiedSends \/ (U!ConsoleStep /\ UnifiedAlone)))

PathSpec == PathInit /\ [][PathNext]_path_vars /\ PathFairness

-----------------------------------------------------------------------------
(* Properties *)

\* Every variable keeps to its type.
PathTypeOK ==
  /\ TypeOK /\ U!TypeOK /\ Q!TypeOK
  /\ origin \in Seq([by : UNION Together, payload : Seq(0 .. 255)])
  /\ Len(origin) = received
  /\ csent \in Seq(Seq(0 .. 255)) /\ vsent \in Seq(Seq(0 .. 255))
  /\ vtyped \in Seq([asked : {"type", "direction", "speed"}, input : CliInputs])
  /\ qorders \in Seq(Seq(0 .. 255))
  /\ psent \in Seq(Seq(0 .. 255)) /\ speed \in 0 .. 100 /\ aeb \in BOOLEAN

\* What client c's user ordered, or its script has it send.  veh_cli asks for the type
\* of a command, and for the value of a direction or a speed.
CliOrdered ==
  [k \in {n \in DOMAIN vtyped :
            vtyped[n].asked = "type" /\ (vtyped[n].input \in {1, 2} => n < Len(vtyped))} |->
     IF vtyped[k].input \in {1, 2} THEN <<vtyped[k].input, vtyped[k + 1].input>>
                                   ELSE <<vtyped[k].input>>]
Ordered(c) == CASE c = "unified" -> U!Ordered [] c = "control" -> C!Script
                [] c = "cli" -> CliOrdered [] c = "qt" -> qorders

\* The frames on the bus that are of client c, and what one carries.
FramesOf(c) == {i \in DOMAIN commands : origin[commands[i].id].by = c}
Carried(i) == origin[commands[i].id].payload

\* The log of what a client gave to app_->send().
Sent(c) == CASE c = "unified" -> usent [] c = "control" -> csent
             [] c = "cli" -> vsent [] c = "qt" -> qsent [] c = "python" -> psent

\* From app_->send() to the bus: the frames of a client are commands it sent, in its
\* order and none twice, though two queues and a handler lie between and any command
\* may be lost.
BusFollowsSent ==
  \A c \in who \ {"other"} :
    \E place \in [FramesOf(c) -> DOMAIN Sent(c)] :
      /\ \A i \in FramesOf(c) : Carried(i) = Sent(c)[place[i]]
      /\ \A i, j \in FramesOf(c) : i < j => place[i] < place[j]

\* What a client's user typed is not what the client read: std::cin has failed; or it
\* was no byte, and veh_cli, which does not look, cut or guessed it.
Misread(c) ==
  \/ c = "unified" /\ cin = "failed"
  \/ c = "cli" /\ \E k \in DOMAIN vtyped : vtyped[k].input \notin 0 .. 255

\* From the user to the bus: the frames of a client are commands its user ordered, in the
\* user's order and none twice but a speed of the Qt slider, whose two frames follow each
\* other.  Python's window is left out: it sends other commands than its buttons name.
SlidTwice(c, i, j, order) ==
  /\ c = "qt" /\ order[i] = order[j] /\ Carried(j)[1] = 2
  /\ \A k \in FramesOf(c) : ~(i < k /\ k < j)
BusFollowsOrders ==
  \A c \in who \ {"python", "other"} :
    \/ Misread(c)
    \/ \E order \in [FramesOf(c) -> DOMAIN Ordered(c)] :
         /\ \A i \in FramesOf(c) : Carried(i) = Ordered(c)[order[i]]
         /\ \A i, j \in FramesOf(c) :
              i < j => order[i] < order[j] \/ SlidTwice(c, i, j, order)

\* Of the repository's clients only the Qt window overflows the server's CanFrame, with
\* a password of more than the seven bytes the service has room for, which nothing
\* in between cuts; a server that goes down otherwise got another client's command.
SurvivesOwnClients ==
  pc = "crashed" =>
    LET request == origin[req.id]
    IN request.by = "other" \/ (request.by = "qt" /\ request.payload[1] = 5)

\* Properties of single clients.
OneAfterSignal == U!OneAfterSignal
ClientEnds == U!ClientEnds

=============================================================================
