-------------------------- MODULE ControlPathProofs --------------------------
(***************************************************************************)
(* Proofs about ControlServer, its types, its one descriptor, and that it  *)
(* implements CommandService; and about ControlPath, where it keeps to     *)
(* them in the company of its clients, and commands get from those to the  *)
(* bus in the order they were given.                                       *)
(***************************************************************************)
EXTENDS ControlPath, TLAPS

Command == [id : Nat, dlc : 1 .. 8]

\* The thread, the socket and can0.
ThreadTypes ==
  /\ pc \in {"init", "dispatch", "handle", "respond", "exited", "crashed"}
  /\ offered \in BOOLEAN
  /\ can0 \in {"absent", "down", "up"}
  /\ sock_fd \in {"none", "unbound", "bound"} /\ descriptors \in Nat

\* The requests and the logs.
LogTypes ==
  /\ inbox \in Seq(Request) /\ req \in Request /\ received \in Nat
  /\ commands \in Seq(Command) /\ responses \in Seq(Request)

\* A request being handled is not empty.
HandledInv == pc \in {"handle", "respond", "crashed"} => req.len >= 1

ControlInv == ThreadTypes /\ LogTypes /\ HandledInv /\ OneDescriptor

\* The server starts with no socket and nothing to do.
LEMMA ControlInit == Init => ControlInv
<1> SUFFICES ASSUME Init PROVE ControlInv
  OBVIOUS
<1>1. ThreadTypes BY DEF Init, ThreadTypes
<1>2. LogTypes
  <2>1. <<>> \in Seq(Request) OBVIOUS
  <2>2. <<>> \in Seq(Command) OBVIOUS
  <2>3. [id |-> 0, len |-> 0] \in Request BY DEF Request
  <2> QED BY <2>1, <2>2, <2>3 DEF Init, LogTypes
<1>3. HandledInv BY DEF Init, HandledInv
<1>4. OneDescriptor BY DEF Init, OneDescriptor
<1> QED BY <1>1, <1>2, <1>3, <1>4 DEF ControlInv

\* A frame that is written has the bytes of its request.
LEMMA SendTypes ==
  ASSUME LogTypes, pc = "handle", HandledInv, NEW ok \in BOOLEAN, SendFrame(ok)
  PROVE  commands' \in Seq(Command)
<1>1. CASE ok
  <2>1. req.len <= 8 /\ commands' = Append(commands, [id |-> req.id, dlc |-> req.len])
    BY <1>1 DEF SendFrame
  <2>2. req.id \in Nat /\ req.len \in Nat
    BY DEF LogTypes, Request
  <2>3. req.len >= 1
    BY DEF HandledInv
  <2>4. [id |-> req.id, dlc |-> req.len] \in Command
    BY <2>1, <2>2, <2>3 DEF Command
  <2> QED BY <2>1, <2>4 DEF LogTypes
<1>2. CASE ~ok
  BY <1>2 DEF LogTypes, SendFrame
<1> QED BY <1>1, <1>2

\* Every step keeps the invariant; only InitAndSend opens a socket, and only
\* where there is none.
LEMMA ControlNext == ControlInv /\ [Next]_vars => ControlInv'
<1> SUFFICES ASSUME ControlInv, [Next]_vars PROVE ControlInv'
  OBVIOUS
<1> USE DEF ControlInv
<1>1. CASE BeginRequest
  <2>1. Head(inbox) \in Request /\ Tail(inbox) \in Seq(Request)
    BY <1>1 DEF BeginRequest, LogTypes
  <2>2. ThreadTypes' BY <1>1 DEF BeginRequest, ThreadTypes
  <2>3. LogTypes' BY <1>1, <2>1 DEF BeginRequest, LogTypes
  <2>4. HandledInv' BY <1>1 DEF BeginRequest, HandledInv, HasCommand
  <2>5. OneDescriptor' BY <1>1 DEF BeginRequest, OneDescriptor
  <2> QED BY <2>2, <2>3, <2>4, <2>5
<1>2. ASSUME NEW ok \in BOOLEAN, VehCanSend(ok) PROVE ControlInv'
  <2>1. commands' \in Seq(Command) BY <1>2, SendTypes DEF VehCanSend
  <2>2. ThreadTypes' BY <1>2 DEF VehCanSend, ThreadTypes
  <2>3. LogTypes' BY <1>2, <2>1 DEF VehCanSend, LogTypes
  <2>4. HandledInv' BY <1>2 DEF VehCanSend, HandledInv
  <2>5. OneDescriptor' BY <1>2 DEF VehCanSend, OneDescriptor
  <2> QED BY <2>2, <2>3, <2>4, <2>5
<1>3. ASSUME NEW ok \in BOOLEAN, NEW result \in {"none", "unbound", "bound"},
             InitAndSend(result, ok)
      PROVE ControlInv'
  <2>1. commands' \in Seq(Command) BY <1>3, SendTypes DEF InitAndSend
  <2>2. ThreadTypes' BY <1>3 DEF InitAndSend, CanInit, ThreadTypes
  <2>3. LogTypes' BY <1>3, <2>1 DEF InitAndSend, LogTypes
  <2>4. HandledInv' BY <1>3 DEF InitAndSend, HandledInv
  <2>5. OneDescriptor' BY <1>3 DEF InitAndSend, CanInit, IsOpen, OneDescriptor
  <2> QED BY <2>2, <2>3, <2>4, <2>5
<1>4. CASE Respond
  <2>2. ThreadTypes' BY <1>4 DEF Respond, ThreadTypes
  <2>3. LogTypes' BY <1>4 DEF Respond, LogTypes
  <2>4. HandledInv' BY <1>4 DEF Respond, HandledInv
  <2>5. OneDescriptor' BY <1>4 DEF Respond, OneDescriptor
  <2> QED BY <2>2, <2>3, <2>4, <2>5
<1>5. ASSUME NEW len \in RequestLengths, ClientRequests(len) PROVE ControlInv'
  <2>1. [id |-> received + 1, len |-> len] \in Request
    BY ControlAssumption DEF LogTypes, Request
  <2>2. ThreadTypes' BY <1>5 DEF ClientRequests, ThreadTypes
  <2>3. LogTypes' BY <1>5, <2>1 DEF ClientRequests, LogTypes
  <2>4. HandledInv' BY <1>5 DEF ClientRequests, HandledInv
  <2>5. OneDescriptor' BY <1>5 DEF ClientRequests, OneDescriptor
  <2> QED BY <2>2, <2>3, <2>4, <2>5
<1>6. ASSUME NEW state \in {"absent", "down", "up"}, InterfaceChanges(state)
      PROVE ControlInv'
  <2>2. ThreadTypes' BY <1>6 DEF InterfaceChanges, ThreadTypes
  <2>3. LogTypes' BY <1>6 DEF InterfaceChanges, server_vars, LogTypes
  <2>4. HandledInv' BY <1>6 DEF InterfaceChanges, server_vars, HandledInv
  <2>5. OneDescriptor' BY <1>6 DEF InterfaceChanges, OneDescriptor
  <2> QED BY <2>2, <2>3, <2>4, <2>5
<1>7. CASE InitFails \/ InitSucceeds \/ OfferService \/ Overflow
  <2> USE DEF InitFails, InitSucceeds, OfferService, Overflow, server_vars
  <2>1. ThreadTypes' BY <1>7 DEF ThreadTypes
  <2>2. LogTypes' BY <1>7 DEF LogTypes
  <2>3. HandledInv' BY <1>7 DEF HandledInv
  <2>4. OneDescriptor' BY <1>7 DEF OneDescriptor
  <2> QED BY <2>1, <2>2, <2>3, <2>4
<1>8. CASE Exit
  <2> USE DEF Exit, CanClose, server_vars
  <2>1. ThreadTypes' BY <1>8 DEF ThreadTypes
  <2>2. LogTypes' BY <1>8 DEF LogTypes
  <2>3. HandledInv' BY <1>8 DEF HandledInv
  <2>4. OneDescriptor' BY <1>8 DEF OneDescriptor
  <2> QED BY <2>1, <2>2, <2>3, <2>4
<1>9. CASE UNCHANGED vars
  BY <1>9 DEF vars, server_vars, ThreadTypes, LogTypes, HandledInv, OneDescriptor
<1> QED BY <1>1, <1>2, <1>3, <1>4, <1>5, <1>6, <1>7, <1>8, <1>9
        DEF Next, ServerStep

\* Every variable keeps to its type.
THEOREM ControlTypes == Spec => []TypeOK
<1>1. ControlInv => TypeOK
  BY DEF ControlInv, ThreadTypes, LogTypes, TypeOK, Command
<1> QED BY ControlInit, ControlNext, <1>1, PTL DEF Spec

\* CanInterface never overwrites a descriptor it holds, however often can0 comes
\* and goes and init fails: the process has one CAN socket at most.
THEOREM HoldsOneDescriptor == Spec => []OneDescriptor
<1>1. ControlInv => OneDescriptor
  BY DEF ControlInv
<1> QED BY ControlInit, ControlNext, <1>1, PTL DEF Spec

-----------------------------------------------------------------------------
(* The refinement *)

\* How the request at the head of a sequence comes and goes.
LEMMA HeadFacts ==
  ASSUME NEW r \in Request, NEW s \in Seq(Request)
  PROVE  /\ <<r>> \o s # <<>> /\ Head(<<r>> \o s) = r /\ Tail(<<r>> \o s) = s
         /\ \A x \in Request : Append(<<r>> \o s, x) = <<r>> \o Append(s, x)
         /\ s # <<>> => <<Head(s)>> \o Tail(s) = s
OBVIOUS

\* The server's steps are steps of the service, or change nothing of it.
LEMMA ServiceStep ==
  ASSUME ControlInv, ControlInv', [Next]_vars
  PROVE  [Service!Next]_(Service!vars)
<1> USE DEF ControlInv
<1>1. CASE BeginRequest
  <2>1. Head(inbox) \in Request /\ Tail(inbox) \in Seq(Request)
    BY <1>1 DEF BeginRequest, LogTypes
  <2>2. CASE Head(inbox).len >= 1
    <3>1. <<req'>> \o inbox' = inbox
      BY <1>1, <2>1, HeadFacts DEF BeginRequest, LogTypes
    <3>2. pc' = "handle" BY <1>1, <2>2 DEF BeginRequest, HasCommand
    <3> QED BY <1>1, <3>1, <3>2 DEF BeginRequest, Service!vars
  <2>3. CASE ~(Head(inbox).len >= 1)
    <3>1. Head(inbox).len = 0 BY <2>1, <2>3 DEF Request
    <3>2. pc' = "dispatch" BY <1>1, <2>3 DEF BeginRequest, HasCommand
    <3>3. Service!Drop
      BY <1>1, <3>1, <3>2 DEF BeginRequest, Service!Drop
    <3> QED BY <3>3 DEF Service!Next
  <2> QED BY <2>2, <2>3
<1>2. ASSUME NEW ok \in BOOLEAN, SendFrame(ok), pc = "handle", pc' = "respond",
             UNCHANGED <<inbox, req, received, responses>>
      PROVE  Service!Next
  <2>1. /\ <<req>> \o inbox # <<>> /\ Head(<<req>> \o inbox) = req
    BY HeadFacts DEF LogTypes
  <2>2. req.len >= 1 /\ req.len \in Nat
    BY <1>2 DEF HandledInv, LogTypes, Request
  <2>3. ok => Service!Frame(req) = [id |-> req.id, dlc |-> req.len]
    BY <1>2, <2>2 DEF Service!Frame, SendFrame
  <2>4. Service!Try(ok)
    BY <1>2, <2>1, <2>2, <2>3 DEF SendFrame, Service!Try
  <2> QED BY <2>4 DEF Service!Next
<1>3. ASSUME NEW ok \in BOOLEAN, VehCanSend(ok) PROVE Service!Next
  BY <1>2, <1>3 DEF VehCanSend
<1>4. ASSUME NEW ok \in BOOLEAN, NEW result \in {"none", "unbound", "bound"},
             InitAndSend(result, ok)
      PROVE Service!Next
  BY <1>2, <1>4 DEF InitAndSend
<1>5. CASE Respond
  <2>1. /\ Head(<<req>> \o inbox) = req /\ Tail(<<req>> \o inbox) = inbox
    BY HeadFacts DEF LogTypes
  <2>2. pc = "respond" /\ pc' = "dispatch" /\ (pc' = "respond") = FALSE
    BY <1>5 DEF Respond
  <2>3. /\ responses' = Append(responses, req)
        /\ UNCHANGED <<inbox, received, commands>>
    BY <1>5 DEF Respond
  <2>4. Service!Answer BY <2>1, <2>2, <2>3 DEF Service!Answer
  <2> QED BY <2>4 DEF Service!Next
<1>6. ASSUME NEW len \in RequestLengths, ClientRequests(len) PROVE Service!Next
  <2> DEFINE r == [id |-> received + 1, len |-> len]
  <2>1. r \in Request
    BY ControlAssumption DEF LogTypes, Request
  <2>2. /\ received' = received + 1 /\ inbox' = Append(inbox, r)
        /\ UNCHANGED <<pc, req, commands, responses>>
    BY <1>6 DEF ClientRequests
  <2> HIDE DEF r
  <2>3. Append(<<req>> \o inbox, r) = <<req>> \o inbox'
    <3>1. req \in Request /\ inbox \in Seq(Request) BY DEF LogTypes
    <3>2. \A x \in Request : Append(<<req>> \o inbox, x) = <<req>> \o Append(inbox, x)
      BY <3>1, HeadFacts
    <3> QED BY <2>1, <2>2, <3>2
  <2> USE DEF r
  <2>4. Service!Arrive(len)
    BY <2>2, <2>3 DEF Service!Arrive
  <2> QED BY <2>4 DEF Service!Next
<1>7. ASSUME NEW state \in {"absent", "down", "up"}, InterfaceChanges(state)
      PROVE UNCHANGED Service!vars
  BY <1>7 DEF InterfaceChanges, server_vars, Service!vars
<1>8. CASE InitFails \/ InitSucceeds \/ OfferService \/ Exit
  BY <1>8 DEF InitFails, InitSucceeds, OfferService, Exit, server_vars,
              Service!vars
<1>9. CASE Overflow
  BY <1>9 DEF Overflow, server_vars, Service!vars
<1>10. CASE UNCHANGED vars
  BY <1>10 DEF vars, server_vars, Service!vars
<1> QED BY <1>1, <1>3, <1>4, <1>5, <1>6, <1>7, <1>8, <1>9, <1>10
        DEF Next, ServerStep

\* The control server does what veh_control_service promises, whatever becomes
\* of can0.
THEOREM ControlImplements == Spec => ImplementsService
<1>1. Init => Service!Init
  BY DEF Init, Service!Init
<1> QED BY ControlInit, ControlNext, ServiceStep, <1>1, PTL
        DEF Spec, ImplementsService, Service!Spec

-----------------------------------------------------------------------------
(* The clients of the path *)

Payloads == Seq(0 .. 255)
Clients == {"unified", "control", "cli", "qt", "python", "other"}

\* What a client sends fits in a frame, but for another's client's requests and the
\* passwords of the Qt window.
Sound(by, payload) ==
  /\ payload \in Payloads /\ Len(payload) \in RequestLengths
  /\ Len(payload) > 8 => by = "other" \/ (by = "qt" /\ payload[1] = 5)

\* A sequence's elements, and what appending and taking away leave of them.
LEMMA Elements ==
  ASSUME NEW X, NEW s \in Seq(X)
  PROVE  /\ DOMAIN s = 1 .. Len(s) /\ Len(s) \in Nat
         /\ \A i \in DOMAIN s : s[i] \in X
OBVIOUS

LEMMA Appended ==
  ASSUME NEW X, NEW s \in Seq(X), NEW e, NEW t, t = Append(s, e)
  PROVE  /\ DOMAIN s = 1 .. Len(s) /\ DOMAIN t = 1 .. Len(s) + 1
         /\ Len(s) \in Nat /\ Len(t) = Len(s) + 1 /\ t[Len(s) + 1] = e
         /\ \A i \in DOMAIN s : i \in DOMAIN t /\ t[i] = s[i]
         /\ \A i \in DOMAIN t : i \in DOMAIN s \/ i = Len(s) + 1
OBVIOUS

LEMMA Tailed ==
  ASSUME NEW X, NEW s \in Seq(X), s # <<>>, NEW t, t = Tail(s)
  PROVE  /\ DOMAIN s = 1 .. Len(s) /\ DOMAIN t = 1 .. Len(s) - 1
         /\ Len(s) \in Nat /\ Len(t) = Len(s) - 1 /\ 1 \in DOMAIN s
         /\ Head(s) = s[1] /\ s[1] \in X /\ t \in Seq(X)
         /\ \A i \in DOMAIN t : t[i] = s[i + 1] /\ i + 1 \in DOMAIN s
OBVIOUS

\* The last element of a log is the one just appended.
LEMMA LastAppended ==
  ASSUME NEW X, NEW s \in Seq(X), NEW e
  PROVE  Last(Append(s, e)) = e /\ (e \in X => Append(s, e) \in Seq(X))
BY DEF Last

\* One byte, or two, make a payload.
LEMMA ShortPayloads ==
  ASSUME NEW a \in 0 .. 255, NEW b \in 0 .. 255
  PROVE  /\ <<a>> \in Payloads /\ Len(<<a>>) = 1
         /\ <<a, b>> \in Payloads /\ Len(<<a, b>>) = 2
BY DEF Payloads

LEMMA ShortSound ==
  ASSUME NEW a \in 0 .. 255, NEW b \in 0 .. 255, NEW by
  PROVE  Sound(by, <<a>>) /\ Sound(by, <<a, b>>)
<1>1. 1 \in RequestLengths /\ 2 \in RequestLengths BY PathAssumption
<1>2. /\ <<a>> \in Payloads /\ Len(<<a>>) = 1
      /\ <<a, b>> \in Payloads /\ Len(<<a, b>>) = 2
  BY ShortPayloads
<1>3. Sound(by, <<a>>) BY <1>1, <1>2 DEF Sound
<1>4. Sound(by, <<a, b>>) BY <1>1, <1>2 DEF Sound
<1> QED BY <1>3, <1>4

-----------------------------------------------------------------------------
(* The unified client *)

\* The commands sent are those of lines typed, each of a later line than the one before;
\* the line of the command being sent is the last that was read.
Obeys ==
  \E line \in [DOMAIN usent -> 1 .. lines] :
    /\ \A i \in DOMAIN usent : /\ U!IsCommand(typed[line[i]])
                               /\ usent[i] = U!Payload[typed[line[i]]]
                               /\ kpc = "send" => line[i] < lines
    /\ \A i, j \in DOMAIN usent : i < j => line[i] < line[j]

UnifiedInv ==
  /\ U!TypeOK
  /\ kpc = "send" => cmd \in 1 .. 5
  /\ g_running \/ kpc \in {"read", "send"} => Len(usent) = in_time
  /\ Len(usent) \in {in_time, in_time + 1}
  /\ cin = "failed" \/ (Obeys /\ (kpc = "send" => lines > 0 /\ cmd = typed[lines]))

LEMMA UnifiedInit == U!Init => UnifiedInv
<1> SUFFICES ASSUME U!Init PROVE UnifiedInv
  OBVIOUS
<1>1. /\ usent = <<>> /\ typed = <<>> /\ lines = 0 /\ in_time = 0 /\ cmd = 0
      /\ g_running = TRUE /\ kpc = "none" /\ cin = "good" /\ process = "running"
      /\ mpc = "init" /\ detached = FALSE /\ requested = FALSE
  BY DEF U!Init
<1>2. U!TypeOK
  <2>1. <<>> \in Seq(Numbers \cup {NotANumber}) /\ <<>> \in Seq(Seq(0 .. 255))
    OBVIOUS
  <2>2. lines \in 0 .. Len(typed) /\ in_time \in 0 .. Len(usent) BY <1>1
  <2>3. typed \in Seq(Numbers \cup {NotANumber}) /\ usent \in Seq(Seq(0 .. 255))
    BY <1>1, <2>1
  <2>4. g_running \in BOOLEAN /\ detached \in BOOLEAN /\ requested \in BOOLEAN
    BY <1>1
  <2> QED BY <1>1, <2>2, <2>3, <2>4 DEF U!TypeOK
<1>3. Obeys
  <2> DEFINE line == [i \in {} |-> 0]
  <2>1. DOMAIN usent = {} BY <1>1
  <2>2. line \in [{} -> 1 .. lines] OBVIOUS
  <2> HIDE DEF line
  <2> QED BY <2>1, <2>2 DEF Obeys
<1> QED BY <1>1, <1>2, <1>3 DEF UnifiedInv

\* The payloads of the switch.
LEMMA UnifiedPayload ==
  ASSUME NEW c \in 1 .. 5
  PROVE  U!Payload[c] \in Payloads /\ Sound("unified", U!Payload[c])
<1>1. /\ U!Payload[1] = <<1, 8>> /\ U!Payload[2] = <<1, 2>> /\ U!Payload[3] = <<1, 5>>
      /\ U!Payload[4] = <<3, 1>> /\ U!Payload[5] = <<4, 1>>
  BY DEF U!Payload
<1>2. /\ Sound("unified", <<1, 8>>) /\ Sound("unified", <<1, 2>>)
      /\ Sound("unified", <<1, 5>>) /\ Sound("unified", <<3, 1>>)
      /\ Sound("unified", <<4, 1>>)
  <2> DEFINE Bytes == 0 .. 255
  <2>1. {1, 2, 3, 4, 5, 8} \subseteq Bytes OBVIOUS
  <2>2. \A a, b \in Bytes : Sound("unified", <<a, b>>) BY ShortSound
  <2> HIDE DEF Bytes
  <2>3. \A a, b \in {1, 2, 3, 4, 5, 8} : Sound("unified", <<a, b>>) BY <2>1, <2>2
  <2> QED BY <2>3
<1>3. c = 1 \/ c = 2 \/ c = 3 \/ c = 4 \/ c = 5 OBVIOUS
<1>4. Sound("unified", U!Payload[c]) BY <1>1, <1>2, <1>3
<1> QED BY <1>4 DEF Sound

\* The console's loop goes on to read only while g_running is up.
LEMMA UnifiedIdles ==
  ASSUME UnifiedInv,
         \/ U!MainStep \/ U!Registered \/ U!UseAfterDestruction \/ U!UserEndsInput
         \/ U!Signal \/ U!Detach \/ U!ConsoleLoop \/ U!StopApp \/ UNCHANGED u_vars
  PROVE  UnifiedInv' /\ usent' = usent
<1> USE DEF UnifiedInv
<1>1. UNCHANGED <<usent, in_time, typed, lines, cmd>>
  BY DEF U!MainStep, U!InitFails, U!StartConsole, U!WakeUp, U!Join, U!Exit, U!Registered,
         U!UseAfterDestruction, U!UserEndsInput, U!Signal, U!Detach, U!ConsoleLoop,
         U!StopApp, u_vars
<1>2. /\ g_running' = g_running \/ g_running' = FALSE
      /\ detached' = detached \/ detached' = TRUE
      /\ requested' = requested \/ requested' = TRUE
  BY DEF U!MainStep, U!InitFails, U!StartConsole, U!WakeUp, U!Join, U!Exit, U!Registered,
         U!UseAfterDestruction, U!UserEndsInput, U!Signal, U!Detach, U!ConsoleLoop,
         U!StopApp, u_vars
<1>3. /\ process' \in {"running", "exited", "crashed"}
      /\ mpc' \in {"init", "sleep", "join", "destroyed"}
      /\ cin' = cin \/ (cin = "good" /\ cin' = "ended")
  BY DEF U!TypeOK, U!MainStep, U!InitFails, U!StartConsole, U!WakeUp, U!Join, U!Exit,
         U!Registered, U!UseAfterDestruction, U!UserEndsInput, U!Signal, U!Detach,
         U!ConsoleLoop, U!StopApp, u_vars
<1>4. \/ kpc' = kpc
      \/ kpc' \in {"start", "loop", "stop", "done"}
      \/ kpc' = "read" /\ g_running
  BY DEF U!MainStep, U!InitFails, U!StartConsole, U!WakeUp, U!Join, U!Exit,
         U!Registered, U!UseAfterDestruction, U!UserEndsInput, U!Signal, U!Detach,
         U!ConsoleLoop, U!StopApp, u_vars, U!Console, U!WhileRunning
<1>5. U!TypeOK'
  <2>1. g_running' \in BOOLEAN /\ detached' \in BOOLEAN /\ requested' \in BOOLEAN
    BY <1>2 DEF U!TypeOK
  <2> QED BY <1>1, <1>3, <1>4, <2>1 DEF U!TypeOK
<1>6. cin' # "failed" =>
        Obeys' /\ (kpc' = "send" => lines' > 0 /\ cmd' = typed'[lines'])
  BY <1>1, <1>3, <1>4 DEF Obeys
<1> QED BY <1>1, <1>2, <1>4, <1>5, <1>6

\* A line more does not change what the others were.
LEMMA UnifiedTyped ==
  ASSUME UnifiedInv, NEW text \in Numbers \cup {NotANumber}, U!UserTypes(text)
  PROVE  UnifiedInv' /\ usent' = usent
<1> USE DEF UnifiedInv
<1>1. /\ typed' = Append(typed, text)
      /\ UNCHANGED <<g_running, process, mpc, kpc, detached, requested, lines, cin, cmd,
                     usent, in_time>>
  BY DEF U!UserTypes
<1>2. typed \in Seq(Numbers \cup {NotANumber}) /\ lines \in 0 .. Len(typed)
  BY DEF U!TypeOK
<1>3. /\ typed' \in Seq(Numbers \cup {NotANumber}) /\ lines \in 0 .. Len(typed')
      /\ \A n \in 1 .. lines : typed'[n] = typed[n]
  BY <1>1, <1>2
<1>4. U!TypeOK' BY <1>1, <1>3 DEF U!TypeOK
<1>5. Obeys => Obeys'
  <2> SUFFICES ASSUME Obeys PROVE Obeys'
    OBVIOUS
  <2>1. PICK line \in [DOMAIN usent -> 1 .. lines] :
          /\ \A i \in DOMAIN usent : /\ U!IsCommand(typed[line[i]])
                                     /\ usent[i] = U!Payload[typed[line[i]]]
                                     /\ kpc = "send" => line[i] < lines
          /\ \A i, j \in DOMAIN usent : i < j => line[i] < line[j]
    BY DEF Obeys
  <2>2. \A i \in DOMAIN usent : typed'[line[i]] = typed[line[i]] BY <1>3
  <2>3. \A i \in DOMAIN usent' : /\ U!IsCommand(typed'[line[i]])
                                 /\ usent'[i] = U!Payload[typed'[line[i]]]
                                 /\ kpc' = "send" => line[i] < lines'
    BY <1>1, <2>1, <2>2
  <2> QED BY <1>1, <2>1, <2>3 DEF Obeys
<1>6. lines > 0 => typed'[lines] = typed[lines] BY <1>2, <1>3
<1> QED BY <1>1, <1>4, <1>5, <1>6

\* A command sent is that of the line just read, which is later than the others'.
LEMMA UnifiedSent ==
  ASSUME UnifiedInv, U!SendCommand
  PROVE  /\ UnifiedInv'
         /\ \E payload : usent' = Append(usent, payload) /\ Sound("unified", payload)
<1> USE DEF UnifiedInv
<1>1. /\ kpc = "send" /\ kpc' = "loop" /\ cmd' = 0
      /\ usent' = Append(usent, U!Payload[cmd])
      /\ in_time' = IF g_running THEN Len(usent') ELSE in_time
      /\ UNCHANGED <<g_running, process, mpc, detached, requested, typed, lines, cin>>
  BY DEF U!SendCommand, U!EndCase
<1>2. usent \in Seq(Payloads) /\ lines \in Nat /\ in_time = Len(usent)
  BY <1>1 DEF U!TypeOK, Payloads
<1>3. U!Payload[cmd] \in Payloads /\ Sound("unified", U!Payload[cmd])
  BY <1>1, UnifiedPayload
<1>4. /\ usent' \in Seq(Payloads) /\ Len(usent') = Len(usent) + 1
      /\ DOMAIN usent = 1 .. Len(usent) /\ DOMAIN usent' = 1 .. Len(usent) + 1
      /\ \A i \in DOMAIN usent : usent'[i] = usent[i]
      /\ usent'[Len(usent) + 1] = U!Payload[cmd] /\ Len(usent) \in Nat
  BY <1>1, <1>2, <1>3
<1>5. in_time' \in 0 .. Len(usent') BY <1>1, <1>2, <1>4
<1>6. U!TypeOK' BY <1>1, <1>4, <1>5 DEF U!TypeOK, Payloads
<1>7. Len(usent') \in {in_time', in_time' + 1} /\ (g_running' => Len(usent') = in_time')
  BY <1>1, <1>2, <1>4
<1>8. cin # "failed" => Obeys'
  <2> SUFFICES ASSUME cin # "failed" PROVE Obeys'
    OBVIOUS
  <2>1. PICK line \in [DOMAIN usent -> 1 .. lines] :
          /\ \A i \in DOMAIN usent : /\ U!IsCommand(typed[line[i]])
                                     /\ usent[i] = U!Payload[typed[line[i]]]
                                     /\ kpc = "send" => line[i] < lines
          /\ \A i, j \in DOMAIN usent : i < j => line[i] < line[j]
    BY DEF Obeys
  <2>2. lines > 0 /\ cmd = typed[lines] /\ U!IsCommand(typed[lines])
    BY <1>1 DEF U!IsCommand
  <2> DEFINE more == [i \in DOMAIN usent' |-> IF i \in DOMAIN usent THEN line[i] ELSE lines]
  <2>3. more \in [DOMAIN usent' -> 1 .. lines] BY <1>2, <2>1, <2>2
  <2>4. /\ \A i \in DOMAIN usent : more[i] = line[i]
        /\ more[Len(usent) + 1] = lines
    BY <1>4
  <2> HIDE DEF more
  <2>5. \A i \in DOMAIN usent' : /\ U!IsCommand(typed[more[i]])
                                 /\ usent'[i] = U!Payload[typed[more[i]]]
    <3> SUFFICES ASSUME NEW i \in DOMAIN usent'
                 PROVE  /\ U!IsCommand(typed[more[i]])
                        /\ usent'[i] = U!Payload[typed[more[i]]]
      OBVIOUS
    <3>1. CASE i \in DOMAIN usent BY <1>4, <2>1, <2>4, <3>1
    <3>2. CASE i = Len(usent) + 1 BY <1>4, <2>2, <2>4, <3>2
    <3> QED BY <1>4, <3>1, <3>2
  <2>6. \A i, j \in DOMAIN usent' : i < j => more[i] < more[j]
    <3> SUFFICES ASSUME NEW i \in DOMAIN usent', NEW j \in DOMAIN usent', i < j
                 PROVE  more[i] < more[j]
      OBVIOUS
    <3>1. i \in DOMAIN usent BY <1>4
    <3>2. CASE j \in DOMAIN usent BY <2>1, <2>4, <3>1, <3>2
    <3>3. CASE j = Len(usent) + 1 BY <1>1, <2>1, <2>4, <3>1, <3>3
    <3> QED BY <1>4, <3>2, <3>3
  <2>7. /\ more \in [DOMAIN usent' -> 1 .. lines'] /\ kpc' # "send"
        /\ UNCHANGED <<typed, lines>>
    BY <1>1, <2>3
  <2>8. \A i \in DOMAIN usent' : /\ U!IsCommand(typed'[more[i]])
                                 /\ usent'[i] = U!Payload[typed'[more[i]]]
                                 /\ kpc' = "send" => more[i] < lines'
    BY <2>5, <2>7
  <2> HIDE DEF UnifiedInv
  <2> QED BY <2>6, <2>7, <2>8 DEF Obeys
<1>9. UnifiedInv' BY <1>1, <1>6, <1>7, <1>8
<1> QED BY <1>1, <1>3, <1>9

\* What the loop does with what it read.
LEMMA UnifiedReads ==
  ASSUME UnifiedInv, U!ReadNumber \/ U!ReadWord \/ U!ReadNothing
  PROVE  UnifiedInv' /\ usent' = usent
<1> USE DEF UnifiedInv
<1>1. PICK c \in Numbers \cup {0} : U!Obey(c)
  BY DEF U!ReadNumber, U!ReadWord, U!ReadNothing
<1>2. /\ kpc = "read" /\ g_running' = (g_running /\ c # 6)
      /\ cmd' = IF U!IsCommand(c) THEN c ELSE 0
      /\ UNCHANGED <<process, mpc, detached, requested, typed, usent, in_time>>
  BY <1>1 DEF U!Obey, U!Console
<1>3. kpc' \in {"stop", "send", "loop"} /\ (kpc' = "send" => U!IsCommand(c))
  <2>1. kpc' = CASE c = 6 -> "stop" [] U!IsCommand(c) -> "send" [] OTHER -> "loop"
    BY <1>1 DEF U!Obey, U!Console
  <2> QED BY <2>1
<1>4. /\ typed \in Seq(Numbers \cup {NotANumber}) /\ lines \in 0 .. Len(typed)
      /\ Len(typed) \in Nat
  BY DEF U!TypeOK
<1>5. /\ \/ lines' = lines /\ cin' = "failed"
         \/ lines' = lines + 1 /\ lines < Len(typed) /\ cin' = "failed"
         \/ U!ReadNumber /\ lines' = lines + 1 /\ lines < Len(typed) /\ cin' = cin
      /\ cin' \in {"good", "ended", "failed"}
  BY DEF U!ReadNumber, U!ReadWord, U!ReadNothing, U!TypeOK
<1>6. lines' \in 0 .. Len(typed) BY <1>4, <1>5
<1>7. cmd' \in 0 .. 5 /\ (kpc' = "send" => cmd' \in 1 .. 5)
  BY <1>2, <1>3 DEF U!IsCommand
<1>8. U!TypeOK'
  <2>1. g_running' \in BOOLEAN BY <1>2 DEF U!TypeOK
  <2> QED BY <1>2, <1>3, <1>5, <1>6, <1>7, <2>1 DEF U!TypeOK
<1>9. Len(usent) = in_time BY <1>2
<1>10. ASSUME cin' # "failed"
       PROVE  Obeys' /\ (kpc' = "send" => lines' > 0 /\ cmd' = typed'[lines'])
  <2>1. U!ReadNumber /\ lines' = lines + 1 /\ cin' = cin BY <1>5, <1>10
  <2>2. PICK line \in [DOMAIN usent -> 1 .. lines] :
          /\ \A i \in DOMAIN usent : /\ U!IsCommand(typed[line[i]])
                                     /\ usent[i] = U!Payload[typed[line[i]]]
                                     /\ kpc = "send" => line[i] < lines
          /\ \A i, j \in DOMAIN usent : i < j => line[i] < line[j]
    BY <1>10, <2>1 DEF Obeys
  <2>3. line \in [DOMAIN usent' -> 1 .. lines'] BY <1>2, <1>4, <2>1, <2>2
  <2>4. \A i \in DOMAIN usent : line[i] < lines' BY <1>4, <2>1, <2>2
  <2>5. Obeys' BY <1>2, <2>2, <2>3, <2>4 DEF Obeys
  <2>6. ASSUME kpc' = "send" PROVE cmd' = typed[lines']
    <3>1. U!Obey(typed[lines + 1]) BY <2>1 DEF U!ReadNumber
    <3>2. /\ cmd' = IF U!IsCommand(typed[lines + 1]) THEN typed[lines + 1] ELSE 0
          /\ kpc' = CASE typed[lines + 1] = 6 -> "stop"
                      [] U!IsCommand(typed[lines + 1]) -> "send" [] OTHER -> "loop"
      BY <3>1 DEF U!Obey, U!Console
    <3>3. U!IsCommand(typed[lines + 1]) BY <2>6, <3>2
    <3> QED BY <2>1, <3>2, <3>3
  <2> QED BY <1>2, <1>4, <2>1, <2>5, <2>6
<1> QED BY <1>2, <1>3, <1>7, <1>8, <1>9, <1>10

-----------------------------------------------------------------------------
(* The other clients *)

\* The control client is in its script.
ScriptInv ==
  /\ csent \in Seq(Payloads) /\ Len(csent) <= 6
  /\ cpc \in {"init", "send"} => Len(csent) < 6
  /\ \A i \in DOMAIN csent : csent[i] = C!Script[i]

LEMMA ScriptFacts ==
  /\ Len(C!Script) = 6 /\ DOMAIN C!Script = 1 .. 6
  /\ \A i \in 1 .. 6 : Sound("control", C!Script[i])
<1>1. /\ C!Script[1] = <<1, 8>> /\ C!Script[2] = <<2, 70>> /\ C!Script[3] = <<3, 1>>
      /\ C!Script[4] = <<4, 1>> /\ C!Script[5] = <<5, 49, 50, 51, 52>>
      /\ C!Script[6] = <<254, 1>>
  BY DEF C!Script
<1>2. Len(C!Script) = 6 /\ DOMAIN C!Script = 1 .. 6 BY DEF C!Script
<1>4. ASSUME NEW a \in {1, 2, 3, 4, 8, 70, 254}, NEW b \in {1, 2, 3, 4, 8, 70, 254}
      PROVE  Sound("control", <<a, b>>)
  <2>1. a \in 0 .. 255 /\ b \in 0 .. 255 OBVIOUS
  <2> QED BY <2>1, ShortSound
<1>5. Sound("control", <<5, 49, 50, 51, 52>>)
  <2>1. 5 \in RequestLengths BY PathAssumption
  <2>2. <<5, 49, 50, 51, 52>> \in Seq(0 .. 255) /\ Len(<<5, 49, 50, 51, 52>>) = 5
    OBVIOUS
  <2> QED BY <2>1, <2>2 DEF Sound, Payloads
<1>6. /\ Sound("control", <<1, 8>>) /\ Sound("control", <<2, 70>>)
      /\ Sound("control", <<3, 1>>) /\ Sound("control", <<4, 1>>)
      /\ Sound("control", <<254, 1>>)
  BY <1>4
<1>7. \A i \in 1 .. 6 : i = 1 \/ i = 2 \/ i = 3 \/ i = 4 \/ i = 5 \/ i = 6 OBVIOUS
<1>8. \A i \in 1 .. 6 : Sound("control", C!Script[i]) BY <1>1, <1>5, <1>6, <1>7
<1> QED BY <1>2, <1>8

LEMMA ScriptSent ==
  ASSUME ScriptInv, C!SendCommand
  PROVE  /\ ScriptInv'
         /\ \E payload : csent' = Append(csent, payload) /\ Sound("control", payload)
<1>1. /\ csent' = Append(csent, C!Script[Len(csent) + 1]) /\ Len(csent) < 6
      /\ cpc' = IF Len(csent') = Len(C!Script) THEN "join" ELSE "send"
  BY DEF C!SendCommand, ScriptInv
<1>2. csent \in Seq(Payloads) /\ Len(csent) + 1 \in 1 .. 6 BY <1>1 DEF ScriptInv
<1>3. Sound("control", C!Script[Len(csent) + 1]) BY <1>2, ScriptFacts
<1>4. C!Script[Len(csent) + 1] \in Payloads BY <1>3 DEF Sound
<1>5. /\ csent' \in Seq(Payloads) /\ Len(csent') = Len(csent) + 1
      /\ \A i \in DOMAIN csent' :
           \/ i \in DOMAIN csent /\ csent'[i] = csent[i]
           \/ i = Len(csent) + 1 /\ csent'[i] = C!Script[Len(csent) + 1]
  BY <1>1, <1>2, <1>4
<1>6. cpc' \in {"init", "send"} => Len(csent') < 6 BY <1>1, <1>2, <1>5, ScriptFacts
<1>7. ScriptInv' BY <1>2, <1>5, <1>6 DEF ScriptInv
<1> QED BY <1>1, <1>3, <1>7

\* veh_cli cuts what it reads to bytes.
CliInv == vcmd_type \in 0 .. 255 /\ vsent \in Seq(Payloads)

LEMMA CliRead ==
  ASSUME CliInv, NEW input \in CliInputs, V!Read(input)
  PROVE  /\ CliInv'
         /\ \/ vsent' = vsent
            \/ \E payload : vsent' = Append(vsent, payload) /\ Sound("cli", payload)
<1>1. vcmd_type \in 0 .. 255 /\ vsent \in Seq(Payloads) BY DEF CliInv
<1>2. input \notin {NotANumber, Eof} => V!Byte(input) \in 0 .. 255
  <2> SUFFICES ASSUME input \notin {NotANumber, Eof} PROVE V!Byte(input) \in 0 .. 255
    OBVIOUS
  <2>1. input \in Int BY PathAssumption
  <2> QED BY <2>1 DEF V!Byte
<1>3. \A a \in 0 .. 255 : Sound("cli", <<a>>)
  <2>1. 0 \in 0 .. 255 OBVIOUS
  <2> QED BY <2>1, ShortSound
<1>4. \A a, b \in 0 .. 255 : Sound("cli", <<a, b>>) BY ShortSound
<1>5. 0 \in 0 .. 255 /\ 255 \in 0 .. 255 OBVIOUS
<1>6. /\ vcmd_type' \in 0 .. 255
      /\ \/ vsent' = vsent
         \/ \E payload : vsent' = Append(vsent, payload) /\ Sound("cli", payload)
  <2>1. CASE V!ReadType(input)
    <3>1. CASE V!NoNumber(input) /\ V!Terminate
      BY <1>1, <3>1 DEF V!Terminate
    <3>2. CASE ~V!NoNumber(input)
      <4>1. input \notin {NotANumber, Eof} BY <3>2 DEF V!NoNumber
      <4>2. vcmd_type' = V!Byte(input) BY <2>1, <3>2 DEF V!ReadType
      <4>3. vsent' = vsent \/ vsent' = Append(vsent, <<vcmd_type'>>)
        BY <2>1, <3>2 DEF V!ReadType, V!Send
      <4> QED BY <1>2, <1>3, <4>1, <4>2, <4>3
    <3> QED BY <2>1, <3>1, <3>2 DEF V!ReadType
  <2>2. CASE V!ReadDirection(input)
    <3>1. CASE V!NoNumber(input) /\ V!Terminate
      BY <1>1, <3>1 DEF V!Terminate
    <3>2. CASE ~V!NoNumber(input)
      <4>1. input \notin {NotANumber, Eof} BY <3>2 DEF V!NoNumber
      <4>2. /\ vcmd_type' = vcmd_type
            /\ vsent' = Append(vsent, <<vcmd_type, V!Byte(input)>>)
        BY <2>2, <3>2 DEF V!ReadDirection, V!Send
      <4>3. Sound("cli", <<vcmd_type, V!Byte(input)>>) BY <1>1, <1>2, <1>4, <4>1
      <4> QED BY <1>1, <4>2, <4>3
    <3> QED BY <2>2, <3>1, <3>2 DEF V!ReadDirection
  <2>3. CASE V!ReadSpeed(input)
    <3>1. PICK b : /\ vsent' = Append(vsent, <<vcmd_type, b>>)
                   /\ b \in {0, 255} \/ (b = V!Byte(input) /\ input \notin {NotANumber, Eof})
      BY <2>3 DEF V!ReadSpeed, V!Send
    <3>2. b \in 0 .. 255 BY <1>2, <1>5, <3>1
    <3>3. Sound("cli", <<vcmd_type, b>>) BY <1>1, <1>4, <3>2
    <3>4. vcmd_type' = vcmd_type BY <2>3 DEF V!ReadSpeed
    <3> QED BY <1>1, <3>1, <3>3, <3>4
  <2> QED BY <2>1, <2>2, <2>3 DEF V!Read
<1>7. vsent' \in Seq(Payloads)
  <2>1. CASE vsent' = vsent BY <1>1, <2>1
  <2>2. ASSUME NEW payload, vsent' = Append(vsent, payload), Sound("cli", payload)
        PROVE  vsent' \in Seq(Payloads)
    BY <1>1, <2>2 DEF Sound
  <2> QED BY <1>6, <2>1, <2>2
<1> QED BY <1>6, <1>7 DEF CliInv

\* The Python window sends two bytes.
PythonInv == psent \in Seq(Payloads) /\ speed \in 0 .. 100 /\ aeb \in BOOLEAN

LEMMA PythonSent ==
  ASSUME PythonInv, P!Click(Directions)
  PROVE  /\ PythonInv'
         /\ \E payload : psent' = Append(psent, payload) /\ Sound("python", payload)
<1>1. psent \in Seq(Payloads) /\ speed \in 0 .. 100 /\ aeb \in BOOLEAN BY DEF PythonInv
<1>2. PICK cmd1, value : P!SendCommand(cmd1, value) /\ cmd1 \in 0 .. 255 /\ value \in 0 .. 255
  <2>1. CASE P!ToggleAeb
    <3>1. P!SendCommand(160, IF aeb' THEN 1 ELSE 0) BY <2>1 DEF P!ToggleAeb
    <3>2. (IF aeb' THEN 1 ELSE 0) \in 0 .. 255 /\ 160 \in 0 .. 255 OBVIOUS
    <3> QED BY <3>1, <3>2
  <2>2. CASE P!TriggerAutopark
    <3>1. P!SendCommand(176, 1) BY <2>2 DEF P!TriggerAutopark
    <3>2. 176 \in 0 .. 255 /\ 1 \in 0 .. 255 OBVIOUS
    <3> QED BY <3>1, <3>2
  <2>3. ASSUME NEW d \in Directions, P!OnDirection(d)
        PROVE  \E c, v : P!SendCommand(c, v) /\ c \in 0 .. 255 /\ v \in 0 .. 255
    <3>1. P!SendCommand(d, speed) /\ d \in 1 .. 9 BY <2>3 DEF P!OnDirection
    <3>2. d \in 0 .. 255 /\ speed \in 0 .. 255 BY <1>1, <3>1
    <3> QED BY <3>1, <3>2
  <2> QED BY <2>1, <2>2, <2>3 DEF P!Click
<1>3. psent' = Append(psent, <<cmd1, value>>) BY <1>2 DEF P!SendCommand
<1>4. Sound("python", <<cmd1, value>>) BY <1>2, ShortSound
<1>5. psent' \in Seq(Payloads) BY <1>1, <1>3, <1>4 DEF Sound
<1>6. speed' = speed /\ (aeb' = aeb \/ aeb' = ~aeb)
  BY DEF P!Click, P!ToggleAeb, P!TriggerAutopark, P!OnDirection
<1>7. PythonInv' BY <1>1, <1>5, <1>6 DEF PythonInv
<1> QED BY <1>3, <1>4, <1>7

-----------------------------------------------------------------------------
(* The Qt client *)

\* A password goes with its type before it, however long it is.
LEMMA PasswordSound ==
  ASSUME NEW n \in Passwords, NEW payload, payload = << 5 >> \o [i \in 1 .. n |-> 49]
  PROVE  Sound("qt", payload)
<1>1. n \in Nat /\ n + 1 \in RequestLengths BY PathAssumption
<1> DEFINE word == [i \in 1 .. n |-> 49]
<1>2. word \in Seq(0 .. 255) /\ Len(word) = n BY <1>1
<1>3. << 5 >> \in Seq(0 .. 255) /\ Len(<< 5 >>) = 1 OBVIOUS
<1>4. payload = << 5 >> \o word OBVIOUS
<1> HIDE DEF word
<1>5. /\ payload \in Seq(0 .. 255) /\ Len(payload) = n + 1 /\ payload[1] = 5
  BY <1>1, <1>2, <1>3, <1>4
<1> QED BY <1>1, <1>5 DEF Sound, Payloads

LEMMA PressSound ==
  ASSUME NEW payload \in QtPresses
  PROVE  Sound("qt", payload)
<1>1. CASE payload = <<1, 8>>
  <2>1. 1 \in 0 .. 255 /\ 8 \in 0 .. 255 OBVIOUS
  <2> QED BY <1>1, <2>1, ShortSound
<1>2. ASSUME NEW n \in Passwords, payload = << 5 >> \o [i \in 1 .. n |-> 49]
      PROVE  Sound("qt", payload)
  BY <1>2, PasswordSound
<1> QED BY <1>1, <1>2 DEF QtPresses

\* The slider is at a step, and a step is a byte.
LEMMA SpeedByte ==
  ASSUME NEW b \in 0 .. 255
  PROVE  Sound("qt", <<2, b>>)
<1>1. 2 \in 0 .. 255 OBVIOUS
<1> QED BY <1>1, ShortSound

LEMMA SpeedSound ==
  ASSUME NEW v \in 0 .. 1000, NEW payload, payload = Q!Speed(v)
  PROVE  Sound("qt", payload)
<1> DEFINE b == v \div 10
<1>1. b \in 0 .. 255 OBVIOUS
<1>2. payload = <<2, b>> BY DEF Q!Speed
<1> HIDE DEF b
<1>3. Sound("qt", <<2, b>>) BY <1>1, SpeedByte
<1> QED BY <1>2, <1>3

LEMMA StepSound ==
  ASSUME NEW v \in 0 .. 1000, NEW payload, payload = Q!Speed(Q!Step(v))
  PROVE  Sound("qt", payload)
<1> DEFINE b == ((v \div 10) * 10) \div 10
<1>1. b \in 0 .. 255 OBVIOUS
<1>2. payload = <<2, b>> BY DEF Q!Speed, Q!Step
<1> HIDE DEF b
<1>3. Sound("qt", <<2, b>>) BY <1>1, SpeedByte
<1> QED BY <1>2, <1>3

\* What Qt's event loop sends.
LEMMA QtSent ==
  ASSUME Q!TypeOK, QtCommand
  PROVE  /\ Q!TypeOK'
         /\ \/ qsent' = qsent
            \/ \E payload : qsent' = Append(qsent, payload) /\ Sound("qt", payload)
<1>1. slider \in 0 .. 1000 /\ qsent \in Seq(Payloads) BY DEF Q!TypeOK, Payloads
<1>2. PICK payload : Q!SendCommand(payload) /\ Sound("qt", payload)
  <2>1. ASSUME NEW p \in QtPresses, Q!Press(p)
        PROVE  Q!SendCommand(p) /\ Sound("qt", p)
    BY <2>1, PressSound DEF Q!Press
  <2>2. ASSUME NEW v \in Positions, Q!MoveSlider(v)
        PROVE  Q!SendCommand(Q!Speed(Q!Step(v))) /\ Sound("qt", Q!Speed(Q!Step(v)))
    <3>1. v \in 0 .. 1000 /\ Q!SendCommand(Q!Speed(Q!Step(v)))
      BY <2>2 DEF Q!MoveSlider
    <3> DEFINE payload == Q!Speed(Q!Step(v))
    <3>2. payload = Q!Speed(Q!Step(v)) OBVIOUS
    <3> HIDE DEF payload
    <3>3. Sound("qt", payload) BY <3>1, <3>2, StepSound
    <3> QED BY <3>1, <3>2, <3>3
  <2>3. ASSUME Q!SendAgain
        PROVE  Q!SendCommand(Q!Speed(slider)) /\ Sound("qt", Q!Speed(slider))
    <3>1. Q!SendCommand(Q!Speed(slider)) BY <2>3 DEF Q!SendAgain
    <3> DEFINE payload == Q!Speed(slider)
    <3>2. payload = Q!Speed(slider) OBVIOUS
    <3> HIDE DEF payload
    <3>3. slider \in 0 .. 1000 BY <1>1
    <3>4. Sound("qt", payload) BY <3>2, <3>3, SpeedSound
    <3> QED BY <3>1, <3>2, <3>4
  <2> QED BY <2>1, <2>2, <2>3 DEF QtCommand
<1>3. qsent' = qsent \/ qsent' = Append(qsent, payload)
  BY <1>2 DEF Q!SendCommand
<1>4. qsent' \in Seq(Payloads) BY <1>1, <1>2, <1>3 DEF Sound
<1>5. /\ UNCHANGED <<qpc, qapp, qvs, running_, interrupted, handling, queue, shown>>
      /\ gui' \in {"show", "slide"}
  BY DEF QtCommand, Q!Press, Q!MoveSlider, Q!SendAgain, Q!thread_vars
<1>6. slider' \in 0 .. 1000
  <2>1. ASSUME NEW v \in Positions, Q!MoveSlider(v) PROVE slider' \in 0 .. 1000
    <3> DEFINE step == (v \div 10) * 10
    <3>1. v \in 0 .. 1000 BY <2>1 DEF Q!MoveSlider
    <3>2. slider' = step BY <2>1 DEF Q!MoveSlider, Q!Step
    <3>3. step \in 0 .. 1000 BY <3>1
    <3> HIDE DEF step
    <3> QED BY <3>2, <3>3
  <2>2. CASE slider' = slider BY <1>1, <2>2
  <2>3. slider' = slider \/ \E v \in Positions : Q!MoveSlider(v)
    BY DEF QtCommand, Q!Press, Q!SendAgain
  <2> QED BY <2>1, <2>2, <2>3
<1>7. Q!TypeOK' BY <1>4, <1>5, <1>6 DEF Q!TypeOK, Payloads
<1> QED BY <1>2, <1>3, <1>7

Status == [kind : {"tof", "status"}, value : Nat]

\* Its other steps send nothing.
LEMMA QtIdles ==
  ASSUME Q!TypeOK,
         Q!ThreadStep \/ Q!VsomeipStep \/ Q!WindowStep \/ Q!CloseWindow \/ UNCHANGED q_vars
  PROVE  Q!TypeOK' /\ qsent' = qsent
<1>1. UNCHANGED <<slider, qsent>>
  BY DEF Q!ThreadStep, Q!VsomeipStep, Q!WindowStep, Q!CloseWindow, Q!InitVsomeip,
         Q!StartVsomeip, Q!RunLoop, Q!StopVsomeip, Q!AppStart, Q!Registered, Q!Emit,
         Q!UseAfterDestruction, Q!HandleSignal, Q!Wait, Q!Exit, Q!Crash, Q!ui_vars,
         q_vars
<1>2. /\ gui' \in {"show", "slide", "wait", "delete", "ended", "crashed"}
      /\ qpc' \in {"init", "start", "loop", "stop", "done"}
      /\ qapp' \in {"null", "failed", "ready"}
      /\ qvs' \in {"none", "lambda", "started", "registered", "stopped"}
      /\ running_' = running_ \/ running_' = FALSE \/ running_' = (running_ /\ TRUE)
      /\ interrupted' = interrupted \/ interrupted' = TRUE
  BY DEF Q!TypeOK, Q!ThreadStep, Q!VsomeipStep, Q!WindowStep, Q!CloseWindow,
         Q!InitVsomeip, Q!StartVsomeip, Q!RunLoop, Q!StopVsomeip, Q!AppStart,
         Q!Registered, Q!Emit, Q!UseAfterDestruction, Q!HandleSignal, Q!Wait, Q!Exit,
         Q!Crash, Q!thread_vars, q_vars
<1>3. running_' \in BOOLEAN /\ interrupted' \in BOOLEAN BY <1>2 DEF Q!TypeOK
<1>4. \/ UNCHANGED <<handling, queue, shown>>
      \/ queue # <<>> /\ handling' = handling /\ queue' = Tail(queue)
         /\ shown' = Append(shown, Head(queue))
      \/ handling' = <<>> /\ queue' = queue \o handling /\ shown' = shown
  BY DEF Q!ThreadStep, Q!VsomeipStep, Q!WindowStep, Q!CloseWindow, Q!InitVsomeip,
         Q!StartVsomeip, Q!RunLoop, Q!StopVsomeip, Q!AppStart, Q!Registered, Q!Emit,
         Q!UseAfterDestruction, Q!HandleSignal, Q!Wait, Q!Exit, Q!Crash, Q!ui_vars,
         q_vars
<1>5. handling \in Seq(Status) /\ queue \in Seq(Status) /\ shown \in Seq(Status)
  BY DEF Q!TypeOK, Status
<1>6. handling' \in Seq(Status) /\ Len(handling') <= 1
  <2>1. <<>> \in Seq(Status) /\ Len(<<>>) <= 1 OBVIOUS
  <2>2. Len(handling) <= 1 BY DEF Q!TypeOK
  <2>3. UNCHANGED handling \/ handling' = <<>> BY <1>4
  <2> QED BY <1>5, <2>1, <2>2, <2>3
<1>7. queue' \in Seq(Status) /\ shown' \in Seq(Status)
  <2>1. CASE UNCHANGED <<handling, queue, shown>> BY <1>5, <2>1
  <2>2. CASE queue # <<>> /\ queue' = Tail(queue) /\ shown' = Append(shown, Head(queue))
    <3>1. Head(queue) \in Status /\ Tail(queue) \in Seq(Status) BY <1>5, <2>2
    <3> QED BY <1>5, <2>2, <3>1
  <2>3. CASE queue' = queue \o handling /\ shown' = shown BY <1>5, <2>3
  <2> QED BY <1>4, <2>1, <2>2, <2>3
<1>8. Q!TypeOK' BY <1>1, <1>2, <1>3, <1>6, <1>7 DEF Q!TypeOK, Status
<1> QED BY <1>1, <1>8

-----------------------------------------------------------------------------
(* All clients, and what a step makes of their logs *)

\* The other clients' steps that send nothing.
LEMMA ScriptIdles ==
  ASSUME ScriptInv, C!InitFails \/ C!Start \/ C!Registered \/ C!Signal \/ UNCHANGED c_vars
  PROVE  ScriptInv' /\ csent' = csent
BY DEF ScriptInv, C!InitFails, C!Start, C!Registered, C!Signal, c_vars

LEMMA CliIdles ==
  ASSUME CliInv, V!InitFails \/ V!Start \/ V!Registered \/ V!Signal \/ UNCHANGED v_vars
  PROVE  CliInv' /\ vsent' = vsent
BY DEF CliInv, V!InitFails, V!Start, V!Registered, V!Signal, v_vars

LEMMA PythonIdles ==
  ASSUME PythonInv,
         P!Alone \/ (\E v \in Speeds : P!OnSpeedChange(v)) \/ UNCHANGED p_vars
  PROVE  PythonInv' /\ psent' = psent
<1>1. psent' = psent /\ aeb' = aeb /\ (speed' = speed \/ speed' \in 0 .. 100)
  BY DEF P!Alone, P!Construct, P!Registered, P!Close, P!WorkerStops, P!Join,
         P!OnSpeedChange, p_vars
<1> QED BY <1>1 DEF PythonInv

ClientsInv == UnifiedInv /\ ScriptInv /\ CliInv /\ Q!TypeOK /\ PythonInv

LEMMA ClientsInit == PathInit => ClientsInv
<1> SUFFICES ASSUME PathInit PROVE ClientsInv
  OBVIOUS
<1>1. UnifiedInv BY UnifiedInit DEF PathInit
<1>2. <<>> \in Seq(Payloads) /\ Len(<<>>) = 0 /\ DOMAIN <<>> = {} OBVIOUS
<1>3. ScriptInv BY <1>2 DEF PathInit, C!Init, ScriptInv
<1>4. CliInv BY <1>2 DEF PathInit, V!Init, CliInv
<1>5. PythonInv
  <2>1. aeb \in BOOLEAN BY DEF PathInit, P!Init
  <2>2. psent = <<>> /\ speed = 0 BY DEF PathInit, P!Init
  <2> QED BY <1>2, <2>1, <2>2 DEF PythonInv
<1>6. Q!TypeOK
  <2>1. <<>> \in Seq(Status) OBVIOUS
  <2>2. running_ \in BOOLEAN /\ interrupted \in BOOLEAN BY DEF PathInit, Q!Init
  <2>3. /\ gui = "show" /\ qpc = "init" /\ qapp = "null" /\ qvs = "none"
        /\ handling = <<>> /\ queue = <<>> /\ shown = <<>> /\ slider = 0 /\ qsent = <<>>
    BY DEF PathInit, Q!Init
  <2> QED BY <1>2, <2>1, <2>2, <2>3 DEF Q!TypeOK, Status, Payloads
<1> QED BY <1>1, <1>3, <1>4, <1>5, <1>6 DEF ClientsInv

Own == {"unified", "control", "cli", "qt", "python"}

\* A step is the server's, or a client of which the server learns nothing, or the
\* arrival of a request.
ServerMoves ==
  /\ ServerStep \/ Exit \/ \E state \in Interfaces : InterfaceChanges(state)
  /\ origin' = origin /\ \A k \in Own : Sent(k)' = Sent(k)
Unheard ==
  /\ UNCHANGED <<vars, origin>>
  /\ \A k \in Own : Sent(k)' = Sent(k) \/ \E payload : Sent(k)' = Append(Sent(k), payload)
Heard(c, payload) ==
  /\ c \in who /\ Sound(c, payload) /\ Arrives(c, payload)
  /\ \A k \in Own : Sent(k)' = IF k = c THEN Append(Sent(k), payload) ELSE Sent(k)

PathMoves == ServerMoves \/ Unheard \/ \E c, payload : Heard(c, payload)

\* One client's log changes, and what it sends is heard or not.
LEMMA OneSends ==
  ASSUME NEW c \in Own, c \in who, NEW payload, NEW known, Sound(c, payload),
         Sent(c) \in Seq(Payloads), Sent(c)' = Append(Sent(c), payload),
         \A k \in Own \ {c} : Sent(k)' = Sent(k), Sends(c, Last(Sent(c)'), known)
  PROVE  PathMoves
<1>1. Last(Sent(c)') = payload BY LastAppended
<1>2. Arrives(c, payload) \/ UNCHANGED <<vars, origin>> BY <1>1 DEF Sends
<1>3. \A k \in Own : Sent(k)' = IF k = c THEN Append(Sent(k), payload) ELSE Sent(k)
  OBVIOUS
<1>4. CASE Arrives(c, payload)
  <2>1. Heard(c, payload) BY <1>3, <1>4 DEF Heard
  <2> QED BY <2>1 DEF PathMoves
<1>5. CASE UNCHANGED <<vars, origin>>
  <2>1. Unheard BY <1>3, <1>5 DEF Unheard
  <2> QED BY <2>1 DEF PathMoves
<1> QED BY <1>2, <1>4, <1>5

LEMMA SentLogs ==
  /\ Sent("unified") = usent /\ Sent("control") = csent /\ Sent("cli") = vsent
  /\ Sent("qt") = qsent /\ Sent("python") = psent
BY DEF Sent

LEMMA SentLogsPrime ==
  /\ Sent("unified")' = usent' /\ Sent("control")' = csent' /\ Sent("cli")' = vsent'
  /\ Sent("qt")' = qsent' /\ Sent("python")' = psent'
BY DEF Sent

LEMMA OwnLogs ==
  ASSUME ClientsInv, NEW c \in Own
  PROVE  Sent(c) \in Seq(Payloads)
<1>1. /\ usent \in Seq(Payloads) /\ csent \in Seq(Payloads) /\ vsent \in Seq(Payloads)
      /\ qsent \in Seq(Payloads) /\ psent \in Seq(Payloads)
  BY DEF ClientsInv, UnifiedInv, U!TypeOK, ScriptInv, CliInv, Q!TypeOK, PythonInv, Payloads
<1>2. \/ c = "unified" \/ c = "control" \/ c = "cli" \/ c = "qt" \/ c = "python"
  BY DEF Own
<1> QED BY <1>1, <1>2, SentLogs

\* A client that does not move keeps to its invariant.
LEMMA Unmoved ==
  ASSUME ClientsInv
  PROVE  /\ UNCHANGED u_vars => UnifiedInv' /\ usent' = usent
         /\ UNCHANGED c_vars => ScriptInv' /\ csent' = csent
         /\ UNCHANGED v_vars => CliInv' /\ vsent' = vsent
         /\ UNCHANGED q_vars => Q!TypeOK' /\ qsent' = qsent
         /\ UNCHANGED p_vars => PythonInv' /\ psent' = psent
<1> USE DEF ClientsInv
<1>1. UNCHANGED u_vars => UnifiedInv' /\ usent' = usent BY UnifiedIdles
<1>2. UNCHANGED c_vars => ScriptInv' /\ csent' = csent BY ScriptIdles
<1>3. UNCHANGED v_vars => CliInv' /\ vsent' = vsent BY CliIdles
<1>4. UNCHANGED q_vars => Q!TypeOK' /\ qsent' = qsent BY QtIdles
<1>5. UNCHANGED p_vars => PythonInv' /\ psent' = psent BY PythonIdles
<1> QED BY <1>1, <1>2, <1>3, <1>4, <1>5

\* No client sends.
LEMMA NobodySends ==
  ASSUME UNCHANGED <<usent, csent, vsent, qsent, psent>>
  PROVE  \A k \in Own : Sent(k)' = Sent(k)
<1> SUFFICES ASSUME NEW k \in Own PROVE Sent(k)' = Sent(k)
  OBVIOUS
<1>1. \/ k = "unified" \/ k = "control" \/ k = "cli" \/ k = "qt" \/ k = "python"
  BY DEF Own
<1> QED BY <1>1, SentLogs, SentLogsPrime

LEMMA OthersSilent ==
  ASSUME NEW c \in Own,
         c # "unified" => usent' = usent, c # "control" => csent' = csent,
         c # "cli" => vsent' = vsent, c # "qt" => qsent' = qsent,
         c # "python" => psent' = psent
  PROVE  \A k \in Own \ {c} : Sent(k)' = Sent(k)
<1> SUFFICES ASSUME NEW k \in Own \ {c} PROVE Sent(k)' = Sent(k)
  OBVIOUS
<1>1. \/ k = "unified" \/ k = "control" \/ k = "cli" \/ k = "qt" \/ k = "python"
  BY DEF Own
<1> QED BY <1>1, SentLogs, SentLogsPrime

LEMMA QuietMoves ==
  ASSUME UNCHANGED <<vars, origin>>, UNCHANGED <<usent, csent, vsent, qsent, psent>>
  PROVE  PathMoves
<1>1. \A k \in Own : Sent(k)' = Sent(k) BY NobodySends
<1> QED BY <1>1 DEF Unheard, PathMoves

LEMMA UnifiedMoves ==
  ASSUME ClientsInv, Unified
  PROVE  ClientsInv' /\ PathMoves
<1>1. UNCHANGED <<c_vars, v_vars, q_vars, p_vars>>
  BY DEF Unified, UnifiedSends, UnifiedAlone
<1>2. /\ ScriptInv' /\ CliInv' /\ Q!TypeOK' /\ PythonInv'
      /\ csent' = csent /\ vsent' = vsent /\ qsent' = qsent /\ psent' = psent
  BY <1>1, Unmoved
<1>3. UnifiedInv BY DEF ClientsInv
<1>4. CASE UnifiedSends
  <2>1. U!SendCommand /\ Sends("unified", Last(usent'), requested) BY <1>4 DEF UnifiedSends
  <2>2. UnifiedInv' BY <1>3, <2>1, UnifiedSent
  <2>3. PICK payload : usent' = Append(usent, payload) /\ Sound("unified", payload)
    BY <1>3, <2>1, UnifiedSent
  <2>4. "unified" \in Own /\ "unified" \in who BY DEF Own, Unified
  <2>5. Sent("unified") \in Seq(Payloads) BY <2>4, OwnLogs
  <2>6. \A k \in Own \ {"unified"} : Sent(k)' = Sent(k) BY <1>2, <2>4, OthersSilent
  <2>7. Sent("unified")' = usent' /\ Sent("unified") = usent
    BY SentLogs, SentLogsPrime
  <2>8. /\ Sends("unified", Last(Sent("unified")'), requested)
        /\ Sent("unified")' = Append(Sent("unified"), payload)
    BY <2>1, <2>3, <2>7
  <2>9. PathMoves BY <2>3, <2>4, <2>5, <2>6, <2>8, OneSends
  <2> QED BY <1>2, <2>2, <2>9 DEF ClientsInv
<1>5. CASE UnifiedAlone
  <2>1. UnifiedStep /\ UNCHANGED <<vars, origin>> BY <1>5 DEF UnifiedAlone
  <2>2. UnifiedInv' /\ usent' = usent
    <3>1. CASE U!MainStep \/ U!Registered \/ U!UseAfterDestruction \/ U!UserEndsInput
               \/ U!Signal \/ U!Detach \/ U!ConsoleLoop \/ U!StopApp
      BY <1>3, <3>1, UnifiedIdles
    <3>2. CASE U!ReadNumber \/ U!ReadWord \/ U!ReadNothing
      BY <1>3, <3>2, UnifiedReads
    <3>3. ASSUME NEW line \in Numbers \cup {NotANumber}, U!UserTypes(line)
          PROVE  UnifiedInv' /\ usent' = usent
      BY <1>3, <3>3, UnifiedTyped
    <3> QED BY <2>1, <3>1, <3>2, <3>3 DEF UnifiedStep, U!ConsoleStep
  <2>3. PathMoves BY <1>2, <2>1, <2>2, QuietMoves
  <2> QED BY <1>2, <2>2, <2>3 DEF ClientsInv
<1> QED BY <1>4, <1>5 DEF Unified

LEMMA ControlMoves ==
  ASSUME ClientsInv, Control
  PROVE  ClientsInv' /\ PathMoves
<1>1. UNCHANGED <<u_vars, v_vars, q_vars, p_vars>>
  BY DEF Control, ControlSends, ControlAlone
<1>2. /\ UnifiedInv' /\ CliInv' /\ Q!TypeOK' /\ PythonInv'
      /\ usent' = usent /\ vsent' = vsent /\ qsent' = qsent /\ psent' = psent
  BY <1>1, Unmoved
<1>3. ScriptInv BY DEF ClientsInv
<1>4. CASE ControlSends
  <2>1. C!SendCommand /\ Sends("control", Last(csent'), capp = "registered")
    BY <1>4 DEF ControlSends
  <2>2. ScriptInv' BY <1>3, <2>1, ScriptSent
  <2>3. PICK payload : csent' = Append(csent, payload) /\ Sound("control", payload)
    BY <1>3, <2>1, ScriptSent
  <2>4. "control" \in Own /\ "control" \in who BY DEF Own, Control
  <2>5. Sent("control") \in Seq(Payloads) BY <2>4, OwnLogs
  <2>6. \A k \in Own \ {"control"} : Sent(k)' = Sent(k) BY <1>2, <2>4, OthersSilent
  <2>7. Sent("control")' = csent' /\ Sent("control") = csent
    BY SentLogs, SentLogsPrime
  <2>8. /\ Sends("control", Last(Sent("control")'), capp = "registered")
        /\ Sent("control")' = Append(Sent("control"), payload)
    BY <2>1, <2>3, <2>7
  <2>9. PathMoves BY <2>3, <2>4, <2>5, <2>6, <2>8, OneSends
  <2> QED BY <1>2, <2>2, <2>9 DEF ClientsInv
<1>5. CASE ControlAlone
  <2>1. /\ C!InitFails \/ C!Start \/ C!Registered \/ C!Signal
        /\ UNCHANGED <<vars, origin>>
    BY <1>5 DEF ControlAlone
  <2>2. ScriptInv' /\ csent' = csent BY <1>3, <2>1, ScriptIdles
  <2>3. PathMoves BY <1>2, <2>1, <2>2, QuietMoves
  <2> QED BY <1>2, <2>2, <2>3 DEF ClientsInv
<1> QED BY <1>4, <1>5 DEF Control

LEMMA PythonMoves ==
  ASSUME ClientsInv, Python
  PROVE  ClientsInv' /\ PathMoves
<1>1. UNCHANGED <<u_vars, c_vars, v_vars, q_vars>>
  BY DEF Python, PythonSends, PythonAlone
<1>2. /\ UnifiedInv' /\ ScriptInv' /\ CliInv' /\ Q!TypeOK'
      /\ usent' = usent /\ csent' = csent /\ vsent' = vsent /\ qsent' = qsent
  BY <1>1, Unmoved
<1>3. PythonInv BY DEF ClientsInv
<1>4. CASE PythonSends
  <2>1. P!Click(Directions) /\ Sends("python", Last(psent'), worker = "registered")
    BY <1>4 DEF PythonSends
  <2>2. PythonInv' BY <1>3, <2>1, PythonSent
  <2>3. PICK payload : psent' = Append(psent, payload) /\ Sound("python", payload)
    BY <1>3, <2>1, PythonSent
  <2>4. "python" \in Own /\ "python" \in who BY DEF Own, Python
  <2>5. Sent("python") \in Seq(Payloads) BY <2>4, OwnLogs
  <2>6. \A k \in Own \ {"python"} : Sent(k)' = Sent(k) BY <1>2, <2>4, OthersSilent
  <2>7. Sent("python")' = psent' /\ Sent("python") = psent
    BY SentLogs, SentLogsPrime
  <2>8. /\ Sends("python", Last(Sent("python")'), worker = "registered")
        /\ Sent("python")' = Append(Sent("python"), payload)
    BY <2>1, <2>3, <2>7
  <2>9. PathMoves BY <2>3, <2>4, <2>5, <2>6, <2>8, OneSends
  <2> QED BY <1>2, <2>2, <2>9 DEF ClientsInv
<1>5. CASE PythonAlone
  <2>1. /\ P!Alone \/ \E v \in Speeds : P!OnSpeedChange(v)
        /\ UNCHANGED <<vars, origin>>
    BY <1>5 DEF PythonAlone
  <2>2. PythonInv' /\ psent' = psent BY <1>3, <2>1, PythonIdles
  <2>3. PathMoves BY <1>2, <2>1, <2>2, QuietMoves
  <2> QED BY <1>2, <2>2, <2>3 DEF ClientsInv
<1> QED BY <1>4, <1>5 DEF Python

LEMMA CliMoves ==
  ASSUME ClientsInv, Cli
  PROVE  ClientsInv' /\ PathMoves
<1>1. UNCHANGED <<u_vars, c_vars, q_vars, p_vars>>
  BY DEF Cli, CliReads, CliAlone
<1>2. /\ UnifiedInv' /\ ScriptInv' /\ Q!TypeOK' /\ PythonInv'
      /\ usent' = usent /\ csent' = csent /\ qsent' = qsent /\ psent' = psent
  BY <1>1, Unmoved
<1>3. CliInv BY DEF ClientsInv
<1>4. ASSUME NEW input \in CliInputs, CliReads(input)
      PROVE  ClientsInv' /\ PathMoves
  <2>1. /\ V!Read(input)
        /\ IF vsent' = vsent THEN UNCHANGED <<vars, origin>>
                             ELSE Sends("cli", Last(vsent'), vapp = "registered")
    BY <1>4 DEF CliReads
  <2>2. CliInv' BY <1>3, <2>1, CliRead
  <2>3. CASE vsent' = vsent
    <3>1. PathMoves BY <1>2, <2>1, <2>3, QuietMoves
    <3> QED BY <1>2, <2>2, <3>1 DEF ClientsInv
  <2>4. CASE vsent' # vsent
    <3>1. PICK payload : vsent' = Append(vsent, payload) /\ Sound("cli", payload)
      BY <1>3, <2>1, <2>4, CliRead
    <3>2. "cli" \in Own /\ "cli" \in who BY DEF Own, Cli
    <3>3. Sent("cli") \in Seq(Payloads) BY <3>2, OwnLogs
    <3>4. \A k \in Own \ {"cli"} : Sent(k)' = Sent(k) BY <1>2, <3>2, OthersSilent
    <3>5. Sent("cli")' = vsent' /\ Sent("cli") = vsent BY SentLogs, SentLogsPrime
    <3>6. /\ Sends("cli", Last(Sent("cli")'), vapp = "registered")
          /\ Sent("cli")' = Append(Sent("cli"), payload)
      BY <2>1, <2>4, <3>1, <3>5
    <3>7. PathMoves BY <3>1, <3>2, <3>3, <3>4, <3>6, OneSends
    <3> QED BY <1>2, <2>2, <3>7 DEF ClientsInv
  <2> QED BY <2>3, <2>4
<1>5. CASE CliAlone
  <2>1. /\ V!InitFails \/ V!Start \/ V!Registered \/ V!Signal
        /\ UNCHANGED <<vars, origin>>
    BY <1>5 DEF CliAlone
  <2>2. CliInv' /\ vsent' = vsent BY <1>3, <2>1, CliIdles
  <2>3. PathMoves BY <1>2, <2>1, <2>2, QuietMoves
  <2> QED BY <1>2, <2>2, <2>3 DEF ClientsInv
<1> QED BY <1>4, <1>5 DEF Cli

LEMMA QtMoves ==
  ASSUME ClientsInv, Qt
  PROVE  ClientsInv' /\ PathMoves
<1>1. UNCHANGED <<u_vars, c_vars, v_vars, p_vars>>
  BY DEF Qt, QtSends, QtAlone
<1>2. /\ UnifiedInv' /\ ScriptInv' /\ CliInv' /\ PythonInv'
      /\ usent' = usent /\ csent' = csent /\ vsent' = vsent /\ psent' = psent
  BY <1>1, Unmoved
<1>3. Q!TypeOK BY DEF ClientsInv
<1>4. CASE QtSends
  <2>1. /\ QtCommand
        /\ IF qsent' = qsent THEN UNCHANGED <<vars, origin>>
                             ELSE Sends("qt", Last(qsent'), qvs = "registered")
    BY <1>4 DEF QtSends
  <2>2. Q!TypeOK' BY <1>3, <2>1, QtSent
  <2>3. CASE qsent' = qsent
    <3>1. PathMoves BY <1>2, <2>1, <2>3, QuietMoves
    <3> QED BY <1>2, <2>2, <3>1 DEF ClientsInv
  <2>4. CASE qsent' # qsent
    <3>1. PICK payload : qsent' = Append(qsent, payload) /\ Sound("qt", payload)
      BY <1>3, <2>1, <2>4, QtSent
    <3>2. "qt" \in Own /\ "qt" \in who BY DEF Own, Qt
    <3>3. Sent("qt") \in Seq(Payloads) BY <3>2, OwnLogs
    <3>4. \A k \in Own \ {"qt"} : Sent(k)' = Sent(k) BY <1>2, <3>2, OthersSilent
    <3>5. Sent("qt")' = qsent' /\ Sent("qt") = qsent BY SentLogs, SentLogsPrime
    <3>6. /\ Sends("qt", Last(Sent("qt")'), qvs = "registered")
          /\ Sent("qt")' = Append(Sent("qt"), payload)
      BY <2>1, <2>4, <3>1, <3>5
    <3>7. PathMoves BY <3>1, <3>2, <3>3, <3>4, <3>6, OneSends
    <3> QED BY <1>2, <2>2, <3>7 DEF ClientsInv
  <2> QED BY <2>3, <2>4
<1>5. CASE QtAlone
  <2>1. /\ Q!ThreadStep \/ Q!VsomeipStep \/ Q!WindowStep \/ Q!CloseWindow
        /\ UNCHANGED <<vars, origin>>
    BY <1>5 DEF QtAlone
  <2>2. Q!TypeOK' /\ qsent' = qsent BY <1>3, <2>1, QtIdles
  <2>3. PathMoves BY <1>2, <2>1, <2>2, QuietMoves
  <2> QED BY <1>2, <2>2, <2>3 DEF ClientsInv
<1> QED BY <1>4, <1>5 DEF Qt

\* Another client sends zeroes.
LEMMA OtherMoves ==
  ASSUME ClientsInv, Other
  PROVE  ClientsInv' /\ PathMoves
<1>1. PICK len \in OtherLengths : OtherSends(len) BY DEF Other
<1>2. /\ Arrives("other", [i \in 1 .. len |-> 0])
      /\ UNCHANGED <<u_vars, c_vars, v_vars, q_vars, p_vars>>
  BY <1>1 DEF OtherSends
<1>3. ClientsInv' /\ UNCHANGED <<usent, csent, vsent, qsent, psent>>
  BY <1>2, Unmoved DEF ClientsInv
<1>4. Sound("other", [i \in 1 .. len |-> 0])
  <2>1. len \in Nat /\ len \in RequestLengths BY PathAssumption
  <2>2. [i \in 1 .. len |-> 0] \in Seq(0 .. 255) /\ Len([i \in 1 .. len |-> 0]) = len
    BY <2>1
  <2> QED BY <2>1, <2>2 DEF Sound, Payloads
<1>5. \A k \in Own : Sent(k)' = Sent(k) BY <1>3, NobodySends
<1>6. \A k \in Own : k # "other" BY DEF Own
<1>7. Heard("other", [i \in 1 .. len |-> 0])
  BY <1>2, <1>4, <1>5, <1>6 DEF Heard, Other
<1> QED BY <1>3, <1>7 DEF PathMoves

LEMMA ServerStepMoves ==
  ASSUME ClientsInv, Server
  PROVE  ClientsInv' /\ PathMoves
<1>1. /\ ServerStep \/ Exit \/ \E state \in Interfaces : InterfaceChanges(state)
      /\ origin' = origin /\ UNCHANGED <<u_vars, c_vars, v_vars, q_vars, p_vars>>
  BY DEF Server
<1>2. ClientsInv' /\ UNCHANGED <<usent, csent, vsent, qsent, psent>>
  BY <1>1, Unmoved DEF ClientsInv
<1>3. \A k \in Own : Sent(k)' = Sent(k) BY <1>2, NobodySends
<1>4. ServerMoves BY <1>1, <1>3 DEF ServerMoves
<1> QED BY <1>2, <1>4 DEF PathMoves

\* Whatever happens, the clients keep to theirs, and it is one of the three moves.
LEMMA PathStep ==
  ASSUME ClientsInv, [PathNext]_path_vars
  PROVE  ClientsInv' /\ PathMoves
<1>1. CASE UNCHANGED path_vars
  <2>1. /\ UNCHANGED <<vars, origin>>
        /\ UNCHANGED <<u_vars, c_vars, v_vars, q_vars, p_vars>>
    BY <1>1 DEF path_vars
  <2>2. ClientsInv' /\ UNCHANGED <<usent, csent, vsent, qsent, psent>>
    BY <2>1, Unmoved DEF ClientsInv
  <2> QED BY <2>1, <2>2, QuietMoves
<1>2. CASE PathNext
  <2>1. Server \/ Unified \/ Control \/ Cli \/ Qt \/ Python \/ Other
    BY <1>2 DEF PathNext
  <2> QED BY <2>1, ServerStepMoves, UnifiedMoves, ControlMoves, CliMoves, QtMoves,
             PythonMoves, OtherMoves
<1> QED BY <1>1, <1>2

\* All of them are steps of the server's specification.
LEMMA PathIsServer ==
  ASSUME PathMoves
  PROVE  [Next]_vars
<1>1. CASE ServerMoves
  <2>1. ASSUME NEW state \in Interfaces, InterfaceChanges(state) PROVE Next
    <3>1. state \in {"absent", "down", "up"} BY PathAssumption
    <3> QED BY <2>1, <3>1 DEF Next
  <2>2. CASE ServerStep \/ Exit BY <2>2 DEF Next
  <2> QED BY <1>1, <2>1, <2>2 DEF ServerMoves
<1>2. CASE Unheard
  BY <1>2 DEF Unheard
<1>3. ASSUME NEW c, NEW payload, Heard(c, payload) PROVE Next
  <2>1. Len(payload) \in RequestLengths /\ ClientRequests(Len(payload))
    BY <1>3 DEF Heard, Sound, Arrives
  <2> QED BY <2>1 DEF Next
<1> QED BY <1>1, <1>2, <1>3 DEF PathMoves

-----------------------------------------------------------------------------
(* From the clients' logs to the server's *)

\* The requests that reached the server, each of a client that runs.
OriginInv ==
  /\ who \in Together
  /\ origin \in Seq([by : UNION Together, payload : Payloads]) /\ Len(origin) = received
  /\ \A n \in DOMAIN origin : Sound(origin[n].by, origin[n].payload)

\* Request n is one of them, and is as long.
Known(r) == r.id \in DOMAIN origin /\ r.len = Len(origin[r.id].payload)

\* The requests to come, the one at hand and the commands on the bus are in the order
\* the requests reached the server.
InboxInv ==
  /\ \A i \in DOMAIN inbox : Known(inbox[i])
  /\ \A i, j \in DOMAIN inbox : i < j => inbox[i].id < inbox[j].id
AtHandInv ==
  /\ pc \in {"handle", "respond", "crashed"} =>
       Known(req) /\ \A i \in DOMAIN inbox : req.id < inbox[i].id
  /\ pc = "crashed" => req.len > 8
BusInv ==
  /\ \A i \in DOMAIN commands :
       /\ commands[i].id \in DOMAIN origin
       /\ pc = "handle" => commands[i].id < req.id
       /\ \A j \in DOMAIN inbox : commands[i].id < inbox[j].id
  /\ \A i, j \in DOMAIN commands : i < j => commands[i].id < commands[j].id

LinkInv == OriginInv /\ InboxInv /\ AtHandInv /\ BusInv

LEMMA LinkInit == PathInit => LinkInv
<1> SUFFICES ASSUME PathInit PROVE LinkInv
  OBVIOUS
<1>1. /\ origin = <<>> /\ inbox = <<>> /\ commands = <<>> /\ received = 0
      /\ pc = "init" /\ who \in Together
  BY DEF PathInit, Init
<1>2. DOMAIN <<>> = {} /\ Len(<<>>) = 0 OBVIOUS
<1>3. <<>> \in Seq([by : UNION Together, payload : Payloads]) OBVIOUS
<1>4. OriginInv BY <1>1, <1>2, <1>3 DEF OriginInv
<1>5. InboxInv /\ AtHandInv /\ BusInv
  BY <1>1, <1>2 DEF InboxInv, AtHandInv, BusInv
<1> QED BY <1>4, <1>5 DEF LinkInv

\* A request that arrives is the last.
LEMMA LinkHeard ==
  ASSUME ControlInv, LinkInv, NEW c, NEW payload, Heard(c, payload), who' = who
  PROVE  LinkInv'
<1> DEFINE r == [id |-> received + 1, len |-> Len(payload)]
           e == [by |-> c, payload |-> payload]
<1>1. /\ inbox' = Append(inbox, r) /\ origin' = Append(origin, e)
      /\ received' = received + 1 /\ UNCHANGED <<pc, req, commands>>
      /\ Sound(c, payload) /\ c \in who
  BY DEF Heard, Arrives, ClientRequests
<1>2. r.id = received + 1 /\ r.len = Len(payload) /\ e.by = c /\ e.payload = payload
  OBVIOUS
<1>3. e \in [by : UNION Together, payload : Payloads]
  BY <1>1 DEF Sound, LinkInv, OriginInv
<1> HIDE DEF r, e
<1>4. inbox \in Seq(Request) /\ received \in Nat /\ commands \in Seq(Command)
  BY DEF ControlInv, LogTypes
<1>5. /\ origin \in Seq([by : UNION Together, payload : Payloads])
      /\ Len(origin) = received
  BY DEF LinkInv, OriginInv
<1>6. /\ DOMAIN origin = 1 .. received /\ DOMAIN origin' = 1 .. received + 1
      /\ Len(origin') = received + 1 /\ origin'[received + 1] = e
      /\ \A n \in DOMAIN origin : n \in DOMAIN origin' /\ origin'[n] = origin[n]
      /\ \A n \in DOMAIN origin' : n \in DOMAIN origin \/ n = received + 1
  BY <1>1, <1>5, Appended
<1>7. /\ DOMAIN inbox = 1 .. Len(inbox) /\ DOMAIN inbox' = 1 .. Len(inbox) + 1
      /\ Len(inbox) \in Nat /\ inbox'[Len(inbox) + 1] = r
      /\ \A i \in DOMAIN inbox : i \in DOMAIN inbox' /\ inbox'[i] = inbox[i]
      /\ \A i \in DOMAIN inbox' : i \in DOMAIN inbox \/ i = Len(inbox) + 1
  BY <1>1, <1>4, Appended
<1>8. OriginInv'
  <2>1. origin' \in Seq([by : UNION Together, payload : Payloads])
    BY <1>1, <1>3, <1>5
  <2>2. \A n \in DOMAIN origin' : Sound(origin'[n].by, origin'[n].payload)
    BY <1>1, <1>2, <1>6 DEF LinkInv, OriginInv
  <2> QED BY <1>1, <1>6, <2>1, <2>2 DEF OriginInv, LinkInv
<1>9. \A x : Known(x) => x.id \in DOMAIN origin' /\ x.len = Len(origin'[x.id].payload)
                         /\ x.id < received + 1
  <2> SUFFICES ASSUME NEW x, Known(x)
               PROVE  x.id \in DOMAIN origin' /\ x.len = Len(origin'[x.id].payload)
                      /\ x.id < received + 1
    OBVIOUS
  <2>1. x.id \in DOMAIN origin BY DEF Known
  <2> QED BY <1>4, <1>6, <2>1 DEF Known
<1>10. r.id \in DOMAIN origin' /\ r.len = Len(origin'[r.id].payload)
  BY <1>2, <1>4, <1>6
<1>11. InboxInv'
  <2>1. \A i \in DOMAIN inbox : Known(inbox[i]) BY DEF LinkInv, InboxInv
  <2>2. \A i \in DOMAIN inbox' :
          inbox'[i].id \in DOMAIN origin' /\ inbox'[i].len = Len(origin'[inbox'[i].id].payload)
    BY <1>7, <1>9, <1>10, <2>1
  <2>3. \A i, j \in DOMAIN inbox' : i < j => inbox'[i].id < inbox'[j].id
    <3> SUFFICES ASSUME NEW i \in DOMAIN inbox', NEW j \in DOMAIN inbox', i < j
                 PROVE  inbox'[i].id < inbox'[j].id
      OBVIOUS
    <3>1. i \in DOMAIN inbox BY <1>7
    <3>2. CASE j \in DOMAIN inbox BY <1>7, <3>1, <3>2 DEF LinkInv, InboxInv
    <3>3. CASE j = Len(inbox) + 1
      <4>1. inbox[i].id < received + 1 BY <1>9, <2>1, <3>1
      <4> QED BY <1>2, <1>7, <3>1, <3>3, <4>1
    <3> QED BY <1>7, <3>2, <3>3
  <2> QED BY <2>2, <2>3 DEF InboxInv, Known
<1>12. AtHandInv'
  <2>1. ASSUME pc \in {"handle", "respond", "crashed"}
        PROVE  /\ req.id \in DOMAIN origin' /\ req.len = Len(origin'[req.id].payload)
               /\ \A i \in DOMAIN inbox' : req.id < inbox'[i].id
    <3>1. Known(req) /\ \A i \in DOMAIN inbox : req.id < inbox[i].id
      BY <2>1 DEF LinkInv, AtHandInv
    <3>2. req.id < received + 1 BY <1>9, <3>1
    <3> QED BY <1>2, <1>7, <1>9, <3>1, <3>2
  <2>2. pc = "crashed" => req.len > 8 BY DEF LinkInv, AtHandInv
  <2> QED BY <1>1, <2>1, <2>2 DEF AtHandInv, Known
<1>13. BusInv'
  <2>1. \A i \in DOMAIN commands : commands[i].id \in DOMAIN origin
    BY DEF LinkInv, BusInv
  <2>2. \A i \in DOMAIN commands : commands[i].id < received + 1
    BY <1>4, <1>6, <2>1
  <2>3. \A i \in DOMAIN commands : \A j \in DOMAIN inbox' :
          commands[i].id < inbox'[j].id
    BY <1>2, <1>7, <2>2 DEF LinkInv, BusInv
  <2>4. \A i \in DOMAIN commands : commands[i].id \in DOMAIN origin'
    BY <1>6, <2>1
  <2> QED BY <1>1, <2>3, <2>4 DEF LinkInv, BusInv
<1> QED BY <1>8, <1>11, <1>12, <1>13 DEF LinkInv

\* A request begun is the first of those to come, and older than the others.
LEMMA LinkBegins ==
  ASSUME ControlInv, LinkInv, BeginRequest, origin' = origin, who' = who
  PROVE  LinkInv'
<1>1. /\ pc = "dispatch" /\ inbox # <<>> /\ req' = Head(inbox) /\ inbox' = Tail(inbox)
      /\ pc' \in {"handle", "dispatch"} /\ UNCHANGED <<received, commands>>
  BY DEF BeginRequest
<1>2. inbox \in Seq(Request) BY DEF ControlInv, LogTypes
<1>3. /\ DOMAIN inbox = 1 .. Len(inbox) /\ DOMAIN inbox' = 1 .. Len(inbox) - 1
      /\ Len(inbox) \in Nat /\ 1 \in DOMAIN inbox /\ req' = inbox[1]
      /\ \A i \in DOMAIN inbox' : inbox'[i] = inbox[i + 1] /\ i + 1 \in DOMAIN inbox
  BY <1>1, <1>2, Tailed
<1>4. OriginInv' BY <1>1 DEF LinkInv, OriginInv
<1>5. \A i \in DOMAIN inbox : Known(inbox[i]) BY DEF LinkInv, InboxInv
<1>6. \A i, j \in DOMAIN inbox : i < j => inbox[i].id < inbox[j].id
  BY DEF LinkInv, InboxInv
<1>7. InboxInv'
  <2>1. \A i \in DOMAIN inbox' : Known(inbox'[i]) BY <1>3, <1>5
  <2>2. \A i, j \in DOMAIN inbox' : i < j => inbox'[i].id < inbox'[j].id
    <3> SUFFICES ASSUME NEW i \in DOMAIN inbox', NEW j \in DOMAIN inbox', i < j
                 PROVE  inbox'[i].id < inbox'[j].id
      OBVIOUS
    <3>1. i + 1 \in DOMAIN inbox /\ j + 1 \in DOMAIN inbox /\ i + 1 < j + 1 BY <1>3
    <3>2. inbox'[i] = inbox[i + 1] /\ inbox'[j] = inbox[j + 1] BY <1>3
    <3> QED BY <1>6, <3>1, <3>2
  <2> QED BY <2>1, <2>2 DEF InboxInv, Known
<1>8. AtHandInv'
  <2>1. Known(req') BY <1>3, <1>5
  <2>2. ASSUME NEW i \in DOMAIN inbox' PROVE req'.id < inbox'[i].id
    <3>1. i + 1 \in DOMAIN inbox /\ 1 < i + 1 BY <1>3
    <3>2. inbox'[i] = inbox[i + 1] BY <1>3
    <3> QED BY <1>3, <1>6, <3>1, <3>2
  <2> QED BY <1>1, <2>1, <2>2 DEF AtHandInv, Known
<1>9. BusInv'
  <2>1. \A i \in DOMAIN commands : \A j \in DOMAIN inbox : commands[i].id < inbox[j].id
    BY DEF LinkInv, BusInv
  <2>2. \A i \in DOMAIN commands : commands[i].id < req'.id BY <1>3, <2>1
  <2>3. \A i \in DOMAIN commands : \A j \in DOMAIN inbox' : commands[i].id < inbox'[j].id
    BY <1>3, <2>1
  <2> QED BY <1>1, <2>2, <2>3 DEF LinkInv, BusInv
<1> QED BY <1>4, <1>7, <1>8, <1>9 DEF LinkInv

\* What is written is the request at hand, after all that was.
LEMMA LinkSends ==
  ASSUME ControlInv, LinkInv, NEW ok \in BOOLEAN, SendFrame(ok),
         pc = "handle", pc' = "respond",
         UNCHANGED <<inbox, req, received, origin, who>>
  PROVE  LinkInv'
<1>1. OriginInv' BY DEF LinkInv, OriginInv
<1>2. InboxInv' BY DEF LinkInv, InboxInv, Known
<1>3. Known(req) /\ \A i \in DOMAIN inbox : req.id < inbox[i].id
  BY DEF LinkInv, AtHandInv
<1>4. AtHandInv' BY <1>3 DEF AtHandInv, Known
<1>5. BusInv'
  <2>1. CASE commands' = commands BY <2>1 DEF LinkInv, BusInv
  <2>2. CASE commands' = Append(commands, [id |-> req.id, dlc |-> req.len])
    <3> DEFINE f == [id |-> req.id, dlc |-> req.len]
    <3>1. f.id = req.id OBVIOUS
    <3>2. commands' = Append(commands, f) BY <2>2
    <3> HIDE DEF f
    <3>3. commands \in Seq(Command) BY DEF ControlInv, LogTypes
    <3>4. /\ DOMAIN commands = 1 .. Len(commands) /\ Len(commands) \in Nat
          /\ DOMAIN commands' = 1 .. Len(commands) + 1 /\ commands'[Len(commands) + 1] = f
          /\ \A i \in DOMAIN commands : i \in DOMAIN commands' /\ commands'[i] = commands[i]
          /\ \A i \in DOMAIN commands' : i \in DOMAIN commands \/ i = Len(commands) + 1
      BY <3>2, <3>3, Appended
    <3>5. \A i \in DOMAIN commands :
            /\ commands[i].id \in DOMAIN origin /\ commands[i].id < req.id
            /\ \A j \in DOMAIN inbox : commands[i].id < inbox[j].id
      BY DEF LinkInv, BusInv
    <3>6. f.id \in DOMAIN origin BY <1>3, <3>1 DEF Known
    <3>7. \A i \in DOMAIN commands' :
            /\ commands'[i].id \in DOMAIN origin
            /\ \A j \in DOMAIN inbox : commands'[i].id < inbox[j].id
      BY <1>3, <3>1, <3>4, <3>5, <3>6
    <3>8. \A i, j \in DOMAIN commands' : i < j => commands'[i].id < commands'[j].id
      <4> SUFFICES ASSUME NEW i \in DOMAIN commands', NEW j \in DOMAIN commands', i < j
                   PROVE  commands'[i].id < commands'[j].id
        OBVIOUS
      <4>1. i \in DOMAIN commands BY <3>4
      <4>2. CASE j \in DOMAIN commands BY <3>4, <4>1, <4>2 DEF LinkInv, BusInv
      <4>3. CASE j = Len(commands) + 1 BY <3>1, <3>4, <3>5, <4>1, <4>3
      <4> QED BY <3>4, <4>2, <4>3
    <3> QED BY <3>7, <3>8 DEF BusInv
  <2> QED BY <2>1, <2>2 DEF SendFrame
<1> QED BY <1>1, <1>2, <1>4, <1>5 DEF LinkInv

\* The server's other steps move nothing along.
LEMMA LinkRests ==
  ASSUME LinkInv, UNCHANGED <<inbox, req, received, commands, origin, who>>,
         \/ pc' = pc
         \/ pc' \in {"init", "dispatch", "exited"}
         \/ pc = "handle" /\ pc' = "crashed" /\ req.len > 8
  PROVE  LinkInv'
<1>1. OriginInv' BY DEF LinkInv, OriginInv
<1>2. InboxInv' BY DEF LinkInv, InboxInv, Known
<1>3. AtHandInv' BY DEF LinkInv, AtHandInv, Known
<1>4. BusInv' BY DEF LinkInv, BusInv
<1> QED BY <1>1, <1>2, <1>3, <1>4 DEF LinkInv

LEMMA LinkStep ==
  ASSUME ControlInv, LinkInv, PathMoves, who' = who
  PROVE  LinkInv'
<1>1. CASE Unheard
  BY <1>1, LinkRests DEF Unheard, vars, server_vars
<1>2. ASSUME NEW c, NEW payload, Heard(c, payload) PROVE LinkInv'
  BY <1>2, LinkHeard
<1>3. CASE ServerMoves
  <2>1. origin' = origin BY <1>3 DEF ServerMoves
  <2>2. CASE BeginRequest BY <2>1, <2>2, LinkBegins
  <2>3. ASSUME NEW ok \in BOOLEAN, VehCanSend(ok) PROVE LinkInv'
    BY <2>1, <2>3, LinkSends DEF VehCanSend
  <2>4. ASSUME NEW ok \in BOOLEAN, NEW result \in {"none", "unbound", "bound"},
               InitAndSend(result, ok)
        PROVE  LinkInv'
    BY <2>1, <2>4, LinkSends DEF InitAndSend
  <2>5. CASE Respond \/ InitFails \/ InitSucceeds \/ OfferService \/ Exit \/ Overflow
    BY <2>1, <2>5, LinkRests
       DEF Respond, InitFails, InitSucceeds, OfferService, Exit, Overflow, server_vars
  <2>6. ASSUME NEW state \in Interfaces, InterfaceChanges(state) PROVE LinkInv'
    BY <2>1, <2>6, LinkRests DEF InterfaceChanges, server_vars
  <2> QED BY <1>3, <2>2, <2>3, <2>4, <2>5, <2>6 DEF ServerMoves, ServerStep
<1> QED BY <1>1, <1>2, <1>3 DEF PathMoves

-----------------------------------------------------------------------------
(* What the server got of a client's log *)

\* The requests of client c that reached the server are sent ones, in the order of
\* its log s.
Of(c, o) == {n \in DOMAIN o : o[n].by = c}
Embeds(c, o, s) ==
  \E place \in [Of(c, o) -> DOMAIN s] :
    /\ \A n \in Of(c, o) : o[n].payload = s[place[n]]
    /\ \A m, n \in Of(c, o) : m < n => place[m] < place[n]

\* A longer log has them as well.
LEMMA EmbedsLonger ==
  ASSUME NEW c, NEW o, NEW X, NEW s \in Seq(X), NEW p, Embeds(c, o, s)
  PROVE  Embeds(c, o, Append(s, p))
<1> DEFINE t == Append(s, p)
<1>1. /\ \A i \in DOMAIN s : i \in DOMAIN t /\ t[i] = s[i]
  BY Appended
<1>2. PICK place \in [Of(c, o) -> DOMAIN s] :
        /\ \A n \in Of(c, o) : o[n].payload = s[place[n]]
        /\ \A m, n \in Of(c, o) : m < n => place[m] < place[n]
  BY DEF Embeds
<1> HIDE DEF t
<1>3. place \in [Of(c, o) -> DOMAIN t] BY <1>1, <1>2
<1>4. \A n \in Of(c, o) : o[n].payload = t[place[n]] BY <1>1, <1>2
<1>5. Embeds(c, o, t) BY <1>2, <1>3, <1>4 DEF Embeds
<1> QED BY <1>5 DEF t

\* Another client's request changes nothing of it.
LEMMA EmbedsOthers ==
  ASSUME NEW c, NEW X, NEW o \in Seq(X), NEW e, e.by # c, NEW s, Embeds(c, o, s)
  PROVE  Embeds(c, Append(o, e), s)
<1> DEFINE u == Append(o, e)
<1>1. /\ Len(o) \in Nat /\ DOMAIN o = 1 .. Len(o) /\ u[Len(o) + 1] = e
      /\ \A i \in DOMAIN o : i \in DOMAIN u /\ u[i] = o[i]
      /\ \A i \in DOMAIN u : i \in DOMAIN o \/ i = Len(o) + 1
  BY Appended
<1>2. PICK place \in [Of(c, o) -> DOMAIN s] :
        /\ \A n \in Of(c, o) : o[n].payload = s[place[n]]
        /\ \A m, n \in Of(c, o) : m < n => place[m] < place[n]
  BY DEF Embeds
<1> HIDE DEF u
<1>3. Of(c, u) = Of(c, o) BY <1>1 DEF Of
<1>4. \A n \in Of(c, o) : u[n].payload = o[n].payload BY <1>1 DEF Of
<1>5. Embeds(c, u, s)
  <2>1. place \in [Of(c, u) -> DOMAIN s] BY <1>2, <1>3
  <2>2. \A n \in Of(c, u) : u[n].payload = s[place[n]] BY <1>2, <1>3, <1>4
  <2>3. \A m, n \in Of(c, u) : m < n => place[m] < place[n] BY <1>2, <1>3
  <2> QED BY <2>1, <2>2, <2>3 DEF Embeds
<1> QED BY <1>5 DEF u

\* A request of its own that arrives as it is sent is the last in both.
LEMMA EmbedsBoth ==
  ASSUME NEW c, NEW X, NEW o \in Seq(X), NEW e, e.by = c, NEW Y, NEW s \in Seq(Y),
         Embeds(c, o, s)
  PROVE  Embeds(c, Append(o, e), Append(s, e.payload))
<1> DEFINE u == Append(o, e)
           t == Append(s, e.payload)
<1>1. /\ Len(o) \in Nat /\ DOMAIN o = 1 .. Len(o) /\ DOMAIN u = 1 .. Len(o) + 1
      /\ u[Len(o) + 1] = e
      /\ \A i \in DOMAIN o : i \in DOMAIN u /\ u[i] = o[i]
      /\ \A i \in DOMAIN u : i \in DOMAIN o \/ i = Len(o) + 1
  BY Appended
<1>2. /\ Len(s) \in Nat /\ DOMAIN s = 1 .. Len(s) /\ DOMAIN t = 1 .. Len(s) + 1
      /\ t[Len(s) + 1] = e.payload
      /\ \A i \in DOMAIN s : i \in DOMAIN t /\ t[i] = s[i]
  BY Appended
<1>3. PICK place \in [Of(c, o) -> DOMAIN s] :
        /\ \A n \in Of(c, o) : o[n].payload = s[place[n]]
        /\ \A m, n \in Of(c, o) : m < n => place[m] < place[n]
  BY DEF Embeds
<1> HIDE DEF u, t
<1> DEFINE more == [n \in Of(c, u) |-> IF n \in DOMAIN o THEN place[n] ELSE Len(s) + 1]
<1>4. /\ \A n \in Of(c, u) : n \in Of(c, o) \/ n = Len(o) + 1
      /\ Of(c, o) \subseteq DOMAIN o /\ Of(c, u) \subseteq DOMAIN u
  BY <1>1 DEF Of
<1>5. \A n \in Of(c, u) : /\ n \in Of(c, o) => more[n] = place[n]
                          /\ n = Len(o) + 1 => more[n] = Len(s) + 1
  BY <1>1, <1>4
<1>6. more \in [Of(c, u) -> DOMAIN t]
  <2> SUFFICES ASSUME NEW n \in Of(c, u)
               PROVE  (IF n \in DOMAIN o THEN place[n] ELSE Len(s) + 1) \in DOMAIN t
    OBVIOUS
  <2>1. CASE n \in Of(c, o) BY <1>2, <1>3, <1>4, <2>1
  <2>2. CASE n = Len(o) + 1 BY <1>1, <1>2, <2>2
  <2> QED BY <1>4, <2>1, <2>2
<1> HIDE DEF more
<1>7. \A n \in Of(c, u) : u[n].payload = t[more[n]]
  <2> SUFFICES ASSUME NEW n \in Of(c, u) PROVE u[n].payload = t[more[n]]
    OBVIOUS
  <2>1. CASE n \in Of(c, o) BY <1>1, <1>2, <1>3, <1>4, <1>5, <2>1
  <2>2. CASE n = Len(o) + 1 BY <1>1, <1>2, <1>5, <2>2
  <2> QED BY <1>4, <2>1, <2>2
<1>8. \A m, n \in Of(c, u) : m < n => more[m] < more[n]
  <2> SUFFICES ASSUME NEW m \in Of(c, u), NEW n \in Of(c, u), m < n
               PROVE  more[m] < more[n]
    OBVIOUS
  <2>1. m \in Of(c, o) BY <1>1, <1>4
  <2>2. place[m] \in 1 .. Len(s) /\ more[m] = place[m] BY <1>2, <1>3, <1>5, <2>1
  <2>3. CASE n \in Of(c, o) BY <1>3, <1>5, <2>1, <2>2, <2>3
  <2>4. CASE n = Len(o) + 1 BY <1>2, <1>5, <2>2, <2>4
  <2> QED BY <1>4, <2>3, <2>4
<1>9. Embeds(c, u, t) BY <1>6, <1>7, <1>8 DEF Embeds
<1> QED BY <1>9 DEF u, t

EmbedInv == \A k \in Own : Embeds(k, origin, Sent(k))

LEMMA EmbedInit == PathInit => EmbedInv
<1> SUFFICES ASSUME PathInit, NEW k \in Own PROVE Embeds(k, origin, Sent(k))
  BY DEF EmbedInv
<1>1. DOMAIN origin = {} BY DEF PathInit
<1>2. Of(k, origin) = {} BY <1>1 DEF Of
<1> DEFINE place == [n \in {} |-> 0]
<1>3. place \in [{} -> DOMAIN Sent(k)] OBVIOUS
<1> HIDE DEF place
<1> QED BY <1>2, <1>3 DEF Embeds

LEMMA EmbedStep ==
  ASSUME ClientsInv, LinkInv, EmbedInv, PathMoves
  PROVE  EmbedInv'
<1> SUFFICES ASSUME NEW k \in Own PROVE Embeds(k, origin', Sent(k)')
  BY DEF EmbedInv
<1>1. Embeds(k, origin, Sent(k)) BY DEF EmbedInv
<1>2. Sent(k) \in Seq(Payloads) BY OwnLogs
<1>3. origin \in Seq([by : UNION Together, payload : Payloads])
  BY DEF LinkInv, OriginInv
<1>4. CASE ServerMoves
  <2>1. origin' = origin /\ Sent(k)' = Sent(k) BY <1>4 DEF ServerMoves
  <2> QED BY <1>1, <2>1
<1>5. CASE Unheard
  <2>1. origin' = origin BY <1>5 DEF Unheard
  <2>2. CASE Sent(k)' = Sent(k) BY <1>1, <2>1, <2>2
  <2>3. ASSUME NEW payload, Sent(k)' = Append(Sent(k), payload)
        PROVE  Embeds(k, origin', Sent(k)')
    <3>1. Embeds(k, origin, Append(Sent(k), payload)) BY <1>1, <1>2, EmbedsLonger
    <3> QED BY <2>1, <2>3, <3>1
  <2> QED BY <1>5, <2>2, <2>3 DEF Unheard
<1>6. ASSUME NEW c, NEW payload, Heard(c, payload) PROVE Embeds(k, origin', Sent(k)')
  <2> DEFINE e == [by |-> c, payload |-> payload]
  <2>1. e.by = c /\ e.payload = payload OBVIOUS
  <2>2. origin' = Append(origin, e) BY <1>6 DEF Heard, Arrives
  <2>3. Sent(k)' = IF k = c THEN Append(Sent(k), payload) ELSE Sent(k)
    BY <1>6 DEF Heard
  <2> HIDE DEF e
  <2>4. CASE k = c
    <3>1. Embeds(k, Append(origin, e), Append(Sent(k), e.payload))
      BY <1>1, <1>2, <1>3, <2>1, <2>4, EmbedsBoth
    <3> QED BY <2>1, <2>2, <2>3, <2>4, <3>1
  <2>5. CASE k # c
    <3>1. Embeds(k, Append(origin, e), Sent(k))
      BY <1>1, <1>3, <2>1, <2>5, EmbedsOthers
    <3> QED BY <2>2, <2>3, <2>5, <3>1
  <2> QED BY <2>4, <2>5
<1> QED BY <1>4, <1>5, <1>6 DEF PathMoves

-----------------------------------------------------------------------------
(* From the user to a client's log *)

\* s holds messages of ordered, in its order.
Traces(s, ordered) ==
  \E line \in [DOMAIN s -> DOMAIN ordered] :
    /\ \A i \in DOMAIN s : s[i] = ordered[line[i]]
    /\ \A i, j \in DOMAIN s : i < j => line[i] < line[j]

\* It does so when more is ordered, and with one message more that was ordered last.
LEMMA TracesLonger ==
  ASSUME NEW s, NEW ordered, NEW more, Traces(s, ordered),
         \A n \in DOMAIN ordered : n \in DOMAIN more /\ more[n] = ordered[n]
  PROVE  Traces(s, more)
<1>1. PICK line \in [DOMAIN s -> DOMAIN ordered] :
        /\ \A i \in DOMAIN s : s[i] = ordered[line[i]]
        /\ \A i, j \in DOMAIN s : i < j => line[i] < line[j]
  BY DEF Traces
<1>2. line \in [DOMAIN s -> DOMAIN more] BY <1>1
<1>3. \A i \in DOMAIN s : s[i] = more[line[i]] BY <1>1
<1> QED BY <1>1, <1>2, <1>3 DEF Traces

LEMMA TracesOneMore ==
  ASSUME NEW X, NEW s \in Seq(X), NEW ordered, NEW more, Traces(s, ordered),
         \A n \in DOMAIN ordered : n \in DOMAIN more /\ more[n] = ordered[n],
         NEW k \in DOMAIN more, \A n \in DOMAIN ordered : n < k
  PROVE  Traces(Append(s, more[k]), more)
<1>1. PICK line \in [DOMAIN s -> DOMAIN ordered] :
        /\ \A i \in DOMAIN s : s[i] = ordered[line[i]]
        /\ \A i, j \in DOMAIN s : i < j => line[i] < line[j]
  BY DEF Traces
<1> DEFINE t == Append(s, more[k])
           longer == [i \in DOMAIN t |-> IF i \in DOMAIN s THEN line[i] ELSE k]
<1>2. /\ DOMAIN s = 1 .. Len(s) /\ Len(s) \in Nat /\ t[Len(s) + 1] = more[k]
      /\ \A i \in DOMAIN s : i \in DOMAIN t /\ t[i] = s[i]
      /\ \A i \in DOMAIN t : i \in DOMAIN s \/ i = Len(s) + 1
  BY Appended
<1> HIDE DEF t
<1>3. longer \in [DOMAIN t -> DOMAIN more] BY <1>1
<1>4. /\ \A i \in DOMAIN s : longer[i] = line[i]
      /\ \A i \in DOMAIN t : i \notin DOMAIN s => longer[i] = k
  BY <1>2
<1> HIDE DEF longer
<1>5. Len(s) + 1 \notin DOMAIN s BY <1>2
<1>6. \A i \in DOMAIN t : t[i] = more[longer[i]] BY <1>1, <1>2, <1>4, <1>5
<1>7. \A i, j \in DOMAIN t : i < j => longer[i] < longer[j]
  <2> SUFFICES ASSUME NEW i \in DOMAIN t, NEW j \in DOMAIN t, i < j
               PROVE  longer[i] < longer[j]
    OBVIOUS
  <2>1. i \in DOMAIN s BY <1>2
  <2>2. longer[i] = line[i] /\ line[i] \in DOMAIN ordered BY <1>1, <1>4, <2>1
  <2>3. CASE j \in DOMAIN s BY <1>1, <1>4, <2>1, <2>2, <2>3
  <2>4. CASE j \notin DOMAIN s BY <1>4, <2>2, <2>4
  <2> QED BY <2>3, <2>4
<1>8. Traces(t, more) BY <1>3, <1>6, <1>7 DEF Traces
<1> QED BY <1>8 DEF t

\* What was typed to veh_cli, t, as commands: what is typed later changes none that is
\* complete.
Answer == [asked : {"type", "direction", "speed"}, input : CliInputs]
Whole(t) == {n \in DOMAIN t :
               t[n].asked = "type" /\ (t[n].input \in {1, 2} => n < Len(t))}
AsCommands(t) ==
  [k \in Whole(t) |-> IF t[k].input \in {1, 2} THEN <<t[k].input, t[k + 1].input>>
                                               ELSE << t[k].input >>]

LEMMA CommandsStay ==
  ASSUME NEW t \in Seq(Answer), NEW e
  PROVE  /\ \A n \in Whole(t) : n \in Whole(Append(t, e))
                                /\ AsCommands(Append(t, e))[n] = AsCommands(t)[n]
         /\ Whole(t) \subseteq 1 .. Len(t)
<1> DEFINE u == Append(t, e)
<1>1. /\ DOMAIN t = 1 .. Len(t) /\ Len(t) \in Nat /\ Len(u) = Len(t) + 1
      /\ \A i \in DOMAIN t : i \in DOMAIN u /\ u[i] = t[i]
  BY Appended
<1> HIDE DEF u
<1>2. ASSUME NEW n \in Whole(t)
      PROVE  n \in Whole(u) /\ AsCommands(u)[n] = AsCommands(t)[n]
  <2>1. n \in DOMAIN t /\ u[n] = t[n] /\ n \in DOMAIN u BY <1>1, <1>2 DEF Whole
  <2>2. n < Len(u) BY <1>1, <2>1
  <2>3. n \in Whole(u) BY <1>2, <2>1, <2>2 DEF Whole
  <2>4. t[n].input \in {1, 2} => u[n + 1] = t[n + 1]
    <3> SUFFICES ASSUME t[n].input \in {1, 2} PROVE u[n + 1] = t[n + 1]
      OBVIOUS
    <3>1. n < Len(t) BY <1>2 DEF Whole
    <3>2. n + 1 \in DOMAIN t BY <1>1, <2>1, <3>1
    <3> QED BY <1>1, <3>2
  <2> QED BY <2>1, <2>3, <2>4, <1>2 DEF AsCommands
<1>3. Whole(t) \subseteq 1 .. Len(t) BY <1>1 DEF Whole
<1> QED BY <1>2, <1>3 DEF u

\* While all that is typed to it is a byte, veh_cli sends what is ordered: it asks for a
\* value after a type that has one, and for a type else.
AllBytes(t) == \A n \in DOMAIN t : t[n].input \in 0 .. 255
Asks ==
  vpc \in {"direction", "speed"} =>
    /\ vtyped # <<>> /\ vtyped[Len(vtyped)].asked = "type"
    /\ vtyped[Len(vtyped)].input \in {1, 2} /\ vcmd_type = vtyped[Len(vtyped)].input
CliOrders ==
  /\ vtyped \in Seq(Answer)
  /\ AllBytes(vtyped) => Asks /\ Traces(vsent, AsCommands(vtyped))

LEMMA CliStill ==
  ASSUME CliOrders, UNCHANGED v_vars \/ CliAlone
  PROVE  CliOrders'
<1>1. /\ UNCHANGED <<vtyped, vsent, vcmd_type>>
      /\ vpc' = vpc \/ vpc' \notin {"direction", "speed"}
  BY DEF v_vars, CliAlone, V!InitFails, V!Start, V!Registered, V!Signal
<1>2. Asks => Asks' BY <1>1 DEF Asks
<1> QED BY <1>1, <1>2 DEF CliOrders

LEMMA CliReadOrders ==
  ASSUME CliOrders, CliInv, NEW input \in CliInputs, CliReads(input)
  PROVE  CliOrders'
<1> DEFINE e == [asked |-> vpc, input |-> input]
           u == Append(vtyped, e)
<1>1. V!Read(input) /\ vtyped' = u BY DEF CliReads
<1>2. vpc \in {"type", "direction", "speed"}
  BY <1>1 DEF V!Read, V!ReadType, V!ReadDirection, V!ReadSpeed
<1>3. e \in Answer /\ e.asked = vpc /\ e.input = input BY <1>2 DEF Answer
<1>4. vtyped \in Seq(Answer) BY DEF CliOrders
<1> HIDE DEF e
<1>5. u \in Seq(Answer) BY <1>3, <1>4
<1>6. /\ DOMAIN vtyped = 1 .. Len(vtyped) /\ Len(vtyped) \in Nat
      /\ Len(u) = Len(vtyped) + 1 /\ u[Len(vtyped) + 1] = e
      /\ Len(vtyped) + 1 \in DOMAIN u
      /\ \A i \in DOMAIN vtyped : i \in DOMAIN u /\ u[i] = vtyped[i]
  BY <1>4, Appended
<1>7. /\ \A n \in Whole(vtyped) : n \in Whole(u) /\ AsCommands(u)[n] = AsCommands(vtyped)[n]
      /\ Whole(vtyped) \subseteq 1 .. Len(vtyped)
  BY <1>4, CommandsStay
<1>8. /\ DOMAIN AsCommands(vtyped) = Whole(vtyped) /\ DOMAIN AsCommands(u) = Whole(u)
      /\ \A k \in Whole(u) :
           AsCommands(u)[k] = IF u[k].input \in {1, 2} THEN <<u[k].input, u[k + 1].input>>
                                                       ELSE << u[k].input >>
  BY DEF AsCommands
<1> HIDE DEF u
<1>9. ASSUME AllBytes(u) PROVE Asks' /\ Traces(vsent', AsCommands(u))
  <2>1. AllBytes(vtyped) /\ input \in 0 .. 255 BY <1>3, <1>6, <1>9 DEF AllBytes
  <2>2. Asks /\ Traces(vsent, AsCommands(vtyped)) BY <2>1 DEF CliOrders
  <2>3. vsent \in Seq(Payloads) BY DEF CliInv
  <2>4. V!Byte(input) = input BY <2>1 DEF V!Byte
  <2>5. input \notin {NotANumber, Eof} BY <2>1, PathAssumption
  <2>6. Traces(vsent, AsCommands(u)) BY <1>7, <1>8, <2>2, TracesLonger
  <2>7. ASSUME NEW k \in Whole(u), \A n \in Whole(vtyped) : n < k,
               vsent' = Append(vsent, AsCommands(u)[k])
        PROVE  Traces(vsent', AsCommands(u))
    BY <1>7, <1>8, <2>2, <2>3, <2>7, TracesOneMore
  <2>8. CASE V!ReadType(input)
    <3>1. CASE V!Terminate
      BY <2>6, <3>1 DEF V!Terminate, Asks
    <3>2. CASE V!ReadType(input) /\ ~V!NoNumber(input)
      <4>1. vcmd_type' = input /\ vpc = "type" BY <2>4, <3>2 DEF V!ReadType
      <4>2. CASE vpc' \in {"direction", "speed"} /\ vsent' = vsent /\ input \in {1, 2}
        <5>1. Asks'
          <6>1. /\ vtyped' # <<>> /\ vtyped'[Len(vtyped')] = e
            BY <1>1, <1>6
          <6> QED BY <1>2, <1>3, <4>1, <4>2, <6>1 DEF Asks
        <5> QED BY <2>6, <4>2, <5>1
      <4>3. CASE /\ input \notin {1, 2} /\ vpc' = "type"
                 /\ vsent' = Append(vsent, << input >>)
        <5> DEFINE k == Len(vtyped) + 1
        <5>1. k \in Whole(u) BY <1>3, <1>6, <4>1, <4>3 DEF Whole
        <5>2. AsCommands(u)[k] = << input >> BY <1>3, <1>6, <1>8, <4>3, <5>1
        <5>3. \A n \in Whole(vtyped) : n < k BY <1>6, <1>7
        <5> HIDE DEF k
        <5>4. Traces(vsent', AsCommands(u)) BY <2>7, <4>3, <5>1, <5>2, <5>3
        <5> QED BY <4>3, <5>4 DEF Asks
      <4> QED BY <2>4, <3>2, <4>1, <4>2, <4>3 DEF V!ReadType, V!Send
    <3> QED BY <2>8, <3>1, <3>2 DEF V!ReadType
  <2>9. CASE V!ReadDirection(input) \/ V!ReadSpeed(input)
    <3>1. CASE V!Terminate
      BY <2>6, <3>1 DEF V!Terminate, Asks
    <3>2. CASE ~V!Terminate
      <4>1. /\ vpc \in {"direction", "speed"} /\ vpc' = "type"
            /\ vsent' = Append(vsent, <<vcmd_type, input>>)
        BY <2>4, <2>5, <2>9, <3>2 DEF V!ReadDirection, V!ReadSpeed, V!Send
      <4> DEFINE k == Len(vtyped)
      <4>2. /\ vtyped # <<>> /\ vtyped[k].asked = "type"
            /\ vtyped[k].input \in {1, 2} /\ vcmd_type = vtyped[k].input
        BY <2>2, <4>1 DEF Asks
      <4>3. k >= 1 /\ k \in DOMAIN vtyped BY <1>4, <1>6, <4>2
      <4>4. k < Len(u) /\ u[k] = vtyped[k] /\ k \in DOMAIN u /\ u[k + 1] = e
        BY <1>6, <4>3
      <4>5. k \in Whole(u) BY <4>2, <4>4 DEF Whole
      <4>6. AsCommands(u)[k] = <<vcmd_type, input>> BY <1>3, <1>8, <4>2, <4>4, <4>5
      <4>7. \A n \in Whole(vtyped) : n < k
        <5>1. k \notin Whole(vtyped) BY <1>6, <4>2 DEF Whole
        <5> QED BY <1>6, <1>7, <5>1
      <4> HIDE DEF k
      <4>8. Traces(vsent', AsCommands(u)) BY <2>7, <4>1, <4>5, <4>6, <4>7
      <4> QED BY <4>1, <4>8 DEF Asks
    <3> QED BY <3>1, <3>2
  <2> QED BY <1>1, <2>8, <2>9 DEF V!Read
<1> QED BY <1>1, <1>5, <1>9 DEF CliOrders

\* The Qt window's log s is in the order o of what was ordered, but that a speed may come
\* twice, its copy next; from the slider's first speed to the copy nothing else is sent.
QtTraces(s, o, sliding) ==
  \E line \in [DOMAIN s -> DOMAIN o] :
    /\ \A i \in DOMAIN s : s[i] = o[line[i]]
    /\ \A i, j \in DOMAIN s :
         i < j => \/ line[i] < line[j]
                  \/ line[i] = line[j] /\ j = i + 1 /\ s[j][1] = 2
    /\ sliding => \A i \in DOMAIN s : line[i] = Len(o) => i = Len(s)

LEMMA QtTracesLonger ==
  ASSUME NEW X, NEW s \in Seq(X), NEW Y, NEW o \in Seq(Y), NEW e, QtTraces(s, o, FALSE),
         NEW sliding
  PROVE  /\ QtTraces(s, Append(o, e), sliding)
         /\ QtTraces(Append(s, e), Append(o, e), sliding)
<1> DEFINE u == Append(o, e)
           t == Append(s, e)
<1>1. PICK line \in [DOMAIN s -> DOMAIN o] :
        /\ \A i \in DOMAIN s : s[i] = o[line[i]]
        /\ \A i, j \in DOMAIN s :
             i < j => \/ line[i] < line[j]
                      \/ line[i] = line[j] /\ j = i + 1 /\ s[j][1] = 2
  BY DEF QtTraces
<1>2. /\ Len(o) \in Nat /\ DOMAIN o = 1 .. Len(o) /\ DOMAIN u = 1 .. Len(o) + 1
      /\ Len(u) = Len(o) + 1 /\ u[Len(o) + 1] = e
      /\ \A i \in DOMAIN o : u[i] = o[i]
  BY Appended
<1>3. /\ Len(s) \in Nat /\ DOMAIN s = 1 .. Len(s) /\ DOMAIN t = 1 .. Len(s) + 1
      /\ Len(t) = Len(s) + 1 /\ t[Len(s) + 1] = e
      /\ \A i \in DOMAIN s : t[i] = s[i]
  BY Appended
<1> HIDE DEF u, t
<1>4. \A i \in DOMAIN s : line[i] \in 1 .. Len(o) /\ line[i] \in DOMAIN u
  BY <1>1, <1>2
<1>5. QtTraces(s, u, sliding)
  <2>1. line \in [DOMAIN s -> DOMAIN u] BY <1>1, <1>4
  <2>2. \A i \in DOMAIN s : s[i] = u[line[i]] BY <1>1, <1>2
  <2>3. \A i \in DOMAIN s : line[i] # Len(u) BY <1>2, <1>4
  <2> QED BY <1>1, <2>1, <2>2, <2>3 DEF QtTraces
<1>6. QtTraces(t, u, sliding)
  <2> DEFINE longer == [i \in DOMAIN t |-> IF i \in DOMAIN s THEN line[i] ELSE Len(u)]
  <2>1. longer \in [DOMAIN t -> DOMAIN u] BY <1>2, <1>4
  <2>2. /\ \A i \in DOMAIN s : longer[i] = line[i]
        /\ longer[Len(t)] = Len(u)
        /\ \A i \in DOMAIN t : i \in DOMAIN s \/ i = Len(t)
    BY <1>3
  <2> HIDE DEF longer
  <2>3. \A i \in DOMAIN t : t[i] = u[longer[i]]
    <3> SUFFICES ASSUME NEW i \in DOMAIN t PROVE t[i] = u[longer[i]]
      OBVIOUS
    <3>1. CASE i \in DOMAIN s BY <1>1, <1>2, <1>3, <2>2, <3>1
    <3>2. CASE i = Len(t) BY <1>2, <1>3, <2>2, <3>2
    <3> QED BY <2>2, <3>1, <3>2
  <2>4. ASSUME NEW i \in DOMAIN t, NEW j \in DOMAIN t, i < j
        PROVE  \/ longer[i] < longer[j]
               \/ longer[i] = longer[j] /\ j = i + 1 /\ t[j][1] = 2
    <3>1. i \in DOMAIN s BY <1>3, <2>4
    <3>2. CASE j \in DOMAIN s BY <1>1, <1>3, <2>2, <2>4, <3>1, <3>2
    <3>3. CASE j = Len(t) BY <1>2, <1>4, <2>2, <3>1, <3>3
    <3> QED BY <2>2, <3>2, <3>3
  <2>5. \A i \in DOMAIN t : longer[i] = Len(u) => i = Len(t)
    <3> SUFFICES ASSUME NEW i \in DOMAIN t, i # Len(t) PROVE longer[i] # Len(u)
      OBVIOUS
    <3>1. i \in DOMAIN s BY <2>2
    <3> QED BY <1>2, <1>4, <2>2, <3>1
  <2> QED BY <2>1, <2>3, <2>4, <2>5 DEF QtTraces
<1> QED BY <1>5, <1>6 DEF u, t

\* The copy of the speed ordered last.
LEMMA QtTracesAgain ==
  ASSUME NEW X, NEW s \in Seq(X), NEW Y, NEW o \in Seq(Y), o # <<>>,
         NEW e, e = o[Len(o)], e[1] = 2, QtTraces(s, o, TRUE)
  PROVE  QtTraces(Append(s, e), o, FALSE)
<1> DEFINE t == Append(s, e)
           last == Len(o)
<1>1. PICK line \in [DOMAIN s -> DOMAIN o] :
        /\ \A i \in DOMAIN s : s[i] = o[line[i]]
        /\ \A i, j \in DOMAIN s :
             i < j => \/ line[i] < line[j]
                      \/ line[i] = line[j] /\ j = i + 1 /\ s[j][1] = 2
        /\ \A i \in DOMAIN s : line[i] = last => i = Len(s)
  BY DEF QtTraces
<1>2. last \in Nat /\ DOMAIN o = 1 .. last /\ last \in DOMAIN o OBVIOUS
<1>3. /\ Len(s) \in Nat /\ DOMAIN s = 1 .. Len(s) /\ DOMAIN t = 1 .. Len(s) + 1
      /\ Len(t) = Len(s) + 1 /\ t[Len(s) + 1] = e
      /\ \A i \in DOMAIN s : t[i] = s[i]
  BY Appended
<1>4. e = o[last] OBVIOUS
<1> HIDE DEF t, last
<1>5. \A i \in DOMAIN s : line[i] \in 1 .. last BY <1>1, <1>2
<1> DEFINE longer == [i \in DOMAIN t |-> IF i \in DOMAIN s THEN line[i] ELSE last]
<1>6. longer \in [DOMAIN t -> DOMAIN o] BY <1>1, <1>2
<1>7. /\ \A i \in DOMAIN s : longer[i] = line[i]
      /\ longer[Len(t)] = last
      /\ \A i \in DOMAIN t : i \in DOMAIN s \/ i = Len(t)
  BY <1>3
<1> HIDE DEF longer
<1>8. \A i \in DOMAIN t : t[i] = o[longer[i]]
  <2> SUFFICES ASSUME NEW i \in DOMAIN t PROVE t[i] = o[longer[i]]
    OBVIOUS
  <2>1. CASE i \in DOMAIN s BY <1>1, <1>3, <1>7, <2>1
  <2>2. CASE i = Len(t) BY <1>3, <1>4, <1>7, <2>2
  <2> QED BY <1>7, <2>1, <2>2
<1>9. ASSUME NEW i \in DOMAIN t, NEW j \in DOMAIN t, i < j
      PROVE  \/ longer[i] < longer[j]
             \/ longer[i] = longer[j] /\ j = i + 1 /\ t[j][1] = 2
  <2>1. i \in DOMAIN s BY <1>3, <1>9
  <2>2. CASE j \in DOMAIN s BY <1>1, <1>3, <1>7, <1>9, <2>1, <2>2
  <2>3. CASE j = Len(t)
    <3>1. CASE line[i] < last BY <1>7, <2>1, <2>3, <3>1
    <3>2. CASE line[i] = last
      <4>1. j = i + 1 BY <1>1, <1>3, <2>1, <2>3, <3>2
      <4> QED BY <1>3, <1>7, <2>1, <2>3, <3>2, <4>1
    <3> QED BY <1>2, <1>5, <2>1, <3>1, <3>2
  <2> QED BY <1>7, <2>2, <2>3
<1>10. QtTraces(t, o, FALSE) BY <1>6, <1>8, <1>9 DEF QtTraces
<1> QED BY <1>10 DEF t

QtOrders ==
  /\ qorders \in Seq(Payloads)
  /\ gui = "slide" => qorders # <<>> /\ qorders[Len(qorders)] = Q!Speed(slider)
  /\ QtTraces(qsent, qorders, gui = "slide")

\* The step the slider is set to is the speed that was ordered.
LEMMA StepIsSpeed ==
  ASSUME NEW v \in 0 .. 1000
  PROVE  Q!Speed(Q!Step(v)) = Q!Speed(v)
<1> DEFINE d == v \div 10
           b == (d * 10) \div 10
<1>1. d \in Nat OBVIOUS
<1>2. b = d
  <2> HIDE DEF d
  <2> QED BY <1>1
<1>3. Q!Speed(v) = <<2, d>> /\ Q!Speed(Q!Step(v)) = <<2, b>> BY DEF Q!Speed, Q!Step
<1> HIDE DEF d, b
<1> QED BY <1>2, <1>3

LEMMA QtStill ==
  ASSUME QtOrders, UNCHANGED q_vars \/ QtAlone
  PROVE  QtOrders'
<1>1. /\ UNCHANGED <<qorders, qsent, slider>>
      /\ gui' = gui \/ (gui' # "slide" /\ gui # "slide") \/ gui' = "crashed"
  BY DEF q_vars, QtAlone, Q!ThreadStep, Q!VsomeipStep, Q!WindowStep, Q!CloseWindow,
         Q!InitVsomeip, Q!StartVsomeip, Q!RunLoop, Q!StopVsomeip, Q!AppStart,
         Q!Registered, Q!Emit, Q!UseAfterDestruction, Q!HandleSignal, Q!Wait, Q!Exit,
         Q!Crash, Q!ui_vars
<1>2. QtTraces(qsent, qorders, gui = "slide") => QtTraces(qsent, qorders, gui' = "slide")
  <2>1. gui' = "slide" => gui = "slide" BY <1>1
  <2> QED BY <2>1 DEF QtTraces
<1>3. gui' = "slide" => gui = "slide" BY <1>1
<1>4. Q!Speed(slider)' = Q!Speed(slider) BY <1>1 DEF Q!Speed
<1> QED BY <1>1, <1>2, <1>3, <1>4 DEF QtOrders

LEMMA QtCommandOrders ==
  ASSUME QtOrders, Q!TypeOK, QtCommand
  PROVE  QtOrders'
<1>1. qsent \in Seq(Payloads) /\ slider \in 0 .. 1000 /\ qorders \in Seq(Payloads)
  BY DEF Q!TypeOK, Payloads, QtOrders
<1>2. ASSUME NEW payload \in Payloads, qorders' = Append(qorders, payload),
             gui = "show", Q!SendCommand(payload),
             gui' = "slide" => payload = Q!Speed(slider')
      PROVE  QtOrders'
  <2>1. QtTraces(qsent, qorders, FALSE) BY <1>2 DEF QtOrders, QtTraces
  <2>2. /\ QtTraces(qsent, Append(qorders, payload), gui' = "slide")
        /\ QtTraces(Append(qsent, payload), Append(qorders, payload), gui' = "slide")
    BY <1>1, <2>1, QtTracesLonger
  <2>3. qsent' = qsent \/ qsent' = Append(qsent, payload) BY <1>2 DEF Q!SendCommand
  <2>4. QtTraces(qsent', qorders', gui' = "slide") BY <1>2, <2>2, <2>3
  <2>5. /\ qorders' \in Seq(Payloads) /\ qorders' # <<>>
        /\ qorders'[Len(qorders')] = payload
    BY <1>1, <1>2
  <2>6. Q!Speed(slider)' = Q!Speed(slider') BY DEF Q!Speed
  <2> QED BY <1>2, <2>4, <2>5, <2>6 DEF QtOrders
<1>3. ASSUME NEW payload \in QtPresses, Q!Press(payload), Ordering(payload)
      PROVE  QtOrders'
  <2>1. payload \in Payloads BY PressSound DEF Sound
  <2>2. /\ gui = "show" /\ gui' # "slide" /\ Q!SendCommand(payload)
        /\ qorders' = Append(qorders, payload)
    BY <1>3 DEF Q!Press, Ordering
  <2> QED BY <1>2, <2>1, <2>2
<1>4. ASSUME NEW v \in Positions, Q!MoveSlider(v), Ordering(Q!Speed(v))
      PROVE  QtOrders'
  <2>1. /\ v \in 0 .. 1000 /\ gui = "show" /\ slider' = Q!Step(v)
        /\ Q!SendCommand(Q!Speed(Q!Step(v))) /\ qorders' = Append(qorders, Q!Speed(v))
    BY <1>4 DEF Q!MoveSlider, Ordering
  <2>2. PICK payload : payload = Q!Speed(v) OBVIOUS
  <2>3. Q!Speed(Q!Step(v)) = payload BY <2>1, <2>2, StepIsSpeed
  <2>4. payload \in Payloads BY <2>1, <2>2, SpeedSound DEF Sound
  <2>5. Q!SendCommand(payload) /\ qorders' = Append(qorders, payload) BY <2>1, <2>2, <2>3
  <2>6. payload = Q!Speed(slider') BY <2>1, <2>3
  <2> QED BY <1>2, <2>1, <2>4, <2>5, <2>6
<1>5. CASE Q!SendAgain /\ UNCHANGED qorders
  <2>1. /\ gui = "slide" /\ gui' = "show" /\ Q!SendCommand(Q!Speed(slider))
        /\ qorders' = qorders
    BY <1>5 DEF Q!SendAgain
  <2>2. PICK payload : payload = Q!Speed(slider) OBVIOUS
  <2>3. payload[1] = 2 BY <2>2 DEF Q!Speed
  <2>4. qorders # <<>> /\ payload = qorders[Len(qorders)] BY <2>1, <2>2 DEF QtOrders
  <2>5. QtTraces(qsent, qorders, TRUE) BY <2>1 DEF QtOrders, QtTraces
  <2>6. QtTraces(Append(qsent, payload), qorders, FALSE)
    BY <1>1, <2>3, <2>4, <2>5, QtTracesAgain
  <2>7. QtTraces(qsent, qorders, FALSE) BY <2>5 DEF QtTraces
  <2>8. qsent' = qsent \/ qsent' = Append(qsent, payload)
    BY <2>1, <2>2 DEF Q!SendCommand
  <2>9. QtTraces(qsent', qorders', FALSE) BY <2>1, <2>6, <2>7, <2>8
  <2>10. (gui' = "slide") = FALSE BY <2>1
  <2>11. QtTraces(qsent', qorders', gui' = "slide") BY <2>9, <2>10 DEF QtTraces
  <2> QED BY <1>1, <2>1, <2>11 DEF QtOrders
<1> QED BY <1>3, <1>4, <1>5 DEF QtCommand

OrdersInv == CliOrders /\ QtOrders

LEMMA OrdersInit == PathInit => OrdersInv
<1> SUFFICES ASSUME PathInit PROVE OrdersInv
  OBVIOUS
<1>1. /\ vtyped = <<>> /\ vpc = "init" /\ vsent = <<>>
      /\ qorders = <<>> /\ qsent = <<>> /\ gui = "show"
  BY DEF PathInit, V!Init, Q!Init
<1>2. DOMAIN <<>> = {} /\ <<>> \in Seq(Answer) /\ <<>> \in Seq(Payloads) OBVIOUS
<1> DEFINE line == [i \in {} |-> 0]
<1>3. /\ line \in [DOMAIN vsent -> DOMAIN AsCommands(vtyped)]
      /\ line \in [DOMAIN qsent -> DOMAIN qorders]
  BY <1>1, <1>2
<1> HIDE DEF line
<1>4. Traces(vsent, AsCommands(vtyped)) BY <1>1, <1>2, <1>3 DEF Traces
<1>5. QtTraces(qsent, qorders, gui = "slide") BY <1>1, <1>2, <1>3 DEF QtTraces
<1>6. CliOrders BY <1>1, <1>2, <1>4 DEF CliOrders, Asks
<1>7. QtOrders BY <1>1, <1>2, <1>5 DEF QtOrders
<1> QED BY <1>6, <1>7 DEF OrdersInv

LEMMA OrdersStep ==
  ASSUME ClientsInv, OrdersInv, [PathNext]_path_vars
  PROVE  OrdersInv'
<1>1. CliInv /\ Q!TypeOK /\ CliOrders /\ QtOrders BY DEF ClientsInv, OrdersInv
<1>2. CASE Cli
  <2>1. UNCHANGED q_vars BY <1>2 DEF Cli, CliReads, CliAlone
  <2>2. CliOrders' BY <1>1, <1>2, CliStill, CliReadOrders DEF Cli
  <2>3. QtOrders' BY <1>1, <2>1, QtStill
  <2> QED BY <2>2, <2>3 DEF OrdersInv
<1>3. CASE Qt
  <2>1. UNCHANGED v_vars BY <1>3 DEF Qt, QtSends, QtAlone
  <2>2. QtOrders' BY <1>1, <1>3, QtStill, QtCommandOrders DEF Qt, QtSends
  <2>3. CliOrders' BY <1>1, <2>1, CliStill
  <2> QED BY <2>2, <2>3 DEF OrdersInv
<1>4. CASE UNCHANGED <<v_vars, q_vars>>
  <2>1. UNCHANGED v_vars /\ UNCHANGED q_vars BY <1>4
  <2>2. CliOrders' /\ QtOrders' BY <1>1, <2>1, CliStill, QtStill
  <2> QED BY <2>2 DEF OrdersInv
<1>5. Server \/ Unified \/ Control \/ Python \/ Other => UNCHANGED <<v_vars, q_vars>>
  BY DEF Server, Unified, UnifiedSends, UnifiedAlone, Control, ControlSends, ControlAlone,
         Python, PythonSends, PythonAlone, Other, OtherSends
<1>6. UNCHANGED path_vars => UNCHANGED <<v_vars, q_vars>> BY DEF path_vars
<1> QED BY <1>2, <1>3, <1>4, <1>5, <1>6 DEF PathNext

-----------------------------------------------------------------------------
(* Theorems about the path *)

PathInv == ControlInv /\ ClientsInv /\ LinkInv /\ EmbedInv /\ OrdersInv

LEMMA PathInvInit == PathInit => PathInv
<1> SUFFICES ASSUME PathInit PROVE PathInv
  OBVIOUS
<1>1. ControlInv BY ControlInit DEF PathInit
<1> QED BY <1>1, ClientsInit, LinkInit, EmbedInit, OrdersInit DEF PathInv

LEMMA PathInvNext ==
  ASSUME PathInv, [PathNext]_path_vars
  PROVE  PathInv' /\ [Next]_vars
<1>1. ControlInv /\ ClientsInv /\ LinkInv /\ EmbedInv /\ OrdersInv BY DEF PathInv
<1>2. ClientsInv' /\ PathMoves BY <1>1, PathStep
<1>3. [Next]_vars BY <1>2, PathIsServer
<1>4. ControlInv' BY <1>1, <1>3, ControlNext
<1>5. who' = who BY DEF PathNext, path_vars
<1>6. LinkInv' BY <1>1, <1>2, <1>5, LinkStep
<1>7. EmbedInv' BY <1>1, <1>2, EmbedStep
<1>8. OrdersInv' BY <1>1, OrdersStep
<1> QED BY <1>2, <1>3, <1>4, <1>6, <1>7, <1>8 DEF PathInv

\* The path's variables keep to their types.
THEOREM PathTypes == PathSpec => []PathTypeOK
<1>1. ASSUME PathInv PROVE PathTypeOK
  <2>1. TypeOK BY <1>1 DEF PathInv, ControlInv, ThreadTypes, LogTypes, TypeOK, Command
  <2>2. /\ U!TypeOK /\ Q!TypeOK /\ csent \in Seq(Seq(0 .. 255))
        /\ vsent \in Seq(Seq(0 .. 255)) /\ psent \in Seq(Seq(0 .. 255))
        /\ speed \in 0 .. 100
    BY <1>1 DEF PathInv, ClientsInv, UnifiedInv, ScriptInv, CliInv, PythonInv, Payloads
  <2>3. aeb \in BOOLEAN BY <1>1 DEF PathInv, ClientsInv, PythonInv
  <2>4. /\ origin \in Seq([by : UNION Together, payload : Seq(0 .. 255)])
        /\ Len(origin) = received
    BY <1>1 DEF PathInv, LinkInv, OriginInv, Payloads
  <2>5. /\ vtyped \in Seq([asked : {"type", "direction", "speed"}, input : CliInputs])
        /\ qorders \in Seq(Seq(0 .. 255))
    BY <1>1 DEF PathInv, OrdersInv, CliOrders, QtOrders, Answer, Payloads
  <2> QED BY <2>1, <2>2, <2>3, <2>4, <2>5 DEF PathTypeOK
<1>2. PathInv /\ [PathNext]_path_vars => PathInv' BY PathInvNext
<1> QED BY PathInvInit, <1>1, <1>2, PTL DEF PathSpec

\* The server holds one descriptor at most, whoever its clients are.
THEOREM PathHoldsOneDescriptor == PathSpec => []OneDescriptor
<1>1. PathInv => OneDescriptor BY DEF PathInv, ControlInv
<1>2. PathInv /\ [PathNext]_path_vars => PathInv' BY PathInvNext
<1> QED BY PathInvInit, <1>1, <1>2, PTL DEF PathSpec

\* The server does what veh_control_service promises to clients that come, go and
\* send as the repository's do.
THEOREM PathImplements == PathSpec => ImplementsService
<1>1. PathInit => Service!Init
  BY DEF PathInit, Init, Service!Init
<1>2. PathInv /\ [PathNext]_path_vars => PathInv' BY PathInvNext
<1>3. PathInv /\ PathInv' /\ [PathNext]_path_vars => [Service!Next]_(Service!vars)
  BY PathInvNext, ServiceStep DEF PathInv
<1> QED BY PathInvInit, <1>1, <1>2, <1>3, PTL
        DEF PathSpec, ImplementsService, Service!Spec

\* Of the unified client's commands one at most goes out after g_running is down.
THEOREM AtMostOneAfterSignal == PathSpec => []OneAfterSignal
<1>1. ASSUME PathInv PROVE OneAfterSignal
  <2>1. Len(usent) \in {in_time, in_time + 1} /\ usent \in Seq(Payloads)
        /\ in_time \in 0 .. Len(usent)
    BY <1>1 DEF PathInv, ClientsInv, UnifiedInv, U!TypeOK, Payloads
  <2>2. Len(usent) <= in_time + 1 BY <2>1
  <2> QED BY <2>2 DEF OneAfterSignal, U!OneAfterSignal
<1>2. PathInv /\ [PathNext]_path_vars => PathInv' BY PathInvNext
<1> QED BY PathInvInit, <1>1, <1>2, PTL DEF PathSpec

\* The server goes down only over another's client's request, or a password of the
\* Qt window.
THEOREM OwnClientsSurvived == PathSpec => []SurvivesOwnClients
<1>1. ASSUME PathInv PROVE SurvivesOwnClients
  <2> SUFFICES ASSUME pc = "crashed"
               PROVE  \/ origin[req.id].by = "other"
                      \/ origin[req.id].by = "qt" /\ origin[req.id].payload[1] = 5
    BY DEF SurvivesOwnClients
  <2>1. Known(req) /\ req.len > 8 BY <1>1 DEF PathInv, LinkInv, AtHandInv
  <2>2. Sound(origin[req.id].by, origin[req.id].payload)
    BY <1>1, <2>1 DEF PathInv, LinkInv, OriginInv, Known
  <2> QED BY <2>1, <2>2 DEF Known, Sound
<1>2. PathInv /\ [PathNext]_path_vars => PathInv' BY PathInvNext
<1> QED BY PathInvInit, <1>1, <1>2, PTL DEF PathSpec

\* So do the frames of c's commands on the bus.  A log in the order of another gives
\* the bus its order.
BusTraces(c, ordered) ==
  \E order \in [FramesOf(c) -> DOMAIN ordered] :
    /\ \A i \in FramesOf(c) : Carried(i) = ordered[order[i]]
    /\ \A i, j \in FramesOf(c) : i < j => order[i] < order[j]

LEMMA BusInOrder ==
  ASSUME BusInv, NEW c, NEW s, Embeds(c, origin, s), NEW ordered, Traces(s, ordered)
  PROVE  BusTraces(c, ordered)
<1>0. PICK line \in [DOMAIN s -> DOMAIN ordered] :
        /\ \A i \in DOMAIN s : s[i] = ordered[line[i]]
        /\ \A i, j \in DOMAIN s : i < j => line[i] < line[j]
  BY DEF Traces
<1>1. PICK place \in [Of(c, origin) -> DOMAIN s] :
        /\ \A n \in Of(c, origin) : origin[n].payload = s[place[n]]
        /\ \A m, n \in Of(c, origin) : m < n => place[m] < place[n]
  BY DEF Embeds
<1>2. \A i \in FramesOf(c) : i \in DOMAIN commands /\ commands[i].id \in Of(c, origin)
  BY DEF FramesOf, Of, BusInv
<1> DEFINE order == [i \in FramesOf(c) |-> line[place[commands[i].id]]]
<1>3. order \in [FramesOf(c) -> DOMAIN ordered] BY <1>0, <1>1, <1>2
<1>4. \A i \in FramesOf(c) : order[i] = line[place[commands[i].id]] OBVIOUS
<1> HIDE DEF order
<1>5. \A i \in FramesOf(c) : Carried(i) = ordered[order[i]]
  <2> SUFFICES ASSUME NEW i \in FramesOf(c)
               PROVE  Carried(i) = ordered[order[i]]
    OBVIOUS
  <2>1. commands[i].id \in Of(c, origin) BY <1>2
  <2>2. place[commands[i].id] \in DOMAIN s BY <1>1, <2>1
  <2> QED BY <1>0, <1>1, <1>4, <2>1, <2>2 DEF Carried
<1>6. \A i, j \in FramesOf(c) : i < j => order[i] < order[j]
  <2> SUFFICES ASSUME NEW i \in FramesOf(c), NEW j \in FramesOf(c), i < j
               PROVE  order[i] < order[j]
    OBVIOUS
  <2>1. commands[i].id \in Of(c, origin) /\ commands[j].id \in Of(c, origin) BY <1>2
  <2>2. commands[i].id < commands[j].id BY <1>2 DEF BusInv
  <2>3. place[commands[i].id] < place[commands[j].id] BY <1>1, <2>1, <2>2
  <2>4. place[commands[i].id] \in DOMAIN s /\ place[commands[j].id] \in DOMAIN s
    BY <1>1, <2>1
  <2> QED BY <1>0, <1>4, <2>3, <2>4
<1> QED BY <1>3, <1>5, <1>6 DEF BusTraces

\* Likewise where a log is its own order.
LEMMA TracesItself ==
  ASSUME NEW X, NEW s \in Seq(X), NEW ordered, DOMAIN s \subseteq DOMAIN ordered,
         \A i \in DOMAIN s : s[i] = ordered[i]
  PROVE  Traces(s, ordered)
<1> DEFINE line == [i \in DOMAIN s |-> i]
<1>1. line \in [DOMAIN s -> DOMAIN ordered] OBVIOUS
<1>2. \A i \in DOMAIN s : line[i] = i OBVIOUS
<1> HIDE DEF line
<1>3. \A i \in DOMAIN s : s[i] = ordered[line[i]] BY <1>2
<1>4. \A i, j \in DOMAIN s : i < j => line[i] < line[j] BY <1>2
<1> QED BY <1>1, <1>3, <1>4 DEF Traces

\* Of the Qt window's frames, two of one order are a speed's and follow each other.
LEMMA QtInOrder ==
  ASSUME BusInv, Embeds("qt", origin, qsent), NEW sliding, NEW X, qsent \in Seq(X),
         QtTraces(qsent, qorders, sliding)
  PROVE  \E order \in [FramesOf("qt") -> DOMAIN qorders] :
           /\ \A i \in FramesOf("qt") : Carried(i) = qorders[order[i]]
           /\ \A i, j \in FramesOf("qt") :
                i < j => order[i] < order[j] \/ SlidTwice("qt", i, j, order)
<1>0. PICK line \in [DOMAIN qsent -> DOMAIN qorders] :
        /\ \A i \in DOMAIN qsent : qsent[i] = qorders[line[i]]
        /\ \A i, j \in DOMAIN qsent :
             i < j => \/ line[i] < line[j]
                      \/ line[i] = line[j] /\ j = i + 1 /\ qsent[j][1] = 2
  BY DEF QtTraces
<1>1. PICK place \in [Of("qt", origin) -> DOMAIN qsent] :
        /\ \A n \in Of("qt", origin) : origin[n].payload = qsent[place[n]]
        /\ \A m, n \in Of("qt", origin) : m < n => place[m] < place[n]
  BY DEF Embeds
<1> DEFINE at == [i \in FramesOf("qt") |-> place[commands[i].id]]
           order == [i \in FramesOf("qt") |-> line[at[i]]]
<1>2. \A i \in FramesOf("qt") : commands[i].id \in Of("qt", origin)
  BY DEF FramesOf, Of, BusInv
<1>3. /\ \A i \in FramesOf("qt") : at[i] = place[commands[i].id] /\ at[i] \in DOMAIN qsent
      /\ \A i \in FramesOf("qt") : order[i] = line[at[i]]
  BY <1>1, <1>2
<1>4. order \in [FramesOf("qt") -> DOMAIN qorders] BY <1>0, <1>3
<1> HIDE DEF at, order
<1>5. \A i \in FramesOf("qt") : Carried(i) = qsent[at[i]]
  BY <1>1, <1>2, <1>3 DEF Carried
<1>6. \A i \in FramesOf("qt") : Carried(i) = qorders[order[i]]
  BY <1>0, <1>3, <1>5
<1>7. ASSUME NEW i \in FramesOf("qt"), NEW j \in FramesOf("qt"), i < j
      PROVE  at[i] < at[j]
  <2>1. commands[i].id < commands[j].id BY <1>7 DEF BusInv, FramesOf
  <2> QED BY <1>1, <1>2, <1>3, <2>1
<1>8. ASSUME NEW i \in FramesOf("qt"), NEW j \in FramesOf("qt"), i < j
      PROVE  order[i] < order[j] \/ SlidTwice("qt", i, j, order)
  <2>1. \/ order[i] < order[j]
        \/ order[i] = order[j] /\ at[j] = at[i] + 1 /\ qsent[at[j]][1] = 2
    BY <1>0, <1>3, <1>7, <1>8
  <2>2. CASE order[i] = order[j] /\ at[j] = at[i] + 1 /\ qsent[at[j]][1] = 2
    <3>1. \A k \in FramesOf("qt") : at[k] \in Nat BY <1>3
    <3>2. ASSUME NEW k \in FramesOf("qt"), i < k, k < j PROVE FALSE
      <4>1. at[i] < at[k] /\ at[k] < at[j] BY <1>7, <3>2
      <4> QED BY <2>2, <3>1, <4>1
    <3>3. Carried(j)[1] = 2 BY <1>5, <2>2
    <3> QED BY <2>2, <3>2, <3>3 DEF SlidTwice
  <2> QED BY <2>1, <2>2
<1> QED BY <1>4, <1>6, <1>8

\* The frames of each client of the repository are commands it gave to app_->send(), in
\* its order and none twice.
THEOREM SentFollowed == PathSpec => []BusFollowsSent
<1>1. ASSUME PathInv PROVE BusFollowsSent
  <2> SUFFICES ASSUME NEW c \in who \ {"other"} PROVE BusTraces(c, Sent(c))
    BY DEF BusFollowsSent, BusTraces
  <2>1. ClientsInv /\ BusInv /\ EmbedInv /\ who \in Together
    BY <1>1 DEF PathInv, LinkInv, OriginInv
  <2>2. c \in Own BY <2>1, PathAssumption DEF Own
  <2>3. Embeds(c, origin, Sent(c)) /\ Sent(c) \in Seq(Payloads)
    BY <2>1, <2>2, OwnLogs DEF EmbedInv
  <2>4. Traces(Sent(c), Sent(c)) BY <2>3, TracesItself
  <2> QED BY <2>1, <2>3, <2>4, BusInOrder
<1>2. PathInv /\ [PathNext]_path_vars => PathInv' BY PathInvNext
<1> QED BY PathInvInit, <1>1, <1>2, PTL DEF PathSpec

\* Commands get from the user of the unified client, of veh_cli and of the Qt window, and
\* from the control client's script, to the bus in the order they were ordered and none
\* twice, but that a speed of the Qt slider has a second frame, next to the first; unless
\* std::cin has failed, or what was typed to veh_cli was no byte.
THEOREM OrdersFollowed == PathSpec => []BusFollowsOrders
<1>1. ASSUME PathInv PROVE BusFollowsOrders
  <2> SUFFICES ASSUME NEW c \in who \ {"python", "other"}, ~Misread(c)
               PROVE  \E order \in [FramesOf(c) -> DOMAIN Ordered(c)] :
                        /\ \A i \in FramesOf(c) : Carried(i) = Ordered(c)[order[i]]
                        /\ \A i, j \in FramesOf(c) :
                             i < j => order[i] < order[j] \/ SlidTwice(c, i, j, order)
    BY DEF BusFollowsOrders
  <2>1. ClientsInv /\ BusInv /\ EmbedInv /\ OrdersInv /\ who \in Together
    BY <1>1 DEF PathInv, LinkInv, OriginInv
  <2>2. c \in Own BY <2>1, PathAssumption DEF Own
  <2>3. Embeds(c, origin, Sent(c)) /\ Sent(c) \in Seq(Payloads)
    BY <2>1, <2>2, OwnLogs DEF EmbedInv
  <2>4. ASSUME Traces(Sent(c), Ordered(c))
        PROVE  \E order \in [FramesOf(c) -> DOMAIN Ordered(c)] :
                 /\ \A i \in FramesOf(c) : Carried(i) = Ordered(c)[order[i]]
                 /\ \A i, j \in FramesOf(c) :
                      i < j => order[i] < order[j] \/ SlidTwice(c, i, j, order)
    <3>1. BusTraces(c, Ordered(c)) BY <2>1, <2>3, <2>4, BusInOrder
    <3> QED BY <3>1 DEF BusTraces
  <2>5. CASE c = "unified"
    <3>1. Ordered(c) = U!Ordered /\ Sent(c) = usent BY <2>5, SentLogs DEF Ordered
    <3>2. UnifiedInv /\ Obeys BY <2>1, <2>5 DEF ClientsInv, UnifiedInv, Misread
    <3>3. PICK line \in [DOMAIN usent -> 1 .. lines] :
            /\ \A i \in DOMAIN usent : /\ U!IsCommand(typed[line[i]])
                                       /\ usent[i] = U!Payload[typed[line[i]]]
            /\ \A i, j \in DOMAIN usent : i < j => line[i] < line[j]
      BY <3>2 DEF Obeys
    <3>4. \A n \in 1 .. lines : n \in DOMAIN typed
      BY <3>2 DEF UnifiedInv, U!TypeOK
    <3>5. \A i \in DOMAIN usent : /\ line[i] \in DOMAIN U!Ordered
                                  /\ usent[i] = U!Ordered[line[i]]
      BY <3>3, <3>4 DEF U!Ordered
    <3>6. line \in [DOMAIN usent -> DOMAIN U!Ordered] BY <3>3, <3>5
    <3>7. \A i, j \in DOMAIN usent : i < j => line[i] < line[j] BY <3>3
    <3>8. Traces(usent, U!Ordered) BY <3>5, <3>6, <3>7 DEF Traces
    <3> HIDE DEF U!Ordered
    <3> QED BY <2>4, <3>1, <3>8
  <2>6. CASE c = "control"
    <3>1. Ordered(c) = C!Script /\ Sent(c) = csent BY <2>6, SentLogs DEF Ordered
    <3>2. /\ csent \in Seq(Payloads) /\ Len(csent) <= 6
          /\ \A i \in DOMAIN csent : csent[i] = C!Script[i]
      BY <2>1 DEF ClientsInv, ScriptInv
    <3>3. DOMAIN csent \subseteq DOMAIN C!Script BY <3>2, ScriptFacts
    <3>4. Traces(csent, C!Script) BY <3>2, <3>3, TracesItself
    <3> QED BY <2>4, <3>1, <3>4
  <2>7. CASE c = "cli"
    <3>1. Ordered(c) = CliOrdered /\ Sent(c) = vsent BY <2>7, SentLogs DEF Ordered
    <3>2. CliOrdered = AsCommands(vtyped) BY DEF CliOrdered, AsCommands, Whole
    <3>3. AllBytes(vtyped) BY <2>7 DEF Misread, AllBytes
    <3>4. Traces(vsent, AsCommands(vtyped)) BY <2>1, <3>3 DEF OrdersInv, CliOrders
    <3> QED BY <2>4, <3>1, <3>2, <3>4
  <2>8. CASE c = "qt"
    <3>1. Ordered(c) = qorders /\ Sent(c) = qsent BY <2>8, SentLogs DEF Ordered
    <3>2. QtTraces(qsent, qorders, gui = "slide") BY <2>1 DEF OrdersInv, QtOrders
    <3>3. Embeds("qt", origin, qsent) /\ qsent \in Seq(Payloads) BY <2>3, <2>8, <3>1
    <3>4. \E order \in [FramesOf("qt") -> DOMAIN qorders] :
            /\ \A i \in FramesOf("qt") : Carried(i) = qorders[order[i]]
            /\ \A i, j \in FramesOf("qt") :
                 i < j => order[i] < order[j] \/ SlidTwice("qt", i, j, order)
      BY <2>1, <3>2, <3>3, QtInOrder
    <3> QED BY <2>8, <3>1, <3>4
  <2> QED BY <2>2, <2>5, <2>6, <2>7, <2>8 DEF Own
<1>2. PathInv /\ [PathNext]_path_vars => PathInv' BY PathInvNext
<1> QED BY PathInvInit, <1>1, <1>2, PTL DEF PathSpec

-----------------------------------------------------------------------------
(* What the service guarantees, of this server *)

ServiceFacts == INSTANCE CommandServiceProofs WITH
  pending <- IF pc \in {"handle", "respond", "crashed"} THEN <<req>> \o inbox
             ELSE inbox,
  tried <- pc = "respond"

\* The service that is proved about is the service that is implemented.
LEMMA SameService ==
  /\ Service!Init <=> ServiceFacts!Init
  /\ [Service!Next]_(Service!vars) <=> [ServiceFacts!Next]_(ServiceFacts!vars)
  /\ Service!AnsweredInOrder <=> ServiceFacts!AnsweredInOrder
<1>1. Service!Init <=> ServiceFacts!Init BY DEF Service!Init, ServiceFacts!Init
<1>2. Service!Next <=> ServiceFacts!Next
  BY DEF Service!Next, Service!Arrive, Service!Drop, Service!Try, Service!Frame,
         Service!Answer, ServiceFacts!Next, ServiceFacts!Arrive, ServiceFacts!Drop,
         ServiceFacts!Try, ServiceFacts!Frame, ServiceFacts!Answer
<1>3. UNCHANGED Service!vars <=> UNCHANGED ServiceFacts!vars
  BY DEF Service!vars, ServiceFacts!vars
<1>4. Service!AnsweredInOrder <=> ServiceFacts!AnsweredInOrder
  BY DEF Service!AnsweredInOrder, Service!Increasing, ServiceFacts!AnsweredInOrder,
         ServiceFacts!Increasing
<1> QED BY <1>1, <1>2, <1>3, <1>4

LEMMA ServiceOrdered == ImplementsService => []Service!AnsweredInOrder
<1>1. RequestLengths \subseteq Nat BY ControlAssumption
<1>2. ServiceFacts!Spec => []ServiceFacts!AnsweredInOrder
  BY <1>1, ServiceFacts!ServiceInOrder
<1> QED BY <1>2, SameService, PTL DEF ImplementsService, Service!Spec, ServiceFacts!Spec

\* The control server tries and answers commands in the order they came, none twice,
\* whatever becomes of can0 and whoever its clients are.
THEOREM ControlInOrder == (Spec => []Service!AnsweredInOrder)
                          /\ (PathSpec => []Service!AnsweredInOrder)
BY ControlImplements, PathImplements, ServiceOrdered, PTL

=============================================================================
