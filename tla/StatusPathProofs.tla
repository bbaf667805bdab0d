-------------------------- MODULE StatusPathProofs --------------------------
(***************************************************************************)
(* Proofs about StatusPublisher, its types and that it implements          *)
(* StatusService; and about StatusPath, where it keeps to both and each    *)
(* viewer shows what was published, in order.                              *)
(***************************************************************************)
EXTENDS StatusPath, TLAPS

StatusEvent == [id : Nat, bytes : 2 .. 8]

\* The threads and the process.
ThreadTypes ==
  /\ process \in {"running", "exited", "aborted"}
  /\ mpc \in {"init", "sleep", "destroyed"}
  /\ ppc \in {"none", "open", "loop", "read", "publish", "close", "done"}
  /\ g_running \in BOOLEAN /\ joinable \in BOOLEAN /\ offered \in BOOLEAN

\* The frames and the events made of them.
FrameTypes ==
  /\ can_rx \in Seq(CanFrame) /\ frame \in CanFrame /\ heard \in Nat
  /\ events \in Seq(StatusEvent)

\* The publisher runs only once pub_thread_ is joinable, and publishes a status
\* frame with a type and a value.
HasStatus(f) == f.kind # "foreign" /\ f.dlc >= 2
PublisherInv ==
  /\ joinable = FALSE => ppc = "none"
  /\ ppc = "publish" => HasStatus(frame)

PubInv == ThreadTypes /\ FrameTypes /\ PublisherInv

\* Steps that have nothing to do with frames, and leave the publisher out of
\* publish_once.
Apart ==
  /\ UNCHANGED frame_vars
  /\ \/ ppc' = ppc
     \/ ppc # "publish" /\ ppc' # "publish"

\* The program starts in its types, without a publisher.
LEMMA PubInit == Init => PubInv
<1> SUFFICES ASSUME Init PROVE PubInv
  OBVIOUS
<1>1. ThreadTypes
  <2>1. process = "running" /\ mpc = "init" /\ ppc = "none" BY DEF Init
  <2>2. g_running \in BOOLEAN /\ joinable \in BOOLEAN /\ offered \in BOOLEAN
    BY DEF Init
  <2> QED BY <2>1, <2>2 DEF ThreadTypes
<1>2. FrameTypes
  <2>1. <<>> \in Seq(CanFrame) OBVIOUS
  <2>2. <<>> \in Seq(StatusEvent) OBVIOUS
  <2>3. [id |-> 0, kind |-> "foreign", dlc |-> 0] \in CanFrame BY DEF CanFrame
  <2> QED BY <2>1, <2>2, <2>3 DEF Init, FrameTypes
<1>3. PublisherInv BY DEF Init, PublisherInv
<1> QED BY <1>1, <1>2, <1>3 DEF PubInv

\* Steps of main, of the handlers and of the signal are apart from the frames.
LEMMA OthersApart ==
  ASSUME PubInv, MainStep \/ HandlerStep \/ Signal \/ Gone \/ UNCHANGED vars
  PROVE  ThreadTypes' /\ PublisherInv' /\ Apart
<1> USE DEF PubInv, frame_vars, vars
<1>1. ASSUME MainStep PROVE ThreadTypes' /\ PublisherInv' /\ Apart
  <2>1. UNCHANGED <<ppc, g_running, joinable, offered, can_rx, frame, heard, events>>
    BY <1>1 DEF MainStep, InitFails, Start, Return, Exit
  <2>2. process' \in {"running", "exited", "aborted"}
        /\ mpc' \in {"init", "sleep", "destroyed"}
    BY <1>1 DEF MainStep, InitFails, Start, Return, Destroyed, Exit, ThreadTypes
  <2>3. ThreadTypes' BY <2>1, <2>2 DEF ThreadTypes
  <2> QED BY <2>1, <2>3 DEF PublisherInv, Apart
<1>2. ASSUME Registered PROVE ThreadTypes' /\ PublisherInv' /\ Apart
  <2>1. joinable = FALSE BY <1>2 DEF Registered, ThreadTypes
  <2>2. ppc = "none" BY <2>1 DEF PublisherInv
  <2>3. UNCHANGED <<can_rx, frame, heard, events, g_running, process, mpc>>
    BY <1>2 DEF Registered
  <2>4. joinable' = TRUE /\ offered' = TRUE /\ ppc' = "open" BY <1>2 DEF Registered
  <2>5. ThreadTypes' BY <2>3, <2>4 DEF ThreadTypes
  <2>6. PublisherInv' BY <2>4 DEF PublisherInv
  <2> QED BY <2>2, <2>3, <2>4, <2>5, <2>6 DEF Apart
<1>3. ASSUME RegisteredAgain \/ RegisteredLate \/ Signal \/ Gone \/ UNCHANGED vars
      PROVE  ThreadTypes' /\ PublisherInv' /\ Apart
  <2>1. UNCHANGED <<ppc, mpc, joinable, offered, can_rx, frame, heard, events>>
    BY <1>3 DEF RegisteredAgain, RegisteredLate, Signal, Gone
  <2>2. process' \in {"running", "exited", "aborted"}
    BY <1>3 DEF RegisteredAgain, RegisteredLate, Signal, Gone, ThreadTypes
  <2>3. g_running' \in BOOLEAN
    BY <1>3, Zenon DEF RegisteredAgain, RegisteredLate, Signal, Gone, ThreadTypes
  <2>4. ThreadTypes' BY <2>1, <2>2, <2>3 DEF ThreadTypes
  <2> QED BY <2>1, <2>4 DEF PublisherInv, Apart
<1> QED BY <1>1, <1>2, <1>3 DEF HandlerStep

\* The publisher's steps concern the frames and ppc alone.
LEMMA PublisherBeside ==
  ASSUME PubInv, PublisherStep
  PROVE  ThreadTypes' /\ joinable = TRUE /\ joinable' = TRUE
<1> USE DEF PubInv
<1>1. UNCHANGED <<process, mpc, g_running, joinable, offered>>
  BY DEF PublisherStep, OpenSocket, PublishLoop, ReadFails, ReadFrame, PublishOnce,
         CloseSocket
<1>2. ppc # "none" /\ ppc' \in {"loop", "read", "publish", "close", "done"}
  BY DEF PublisherStep, OpenSocket, PublishLoop, ReadFails, ReadFrame, PublishOnce,
         CloseSocket, Publisher
<1>3. joinable = TRUE BY <1>2 DEF ThreadTypes, PublisherInv
<1>4. ThreadTypes' BY <1>1, <1>2 DEF ThreadTypes
<1> QED BY <1>1, <1>3, <1>4

\* What a publisher's step does to the frames.
LEMMA PublisherFrames ==
  ASSUME PubInv, PublisherStep
  PROVE  FrameTypes' /\ (ppc' = "publish" => HasStatus(frame'))
<1> USE DEF PubInv, frame_vars
<1>1. CASE (\E ok \in BOOLEAN : OpenSocket(ok)) \/ PublishLoop \/ ReadFails
  <2>1. UNCHANGED <<can_rx, frame, heard, events>> /\ ppc' # "publish"
    BY <1>1 DEF OpenSocket, PublishLoop, ReadFails, Publisher
  <2> QED BY <2>1 DEF FrameTypes
<1>2. CASE ReadFrame
  <2>1. Head(can_rx) \in CanFrame /\ Tail(can_rx) \in Seq(CanFrame)
    BY <1>2 DEF ReadFrame, FrameTypes
  <2>2. FrameTypes' BY <1>2, <2>1 DEF ReadFrame, FrameTypes
  <2>3. ppc' = "publish" => HasStatus(frame')
    BY <1>2 DEF ReadFrame, Publisher, IsStatus, HasStatus
  <2> QED BY <2>2, <2>3
<1>3. CASE PublishOnce
  <2>1. frame.id \in Nat /\ frame.dlc \in 2 .. 8
    BY <1>3 DEF PublishOnce, Publisher, FrameTypes, CanFrame, PublisherInv, HasStatus
  <2> DEFINE ev == [id |-> frame.id, bytes |-> frame.dlc]
  <2>2. ev \in StatusEvent BY <2>1 DEF StatusEvent
  <2>3. events' = Append(events, ev) /\ UNCHANGED <<can_rx, frame, heard>>
    BY <1>3 DEF PublishOnce
  <2> HIDE DEF ev
  <2>4. FrameTypes' BY <2>2, <2>3 DEF FrameTypes
  <2>5. ppc' # "publish" BY <1>3 DEF PublishOnce, Publisher
  <2> QED BY <2>4, <2>5
<1>4. CASE CloseSocket
  <2>1. <<>> \in Seq(CanFrame) OBVIOUS
  <2>2. /\ can_rx' = <<>> /\ ppc' = "done"
        /\ UNCHANGED <<frame, heard, events>>
    BY <1>4 DEF CloseSocket, Publisher
  <2> QED BY <2>1, <2>2 DEF FrameTypes
<1> QED BY <1>1, <1>2, <1>3, <1>4 DEF PublisherStep

\* Every step keeps the invariant.
LEMMA PubNext == PubInv /\ [Next]_vars => PubInv'
<1> SUFFICES ASSUME PubInv, [Next]_vars PROVE PubInv'
  OBVIOUS
<1>1. CASE MainStep \/ HandlerStep \/ Signal \/ Gone \/ UNCHANGED vars
  <2>1. ThreadTypes' /\ PublisherInv' /\ UNCHANGED frame_vars
    BY <1>1, OthersApart DEF Apart
  <2>2. FrameTypes' BY <2>1 DEF PubInv, FrameTypes, frame_vars
  <2> QED BY <2>1, <2>2 DEF PubInv
<1>2. CASE PublisherStep
  <2>1. ThreadTypes' /\ joinable' = TRUE BY <1>2, PublisherBeside
  <2>2. FrameTypes' /\ (ppc' = "publish" => HasStatus(frame'))
    BY <1>2, PublisherFrames
  <2>3. PublisherInv' BY <2>1, <2>2 DEF PublisherInv
  <2> QED BY <2>1, <2>2, <2>3 DEF PubInv
<1>3. ASSUME NEW kind \in {"tof", "status", "foreign"}, NEW dlc \in FrameLengths,
             BusDelivers(kind, dlc)
      PROVE  PubInv'
  <2> DEFINE f == [id |-> heard + 1, kind |-> kind, dlc |-> dlc]
  <2>1. f \in CanFrame BY PublisherAssumption DEF PubInv, FrameTypes, CanFrame
  <2>2. /\ heard' = heard + 1 /\ can_rx' = Append(can_rx, f)
        /\ UNCHANGED <<process, mpc, ppc, g_running, joinable, offered, frame, events>>
    BY <1>3 DEF BusDelivers
  <2> HIDE DEF f
  <2>3. FrameTypes' BY <2>1, <2>2 DEF PubInv, FrameTypes
  <2>4. ThreadTypes' BY <2>2 DEF PubInv, ThreadTypes
  <2>5. PublisherInv' BY <2>2 DEF PubInv, PublisherInv
  <2> QED BY <2>3, <2>4, <2>5 DEF PubInv
<1> QED BY <1>1, <1>2, <1>3 DEF Next, EnvironmentStep

\* Every variable keeps to its type.
THEOREM PublisherTypes == Spec => []TypeOK
<1>1. PubInv => TypeOK
  BY DEF PubInv, ThreadTypes, FrameTypes, TypeOK, StatusEvent
<1> QED BY PubInit, PubNext, <1>1, PTL DEF Spec

-----------------------------------------------------------------------------
(* The refinement *)

\* How the frame at the head of a sequence comes and goes.
LEMMA FrameFacts ==
  ASSUME NEW f \in CanFrame, NEW s \in Seq(CanFrame)
  PROVE  /\ <<f>> \o s # <<>> /\ Head(<<f>> \o s) = f /\ Tail(<<f>> \o s) = s
         /\ \A x \in CanFrame : Append(<<f>> \o s, x) = <<f>> \o Append(s, x)
         /\ s # <<>> => <<Head(s)>> \o Tail(s) = s
OBVIOUS

\* Apart from the frames, nothing of the service changes.
LEMMA ApartStutters == Apart => UNCHANGED Service!vars
  BY DEF Apart, frame_vars, Service!vars

\* publish_loop's steps are steps of the service, or change nothing of it.
LEMMA LoopServes ==
  ASSUME PubInv, PublisherStep
  PROVE  [Service!Next]_(Service!vars)
<1> USE DEF PubInv
<1>1. CASE ReadFrame
  <2>1. Head(can_rx) \in CanFrame /\ Tail(can_rx) \in Seq(CanFrame)
    BY <1>1 DEF ReadFrame, FrameTypes
  <2>2. /\ ppc = "read" /\ can_rx # <<>> /\ frame' = Head(can_rx)
        /\ can_rx' = Tail(can_rx) /\ UNCHANGED <<heard, events>>
    BY <1>1 DEF ReadFrame, Publisher
  <2>3. CASE IsStatus(Head(can_rx))
    <3>1. <<frame'>> \o can_rx' = can_rx
      BY <2>1, <2>2, FrameFacts DEF FrameTypes
    <3>2. ppc' = "publish" BY <1>1, <2>3 DEF ReadFrame, Publisher
    <3> QED BY <2>2, <3>1, <3>2 DEF Service!vars
  <2>4. CASE ~IsStatus(Head(can_rx))
    <3>1. ~Service!IsStatus(Head(can_rx)) BY <2>4 DEF IsStatus, Service!IsStatus
    <3>2. ppc' = "loop" BY <1>1, <2>4 DEF ReadFrame, Publisher
    <3>3. Service!Ignore BY <2>2, <3>1, <3>2 DEF Service!Ignore
    <3> QED BY <3>3 DEF Service!Next
  <2> QED BY <2>3, <2>4
<1>2. CASE PublishOnce
  <2>1. /\ <<frame>> \o can_rx # <<>> /\ Head(<<frame>> \o can_rx) = frame
        /\ Tail(<<frame>> \o can_rx) = can_rx
    BY FrameFacts DEF FrameTypes
  <2>2. /\ ppc = "publish" /\ ppc' = "loop"
        /\ events' = Append(events, [id |-> frame.id, bytes |-> frame.dlc])
        /\ UNCHANGED <<can_rx, heard>>
    BY <1>2 DEF PublishOnce, Publisher
  <2>3. Service!IsStatus(frame)
    BY <2>2 DEF PublisherInv, HasStatus, Service!IsStatus
  <2>4. frame.dlc \in Service!Bytes(frame)
    BY DEF Service!Bytes
  <2>5. Service!Publish
    BY <2>1, <2>2, <2>3, <2>4 DEF Service!Publish
  <2> QED BY <2>5 DEF Service!Next
<1>3. CASE CloseSocket
  <2>1. /\ ppc = "close" /\ ppc' = "done" /\ can_rx' = <<>>
        /\ UNCHANGED <<heard, events>>
    BY <1>3 DEF CloseSocket, Publisher
  <2>2. Service!Forget BY <2>1 DEF Service!Forget
  <2> QED BY <2>2 DEF Service!Next
<1>4. CASE (\E ok \in BOOLEAN : OpenSocket(ok)) \/ PublishLoop \/ ReadFails
  <2>1. /\ ppc # "publish" /\ ppc' # "publish"
        /\ UNCHANGED <<can_rx, heard, events>>
    BY <1>4 DEF OpenSocket, PublishLoop, ReadFails, Publisher, frame_vars
  <2> QED BY <2>1 DEF Service!vars
<1> QED BY <1>1, <1>2, <1>3, <1>4 DEF PublisherStep

\* A frame from the bus is the service's, whatever publish_loop is at.
LEMMA BusServes ==
  ASSUME PubInv, NEW kind \in {"tof", "status", "foreign"},
         NEW dlc \in FrameLengths, BusDelivers(kind, dlc)
  PROVE  Service!Next
<1> USE DEF PubInv
<1> DEFINE f == [id |-> heard + 1, kind |-> kind, dlc |-> dlc]
<1>1. f \in CanFrame
  BY PublisherAssumption DEF FrameTypes, CanFrame
<1>2. /\ heard' = heard + 1 /\ can_rx' = Append(can_rx, f)
      /\ UNCHANGED <<ppc, frame, events>>
  BY DEF BusDelivers
<1> HIDE DEF f
<1>3. Append(<<frame>> \o can_rx, f) = <<frame>> \o can_rx'
  <2>1. frame \in CanFrame /\ can_rx \in Seq(CanFrame) BY DEF FrameTypes
  <2>2. \A x \in CanFrame :
          Append(<<frame>> \o can_rx, x) = <<frame>> \o Append(can_rx, x)
    BY <2>1, FrameFacts
  <2> QED BY <1>1, <1>2, <2>2
<1> USE DEF f
<1>4. Service!Hear(kind, dlc)
  BY <1>2, <1>3 DEF Service!Hear
<1> QED BY <1>4 DEF Service!Next, Service!Kinds

\* The publisher starts as the service does, and every step of it is one of the
\* service, or a stutter.
LEMMA StatusInit == Init => Service!Init
  BY DEF Init, Service!Init

LEMMA StatusStep == PubInv /\ [Next]_vars => [Service!Next]_(Service!vars)
<1> SUFFICES ASSUME PubInv, [Next]_vars PROVE [Service!Next]_(Service!vars)
  OBVIOUS
<1>1. CASE PublisherStep BY <1>1, LoopServes
<1>2. ASSUME NEW kind \in {"tof", "status", "foreign"}, NEW dlc \in FrameLengths,
             BusDelivers(kind, dlc)
      PROVE  [Service!Next]_(Service!vars)
  BY <1>2, BusServes
<1>3. CASE MainStep \/ HandlerStep \/ Signal \/ Gone \/ UNCHANGED vars
  BY <1>3, OthersApart, ApartStutters
<1> QED BY <1>1, <1>2, <1>3 DEF Next, EnvironmentStep

\* The status publisher does what veh_status_service promises until it ends,
\* orderly or not.
THEOREM PublisherImplements == Spec => ImplementsStatus
BY PubInit, PubNext, StatusInit, StatusStep, PTL DEF Spec, ImplementsStatus, Service!Spec

-----------------------------------------------------------------------------
(* The path keeps to the publisher *)

Kinds  == {"tof", "status", "foreign"}
Status == [kind : Kinds, value : Nat]

\* A step beside the frames, the events and the link.
Aside == UNCHANGED <<vars, kinds, link>>

\* A step of the path is one of the publisher, or leaves it alone.
LEMMA PathSteps ==
  ASSUME [PathNext]_path_vars
  PROVE  /\ viewer' = viewer
         /\ \/ /\ \E kind \in Kinds, dlc \in FrameLengths :
                    BusDelivers(kind, dlc) /\ kinds' = Append(kinds, kind)
               /\ UNCHANGED <<link, s_vars, q_vars>>
            \/ Notify
            \/ PublisherAlone
            \/ OnEvent
            \/ Subscriber
            \/ Qt
            \/ UNCHANGED path_vars
BY DEF PathNext, path_vars, Bus, Kinds

LEMMA PublisherSteps ==
  ASSUME [PathNext]_path_vars
  PROVE  [Next]_vars
<1>1. CASE \E kind \in Kinds, dlc \in FrameLengths : BusDelivers(kind, dlc)
  BY <1>1 DEF Next, EnvironmentStep, Kinds
<1>2. CASE Notify BY <1>2 DEF Notify, Next, PublisherStep
<1>3. CASE PublisherAlone BY <1>3 DEF PublisherAlone, Next, EnvironmentStep
<1>4. CASE OnEvent \/ Subscriber \/ Qt \/ UNCHANGED path_vars
  <2>1. UNCHANGED vars BY <1>4 DEF OnEvent, Subscriber, Qt, path_vars
  <2> QED BY <2>1
<1> QED BY <1>1, <1>2, <1>3, <1>4, PathSteps

LEMMA PathPubInit == PathInit => PubInv
  BY PubInit DEF PathInit

LEMMA PathPubStep == PubInv /\ [PathNext]_path_vars => PubInv' /\ [Next]_vars
  BY PublisherSteps, PubNext

\* Whatever a viewer does, the publisher's variables keep to their types.
THEOREM PathTypes == PathSpec => []TypeOK
<1>1. PubInv => TypeOK
  BY DEF PubInv, ThreadTypes, FrameTypes, TypeOK, StatusEvent
<1> QED BY PathPubInit, PathPubStep, <1>1, PTL DEF PathSpec

\* Whatever a viewer does, the publisher does what veh_status_service promises.
THEOREM PathImplements == PathSpec => ImplementsStatus
<1>1. PathInit => Service!Init BY StatusInit DEF PathInit
<1> QED BY PathPubInit, PathPubStep, <1>1, StatusStep, PTL
        DEF PathSpec, ImplementsStatus, Service!Spec

-----------------------------------------------------------------------------
(* The frames, from the bus to the events *)

\* A sequence's elements, and what appending and taking away leave of them.
LEMMA Elements ==
  ASSUME NEW X, NEW s \in Seq(X)
  PROVE  /\ DOMAIN s = 1 .. Len(s) /\ Len(s) \in Nat
         /\ \A i \in DOMAIN s : s[i] \in X
OBVIOUS

LEMMA Appended ==
  ASSUME NEW X, NEW s \in Seq(X), NEW e, NEW t, t = Append(s, e)
  PROVE  /\ DOMAIN s = 1 .. Len(s) /\ DOMAIN t = 1 .. Len(s) + 1
         /\ Len(s) \in Nat /\ Len(t) = Len(s) + 1 /\ t[Len(s) + 1] = e
         /\ \A i \in DOMAIN s : i \in DOMAIN t /\ t[i] = s[i]
         /\ \A i \in DOMAIN t : i \in DOMAIN s \/ i = Len(s) + 1
OBVIOUS

LEMMA Tailed ==
  ASSUME NEW X, NEW s \in Seq(X), s # <<>>, NEW t, t = Tail(s)
  PROVE  /\ DOMAIN s = 1 .. Len(s) /\ DOMAIN t = 1 .. Len(s) - 1
         /\ Len(s) \in Nat /\ Len(t) = Len(s) - 1 /\ 1 \in DOMAIN s
         /\ Head(s) = s[1] /\ s[1] \in X /\ t \in Seq(X)
         /\ \A i \in DOMAIN t : t[i] = s[i + 1] /\ i + 1 \in DOMAIN s
OBVIOUS

\* A frame's number is its place in the log of kinds.  Frames and events are in the
\* order of their numbers: the events, the frame at hand, those in the socket.
Rising(s) == \A i, j \in DOMAIN s : i < j => s[i].id < s[j].id
Heard(s)  == \A i \in DOMAIN s : s[i].id \in DOMAIN kinds

EventsFirst ==
  \A i \in DOMAIN events : \A k \in DOMAIN can_rx : events[i].id < can_rx[k].id
FrameBetween ==
  ppc = "publish" =>
    /\ frame.id \in DOMAIN kinds
    /\ \A i \in DOMAIN events : events[i].id < frame.id
    /\ \A k \in DOMAIN can_rx : frame.id < can_rx[k].id

NumbersInv ==
  /\ kinds \in Seq(Kinds) /\ Len(kinds) = heard
  /\ Rising(can_rx) /\ Heard(can_rx) /\ Rising(events) /\ Heard(events)
  /\ EventsFirst /\ FrameBetween

LEMMA NumbersInit == PathInit => NumbersInv
<1> SUFFICES ASSUME PathInit PROVE NumbersInv
  OBVIOUS
<1>1. /\ kinds = <<>> /\ can_rx = <<>> /\ events = <<>> /\ heard = 0 /\ ppc = "none"
  BY DEF PathInit, Init
<1>2. kinds \in Seq(Kinds) /\ Len(kinds) = heard BY <1>1
<1>3. DOMAIN can_rx = {} /\ DOMAIN events = {} BY <1>1
<1> QED BY <1>1, <1>2, <1>3
        DEF NumbersInv, Rising, Heard, EventsFirst, FrameBetween

\* A frame from the bus has the highest number.
LEMMA BusNumbers ==
  ASSUME PubInv, NumbersInv, NEW kind \in Kinds, NEW dlc \in FrameLengths,
         BusDelivers(kind, dlc), kinds' = Append(kinds, kind)
  PROVE  NumbersInv'
<1> DEFINE f == [id |-> heard + 1, kind |-> kind, dlc |-> dlc]
<1>1. /\ heard' = heard + 1 /\ can_rx' = Append(can_rx, f)
      /\ UNCHANGED <<ppc, frame, events>>
  BY DEF BusDelivers
<1>2. f.id = heard + 1 OBVIOUS
<1> HIDE DEF f
<1>3. can_rx \in Seq(CanFrame) /\ heard \in Nat /\ kinds \in Seq(Kinds) /\ Len(kinds) = heard
  BY DEF PubInv, FrameTypes, NumbersInv
<1>4. /\ kinds' \in Seq(Kinds) /\ Len(kinds') = heard'
      /\ DOMAIN kinds = 1 .. heard /\ DOMAIN kinds' = 1 .. heard + 1
  BY <1>1, <1>3
<1>5. /\ \A i \in DOMAIN can_rx : can_rx'[i] = can_rx[i] /\ can_rx[i].id \in 1 .. heard
      /\ \A i \in DOMAIN can_rx' : i \in DOMAIN can_rx \/ i = Len(can_rx) + 1
      /\ DOMAIN can_rx = 1 .. Len(can_rx) /\ Len(can_rx) \in Nat
      /\ can_rx'[Len(can_rx) + 1].id = heard + 1
  BY <1>1, <1>2, <1>3, <1>4, Appended DEF NumbersInv, Heard
<1>6. Heard(can_rx)' BY <1>3, <1>4, <1>5 DEF Heard
<1>7. Rising(can_rx)'
  <2> SUFFICES ASSUME NEW i \in DOMAIN can_rx', NEW j \in DOMAIN can_rx', i < j
               PROVE  can_rx'[i].id < can_rx'[j].id
    BY DEF Rising
  <2>1. i \in DOMAIN can_rx BY <1>5
  <2>2. CASE j \in DOMAIN can_rx BY <1>5, <2>1, <2>2 DEF NumbersInv, Rising
  <2>3. CASE j = Len(can_rx) + 1 BY <1>3, <1>5, <2>1, <2>3
  <2> QED BY <1>5, <2>2, <2>3
<1>8. Rising(events)' /\ Heard(events)'
  BY <1>1, <1>3, <1>4 DEF NumbersInv, Rising, Heard
<1>9. EventsFirst'
  BY <1>1, <1>3, <1>4, <1>5 DEF NumbersInv, EventsFirst, Heard
<1>10. FrameBetween'
  BY <1>1, <1>3, <1>4, <1>5 DEF NumbersInv, FrameBetween
<1> QED BY <1>4, <1>6, <1>7, <1>8, <1>9, <1>10 DEF NumbersInv

\* publish_loop takes the oldest frame.
LEMMA ReadNumbers ==
  ASSUME PubInv, NumbersInv, ReadFrame, UNCHANGED kinds
  PROVE  NumbersInv'
<1>1. /\ can_rx # <<>> /\ can_rx' = Tail(can_rx) /\ frame' = Head(can_rx)
      /\ UNCHANGED <<heard, events>>
  BY DEF ReadFrame
<1>2. can_rx \in Seq(CanFrame) BY DEF PubInv, FrameTypes
<1>3. /\ DOMAIN can_rx = 1 .. Len(can_rx) /\ Len(can_rx) \in Nat /\ 1 \in DOMAIN can_rx
      /\ frame' = can_rx[1] /\ DOMAIN can_rx' = 1 .. Len(can_rx) - 1
      /\ \A i \in DOMAIN can_rx' : can_rx'[i] = can_rx[i + 1] /\ i + 1 \in DOMAIN can_rx
  BY <1>1, <1>2, Tailed
<1>4. Heard(can_rx)' BY <1>3 DEF NumbersInv, Heard
<1>5. Rising(can_rx)' BY <1>3 DEF NumbersInv, Rising
<1>6. Rising(events)' /\ Heard(events)' BY <1>1 DEF NumbersInv, Rising, Heard
<1>7. EventsFirst' BY <1>1, <1>3 DEF NumbersInv, EventsFirst
<1>8. FrameBetween'
  <2>1. frame'.id \in DOMAIN kinds BY <1>3 DEF NumbersInv, Heard
  <2>2. \A i \in DOMAIN events : events[i].id < frame'.id
    BY <1>3 DEF NumbersInv, EventsFirst
  <2>3. \A k \in DOMAIN can_rx' : frame'.id < can_rx'[k].id
    BY <1>3 DEF NumbersInv, Rising
  <2> QED BY <1>1, <2>1, <2>2, <2>3 DEF FrameBetween
<1> QED BY <1>1, <1>4, <1>5, <1>6, <1>7, <1>8 DEF NumbersInv

\* The event has the number of its frame.
LEMMA PublishNumbers ==
  ASSUME PubInv, NumbersInv, PublishOnce, UNCHANGED kinds
  PROVE  NumbersInv'
<1> DEFINE e == [id |-> frame.id, bytes |-> frame.dlc]
<1>1. /\ ppc = "publish" /\ ppc' = "loop" /\ events' = Append(events, e)
      /\ UNCHANGED <<can_rx, frame, heard>>
  BY DEF PublishOnce, Publisher
<1>2. e.id = frame.id OBVIOUS
<1> HIDE DEF e
<1>3. events \in Seq(StatusEvent) BY DEF PubInv, FrameTypes
<1>4. /\ DOMAIN events = 1 .. Len(events) /\ Len(events) \in Nat
      /\ \A i \in DOMAIN events : events'[i] = events[i]
      /\ \A i \in DOMAIN events' : i \in DOMAIN events \/ i = Len(events) + 1
      /\ events'[Len(events) + 1].id = frame.id
  BY <1>1, <1>2, <1>3, Appended
<1>5. /\ frame.id \in DOMAIN kinds
      /\ \A i \in DOMAIN events : events[i].id < frame.id
      /\ \A k \in DOMAIN can_rx : frame.id < can_rx[k].id
  BY <1>1 DEF NumbersInv, FrameBetween
<1>6. Rising(can_rx)' /\ Heard(can_rx)' BY <1>1 DEF NumbersInv, Rising, Heard
<1>7. Heard(events)' BY <1>4, <1>5 DEF NumbersInv, Heard
<1>8. Rising(events)'
  <2> SUFFICES ASSUME NEW i \in DOMAIN events', NEW j \in DOMAIN events', i < j
               PROVE  events'[i].id < events'[j].id
    BY DEF Rising
  <2>1. i \in DOMAIN events BY <1>4
  <2>2. CASE j \in DOMAIN events BY <1>4, <2>1, <2>2 DEF NumbersInv, Rising
  <2>3. CASE j = Len(events) + 1 BY <1>4, <1>5, <2>1, <2>3
  <2> QED BY <1>4, <2>2, <2>3
<1>9. EventsFirst' BY <1>1, <1>4, <1>5 DEF NumbersInv, EventsFirst
<1>10. FrameBetween' BY <1>1 DEF FrameBetween
<1> QED BY <1>1, <1>6, <1>7, <1>8, <1>9, <1>10 DEF NumbersInv

\* Every step of the path keeps the frames and the events in order.
LEMMA NumbersStep == PubInv /\ NumbersInv /\ [PathNext]_path_vars => NumbersInv'
<1> SUFFICES ASSUME PubInv, NumbersInv, [PathNext]_path_vars PROVE NumbersInv'
  OBVIOUS
<1>1. ASSUME NEW kind \in Kinds, NEW dlc \in FrameLengths, BusDelivers(kind, dlc),
             kinds' = Append(kinds, kind)
      PROVE  NumbersInv'
  BY <1>1, BusNumbers
<1>2. CASE Notify BY <1>2, PublishNumbers DEF Notify
<1>3. CASE PublisherAlone
  <2>1. UNCHANGED kinds BY <1>3 DEF PublisherAlone
  <2>2. CASE ReadFrame BY <2>1, <2>2, ReadNumbers
  <2>3. CASE CloseSocket
    <3>1. /\ can_rx' = <<>> /\ ppc' = "done" /\ UNCHANGED <<heard, events>>
      BY <2>3 DEF CloseSocket, Publisher
    <3>2. DOMAIN can_rx' = {} BY <3>1
    <3> QED BY <2>1, <3>1, <3>2
            DEF NumbersInv, Rising, Heard, EventsFirst, FrameBetween
  <2>4. CASE MainStep \/ HandlerStep \/ Signal
    <3>1. Apart BY <2>4, OthersApart
    <3> QED BY <2>1, <3>1
            DEF Apart, frame_vars, NumbersInv, Rising, Heard, EventsFirst, FrameBetween
  <2>5. CASE (\E ok \in BOOLEAN : OpenSocket(ok)) \/ PublishLoop \/ ReadFails
    <3>1. ppc' # "publish" /\ UNCHANGED <<can_rx, frame, heard, events>>
      BY <2>5 DEF OpenSocket, PublishLoop, ReadFails, Publisher, frame_vars
    <3> QED BY <2>1, <3>1
            DEF NumbersInv, Rising, Heard, EventsFirst, FrameBetween
  <2> QED BY <1>3, <2>2, <2>3, <2>4, <2>5
          DEF PublisherAlone, PublisherStep, PublishOnce, Publisher
<1>4. CASE OnEvent \/ Subscriber \/ Qt \/ UNCHANGED path_vars
  <2>1. UNCHANGED <<kinds, vars>> BY <1>4 DEF OnEvent, Subscriber, Qt, path_vars
  <2> QED BY <2>1 DEF vars, frame_vars, NumbersInv, Rising, Heard, EventsFirst,
                      FrameBetween
<1> QED BY <1>1, <1>2, <1>3, <1>4, PathSteps

-----------------------------------------------------------------------------
(* What the viewer has, and what is on its way to it *)

\* The signals of the Qt window: with the labels, in Qt's queue, about to be emitted.
Line == shown \o (queue \o handling)

\* The events on the link are of those published, in their order.
LinkInv ==
  /\ link \in Seq(StatusEvent) /\ Rising(link)
  /\ \A k \in DOMAIN link : \E i \in DOMAIN events : link[k] = events[i]

\* What the viewer has is genuine, in order, and older than what is on the link.
Climbing(s) ==
  \A i, j \in DOMAIN s : i < j /\ s[j].value # 0 => s[i].value < s[j].value
Older(s) == \A i \in DOMAIN s : \A k \in DOMAIN link : s[i].value < link[k].id

LineInv ==
  /\ shown \in Seq(Status) /\ queue \in Seq(Status) /\ handling \in Seq(Status)
  /\ Climbing(Line) /\ Older(Line)
  /\ \A i \in DOMAIN Line : Genuine(Line[i])
PrintedInv ==
  /\ printed \in Seq(Status)
  /\ Climbing(printed) /\ Older(printed)
  /\ \A i \in DOMAIN printed : Genuine(printed[i]) \/ ShortDistance(printed[i])
  /\ viewer # "subscriber" => sapp = "none"

ViewerInv == LinkInv /\ LineInv /\ PrintedInv

PathInv == PubInv /\ NumbersInv /\ ViewerInv

LEMMA ViewerInit == PathInit => ViewerInv
<1> SUFFICES ASSUME PathInit PROVE ViewerInv
  OBVIOUS
<1>1. /\ link = <<>> /\ printed = <<>> /\ shown = <<>> /\ queue = <<>>
      /\ handling = <<>> /\ sapp = "none"
  BY DEF PathInit, S!Init, Q!Init
<1>2. Line = <<>> BY <1>1 DEF Line
<1>3. DOMAIN link = {} /\ DOMAIN printed = {} /\ DOMAIN Line = {} BY <1>1, <1>2
<1> QED BY <1>1, <1>3
        DEF ViewerInv, LinkInv, LineInv, PrintedInv, Rising, Climbing, Older

\* The labels come first in the line.
LEMMA LineFacts ==
  ASSUME NEW X, NEW s \in Seq(X), NEW t \in Seq(X), NEW u \in Seq(X)
  PROVE  /\ s \o (t \o u) \in Seq(X)
         /\ \A i \in DOMAIN s : i \in DOMAIN (s \o (t \o u)) /\ (s \o (t \o u))[i] = s[i]
<1>1. s \o (t \o u) \in Seq(X) OBVIOUS
<1>2. \A i \in DOMAIN s : i \in DOMAIN (s \o (t \o u)) /\ (s \o (t \o u))[i] = s[i]
  OBVIOUS
<1> QED BY <1>1, <1>2

\* A queued signal shown, one emitted and queued, keeps its place in the line; one that
\* is about to be emitted is the last.
LEMMA LineShows ==
  ASSUME NEW s \in Seq(Status), NEW t \in Seq(Status), NEW u \in Seq(Status), t # <<>>
  PROVE  Append(s, Head(t)) \o (Tail(t) \o u) = s \o (t \o u)
OBVIOUS

LEMMA LineEmits ==
  ASSUME NEW X, NEW s \in Seq(X), NEW t \in Seq(X), NEW u \in Seq(X)
  PROVE  s \o ((t \o u) \o <<>>) = s \o (t \o u)
OBVIOUS

LEMMA LineGrows ==
  ASSUME NEW X, NEW s \in Seq(X), NEW t \in Seq(X), NEW x \in X
  PROVE  s \o (t \o <<x>>) = Append(s \o (t \o <<>>), x)
OBVIOUS

\* Events and kinds of frames are only ever added.
Added ==
  /\ events' = events \/ \E e : events' = Append(events, e)
  /\ kinds' = kinds \/ \E kind : kinds' = Append(kinds, kind)

LEMMA OnlyAdded == ASSUME PubInv, [PathNext]_path_vars PROVE Added
<1>1. ASSUME NEW kind \in Kinds, NEW dlc \in FrameLengths, BusDelivers(kind, dlc),
             kinds' = Append(kinds, kind)
      PROVE  Added
  BY <1>1 DEF BusDelivers, Added
<1>2. CASE Notify BY <1>2 DEF Notify, PublishOnce, Added
<1>3. CASE PublisherAlone
  <2>1. UNCHANGED kinds BY <1>3 DEF PublisherAlone
  <2>2. UNCHANGED events
    BY <1>3, OthersApart
    DEF PublisherAlone, PublisherStep, OpenSocket, PublishLoop, ReadFails, ReadFrame,
        PublishOnce, Publisher, CloseSocket, frame_vars, Apart
  <2> QED BY <2>1, <2>2 DEF Added
<1>4. CASE OnEvent \/ Subscriber \/ Qt \/ UNCHANGED path_vars
  <2>1. UNCHANGED <<kinds, vars>> BY <1>4 DEF OnEvent, Subscriber, Qt, path_vars
  <2> QED BY <2>1 DEF vars, frame_vars, Added
<1> QED BY <1>1, <1>2, <1>3, <1>4, PathSteps

\* So what was genuine stays so.
LEMMA StaysGenuine ==
  ASSUME PubInv, NumbersInv, Added, viewer' = viewer
  PROVE  /\ \A status : Genuine(status) => Genuine(status)'
         /\ \A status : ShortDistance(status) => ShortDistance(status)'
         /\ \A i \in DOMAIN events : i \in DOMAIN events' /\ events'[i] = events[i]
<1>1. events \in Seq(StatusEvent) /\ kinds \in Seq(Kinds)
  BY DEF PubInv, FrameTypes, NumbersInv
<1>2. \A i \in DOMAIN events : i \in DOMAIN events' /\ events'[i] = events[i]
  BY <1>1, Appended DEF Added
<1>3. \A n \in DOMAIN kinds : kinds'[n] = kinds[n]
  BY <1>1, Appended DEF Added
<1>4. \A i \in DOMAIN events : kinds'[events'[i].id] = kinds[events[i].id]
  BY <1>2, <1>3 DEF NumbersInv, Heard
<1>5. \A status : Genuine(status) => Genuine(status)'
  BY <1>2, <1>4 DEF Genuine
<1>6. \A status : ShortDistance(status) => ShortDistance(status)'
  BY <1>2, <1>4 DEF ShortDistance, S!Junk
<1> QED BY <1>2, <1>5, <1>6

\* Steps in which nothing gets to the viewer, or from one place of it to another.
LEMMA ViewerStays ==
  ASSUME PubInv, NumbersInv, ViewerInv, Added, viewer' = viewer,
         Line' = Line,
         shown' \in Seq(Status), queue' \in Seq(Status), handling' \in Seq(Status),
         UNCHANGED <<link, printed>>,
         viewer # "subscriber" => sapp' = sapp
  PROVE  ViewerInv'
<1> USE StaysGenuine DEF ViewerInv
<1>1. LinkInv' BY DEF LinkInv, Rising
<1>2. Climbing(Line)' /\ Older(Line)' BY DEF LineInv, Climbing, Older
<1>3. \A i \in DOMAIN Line' : Genuine(Line[i])' BY DEF LineInv, Genuine
<1>4. LineInv' BY <1>2, <1>3 DEF LineInv
<1>5. Climbing(printed)' /\ Older(printed)' BY DEF PrintedInv, Climbing, Older
<1>6. \A i \in DOMAIN printed' : Genuine(printed[i])' \/ ShortDistance(printed[i])'
  BY DEF PrintedInv, Genuine, ShortDistance
<1>7. PrintedInv' BY <1>5, <1>6 DEF PrintedInv
<1> QED BY <1>1, <1>4, <1>7

\* An event is newer than all before it, and so than what the viewer has of them.
LEMMA NotifyStep ==
  ASSUME PubInv, NumbersInv, ViewerInv, Notify, viewer' = viewer
  PROVE  ViewerInv'
<1> USE DEF ViewerInv
<1> DEFINE e == [id |-> frame.id, bytes |-> frame.dlc]
<1>1. /\ ppc = "publish" /\ events' = Append(events, e)
      /\ UNCHANGED <<kinds, shown, queue, handling, printed, sapp>>
      /\ link' = Append(link, events'[Len(events')]) \/ link' = link
  BY DEF Notify, PublishOnce, Publisher, s_vars, q_vars
<1>2. Added BY <1>1 DEF Added
<1>3. Line' = Line BY <1>1 DEF Line
<1>4. CASE link' = link
  BY <1>1, <1>2, <1>3, <1>4, ViewerStays DEF LineInv
<1>5. CASE link' = Append(link, events'[Len(events')])
  <2>1. events \in Seq(StatusEvent) BY DEF PubInv, FrameTypes
  <2>2. frame.id \in Nat /\ frame.dlc \in 2 .. 8
    BY <1>1 DEF PubInv, FrameTypes, PublisherInv, HasStatus, CanFrame
  <2>3. e \in StatusEvent /\ e.id = frame.id BY <2>2 DEF StatusEvent
  <2> HIDE DEF e
  <2>4. /\ events'[Len(events')] = e /\ Len(events') \in DOMAIN events'
        /\ link' = Append(link, e)
    BY <1>1, <1>5, <2>1, Appended
  <2>5. link \in Seq(StatusEvent) BY DEF LinkInv
  <2>6. /\ \A k \in DOMAIN link : k \in DOMAIN link' /\ link'[k] = link[k]
        /\ \A k \in DOMAIN link' : k \in DOMAIN link \/ k = Len(link) + 1
        /\ link'[Len(link) + 1] = e /\ DOMAIN link = 1 .. Len(link) /\ Len(link) \in Nat
        /\ DOMAIN link' = 1 .. Len(link) + 1
    BY <2>4, <2>5, Appended
  <2>7. \A i \in DOMAIN events : events[i].id < e.id
    BY <1>1, <2>3 DEF NumbersInv, FrameBetween
  <2>8. LinkInv'
    <3>1. link' \in Seq(StatusEvent) BY <2>3, <2>4, <2>5
    <3>2. \A k \in DOMAIN link : link[k].id < e.id BY <2>7 DEF LinkInv
    <3>3. Rising(link)'
      <4> SUFFICES ASSUME NEW i \in DOMAIN link', NEW j \in DOMAIN link', i < j
                   PROVE  link'[i].id < link'[j].id
        BY DEF Rising
      <4>1. i \in DOMAIN link BY <2>6
      <4>2. CASE j \in DOMAIN link BY <2>6, <4>1, <4>2 DEF LinkInv, Rising
      <4>3. CASE j = Len(link) + 1 BY <2>6, <3>2, <4>1, <4>3
      <4> QED BY <2>6, <4>2, <4>3
    <3>4. \A k \in DOMAIN link' : \E i \in DOMAIN events' : link'[k] = events'[i]
      <4>1. \A i \in DOMAIN events : i \in DOMAIN events' /\ events'[i] = events[i]
        BY <1>2, StaysGenuine
      <4> QED BY <2>4, <2>6, <4>1 DEF LinkInv
    <3> QED BY <3>1, <3>3, <3>4 DEF LinkInv
  <2>9. \A i \in DOMAIN Line : Line[i].value < e.id
    BY <2>7 DEF LineInv, Genuine
  <2>10. \A i \in DOMAIN printed : printed[i].value < e.id
    <3>1. 0 < e.id
      <4>1. frame.id \in DOMAIN kinds /\ kinds \in Seq(Kinds)
        BY <1>1 DEF NumbersInv, FrameBetween
      <4> QED BY <2>3, <4>1
    <3> SUFFICES ASSUME NEW i \in DOMAIN printed PROVE printed[i].value < e.id
      OBVIOUS
    <3>2. CASE Genuine(printed[i]) BY <2>7, <3>2 DEF Genuine
    <3>3. CASE ShortDistance(printed[i])
      <4>1. printed[i].value = 0 BY <3>3 DEF ShortDistance, S!Junk
      <4> QED BY <3>1, <4>1
    <3> QED BY <3>2, <3>3 DEF PrintedInv
  <2>11. Older(Line)' /\ Older(printed)'
    BY <1>1, <1>3, <2>6, <2>9, <2>10 DEF LineInv, PrintedInv, Older
  <2>12. Climbing(Line)' /\ Climbing(printed)'
    BY <1>1, <1>3 DEF LineInv, PrintedInv, Climbing
  <2>13. \A i \in DOMAIN Line' : Genuine(Line[i])'
    BY <1>2, <1>3, StaysGenuine DEF LineInv, Genuine
  <2>14. \A i \in DOMAIN printed' : Genuine(printed[i])' \/ ShortDistance(printed[i])'
    BY <1>1, <1>2, StaysGenuine DEF PrintedInv, Genuine, ShortDistance
  <2>15. LineInv' BY <1>1, <2>11, <2>12, <2>13 DEF LineInv
  <2>16. PrintedInv' BY <1>1, <2>11, <2>12, <2>14 DEF PrintedInv
  <2> QED BY <2>8, <2>15, <2>16
<1> QED BY <1>1, <1>4, <1>5

\* The oldest event on the link: older than the others, newer than what the viewer has.
LEMMA OldestEvent ==
  ASSUME PubInv, NumbersInv, ViewerInv, link # <<>>, link' = Tail(link),
         UNCHANGED <<events, kinds>>
  PROVE  /\ Head(link) \in StatusEvent /\ Head(link).id \in DOMAIN kinds
         /\ Head(link).id > 0 /\ kinds[Head(link).id] \in Kinds
         /\ \E i \in DOMAIN events : Head(link) = events[i]
         /\ \A k \in DOMAIN link' : Head(link).id < link'[k].id /\ 0 < link'[k].id
         /\ \A k \in DOMAIN link' : \E l \in DOMAIN link : link'[k] = link[l]
         /\ LinkInv'
         /\ \A s : Older(s) => \A i \in DOMAIN s : s[i].value < Head(link).id
<1> USE DEF ViewerInv
<1>1. link \in Seq(StatusEvent) BY DEF LinkInv
<1>2. /\ 1 \in DOMAIN link /\ Head(link) = link[1] /\ link[1] \in StatusEvent
      /\ \A k \in DOMAIN link' : link'[k] = link[k + 1] /\ k + 1 \in DOMAIN link
      /\ link' \in Seq(StatusEvent) /\ DOMAIN link' = 1 .. Len(link) - 1
      /\ DOMAIN link = 1 .. Len(link) /\ Len(link) \in Nat
  BY <1>1, Tailed
<1>3. \A k \in DOMAIN link : link[k].id \in DOMAIN kinds
  BY DEF LinkInv, NumbersInv, Heard
<1>4. \A n \in DOMAIN kinds : n > 0 /\ n \in Nat /\ kinds[n] \in Kinds
  BY DEF NumbersInv
<1>5. \A k \in DOMAIN link' : link[1].id < link'[k].id /\ 0 < link'[k].id
  BY <1>2, <1>3, <1>4 DEF LinkInv, Rising
<1>6. Rising(link)' BY <1>2 DEF LinkInv, Rising
<1>7. LinkInv' BY <1>2, <1>6 DEF LinkInv
<1>8. \A k \in DOMAIN link' : \E l \in DOMAIN link : link'[k] = link[l] BY <1>2
<1>9. \A s : Older(s) => \A i \in DOMAIN s : s[i].value < Head(link).id
  BY <1>2 DEF Older
<1>10. \E i \in DOMAIN events : Head(link) = events[i] BY <1>2 DEF LinkInv
<1> QED BY <1>2, <1>3, <1>4, <1>5, <1>7, <1>8, <1>9, <1>10

\* One more of that value is still in order and older than what is to come.
LEMMA OneMore ==
  ASSUME PubInv, NumbersInv, ViewerInv, link # <<>>, link' = Tail(link),
         UNCHANGED <<events, kinds>>,
         NEW s \in Seq(Status), Climbing(s), Older(s),
         NEW status \in Status, status.value \in {0, Head(link).id}
  PROVE  /\ Append(s, status) \in Seq(Status) /\ Climbing(Append(s, status))
         /\ \A i \in DOMAIN Append(s, status) : \A k \in DOMAIN link' :
              Append(s, status)[i].value < link'[k].id
<1> DEFINE t == Append(s, status)
<1>1. t \in Seq(Status) OBVIOUS
<1>2. /\ DOMAIN s = 1 .. Len(s) /\ DOMAIN t = 1 .. Len(s) + 1
      /\ Len(s) \in Nat /\ t[Len(s) + 1] = status
      /\ \A i \in DOMAIN s : i \in DOMAIN t /\ t[i] = s[i]
      /\ \A i \in DOMAIN t : i \in DOMAIN s \/ i = Len(s) + 1
  BY Appended
<1> HIDE DEF t
<1>3. \A i \in DOMAIN s : s[i].value < Head(link).id BY OldestEvent
<1>4. \A k \in DOMAIN link' : status.value < link'[k].id BY OldestEvent
<1>5. Climbing(t)
  <2> SUFFICES ASSUME NEW i \in DOMAIN t, NEW j \in DOMAIN t, i < j, t[j].value # 0
               PROVE  t[i].value < t[j].value
    BY DEF Climbing
  <2>1. i \in DOMAIN s BY <1>2
  <2>2. CASE j \in DOMAIN s BY <1>2, <2>1, <2>2 DEF Climbing
  <2>3. CASE j = Len(s) + 1 BY <1>2, <1>3, <2>1, <2>3
  <2> QED BY <1>2, <2>2, <2>3
<1>6. ASSUME NEW i \in DOMAIN t, NEW k \in DOMAIN link' PROVE t[i].value < link'[k].id
  <2>1. CASE i \in DOMAIN s
    <3>1. PICK l \in DOMAIN link : link'[k] = link[l] BY OldestEvent
    <3> QED BY <1>2, <2>1, <3>1 DEF Older
  <2>2. CASE i = Len(s) + 1 BY <1>2, <1>4, <2>2
  <2> QED BY <1>2, <2>1, <2>2
<1> QED BY <1>1, <1>5, <1>6 DEF t

\* What the viewer had stays older than what is on the link.
LEMMA OlderStays ==
  ASSUME PubInv, NumbersInv, ViewerInv, link # <<>>, link' = Tail(link),
         UNCHANGED <<events, kinds>>, NEW s, Older(s)
  PROVE  \A i \in DOMAIN s : \A k \in DOMAIN link' : s[i].value < link'[k].id
BY OldestEvent DEF Older

\* The subscriber prints an event.
LEMMA PrintStep ==
  ASSUME PubInv, NumbersInv, ViewerInv, OnEvent, viewer' = viewer,
         S!OnEvent(kinds[Head(link).id], Head(link).id, Head(link).bytes),
         UNCHANGED q_vars
  PROVE  ViewerInv'
<1> USE DEF ViewerInv
<1> DEFINE event == Head(link)
           status == [kind |-> kinds[event.id],
                      value |-> S!Printed(event.id, kinds[event.id], event.bytes)]
<1>1. /\ link # <<>> /\ link' = Tail(link) /\ UNCHANGED <<events, kinds>>
      /\ UNCHANGED <<shown, queue, handling, sapp>>
      /\ sapp = "subscribed" /\ printed' = Append(printed, status)
  BY DEF OnEvent, vars, frame_vars, q_vars, S!OnEvent
<1>2. /\ event \in StatusEvent /\ event.id \in Nat /\ kinds[event.id] \in Kinds
      /\ \E i \in DOMAIN events : event = events[i]
  BY <1>1, OldestEvent DEF StatusEvent
<1>3. status \in Status /\ status.value \in {0, event.id}
  BY <1>2 DEF Status, S!Printed, S!Junk
<1>4. Genuine(status) \/ ShortDistance(status)
  <2>1. CASE kinds[event.id] = "tof" /\ event.bytes < 4
    <3>1. status = [kind |-> "tof", value |-> S!Junk] BY <2>1 DEF S!Printed
    <3>2. viewer = "subscriber" BY <1>1 DEF PrintedInv
    <3> HIDE DEF status
    <3> QED BY <1>2, <2>1, <3>1, <3>2 DEF ShortDistance
  <2>2. CASE ~(kinds[event.id] = "tof" /\ event.bytes < 4)
    <3>1. status.kind = kinds[event.id] /\ status.value = event.id
      BY <2>2 DEF S!Printed
    <3> HIDE DEF status
    <3> QED BY <1>2, <3>1 DEF Genuine
  <2> QED BY <2>1, <2>2
<1> HIDE DEF status
<1>5. printed \in Seq(Status) /\ Climbing(printed) /\ Older(printed) BY DEF PrintedInv
<1>6. /\ printed' \in Seq(Status) /\ Climbing(printed)'
      /\ \A i \in DOMAIN printed' : \A k \in DOMAIN link' :
           printed'[i].value < link'[k].id
  <2>1. /\ Append(printed, status) \in Seq(Status) /\ Climbing(Append(printed, status))
        /\ \A i \in DOMAIN Append(printed, status) : \A k \in DOMAIN link' :
             Append(printed, status)[i].value < link'[k].id
    BY <1>1, <1>3, <1>5, OneMore
  <2> QED BY <1>1, <2>1 DEF Climbing
<1>7. Older(printed)' BY <1>6 DEF Older
<1>8. \A i \in DOMAIN printed' : Genuine(printed'[i]) \/ ShortDistance(printed'[i])
  <2>1. \A i \in DOMAIN printed' :
          \/ i \in DOMAIN printed /\ printed'[i] = printed[i]
          \/ printed'[i] = status
    BY <1>1, <1>5, Appended
  <2> QED BY <1>4, <2>1 DEF PrintedInv
<1>9. \A i \in DOMAIN printed' : Genuine(printed[i])' \/ ShortDistance(printed[i])'
  BY <1>1, <1>8 DEF Genuine, ShortDistance
<1>10. PrintedInv' BY <1>1, <1>6, <1>7, <1>9 DEF PrintedInv
<1>11. Line' = Line BY <1>1 DEF Line
<1>12. Older(Line)' BY <1>1, <1>11, OlderStays DEF LineInv, Older
<1>13. \A i \in DOMAIN Line' : Genuine(Line[i])' BY <1>1, <1>11 DEF LineInv, Genuine
<1>14. LineInv' BY <1>1, <1>11, <1>12, <1>13 DEF LineInv, Climbing
<1>15. LinkInv' BY <1>1, OldestEvent
<1> QED BY <1>10, <1>14, <1>15

\* The Qt client decodes an event, or drops it.
LEMMA DecodeStep ==
  ASSUME PubInv, NumbersInv, ViewerInv, OnEvent, viewer' = viewer,
         Q!OnEvent(kinds[Head(link).id], Head(link).id, Head(link).bytes),
         UNCHANGED s_vars
  PROVE  ViewerInv'
<1> USE DEF ViewerInv
<1> DEFINE event == Head(link)
           status == [kind |-> kinds[event.id], value |-> event.id]
<1>1. /\ link # <<>> /\ link' = Tail(link) /\ UNCHANGED <<events, kinds>>
      /\ UNCHANGED <<shown, queue, printed, sapp>>
      /\ handling = <<>> /\ handling' \in {<<status>>, <<>>}
  BY DEF OnEvent, vars, frame_vars, s_vars, Q!OnEvent, Q!ui_vars
<1>2. /\ event \in StatusEvent /\ event.id \in Nat /\ kinds[event.id] \in Kinds
      /\ \E i \in DOMAIN events : event = events[i]
  BY <1>1, OldestEvent DEF StatusEvent
<1>3. status \in Status /\ status.value = event.id BY <1>2 DEF Status
<1>4. Genuine(status) BY <1>2 DEF Genuine
<1> HIDE DEF status
<1>5. /\ shown \in Seq(Status) /\ queue \in Seq(Status) /\ handling \in Seq(Status)
      /\ Climbing(Line) /\ Older(Line)
  BY DEF LineInv
<1>6. handling' \in Seq(Status)
  <2>1. <<status>> \in Seq(Status) /\ <<>> \in Seq(Status) BY <1>3
  <2> QED BY <1>1, <2>1
<1>7. Line \in Seq(Status) BY <1>5, LineFacts DEF Line
<1>8. Line' = Line \/ Line' = Append(Line, status)
  <2>1. shown \o (queue \o <<status>>) = Append(shown \o (queue \o <<>>), status)
    BY <1>3, <1>5, LineGrows
  <2> QED BY <1>1, <1>3, <2>1 DEF Line
<1>9. /\ Climbing(Line)' /\ Older(Line)'
      /\ \A i \in DOMAIN Line' : Genuine(Line'[i])
  <2>1. CASE Line' = Line
    BY <1>1, <1>5, <2>1, OlderStays DEF LineInv, Climbing, Older
  <2>2. CASE Line' = Append(Line, status)
    <3>1. /\ Climbing(Append(Line, status))
          /\ \A i \in DOMAIN Append(Line, status) : \A k \in DOMAIN link' :
               Append(Line, status)[i].value < link'[k].id
      BY <1>1, <1>3, <1>5, <1>7, OneMore
    <3>2. \A i \in DOMAIN Line' :
            \/ i \in DOMAIN Line /\ Line'[i] = Line[i]
            \/ Line'[i] = status
      BY <1>7, <2>2, Appended
    <3>3. Climbing(Line)' /\ Older(Line)' BY <2>2, <3>1 DEF Climbing, Older
    <3> QED BY <1>4, <3>2, <3>3 DEF LineInv
  <2> QED BY <1>8, <2>1, <2>2
<1>10. \A i \in DOMAIN Line' : Genuine(Line[i])' BY <1>1, <1>9 DEF Genuine
<1>11. LineInv' BY <1>1, <1>5, <1>6, <1>9, <1>10 DEF LineInv
<1>12. Older(printed)' BY <1>1, OlderStays DEF PrintedInv, Older
<1>13. PrintedInv'
  BY <1>1, <1>12 DEF PrintedInv, Climbing, Genuine, ShortDistance
<1>14. LinkInv' BY <1>1, OldestEvent
<1> QED BY <1>11, <1>13, <1>14

\* In the Qt client signals only move up in the line.
LEMMA QtStep ==
  ASSUME PubInv, NumbersInv, ViewerInv, Qt, viewer' = viewer
  PROVE  ViewerInv'
<1> USE DEF ViewerInv
<1>1. /\ viewer = "qt" /\ UNCHANGED <<events, kinds, link, printed, sapp>>
      /\ Q!ThreadStep \/ Q!VsomeipStep \/ Q!WindowStep \/ Q!CloseWindow
  BY DEF Qt, vars, frame_vars, s_vars
<1>2. Added BY <1>1 DEF Added
<1>3. shown \in Seq(Status) /\ queue \in Seq(Status) /\ handling \in Seq(Status)
  BY DEF LineInv
<1>4. /\ Line' = Line
      /\ shown' \in Seq(Status) /\ queue' \in Seq(Status) /\ handling' \in Seq(Status)
  <2>1. CASE Q!HandleSignal
    <3>1. /\ queue # <<>> /\ queue' = Tail(queue)
          /\ shown' = Append(shown, Head(queue)) /\ handling' = handling
      BY <2>1 DEF Q!HandleSignal
    <3>2. Head(queue) \in Status /\ Tail(queue) \in Seq(Status) BY <1>3, <3>1
    <3>3. Append(shown, Head(queue)) \o (Tail(queue) \o handling)
            = shown \o (queue \o handling)
      <4>1. shown \in Seq(Status) /\ queue \in Seq(Status) /\ handling \in Seq(Status)
            /\ queue # <<>>
        BY <1>3, <3>1
      <4> QED BY <4>1, LineShows
    <3>4. shown' \in Seq(Status) BY <1>3, <3>1, <3>2
    <3>5. Line' = Append(shown, Head(queue)) \o (Tail(queue) \o handling)
      BY <3>1 DEF Line
    <3> QED BY <1>3, <3>1, <3>2, <3>3, <3>4, <3>5 DEF Line
  <2>2. CASE Q!Emit
    <3>1. handling' = <<>> /\ queue' = queue \o handling /\ shown' = shown
      BY <2>2 DEF Q!Emit, Q!ui_vars
    <3>2. shown \o ((queue \o handling) \o <<>>) = shown \o (queue \o handling)
      BY <1>3, LineEmits
    <3>3. queue \o handling \in Seq(Status) /\ <<>> \in Seq(Status) BY <1>3
    <3> QED BY <1>3, <3>1, <3>2, <3>3 DEF Line
  <2>3. CASE ~Q!HandleSignal /\ ~Q!Emit
    <3>1. UNCHANGED <<shown, queue, handling>>
      BY <1>1, <2>3
      DEF Q!ThreadStep, Q!InitVsomeip, Q!StartVsomeip, Q!RunLoop, Q!StopVsomeip,
          Q!VsomeipStep, Q!AppStart, Q!Registered, Q!UseAfterDestruction, Q!Crash,
          Q!WindowStep, Q!Wait, Q!Exit, Q!CloseWindow, Q!ui_vars
    <3> QED BY <1>3, <3>1 DEF Line
  <2> QED BY <2>1, <2>2, <2>3
<1> QED BY <1>1, <1>2, <1>4, ViewerStays

\* The subscriber's other steps print nothing, and are the subscriber's only.
LEMMA SubscriberStep ==
  ASSUME PubInv, NumbersInv, ViewerInv, Subscriber, viewer' = viewer
  PROVE  ViewerInv'
<1>1. /\ viewer = "subscriber" /\ UNCHANGED <<events, kinds, link>>
      /\ UNCHANGED <<shown, queue, handling>>
  BY DEF Subscriber, vars, frame_vars, q_vars
<1>2. UNCHANGED printed
  BY DEF Subscriber, S!MainStep, S!InitFails, S!Start, S!Return, S!Exit, S!Signal,
         S!OnState, S!UseAfterDestruction, S!OnAvailability
<1>3. Added BY <1>1 DEF Added
<1> QED BY <1>1, <1>2, <1>3, ViewerStays DEF ViewerInv, LineInv, Line

LEMMA ViewerStep ==
  ASSUME PubInv, NumbersInv, ViewerInv, [PathNext]_path_vars
  PROVE  ViewerInv'
<1>1. viewer' = viewer /\ Added BY PathSteps, OnlyAdded
<1>2. ASSUME UNCHANGED <<link, s_vars, q_vars>> PROVE ViewerInv'
  <2>1. UNCHANGED <<link, printed, sapp, shown, queue, handling>>
    BY <1>2 DEF s_vars, q_vars
  <2> QED BY <1>1, <2>1, ViewerStays DEF ViewerInv, LineInv, Line
<1>3. CASE Notify BY <1>1, <1>3, NotifyStep
<1>4. CASE PublisherAlone BY <1>2, <1>4 DEF PublisherAlone
<1>5. CASE OnEvent
  <2>1. \/ /\ S!OnEvent(kinds[Head(link).id], Head(link).id, Head(link).bytes)
           /\ UNCHANGED q_vars
        \/ /\ Q!OnEvent(kinds[Head(link).id], Head(link).id, Head(link).bytes)
           /\ UNCHANGED s_vars
    BY <1>5 DEF OnEvent
  <2> QED BY <1>1, <1>5, <2>1, PrintStep, DecodeStep
<1>6. CASE Subscriber BY <1>1, <1>6, SubscriberStep
<1>7. CASE Qt BY <1>1, <1>7, QtStep
<1>8. CASE UNCHANGED path_vars BY <1>2, <1>8 DEF path_vars
<1> QED BY <1>2, <1>3, <1>4, <1>5, <1>6, <1>7, <1>8, PathSteps

\* A viewer shows what was published, as what it was, and never an older status after a
\* newer, however the events were delayed, lost or left lying in Qt's queue.
THEOREM ShownPublished == PathSpec => []ShownAsPublished
<1>1. PathInit => PathInv
  BY PathPubInit, NumbersInit, ViewerInit DEF PathInv
<1>2. PathInv /\ [PathNext]_path_vars => PathInv'
  BY PathPubStep, NumbersStep, ViewerStep DEF PathInv
<1>3. PathInv => ShownAsPublished
  <2> SUFFICES ASSUME PathInv PROVE ShownAsPublished
    OBVIOUS
  <2>1. LineInv /\ PrintedInv BY DEF PathInv, ViewerInv
  <2>2. \A i \in DOMAIN shown : i \in DOMAIN Line /\ Line[i] = shown[i]
    BY <2>1, LineFacts DEF LineInv, Line
  <2>3. \A i \in DOMAIN shown : Genuine(shown[i]) BY <2>1, <2>2 DEF LineInv
  <2>4. InOrder(shown) BY <2>1, <2>2 DEF LineInv, Climbing, InOrder, S!Junk
  <2>5. InOrder(printed) BY <2>1 DEF PrintedInv, Climbing, InOrder, S!Junk
  <2> QED BY <2>1, <2>3, <2>4, <2>5 DEF PrintedInv, ShownAsPublished
<1> QED BY <1>1, <1>2, <1>3, PTL DEF PathSpec

-----------------------------------------------------------------------------
(* What the status service guarantees, of this server *)

StatusFacts == INSTANCE StatusServiceProofs WITH
  buffered <- IF ppc = "publish" THEN <<frame>> \o can_rx ELSE can_rx

LEMMA SameStatus ==
  /\ Service!Init <=> StatusFacts!Init
  /\ [Service!Next]_(Service!vars) <=> [StatusFacts!Next]_(StatusFacts!vars)
  /\ Service!EventsInOrder <=> StatusFacts!EventsInOrder
<1>1. Service!Init <=> StatusFacts!Init BY DEF Service!Init, StatusFacts!Init
<1>2. Service!Next <=> StatusFacts!Next
  BY DEF Service!Next, Service!Hear, Service!Ignore, Service!Publish, Service!Forget,
         Service!Kinds, Service!IsStatus, Service!Bytes, StatusFacts!Next,
         StatusFacts!Hear, StatusFacts!Ignore, StatusFacts!Publish, StatusFacts!Forget,
         StatusFacts!Kinds, StatusFacts!IsStatus, StatusFacts!Bytes
<1>3. UNCHANGED Service!vars <=> UNCHANGED StatusFacts!vars
  BY DEF Service!vars, StatusFacts!vars
<1>4. Service!EventsInOrder <=> StatusFacts!EventsInOrder
  BY DEF Service!EventsInOrder, StatusFacts!EventsInOrder
<1> QED BY <1>1, <1>2, <1>3, <1>4

LEMMA StatusOrdered == ImplementsStatus => []Service!EventsInOrder
<1>1. FrameLengths \subseteq Nat BY PublisherAssumption
<1>2. StatusFacts!Spec => []StatusFacts!EventsInOrder
  BY <1>1, StatusFacts!ServicePublishesInOrder
<1> QED BY <1>2, SameStatus, PTL DEF ImplementsStatus, Service!Spec, StatusFacts!Spec

\* The publisher publishes events in the order of their frames, one for a frame at
\* most, until it ends, whoever listens.
THEOREM PublishesInOrder == (Spec => []Service!EventsInOrder)
                            /\ (PathSpec => []Service!EventsInOrder)
BY PublisherImplements, PathImplements, StatusOrdered, PTL

=============================================================================
