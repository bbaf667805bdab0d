----------------------------- MODULE StatusPath -----------------------------
(***************************************************************************)
(* From the CAN bus to the eyes: the status publisher with one of the      *)
(* repository's viewers, the status subscriber or the Qt window.           *)
(*                                                                         *)
(* An event goes to whoever is subscribed when it is notified, over UDP on *)
(* a link that may lose it but does not reorder.                           *)
(***************************************************************************)
EXTENDS StatusPublisher

CONSTANTS
  Viewers            \* "subscriber", "qt": which may run

VARIABLES
  viewer,            \* the viewer that runs
  kinds,             \* log of the kinds of the frames
  link,              \* the events on their way to the viewer
  s_running, smpc, sapp, printed,                      \* StatusSubscriber
  gui, qpc, app, vs, running_, interrupted, handling, queue, shown, slider,
  sent                                                 \* QtClient

s_vars == <<s_running, smpc, sapp, printed>>
q_vars == <<gui, qpc, app, vs, running_, interrupted, handling, queue, shown,
            slider, sent>>
path_vars == <<vars, viewer, kinds, link, s_vars, q_vars>>

S == INSTANCE StatusSubscriber WITH g_running <- s_running, mpc <- smpc, app <- sapp
Q == INSTANCE QtClient

-----------------------------------------------------------------------------
(* The publisher and the bus *)

\* Bound: the frames that are told apart.
Frames == ({"tof"} \X FrameLengths) \cup {<<"status", 2>>, <<"foreign", 4>>}
Bus(kind, dlc) ==
  /\ <<kind, dlc>> \in Frames
  /\ BusDelivers(kind, dlc)
  /\ kinds' = Append(kinds, kind)
  /\ UNCHANGED <<link, s_vars, q_vars>>

Subscribed == sapp = "subscribed" \/ vs = "registered"
Notify ==
  /\ PublishOnce
  /\ \/ Subscribed /\ link' = Append(link, events'[Len(events')])
     \/ UNCHANGED link
  /\ UNCHANGED <<kinds, s_vars, q_vars>>

PublisherAlone ==
  /\ MainStep \/ HandlerStep \/ (PublisherStep /\ ppc # "publish") \/ Signal
  /\ UNCHANGED <<kinds, link, s_vars, q_vars>>

-----------------------------------------------------------------------------
(* The viewer *)

OnEvent ==
  /\ link # <<>>
  /\ link' = Tail(link)
  /\ LET event == Head(link)
     IN \/ S!OnEvent(kinds[event.id], event.id, event.bytes) /\ UNCHANGED q_vars
        \/ Q!OnEvent(kinds[event.id], event.id, event.bytes) /\ UNCHANGED s_vars
  /\ UNCHANGED <<vars, kinds>>

Subscriber ==
  /\ viewer = "subscriber"
  /\ \/ S!MainStep \/ S!Signal \/ S!OnState \/ S!UseAfterDestruction
     \/ offered /\ Running /\ S!OnAvailability
  /\ UNCHANGED <<vars, kinds, link, q_vars>>

Qt ==
  /\ viewer = "qt"
  /\ Q!ThreadStep \/ Q!VsomeipStep \/ Q!WindowStep \/ Q!CloseWindow
  /\ UNCHANGED <<vars, kinds, link, s_vars>>

PathInit ==
  /\ Init /\ viewer \in Viewers /\ kinds = <<>> /\ link = <<>>
  /\ S!Init /\ Q!Init

PathNext ==
  /\ \/ \E kind \in {"tof", "status", "foreign"}, dlc \in FrameLengths : Bus(kind, dlc)
     \/ Notify \/ PublisherAlone \/ OnEvent \/ Subscriber \/ Qt
  /\ UNCHANGED viewer

\* The scheduler runs every thread.  A read need not return.
Beside == <<viewer, kinds, link>>
PathFairness ==
  /\ WF_path_vars(MainStep /\ UNCHANGED <<Beside, s_vars, q_vars>>)
  /\ WF_path_vars(\/ Notify /\ UNCHANGED viewer
                  \/ /\ PublisherStep /\ ~ReadFails /\ ppc # "publish"
                     /\ UNCHANGED <<Beside, s_vars, q_vars>>)
  /\ WF_path_vars(S!MainStep /\ Subscriber /\ UNCHANGED viewer)
  /\ WF_path_vars(Q!ThreadStep /\ Qt /\ UNCHANGED viewer)
  /\ WF_path_vars(Q!WindowStep /\ Qt /\ UNCHANGED viewer)

PathSpec == PathInit /\ [][PathNext]_path_vars /\ PathFairness

-----------------------------------------------------------------------------
(* Properties *)

\* What a viewer shows is the status some event was published with, of the frame's
\* kind, and never older than what it showed of that kind before.  Only the
\* subscriber, on a distance of fewer than three bytes, shows what it did not get.
Genuine(status) ==
  \E i \in DOMAIN events :
    events[i].id = status.value /\ kinds[events[i].id] = status.kind
ShortDistance(status) ==
  /\ viewer = "subscriber" /\ status = [kind |-> "tof", value |-> S!Junk]
  /\ \E i \in DOMAIN events : kinds[events[i].id] = "tof" /\ events[i].bytes < 4
InOrder(statuses) ==
  \A i, j \in DOMAIN statuses :
    (i < j /\ statuses[i].kind = statuses[j].kind /\ statuses[j].value # S!Junk)
      => statuses[i].value < statuses[j].value
ShownAsPublished ==
  /\ \A i \in DOMAIN shown : Genuine(shown[i])
  /\ \A i \in DOMAIN printed : Genuine(printed[i]) \/ ShortDistance(printed[i])
  /\ InOrder(shown) /\ InOrder(printed)

\* The user can always end the viewer.
ViewerEnds == S!SubscriberEnds /\ Q!WindowCloses

=============================================================================
