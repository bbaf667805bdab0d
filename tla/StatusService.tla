---------------------------- MODULE StatusService ----------------------------
(***************************************************************************)
(* What a subscriber of veh_status_service is promised, whichever server   *)
(* runs (veh_unified_server, or veh_status_publisher on its own): each     *)
(* status frame the server's CAN socket took in becomes one event, in the  *)
(* order of the frames, unless the server ends first; other frames, and    *)
(* frames without a type and a value, become none.                         *)
(*                                                                         *)
(* A frame is its number, kind and length, an event the number of its      *)
(* frame and how many of its bytes it carries.                             *)
(***************************************************************************)
EXTENDS Integers, Sequences

CONSTANT FrameLengths

VARIABLES
  buffered,   \* the frames taken in and not dealt with
  heard,      \* how many were taken in
  events      \* log of the events notified

vars == <<buffered, heard, events>>

Kinds == {"tof", "status", "foreign"}

IsStatus(f) == f.kind # "foreign" /\ f.dlc >= 2

\* The frame's bytes; of a distance perhaps only the type and three more.
Bytes(f) == {f.dlc} \cup (IF f.kind = "tof" /\ f.dlc >= 4 THEN {4} ELSE {})

Hear(kind, dlc) ==
  /\ heard' = heard + 1
  /\ buffered' = Append(buffered, [id |-> heard', kind |-> kind, dlc |-> dlc])
  /\ UNCHANGED events

Ignore ==
  /\ buffered # <<>> /\ ~IsStatus(Head(buffered))
  /\ buffered' = Tail(buffered)
  /\ UNCHANGED <<heard, events>>

Publish ==
  /\ buffered # <<>> /\ IsStatus(Head(buffered))
  /\ buffered' = Tail(buffered)
  /\ \E n \in Bytes(Head(buffered)) :
       events' = Append(events, [id |-> Head(buffered).id, bytes |-> n])
  /\ UNCHANGED heard

\* The socket is closed.
Forget == buffered' = <<>> /\ UNCHANGED <<heard, events>>

Init == buffered = <<>> /\ heard = 0 /\ events = <<>>

Next ==
  \/ \E kind \in Kinds, dlc \in FrameLengths : Hear(kind, dlc)
  \/ Ignore \/ Publish \/ Forget

Spec == Init /\ [][Next]_vars

-----------------------------------------------------------------------------
(* Properties *)

\* Events come in the order of their frames, one for a frame at most, and always
\* with a type and a value.
EventsInOrder ==
  /\ \A i, j \in DOMAIN events : i < j => events[i].id < events[j].id
  /\ \A i \in DOMAIN events : events[i].bytes >= 2

=============================================================================
