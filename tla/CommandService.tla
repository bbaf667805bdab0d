---------------------------- MODULE CommandService ----------------------------
(***************************************************************************)
(* What a client of veh_control_service is promised, whichever server runs *)
(* (veh_unified_server, or veh_control_server on its own): its commands    *)
(* are carried out one after the other in the order they came, each is     *)
(* tried on the bus once, at most, and answered after that; an empty       *)
(* payload is dropped.  An answer does not say whether the frame was sent. *)
(***************************************************************************)
EXTENDS Integers, Sequences

CONSTANT RequestLengths

VARIABLES
  pending,    \* the requests not yet answered, the oldest first
  tried,      \* was the oldest one's frame tried?
  received,   \* how many requests there were
  commands,   \* log of the frames on the bus
  responses   \* log of the requests answered

vars == <<pending, tried, received, commands, responses>>

\* A frame holds the first eight bytes.
Frame(r) == [id |-> r.id, dlc |-> IF r.len > 8 THEN 8 ELSE r.len]

Arrive(len) ==
  /\ received' = received + 1
  /\ pending' = Append(pending, [id |-> received', len |-> len])
  /\ UNCHANGED <<tried, commands, responses>>

Drop ==
  /\ pending # <<>> /\ Head(pending).len = 0
  /\ pending' = Tail(pending)
  /\ UNCHANGED <<tried, received, commands, responses>>

Try(ok) ==
  /\ pending # <<>> /\ Head(pending).len >= 1 /\ ~tried
  /\ tried' = TRUE
  /\ commands' = IF ok THEN Append(commands, Frame(Head(pending))) ELSE commands
  /\ UNCHANGED <<pending, received, responses>>

Answer ==
  /\ tried
  /\ tried' = FALSE
  /\ responses' = Append(responses, Head(pending))
  /\ pending' = Tail(pending)
  /\ UNCHANGED <<received, commands>>

Init ==
  /\ pending = <<>> /\ ~tried
  /\ received = 0 /\ commands = <<>> /\ responses = <<>>

Next ==
  \/ \E len \in RequestLengths : Arrive(len)
  \/ Drop \/ (\E ok \in BOOLEAN : Try(ok)) \/ Answer

Spec == Init /\ [][Next]_vars

-----------------------------------------------------------------------------
(* Properties *)

Increasing(log) == \A i, j \in DOMAIN log : i < j => log[i].id < log[j].id

\* Requests are answered in the order they came, none twice and none that was
\* empty; frames go to the bus in that order too, none twice, and each one's
\* request is answered, or is the next to be.
AnsweredInOrder ==
  /\ Increasing(responses) /\ Increasing(commands)
  /\ \A i \in DOMAIN responses : responses[i].len >= 1
  /\ \A i \in DOMAIN commands :
       \/ \E j \in DOMAIN responses : responses[j].id = commands[i].id
       \/ tried /\ Head(pending).id = commands[i].id

=============================================================================
