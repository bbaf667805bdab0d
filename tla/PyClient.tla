------------------------------ MODULE PyClient ------------------------------
(***************************************************************************)
(* client/veh_gui.py and the VsomeipClient of bindings/ it calls: Python's *)
(* thread handles the clicks and sends the commands, a worker runs         *)
(* vsomeip.                                                                *)
(*                                                                         *)
(* The window takes the code of a direction for a command type, and has    *)
(* command types of its own.  It subscribes to an eventgroup nobody        *)
(* offers, so that on_status_update is never called and not modelled.      *)
(***************************************************************************)
EXTENDS Integers, Sequences

VARIABLES
  pc,       \* "init", "show", "join" in the destructor, or "exited"
  worker,   \* "none", "started", "registered" or "stopped"
  speed, aeb,
  sent      \* log of the payloads sent

\* The constructor goes on to return an object when the initialisation fails.
Construct(ok) ==
  /\ pc = "init" /\ pc' = "show"
  /\ worker' = IF ok THEN "started" ELSE "none"
  /\ UNCHANGED <<speed, aeb, sent>>

Registered ==
  /\ worker = "started" /\ worker' = "registered"
  /\ UNCHANGED <<pc, speed, aeb, sent>>

SendCommand(cmd, value) ==
  /\ pc = "show"
  /\ sent' = Append(sent, <<cmd, value>>)
  /\ UNCHANGED <<pc, worker>>

OnDirection(d) == SendCommand(d, speed) /\ d \in 1 .. 9 /\ UNCHANGED <<speed, aeb>>
ToggleAeb ==
  /\ aeb' = ~aeb
  /\ SendCommand(160, IF aeb' THEN 1 ELSE 0)
  /\ UNCHANGED speed
TriggerAutopark == SendCommand(176, 1) /\ UNCHANGED <<speed, aeb>>

\* The slider sends nothing: the speed goes with the next direction.
OnSpeedChange(v) ==
  /\ pc = "show" /\ v \in 0 .. 100
  /\ speed' = v
  /\ UNCHANGED <<pc, worker, aeb, sent>>

\* closeEvent, and ~VsomeipClient: stop() and join().
Close ==
  /\ pc = "show" /\ pc' = "join"
  /\ UNCHANGED <<worker, speed, aeb, sent>>

WorkerStops ==
  /\ pc = "join" /\ worker \in {"started", "registered"}
  /\ worker' = "stopped"
  /\ UNCHANGED <<pc, speed, aeb, sent>>

Join ==
  /\ pc = "join" /\ pc' = "exited"
  /\ worker \in {"none", "stopped"}
  /\ UNCHANGED <<worker, speed, aeb, sent>>

Init == pc = "init" /\ worker = "none" /\ speed = 0 /\ aeb = FALSE /\ sent = <<>>

Click(directions) ==
  ToggleAeb \/ TriggerAutopark \/ \E d \in directions : OnDirection(d)
Alone == (\E ok \in BOOLEAN : Construct(ok)) \/ Registered \/ Close \/ WorkerStops \/ Join

=============================================================================
