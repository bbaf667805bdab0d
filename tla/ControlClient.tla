---------------------------- MODULE ControlClient ----------------------------
(***************************************************************************)
(* client/veh_control_client.cpp: main sends one command of each kind,     *)
(* three seconds apart, and then waits for vsomeip's thread, which nobody  *)
(* stops: only a signal ends the program.                                  *)
(***************************************************************************)
EXTENDS Integers, Sequences

VARIABLES
  pc,        \* "init", "send", "join" or "exited"
  app,       \* vsomeip's thread: "none", "started" or "registered"
  sent       \* log of the payloads sent

\* DRIVE_DIRECTION forward, DRIVE_SPEED, AEB_CONTROL on, AUTOPARK_CONTROL start,
\* AUTH_PASSWORD "1234", FAULT_EMERGENCY: the command type and its value.
Script_LongPassword ==
  << <<1, 8>>, <<2, 70>>, <<3, 1>>, <<4, 1>>, <<5, 49, 50, 51, 52, 53, 54, 55, 56>>,
     <<254, 1>> >>
Script == << <<1, 8>>, <<2, 70>>, <<3, 1>>, <<4, 1>>, <<5, 49, 50, 51, 52>>, <<254, 1>> >>

InitFails ==
  /\ pc = "init" /\ pc' = "exited"
  /\ UNCHANGED <<app, sent>>

Start ==
  /\ pc = "init" /\ pc' = "send"
  /\ app' = "started"
  /\ UNCHANGED sent

Registered ==
  /\ app = "started" /\ app' = "registered"
  /\ pc # "exited"
  /\ UNCHANGED <<pc, sent>>

SendCommand ==
  /\ pc = "send"
  /\ sent' = Append(sent, Script[Len(sent) + 1])
  /\ pc' = IF Len(sent') = Len(Script) THEN "join" ELSE "send"
  /\ UNCHANGED app

Signal ==
  /\ pc # "exited" /\ pc' = "exited"
  /\ UNCHANGED <<app, sent>>

Init == pc = "init" /\ app = "none" /\ sent = <<>>

=============================================================================
