-------------------------- MODULE StatusSubscriber --------------------------
(***************************************************************************)
(* client/veh_status_subscriber.cpp: main starts vsomeip's thread, which   *)
(* is detached and never stopped, and sleeps until a signal.  The thread   *)
(* requests the service, subscribes when it is available, and prints each  *)
(* event.                                                                  *)
(***************************************************************************)
EXTENDS Integers, Sequences

VARIABLES
  g_running,
  mpc,       \* main: "init", "sleep", "destroyed", "exited" or "crashed"
  app,       \* vsomeip's thread: "none", "started", "requested" or "subscribed"
  printed    \* log of the statuses printed

Junk == 0    \* what lies behind an event that is too short

InitFails ==
  /\ mpc = "init" /\ mpc' = "exited"
  /\ UNCHANGED <<g_running, app, printed>>

Start ==
  /\ mpc = "init" /\ mpc' = "sleep"
  /\ app' = "started"
  /\ UNCHANGED <<g_running, printed>>

\* start() returns, and so does main: the object is destroyed.
Return ==
  /\ mpc = "sleep" /\ mpc' = "destroyed"
  /\ ~g_running
  /\ UNCHANGED <<g_running, app, printed>>

Exit ==
  /\ mpc = "destroyed" /\ mpc' = "exited"
  /\ UNCHANGED <<g_running, app, printed>>

Signal ==
  /\ g_running /\ mpc \notin {"exited", "crashed"}
  /\ g_running' = FALSE
  /\ UNCHANGED <<mpc, app, printed>>

-----------------------------------------------------------------------------
(* vsomeip's thread *)

OnState ==
  /\ mpc = "sleep" /\ app = "started"
  /\ app' = "requested"
  /\ UNCHANGED <<g_running, mpc, printed>>

OnAvailability ==
  /\ mpc = "sleep" /\ app = "requested"
  /\ app' = "subscribed"
  /\ UNCHANGED <<g_running, mpc, printed>>

\* A distance is printed from three bytes, there or not.
Printed_FourBytes(value, kind, bytes) ==
  IF kind = "tof" /\ bytes < 5 THEN Junk ELSE value
Printed(value, kind, bytes) == IF kind = "tof" /\ bytes < 4 THEN Junk ELSE value
OnEvent(kind, value, bytes) ==
  /\ mpc = "sleep" /\ app = "subscribed"
  /\ bytes >= 2
  /\ printed' = Append(printed, [kind |-> kind, value |-> Printed(value, kind, bytes)])
  /\ UNCHANGED <<g_running, mpc, app>>

\* A handler uses the destroyed object: a crash, or no effect.
UseAfterDestruction ==
  /\ mpc = "destroyed" /\ mpc' = "crashed"
  /\ UNCHANGED <<g_running, app, printed>>

Init == g_running = TRUE /\ mpc = "init" /\ app = "none" /\ printed = <<>>

MainStep == InitFails \/ Start \/ Return \/ Exit

\* A signal ends the process.
SubscriberEnds == ~g_running ~> mpc \in {"exited", "crashed"}

=============================================================================
