--------------------------- MODULE MCUnifiedServer ---------------------------
(***************************************************************************)
(* UnifiedServer for TLC: a few requests and status frames.                *)
(***************************************************************************)
EXTENDS UnifiedServer

CONSTANTS MaxRequests, MaxFrames

\* The program has ended, or runs with nothing to do but wait for a signal.
Rest == mpc = "exit" /\ UNCHANGED vars

MCNext ==
  \/ MainStep \/ VsomeipStep \/ OfferServices \/ ListenerStep
  \/ EnvironmentStep /\ received' <= MaxRequests /\ heard' <= MaxFrames
  \/ Rest

MCSpec == Init /\ [][MCNext]_vars
MCFairSpec == MCSpec /\ Fairness

\* A command sent to a server that keeps running is answered.
Waiting(n) == \E i \in DOMAIN inbox : inbox[i].id = n /\ inbox[i].len >= 1
Answered(n) == \E i \in DOMAIN responses : responses[i].id = n
RequestServed ==
  \A n \in 1 .. MaxRequests : Waiting(n) ~> Answered(n) \/ ~g_running

\* A status frame in the socket of a server that keeps running becomes an event, if the
\* socket does not report errors for ever.
StatusWaiting(n) ==
  \E i \in DOMAIN can_rx : can_rx[i].id = n /\ Status!IsStatus(can_rx[i])
Published(n) == \E i \in DOMAIN events : events[i].id = n
StatusServed ==
  \A n \in 1 .. MaxFrames : StatusWaiting(n) ~> Published(n) \/ ~g_running

=============================================================================
