---------------------------- MODULE MCUdsGateway ----------------------------
(***************************************************************************)
(* UdsGateway for TLC: a few sessions, messages and frames.  The CAN bus   *)
(* delivers any sequence of the frames below, whatever the gateway sends.  *)
(***************************************************************************)
EXTENDS UdsGateway

CONSTANTS MaxSessions, MaxMsgs, MaxFrames

VARIABLES sessions, frames

\* Two responses of the ECU: 101 is a single frame, 102 takes one CF.
MCNonStandard == {102}
MCFrames ==
  {SF(101), FF(102, 1), CF(102, 1, 1),
   FC("CTS", 1, 0), FC("CTS", 0, 0), FC("WAIT", 0, 0), FC("OVFLW", 0, 0)}

MCInit == Init /\ sessions = 0 /\ frames = 0

\* The last session is over and no other tester will come.
Rest ==
  /\ mpc = "accept" /\ sessions = MaxSessions
  /\ UNCHANGED <<vars, sessions, frames>>

MCNext ==
  \/ /\ Accept /\ sessions < MaxSessions
     /\ sessions' = sessions + 1 /\ UNCHANGED frames
  \/ (MainStep \/ ForwarderStep) /\ UNCHANGED <<sessions, frames>>
  \/ TesterStep /\ msgs' <= MaxMsgs /\ UNCHANGED <<sessions, frames>>
  \/ /\ frames < MaxFrames
     /\ \E f \in MCFrames : BusDelivers(f)
     /\ frames' = frames + 1 /\ UNCHANGED sessions
  \/ Rest

MCSpec == MCInit /\ [][MCNext]_<<vars, sessions, frames>>

=============================================================================
