------------------------------- MODULE VehCli -------------------------------
(***************************************************************************)
(* client/veh_cli.cpp: reads a command type in hexadecimal, for two of     *)
(* them a value, and sends the command, for ever.  A number is cut to a    *)
(* byte.  std::stoi throws where there is no number, which nobody catches. *)
(*                                                                         *)
(* What the user types is a number, NotANumber, or Eof.                   *)
(***************************************************************************)
EXTENDS Integers, Sequences

CONSTANTS NotANumber, Eof  \* a word, and the end of the input

VARIABLES
  pc,        \* "init", "type", "direction", "speed", "exited" or "aborted"
  app,       \* vsomeip's thread: "none", "started" or "registered"
  cin_good,  \* std::cin has not failed
  cmd_type,  \* the command being put together
  sent       \* log of the payloads sent

Byte(n) == n % 256
Terminate == pc' = "aborted" /\ UNCHANGED <<app, cin_good, cmd_type, sent>>
Send(payload) == sent' = Append(sent, payload) /\ pc' = "type"

InitFails ==
  /\ pc = "init" /\ pc' = "exited"
  /\ UNCHANGED <<app, cin_good, cmd_type, sent>>

Start ==
  /\ pc = "init" /\ pc' = "type"
  /\ app' = "started"
  /\ UNCHANGED <<cin_good, cmd_type, sent>>

Registered ==
  /\ app = "started" /\ app' = "registered"
  /\ pc \notin {"exited", "aborted"}
  /\ UNCHANGED <<pc, cin_good, cmd_type, sent>>

\* A failed stream reads as an empty string.
NoNumber(input) == ~cin_good \/ input \in {NotANumber, Eof}

ReadType(input) ==
  /\ pc = "type"
  /\ \/ NoNumber(input) /\ Terminate
     \/ /\ ~NoNumber(input)
        /\ cmd_type' = Byte(input)
        /\ \/ cmd_type' = 1 /\ pc' = "direction" /\ UNCHANGED sent
           \/ cmd_type' = 2 /\ pc' = "speed" /\ UNCHANGED sent
           \/ cmd_type' \notin {1, 2} /\ Send(<<cmd_type'>>)
        /\ UNCHANGED <<app, cin_good>>

ReadDirection(input) ==
  /\ pc = "direction"
  /\ \/ NoNumber(input) /\ Terminate
     \/ /\ ~NoNumber(input)
        /\ Send(<<cmd_type, Byte(input)>>)
        /\ UNCHANGED <<app, cin_good, cmd_type>>

\* std::cin >> s stores 0 for a word; at the end of the input it stores nothing,
\* and s is uninitialised.
ReadSpeed(input) ==
  /\ pc = "speed"
  /\ cin_good' = (input \notin {NotANumber, Eof})
  /\ \/ cin_good' /\ Send(<<cmd_type, Byte(input)>>)
     \/ input = NotANumber /\ Send(<<cmd_type, 0>>)
     \/ input = Eof /\ \E s \in {0, 255} : Send(<<cmd_type, s>>)
  /\ UNCHANGED <<app, cmd_type>>

Read(input) == ReadType(input) \/ ReadDirection(input) \/ ReadSpeed(input)

Signal ==
  /\ pc \notin {"exited", "aborted"} /\ pc' = "exited"
  /\ UNCHANGED <<app, cin_good, cmd_type, sent>>

Init ==
  /\ pc = "init" /\ app = "none" /\ cin_good = TRUE /\ cmd_type = 0 /\ sent = <<>>

=============================================================================
