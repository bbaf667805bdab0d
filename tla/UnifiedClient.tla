---------------------------- MODULE UnifiedClient ----------------------------
(***************************************************************************)
(* client/veh_unified_client.cpp, its commands.  Three threads:            *)
(*                                                                         *)
(*   main      init, starts the console, sleeps until g_running is down,   *)
(*             then waits for the console and returns;                     *)
(*   console   VehUnifiedClient::start: reads numbers from std::cin and    *)
(*             sends a command for each, until it reads 6;                 *)
(*   vsomeip   detached and never joined: its handlers use the client and  *)
(*             the logger, destroyed or not.                               *)
(*                                                                         *)
(* A line is a number or NotANumber.  A word, or the end of the            *)
(* input, fails the stream for good: std::cin >> cmd then leaves cmd as it *)
(* is, uninitialised, and the loop goes on with whatever it holds.         *)
(***************************************************************************)
EXTENDS Integers, Sequences

CONSTANTS
  Numbers,     \* what the user may type; cmd may hold these, or 0
  NotANumber   \* what a word is read as

VARIABLES
  g_running,
  process,     \* "running", "exited" or "crashed"
  mpc, kpc,    \* where main and the console are
  detached,    \* has vsomeip's thread been started?
  requested,   \* has it requested the services (ST_REGISTERED)?
  typed,       \* log of the lines the user typed
  lines,       \* how many of them the console has read
  cin,         \* std::cin: "good", "ended" by the user, "failed"
  cmd,         \* the command being sent
  sent,        \* log of the commands sent
  in_time      \* how many of them while g_running was up

IsCommand(c) == c \in 1 .. 5

Running == process = "running"
Console(from, to) == Running /\ kpc = from /\ kpc' = to

-----------------------------------------------------------------------------
(* main *)

InitFails ==
  /\ Running /\ mpc = "init"
  /\ process' = "exited"
  /\ UNCHANGED <<g_running, mpc, kpc, detached, requested, typed, lines, cin,
                 cmd, sent, in_time>>

StartConsole ==
  /\ Running /\ mpc = "init" /\ mpc' = "sleep"
  /\ kpc' = "start"
  /\ UNCHANGED <<g_running, process, detached, requested, typed, lines, cin, cmd,
                 sent, in_time>>

WakeUp ==
  /\ Running /\ mpc = "sleep" /\ mpc' = "join"
  /\ ~g_running
  /\ UNCHANGED <<g_running, process, kpc, detached, requested, typed, lines, cin,
                 cmd, sent, in_time>>

\* app_thread.join() returns, and the client is destroyed.
Join ==
  /\ Running /\ mpc = "join" /\ mpc' = "destroyed"
  /\ kpc = "done"
  /\ UNCHANGED <<g_running, process, kpc, detached, requested, typed, lines, cin,
                 cmd, sent, in_time>>

Exit ==
  /\ Running /\ mpc = "destroyed"
  /\ process' = "exited"
  /\ UNCHANGED <<g_running, mpc, kpc, detached, requested, typed, lines, cin,
                 cmd, sent, in_time>>

-----------------------------------------------------------------------------
(* console *)

Detach ==
  /\ Console("start", "loop")
  /\ detached' = TRUE
  /\ UNCHANGED <<g_running, process, mpc, requested, typed, lines, cin, cmd, sent,
                 in_time>>

WhileRunning_Forever == "read"
WhileRunning == IF g_running THEN "read" ELSE "stop"
ConsoleLoop ==
  /\ Console("loop", WhileRunning)
  /\ UNCHANGED <<g_running, process, mpc, detached, requested, typed, lines, cin,
                 cmd, sent, in_time>>

\* What the loop does with a number: exit, send, or neither.
Obey(c) ==
  /\ cmd' = IF IsCommand(c) THEN c ELSE 0
  /\ g_running' = (g_running /\ c # 6)
  /\ Console("read", CASE c = 6 -> "stop" [] IsCommand(c) -> "send" [] OTHER -> "loop")
  /\ UNCHANGED <<process, mpc, detached, requested, typed, sent, in_time>>

ReadNumber ==
  /\ cin # "failed" /\ lines < Len(typed)
  /\ typed[lines + 1] \in Numbers
  /\ lines' = lines + 1
  /\ Obey(typed[lines + 1])
  /\ UNCHANGED cin

\* The extraction itself fails and stores 0.
ReadWord ==
  /\ cin # "failed" /\ lines < Len(typed)
  /\ typed[lines + 1] = NotANumber
  /\ lines' = lines + 1 /\ cin' = "failed"
  /\ Obey(0)

\* Nothing is stored: cmd holds anything.
ReadNothing ==
  /\ cin = "failed" \/ (cin = "ended" /\ lines = Len(typed))
  /\ cin' = "failed"
  /\ \E c \in Numbers \cup {0} : Obey(c)
  /\ UNCHANGED lines

\* The switch: DRIVE_DIRECTION forward, backward and stop, AEB_CONTROL on,
\* AUTOPARK_CONTROL start.
Payload == << <<1, 8>>, <<1, 2>>, <<1, 5>>, <<3, 1>>, <<4, 1>> >>
EndCase_FallsThrough ==
  IF cmd < 5 THEN kpc' = "send" /\ cmd' = cmd + 1 ELSE kpc' = "loop" /\ cmd' = 0
EndCase == kpc' = "loop" /\ cmd' = 0
SendCommand ==
  /\ Running /\ kpc = "send"
  /\ sent' = Append(sent, Payload[cmd])
  /\ in_time' = IF g_running THEN Len(sent') ELSE in_time
  /\ EndCase
  /\ UNCHANGED <<g_running, process, mpc, detached, requested, typed, lines, cin>>

StopApp ==
  /\ Console("stop", "done")
  /\ UNCHANGED <<g_running, process, mpc, detached, requested, typed, lines, cin,
                 cmd, sent, in_time>>

-----------------------------------------------------------------------------
(* vsomeip's thread, the user *)

Registered ==
  /\ Running /\ detached /\ kpc # "done"
  /\ requested' = TRUE
  /\ UNCHANGED <<g_running, process, mpc, kpc, detached, typed, lines, cin, cmd,
                 sent, in_time>>

\* The lambda of the detached thread, or a handler, runs only now: anything, of
\* which a crash and no effect stand here.
UseAfterDestruction ==
  /\ Running /\ detached /\ mpc = "destroyed"
  /\ process' = "crashed"
  /\ UNCHANGED <<g_running, mpc, kpc, detached, requested, typed, lines, cin, cmd,
                 sent, in_time>>

Signal ==
  /\ Running /\ g_running
  /\ g_running' = FALSE
  /\ UNCHANGED <<process, mpc, kpc, detached, requested, typed, lines, cin, cmd,
                 sent, in_time>>

UserTypes(line) ==
  /\ Running /\ cin = "good"
  /\ typed' = Append(typed, line)
  /\ UNCHANGED <<g_running, process, mpc, kpc, detached, requested, lines, cin, cmd,
                 sent, in_time>>

UserEndsInput ==
  /\ Running /\ cin = "good" /\ cin' = "ended"
  /\ UNCHANGED <<g_running, process, mpc, kpc, detached, requested, typed, lines,
                 cmd, sent, in_time>>

Init ==
  /\ g_running = TRUE /\ process = "running"
  /\ mpc = "init" /\ kpc = "none"
  /\ detached = FALSE /\ requested = FALSE
  /\ typed = <<>> /\ lines = 0 /\ cin = "good"
  /\ cmd = 0 /\ sent = <<>> /\ in_time = 0

MainStep == InitFails \/ StartConsole \/ WakeUp \/ Join \/ Exit
ConsoleStep ==
  Detach \/ ConsoleLoop \/ ReadNumber \/ ReadWord \/ ReadNothing \/ StopApp

-----------------------------------------------------------------------------
(* Properties *)

TypeOK ==
  /\ g_running \in BOOLEAN /\ process \in {"running", "exited", "crashed"}
  /\ mpc \in {"init", "sleep", "join", "destroyed"}
  /\ kpc \in {"none", "start", "loop", "read", "send", "stop", "done"}
  /\ detached \in BOOLEAN /\ requested \in BOOLEAN
  /\ typed \in Seq(Numbers \cup {NotANumber}) /\ lines \in 0 .. Len(typed)
  /\ cin \in {"good", "ended", "failed"}
  /\ cmd \in 0 .. 5 /\ sent \in Seq(Seq(0 .. 255)) /\ in_time \in 0 .. Len(sent)

\* What the user ordered so far, by line.
Ordered ==
  [i \in {n \in DOMAIN typed : IsCommand(typed[n])} |-> Payload[typed[i]]]

\* Once g_running is down, by a signal or by 6, one more command goes out at most:
\* the one whose line the console was waiting for.
OneAfterSignal == Len(sent) <= in_time + 1

\* Once g_running is down the process ends, unless the console is blocked in
\* std::cin, where nothing wakes it until the user types a line.
Blocked == kpc = "read" /\ cin = "good" /\ lines = Len(typed)
ClientEnds == ~g_running ~> ~Running \/ Blocked

=============================================================================
