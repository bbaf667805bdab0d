------------------------------ MODULE QtClient ------------------------------
(***************************************************************************)
(* gui_client: the window (MainWindow) and its vsomeip client              *)
(* (VsClientThread).  Three threads:                                       *)
(*                                                                         *)
(*   gui       Qt's event loop: the user's clicks, which send commands     *)
(*             themselves, and the signals queued for the window; when the *)
(*             window is closed it waits for the QThread, and destroys     *)
(*             both objects;                                               *)
(*   QThread   VsClientThread::run: makes the application, has it started, *)
(*             and stops it once it is told to end;                        *)
(*   vsomeip   detached and never joined: its handlers emit signals, which *)
(*             are queued for the gui.                                     *)
(*                                                                         *)
(* A signal is a status [kind, value]; those for the log are left out.     *)
(***************************************************************************)
EXTENDS Integers, Sequences

VARIABLES
  gui,          \* "show", "slide", "wait", "delete", "ended" or "crashed"
  qpc,          \* the QThread: "init", "start", "loop", "stop" or "done"
  app,          \* app_: "null", "failed" to initialise, or "ready"
  vs,           \* vsomeip's thread: "none", "lambda", "started", "registered"
                \* or "stopped"
  running_, interrupted,
  handling,     \* the signal onEvent is about to emit, if any
  queue,        \* the signals queued for the window
  shown,        \* log of what the labels showed
  slider,       \* the position of the speed slider
  sent          \* log of the payloads sent

ui_vars == <<shown, slider, sent>>
thread_vars == <<qpc, app, vs, running_, interrupted>>
Alive == gui \notin {"ended", "crashed"}
Crash == gui' = "crashed" /\ UNCHANGED <<thread_vars, handling, queue, ui_vars>>

-----------------------------------------------------------------------------
(* VsClientThread::run *)

InitVsomeip(result) ==
  /\ Alive /\ qpc = "init" /\ qpc' = "start"
  /\ result \in {"null", "failed", "ready"}
  /\ app' = result
  /\ running_' = (running_ /\ result = "ready")
  /\ UNCHANGED <<gui, vs, interrupted, handling, queue, ui_vars>>

\* Whether or not the initialisation failed.
StartVsomeip ==
  /\ Alive /\ qpc = "start" /\ qpc' = "loop"
  /\ vs' = "lambda"
  /\ UNCHANGED <<gui, app, running_, interrupted, handling, queue, ui_vars>>

LoopEnds_Running == ~running_
LoopEnds == ~running_ \/ interrupted
RunLoop ==
  /\ Alive /\ qpc = "loop" /\ qpc' = "stop"
  /\ LoopEnds
  /\ UNCHANGED <<gui, app, vs, running_, interrupted, handling, queue, ui_vars>>

StopVsomeip ==
  /\ Alive /\ qpc = "stop" /\ qpc' = "done"
  /\ vs' = IF app # "null" /\ vs # "lambda" THEN "stopped" ELSE vs
  /\ UNCHANGED <<gui, app, running_, interrupted, handling, queue, ui_vars>>

-----------------------------------------------------------------------------
(* vsomeip's thread *)

\* app_->start(), on a null app_ a crash, on one not initialised nothing.  After
\* stop() it may or may not run.
AppStart ==
  /\ Alive /\ gui # "delete" /\ vs = "lambda"
  /\ \/ app = "null" /\ Crash
     \/ /\ \/ app = "ready" /\ vs' = "started"
           \/ (app = "failed" \/ qpc = "done") /\ app # "null" /\ vs' = "stopped"
        /\ UNCHANGED <<gui, qpc, app, running_, interrupted, handling, queue, ui_vars>>

\* ST_REGISTERED: the services are requested, the events subscribed to.
Registered ==
  /\ Alive /\ gui # "delete" /\ vs = "started"
  /\ vs' = "registered"
  /\ UNCHANGED <<gui, qpc, app, running_, interrupted, handling, queue, ui_vars>>

\* onEvent: of a distance all three bytes of the value are needed.
Decodes(kind, bytes) == bytes >= IF kind = "tof" THEN 4 ELSE 2
OnEvent(kind, value, bytes) ==
  /\ Alive /\ gui # "delete" /\ vs = "registered" /\ handling = <<>>
  /\ handling' = IF Decodes(kind, bytes) THEN <<[kind |-> kind, value |-> value]>>
                 ELSE <<>>
  /\ UNCHANGED <<gui, thread_vars, queue, ui_vars>>

Emit ==
  /\ Alive /\ gui # "delete" /\ handling # <<>>
  /\ handling' = <<>>
  /\ queue' = queue \o handling
  /\ UNCHANGED <<gui, thread_vars, ui_vars>>

\* The thread, or a handler stop() found at work, uses the destroyed object:
\* anything, of which a crash and no effect stand here.
UseAfterDestruction ==
  /\ gui = "delete"
  /\ vs \in {"lambda", "started", "registered"} \/ handling # <<>>
  /\ Crash

-----------------------------------------------------------------------------
(* The window *)

\* onAebState, onAutoparkState, onTof, onAuth: the next signal's label.
HandleSignal ==
  /\ gui = "show" /\ queue # <<>>
  /\ queue' = Tail(queue)
  /\ shown' = Append(shown, Head(queue))
  /\ UNCHANGED <<gui, thread_vars, handling, slider, sent>>

SendCommand(payload) ==
  sent' = IF app = "null" THEN sent ELSE Append(sent, payload)

\* A direction, AEB on and off, the start of parking; a password, if any.
Buttons == {<<1, d>> : d \in 1 .. 9} \cup {<<3, 1>>, <<3, 0>>, <<4, 1>>}
Press(payload) ==
  /\ gui = "show"
  /\ payload \in Buttons \/ (payload[1] = 5 /\ Len(payload) > 1)
  /\ SendCommand(payload)
  /\ UNCHANGED <<gui, thread_vars, handling, queue, shown, slider>>

\* onSpeedChanged: setting the slider to the step calls it once more, for the step,
\* unless the slider is there.
Step(v) == (v \div 10) * 10
Speed(position) == <<2, position \div 10>>
MoveSlider(v) ==
  /\ gui = "show" /\ gui' = IF Step(v) = v THEN "show" ELSE "slide"
  /\ v # slider /\ v \in 0 .. 1000
  /\ slider' = Step(v)
  /\ SendCommand(Speed(Step(v)))
  /\ UNCHANGED <<thread_vars, handling, queue, shown>>

SendAgain ==
  /\ gui = "slide" /\ gui' = "show"
  /\ SendCommand(Speed(slider))
  /\ UNCHANGED <<thread_vars, handling, queue, shown, slider>>

\* ~MainWindow.
CloseWindow ==
  /\ gui = "show" /\ gui' = "wait"
  /\ interrupted' = TRUE
  /\ UNCHANGED <<qpc, app, vs, running_, handling, queue, ui_vars>>

Wait ==
  /\ gui = "wait" /\ gui' = "delete"
  /\ qpc = "done"
  /\ UNCHANGED <<thread_vars, handling, queue, ui_vars>>

Exit ==
  /\ gui = "delete" /\ gui' = "ended"
  /\ UNCHANGED <<thread_vars, handling, queue, ui_vars>>

Init ==
  /\ gui = "show" /\ qpc = "init" /\ app = "null" /\ vs = "none"
  /\ running_ = TRUE /\ interrupted = FALSE
  /\ handling = <<>> /\ queue = <<>> /\ shown = <<>>
  /\ slider = 0 /\ sent = <<>>

ThreadStep ==
  \/ \E result \in {"null", "failed", "ready"} : InitVsomeip(result)
  \/ StartVsomeip \/ RunLoop \/ StopVsomeip
VsomeipStep == AppStart \/ Registered \/ Emit \/ UseAfterDestruction
WindowStep == HandleSignal \/ Wait \/ Exit

-----------------------------------------------------------------------------
(* Properties *)

TypeOK ==
  /\ gui \in {"show", "slide", "wait", "delete", "ended", "crashed"}
  /\ qpc \in {"init", "start", "loop", "stop", "done"}
  /\ app \in {"null", "failed", "ready"}
  /\ vs \in {"none", "lambda", "started", "registered", "stopped"}
  /\ running_ \in BOOLEAN /\ interrupted \in BOOLEAN
  /\ handling \in Seq([kind : {"tof", "status"}, value : Nat]) /\ Len(handling) <= 1
  /\ queue \in Seq([kind : {"tof", "status"}, value : Nat])
  /\ shown \in Seq([kind : {"tof", "status"}, value : Nat])
  /\ slider \in 0 .. 1000 /\ sent \in Seq(Seq(0 .. 255))

\* Closing the window ends the process, whatever the threads are at: the QThread is
\* told by the interruption alone, and may not have begun.
WindowCloses == gui = "wait" ~> ~Alive

=============================================================================
