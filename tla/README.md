# Verification of project_synapse

TLA+ models of the programs of project_synapse that sit between a network and
the CAN bus, the TLC runs that check them on small instances, and proofs, checked
by TLAPS, of what matters most for every value of the constants.

Paths are relative to the repository. `tlc -config X.cfg M` runs a
configuration, `tlapm M.tla` checks a proof module.


## The system

A Raspberry Pi stands between Ethernet and a CAN bus with one ECU, an AURIX
TC375. Two independent subsystems share the bus.

**Diagnostics.** `uds_gateway.cpp`: a DoIP tester connects by TCP; its UDS
requests go to the ECU as ISO-TP over CAN, and the ECU's responses come back.

**Vehicle services.** vsomeip (SOME/IP) servers offer two services. A request of
`veh_control_service` becomes one CAN frame; a CAN status frame (0x310) becomes one
event of `veh_status_service`. `veh_unified_server` offers both;
`veh_control_server` and `veh_status_publisher` offer one each. Clients: four console
programs, a Qt window, a Python window over a pybind module.

| component | state | operations | talks to |
|---|---|---|---|
| UDS gateway, main thread | the session's sockets, `session_active`, the DoIP message at hand, the ISO-TP transfer | accept, read a DoIP message, acknowledge, `isotp_send`, tear down | tester (TCP), CAN, `fc_frame_queue` |
| UDS gateway, forwarder thread | reassembly buffer, expected sequence number | read a CAN frame, queue Flow Control, reassemble, write a response | CAN, `fc_frame_queue`, tester under `client_socket_mutex` |
| Unified server | `g_running`, the two CAN sockets, the offered services | start, `on_control_request`, `can_listener_loop`, shutdown | vsomeip, CAN, signals |
| Control server, CAN interface | `sock_fd_` | `on_request`, `veh_can_send`, `init`, `sendFrame` | vsomeip, CAN |
| Status publisher | `g_running`, `pub_thread_` | `on_state`, `publish_loop`, return from main | vsomeip, CAN, signals |
| Unified client | `g_running`, what `std::cin` holds, `cmd` | read a number, send its command, end on 6 or a signal | vsomeip, the user, signals |
| Control client, `veh_cli` | the command being put together | send a script of six; read a command and send it | vsomeip, the user |
| Status subscriber | `g_running` | request, subscribe, print an event | vsomeip, signals |
| Qt client | window and slider, `app_`, `running_`, the queue of signals | start and stop vsomeip from a QThread, send commands, show events | vsomeip, the user |
| Python window and bindings | `speed`, `aeb`, the worker thread | construct, send commands, close | vsomeip, the user |
| Logger, constants, configuration | a file and its mutex | write a line | everyone |

What is hard in it:

- the gateway's two threads share a TCP socket, a CAN socket and a Flow Control
  queue that outlives transfers and sessions; both read the CAN bus's answers, one
  of them from inside the reassembly of a response;
- ISO-TP is a protocol with losses, timeouts, block sizes and a wrapping number;
- sessions end from either side, at any point of either thread;
- the servers shut down on a signal while handlers of vsomeip's thread and a CAN
  thread run; registration with the routing manager comes when it likes, again;
- `can0` comes and goes, and sockets stay behind;
- lengths: TCP cuts the stream where it likes, ISO-TP has twelve bits for a length,
  seven bytes a frame and a byte for a block size, and `can_dlc` may be anything;
- every client detaches a vsomeip thread that outlives the objects its handlers use,
  or waits for one that does not end;
- a request may be dropped between client and server without a word; an event is
  decoded by code that did not see how it was encoded.

What makes each part correct:

- *gateway*: one writer to the tester at a time; no use of a closed socket; the
  acknowledgement before the request's frames and before its response; segments in
  order, in granted blocks; responses whole, in order and once; sessions end;
  requests are answered on a bus that loses nothing (as long as nothing else is
  reassembled meanwhile);
- *servers*: commands carried out and answered in order, one frame each; status
  frames published in order, one event each; no handler uses a socket main has
  closed; a signal ends the process;
- *CAN interface*: one descriptor; usable again once `can0` is there (it is not);
- *lengths*: messages of every size come through with their own bytes and no others;
- *clients*: what gets to the bus is what was sent, and what was sent is what was
  ordered, in that order (of some clients, with exceptions); what is shown is what was
  published, never an older status after a newer;
  a user can end every client.


## The modules

| module | what it is | code |
|---|---|---|
| `UdsGateway` | the gateway's two threads, against any tester and any bus | `uds_gateway.cpp` |
| `MCUdsGateway` | its bounds for TLC | |
| `GatewaySystem` | `UdsGateway` with an ECU that follows ISO 15765-2, a bus that may lose frames, and bounds | `uds_gateway.cpp`; the ECU is external |
| `DoipStream` | how the gateway cuts the TCP stream into messages | `uds_gateway.cpp` |
| `IsoTp` | ISO-TP sender and receiver, with the code's sizes and widths | `uds_gateway.cpp` |
| `GatewayBytes` | both, with a tester's stream and an ECU that counts bytes | the ECU is external |
| `CommandService` | abstract: what a client of `veh_control_service` is promised | what both servers have in common |
| `StatusService` | abstract: what a subscriber of `veh_status_service` is promised | what both servers have in common |
| `UnifiedServer` | three threads, from init to exit | `server/veh_unified_server.cpp` |
| `MCUnifiedServer` | its bounds, and the two services' liveness | |
| `ControlServer` | from init to exit or crash, and the CAN interface, while `can0` comes and goes | `server/veh_control_server.cpp`, `server/veh_can_tx.cpp` |
| `StatusPublisher` | three threads and `pub_thread_`, to exit or `std::terminate` | `server/veh_status_publisher.cpp` |
| `UnifiedClient` | main, console and vsomeip thread | `client/veh_unified_client.cpp` |
| `ControlClient` | its script | `client/veh_control_client.cpp` |
| `VehCli` | its console loop | `client/veh_cli.cpp` |
| `PyClient` | window, and the binding's worker | `client/veh_gui.py`, `bindings/synapse_vsomeip.cpp` |
| `QtClient` | window, QThread and vsomeip thread | `gui_client/mainwindow.cpp`, `gui_client/vsclientthread.cpp` |
| `StatusSubscriber` | main and vsomeip thread | `client/veh_status_subscriber.cpp` |
| `ControlPath` | `ControlServer` with each client that sends commands | vsomeip is external |
| `StatusPath` | `StatusPublisher` with each client that shows events | vsomeip is external |
| `UdsGatewayProofs`, `GatewaySystemProofs`, `GatewayBytesProofs`, `CommandServiceProofs`, `StatusServiceProofs`, `UnifiedServerProofs` | the proofs about the module of their name | |
| `ControlPathProofs`, `StatusPathProofs` | the proofs about a path, and about the server in it | |

Definitions named `X_Something` beside a definition `X` are variants of it with a
plausible mistake. No specification uses them; put in the place of `X` they show
which property notices.

### UdsGateway

Program counters stand for places in the code.

| `mpc` (main) | code | `fpc` (forwarder) | code |
|---|---|---|---|
| `accept` | accept() | `none` | no thread |
| `setup` | `setup_can_socket` | `loop` | `while (session_active)` |
| `loop` | `while (session_active)` | `read` | blocking in read(), two seconds at most |
| `recv` | reading header and payload | `cfs` | `isotp_handle_multi_frame`'s loop |
| `routing`, `routing_w` | before, and inside, the write of 0x0006 | `resp` | before the lock of the response |
| `ack`, `ack_w` | before, and inside, the write of 0x8002 | `resp_w` | inside the write |
| `send` | `isotp_send` | `done` | the thread has returned |
| `wait_fc` | `wait_for_flow_control` | | |
| `block` | the loop over a block's consecutive frames | | |
| `teardown`, `join` | after the loop: flag, join(), close() | | |

A write to the tester is two steps, in and out, so that two writers can overlap
unless the mutex keeps them apart. One CAN read or write is one step: a frame is
atomic in the kernel. `fc_frame_queue` is global as in the code: nothing empties it
when a transfer or a session ends. Timeouts are untimed; they may strike whenever
what they wait for is not there.

A tester may close the connection or reset it; a connection closed may turn out reset
later. A reset one refuses every write. The forwarder notices (`FwdWriteFails`) and ends
the session; main ignores the result (`EndReply`) and goes on to `isotp_send`. In
`to_tester`, the log of what was written, a refused 0x0006 or 0x8002 leaves an entry
"refused" with the message's number, so that a property can tell a request whose
acknowledgement was tried from one whose was not.

Data: a message is a number, its bytes are chunks `<<message, k>>`, k = 0 for what
the single or first frame carries. So a property can tell a message in pieces, or
mixed of two, from a whole one. Lengths are counted in consecutive frames. The
sequence nibble's modulus and the 4095 frames of BS = 0 are constants. A Flow
Control frame carries, for properties only, the message it was meant for.

`GatewaySystem` keeps this as it is and adds the other side: the ECU receives the
gateway's log of frames in order, answers First Frames by clear-to-send, wait or
overflow, takes only the next number within a granted block, answers each whole
request, sends periodic messages too, and sends a long message only after its Flow
Control. Request m is answered by message 2m, the n-th periodic one is message 2n+1, so that
numbers tell messages apart. `setting` is chosen once, among `Settings`. Except in a "late" one
(`Punctual`), a timeout strikes only when nothing more will come, that is, the peer is
always in time. In a "quiet" one there is one session, nothing is lost or refused, the
tester waits for a response before its next request, and what the ECU sends unasked is a
single frame: the reassembly of a longer unasked message swallows the Flow Control frame
of a request sent meanwhile, just as that of a response does with a pipelined request.
"busy" is none of these. `MaxPeriodic` bounds the unasked messages, `MaxQuietPeriodic`
those in a quiet setting.

### DoipStream, IsoTp, GatewayBytes

`UdsGateway` counts in frames; these count in bytes. `phase` follows main through
`handle_doip_session`: "header", "payload", "dispatch", "send", then "transfer" while
`isotp_send` waits for Flow Control or sends a block. Only the message at the front of
the stream matters: `here` of its
bytes have arrived and `got` were read. `sending` and `receiving` say where
`isotp_send` and the forwarder are; the locals of the code (`bytes_sent`, `seq_num`, what
is left of the block; `total_size`, `uds_rx_buffer`, `expected_seq_num`) are variables
that are reset where the function returns. Bytes are not values but positions: a frame
carries the bytes from `from` on, and a buffer is a count and whether these
are, so far, the message's first bytes in order. So `RequestWhole` and `ResponseWhole` notice a
byte left out, sent twice or taken from the padding, and a message of 4095
bytes costs TLC a state a frame, not a byte.

`IsoTp` has every way out of `isotp_send`: a single frame's write fails, and it
returns false; the first frame's fails, which nobody looks at; Flow Control comes with
clear-to-send, WAIT (waited for again) or OVERFLOW (given up), or not within two
seconds (given up); a consecutive frame's write fails (given up). `frame` is what the last
write put on the bus, or `NoFrame`. `fc_frame_queue` outlives the transfer. For the
properties, `asked` is the log of which of the messages taken main began to send, and
`succeeded` of those for which `isotp_send` returned true.

`GatewayBytes` shows either requests or responses in a behaviour: the two
directions share no counter. Its ECU keeps to ISO 15765-2 but for runts, frames of
one byte. On the way of the requests, a write that fails, a Flow Control frame that is
lost or says OVERFLOW, and a timeout although one is still to come (then `late` holds from
there on) count as mishaps; WAITs are counted by themselves. A frame once
written arrives: those that do not are `GatewaySystem`'s. One bound is on the ECU: it
sends a Flow Control frame when main has taken the last one, so that the queue holds one
at most. The late one is still there for the next transfer.

### The servers

`UnifiedServer`: `mpc` is main's (init, start, the sleeping loop, the steps of
`shutdown`), `vpc` vsomeip's thread (`dispatch` between handlers; `write` and
`respond` inside `on_control_request`), `cpc` the CAN listener. vsomeip is external:
it calls one handler at a time, none after `stop()`, and `start()` returns after
`stop()` once no handler runs. ST_REGISTERED may come at any time before
`stop()`, and again. Requests may arrive while the control service is on offer. The
logs `commands`, `responses`, `events` record calls of write(), `send()` and
`notify()`; what vsomeip does with them is not modelled.

`ControlServer` is one thread: init, offer at each registration, handlers, exit.
`sock_fd` is "none", "unbound" (after `socket()` succeeded and ioctl or bind failed, or
after the device went away under a bound socket, as Linux's raw CAN sockets do) or
"bound". `descriptors` counts what the process holds. A command of more than eight bytes
is copied past the end of `CanFrame::data`; of what that may do, a crash and a refused
write are in the model.

`StatusPublisher`: `process` may become "aborted", where the code assigns to, or
destroys, a joinable `std::thread`. `joinable` is `pub_thread_`'s. A registration
that comes when the object is already destroyed is undefined behaviour: a crash or
no effect.

`CommandService` and `StatusService` are the abstract specifications: a queue of
what was received, served from the head. A command is tried on the bus at most once
and answered after that; an empty one is dropped. An answer does not say whether the
frame was sent: that is what the code does, and the reason for `ok_without_command`
below. Both servers implement `CommandService`, `UnifiedServer` and
`StatusPublisher` implement `StatusService`; the refinement mapping puts the item in
the handler's hands back in front of the queue:

    pending  <- IF vpc \in {"write", "respond"} THEN <<req>> \o inbox ELSE inbox
    buffered <- IF cpc = "publish" THEN <<frame>> \o can_rx ELSE can_rx


### The clients and the paths

A client's `sent` is the log of what it gave to `app_->send`, as payloads: a command
type and its value, in bytes. `origin` is the log of those that reached the server. What
the user did is a log of its own: `typed` of the unified client, `vtyped` of `veh_cli`
(with what it had asked for), `qorders` of the Qt window (buttons, and where the slider
was let go, as the speed this stands for); `Ordered` reads from these, and from the control client's script, which
commands the user ordered, without asking what the client made of it.

| module | state and actions |
|---|---|
| `UnifiedClient` | `mpc` main, `kpc` the console (`loop` is the test of `g_running`, `read` the extraction, `send` the switch). `typed`, `lines` and `cin` stand for `std::cin`: a word or the end of the input fails it for good, and then `cmd` holds anything (`ReadNothing`). |
| `ControlClient` | the six commands of main, then a `join()` nobody ends. |
| `VehCli` | `type`, then `direction` or `speed`, as the code asks. A number is cut to a byte; `std::stoi` without a number throws, which ends the process. |
| `PyClient` | clicks and slider; `worker` is the binding's thread. Constructing it with a failed init is legal. |
| `QtClient` | `gui` the window (`slide` while the slider calls itself again), `qpc` the QThread, `vs` the detached thread (`lambda` before `app_->start()`). `handling` is the signal a handler is about to emit, `queue` what Qt has queued for the window, `shown` what the labels showed. |
| `StatusSubscriber` | `app` goes from `started` to `requested` to `subscribed`; `printed` is what was printed. |

Objects destroyed while a detached thread may still use them are a step
`UseAfterDestruction`, undefined behaviour: a crash, or nothing.

`ControlPath` runs the control server with the clients of one member of `Together`
(`who`). A request of a client that vsomeip has registered arrives at the
server in the order it was sent, or is dropped; one of a client that is not
registered is dropped. "other" stands for a client that is not the repository's and
sends any length. `StatusPath` runs the publisher with one viewer. An event goes, when
notified, to a viewer that is subscribed, over UDP: it may be lost, and order is kept.
A status is the number of the frame it came in, so that `ShownAsPublished` can
compare; `kinds` says what the frames were, and lengths decide what is decoded.


## The runs

| run | module, configuration | checks |
|---|---|---|
| `gateway` | `MCUdsGateway`, `MCUdsGateway.cfg` | `TypeOK`, `WriteMutex`, `SocketLifetime`, `ForwarderServesSession`, `AckPrecedesFrames`, `SegmentsInOrder` |
| `system_safety` | `GatewaySystem`, `SystemSafety.cfg` | `SystemTypeOK`, `ResponsesInOrder`, `AckBeforeResponse`, `NoUngrantedCF` |
| `system_losses` | `GatewaySystem`, `SystemLosses.cfg` | `NoMixedResponse`, `RequestIntact` |
| `system_liveness` | `GatewaySystem`, `SystemLiveness.cfg` | `SessionEnds`, `RequestAnswered` |
| `gateway_bytes` | `GatewayBytes`, `GatewayBytes.cfg` | `InStep`, `RequestWhole`, `ResponseWhole` |
| `unified_server` | `MCUnifiedServer`, `UnifiedServer.cfg` | `TypeOK`, `HandlersBeforeClose`, `CleanExit`, `ImplementsService`, `ImplementsStatus`, `ShutdownEnds`, `RequestServed`, `StatusServed` |
| `control_path` | `ControlPath`, `ControlPath.cfg` | `PathTypeOK`, `OneDescriptor`, `BusFollowsSent`, `BusFollowsOrders`, `SurvivesOwnClients`, `OneAfterSignal`, `ImplementsService`, `RequestServed`, `ClientEnds` |
| `status_path` | `StatusPath`, `StatusPath.cfg` | `TypeOK`, `ShownAsPublished`, `ImplementsStatus`, `SignalEnds`, `StatusServed`, `ViewerEnds` |

All of these pass. What the properties of the newer ones say:

- `AckPrecedesFrames`: a request is on the bus only after its 0x8002 was written, or was
  refused by a connection the tester had reset; and as long as the connection is not
  reset, main is in `isotp_send` only with a request whose 0x8002 was written. The code
  promises no more: it does not look at that write. `AckBeforeResponse` has the same
  exception: the response to a request whose acknowledgement was refused may reach the
  next session's tester.
- `InStep`: as long as every header comes in one piece, main takes the tester's messages
  one by one and whole. A header in pieces is what the code gets wrong (`:220`), and no
  property denies it.
- `RequestWhole`: main begins to send every request it takes, once and in order. Of requests
  of 1 to 4095 bytes the ECU has exactly those for which `isotp_send` returned true, with
  all their bytes in order, whatever blocks it grants, whatever WAITs and OVERFLOWs it
  sends, and whatever writes fail, as long as main has not given up Flow Control still
  to come and as long as what is written arrives. Without a mishap, these are all the
  requests. A late Flow Control frame starts the next transfer before its time, which is
  `late_flow_control`.
- `ResponseWhole`: every response of the ECU is put together, without the padding of its
  last frame, unless a runt came. No other frame comes between those of a response here:
  `NoMixedResponse` has these, and the lost ones.
- `BusFollowsSent`: the frames of a client on the bus are commands it gave to
  `app_->send`, in its order and none twice.
- `BusFollowsOrders`: they are also what its user ordered, in the order it was ordered,
  nothing twice, nothing nobody ordered. This is true of the unified client, the control
  client, `veh_cli` and the Qt window, but for what follows. A speed of the Qt slider
  between two steps goes out twice; the two frames then follow each other. A unified
  client at the end of its input sends what an uninitialised `cmd` says. `veh_cli` cuts a
  number to a byte and takes a word for a type or a number as it can (`Misread`). Python's
  window is left out: of its buttons, "Stop" sends an authentication; see below.
- `SurvivesOwnClients`: of the repository's clients only the Qt window, by a password
  of more than seven bytes, makes the server overflow `CanFrame`.
- `OneAfterSignal`: when `g_running` is down the unified client sends one command more at
  most. `ClientEnds`: it then ends, unless the console is blocked in `std::cin`.
- `ShownAsPublished`: what a viewer shows was published, of that kind, and never older
  than what it showed of that kind before; the exception is a distance of less than
  three bytes, of which the subscriber prints what lies behind it.
- `ViewerEnds`: a signal ends the subscriber; closing the Qt window ends it, though
  nothing but the interruption tells the QThread, which may not have begun.

Four runs show a disagreement between the code and what the
repository says of it; each is to find its property violated.

| run | property | what happens |
|---|---|---|
| `late_flow_control` | `NoUngrantedCF` | A Flow Control frame comes after main's two seconds. It stays in the queue, and the next request's transfer takes it for its own: a block goes out that the ECU has not granted. |
| `swallowed_flow_control` | `FcAlwaysQueued` | While the forwarder reassembles a response, a Flow Control frame for main arrives. `isotp_handle_multi_frame` takes it for a wrong consecutive frame; frame and response are both dropped. The comment says such frames are queued unconditionally. |
| `ok_without_command` | `OkMeansSent` | The CAN write of a command fails; the client is answered `VEH_RESP_OK`. |
| `half_open_socket` | `SendInitialises` | `init` fails after `socket()`. From then on `isOpen()` is true, no command initialises the interface again, and every write fails though `can0` is up. |

### Bounds, and why they are enough

- `gateway`: two sessions of two messages at most (routing, diagnostic of one or
  three frames, others) and two frames of seven kinds from the bus in any order. Two
  sessions let state of one meet the next; three-frame requests have blocks that
  end inside and with the request. A sequence modulus of 2 wraps within a request.
  The theorems cover all the rest.
- `system_safety`: two sessions, two requests of three frames each, one unasked message,
  one loss, one wait or overflow, block size 1, punctual. A request takes two
  grants; a leftover of the first session meets the second. `NoUngrantedCF` needs
  `Punctual`: without it `late_flow_control` is its counterexample.
- `system_losses`: two losses anywhere, modulus 2, responses of up to four frames:
  two lost consecutive frames look, by their number, like none; that is the case that
  needs the counting of bytes as well. `Punctual` here excludes an ECU that gives up
  a message just as the gateway grants it and then begins another whose first frame is
  lost: its frames would complete the wrong message. ISO-TP cannot tell these.
- `system_liveness`: two settings in one run, one session, two requests. "late", for
  `SessionEnds`, has everything at once: failing writes, a loss, a wait, late answers.
  What ends a session does not depend on the one before but for the queue and the
  socket's leftovers, which late answers and the second request bring about too.
  `MaxWaits` matters: `isotp_send_consecutive_frames` obeys any number of waits, so an ECU
  that never stops sending them holds the session for ever. "quiet" is what
  `RequestAnswered` needs, each part of it; without it the property is false of the code.
  Late answers: the request may time out. Pipelined requests: `swallowed_flow_control`. An
  unasked message of several frames: its reassembly swallows the Flow Control frame of a
  request in the same way, although the gateway expects such messages
  (`uds_gateway.cpp:159-172`). A second session fails it too, even for a tester that waits:
  the response to a request of the first session is still under way, and its
  reassembly swallows the Flow Control frame of the second session's request. An unasked
  message of one frame is there (`MaxQuietPeriodic` is 1) and does no harm. Requests have
  two consecutive frames, so two blocks; responses none or one.
- `gateway_bytes`: real sizes, on both sides of every edge of the code: payloads of less
  than the addresses, with no UDS byte, of seven and eight bytes (single frame, first
  frame), of 4095 and 4096 (the last one that fits in twelve bits, and the first that does
  not); responses of whole and cut last frames, padded or not. Sequence numbers wrap 36
  times. Block size 2 ends inside a request and with it, 0 is the 4095 of the code. Two
  messages let one meet what the last left behind: one mishap, such as a late Flow Control
  frame or an aborted transfer, and one WAIT are enough for that. The stream is cut inside a header,
  after it and inside the payload.
- `unified_server`: two requests (empty, or longer than a frame) and two status
  frames (too short, or a distance to be cut), of three kinds. Order, and what a
  shutdown interrupts, take two of each; the theorems cover any number.
- `control_path`: two requests, of up to nine bytes; `can0` absent or up, changing at
  will; two lines, clicks or inputs of each client. The unified client's user types a
  direction, the AEB, the exit or a word; `veh_cli`'s a number that is cut to a byte (257), a
  speed, something else, a word, or the end of the input; the slider is moved to
  a step and between two. Passwords of seven bytes fit in a frame with their type, of
  eight they do not. Clients run one at a time: they share nothing
  but the server's queue, which the pair of control client and "other" fills from two
  sides. A third command, or `can0` present and down, adds states and no new
  situation: the theorems on `ControlPath` cover any number, and all clients at once.
- `status_path`: two frames, of one, two or four bytes, of each kind, foreign ones among
  them, each viewer on its own, any number of registrations. The second frame is what can be
  shown before the first; four bytes make a whole distance of the publisher's,
  which sends a frame as it is. `ShownPublished` covers any number.

Deadlock is checked wherever the system goes on: where a program has ended, or its last session is
over, a step `Rest`, `Gone` or a change of `can0` says so; everywhere else something can
always happen. Two runs say `CHECK_DEADLOCK FALSE`, as what they model stops: in `status_path`
publisher and viewer both end, in `gateway_bytes` the connection, or the process.

### Fairness

Weak fairness on each thread, and on the ECU as a whole: the operating system's
scheduler runs runnable threads, timeouts included, and the code's locks are held
for one write only. The tester, the clients, signals, registration, losses, and
`can0` have none. The ECU's fairness is that of a node that goes on working, as
`RequestAnswered` needs; it does not make it choose clear-to-send: the
number of waits is bounded instead. For `StatusPublisher` the failing read is
left out, so that a thread blocked in read() stays there.

In the paths: the servers' threads, the unified client's main and console, the
subscriber's main, the QThread and the window's event loop. Nothing is assumed of the
vsomeip threads, the users, the signals, or whether a request or an event arrives.
The console's fairness does not type lines: a blocked read stays blocked. The listener of
`UnifiedServer` may read a frame, or find none: a read() or poll() that fails
(`:221`, `:225`) leaves everything as it was, so that `StatusServed` assumes that the
socket does not go on reporting errors for ever.

`SessionEnds` says that a tester that hung up is noticed and joined, whatever the two
threads are doing; `ShutdownEnds` and `SignalEnds` that a signal leads to the end of
the process. In the publisher it is an end by `std::terminate` once a registration
has come: main returns with `pub_thread_` joinable. To join it instead would not do,
as the variant `Destroyed_Joined` shows: the thread is blocked in read().


## The proofs

TLAPS proves the following for every value of the constants allowed by the
assumptions the modules state (`GatewayAssumption`, `SystemAssumption`,
`BytesAssumption`, `ServerAssumption`, `ControlAssumption`, `PathAssumption`,
`PublisherAssumption`): any modulus above 1, any block size, any messages and sizes, any
number of sessions, requests, losses and frames, any set of clients at once and whatever
they are given. `PathAssumption` says that the server's `RequestLengths` include what
these clients can send; the control server takes any length.

| theorem | says |
|---|---|
| `TypeCorrect` | `UdsGateway`: every variable keeps to its type |
| `ThreadsSynchronised` | one writer at a time; the forwarder ends before a socket is closed, and only when the session is over |
| `AcknowledgedFirst` | no frame of a request is on the bus before its acknowledgement was written, or was refused by a connection the tester had reset; on any other connection main sends only acknowledged requests |
| `SegmentsOrdered` | every consecutive frame follows its predecessor, with only Flow Control frames between, and carries the next number |
| `SocketsOutliveForwarder`, `SessionsKeepForwarder` | from the above, the two properties by their names: `SocketLifetime`, `ForwarderServesSession` |
| `SystemTypeCorrect` | `GatewaySystem`: every variable keeps to its type, the ECU is never ahead of the bus |
| `SystemIsGateway` | every behaviour of `GatewaySystem` is one of `UdsGateway`, so that all of the above holds of it |
| `AcknowledgedBeforeResponse` | the acknowledgement of a request was written, or refused by a reset connection, before the response to it |
| `ResponsesOrdered` | the tester gets the ECU's messages in the order it began them, none twice |
| `RequestsIntact` | with punctual timeouts, a request the ECU puts together is whole, and they come in order, whatever is lost |
| `NothingUngranted` | with punctual timeouts, no consecutive frame is sent beyond what the ECU granted that request |
| `ResponsesUnmixed` | with punctual timeouts, what the tester gets is a message of the ECU's, whole, never parts of two |
| `MessagesInStep` | `GatewayBytes`: unless a header came in pieces, which the code gets wrong, main takes the stream's messages one by one and whole, wherever else TCP cuts it |
| `RequestsWhole` | main begins to send every request once, in order; of those of up to 4095 bytes the ECU has exactly the ones whose `isotp_send` returned true, with all their bytes, for every size and block size and any failing writes, WAITs, OVERFLOWs and lost Flow Control, as long as none is late and what is written arrives; without mishaps, these are all |
| `ResponsesWhole` | every response is put together with its own bytes and none of the padding, unless a runt came (no other frame comes between) |
| `ServiceInOrder` | `CommandService`: commands tried and answered in order, none twice |
| `ServicePublishesInOrder` | `StatusService`: events in the order of their frames, none twice |
| `ServerTypes`, `ShutdownSafe` | `UnifiedServer`: types; no handler runs when main closes the socket, and main returns with threads joined and sockets closed |
| `ServerExitsClean` | from `ShutdownSafe`: `CleanExit` |
| `UnifiedImplements`, `UnifiedPublishes` | it implements both services |
| `ControlTypes`, `HoldsOneDescriptor`, `ControlImplements` | `ControlServer`: types; one descriptor; it implements `CommandService` |
| `PublisherTypes`, `PublisherImplements` | `StatusPublisher`: types; it implements `StatusService` |
| `UnifiedInOrder`, `UnifiedPublishesInOrder`, `ControlInOrder`, `PublishesInOrder` | of each server what `ServiceInOrder` and `ServicePublishesInOrder` say of the services |
| `SentFollowed` | `ControlPath`: the frames of each client on the bus are commands it sent, in its order, none twice |
| `OrdersFollowed` | the frames of the console clients and the Qt window are what their users ordered, in order, none twice but a speed of the slider; misread input is excepted, Python's window left out |
| `OwnClientsSurvived` | the server goes down only over a request of a foreign client or a password of the Qt window |
| `AtMostOneAfterSignal` | after `g_running` is down the unified client sends one command more at most |
| `PathTypes`, `PathHoldsOneDescriptor`, `PathImplements` in `ControlPathProofs` | types of the server and all its clients; the server's own properties in their company |
| `ShownPublished` | `StatusPath`: what a viewer shows was published, of that kind, and is never older than what it showed before |
| `PathTypes`, `PathImplements` in `StatusPathProofs` | the publisher's properties in the company of a viewer |

How they go:

- *ThreadsSynchronised*. None of the three properties is inductive. `SyncInv` adds
  what keeps them so: the mutex is held by exactly the thread whose program counter is
  inside a write; the forwarder exists exactly from `OpenSession` to `CloseSession`;
  the CAN socket is open as long as it does, the tester's as long as main is in the
  session.
- *AcknowledgedFirst*. `AckInv` adds that from the acknowledgement to the end of
  `isotp_send`, the message at hand has been acknowledged; nothing is ever taken from
  the log of the tester's socket.
- *SegmentsOrdered*. `SegInv` says of a transfer under way that the segment before the
  next consecutive frame is the last one on the bus but for Flow Control, and that
  `seq_num` is the next index modulo `SeqMod`. The arithmetic of the wrapping number
  (counting modulo M, and reducing afterwards, agree) is proved from the division
  property alone, in `MultiplesApart`, `RemainderUnique` and `ModSucc`.
- *SystemIsGateway*. Whatever the ECU does is, to the gateway, a frame on the bus or
  nothing; what the bounds and the punctual timeouts forbid is only less. The step needs
  the types of the frames, that is `SystemInv`. From here on `SegInv`, `SyncInv` and
  `AckInv` are the system's too.
- *AcknowledgedBeforeResponse*, *ResponsesOrdered*. `OrderInv` follows a message through
  the system. `LogInv`: what the ECU puts together grows in number, what it owes answers to
  are the last of these, and no two of its messages have the same number. `RelayInv`: the
  messages with the tester, the one in the forwarder's buffer and those in the socket's come
  in the order in which the ECU began them. `AckedBefore` adds to the first that a response
  is to a request the ECU got, and so (`AckInv`) to one that was acknowledged.
- *RequestsIntact*, *NothingUngranted*. `TransferInv` relates `isotp_send`'s counters with
  the ECU's. At most one Flow Control frame that answers is anywhere between the ECU and
  main, in the socket's buffer or in `fc_frame_queue`, and main waits for just that
  (`OneAnswer`, `AnswersAwaited`, `FirstAwaits`, `OwedAwaited`); so main's `block_left` and
  the ECU's block speak of the same frames (`BlockAgreed`, `NewInBlock`). `Growing`
  is why losses never complete a wrong request: what was lost between frames makes the
  last index run ahead of their count, and a request is whole when the count is the
  announced one. Both are stated as `Punctual => ...`, as a timeout that strikes too early
  really breaks them (`late_flow_control`): the counts of the two sides then part. For
  `NothingUngranted` the frames of a request are mapped, one to one, to the numbers up to what was
  granted (`FramesCounted`).
- *ResponsesUnmixed*. The same in the other direction. What lets the ECU go on is a first frame
  the forwarder has not read, then a Flow Control frame on the bus, then the ECU's own flag:
  `GoAheadInv` says there is one of these at most, and that it is for the message
  the ECU is sending. `ResponseInv` is `Growing` for the forwarder's buffer.
- *MessagesInStep*. `StreamInv`: what has arrived and been read are bytes of the one
  message in front. The proof found a fault in an earlier form of `Dispatch`: two of the guards of
  a CASE overlapped, which left it to the tool which branch was meant.
- *RequestsWhole*, *ResponsesWhole*. `RequestInv` and `ResponseInv` are what a reader
  of the two loops has in mind: between frames, sender and receiver have the same number of
  bytes, expect the same nibble and the same rest of the block. On the way of the requests
  (`Lockstep`) this holds while nothing was late. Whatever write fails then, and whatever
  Flow Control is refused or lost, either main is in step with the ECU (`Together`) or the ECU
  sends no more Flow Control until the next first frame makes it forget what it
  has (`Dead`), and nothing is left in the queue when a transfer is over. The
  lemmas about the last frame of a message and of a block are those where the code
  subtracts from bytes.
- *The services*. `ServiceInv` and `StatusInv` say that what waits is newer than what
  is in the logs and ordered itself; of a command that was tried, that it is the
  oldest request's.
- *The refinements*. `Init` maps to `Init`; each action maps to a step of the service,
  or to a stutter. The invariants say what is in the handler's hands: a request with a
  command, a status frame with a type and a value. Only the safety part of a
  specification is refined; the services state no fairness. What is proved of a service then
  holds of its servers (`UnifiedInOrder` and the others): the proof instantiates the
  service's proof module by the refinement mapping, and shows that it is the same service
  (`SameService`, `SameStatus`).
- *ShutdownSafe*. `ShutdownInv` relates how far main is with where the other threads
  must be.
- *SentFollowed*, *OrdersFollowed*. A command passes five logs: what was typed, pressed or
  set, `sent`, `origin`, the server's queue and `commands`. `EmbedInv` maps what arrived of a
  client to its `sent`; `LinkInv` has the requests to come, the one at hand and the frames on
  the bus in the order of `origin`. Each map is increasing, and their composition is what
  `BusFollowsSent` asks for. From the user to `sent` each client is a case of its own:
  `Obeys` maps the unified client's `sent` to lines typed, one line for each; `ScriptInv` the
  control client's to its script; `CliOrders` and `QtOrders`, together `OrdersInv`, those of
  `veh_cli` and of the Qt window to what was typed and set. `TracesOneMore` is the step all of
  these have in common, one command more for one order more. The window's map does not
  increase where the slider sends a speed again; that its two frames follow each other on the
  bus is `QtInOrder`. A step of the path is one of three for the server (`PathStep`): its own,
  a client that it hears, one that it does not.
- *OwnClientsSurvived*. `Sound` is what each client can send at all: `UnifiedPayload`,
  `ScriptFacts`, `CliRead`, `QtSent`, `PythonSent` show that every command of the
  repository's clients fits into eight bytes but a password of the Qt window. `LinkInv` takes
  it to the request the server is at.
- *AtMostOneAfterSignal* is not inductive: it needs that the console goes on to read only
  while `g_running` is up, so that until a command goes out late all were in time
  (`UnifiedInv`).
- *ShownPublished*. `NumbersInv`: events are numbered by their frames, and rise; `LinkInv`:
  what is on the way to the viewer are such events, in order; `LineInv` puts what was shown
  and what waits to be shown in one line, which climbs and is older than what is on the way.

Only model-checked: all liveness, that is, what TLAPS as installed cannot prove:
`SessionEnds`, `RequestAnswered`, `RequestServed`, `StatusServed`, `ShutdownEnds`,
`SignalEnds`, `ClientEnds`, `ViewerEnds`. Every safety property of a passing run is
a theorem. The four properties of the runs that fail are false, and `NoUngrantedCF` holds and is
proved with `Punctual`.


## Observed and not a run

- **An ignored write** (`uds_gateway.cpp:289-300`): whether the 0x8002 was written is not
  looked at; a request whose tester has reset the connection goes to the ECU all the same.
- **A descriptor lost** (`uds_gateway.cpp:317`, `:321`): `setup_can_socket` returns -1 without
  closing its socket when ioctl or bind fails; with `can0` missing every connection costs one.
- **Huge payloads** (`uds_gateway.cpp:230`): `payload_length` is taken as it comes, up to four
  gigabytes, and the vector of that size may end the process by `std::bad_alloc`.
- **Every CAN interface** (`server/veh_status_publisher.cpp:109-113`): the publisher does not
  look at the result of its ioctl, so that with `can0` missing it may bind to index 0, that
  is to every CAN interface there is. `BusDelivers` does not say where a frame comes from.
- **An unlocked pointer** (`gui_client/vsclientthread.cpp`): `app_` is assigned by the QThread and
  read by the window's thread without a lock.
- **Short header reads** (`uds_gateway.cpp:220`): a DoIP header read in pieces is
  dropped, and the rest of the message read as a header (`ReadHeaderInPieces`).
- **Lengths** (`uds_gateway.cpp:379`, `:517`, `:534`): requests above 4095 bytes announce
  their length modulo 4096, and are sent whole if that is granted; a first frame with
  `can_dlc` below 2, or a diagnostic message without addresses (`:297`), ends the process
  by an exception; a consecutive frame of one byte counts and carries nothing.
- **Services offered again** (`server/veh_unified_server.cpp:57`): ST_REGISTERED that
  comes during the shutdown, after `stop_offer_service`, offers both services again
  until `stop()`. `OfferServices` does it in the model; the commands that come then
  are carried out as ever.
- **Long commands** (`server/veh_control_server.cpp:34`): more than eight bytes are
  copied into eight. `common/veh_control_service.hpp:29` limits a password to seven
  bytes; the Qt client sends any.
- **Comments on CAN identifiers** (`server/veh_control_server.cpp:135`, `:150`): they say
  0x200, the code sends 0x300.
- **Distances**: `README.md` gives a distance as two bytes (`01 F4`); the
  subscriber (`client/veh_status_subscriber.cpp:87-88`) and the Qt client
  (`gui_client/vsclientthread.cpp:120-125`) decode three, the former without looking
  at the length, and `client/veh_gui.py` other codes and the other byte order.
- **Speed slider** (`gui_client/mainwindow.cpp:130-133`): it says it rounds and cuts; and as
  `setValue` calls the slot once more, a speed between two steps is sent twice. The
  comment at `gui_client/vsclientthread.cpp:169` has the server multiply by ten,
  which it does not.
- **Qt start after a failed init** (`gui_client/vsclientthread.cpp:23-25`): `run` starts
  vsomeip whether or not `init_vsomeip` succeeded, on a null `app_` if there is none.
- **Unified client** (`client/veh_unified_client.cpp:70`): a signal while the console
  thread is in `std::cin` waits for a line; at the end of the input `cmd` is uninitialised
  and the loop sends what it holds, or does nothing, at full speed.
- **`veh_cli`**: no number, or the end of the input, is an uncaught exception of
  `std::stoi`; a number above 255 is cut.
- **Control client**: it joins vsomeip's thread, which nobody stops.
- **Python window** (`client/veh_gui.py:117`, `:128`, `:134`): it sends a direction's
  code as the command type, so that "Stop", 5, is an authentication; AEB is 0xA0 and
  parking 0xB0, which no server knows by these numbers but forwards. The bindings
  (`bindings/synapse_vsomeip.cpp:43`) subscribe with the event's number in place of the event
  group's.


## What is not modelled

- Bytes of the gateway's messages other than their count and position: the DoIP header's
  fields, addresses, endianness. A stream whose header came in pieces is left at
  that point: what main reads into such bytes has no order left to check. In
  `UdsGateway` and `GatewaySystem` a message of six bytes or less in a First Frame (no
  consecutive frame due) and a Flow Control frame without data (which acts as an overflow)
  are left out.
- vsomeip, SocketCAN, TCP, Qt and Python themselves: only what the code sees of them.
  vsomeip calls one handler at a time, keeps the order of what it delivers, and drops what
  is sent by a client that is not registered or to a service that is not on offer. Frames
  lost where a receive buffer is full are losses in `GatewaySystem`; elsewhere they are
  frames that did not come.
- Time: how long a timeout is.
- `CanInterface::receiveFrame` has no caller. The logger serialises its lines by a
  mutex and touches nothing else.
- The unified client's `on_event` only prints, as the Qt client's log signals only
  show; the Python status callback is never called, for want of a right subscription.
  Layout of the windows.


## Plan

Done: the gateway, its system and its byte counts; the three servers with their two
services; every client, on the path to or from its server; and proofs of every
safety property the runs check, and of what the services promise, for each server. What
could follow: the two paths with the unified server in the place of the two others, whose
shutdown may then meet a client's requests.
